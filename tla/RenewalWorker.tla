---------------------------- MODULE RenewalWorker ----------------------------
(***************************************************************************)
(* The renewal service worker (assets/sw.js) and the pages that drive it:   *)
(* the wait page (page.js, the worker path of run and rpc) and the driver   *)
(* injected into admitted pages (renew.js).  The worker is one event loop;   *)
(* its rounds suspend at every await, so several of them, messages and the   *)
(* timer interleave at those points and nowhere else.                       *)
(*                                                                         *)
(* The gate is PassChain, seen from one browser: a challenge issued now      *)
(* buys a pass until now + TTL, if its answer arrives before that.          *)
(***************************************************************************)
EXTENDS Integers

CONSTANTS
  Page,         \* tabs of one browser
  TTL,          \* pass_ttl
  HeadroomCap,  \* 3 s: nextDelay renews a third of the TTL early, this at most
  LeastDelay,   \* 1 s: nextDelay's base is never less
  FloorDelay,   \* 400 ms: no delay is less
  Jitter,       \* the widest jitter of either delay
  Stale,        \* DRIVER_STALE_MS, 15 s
  PingEvery,    \* PING_MS, 4 s: a visible driver pings as often
  RpcTimeout,   \* rpc's timeout, 30 s
  RoundTime,    \* RoundTime[kind]: what a round takes on a device that is awake
  SleepTime,    \* how long a device sleeps, when it does
  NoTimer, NoRound,
  MaxRounds,    \* bound: rounds running at once
  MaxTime,      \* bound: the clock stops here
  Faults        \* subset of {"fail", "kill", "sleep"}

Kinds == {"admission", "renewal"}

ASSUME WorkerAssumption ==
  /\ {TTL, HeadroomCap, LeastDelay, FloorDelay} \subseteq Nat \ {0}
  /\ {Jitter, Stale, PingEvery, RpcTimeout, SleepTime} \subseteq Nat
  /\ RoundTime \in [Kinds -> Nat]
  /\ MaxRounds \in Nat \ {0} /\ MaxTime \in Nat
  /\ NoTimer \notin Nat /\ NoRound \notin Nat

VARIABLES
  now,
  lastPingAt, timer, stopped,            \* the worker's globals
  admissionRound, admissionWaiters,
  rounds,    \* the rounds suspended at an await
  page,      \* what each tab shows
  spoke,     \* when it last sent a message, while that matters to it
  expiry,    \* the browser's pass cookie: when it ends
  closedAt,  \* when the last tab was closed, while none is open: history
  kept       \* tabs visible, unstopped since they had a pass to keep: history

globals == <<lastPingAt, timer, stopped, admissionRound, admissionWaiters>>
browser == <<page, spoke, expiry, closedAt, kept>>
vars == <<now, globals, rounds, browser>>

Slots == 1 .. MaxRounds

Idle == [kind |-> "idle"]
Stages == {"probe", "solve", "ask", "confirm"}
Running == [kind : Kinds, stage : Stages,
            begun : Nat, exp : Nat, checked : Nat, live : SUBSET Page]
Shows == {"closed", "waiting", "told", "admitted", "driver", "hidden", "stopped", "orphan"}

TypeOK ==
  /\ now \in Nat /\ lastPingAt \in Nat
  /\ timer \in Nat \cup {NoTimer}
  /\ stopped \in BOOLEAN
  /\ admissionRound \in Slots \cup {NoRound}
  /\ admissionWaiters \subseteq Page
  /\ rounds \in [Slots -> {Idle} \cup Running]
  /\ page \in [Page -> Shows]
  /\ spoke \in [Page -> Nat]
  /\ expiry \in Nat /\ closedAt \in Nat
  /\ kept \subseteq Page

\* A worker that starts has heard nobody: lastPingAt is 0, long before now.  The
\* browser may hold pages whose worker and pass are gone.
Fresh == /\ lastPingAt' = 0 /\ timer' = NoTimer /\ stopped' = FALSE
         /\ admissionRound' = NoRound /\ admissionWaiters' = {}
         /\ rounds' = [s \in Slots |-> Idle]

Init ==
  /\ now = Stale + 1
  /\ lastPingAt = 0 /\ timer = NoTimer /\ stopped = FALSE
  /\ admissionRound = NoRound /\ admissionWaiters = {}
  /\ rounds = [s \in Slots |-> Idle]
  /\ page \in [Page -> {"closed", "hidden"}]
  /\ spoke = [p \in Page |-> 0]
  /\ expiry = 0 /\ closedAt = 0 /\ kept = {}

-----------------------------------------------------------------------------
(* Schedules and rounds.                                                    *)

Least(a, b) == IF a < b THEN a ELSE b
Most(a, b) == IF a < b THEN b ELSE a

\* Any delay from base down by the jitter, none under the floor.
Jittered(base) == {Most(FloorDelay, base - j) : j \in 0 .. Jitter}

Headroom == Least(HeadroomCap, TTL \div 3)

\* A slip: no headroom.
DelaysToTheEnd(exp) == Jittered(Most(LeastDelay, exp - now))

NextDelays(exp) == Jittered(Most(LeastDelay, exp - now - Headroom))

\* retryDelay: as the headroom of the last ttl heard of; or the cap, in a worker that has
\* been started since.  Which of them a worker is, lastTTL, is left open.
RetryDelays ==
  UNION {Jittered(base + Jitter) : base \in {Most(FloorDelay, Headroom), HeadroomCap}}

\* When renewals come in time: a device that is awake ends a round of each kind,
\* one after the other, within the headroom; no delay reaches into it; and pings
\* are more frequent than staleness.  A ttl of a few seconds has no such headroom.
RenewsInTime ==
  /\ RoundTime["renewal"] <= RoundTime["admission"]
  /\ RoundTime["admission"] + RoundTime["renewal"] < Headroom
  /\ Most(LeastDelay, FloorDelay) <= TTL - Headroom
  /\ Most(FloorDelay, HeadroomCap) + Jitter <= TTL - Headroom
  /\ PingEvery <= Stale

\* schedule: the timer that was set gives way.
Schedule(delays) == \E d \in delays : timer' = now + d

\* A round begins in the first free slot: the slots are alike.
Begin(s, kind) ==
  /\ rounds[s] = Idle /\ \A q \in Slots : q < s => rounds[q] # Idle
  /\ rounds' = [rounds EXCEPT ![s] =
       [kind |-> kind, stage |-> "probe", begun |-> now, exp |-> 0,
        checked |-> 0, live |-> {}]]

To(s, stage) == rounds' = [rounds EXCEPT ![s].stage = stage]
AtStage(s, stage) == rounds[s] # Idle /\ rounds[s].stage = stage

-----------------------------------------------------------------------------
(* Messages: handleRPC, start, ping and stop.                               *)

\* Liveness, unless the worker stands down.
HearPing ==
  /\ lastPingAt' = IF stopped THEN lastPingAt ELSE now
  /\ timer' = IF ~ stopped /\ timer = NoTimer THEN now ELSE timer
  /\ UNCHANGED <<stopped, admissionRound, admissionWaiters>>

HearStart ==
  /\ stopped' = FALSE /\ lastPingAt' = now
  /\ timer' = IF timer = NoTimer THEN now ELSE timer
  /\ UNCHANGED <<admissionRound, admissionWaiters>>

HearStop ==
  /\ stopped' = TRUE /\ timer' = NoTimer
  /\ UNCHANGED <<lastPingAt, admissionRound, admissionWaiters>>

\* Slips: a round for every tab, and only the latest tab waits.
SolveAlone(p) ==
  /\ stopped' = FALSE /\ lastPingAt' = now
  /\ admissionWaiters' = admissionWaiters \cup {p}
  /\ \E s \in Slots : Begin(s, "admission") /\ admissionRound' = s
  /\ UNCHANGED timer
SolveForLatest(p) ==
  /\ stopped' = FALSE /\ lastPingAt' = now
  /\ admissionWaiters' = {p}
  /\ IF admissionRound = NoRound
     THEN \E s \in Slots : Begin(s, "admission") /\ admissionRound' = s
     ELSE UNCHANGED <<admissionRound, rounds>>
  /\ UNCHANGED timer

\* "solve": join the admission round, or begin it.
HearSolve(p) ==
  /\ stopped' = FALSE /\ lastPingAt' = now
  /\ admissionWaiters' = admissionWaiters \cup {p}
  /\ IF admissionRound = NoRound
     THEN \E s \in Slots : Begin(s, "admission") /\ admissionRound' = s
     ELSE UNCHANGED <<admissionRound, rounds>>
  /\ UNCHANGED timer

Show(p, what) == page' = [page EXCEPT ![p] = what]
Speak(p) == spoke' = [spoke EXCEPT ![p] = now]
Quiet(p) == spoke' = [spoke EXCEPT ![p] = 0]
Opened == closedAt' = 0

\* Without a pass the visitor gets the wait page, which asks for admission;
\* told of a failure it asks again.
AskAdmission(p) ==
  /\ \/ page[p] \in {"closed", "admitted"} /\ now >= expiry
     \/ page[p] = "told"
  /\ HearSolve(p)
  /\ Show(p, "waiting") /\ Speak(p) /\ Opened
  /\ UNCHANGED <<now, expiry, kept>>

Due(s) == rounds[s].begun + RoundTime[rounds[s].kind]
Overdue(s) == rounds[s] # Idle /\ now > Due(s)

\* The tab is kept, from when it speaks up with enough of a pass to renew: no
\* round is overdue, and the next one is due in time.
Keeps(p) ==
  kept' = IF /\ \A s \in Slots : ~ Overdue(s)
             /\ expiry > (IF timer = NoTimer THEN now ELSE Most(now, timer))
                           + RoundTime["renewal"]
          THEN kept \cup {p} ELSE kept

\* With a pass the visitor gets the site, whose driver says start.
OpenPage(p) ==
  /\ page[p] \in {"closed", "admitted"} /\ now < expiry
  /\ HearStart
  /\ Show(p, "driver") /\ Speak(p) /\ Opened /\ Keeps(p)
  /\ UNCHANGED <<now, rounds, expiry>>

Ping(p) ==
  /\ page[p] \in {"driver", "admitted"} /\ spoke[p] < now
  /\ HearPing /\ Speak(p)
  /\ UNCHANGED <<now, rounds, page, expiry, closedAt, kept>>

\* A hidden tab's pings are throttled away; back in view it pings at once.
Hide(p) ==
  /\ page[p] = "driver"
  /\ Show(p, "hidden") /\ Quiet(p) /\ kept' = kept \ {p}
  /\ UNCHANGED <<now, globals, rounds, expiry, closedAt>>

Reveal(p) ==
  /\ page[p] = "hidden"
  /\ HearPing
  /\ Show(p, "driver") /\ Speak(p)
  /\ IF stopped THEN UNCHANGED kept ELSE Keeps(p)
  /\ UNCHANGED <<now, rounds, expiry, closedAt>>

\* __anteroomRenewal.stop(): the driver stops pinging and the worker is told.
StopRenewal(p) ==
  /\ page[p] = "driver"
  /\ HearStop
  /\ Show(p, "stopped") /\ Quiet(p) /\ kept' = {}
  /\ UNCHANGED <<now, rounds, expiry, closedAt>>

Close(p) ==
  /\ page[p] # "closed"
  /\ Show(p, "closed") /\ Quiet(p) /\ kept' = kept \ {p}
  /\ closedAt' = IF \A q \in Page : page'[q] = "closed" THEN now ELSE 0
  /\ UNCHANGED <<now, globals, rounds, expiry>>

\* rpc gives up on a worker that does not answer.
GiveUp(p) ==
  /\ page[p] \in {"waiting", "orphan"} /\ now >= spoke[p] + RpcTimeout
  /\ Show(p, "told") /\ Quiet(p)
  /\ UNCHANGED <<now, globals, rounds, expiry, closedAt, kept>>

-----------------------------------------------------------------------------
(* The timer and the rounds.                                                *)

\* A slip: the worker renews whether or not anybody is there.
FireAlways ==
  /\ timer # NoTimer /\ now >= timer
  /\ timer' = NoTimer
  /\ \E s \in Slots : Begin(s, "renewal")
  /\ UNCHANGED <<now, lastPingAt, stopped, admissionRound, admissionWaiters, browser>>

\* renew: nothing once no driver has been heard for a while.
FireTimer ==
  /\ timer # NoTimer /\ now >= timer
  /\ timer' = NoTimer
  /\ IF now - lastPingAt > Stale
     THEN UNCHANGED rounds
     ELSE \E s \in Slots : Begin(s, "renewal")
  /\ UNCHANGED <<now, lastPingAt, stopped, admissionRound, admissionWaiters, browser>>

\* The challenge arrives; it was issued somewhere since the round began.
Probed(s) ==
  /\ AtStage(s, "probe")
  /\ rounds' = [rounds EXCEPT ![s].stage = "solve", ![s].exp = now + TTL]
  /\ UNCHANGED <<now, globals, browser>>

\* admissionStillWanted asks the browser for its tabs, once per half second ...
AskWanted(s) ==
  /\ AtStage(s, "solve") /\ rounds[s].kind = "admission"
  /\ admissionWaiters # {} /\ rounds[s].checked < now
  /\ rounds' = [rounds EXCEPT ![s].stage = "ask", ![s].checked = now,
                  ![s].live = {p \in Page : page[p] # "closed"}]
  /\ UNCHANGED <<now, globals, browser>>

\* ... and looks for the waiters there are by then among those there were.
Wanted(s) == rounds[s].live \cap admissionWaiters # {}

StillWanted(s) ==
  /\ AtStage(s, "ask") /\ Wanted(s)
  /\ rounds' = [rounds EXCEPT ![s].stage = "solve", ![s].live = {}]
  /\ UNCHANGED <<now, globals, browser>>

\* A round ends: a renewal reschedules, an admission answers its waiters and is
\* cleared.  An admission that worked schedules only if nothing is scheduled.
Waiting == {p \in admissionWaiters : page[p] = "waiting"}

EndRenewal(s, delays) ==
  /\ rounds[s].kind = "renewal"
  /\ rounds' = [rounds EXCEPT ![s] = Idle]
  /\ Schedule(delays)
  /\ UNCHANGED <<admissionRound, admissionWaiters, page>>

EndAdmission(s, tell) ==
  /\ rounds[s].kind = "admission"
  /\ rounds' = [rounds EXCEPT ![s] = Idle]
  /\ page' = [p \in Page |-> IF p \in Waiting THEN tell ELSE page[p]]
  /\ admissionRound' = NoRound /\ admissionWaiters' = {}

Fails(s) ==
  /\ \/ EndRenewal(s, RetryDelays)
     \/ EndAdmission(s, "told") /\ UNCHANGED timer
  /\ kept' = {}
  /\ UNCHANGED <<now, lastPingAt, stopped, spoke, expiry, closedAt>>

Abandon(s) == AtStage(s, "ask") /\ ~ Wanted(s) /\ Fails(s)
Deadline(s) == AtStage(s, "solve") /\ now >= rounds[s].exp /\ Fails(s)
RoundFails(s) ==
  /\ "fail" \in Faults /\ rounds[s] # Idle /\ ~ AtStage(s, "ask")
  /\ Fails(s)

\* The solution is found and answered: the gate sets the cookie, as long as the
\* challenge's window lasts.
Answered(s) ==
  LET r == rounds[s]
  IN  /\ AtStage(s, "solve") /\ now < r.exp
      /\ expiry' = r.exp
      /\ \/ EndRenewal(s, NextDelays(r.exp))
         \/ /\ r.kind = "admission" /\ To(s, "confirm")
            /\ UNCHANGED <<timer, admissionRound, admissionWaiters, page>>
      /\ UNCHANGED <<now, lastPingAt, stopped, spoke, closedAt, kept>>

\* anteroomConfirmPass found the cookie kept: the tabs that wait are told.
Confirmed(s) ==
  /\ AtStage(s, "confirm")
  /\ IF timer = NoTimer THEN Schedule(NextDelays(rounds[s].exp)) ELSE UNCHANGED timer
  /\ EndAdmission(s, "admitted")
  /\ UNCHANGED <<now, lastPingAt, stopped, spoke, expiry, closedAt, kept>>

-----------------------------------------------------------------------------
\* The browser may end a worker whenever it likes; the next message starts it.
\* Tabs that wait for the one that is gone do not know it: "orphan" is history.
Kill ==
  /\ "kill" \in Faults
  /\ Fresh /\ kept' = {}
  /\ page' = [p \in Page |-> IF page[p] = "waiting" THEN "orphan" ELSE page[p]]
  /\ UNCHANGED <<now, spoke, expiry, closedAt>>

\* A timer that is due fires, a visible driver (and a wait page about to reload)
\* pings and a round gets its answers before time goes on.
Tick ==
  /\ now < MaxTime
  /\ timer # NoTimer => now < timer
  /\ \A p \in Page : page[p] \in {"driver", "admitted"} => now < spoke[p] + PingEvery
  /\ \A s \in Slots : rounds[s] # Idle => now < Due(s)
  /\ now' = now + 1
  /\ UNCHANGED <<globals, rounds, browser>>

\* The device sleeps, and everything with it.  What it was keeping may lapse, and
\* a browser that is closed is closed for as long as it is awake.
Sleep ==
  /\ "sleep" \in Faults /\ now + SleepTime <= MaxTime
  /\ now' = now + SleepTime
  /\ kept' = {} /\ closedAt' = IF closedAt = 0 THEN 0 ELSE closedAt + SleepTime
  /\ UNCHANGED <<globals, rounds, page, spoke, expiry>>

TabStep(p) ==
  \/ AskAdmission(p) \/ OpenPage(p) \/ Ping(p) \/ Hide(p) \/ Reveal(p)
  \/ StopRenewal(p) \/ Close(p) \/ GiveUp(p)

RoundStep(s) ==
  \/ Probed(s) \/ AskWanted(s) \/ StillWanted(s) \/ Abandon(s)
  \/ Deadline(s) \/ RoundFails(s) \/ Answered(s) \/ Confirmed(s)

Next ==
  \/ \E p \in Page : TabStep(p)
  \/ \E s \in Slots : RoundStep(s)
  \/ FireTimer \/ Kill \/ Tick \/ Sleep

Spec == Init /\ [][Next]_vars

-----------------------------------------------------------------------------
(* What the worker promises.                                                *)

\* Tabs that reach the checkpoint together share one admission round: never do two
\* heat the device, and no tab waits in the worker for a round that is not there.
OneAdmission ==
  /\ \A s \in Slots : rounds[s].kind = "admission" <=> s = admissionRound
  /\ admissionWaiters # {} <=> admissionRound # NoRound
  /\ \A p \in Page : page[p] = "waiting" => p \in admissionWaiters

\* A pass never lapses under a tab: while a visible driver has one to keep,
\* whatever other tabs do and however renewals and admissions interleave, the
\* cookie is renewed before it ends (nextDelay's headroom).
KeptAlive == kept # {} => now < expiry

\* A closed browser's pass ends Stale + TTL after the last tab, give or take the
\* round that was just beginning (docs/operating.md: 15 s + pass_ttl).
ClosedBrowserBound ==
  closedAt # 0 =>
    expiry <= closedAt + TTL
                + Most(RoundTime["admission"], Stale + RoundTime["renewal"])

\* No round is abandoned under a tab that waits for it and was open when the
\* browser was asked: the work stops only after every such tab has gone.
NotAbandoned ==
  [][\A p \in Page, s \in Slots :
       /\ AtStage(s, "ask") /\ rounds'[s] = Idle
       /\ page[p] = "waiting" /\ page'[p] # "orphan"
       => p \notin rounds[s].live]_vars

\* Stopped, the worker begins no renewal until a page asks for it again: the
\* comment on `stopped' has only a start from a freshly loaded page resume it.
StaysStopped ==
  [][\A s \in Slots :
       stopped /\ rounds[s] = Idle => rounds'[s].kind # "renewal"]_vars
==============================================================================
