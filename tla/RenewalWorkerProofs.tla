-------------------------- MODULE RenewalWorkerProofs --------------------------
(***************************************************************************)
(* Proofs about RenewalWorker, for any lengths of passes, delays and rounds:  *)
(* one admission for all waiting tabs, nobody is left waiting, a closed        *)
(* browser's pass ends on time, and a pass in view is renewed in time.         *)
(***************************************************************************)
EXTENDS RenewalWorker, TLAPS

\* The constants, one by one.
LEMMA WorkerConstants ==
  /\ TTL \in Nat \ {0} /\ HeadroomCap \in Nat \ {0} /\ LeastDelay \in Nat \ {0}
  /\ FloorDelay \in Nat \ {0} /\ Jitter \in Nat /\ Stale \in Nat /\ PingEvery \in Nat
  /\ RpcTimeout \in Nat /\ SleepTime \in Nat /\ MaxTime \in Nat
  /\ RoundTime["admission"] \in Nat /\ RoundTime["renewal"] \in Nat
  /\ NoRound \notin Slots /\ \A t \in Nat : t # NoTimer
  BY WorkerAssumption DEF Slots, Kinds

\* A date that is not far ahead of now is not far ahead of a later now.
LEMMA Later ==
  ASSUME NEW a \in Nat, NEW b \in Nat, NEW c \in Nat, NEW d \in Nat, a <= b + d, b <= c
  PROVE  a <= c + d
  OBVIOUS

-----------------------------------------------------------------------------
(* What the steps do to the rounds.                                         *)

\* A round is told from an idle slot by its kind.
LEMMA RunningIsNotIdle ==
  /\ Idle.kind = "idle"
  /\ \A r \in Running : r # Idle /\ r.kind \in {"admission", "renewal"}
  BY DEF Idle, Running, Kinds

LEMMA BeginRound ==
  ASSUME TypeOK, NEW s \in Slots, NEW kind \in Kinds, Begin(s, kind)
  PROVE  /\ rounds' \in [Slots -> {Idle} \cup Running]
         /\ rounds[s] = Idle /\ rounds'[s] \in Running
         /\ rounds'[s].kind = kind /\ rounds'[s].stage = "probe"
         /\ rounds'[s].begun = now /\ rounds'[s].exp = 0
         /\ \A q \in Slots : q # s => rounds'[q] = rounds[q]
  BY DEF TypeOK, Begin, Running, Kinds, Stages

\* A round goes on: it is the same round at another stage, and what it is told of
\* the challenge it is told as the first thing.
Continues(s) ==
  /\ rounds' \in [Slots -> {Idle} \cup Running]
  /\ rounds[s] \in Running /\ rounds'[s] \in Running
  /\ rounds'[s].kind = rounds[s].kind /\ rounds'[s].begun = rounds[s].begun
  /\ \/ rounds'[s].exp = now + TTL
     \/ rounds[s].stage # "probe" /\ rounds'[s].exp = rounds[s].exp
  /\ \A q \in Slots : q # s => rounds'[q] = rounds[q]

LEMMA ProbedContinues ==
  ASSUME TypeOK, NEW s \in Slots, Probed(s)
  PROVE  Continues(s)
  <1> DEFINE r == [rounds[s] EXCEPT !.stage = "solve", !.exp = now + TTL]
  <1>1. rounds[s] \in Running /\ now + TTL \in Nat
    BY WorkerConstants DEF TypeOK, Probed, AtStage
  <1>2. rounds' = [rounds EXCEPT ![s] = r]
    BY DEF Probed, TypeOK
  <1>3. r \in Running /\ r.kind = rounds[s].kind /\ r.begun = rounds[s].begun /\ r.exp = now + TTL
    BY <1>1 DEF Running, Stages
  <1> QED BY <1>1, <1>2, <1>3 DEF TypeOK, Continues

LEMMA WantedContinues ==
  ASSUME TypeOK, NEW s \in Slots, AskWanted(s) \/ StillWanted(s)
  PROVE  Continues(s)
  <1>1. rounds[s] \in Running /\ rounds[s].stage # "probe"
    BY DEF TypeOK, AskWanted, StillWanted, AtStage
  <1>2. CASE AskWanted(s)
    <2> DEFINE r == [rounds[s] EXCEPT !.stage = "ask", !.checked = now,
                                      !.live = {p \in Page : page[p] # "closed"}]
    <2>1. rounds' = [rounds EXCEPT ![s] = r]
      BY <1>2 DEF AskWanted, TypeOK
    <2>2. r \in Running /\ r.kind = rounds[s].kind /\ r.begun = rounds[s].begun /\ r.exp = rounds[s].exp
      BY <1>1 DEF Running, Stages, TypeOK
    <2> QED BY <1>1, <2>1, <2>2 DEF TypeOK, Continues
  <1>3. CASE StillWanted(s)
    <2> DEFINE r == [rounds[s] EXCEPT !.stage = "solve", !.live = {}]
    <2>1. rounds' = [rounds EXCEPT ![s] = r]
      BY <1>3 DEF StillWanted, TypeOK
    <2>2. r \in Running /\ r.kind = rounds[s].kind /\ r.begun = rounds[s].begun /\ r.exp = rounds[s].exp
      BY <1>1 DEF Running, Stages
    <2> QED BY <1>1, <2>1, <2>2 DEF TypeOK, Continues
  <1> QED BY <1>2, <1>3

LEMMA ConfirmContinues ==
  ASSUME TypeOK, NEW s \in Slots, AtStage(s, "solve"), To(s, "confirm")
  PROVE  Continues(s)
  <1> DEFINE r == [rounds[s] EXCEPT !.stage = "confirm"]
  <1>1. rounds[s] \in Running /\ rounds[s].stage = "solve"
    BY DEF TypeOK, AtStage
  <1>2. rounds' = [rounds EXCEPT ![s] = r]
    BY DEF To, TypeOK
  <1>3. r \in Running /\ r.kind = rounds[s].kind /\ r.begun = rounds[s].begun /\ r.exp = rounds[s].exp
    BY <1>1 DEF Running, Stages
  <1> QED BY <1>1, <1>2, <1>3 DEF TypeOK, Continues

-----------------------------------------------------------------------------
(* One admission, and what every round and date keeps to.                   *)

\* A challenge is issued after its round began and lasts a pass from then.
RoundRests(r) ==
  r # Idle =>
    /\ r.begun <= now /\ r.exp <= now + TTL
    /\ r.stage # "probe" => r.begun + TTL <= r.exp

Heard == lastPingAt <= now /\ \A p \in Page : spoke[p] <= now

WorkerInv ==
  /\ TypeOK /\ OneAdmission /\ Heard /\ expiry <= now + TTL
  /\ \A s \in Slots : RoundRests(rounds[s])

LEMMA WorkerInitInv == Init => WorkerInv
  <1> SUFFICES ASSUME Init PROVE WorkerInv
    OBVIOUS
  <1>1. TypeOK
    <2>1. page \in [Page -> Shows]
      BY DEF Init, Shows
    <2>2. now \in Nat /\ spoke \in [Page -> Nat] /\ rounds \in [Slots -> {Idle} \cup Running]
      BY WorkerConstants DEF Init
    <2> QED BY <2>1, <2>2 DEF Init, TypeOK
  <1>2. OneAdmission
    BY WorkerConstants DEF Init, OneAdmission, Idle
  <1>3. Heard /\ expiry <= now + TTL
    BY WorkerConstants DEF Init, Heard
  <1> QED BY <1>1, <1>2, <1>3 DEF WorkerInv, RoundRests, Init

\* The rounds keep to it whatever becomes of one of them.
LEMMA BegunRests ==
  ASSUME WorkerInv, NEW s \in Slots, NEW kind \in Kinds, Begin(s, kind), now' = now
  PROVE  (\A q \in Slots : RoundRests(rounds[q]))'
  BY BeginRound, WorkerConstants DEF WorkerInv, RoundRests, TypeOK

LEMMA ContinuedRests ==
  ASSUME WorkerInv, NEW s \in Slots, Continues(s), now' = now
  PROVE  (\A q \in Slots : RoundRests(rounds[q]))'
  <1>1. rounds[s] # Idle /\ rounds[s].begun \in Nat /\ rounds[s].exp \in Nat /\ now \in Nat
    BY RunningIsNotIdle DEF Continues, Running, WorkerInv, TypeOK
  <1>2. rounds[s].begun <= now /\ rounds[s].exp <= now + TTL
        /\ (rounds[s].stage # "probe" => rounds[s].begun + TTL <= rounds[s].exp)
    BY <1>1 DEF WorkerInv, RoundRests
  <1>3. RoundRests(rounds[s])'
    BY <1>1, <1>2, WorkerConstants DEF Continues, RoundRests
  <1> QED BY <1>3 DEF Continues, WorkerInv, RoundRests

LEMMA EndedRests ==
  ASSUME WorkerInv, NEW s \in Slots, rounds' = [rounds EXCEPT ![s] = Idle], now' = now
  PROVE  /\ rounds' \in [Slots -> {Idle} \cup Running]
         /\ (\A q \in Slots : RoundRests(rounds[q]))'
  BY DEF WorkerInv, RoundRests, TypeOK
\* A step that leaves the rounds alone, and lets no tab wait that did not.
LEMMA QuietStep ==
  ASSUME WorkerInv, UNCHANGED <<now, rounds, admissionRound, admissionWaiters, expiry>>,
         lastPingAt' \in {lastPingAt, now}, timer' \in {timer, now, NoTimer},
         stopped' \in BOOLEAN, page' \in [Page -> Shows], spoke' \in [Page -> {0, now} \cup Nat],
         \A q \in Page : spoke'[q] \in {0, now, spoke[q]},
         closedAt' \in Nat, kept' \subseteq Page,
         \A q \in Page : page'[q] = "waiting" => page[q] = "waiting"
  PROVE  WorkerInv'
  <1>1. TypeOK'
    BY DEF WorkerInv, TypeOK
  <1>2. OneAdmission'
    BY DEF WorkerInv, OneAdmission
  <1>3. Heard'
    BY DEF WorkerInv, Heard, TypeOK
  <1>4. (\A q \in Slots : RoundRests(rounds[q]))'
    BY DEF WorkerInv, RoundRests
  <1> QED BY <1>1, <1>2, <1>3, <1>4 DEF WorkerInv

LEMMA OpenPageInv ==
  ASSUME WorkerInv, NEW p \in Page, OpenPage(p)
  PROVE  WorkerInv'
  <1>1. kept \subseteq Page /\ kept' \subseteq Page
    BY DEF OpenPage, Keeps, WorkerInv, TypeOK
  <1>2. /\ page' \in [Page -> Shows] /\ spoke' \in [Page -> Nat]
        /\ \A q \in Page : page'[q] = "waiting" => page[q] = "waiting"
        /\ \A q \in Page : spoke'[q] \in {0, now, spoke[q]}
    BY DEF OpenPage, Show, Speak, Shows, WorkerInv, TypeOK
  <1> QED BY <1>1, <1>2, QuietStep DEF OpenPage, HearStart, Opened

LEMMA PingInv ==
  ASSUME WorkerInv, NEW p \in Page, Ping(p)
  PROVE  WorkerInv'
  <1>1. /\ page' \in [Page -> Shows] /\ spoke' \in [Page -> Nat]
        /\ \A q \in Page : spoke'[q] \in {0, now, spoke[q]}
    BY DEF Ping, Speak, WorkerInv, TypeOK
  <1>2. stopped' \in BOOLEAN /\ closedAt' \in Nat /\ kept' \subseteq Page
    BY DEF Ping, HearPing, WorkerInv, TypeOK
  <1> QED BY <1>1, <1>2, QuietStep DEF Ping, HearPing

LEMMA RevealInv ==
  ASSUME WorkerInv, NEW p \in Page, Reveal(p)
  PROVE  WorkerInv'
  <1>1. /\ page' \in [Page -> Shows] /\ spoke' \in [Page -> Nat]
        /\ \A q \in Page : page'[q] = "waiting" => page[q] = "waiting"
        /\ \A q \in Page : spoke'[q] \in {0, now, spoke[q]}
    BY DEF Reveal, Show, Speak, Shows, WorkerInv, TypeOK
  <1>2. stopped' \in BOOLEAN /\ closedAt' \in Nat /\ kept' \subseteq Page
    <2>1. kept' = kept \/ kept' = kept \cup {p}
      BY DEF Reveal, Keeps
    <2>2. closedAt \in Nat /\ stopped \in BOOLEAN /\ kept \subseteq Page
      BY DEF WorkerInv, TypeOK
    <2>3. stopped' = stopped /\ closedAt' = closedAt
      BY DEF Reveal, HearPing
    <2>4. kept' \subseteq Page
      BY <2>1, <2>2
    <2>5. stopped' \in BOOLEAN
      BY <2>2, <2>3, Zenon
    <2>6. closedAt' \in Nat
      BY <2>2, <2>3
    <2> QED BY <2>4, <2>5, <2>6, Zenon
  <1> QED BY <1>1, <1>2, QuietStep DEF Reveal, HearPing

LEMMA LeaveInv ==
  ASSUME WorkerInv, NEW p \in Page, Hide(p) \/ StopRenewal(p) \/ Close(p) \/ GiveUp(p)
  PROVE  WorkerInv'
  <1>1. /\ page' \in [Page -> Shows] /\ spoke' \in [Page -> Nat]
        /\ \A q \in Page : page'[q] = "waiting" => page[q] = "waiting"
        /\ \A q \in Page : spoke'[q] \in {0, now, spoke[q]}
    BY DEF Hide, StopRenewal, Close, GiveUp, Show, Quiet, Shows, WorkerInv, TypeOK
  <1>2. stopped' \in BOOLEAN /\ closedAt' \in Nat /\ kept' \subseteq Page
    <2>1. closedAt \in Nat /\ now \in Nat /\ stopped \in BOOLEAN /\ kept \subseteq Page
      BY DEF WorkerInv, TypeOK
    <2>2. closedAt' \in {closedAt, now, 0}
      BY DEF Hide, StopRenewal, Close, GiveUp
    <2>3. kept' \subseteq kept
      BY DEF Hide, StopRenewal, Close, GiveUp
    <2>4. stopped' = TRUE \/ stopped' = stopped
      BY Zenon DEF Hide, StopRenewal, Close, GiveUp, HearStop, globals
    <2>5. stopped' \in BOOLEAN
      BY <2>1, <2>4, Zenon
    <2>6. closedAt' \in Nat
      BY <2>1, <2>2
    <2> QED BY <2>1, <2>3, <2>5, <2>6, Zenon
  <1> QED BY <1>1, <1>2, QuietStep DEF Hide, StopRenewal, Close, GiveUp, HearStop, globals

\* Asking for admission joins the round there is, or begins the only one.
LEMMA AskAdmissionInv ==
  ASSUME WorkerInv, NEW p \in Page, AskAdmission(p)
  PROVE  WorkerInv'
  <1>1. /\ page' = [page EXCEPT ![p] = "waiting"] /\ spoke' = [spoke EXCEPT ![p] = now]
        /\ UNCHANGED <<now, expiry, kept, timer>> /\ closedAt' = 0
        /\ stopped' = FALSE /\ lastPingAt' = now
        /\ admissionWaiters' = admissionWaiters \cup {p}
    BY DEF AskAdmission, Show, Speak, Opened, HearSolve
  <1>2. Heard'
    BY <1>1 DEF WorkerInv, Heard, TypeOK
  <1>3. page' \in [Page -> Shows] /\ spoke' \in [Page -> Nat] /\ admissionWaiters' \subseteq Page
    BY <1>1 DEF WorkerInv, TypeOK, Shows
  <1>4. CASE admissionRound = NoRound
    <2>1. PICK s \in Slots : Begin(s, "admission") /\ admissionRound' = s
      BY <1>4 DEF AskAdmission, HearSolve
    <2>2. "admission" \in Kinds
      BY DEF Kinds
    <2>3. TypeOK'
      BY <1>1, <1>3, <2>1, <2>2, BeginRound DEF WorkerInv, TypeOK
    <2>4. OneAdmission'
      BY <1>1, <1>4, <2>1, <2>2, BeginRound, WorkerConstants DEF WorkerInv, OneAdmission, TypeOK
    <2>5. (\A q \in Slots : RoundRests(rounds[q]))'
      BY <1>1, <2>1, <2>2, BegunRests
    <2> QED BY <1>1, <1>2, <2>3, <2>4, <2>5 DEF WorkerInv
  <1>5. CASE admissionRound # NoRound
    <2>1. UNCHANGED <<rounds, admissionRound>>
      BY <1>5 DEF AskAdmission, HearSolve
    <2>2. TypeOK'
      BY <1>1, <1>3, <2>1 DEF WorkerInv, TypeOK
    <2>3. OneAdmission'
      BY <1>1, <1>5, <2>1 DEF WorkerInv, OneAdmission, TypeOK
    <2> QED BY <1>1, <1>2, <2>1, <2>2, <2>3 DEF WorkerInv, RoundRests
  <1> QED BY <1>4, <1>5
LEMMA FireTimerInv ==
  ASSUME WorkerInv, FireTimer
  PROVE  WorkerInv'
  <1>1. /\ UNCHANGED <<now, lastPingAt, stopped, admissionRound, admissionWaiters,
                       page, spoke, expiry, closedAt, kept>>
        /\ timer' = NoTimer
    BY DEF FireTimer, browser
  <1>2. CASE UNCHANGED rounds
    BY <1>1, <1>2, QuietStep DEF WorkerInv, TypeOK
  <1>3. ASSUME NEW s \in Slots, Begin(s, "renewal") PROVE WorkerInv'
    <2>1. "renewal" \in Kinds /\ "renewal" # "admission"
      BY DEF Kinds
    <2>2. TypeOK'
      BY <1>1, <1>3, <2>1, BeginRound DEF WorkerInv, TypeOK
    <2>3. OneAdmission'
      BY <1>1, <1>3, <2>1, BeginRound, RunningIsNotIdle DEF WorkerInv, OneAdmission, TypeOK
    <2>4. (\A q \in Slots : RoundRests(rounds[q]))'
      BY <1>1, <1>3, <2>1, BegunRests
    <2> QED BY <1>1, <2>2, <2>3, <2>4 DEF WorkerInv, Heard
  <1> QED BY <1>2, <1>3 DEF FireTimer

\* A round that goes on, with the cookie as it was or as the round's challenge has it.
LEMMA ContinueInv ==
  ASSUME WorkerInv, NEW s \in Slots, Continues(s), expiry' \in {expiry, rounds[s].exp},
         UNCHANGED <<now, lastPingAt, timer, stopped, admissionRound, admissionWaiters,
                     page, spoke, closedAt, kept>>
  PROVE  WorkerInv'
  <1>1. rounds[s] \in Running /\ rounds[s] # Idle /\ rounds[s].exp \in Nat
    BY RunningIsNotIdle DEF Continues, Running
  <1>2. rounds[s].exp <= now + TTL
    BY <1>1 DEF WorkerInv, RoundRests
  <1>3. TypeOK'
    BY <1>1 DEF Continues, WorkerInv, TypeOK
  <1>4. OneAdmission'
    BY DEF Continues, WorkerInv, OneAdmission
  <1>5. (\A q \in Slots : RoundRests(rounds[q]))'
    BY ContinuedRests
  <1> QED BY <1>2, <1>3, <1>4, <1>5 DEF WorkerInv, Heard

\* How a round ends, whichever way it does.
RenewalEnds(s) ==
  /\ rounds[s].kind = "renewal" /\ rounds' = [rounds EXCEPT ![s] = Idle]
  /\ timer' \in Nat
  /\ UNCHANGED <<admissionRound, admissionWaiters, page>>

AdmissionEnds(s) ==
  /\ rounds[s].kind = "admission" /\ rounds' = [rounds EXCEPT ![s] = Idle]
  /\ \E tell \in {"told", "admitted"} :
       page' = [p \in Page |-> IF p \in Waiting THEN tell ELSE page[p]]
  /\ admissionRound' = NoRound /\ admissionWaiters' = {}
  /\ timer' \in Nat \cup {NoTimer}

LEMMA EndInv ==
  ASSUME WorkerInv, NEW s \in Slots, RenewalEnds(s) \/ AdmissionEnds(s),
         expiry' \in {expiry, rounds[s].exp}, rounds[s] # Idle,
         UNCHANGED <<now, lastPingAt, stopped, spoke, closedAt>>, kept' \in {kept, {}}
  PROVE  WorkerInv'
  <1>1. rounds' = [rounds EXCEPT ![s] = Idle] /\ rounds[s] \in Running
    BY DEF RenewalEnds, AdmissionEnds, WorkerInv, TypeOK
  <1>2. rounds[s].exp \in Nat /\ rounds[s].exp <= now + TTL
    BY <1>1 DEF WorkerInv, RoundRests, Running
  <1>3. /\ rounds' \in [Slots -> {Idle} \cup Running]
        /\ (\A q \in Slots : RoundRests(rounds[q]))'
    BY <1>1, EndedRests
  <1>4. page' \in [Page -> Shows]
    BY DEF RenewalEnds, AdmissionEnds, WorkerInv, TypeOK, Shows
  <1>5. TypeOK'
    BY <1>2, <1>3, <1>4 DEF RenewalEnds, AdmissionEnds, WorkerInv, TypeOK
  <1>6. rounds'[s] = Idle /\ \A q \in Slots : q # s => rounds'[q] = rounds[q]
    BY <1>1 DEF WorkerInv, TypeOK
  <1>7. OneAdmission'
    <2>1. CASE RenewalEnds(s)
      BY <1>6, <2>1, RunningIsNotIdle DEF RenewalEnds, WorkerInv, OneAdmission
    <2>2. CASE AdmissionEnds(s)
      <3>1. s = admissionRound /\ \A q \in Slots : rounds'[q].kind # "admission"
        BY <1>6, <2>2, RunningIsNotIdle DEF AdmissionEnds, WorkerInv, OneAdmission
      <3>2. \A p \in Page : page'[p] # "waiting"
        BY <2>2 DEF AdmissionEnds, Waiting, WorkerInv, OneAdmission
      <3> QED BY <2>2, <3>1, <3>2, WorkerConstants DEF AdmissionEnds, OneAdmission
    <2> QED BY <2>1, <2>2
  <1> QED BY <1>2, <1>3, <1>5, <1>7 DEF WorkerInv, Heard

\* A jittered delay is a number, and no more than its base or the floor.
LEMMA JitterShortens ==
  ASSUME NEW base \in Int, NEW d \in Jittered(base)
  PROVE  d \in Nat /\ d <= Most(FloorDelay, base)
  <1>1. PICK j \in 0 .. Jitter : d = Most(FloorDelay, base - j)
    BY DEF Jittered
  <1> QED BY <1>1, WorkerConstants DEF Most

\* Every delay is a number, and none is set for the past.
LEMMA DelaysAreNumbers ==
  ASSUME now \in Nat
  PROVE  /\ Headroom \in Nat
         /\ \A d \in RetryDelays : d \in Nat
         /\ \A exp \in Nat : \A d \in NextDelays(exp) : d \in Nat
  <1>1. Headroom \in Nat
    BY WorkerConstants DEF Headroom, Least
  <1>2. ASSUME NEW d \in RetryDelays PROVE d \in Nat
    <2>1. PICK base \in {Most(FloorDelay, Headroom), HeadroomCap} : d \in Jittered(base + Jitter)
      BY <1>2 DEF RetryDelays
    <2>2. base + Jitter \in Int
      BY <1>1, WorkerConstants DEF Most
    <2> QED BY <2>1, <2>2, JitterShortens
  <1>3. ASSUME NEW exp \in Nat, NEW d \in NextDelays(exp) PROVE d \in Nat
    <2>1. Most(LeastDelay, exp - now - Headroom) \in Int
      BY <1>1, WorkerConstants DEF Most
    <2> QED BY <1>3, <2>1, JitterShortens DEF NextDelays
  <1> QED BY <1>1, <1>2, <1>3

LEMMA FailsEnds ==
  ASSUME WorkerInv, NEW s \in Slots, Fails(s)
  PROVE  RenewalEnds(s) \/ AdmissionEnds(s)
  <1>1. now \in Nat /\ timer \in Nat \cup {NoTimer}
    BY DEF WorkerInv, TypeOK
  <1>2. CASE EndRenewal(s, RetryDelays)
    BY <1>1, <1>2, DelaysAreNumbers DEF EndRenewal, RenewalEnds, Schedule
  <1>3. CASE EndAdmission(s, "told") /\ UNCHANGED timer
    BY <1>1, <1>3 DEF EndAdmission, AdmissionEnds
  <1> QED BY <1>2, <1>3 DEF Fails

LEMMA RoundStepInv ==
  ASSUME WorkerInv, NEW s \in Slots, RoundStep(s)
  PROVE  WorkerInv'
  <1>1. now \in Nat /\ timer \in Nat \cup {NoTimer} /\ expiry \in Nat
    BY DEF WorkerInv, TypeOK
  <1>2. CASE Probed(s)
    BY <1>2, ProbedContinues, ContinueInv DEF Probed, globals, browser, WorkerInv
  <1>3. CASE AskWanted(s) \/ StillWanted(s)
    BY <1>3, WantedContinues, ContinueInv DEF AskWanted, StillWanted, globals, browser, WorkerInv
  <1>4. CASE Fails(s) /\ rounds[s] # Idle
    BY <1>4, FailsEnds, EndInv DEF Fails
  <1>5. CASE Answered(s)
    <2>1. /\ rounds[s] # Idle /\ rounds[s].stage = "solve" /\ expiry' = rounds[s].exp
          /\ UNCHANGED <<now, lastPingAt, stopped, spoke, closedAt, kept>>
      BY <1>5 DEF Answered, AtStage
    <2>2. rounds[s].exp \in Nat
      BY <2>1 DEF WorkerInv, TypeOK, Running
    <2>3. CASE EndRenewal(s, NextDelays(rounds[s].exp))
      <3>1. RenewalEnds(s)
        BY <1>1, <2>2, <2>3, DelaysAreNumbers DEF EndRenewal, RenewalEnds, Schedule
      <3> QED BY <2>1, <3>1, EndInv
    <2>4. CASE To(s, "confirm") /\ UNCHANGED <<timer, admissionRound, admissionWaiters, page>>
      <3>1. Continues(s)
        BY <1>5, <2>4, ConfirmContinues DEF Answered, WorkerInv
      <3> QED BY <2>1, <2>4, <3>1, ContinueInv
    <2> QED BY <1>5, <2>3, <2>4 DEF Answered
  <1>6. CASE Confirmed(s)
    <2>1. /\ rounds[s] # Idle /\ expiry' = expiry
          /\ UNCHANGED <<now, lastPingAt, stopped, spoke, closedAt, kept>>
          /\ EndAdmission(s, "admitted")
      BY <1>6 DEF Confirmed, AtStage
    <2>2. rounds[s].exp \in Nat
      BY <2>1 DEF WorkerInv, TypeOK, Running
    <2>3. timer' \in Nat \cup {NoTimer}
      BY <1>1, <1>6, <2>2, DelaysAreNumbers DEF Confirmed, Schedule
    <2>4. AdmissionEnds(s)
      BY <2>1, <2>3 DEF EndAdmission, AdmissionEnds
    <2> QED BY <2>1, <2>4, EndInv
  <1> QED BY <1>2, <1>3, <1>4, <1>5, <1>6
       DEF RoundStep, Abandon, Deadline, RoundFails, AtStage

LEMMA KillInv ==
  ASSUME WorkerInv, Kill
  PROVE  WorkerInv'
  <1>1. /\ lastPingAt' = 0 /\ timer' = NoTimer /\ stopped' = FALSE
        /\ admissionRound' = NoRound /\ admissionWaiters' = {} /\ kept' = {}
        /\ rounds' = [q \in Slots |-> Idle] /\ UNCHANGED <<now, spoke, expiry, closedAt>>
        /\ page' = [p \in Page |-> IF page[p] = "waiting" THEN "orphan" ELSE page[p]]
    BY DEF Kill, Fresh
  <1>2. page' \in [Page -> Shows] /\ \A p \in Page : page'[p] # "waiting"
    BY <1>1 DEF WorkerInv, TypeOK, Shows
  <1>3. TypeOK'
    BY <1>1, <1>2 DEF WorkerInv, TypeOK
  <1>4. OneAdmission'
    BY <1>1, <1>2, WorkerConstants, RunningIsNotIdle DEF OneAdmission
  <1>5. Heard' /\ (expiry <= now + TTL)'
    BY <1>1 DEF WorkerInv, Heard, TypeOK
  <1> QED BY <1>1, <1>3, <1>4, <1>5 DEF WorkerInv, RoundRests

\* Time passes, a tick or a night: what is dated stays in the past.
LEMMA TimeInv ==
  ASSUME WorkerInv, Tick \/ Sleep
  PROVE  WorkerInv'
  <1>1. /\ now \in Nat /\ now' \in Nat /\ now <= now'
        /\ UNCHANGED <<lastPingAt, timer, stopped, admissionRound, admissionWaiters,
                       rounds, page, spoke, expiry>>
    BY WorkerConstants DEF Tick, Sleep, globals, browser, WorkerInv, TypeOK
  <1>2. closedAt' \in Nat /\ kept' \subseteq Page
    BY WorkerConstants DEF Tick, Sleep, browser, WorkerInv, TypeOK
  <1>3. TypeOK' /\ OneAdmission'
    BY <1>1, <1>2 DEF WorkerInv, TypeOK, OneAdmission
  <1>4. Heard' /\ (expiry <= now + TTL)'
    <2>1. lastPingAt \in Nat /\ expiry \in Nat /\ \A p \in Page : spoke[p] \in Nat
      BY DEF WorkerInv, TypeOK
    <2>2. lastPingAt <= now /\ expiry <= now + TTL /\ \A p \in Page : spoke[p] <= now
      BY DEF WorkerInv, Heard
    <2>3. \A n \in Nat : n <= now => n <= now'
      BY <1>1
    <2>4. expiry <= now' + TTL
      <3>1. TTL \in Nat /\ now \in Nat /\ now' \in Nat /\ now <= now'
        BY <1>1, WorkerConstants
      <3> QED BY <2>1, <2>2, <3>1, Later
    <2> QED BY <1>1, <2>1, <2>2, <2>3, <2>4 DEF Heard
  <1>5. ASSUME NEW s \in Slots PROVE RoundRests(rounds[s])'
    <2>1. rounds[s] # Idle => rounds[s].begun \in Nat /\ rounds[s].exp \in Nat
      BY DEF WorkerInv, TypeOK, Running
    <2>2. RoundRests(rounds[s])
      BY DEF WorkerInv
    <2> QED BY <1>1, <2>1, <2>2, WorkerConstants DEF RoundRests
  <1> QED BY <1>3, <1>4, <1>5 DEF WorkerInv

\* WorkerInv is inductive.
LEMMA WorkerStep == WorkerInv /\ [Next]_vars => WorkerInv'
  <1> SUFFICES ASSUME WorkerInv, [Next]_vars PROVE WorkerInv'
    OBVIOUS
  <1>1. ASSUME NEW p \in Page, TabStep(p) PROVE WorkerInv'
    BY <1>1, AskAdmissionInv, OpenPageInv, PingInv, RevealInv, LeaveInv DEF TabStep
  <1>2. CASE UNCHANGED vars
    BY <1>2 DEF vars, globals, browser, WorkerInv, TypeOK, OneAdmission, Heard, RoundRests
  <1> QED BY <1>1, <1>2, RoundStepInv, FireTimerInv, KillInv, TimeInv DEF Next
\* Every value the worker, its rounds and the pages keep is of its type.
THEOREM WorkerTypes == Spec => []TypeOK
  <1>1. WorkerInv => TypeOK
    BY DEF WorkerInv
  <1> QED BY <1>1, WorkerInitInv, WorkerStep, PTL DEF Spec

\* Tabs share one admission round (sw.js handleRPC "solve", admissionRound), and a
\* tab waits in the worker only while that round runs: for any number of tabs and
\* rounds, wherever the rounds are suspended and whenever the worker is killed.
THEOREM AdmissionIsShared == Spec => []OneAdmission
  <1>1. WorkerInv => OneAdmission
    BY DEF WorkerInv
  <1> QED BY <1>1, WorkerInitInv, WorkerStep, PTL DEF Spec

-----------------------------------------------------------------------------
(* No round is abandoned under a tab that waits for it.                     *)

\* Only a step of its own ends a round, short of the end of the worker.
LEMMA OthersLeaveIt ==
  ASSUME WorkerInv, Next, NEW s \in Slots, rounds[s] # Idle, rounds'[s] = Idle
  PROVE  Kill \/ RoundStep(s)
  <1>1. \A t \in Slots : \A kind \in Kinds : ~ Begin(t, kind) \/ rounds'[s] = rounds[s]
    BY BeginRound DEF WorkerInv
  <1>2. ASSUME NEW p \in Page, TabStep(p) PROVE FALSE
    <2>1. AskAdmission(p)
      BY <1>2 DEF TabStep, OpenPage, Ping, Hide, Reveal, StopRenewal, Close, GiveUp
    <2> QED BY <1>1, <2>1 DEF AskAdmission, HearSolve, Kinds
  <1>3. ~ FireTimer /\ ~ Tick /\ ~ Sleep
    BY <1>1 DEF FireTimer, Tick, Sleep, Kinds
  <1>4. ASSUME NEW t \in Slots, RoundStep(t), t # s PROVE FALSE
    <2>1. Probed(t) \/ AskWanted(t) \/ StillWanted(t) \/ Fails(t) \/ Answered(t) \/ Confirmed(t)
      BY <1>4 DEF RoundStep, Abandon, Deadline, RoundFails
    <2>2. rounds' = [rounds EXCEPT ![t] = rounds'[t]]
      BY <2>1 DEF Probed, AskWanted, StillWanted, Fails, Answered, Confirmed,
                  EndRenewal, EndAdmission, To, WorkerInv, TypeOK
    <2> QED BY <1>4, <2>2 DEF WorkerInv, TypeOK
  <1> QED BY <1>2, <1>3, <1>4 DEF Next

\* A round is given up for want of waiters only if each tab that waits and was open
\* when the browser was asked has gone (sw.js admissionStillWanted), for any
\* number of tabs that join, leave and close while the question is under way.
THEOREM WaitersAreServed == Spec => NotAbandoned
  <1> DEFINE Kept == \A p \in Page, s \in Slots :
                       /\ AtStage(s, "ask") /\ rounds'[s] = Idle
                       /\ page[p] = "waiting" /\ page'[p] # "orphan"
                       => p \notin rounds[s].live
  <1>1. WorkerInv /\ [Next]_vars => [Kept]_vars
    <2> SUFFICES ASSUME WorkerInv, Next, NEW p \in Page, NEW s \in Slots,
                        AtStage(s, "ask"), rounds'[s] = Idle,
                        page[p] = "waiting", page'[p] # "orphan"
                 PROVE  p \notin rounds[s].live
      OBVIOUS
    <2>1. ~ Kill
      BY DEF Kill
    <2>2. RoundStep(s) /\ rounds[s].stage = "ask"
      BY <2>1, OthersLeaveIt DEF AtStage
    <2>3. ~ StillWanted(s)
      BY WantedContinues, RunningIsNotIdle DEF WorkerInv, Continues
    <2>4. ~ Wanted(s)
      BY <2>2, <2>3 DEF RoundStep, Probed, AskWanted, Abandon, Deadline, RoundFails,
                        Answered, Confirmed, AtStage
    <2>5. p \in admissionWaiters
      BY DEF WorkerInv, OneAdmission
    <2> QED BY <2>4, <2>5 DEF Wanted
  <1> QED BY <1>1, WorkerInitInv, WorkerStep, PTL DEF Spec, NotAbandoned
-----------------------------------------------------------------------------
(* A closed browser.  What still runs then was begun before the last tab went,*)
(* or by the timer while that tab was still heard; and it is over in time.    *)

Beyond == Most(RoundTime["admission"], Stale + RoundTime["renewal"])

WindsDown(r) ==
  r # Idle =>
    /\ r.begun + RoundTime[r.kind] <= closedAt + Beyond
    /\ now <= closedAt + Beyond
    /\ r.exp <= closedAt + TTL + Beyond

ClosedInv ==
  closedAt # 0 =>
    /\ \A p \in Page : page[p] = "closed"
    /\ lastPingAt <= closedAt
    /\ expiry <= closedAt + TTL + Beyond
    /\ \A s \in Slots : WindsDown(rounds[s])

LEMMA BeyondCovers ==
  /\ Beyond \in Nat /\ Stale + RoundTime["renewal"] <= Beyond
  /\ \A kind \in Kinds : RoundTime[kind] \in Nat /\ RoundTime[kind] <= Beyond
  BY WorkerConstants DEF Beyond, Most, Kinds

LEMMA ClosedInit == Init => ClosedInv
  BY DEF Init, ClosedInv

\* The last tab goes: whatever runs was begun by now.
LEMMA CloseWindsDown ==
  ASSUME WorkerInv, ClosedInv, NEW p \in Page, Close(p)
  PROVE  ClosedInv'
  <1>1. /\ UNCHANGED <<now, lastPingAt, rounds, expiry>> /\ now \in Nat
        /\ lastPingAt <= now /\ lastPingAt \in Nat /\ expiry \in Nat /\ expiry <= now + TTL
    BY DEF Close, globals, WorkerInv, TypeOK, Heard
  <1> SUFFICES ASSUME closedAt' # 0 PROVE ClosedInv'
    BY DEF ClosedInv
  <1>2. closedAt' = now /\ \A q \in Page : page'[q] = "closed"
    BY DEF Close
  <1>3. ASSUME NEW s \in Slots PROVE WindsDown(rounds[s])'
    <2> SUFFICES ASSUME rounds[s] # Idle PROVE WindsDown(rounds[s])'
      BY <1>1 DEF WindsDown
    <2> DEFINE r == rounds[s]
               t == RoundTime[r.kind]
    <2>1. r.begun \in Nat /\ r.exp \in Nat /\ r.kind \in Kinds
      BY DEF WorkerInv, TypeOK, Running
    <2>2. r.begun <= now /\ r.exp <= now + TTL
      BY DEF WorkerInv, RoundRests
    <2>3. t \in Nat /\ t <= Beyond /\ Beyond \in Nat /\ TTL \in Nat
      BY <2>1, BeyondCovers, WorkerConstants
    <2>4. r.begun + t <= now + Beyond /\ now <= now + Beyond /\ r.exp <= now + TTL + Beyond
      <3> HIDE DEF r, t
      <3> QED BY <1>1, <2>1, <2>2, <2>3
    <2> QED BY <1>1, <1>2, <2>4 DEF WindsDown
  <1>4. expiry <= now + TTL + Beyond
    BY <1>1, BeyondCovers, WorkerConstants
  <1> QED BY <1>1, <1>2, <1>3, <1>4 DEF ClosedInv

\* A step that sends no message and sets no cookie, at any round, while the clock
\* stands still.
LEMMA StillClosed ==
  ASSUME ClosedInv, UNCHANGED <<now, closedAt, rounds>>, lastPingAt' \in {lastPingAt, 0},
         expiry' = expiry, closedAt \in Nat,
         \A p \in Page : page[p] = "closed" => page'[p] = "closed"
  PROVE  ClosedInv'
  BY DEF ClosedInv, WindsDown

\* One round moves on, or ends.
LEMMA MoveClosed ==
  ASSUME WorkerInv, ClosedInv, NEW s \in Slots, rounds[s] # Idle,
         Continues(s) \/ rounds' = [rounds EXCEPT ![s] = Idle],
         UNCHANGED <<now, closedAt, lastPingAt>>, expiry' \in {expiry, rounds[s].exp},
         \A p \in Page : page[p] = "closed" => page'[p] = "closed"
  PROVE  ClosedInv'
  <1> SUFFICES ASSUME closedAt # 0 PROVE ClosedInv'
    BY DEF ClosedInv
  <1>1. WindsDown(rounds[s]) /\ now \in Nat /\ closedAt \in Nat
    BY DEF ClosedInv, WorkerInv, TypeOK
  <1>2. expiry' <= closedAt + TTL + Beyond
    BY <1>1 DEF ClosedInv, WindsDown
  <1>3. \A q \in Slots : q # s => rounds'[q] = rounds[q]
    BY DEF Continues, WorkerInv, TypeOK
  <1>4. WindsDown(rounds[s])'
    <2>1. CASE Continues(s)
      <3>1. rounds'[s].begun = rounds[s].begun /\ rounds'[s].kind = rounds[s].kind
            /\ rounds'[s].exp \in {now + TTL, rounds[s].exp}
        BY <2>1 DEF Continues
      <3>2. now <= closedAt + Beyond
        BY <1>1 DEF WindsDown
      <3>3. now + TTL <= closedAt + TTL + Beyond
        BY <1>1, <3>2, BeyondCovers, WorkerConstants
      <3> QED BY <1>1, <3>1, <3>3 DEF WindsDown
    <2>2. CASE rounds' = [rounds EXCEPT ![s] = Idle]
      BY <2>2 DEF WindsDown, WorkerInv, TypeOK
    <2> QED BY <2>1, <2>2
  <1> QED BY <1>2, <1>3, <1>4 DEF ClosedInv, WindsDown

\* The timer only begins a round while the last tab is still heard.
LEMMA FireClosed ==
  ASSUME WorkerInv, ClosedInv, FireTimer
  PROVE  ClosedInv'
  <1>1. UNCHANGED <<now, closedAt, lastPingAt, expiry, page>>
    BY DEF FireTimer, browser
  <1>2. CASE UNCHANGED rounds
    BY <1>1, <1>2, StillClosed DEF WorkerInv, TypeOK
  <1>3. ASSUME NEW s \in Slots, Begin(s, "renewal"), ~ (now - lastPingAt > Stale), closedAt # 0
        PROVE  ClosedInv'
    <2>1. "renewal" \in Kinds
      BY DEF Kinds
    <2>2. /\ rounds'[s].kind = "renewal" /\ rounds'[s].begun = now /\ rounds'[s].exp = 0
          /\ \A q \in Slots : q # s => rounds'[q] = rounds[q]
      BY <1>3, <2>1, BeginRound DEF WorkerInv
    <2>3. /\ now \in Nat /\ lastPingAt \in Nat /\ closedAt \in Nat
          /\ lastPingAt <= closedAt /\ now <= lastPingAt + Stale
      BY <1>3, WorkerConstants DEF WorkerInv, TypeOK, ClosedInv
    <2>4. now + RoundTime["renewal"] <= closedAt + Beyond /\ now <= closedAt + Beyond
          /\ 0 <= closedAt + TTL + Beyond
      BY <2>3, BeyondCovers, WorkerConstants
    <2>5. WindsDown(rounds[s])'
      BY <1>1, <2>2, <2>4 DEF WindsDown
    <2> QED BY <1>1, <1>3, <2>2, <2>5 DEF ClosedInv, WindsDown
  <1>4. CASE closedAt = 0
    BY <1>1, <1>4 DEF ClosedInv
  <1> QED BY <1>2, <1>3, <1>4 DEF FireTimer

LEMMA RoundStepClosed ==
  ASSUME WorkerInv, ClosedInv, NEW s \in Slots, RoundStep(s)
  PROVE  ClosedInv'
  <1>1. CASE Probed(s) \/ AskWanted(s) \/ StillWanted(s)
    BY <1>1, ProbedContinues, WantedContinues, MoveClosed
       DEF Probed, AskWanted, StillWanted, AtStage, globals, browser, WorkerInv
  <1>2. ASSUME Fails(s) \/ Answered(s) \/ Confirmed(s)
        PROVE  /\ \A p \in Page : page[p] = "closed" => page'[p] = "closed"
               /\ UNCHANGED <<now, closedAt, lastPingAt>>
    <2>1. page' = page \/ \E tell \in {"told", "admitted"} :
             page' = [p \in Page |-> IF p \in Waiting THEN tell ELSE page[p]]
      BY <1>2 DEF Fails, Answered, Confirmed, EndRenewal, EndAdmission
    <2>2. UNCHANGED <<now, closedAt, lastPingAt>>
      BY <1>2 DEF Fails, Answered, Confirmed
    <2> QED BY <2>1, <2>2 DEF Waiting
  <1>3. CASE Fails(s) /\ rounds[s] # Idle
    BY <1>2, <1>3, MoveClosed DEF Fails, EndRenewal, EndAdmission
  <1>4. CASE Answered(s)
    <2>1. rounds[s] # Idle /\ AtStage(s, "solve") /\ expiry' = rounds[s].exp
      BY <1>4 DEF Answered, AtStage
    <2>2. To(s, "confirm") \/ rounds' = [rounds EXCEPT ![s] = Idle]
      BY <1>4 DEF Answered, EndRenewal
    <2> QED BY <1>2, <1>4, <2>1, <2>2, ConfirmContinues, MoveClosed DEF WorkerInv
  <1>5. CASE Confirmed(s)
    BY <1>2, <1>5, MoveClosed DEF Confirmed, AtStage, EndAdmission
  <1> QED BY <1>1, <1>3, <1>4, <1>5
       DEF RoundStep, Abandon, Deadline, RoundFails, AtStage

LEMMA TimeClosed ==
  ASSUME WorkerInv, ClosedInv, Tick \/ Sleep
  PROVE  ClosedInv'
  <1>1. /\ UNCHANGED <<lastPingAt, rounds, page, expiry>>
        /\ now \in Nat /\ closedAt \in Nat /\ lastPingAt \in Nat /\ expiry \in Nat
    BY DEF Tick, Sleep, globals, browser, WorkerInv, TypeOK
  <1>2. CASE closedAt = 0
    BY <1>2 DEF Tick, Sleep, browser, ClosedInv
  <1>3. CASE Tick /\ closedAt # 0
    <2>1. now' = now + 1 /\ closedAt' = closedAt
      BY <1>3 DEF Tick, browser
    <2>2. ASSUME NEW s \in Slots, rounds[s] # Idle PROVE WindsDown(rounds[s])'
      <3> DEFINE due == rounds[s].begun + RoundTime[rounds[s].kind]
      <3>1. rounds[s].begun \in Nat /\ rounds[s].kind \in Kinds
        BY <2>2 DEF WorkerInv, TypeOK, Running
      <3>2. due \in Nat /\ now < due /\ due <= closedAt + Beyond
        BY <1>3, <2>2, <3>1, BeyondCovers DEF Tick, Due, ClosedInv, WindsDown
      <3>3. now + 1 <= closedAt + Beyond
        <4> HIDE DEF due
        <4> QED BY <1>1, <3>2, BeyondCovers
      <3> QED BY <1>1, <1>3, <2>1, <2>2, <3>3 DEF ClosedInv, WindsDown
    <2> QED BY <1>1, <1>3, <2>1, <2>2 DEF ClosedInv, WindsDown
  <1>4. CASE Sleep /\ closedAt # 0
    <2>1. now' = now + SleepTime /\ closedAt' = closedAt + SleepTime /\ SleepTime \in Nat
      BY <1>4, WorkerConstants DEF Sleep
    <2>2. ASSUME NEW s \in Slots, rounds[s] # Idle PROVE WindsDown(rounds[s])'
      <3> DEFINE due == rounds[s].begun + RoundTime[rounds[s].kind]
      <3>1. rounds[s].begun \in Nat /\ rounds[s].exp \in Nat /\ rounds[s].kind \in Kinds
        BY <2>2 DEF WorkerInv, TypeOK, Running
      <3>2. due \in Nat
        BY <3>1, BeyondCovers
      <3>3. due <= closedAt + Beyond /\ now <= closedAt + Beyond /\ rounds[s].exp <= closedAt + TTL + Beyond
        BY <1>4, <2>2 DEF ClosedInv, WindsDown
      <3>4. /\ due <= closedAt + SleepTime + Beyond
            /\ now + SleepTime <= closedAt + SleepTime + Beyond
            /\ rounds[s].exp <= closedAt + SleepTime + TTL + Beyond
        <4> HIDE DEF due
        <4> QED BY <1>1, <2>1, <3>1, <3>2, <3>3, BeyondCovers, WorkerConstants
      <3> QED BY <1>1, <2>1, <3>4 DEF WindsDown
    <2>3. lastPingAt <= closedAt' /\ expiry <= closedAt' + TTL + Beyond
      BY <1>1, <1>4, <2>1, BeyondCovers, WorkerConstants DEF ClosedInv
    <2>4. \A s \in Slots : WindsDown(rounds[s])'
      BY <1>1, <2>2 DEF WindsDown
    <2>5. \A p \in Page : page'[p] = "closed"
      BY <1>1, <1>4 DEF ClosedInv
    <2> QED BY <1>1, <2>3, <2>4, <2>5 DEF ClosedInv
  <1> QED BY <1>2, <1>3, <1>4

\* A tab that is open means that the browser is not closed.
LEMMA TabClosed ==
  ASSUME WorkerInv, ClosedInv, NEW p \in Page, TabStep(p)
  PROVE  ClosedInv'
  <1>1. CASE AskAdmission(p) \/ OpenPage(p)
    BY <1>1 DEF AskAdmission, OpenPage, Opened, ClosedInv
  <1>2. CASE Ping(p) \/ Hide(p) \/ Reveal(p) \/ StopRenewal(p) \/ GiveUp(p)
    <2>1. page[p] # "closed" /\ closedAt' = closedAt
      BY <1>2 DEF Ping, Hide, Reveal, StopRenewal, GiveUp
    <2> QED BY <2>1 DEF ClosedInv
  <1> QED BY <1>1, <1>2, CloseWindsDown DEF TabStep

\* ClosedInv is inductive, given WorkerInv.
LEMMA ClosedStep == WorkerInv /\ ClosedInv /\ [Next]_vars => ClosedInv'
  <1> SUFFICES ASSUME WorkerInv, ClosedInv, [Next]_vars PROVE ClosedInv'
    OBVIOUS
  <1>1. CASE Kill
    <2>1. /\ UNCHANGED <<now, expiry, closedAt>> /\ lastPingAt' = 0
          /\ \A s \in Slots : rounds'[s] = Idle
          /\ \A p \in Page : page[p] = "closed" => page'[p] = "closed"
      BY <1>1 DEF Kill, Fresh
    <2>2. closedAt \in Nat
      BY DEF WorkerInv, TypeOK
    <2> QED BY <2>1, <2>2 DEF ClosedInv, WindsDown
  <1>2. CASE UNCHANGED vars
    BY <1>2 DEF vars, globals, browser, ClosedInv, WindsDown
  <1> QED BY <1>1, <1>2, TabClosed, RoundStepClosed, FireClosed, TimeClosed DEF Next

\* Nobody's pass outlives his browser by more than the time a worker takes to miss
\* him and a pass (sw.js renew's DRIVER_STALE_MS, docs/operating.md), for any
\* lengths of passes and rounds, whatever runs when the last tab goes.
THEOREM PassesEndWithBrowser == Spec => []ClosedBrowserBound
  <1>1. WorkerInv /\ ClosedInv => ClosedBrowserBound
    BY DEF ClosedInv, ClosedBrowserBound, Beyond
  <1>2. Init => WorkerInv /\ ClosedInv
    BY WorkerInitInv, ClosedInit
  <1>3. WorkerInv /\ ClosedInv /\ [Next]_vars => WorkerInv' /\ ClosedInv'
    BY WorkerStep, ClosedStep
  <1> QED BY <1>1, <1>2, <1>3, PTL DEF Spec
-----------------------------------------------------------------------------
(* A pass that is kept alive.  Under a tab that is kept there is always       *)
(* either a timer or a round that renews before the cookie ends, and what any *)
(* other round may do to the cookie leaves it that long.                      *)

\* No timer is set for the last stretch of a pass that begins now.
TimerNear == timer # NoTimer => timer <= now + TTL - Headroom

\* The tabs that are kept are heard in time.
Attended ==
  /\ ~ stopped
  /\ \A p \in kept : page[p] = "driver" /\ now <= spoke[p] + PingEvery /\ spoke[p] <= lastPingAt

Punctual == \A s \in Slots : rounds[s] # Idle => now <= Due(s)

TimerRenews == /\ timer # NoTimer /\ timer + RoundTime["renewal"] < expiry
               /\ now + RoundTime["renewal"] < expiry
RoundRenews == \E s \in Slots : rounds[s].kind = "renewal" /\ Due(s) < expiry

KeptInv ==
  /\ TimerNear
  /\ kept # {} => Attended /\ Punctual /\ (TimerRenews \/ RoundRenews)

LEMMA Margins ==
  ASSUME RenewsInTime
  PROVE  /\ RoundTime["renewal"] \in Nat /\ RoundTime["admission"] \in Nat
         /\ Headroom \in Nat /\ TTL \in Nat /\ PingEvery \in Nat /\ Stale \in Nat
         /\ RoundTime["renewal"] <= RoundTime["admission"]
         /\ RoundTime["admission"] + RoundTime["renewal"] < Headroom
         /\ Headroom + Headroom <= TTL /\ PingEvery <= Stale
  <1>1. Headroom \in Nat /\ Headroom <= HeadroomCap
    BY WorkerConstants DEF Headroom, Least
  <1>2. Most(FloorDelay, HeadroomCap) + Jitter <= TTL - Headroom
    BY DEF RenewsInTime
  <1>3. Headroom <= Most(FloorDelay, HeadroomCap) /\ Most(FloorDelay, HeadroomCap) \in Nat
    BY <1>1, WorkerConstants DEF Most
  <1>4. Headroom + Headroom <= TTL
    <2>1. TTL \in Nat /\ Jitter \in Nat
      BY WorkerConstants
    <2> QED BY <1>1, <1>2, <1>3, <2>1
  <1> QED BY <1>1, <1>4, WorkerConstants DEF RenewsInTime

LEMMA RetryIsNear ==
  ASSUME RenewsInTime, NEW d \in RetryDelays
  PROVE  d \in Nat /\ d <= TTL - Headroom
  <1>1. Headroom \in Nat /\ Headroom <= HeadroomCap
    BY Margins, WorkerConstants DEF Headroom, Least
  <1>2. PICK base \in {Most(FloorDelay, Headroom), HeadroomCap} : d \in Jittered(base + Jitter)
    BY DEF RetryDelays
  <1>3. /\ base \in Nat /\ base + Jitter \in Int
        /\ Most(FloorDelay, base + Jitter) <= Most(FloorDelay, HeadroomCap) + Jitter
    BY <1>1, WorkerConstants DEF Most
  <1>4. Most(FloorDelay, base + Jitter) \in Int /\ Most(FloorDelay, HeadroomCap) + Jitter \in Int
    BY <1>3, WorkerConstants DEF Most
  <1>5. d \in Nat /\ d <= Most(FloorDelay, base + Jitter)
    BY <1>2, <1>3, JitterShortens
  <1>6. Most(FloorDelay, HeadroomCap) + Jitter <= TTL - Headroom
    BY DEF RenewsInTime
  <1> HIDE DEF RetryDelays
  <1> QED BY <1>1, <1>3, <1>4, <1>5, <1>6, WorkerConstants

\* The delay after a renewal leaves a headroom to the end of the pass.
LEMMA NextIsNear ==
  ASSUME RenewsInTime, now \in Nat, NEW exp \in Nat, NEW d \in NextDelays(exp), exp <= now + TTL
  PROVE  /\ d \in Nat /\ d <= TTL - Headroom
         /\ now + TTL <= exp + RoundTime["admission"] => now + d + RoundTime["renewal"] < exp
  <1> DEFINE base == Most(LeastDelay, exp - now - Headroom)
             R == RoundTime["renewal"]
             A == RoundTime["admission"]
  <1>1. /\ R \in Nat /\ A \in Nat /\ Headroom \in Nat /\ TTL \in Nat
        /\ A + R < Headroom /\ Headroom <= TTL
    BY Margins
  <1>2. /\ LeastDelay \in Nat /\ FloorDelay \in Nat
        /\ LeastDelay <= TTL - Headroom /\ FloorDelay <= TTL - Headroom
    BY <1>1, WorkerConstants DEF RenewsInTime, Most
  <1>3. PICK j \in 0 .. Jitter : d = Most(FloorDelay, base - j)
    BY DEF NextDelays, Jittered
  <1>4. base \in Nat /\ (base = LeastDelay \/ base = exp - now - Headroom)
    BY <1>1, <1>2 DEF Most
  <1>5. d \in Nat /\ (d <= FloorDelay \/ d <= base)
    BY <1>2, <1>3, <1>4, WorkerConstants DEF Most
  <1> HIDE DEF base, R, A
  <1>6. d <= FloorDelay \/ d <= LeastDelay \/ d <= exp - now - Headroom
    BY <1>4, <1>5
  <1>7. d <= TTL - Headroom
    BY <1>1, <1>2, <1>5, <1>6
  <1>8. now + TTL <= exp + A => now + d + R < exp
    <2> SUFFICES ASSUME now + TTL <= exp + A PROVE now + d + R < exp
      OBVIOUS
    <2>1. CASE d <= TTL - Headroom /\ ~ (d <= exp - now - Headroom)
      BY <1>1, <1>5, <2>1
    <2>2. CASE d <= exp - now - Headroom
      BY <1>1, <1>5, <2>2
    <2> QED BY <1>7, <2>1, <2>2
  <1> QED BY <1>5, <1>7, <1>8 DEF A, R

\* A round that is punctual buys nearly a whole pass.
LEMMA BuysAPass ==
  ASSUME RenewsInTime, WorkerInv, Punctual, NEW s \in Slots, rounds[s] # Idle,
         rounds[s].stage # "probe"
  PROVE  /\ rounds[s].exp \in Nat /\ rounds[s].exp <= now + TTL
         /\ now + TTL <= rounds[s].exp + RoundTime["admission"]
         /\ now + RoundTime["renewal"] < rounds[s].exp
  <1> DEFINE r == rounds[s]
             t == RoundTime[r.kind]
  <1>1. r.begun \in Nat /\ r.exp \in Nat /\ r.kind \in Kinds /\ now \in Nat
    BY DEF WorkerInv, TypeOK, Running
  <1>2. t \in Nat /\ t <= RoundTime["admission"]
    BY <1>1, Margins DEF Kinds
  <1>3. now <= r.begun + t /\ r.begun + TTL <= r.exp /\ r.exp <= now + TTL
    BY DEF Punctual, Due, WorkerInv, RoundRests
  <1> HIDE DEF r, t
  <1>4. now + TTL <= r.exp + RoundTime["admission"]
    BY <1>1, <1>2, <1>3, Margins
  <1>5. now + RoundTime["renewal"] < r.exp
    BY <1>1, <1>4, Margins
  <1> QED BY <1>1, <1>3, <1>4, <1>5 DEF r

-----------------------------------------------------------------------------
(* What the steps do to it.                                                 *)

LEMMA KeptInit == Init => KeptInv
  BY DEF Init, KeptInv, TimerNear

\* Nothing becomes of the rounds, the cookie and the time.
LEMMA StillRenews ==
  ASSUME UNCHANGED <<now, rounds, expiry>>
  PROVE  /\ Punctual' <=> Punctual
         /\ RoundRenews' <=> RoundRenews
  BY DEF Punctual, RoundRenews, Due

LEMMA BegunRenews ==
  ASSUME WorkerInv, NEW s \in Slots, NEW kind \in Kinds, Begin(s, kind),
         UNCHANGED <<now, expiry>>
  PROVE  /\ Punctual => Punctual'
         /\ RoundRenews => RoundRenews'
         /\ Due(s)' = now + RoundTime[kind] /\ rounds'[s].kind = kind
  <1>1. /\ rounds[s] = Idle /\ rounds'[s].kind = kind /\ rounds'[s].begun = now
        /\ \A q \in Slots : q # s => rounds'[q] = rounds[q]
    BY BeginRound DEF WorkerInv
  <1>2. Due(s)' = now + RoundTime[kind] /\ \A q \in Slots : q # s => Due(q)' = Due(q)
    BY <1>1 DEF Due
  <1>3. now <= now + RoundTime[kind]
    BY WorkerConstants DEF Kinds, WorkerInv, TypeOK
  <1>4. Punctual => Punctual'
    BY <1>1, <1>2, <1>3 DEF Punctual
  <1>5. RoundRenews => RoundRenews'
    <2>1. \A q \in Slots : rounds[q].kind = "renewal" => q # s
      BY <1>1, RunningIsNotIdle
    <2> QED BY <1>1, <1>2, <2>1 DEF RoundRenews
  <1> QED BY <1>1, <1>2, <1>4, <1>5

\* A round that goes on stays due when it was.
LEMMA ContinuedRenews ==
  ASSUME NEW s \in Slots, Continues(s), UNCHANGED <<now, expiry>>
  PROVE  /\ Punctual => Punctual'
         /\ RoundRenews => RoundRenews'
  <1>1. \A q \in Slots : Due(q)' = Due(q) /\ rounds'[q].kind = rounds[q].kind
    BY DEF Due, Continues
  <1>2. \A q \in Slots : rounds'[q] # Idle => rounds[q] # Idle
    BY RunningIsNotIdle DEF Continues
  <1> QED BY <1>1, <1>2 DEF Punctual, RoundRenews

\* The clock stands still, and a timer that was set, if there is one, is near.
LEMMA TimerStaysNear ==
  ASSUME RenewsInTime, WorkerInv, TimerNear, now' = now, timer' \in {timer, now, NoTimer}
  PROVE  TimerNear'
  <1>1. now \in Nat /\ now <= now + TTL - Headroom
    BY Margins DEF WorkerInv, TypeOK
  <1> QED BY <1>1 DEF TimerNear

\* A tab is kept from when its pass is in good hands.
LEMMA KeepsRenews ==
  ASSUME WorkerInv, KeptInv, NEW p \in Page, Keeps(p), UNCHANGED <<now, rounds, expiry>>,
         timer' = IF timer = NoTimer THEN now ELSE timer, kept' # {}
  PROVE  Punctual' /\ (TimerRenews' \/ RoundRenews')
  <1> DEFINE R == RoundTime["renewal"]
             at == IF timer = NoTimer THEN now ELSE Most(now, timer)
  <1>1. now \in Nat /\ timer \in Nat \cup {NoTimer} /\ expiry \in Nat /\ R \in Nat
        /\ now # NoTimer
    BY WorkerConstants DEF WorkerInv, TypeOK
  <1>2. CASE kept' = kept
    <2>1. Punctual /\ (TimerRenews \/ RoundRenews)
      BY <1>2 DEF KeptInv
    <2>2. TimerRenews => TimerRenews'
      BY DEF TimerRenews
    <2> QED BY <2>1, <2>2, StillRenews
  <1>3. CASE kept' # kept
    <2>1. (\A s \in Slots : ~ Overdue(s)) /\ expiry > at + R
      BY <1>3 DEF Keeps
    <2>2. \A s \in Slots : rounds[s] # Idle => Due(s) \in Nat
      BY WorkerConstants DEF WorkerInv, TypeOK, Running, Due, Kinds
    <2>3. Punctual'
      BY <1>1, <2>1, <2>2, StillRenews DEF Overdue, Punctual
    <2>4. at \in Nat /\ now <= at /\ timer' <= at /\ timer' \in Nat
      BY <1>1 DEF Most
    <2>5. timer' + R < expiry /\ now + R < expiry /\ timer' # NoTimer
      <3> HIDE DEF at, R
      <3> QED BY <1>1, <2>1, <2>4, WorkerConstants
    <2> QED BY <2>3, <2>5 DEF TimerRenews
  <1> QED BY <1>2, <1>3

LEMMA OpenPageKept ==
  ASSUME RenewsInTime, WorkerInv, KeptInv, NEW p \in Page, OpenPage(p)
  PROVE  KeptInv'
  <1>1. /\ UNCHANGED <<now, rounds, expiry>> /\ lastPingAt' = now /\ stopped' = FALSE
        /\ timer' = (IF timer = NoTimer THEN now ELSE timer) /\ Keeps(p)
        /\ page' = [page EXCEPT ![p] = "driver"] /\ spoke' = [spoke EXCEPT ![p] = now]
    BY DEF OpenPage, HearStart, Show, Speak
  <1>2. TimerNear'
    BY <1>1, TimerStaysNear DEF KeptInv
  <1>3. kept' # {} => Punctual' /\ (TimerRenews' \/ RoundRenews')
    BY <1>1, KeepsRenews
  <1>4. Attended'
    <2>1. kept' \subseteq kept \cup {p} /\ now <= now + PingEvery /\ now \in Nat
      BY <1>1, WorkerConstants DEF Keeps, WorkerInv, TypeOK
    <2>2. page'[p] = "driver" /\ spoke'[p] = now
      BY <1>1 DEF WorkerInv, TypeOK
    <2>3. ASSUME NEW q \in kept, q # p
          PROVE  page'[q] = "driver" /\ now <= spoke'[q] + PingEvery /\ spoke'[q] <= now
      BY <1>1, <2>3 DEF KeptInv, Attended, WorkerInv, TypeOK, Heard
    <2> QED BY <1>1, <2>1, <2>2, <2>3 DEF Attended
  <1> QED BY <1>2, <1>3, <1>4 DEF KeptInv


LEMMA RevealKept ==
  ASSUME RenewsInTime, WorkerInv, KeptInv, NEW p \in Page, Reveal(p)
  PROVE  KeptInv'
  <1>1. /\ UNCHANGED <<now, rounds, expiry, stopped>>
        /\ timer' = (IF ~ stopped /\ timer = NoTimer THEN now ELSE timer)
        /\ page' = [page EXCEPT ![p] = "driver"] /\ spoke' = [spoke EXCEPT ![p] = now]
    BY DEF Reveal, HearPing, Show, Speak
  <1>2. TimerNear'
    BY <1>1, TimerStaysNear DEF KeptInv
  <1>3. CASE stopped
    <2>1. kept' = kept /\ kept = {}
      BY <1>3 DEF Reveal, KeptInv, Attended
    <2> QED BY <1>2, <2>1 DEF KeptInv
  <1>4. CASE ~ stopped
    <2>1. Keeps(p) /\ lastPingAt' = now /\ timer' = (IF timer = NoTimer THEN now ELSE timer)
      BY <1>4 DEF Reveal, HearPing
    <2>2. kept' # {} => Punctual' /\ (TimerRenews' \/ RoundRenews')
      BY <1>1, <2>1, KeepsRenews
    <2>3. kept' \subseteq kept \cup {p} /\ now <= now + PingEvery /\ now \in Nat
      BY <2>1, WorkerConstants DEF Keeps, WorkerInv, TypeOK
    <2>4. page'[p] = "driver" /\ spoke'[p] = now
      BY <1>1 DEF WorkerInv, TypeOK
    <2>5. ASSUME NEW q \in kept, q # p
          PROVE  page'[q] = "driver" /\ now <= spoke'[q] + PingEvery /\ spoke'[q] <= now
      BY <1>1, <2>5 DEF KeptInv, Attended, WorkerInv, TypeOK, Heard
    <2>6. Attended'
      BY <1>1, <1>4, <2>1, <2>3, <2>4, <2>5 DEF Attended
    <2> QED BY <1>2, <2>2, <2>6 DEF KeptInv
  <1> QED BY <1>3, <1>4

LEMMA PingKept ==
  ASSUME RenewsInTime, WorkerInv, KeptInv, NEW p \in Page, Ping(p)
  PROVE  KeptInv'
  <1>1. /\ UNCHANGED <<now, rounds, expiry, stopped, page, kept>>
        /\ timer' = (IF ~ stopped /\ timer = NoTimer THEN now ELSE timer)
        /\ lastPingAt' = (IF stopped THEN lastPingAt ELSE now)
        /\ spoke' = [spoke EXCEPT ![p] = now]
    BY DEF Ping, HearPing, Speak
  <1>2. TimerNear'
    BY <1>1, TimerStaysNear DEF KeptInv
  <1> SUFFICES ASSUME kept # {} PROVE KeptInv'
    BY <1>1, <1>2 DEF KeptInv
  <1>3. Attended /\ Punctual /\ (TimerRenews \/ RoundRenews)
    BY DEF KeptInv
  <1>4. TimerRenews => TimerRenews'
    BY <1>1 DEF TimerRenews
  <1>5. Punctual' /\ (TimerRenews' \/ RoundRenews')
    BY <1>1, <1>3, <1>4, StillRenews
  <1>6. now \in Nat /\ now <= now + PingEvery
    BY WorkerConstants DEF WorkerInv, TypeOK
  <1>7. Attended'
    BY <1>1, <1>3, <1>6 DEF Attended, WorkerInv, TypeOK, Heard
  <1> QED BY <1>2, <1>5, <1>7 DEF KeptInv

\* A tab out of view is not kept; one that stops the worker frees it of all of them.
LEMMA LeaveKept ==
  ASSUME RenewsInTime, WorkerInv, KeptInv, NEW p \in Page,
         Hide(p) \/ StopRenewal(p) \/ Close(p) \/ GiveUp(p)
  PROVE  KeptInv'
  <1>1. CASE StopRenewal(p)
    BY <1>1 DEF StopRenewal, HearStop, KeptInv, TimerNear
  <1>2. CASE Hide(p) \/ Close(p) \/ GiveUp(p)
    <2>1. UNCHANGED <<now, rounds, expiry, stopped, timer, lastPingAt>>
      BY <1>2 DEF Hide, Close, GiveUp, globals
    <2>2. TimerNear'
      BY <2>1 DEF KeptInv, TimerNear
    <2> SUFFICES ASSUME kept' # {} PROVE KeptInv'
      BY <2>2 DEF KeptInv
    <2>3. kept' \subseteq kept /\ p \notin kept'
      <3>1. p \in kept => page[p] = "driver"
        BY DEF KeptInv, Attended
      <3> QED BY <1>2, <3>1 DEF Hide, Close, GiveUp
    <2>4. Attended /\ Punctual /\ (TimerRenews \/ RoundRenews)
      BY <2>3 DEF KeptInv
    <2>5. Punctual' /\ (TimerRenews' \/ RoundRenews')
      BY <2>1, <2>4, StillRenews DEF TimerRenews
    <2>6. \A q \in kept' : page'[q] = page[q] /\ spoke'[q] = spoke[q]
      BY <1>2, <2>3 DEF Hide, Close, GiveUp, Show, Quiet, WorkerInv, TypeOK
    <2>7. Attended'
      BY <2>1, <2>3, <2>4, <2>6 DEF Attended
    <2> QED BY <2>2, <2>5, <2>7 DEF KeptInv
  <1> QED BY <1>1, <1>2

LEMMA AskAdmissionKept ==
  ASSUME RenewsInTime, WorkerInv, KeptInv, NEW p \in Page, AskAdmission(p)
  PROVE  KeptInv'
  <1>1. /\ UNCHANGED <<now, expiry, timer, kept>> /\ stopped' = FALSE /\ lastPingAt' = now
        /\ page' = [page EXCEPT ![p] = "waiting"] /\ spoke' = [spoke EXCEPT ![p] = now]
    BY DEF AskAdmission, HearSolve, Show, Speak
  <1>2. TimerNear'
    BY <1>1 DEF KeptInv, TimerNear
  <1> SUFFICES ASSUME kept # {} PROVE KeptInv'
    BY <1>1, <1>2 DEF KeptInv
  <1>3. Attended /\ Punctual /\ (TimerRenews \/ RoundRenews)
    BY DEF KeptInv
  <1>4. (Punctual => Punctual') /\ (RoundRenews => RoundRenews')
    <2>1. UNCHANGED rounds \/ \E s \in Slots : Begin(s, "admission")
      BY DEF AskAdmission, HearSolve
    <2> QED BY <1>1, <2>1, StillRenews, BegunRenews DEF Kinds
  <1>5. TimerRenews => TimerRenews'
    BY <1>1 DEF TimerRenews
  <1>6. p \notin kept
    BY <1>3 DEF AskAdmission, Attended
  <1>7. Attended'
    BY <1>1, <1>3, <1>6 DEF Attended, WorkerInv, TypeOK, Heard
  <1> QED BY <1>2, <1>3, <1>4, <1>5, <1>7 DEF KeptInv

\* The timer that was to renew begins the round that does.
LEMMA FireKept ==
  ASSUME RenewsInTime, WorkerInv, KeptInv, FireTimer
  PROVE  KeptInv'
  <1>1. /\ UNCHANGED <<now, lastPingAt, stopped, page, spoke, expiry, kept>>
        /\ timer' = NoTimer
    BY DEF FireTimer, browser
  <1>2. TimerNear'
    BY <1>1 DEF TimerNear
  <1> SUFFICES ASSUME kept # {} PROVE KeptInv'
    BY <1>1, <1>2 DEF KeptInv
  <1>3. Attended /\ Punctual /\ (TimerRenews \/ RoundRenews)
    BY DEF KeptInv
  <1>4. Attended'
    BY <1>1, <1>3 DEF Attended
  <1>5. ~ (now - lastPingAt > Stale)
    <2>1. PICK p \in kept : now <= spoke[p] + PingEvery /\ spoke[p] <= lastPingAt
      BY <1>3 DEF Attended
    <2>2. now \in Nat /\ lastPingAt \in Nat /\ spoke[p] \in Nat
      BY DEF WorkerInv, TypeOK
    <2> QED BY <2>1, <2>2, Margins
  <1>6. PICK s \in Slots : Begin(s, "renewal")
    BY <1>5 DEF FireTimer
  <1>7. /\ Punctual' /\ (RoundRenews => RoundRenews')
        /\ Due(s)' = now + RoundTime["renewal"] /\ rounds'[s].kind = "renewal"
    BY <1>1, <1>3, <1>6, BegunRenews DEF Kinds
  <1>8. TimerRenews => RoundRenews'
    BY <1>1, <1>7 DEF TimerRenews, RoundRenews
  <1> QED BY <1>2, <1>3, <1>4, <1>7, <1>8 DEF KeptInv

\* Time goes on only as long as everything is in time.
LEMMA TickKept ==
  ASSUME RenewsInTime, WorkerInv, KeptInv, Tick
  PROVE  KeptInv'
  <1>1. /\ UNCHANGED <<lastPingAt, stopped, timer, rounds, page, spoke, expiry, kept>>
        /\ now' = now + 1 /\ now \in Nat /\ timer \in Nat \cup {NoTimer} /\ expiry \in Nat
        /\ timer # NoTimer => now < timer
        /\ \A p \in Page : spoke[p] \in Nat
    BY DEF Tick, globals, browser, WorkerInv, TypeOK
  <1>2. TimerNear'
    <2> SUFFICES ASSUME timer # NoTimer PROVE timer <= now + 1 + TTL - Headroom
      BY <1>1 DEF TimerNear
    <2>1. timer <= now + TTL - Headroom /\ timer \in Nat
      BY <1>1 DEF KeptInv, TimerNear
    <2> QED BY <1>1, <2>1, Margins
  <1> SUFFICES ASSUME kept # {} PROVE KeptInv'
    BY <1>1, <1>2 DEF KeptInv
  <1>3. Attended /\ Punctual /\ (TimerRenews \/ RoundRenews)
    BY DEF KeptInv
  <1>4. Attended'
    <2>1. \A p \in kept : p \in Page
      BY DEF WorkerInv, TypeOK
    <2>2. \A p \in kept : now < spoke[p] + PingEvery
      BY <1>3, <2>1 DEF Tick, Attended
    <2>3. \A p \in kept : now + 1 <= spoke[p] + PingEvery
      BY <1>1, <2>1, <2>2, Margins
    <2> QED BY <1>1, <1>3, <2>3 DEF Attended
  <1>5. \A s \in Slots : Due(s)' = Due(s)
    BY <1>1 DEF Due
  <1>6. Punctual'
    <2>1. \A s \in Slots : rounds[s] # Idle => Due(s) \in Nat /\ now < Due(s)
      BY WorkerConstants DEF Tick, WorkerInv, TypeOK, Running, Due, Kinds
    <2>2. \A s \in Slots : rounds[s] # Idle => now + 1 <= Due(s)
      BY <1>1, <2>1
    <2> QED BY <1>1, <1>5, <2>2 DEF Punctual
  <1>7. RoundRenews => RoundRenews'
    BY <1>1, <1>5 DEF RoundRenews
  <1>8. TimerRenews => TimerRenews'
    <2> SUFFICES ASSUME TimerRenews PROVE now + 1 + RoundTime["renewal"] < expiry
      BY <1>1 DEF TimerRenews
    <2>1. timer \in Nat /\ now < timer /\ timer + RoundTime["renewal"] < expiry
      BY <1>1 DEF TimerRenews
    <2> QED BY <1>1, <2>1, Margins
  <1> QED BY <1>2, <1>3, <1>4, <1>6, <1>7, <1>8 DEF KeptInv

\* What nobody is kept by keeps to nothing but the timer.
LEMMA NobodyKept ==
  ASSUME RenewsInTime, WorkerInv, KeptInv, Kill \/ Sleep
  PROVE  KeptInv'
  <1>1. CASE Kill
    BY <1>1 DEF Kill, Fresh, KeptInv, TimerNear
  <1>2. CASE Sleep
    <2>1. timer' = timer /\ now' = now + SleepTime /\ kept' = {}
      BY <1>2 DEF Sleep, globals
    <2>2. timer # NoTimer => timer <= now + SleepTime + TTL - Headroom
      <3>1. now \in Nat /\ timer \in Nat \cup {NoTimer} /\ SleepTime \in Nat
        BY WorkerConstants DEF WorkerInv, TypeOK
      <3> QED BY <3>1, Margins DEF KeptInv, TimerNear
    <2> QED BY <2>1, <2>2 DEF KeptInv, TimerNear
  <1> QED BY <1>1, <1>2


\* A tab goes on being kept by a worker that goes on hearing it.
LEMMA StillAttended ==
  ASSUME WorkerInv, Attended, UNCHANGED <<now, lastPingAt, stopped, spoke, kept>>,
         \A p \in Page : page[p] # "waiting" => page'[p] = page[p]
  PROVE  Attended'
  <1>1. \A p \in kept : p \in Page /\ page[p] = "driver"
    BY DEF Attended, WorkerInv, TypeOK
  <1> QED BY <1>1 DEF Attended

LEMMA GoesOnKept ==
  ASSUME RenewsInTime, WorkerInv, KeptInv, NEW s \in Slots,
         Probed(s) \/ AskWanted(s) \/ StillWanted(s)
  PROVE  KeptInv'
  <1>1. /\ UNCHANGED <<now, lastPingAt, timer, stopped, page, spoke, expiry, kept>>
        /\ Continues(s)
    BY ProbedContinues, WantedContinues
       DEF Probed, AskWanted, StillWanted, globals, browser, WorkerInv
  <1>2. TimerNear'
    BY <1>1 DEF KeptInv, TimerNear
  <1> SUFFICES ASSUME kept # {} PROVE KeptInv'
    BY <1>1, <1>2 DEF KeptInv
  <1>3. Attended /\ Punctual /\ (TimerRenews \/ RoundRenews)
    BY DEF KeptInv
  <1>4. Attended' /\ Punctual' /\ (TimerRenews' \/ RoundRenews')
    BY <1>1, <1>3, StillAttended, ContinuedRenews DEF TimerRenews
  <1> QED BY <1>2, <1>4 DEF KeptInv

LEMMA FailsKept ==
  ASSUME RenewsInTime, WorkerInv, KeptInv, NEW s \in Slots, Fails(s)
  PROVE  KeptInv'
  <1>1. kept' = {} /\ now' = now /\ now \in Nat
    BY DEF Fails, WorkerInv, TypeOK
  <1>2. timer' = timer \/ \E d \in RetryDelays : timer' = now + d
    BY DEF Fails, EndRenewal, Schedule
  <1>3. TimerNear'
    <2>1. \A d \in RetryDelays : d \in Nat /\ d <= TTL - Headroom
      BY RetryIsNear
    <2>2. \A d \in RetryDelays : now + d <= now + TTL - Headroom
      BY <1>1, <2>1, Margins
    <2> QED BY <1>1, <1>2, <2>2 DEF KeptInv, TimerNear
  <1> QED BY <1>1, <1>3 DEF KeptInv

\* A round that has ended is nobody's renewal; the others are what they were.
LEMMA EndedRenews ==
  ASSUME WorkerInv, NEW s \in Slots, rounds' = [rounds EXCEPT ![s] = Idle], now' = now
  PROVE  /\ Punctual => Punctual'
         /\ \A q \in Slots : q # s => rounds'[q] = rounds[q] /\ Due(q)' = Due(q)
  <1>1. rounds'[s] = Idle /\ \A q \in Slots : q # s => rounds'[q] = rounds[q]
    BY DEF WorkerInv, TypeOK
  <1>2. \A q \in Slots : q # s => Due(q)' = Due(q)
    BY <1>1 DEF Due
  <1> QED BY <1>1, <1>2 DEF Punctual

\* A renewal that is answered in time sets the timer for the next one, in time.
LEMMA RenewedKept ==
  ASSUME RenewsInTime, WorkerInv, KeptInv, NEW s \in Slots, Answered(s),
         EndRenewal(s, NextDelays(rounds[s].exp))
  PROVE  KeptInv'
  <1> DEFINE exp == rounds[s].exp
  <1>1. /\ UNCHANGED <<now, lastPingAt, stopped, spoke, kept, page>> /\ expiry' = exp
        /\ rounds' = [rounds EXCEPT ![s] = Idle]
        /\ rounds[s] # Idle /\ rounds[s].stage = "solve"
    BY DEF Answered, EndRenewal, AtStage
  <1>2. now \in Nat /\ exp \in Nat /\ exp <= now + TTL
    BY <1>1 DEF WorkerInv, TypeOK, Running, RoundRests
  <1>3. PICK d \in NextDelays(exp) : timer' = now + d
    BY DEF EndRenewal, Schedule
  <1>4. /\ d \in Nat /\ d <= TTL - Headroom
        /\ now + TTL <= exp + RoundTime["admission"] => now + d + RoundTime["renewal"] < exp
    BY <1>2, <1>3, NextIsNear
  <1>5. TimerNear'
    <2>1. now + d <= now + TTL - Headroom
      BY <1>2, <1>4, Margins
    <2> QED BY <1>1, <1>3, <2>1 DEF TimerNear
  <1> SUFFICES ASSUME kept # {} PROVE KeptInv'
    BY <1>1, <1>5 DEF KeptInv
  <1>6. Attended /\ Punctual
    BY DEF KeptInv
  <1>7. Attended' /\ Punctual'
    BY <1>1, <1>6, StillAttended, EndedRenews
  <1>8. now + d + RoundTime["renewal"] < exp /\ now + RoundTime["renewal"] < exp
    BY <1>1, <1>4, <1>6, BuysAPass
  <1>9. TimerRenews'
    BY <1>1, <1>2, <1>3, <1>4, <1>8, WorkerConstants DEF TimerRenews
  <1> QED BY <1>5, <1>7, <1>9 DEF KeptInv

\* An admission that is answered may shorten the cookie, and not by so much that
\* the renewal at hand would come too late.
LEMMA AdmittedKept ==
  ASSUME RenewsInTime, WorkerInv, KeptInv, NEW s \in Slots, Answered(s),
         rounds[s].kind = "admission", To(s, "confirm"), UNCHANGED <<timer, page>>
  PROVE  KeptInv'
  <1> DEFINE exp == rounds[s].exp
             R == RoundTime["renewal"]
             A == RoundTime["admission"]
  <1>1. /\ UNCHANGED <<now, lastPingAt, stopped, spoke, kept, page, timer>> /\ expiry' = exp
        /\ Continues(s) /\ rounds[s] # Idle /\ rounds[s].stage = "solve"
    BY ConfirmContinues DEF Answered, AtStage, WorkerInv
  <1>2. TimerNear'
    BY <1>1 DEF KeptInv, TimerNear
  <1> SUFFICES ASSUME kept # {} PROVE KeptInv'
    BY <1>1, <1>2 DEF KeptInv
  <1>3. Attended /\ Punctual /\ (TimerRenews \/ RoundRenews) /\ TimerNear
    BY DEF KeptInv
  <1>4. now \in Nat /\ exp \in Nat /\ now + TTL <= exp + A /\ now + R < exp
    BY <1>1, <1>3, BuysAPass DEF WorkerInv, TypeOK
  <1>5. Attended'
    BY <1>1, <1>3, StillAttended
  <1>6. \A q \in Slots : Due(q)' = Due(q) /\ rounds'[q].kind = rounds[q].kind
    BY <1>1 DEF Due, Continues
  <1>7. Punctual'
    BY <1>1, <1>3, <1>6 DEF Punctual, Continues
  <1>8. TimerRenews => TimerRenews'
    <2> SUFFICES ASSUME timer # NoTimer PROVE timer + R < exp
      BY <1>1, <1>4 DEF TimerRenews
    <2>1. timer \in Nat /\ timer <= now + TTL - Headroom
      BY <1>3 DEF TimerNear, WorkerInv, TypeOK
    <2>2. R \in Nat /\ A \in Nat /\ A + R < Headroom /\ Headroom \in Nat /\ TTL \in Nat
      BY Margins
    <2> HIDE DEF exp, R, A
    <2> QED BY <1>4, <2>1, <2>2
  <1>9. RoundRenews => RoundRenews'
    <2> SUFFICES ASSUME NEW q \in Slots, rounds[q].kind = "renewal" PROVE RoundRenews'
      BY DEF RoundRenews
    <2>1. rounds[q] \in Running /\ rounds[q] # Idle
      BY RunningIsNotIdle DEF WorkerInv, TypeOK
    <2>2. rounds[q].begun \in Nat /\ rounds[q].begun <= now /\ Due(q) = rounds[q].begun + R
      BY <2>1 DEF WorkerInv, RoundRests, Running, Due
    <2>3. Due(q) < exp
      <3>1. R \in Nat
        BY Margins
      <3> QED BY <1>4, <2>2, <3>1
    <2> QED BY <1>1, <1>6, <2>3 DEF RoundRenews
  <1> QED BY <1>2, <1>3, <1>5, <1>7, <1>8, <1>9 DEF KeptInv

\* An admission that is confirmed leaves the renewal at hand alone.
LEMMA ConfirmedKept ==
  ASSUME RenewsInTime, WorkerInv, KeptInv, NEW s \in Slots, Confirmed(s)
  PROVE  KeptInv'
  <1> DEFINE exp == rounds[s].exp
  <1>1. /\ UNCHANGED <<now, lastPingAt, stopped, spoke, kept, expiry>>
        /\ rounds' = [rounds EXCEPT ![s] = Idle] /\ rounds[s].kind = "admission"
        /\ rounds[s] # Idle
        /\ \A p \in Page : page[p] # "waiting" => page'[p] = page[p]
    BY DEF Confirmed, EndAdmission, AtStage, Waiting
  <1>2. now \in Nat /\ exp \in Nat /\ exp <= now + TTL
    BY <1>1 DEF WorkerInv, TypeOK, Running, RoundRests
  <1>3. TimerNear'
    <2>1. CASE timer # NoTimer
      BY <1>1, <2>1 DEF Confirmed, KeptInv, TimerNear
    <2>2. CASE timer = NoTimer
      <3>1. PICK d \in NextDelays(exp) : timer' = now + d
        BY <2>2 DEF Confirmed, Schedule
      <3>2. d \in Nat /\ d <= TTL - Headroom
        BY <1>2, <3>1, NextIsNear
      <3>3. now + d <= now + TTL - Headroom
        BY <1>2, <3>2, Margins
      <3> QED BY <1>1, <3>1, <3>3 DEF TimerNear
    <2> QED BY <2>1, <2>2
  <1> SUFFICES ASSUME kept # {} PROVE KeptInv'
    BY <1>1, <1>3 DEF KeptInv
  <1>4. Attended /\ Punctual /\ (TimerRenews \/ RoundRenews)
    BY DEF KeptInv
  <1>5. Attended' /\ Punctual'
    BY <1>1, <1>4, StillAttended, EndedRenews
  <1>6. TimerRenews => TimerRenews'
    BY <1>1 DEF TimerRenews, Confirmed
  <1>7. RoundRenews => RoundRenews'
    BY <1>1, EndedRenews DEF RoundRenews
  <1> QED BY <1>3, <1>4, <1>5, <1>6, <1>7 DEF KeptInv

LEMMA RoundStepKept ==
  ASSUME RenewsInTime, WorkerInv, KeptInv, NEW s \in Slots, RoundStep(s)
  PROVE  KeptInv'
  <1>1. CASE Probed(s) \/ AskWanted(s) \/ StillWanted(s)
    BY <1>1, GoesOnKept
  <1>2. CASE Fails(s)
    BY <1>2, FailsKept
  <1>3. CASE Answered(s)
    <2>1. \/ EndRenewal(s, NextDelays(rounds[s].exp))
          \/ rounds[s].kind = "admission" /\ To(s, "confirm") /\ UNCHANGED <<timer, page>>
      BY <1>3 DEF Answered
    <2> QED BY <1>3, <2>1, RenewedKept, AdmittedKept
  <1>4. CASE Confirmed(s)
    BY <1>4, ConfirmedKept
  <1> QED BY <1>1, <1>2, <1>3, <1>4 DEF RoundStep, Abandon, Deadline, RoundFails

\* KeptInv is inductive, given WorkerInv, when renewals come in time.
LEMMA KeptStep ==
  ASSUME RenewsInTime
  PROVE  WorkerInv /\ KeptInv /\ [Next]_vars => KeptInv'
  <1> SUFFICES ASSUME WorkerInv, KeptInv, [Next]_vars PROVE KeptInv'
    OBVIOUS
  <1>1. ASSUME NEW p \in Page, TabStep(p) PROVE KeptInv'
    BY <1>1, AskAdmissionKept, OpenPageKept, PingKept, RevealKept, LeaveKept DEF TabStep
  <1>2. CASE UNCHANGED vars
    <2>1. /\ Attended' <=> Attended
          /\ TimerRenews' <=> TimerRenews
          /\ TimerNear' <=> TimerNear
      BY <1>2 DEF vars, globals, browser, Attended, TimerRenews, TimerNear
    <2>2. UNCHANGED <<now, rounds, expiry, kept>>
      BY <1>2 DEF vars, browser
    <2> QED BY <2>1, <2>2, StillRenews DEF KeptInv
  <1> QED BY <1>1, <1>2, RoundStepKept, FireKept, TickKept, NobodyKept DEF Next

\* A pass in view never lapses (sw.js nextDelay, its headroom), for any number of
\* tabs and rounds: as long as a device that is awake ends an admission and a
\* renewal, one after the other, within the headroom and no delay reaches into it.
THEOREM PassesAreKept ==
  ASSUME RenewsInTime
  PROVE  Spec => []KeptAlive
  <1>1. WorkerInv /\ KeptInv => KeptAlive
    <2> SUFFICES ASSUME WorkerInv, KeptInv, kept # {} PROVE now < expiry
      BY DEF KeptAlive
    <2>1. now \in Nat /\ expiry \in Nat /\ RoundTime["renewal"] \in Nat
      BY WorkerConstants DEF WorkerInv, TypeOK
    <2>2. CASE TimerRenews
      BY <2>1, <2>2 DEF TimerRenews
    <2>3. CASE RoundRenews
      <3>1. PICK s \in Slots : rounds[s].kind = "renewal" /\ Due(s) < expiry
        BY <2>3 DEF RoundRenews
      <3>2. rounds[s] \in Running /\ rounds[s] # Idle
        BY <3>1, RunningIsNotIdle DEF WorkerInv, TypeOK
      <3>3. now <= Due(s) /\ Due(s) \in Nat
        BY <3>1, <3>2, <2>1 DEF KeptInv, Punctual, Due, Running
      <3> QED BY <2>1, <3>1, <3>3
    <2> QED BY <2>2, <2>3 DEF KeptInv
  <1>2. Init => WorkerInv /\ KeptInv
    BY WorkerInitInv, KeptInit
  <1>3. WorkerInv /\ KeptInv /\ [Next]_vars => WorkerInv' /\ KeptInv'
    BY WorkerStep, KeptStep
  <1> QED BY <1>1, <1>2, <1>3, PTL DEF Spec

================================================================================
