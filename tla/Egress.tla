-------------------------------- MODULE Egress --------------------------------
(*******************************************************************************)
(* The guards on facilitator egress: payment/guards.go Breaker and the egress  *)
(* slots of payment/callback.go Verify, which holds no lock across its round   *)
(* trips: every breaker method is one lock section, and the sections of        *)
(* several calls interleave.  The verdicts themselves are modelled in PayDoor. *)
(*******************************************************************************)
EXTENDS Integers, FiniteSets, Sequences

CONSTANTS
  Call,            \* presentations that may be in Verify at once
  Threshold,       \* breakerThreshold, 3
  Window,          \* breakerWindow, 30 s
  Cooldown,        \* breakerCooldown, 30 s
  MaxInFlight,     \* maxInFlight, 16
  MaxTicks         \* bound: the clock stops here

ASSUME EgressAssumption ==
  /\ {Threshold, Window, Cooldown, MaxInFlight} \subseteq Nat \ {0}
  /\ MaxTicks \in Nat

VARIABLES
  time,
  failures,   \* Breaker.failures: instants, oldest first
  openUntil,  \* Breaker.openUntil, 0 for the zero time
  egress,     \* occupied egress slots
  call,       \* where each call stands
  log         \* every counted failure since the breaker last opened or closed:
              \* what the breaker's answer should rest on, none of it forgotten

breaker == <<failures, openUntil, log>>
egressVars == <<time, breaker, egress, call>>

EgressTypeOK ==
  /\ time \in 0 .. MaxTicks
  /\ failures \in Seq(0 .. MaxTicks)
  /\ openUntil \in 0 .. MaxTicks + Cooldown
  /\ egress \in 0 .. MaxInFlight
  /\ call \in [Call -> {"idle", "slot", "verify", "settle", "failed"}]
  /\ log \in Seq(0 .. MaxTicks)

EgressInit ==
  /\ time = 0
  /\ failures = <<>> /\ openUntil = 0 /\ log = <<>>
  /\ egress = 0
  /\ call = [c \in Call |-> "idle"]

Move(c, next) == call' = [call EXCEPT ![c] = next]

-----------------------------------------------------------------------------
(* Breaker.                                                                    *)

Open == time < openUntil

\* A slip: failures are never forgotten.
RecentAll(fs) == fs

\* Fail: nothing while open; otherwise forget what left the window, add this
\* failure, and open at the threshold.
Recent(fs) ==
  LET kept[i \in 0 .. Len(fs)] ==
        IF i = 0 THEN <<>>
        ELSE IF fs[i] > time - Window THEN Append(kept[i - 1], fs[i]) ELSE kept[i - 1]
  IN  kept[Len(fs)]

Fail ==
  LET kept == Append(Recent(failures), time)
  IN  IF Open THEN UNCHANGED breaker
      ELSE IF Len(kept) >= Threshold
      THEN /\ failures' = <<>> /\ openUntil' = time + Cooldown
           /\ log' = <<>>
      ELSE /\ failures' = kept /\ UNCHANGED openUntil
           /\ log' = Append(log, time)

\* Succeed: forget the failures, and close.
Succeed == failures' = <<>> /\ openUntil' = 0 /\ log' = <<>>

-----------------------------------------------------------------------------
(* Verify, lock section by lock section.                                       *)

\* An open breaker refuses every call at once, and learns nothing from it.
Arrive(c) ==
  /\ call[c] = "idle" /\ ~ Open
  /\ Move(c, "slot")
  /\ UNCHANGED <<time, breaker, egress>>

\* The non-blocking send into the egress channel, or an immediate refusal.
TakeSlot(c) ==
  /\ call[c] = "slot"
  /\ IF egress < MaxInFlight
     THEN Move(c, "verify") /\ egress' = egress + 1
     ELSE Move(c, "idle") /\ UNCHANGED egress
  /\ UNCHANGED <<time, breaker>>

\* Verify returns: the deferred receive gives the slot back.
Finish(c) == Move(c, "idle") /\ egress' = egress - 1

\* A slip: an answer to /settle keeps its slot.
SettleLeaks(c) ==
  /\ call[c] = "settle"
  /\ Succeed /\ Move(c, "idle")
  /\ UNCHANGED <<time, egress>>

\* A valid signature goes on to /settle and tells the breaker nothing; any
\* other definitive answer is a working facilitator.
VerifyAnswers(c) ==
  /\ call[c] = "verify"
  /\ \/ Move(c, "settle") /\ UNCHANGED <<breaker, egress>>
     \/ Succeed /\ Finish(c)
  /\ UNCHANGED time

SettleAnswers(c) ==
  /\ call[c] = "settle"
  /\ Succeed /\ Finish(c)
  /\ UNCHANGED time

\* A round trip fails: of transport class it is counted, and otherwise (a body
\* that does not decode, an error status with no reason) not.  The request
\* carries the client's context: a client that goes away fails it as well.
RoundTripFails(c) ==
  /\ call[c] \in {"verify", "settle"}
  /\ Move(c, "failed")
  /\ Fail \/ UNCHANGED breaker
  /\ UNCHANGED <<time, egress>>

Failed(c) ==
  /\ call[c] = "failed"
  /\ Finish(c)
  /\ UNCHANGED <<time, breaker>>

EgressTick ==
  /\ time < MaxTicks
  /\ time' = time + 1
  /\ UNCHANGED <<breaker, egress, call>>

EgressStep(c) ==
  \/ Arrive(c) \/ TakeSlot(c) \/ VerifyAnswers(c) \/ SettleAnswers(c)
  \/ RoundTripFails(c) \/ Failed(c)

EgressNext == EgressTick \/ \E c \in Call : EgressStep(c)

EgressSpec == EgressInit /\ [][EgressNext]_egressVars

-----------------------------------------------------------------------------
(* What the guards promise.                                                    *)

Opens == openUntil' > time /\ openUntil' # openUntil
InWindow(t) == Cardinality({i \in DOMAIN log : log[i] > t - Window /\ log[i] <= t})

\* The breaker opens on a cluster of failures, and only on one: Threshold counted
\* failures, this one among them, within one window, and no working round trip in
\* between.  Only a closed one opens: the failures of calls that were already out do
\* not prolong an opening (Fail returns at once while open).  And every cluster opens
\* it: while it is closed there has been none since it last closed or opened,
\* whatever failures it has forgotten.
NoCluster == \A i \in DOMAIN log : InWindow(log[i]) < Threshold
OpensOnClusters ==
  [][/\ Opens => ~ Open /\ InWindow(time) + 1 >= Threshold
     /\ NoCluster']_egressVars

\* A slot is held by exactly the calls with a round trip to finish: none leaks
\* on any way out of Verify, and none is given back twice.
SlotsAccounted ==
  egress = Cardinality({c \in Call : call[c] \notin {"idle", "slot"}})
==============================================================================
