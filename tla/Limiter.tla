------------------------------- MODULE Limiter -------------------------------
(***************************************************************************)
(* payment/guards.go Limiter: a token bucket per client address, applied    *)
(* before any egress.  A bucket is worth whole credits: a presentation      *)
(* costs Cost of them, a tick of the clock brings Rate, a full bucket holds *)
(* Burst presentations (6 a minute, burst 6: Rate 1 and Cost 10 by the      *)
(* second).  The map of buckets is bounded by forgetting all of it.         *)
(***************************************************************************)
EXTENDS Integers, FiniteSets

CONSTANTS
  Key,      \* client addresses, the shared "unresolved-client" among them
  Rate,     \* credits a tick brings
  Cost,     \* credits a presentation costs
  Burst,    \* presentations a full bucket allows
  MaxKeys,  \* 8192: a new key finds the map longer than this and wipes it
  MaxTime   \* bound: the clock stops here

ASSUME LimiterAssumption ==
  /\ {Rate, Cost, Burst} \subseteq Nat \ {0}
  /\ {MaxKeys, MaxTime} \subseteq Nat

VARIABLES
  now,
  known,     \* the keys of Limiter.buckets
  tokens,    \* their credits
  last,      \* when each was last refilled
  born,      \* when each bucket was made: history, the code does not keep it
  admitted   \* presentations admitted since: history

vars == <<now, known, tokens, last, born, admitted>>

Full == Burst * Cost

TypeOK ==
  /\ now \in Nat
  /\ known \subseteq Key
  /\ tokens \in [Key -> 0 .. Full]
  /\ last \in [Key -> Nat]
  /\ born \in [Key -> Nat]
  /\ admitted \in [Key -> Nat]

Init ==
  /\ now = 0
  /\ known = {}
  /\ tokens = [k \in Key |-> 0]
  /\ last = [k \in Key |-> 0]
  /\ born = [k \in Key |-> 0]
  /\ admitted = [k \in Key |-> 0]

\* A new client: one presentation out of a full bucket.  Whether the map was
\* too long is read before the key goes in.
AllowNew(k) ==
  /\ k \notin known
  /\ known' = IF Cardinality(known) > MaxKeys THEN {k} ELSE known \cup {k}
  /\ tokens' = [tokens EXCEPT ![k] = Full - Cost]
  /\ last' = [last EXCEPT ![k] = now]
  /\ born' = [born EXCEPT ![k] = now]
  /\ admitted' = [admitted EXCEPT ![k] = 1]
  /\ UNCHANGED now

\* What an old client's bucket holds now.
Refilled(k) ==
  LET held == tokens[k] + (now - last[k]) * Rate
  IN  IF held > Full THEN Full ELSE held

\* Slips: a refusal that leaves the refill instant where it was, and one that is
\* charged like an admission.
RefusedTwice(k) ==
  /\ k \in known
  /\ IF Refilled(k) < Cost
     THEN /\ tokens' = [tokens EXCEPT ![k] = Refilled(k)]
          /\ UNCHANGED <<admitted, last>>
     ELSE /\ tokens' = [tokens EXCEPT ![k] = Refilled(k) - Cost]
          /\ admitted' = [admitted EXCEPT ![k] = @ + 1]
          /\ last' = [last EXCEPT ![k] = now]
  /\ UNCHANGED <<now, known, born>>
RefusedCharged(k) ==
  /\ k \in known
  /\ tokens' = [tokens EXCEPT ![k] = Refilled(k) - Cost]
  /\ admitted' = IF Refilled(k) < Cost THEN admitted
                 ELSE [admitted EXCEPT ![k] = @ + 1]
  /\ last' = [last EXCEPT ![k] = now]
  /\ UNCHANGED <<now, known, born>>

AllowOld(k) ==
  /\ k \in known
  /\ IF Refilled(k) < Cost
     THEN /\ tokens' = [tokens EXCEPT ![k] = Refilled(k)]
          /\ UNCHANGED admitted
     ELSE /\ tokens' = [tokens EXCEPT ![k] = Refilled(k) - Cost]
          /\ admitted' = [admitted EXCEPT ![k] = @ + 1]
  /\ last' = [last EXCEPT ![k] = now]
  /\ UNCHANGED <<now, known, born>>

Tick ==
  /\ now < MaxTime
  /\ now' = now + 1
  /\ UNCHANGED <<known, tokens, last, born, admitted>>

Next == Tick \/ \E k \in Key : AllowNew(k) \/ AllowOld(k)

Spec == Init /\ [][Next]_vars

-----------------------------------------------------------------------------
\* Over the life of its bucket a client is admitted its burst and, beyond it,
\* only what the sustained rate has brought: however it spaces its attempts,
\* and however many of them are refused (each refusal moves the refill instant).
Paced ==
  \A k \in known :
    admitted[k] * Cost <= Full + (now - born[k]) * Rate

\* The map never outgrows its bound, whatever addresses present themselves.
MapBounded == Cardinality(known) <= MaxKeys + 1

\* A refusal takes nothing from a client: refused or not, one that stays away
\* until its bucket would hold a presentation is admitted.
NoStarvation ==
  [][\A k \in known :
       admitted'[k] = admitted[k] /\ last'[k] # last[k] =>
         (now - last[k]) * Rate < Cost]_vars

\* Why Paced holds: what was admitted and what is left were paid for up to the
\* last refill.
Accounted ==
  \A k \in known :
    /\ born[k] <= last[k] /\ last[k] <= now
    /\ admitted[k] * Cost + tokens[k] <= Full + (last[k] - born[k]) * Rate

LimiterInv == TypeOK /\ Accounted
==============================================================================
