------------------------------ MODULE SharedProofs ------------------------------
(* What every handler of the gate shares, for every number of clients,         *)
(* addresses, pages, requests and events, every capacity and every ttl: the    *)
(* guards of the pay door, the crawler and page caches, and the activity log.  *)
(* The rate limit rests on the account each bucket keeps: what was admitted    *)
(* and what is left never exceed what was paid in up to the last refill.  The  *)
(* slots rest on one count, the breaker on what it keeps being the end of all  *)
(* that failed.                                                                *)
EXTENDS Limiter, Egress, CrawlerCache, PageCache, ActivityLog, FiniteSetTheorems,
        WellFoundedInduction, TLAPS

\* Multiplication distributes, in the two shapes the account needs.
LEMMA Distributes ==
  ASSUME NEW a \in Int, NEW b \in Int, NEW r \in Int
  PROVE  (a + b) * r = a * r + b * r /\ (a - b) * r = a * r - b * r
  BY SMT

\* The amounts of the account are integers, and a full bucket pays for one.
LEMMA Amounts ==
  /\ Rate \in Nat \ {0} /\ Cost \in Nat \ {0} /\ Full \in Nat /\ Full >= Cost
  <1>1. Rate \in Nat \ {0} /\ Cost \in Nat \ {0} /\ Burst \in Nat \ {0}
    BY LimiterAssumption
  <1>2. Full = (Burst - 1) * Cost + Cost
    BY <1>1, Distributes DEF Full
  <1>3. (Burst - 1) * Cost \in Nat
    BY <1>1, SMT
  <1> QED BY <1>1, <1>2, <1>3

\* A refill never makes a bucket worth more than what it held plus what the
\* time since the last one brought, nor more than a full one.
LEMMA RefillBounds ==
  ASSUME LimiterInv, NEW k \in known
  PROVE  /\ Refilled(k) \in 0 .. Full
         /\ Refilled(k) <= tokens[k] + (now - last[k]) * Rate
  <1>1. tokens[k] \in 0 .. Full /\ now - last[k] \in Nat
    BY DEF LimiterInv, TypeOK, Accounted
  <1>2. (now - last[k]) * Rate \in Nat
    BY <1>1, Amounts, SMT
  <1> QED BY <1>1, <1>2, Amounts DEF Refilled

LEMMA InitInv == Init => LimiterInv
  BY LimiterAssumption, Amounts DEF Init, LimiterInv, TypeOK, Accounted

\* A new bucket opens its account with one presentation paid out of the burst.
LEMMA AllowNewInv ==
  ASSUME LimiterInv, NEW k \in Key, AllowNew(k)
  PROVE  LimiterInv'
  <1>1. known' \subseteq known \cup {k} /\ k \in Key
    BY DEF AllowNew
  <1>2. TypeOK'
    BY <1>1, Amounts DEF LimiterInv, TypeOK, AllowNew
  <1>3. ASSUME NEW q \in known'
        PROVE  /\ born'[q] <= last'[q] /\ last'[q] <= now'
               /\ admitted'[q] * Cost + tokens'[q]
                    <= Full + (last'[q] - born'[q]) * Rate
    <2>1. CASE q = k
      <3>1. /\ admitted'[q] = 1 /\ tokens'[q] = Full - Cost
            /\ last'[q] = now /\ born'[q] = now /\ now' = now /\ now \in Nat
        BY <2>1 DEF LimiterInv, TypeOK, AllowNew
      <3>2. (now - now) * Rate = 0
        BY <3>1, Amounts, SMT
      <3> QED BY <3>1, <3>2, Amounts
    <2>2. CASE q # k
      <3>1. q \in known
        BY <2>2, <1>1
      <3>2. /\ admitted'[q] = admitted[q] /\ tokens'[q] = tokens[q]
            /\ last'[q] = last[q] /\ born'[q] = born[q] /\ now' = now
        BY <3>1, <2>2 DEF LimiterInv, TypeOK, AllowNew
      <3> QED BY <3>1, <3>2 DEF LimiterInv, Accounted
    <2> QED BY <2>1, <2>2
  <1> QED BY <1>2, <1>3 DEF LimiterInv, Accounted

\* An old one is credited the time since its last refill, and charged if admitted.
LEMMA AllowOldInv ==
  ASSUME LimiterInv, NEW k \in Key, AllowOld(k)
  PROVE  LimiterInv'
  <1>0. k \in known /\ known \subseteq Key
    BY DEF AllowOld, LimiterInv, TypeOK
  <1>1. /\ Refilled(k) \in 0 .. Full
        /\ Refilled(k) <= tokens[k] + (now - last[k]) * Rate
    BY <1>0, RefillBounds
  <1>2. /\ now \in Nat /\ last[k] \in Nat /\ born[k] \in Nat /\ admitted[k] \in Nat
        /\ tokens[k] \in Nat /\ born[k] <= last[k] /\ last[k] <= now
        /\ admitted[k] * Cost + tokens[k] <= Full + (last[k] - born[k]) * Rate
    BY <1>0, Amounts DEF LimiterInv, TypeOK, Accounted
  <1>3. /\ (now - born[k]) * Rate = now * Rate - born[k] * Rate
        /\ (now - last[k]) * Rate = now * Rate - last[k] * Rate
        /\ (last[k] - born[k]) * Rate = last[k] * Rate - born[k] * Rate
        /\ (admitted[k] + 1) * Cost = admitted[k] * Cost + 1 * Cost
    BY <1>2, Amounts, Distributes
  <1>4. /\ now * Rate \in Int /\ born[k] * Rate \in Int /\ last[k] * Rate \in Int
        /\ admitted[k] * Cost \in Int /\ 1 * Cost = Cost
    BY <1>2, Amounts, SMT
  <1>5. /\ known' = known /\ now' = now /\ born' = born
        /\ last' = [last EXCEPT ![k] = now]
    BY DEF AllowOld
  <1>6. /\ tokens' \in [Key -> 0 .. Full] /\ admitted' \in [Key -> Nat]
        /\ admitted'[k] * Cost + tokens'[k] <= Full + (now - born[k]) * Rate
        /\ \A q \in Key : q # k => admitted'[q] = admitted[q] /\ tokens'[q] = tokens[q]
    <2>1. CASE Refilled(k) < Cost
      <3>1. tokens' = [tokens EXCEPT ![k] = Refilled(k)] /\ admitted' = admitted
        BY <2>1 DEF AllowOld
      <3>2. tokens'[k] = Refilled(k) /\ admitted'[k] = admitted[k]
        BY <3>1 DEF LimiterInv, TypeOK
      <3>3. admitted'[k] * Cost + tokens'[k] <= Full + (now - born[k]) * Rate
        BY <3>2, <1>1, <1>2, <1>3, <1>4, Amounts
      <3> QED BY <3>1, <3>3, <1>1 DEF LimiterInv, TypeOK
    <2>2. CASE ~ (Refilled(k) < Cost)
      <3>1. /\ tokens' = [tokens EXCEPT ![k] = Refilled(k) - Cost]
            /\ admitted' = [admitted EXCEPT ![k] = @ + 1]
        BY <2>2 DEF AllowOld
      <3>2. tokens'[k] = Refilled(k) - Cost /\ admitted'[k] = admitted[k] + 1
        BY <3>1 DEF LimiterInv, TypeOK
      <3>3. admitted'[k] * Cost + tokens'[k] <= Full + (now - born[k]) * Rate
        BY <3>2, <1>1, <1>2, <1>3, <1>4, Amounts
      <3>4. Refilled(k) - Cost \in 0 .. Full
        BY <2>2, <1>1, Amounts
      <3> QED BY <3>1, <3>3, <3>4, <1>2 DEF LimiterInv, TypeOK
    <2> QED BY <2>1, <2>2
  <1>7. TypeOK'
    BY <1>2, <1>5, <1>6 DEF LimiterInv, TypeOK
  <1>8. ASSUME NEW q \in known'
        PROVE  /\ born'[q] <= last'[q] /\ last'[q] <= now'
               /\ admitted'[q] * Cost + tokens'[q]
                    <= Full + (last'[q] - born'[q]) * Rate
    <2>1. CASE q = k
      <3>1. last'[k] = now
        BY <1>5 DEF LimiterInv, TypeOK
      <3> QED BY <3>1, <2>1, <1>2, <1>5, <1>6
    <2>2. CASE q # k
      <3>1. q \in known /\ q \in Key
        BY <1>0, <1>5
      <3>2. /\ admitted'[q] = admitted[q] /\ tokens'[q] = tokens[q]
            /\ last'[q] = last[q] /\ born'[q] = born[q] /\ now' = now
        BY <3>1, <2>2, <1>5, <1>6 DEF LimiterInv, TypeOK
      <3> QED BY <3>1, <3>2 DEF LimiterInv, Accounted
    <2> QED BY <2>1, <2>2
  <1> QED BY <1>7, <1>8 DEF LimiterInv, Accounted

LEMMA TickInv ==
  ASSUME LimiterInv, Tick PROVE LimiterInv'
  <1>1. TypeOK'
    BY DEF Tick, LimiterInv, TypeOK
  <1>2. Accounted'
    BY DEF Tick, LimiterInv, TypeOK, Accounted
  <1> QED BY <1>1, <1>2 DEF LimiterInv

LEMMA NextInv == LimiterInv /\ [Next]_vars => LimiterInv'
  <1> SUFFICES ASSUME LimiterInv, [Next]_vars PROVE LimiterInv'
    OBVIOUS
  <1>1. CASE Tick
    BY <1>1, TickInv
  <1>2. ASSUME NEW k \in Key, AllowNew(k) PROVE LimiterInv'
    BY <1>2, AllowNewInv
  <1>3. ASSUME NEW k \in Key, AllowOld(k) PROVE LimiterInv'
    BY <1>3, AllowOldInv
  <1>4. CASE UNCHANGED vars
    BY <1>4 DEF vars, LimiterInv, TypeOK, Accounted
  <1> QED BY <1>1, <1>2, <1>3, <1>4 DEF Next

\* The account of every bucket balances in every state.
THEOREM LimiterInvariant == Spec => []LimiterInv
  BY InitInv, NextInv, PTL DEF Spec

\* No client, at any pace of attempts, is admitted more than its burst and what
\* the sustained rate brought since its bucket was made (Limiter.Allow).
THEOREM ClientsArePaced == Spec => []Paced
  <1>1. LimiterInv => Paced
    <2> SUFFICES ASSUME LimiterInv, NEW k \in known
                 PROVE  admitted[k] * Cost <= Full + (now - born[k]) * Rate
      BY DEF Paced
    <2>1. /\ now \in Nat /\ last[k] \in Nat /\ born[k] \in Nat /\ admitted[k] \in Nat
          /\ tokens[k] \in Nat /\ born[k] <= last[k] /\ last[k] <= now
          /\ admitted[k] * Cost + tokens[k] <= Full + (last[k] - born[k]) * Rate
      BY Amounts DEF LimiterInv, TypeOK, Accounted
    <2>2. (now - born[k]) * Rate = (now - last[k]) * Rate + (last[k] - born[k]) * Rate
      <3>1. now - born[k] = (now - last[k]) + (last[k] - born[k])
        BY <2>1
      <3> QED BY <3>1, <2>1, Amounts, Distributes
    <2>3. /\ (now - last[k]) * Rate \in Nat /\ (last[k] - born[k]) * Rate \in Nat
          /\ admitted[k] * Cost \in Nat
      <3>1. now - last[k] \in Nat /\ last[k] - born[k] \in Nat
        BY <2>1
      <3> QED BY <3>1, <2>1, Amounts, SMT
    <2> QED BY <2>1, <2>2, <2>3, Amounts
  <1> QED BY <1>1, LimiterInvariant, PTL

-----------------------------------------------------------------------------
\* A refusal takes nothing from a client: one that stays away until its bucket would
\* hold a presentation is admitted (Limiter.Allow).
THEOREM NobodyStarves == Spec => NoStarvation
  <1> DEFINE Step == \A k \in known :
                       admitted'[k] = admitted[k] /\ last'[k] # last[k] =>
                         (now - last[k]) * Rate < Cost
  <1>1. LimiterInv /\ [Next]_vars => [Step]_vars
    <2> SUFFICES ASSUME LimiterInv, Next PROVE Step
      OBVIOUS
    <2> SUFFICES ASSUME NEW k \in known, admitted'[k] = admitted[k], last'[k] # last[k]
                 PROVE  (now - last[k]) * Rate < Cost
      OBVIOUS
    <2>1. /\ k \in Key /\ last \in [Key -> Nat] /\ admitted \in [Key -> Nat]
          /\ now \in Nat /\ last[k] <= now /\ tokens[k] \in Nat
      BY Amounts DEF LimiterInv, TypeOK, Accounted
    <2>2. PICK j \in Key : AllowNew(j) \/ AllowOld(j)
      BY DEF Next, Tick
    <2>3. j = k /\ AllowOld(k)
      BY <2>1, <2>2 DEF AllowNew, AllowOld
    <2>4. Refilled(k) < Cost
      BY <2>1, <2>3 DEF AllowOld
    <2>5. (now - last[k]) * Rate \in Nat
      <3>1. now - last[k] \in Nat
        BY <2>1
      <3> QED BY <3>1, Amounts, SMT
    <2> QED BY <2>1, <2>4, <2>5, Amounts DEF Refilled
  <1> QED BY <1>1, LimiterInvariant, PTL DEF Spec, NoStarvation
-----------------------------------------------------------------------------
\* The map is bounded however many addresses there are: it has one key more than
\* the bound at most, since the wipe leaves the key that found it too long.
THEOREM MapStaysBounded == Spec => []MapBounded
  <1> DEFINE Inv == IsFiniteSet(known) /\ MapBounded
  <1>1. Init => Inv
    BY FS_EmptySet, LimiterAssumption DEF Init, MapBounded
  <1>2. Inv /\ [Next]_vars => Inv'
    <2> SUFFICES ASSUME Inv, [Next]_vars PROVE Inv'
      OBVIOUS
    <2>1. ASSUME NEW k \in Key, AllowNew(k) PROVE Inv'
      <3>1. CASE Cardinality(known) > MaxKeys
        <4>1. known' = {k}
          BY <2>1, <3>1 DEF AllowNew
        <4>2. IsFiniteSet({k}) /\ Cardinality({k}) = 1
          BY FS_Singleton
        <4> QED BY <4>1, <4>2, LimiterAssumption DEF MapBounded
      <3>2. CASE ~ (Cardinality(known) > MaxKeys)
        <4>1. known' = known \cup {k} /\ k \notin known
          BY <2>1, <3>2 DEF AllowNew
        <4>2. /\ IsFiniteSet(known \cup {k})
              /\ Cardinality(known \cup {k}) = Cardinality(known) + 1
          BY <4>1, FS_AddElement
        <4>3. Cardinality(known) \in Nat
          BY FS_CardinalityType
        <4> QED BY <4>1, <4>2, <4>3, <3>2, LimiterAssumption DEF MapBounded
      <3> QED BY <3>1, <3>2
    <2>2. CASE UNCHANGED known
      BY <2>2 DEF MapBounded
    <2> QED BY <2>1, <2>2 DEF Next, AllowOld, Tick, vars
  <1>3. Inv => MapBounded
    OBVIOUS
  <1> QED BY <1>1, <1>2, <1>3, PTL DEF Spec

-----------------------------------------------------------------------------
(* Slots.                                                                   *)

Holders == {c \in Call : call[c] \notin {"idle", "slot"}}
Held ==
  /\ call \in [Call -> {"idle", "slot", "verify", "settle", "failed"}]
  /\ IsFiniteSet(Holders) /\ SlotsAccounted

\* One call begins to hold a slot, gives it back, or neither.
LEMMA HoldersMove ==
  ASSUME Held, NEW c \in Call, NEW to \in {"idle", "slot", "verify", "settle", "failed"},
         Move(c, to)
  PROVE  /\ call' \in [Call -> {"idle", "slot", "verify", "settle", "failed"}]
         /\ Holders' = IF to \in {"idle", "slot"} THEN Holders \ {c} ELSE Holders \cup {c}
  BY DEF Held, Move, Holders

LEMMA SlotTaken ==
  ASSUME Held, NEW c \in Call, call[c] = "slot", Move(c, "verify"), egress' = egress + 1
  PROVE  Held'
  <1>1. Holders' = Holders \cup {c} /\ c \notin Holders
    BY HoldersMove DEF Holders
  <1>2. IsFiniteSet(Holders') /\ Cardinality(Holders') = Cardinality(Holders) + 1
    BY <1>1, FS_AddElement DEF Held
  <1>3. egress' = Cardinality(Holders')
    BY <1>2 DEF Held, SlotsAccounted, Holders
  <1> QED BY <1>2, <1>3, HoldersMove DEF Held, SlotsAccounted, Holders

LEMMA SlotReturned ==
  ASSUME Held, NEW c \in Call, c \in Holders, Finish(c)
  PROVE  Held'
  <1>1. Move(c, "idle") /\ egress' = egress - 1
    BY DEF Finish
  <1>2. Holders' = Holders \ {c}
    BY <1>1, HoldersMove
  <1>3. IsFiniteSet(Holders') /\ Cardinality(Holders') = Cardinality(Holders) - 1
    BY <1>2, FS_RemoveElement DEF Held
  <1>4. egress' = Cardinality(Holders')
    BY <1>1, <1>3 DEF Held, SlotsAccounted, Holders
  <1> QED BY <1>1, <1>3, <1>4, HoldersMove DEF Held, SlotsAccounted, Holders

LEMMA SlotKept ==
  ASSUME Held, NEW c \in Call, NEW to \in {"idle", "slot", "verify", "settle", "failed"},
         Move(c, to), (to \in {"idle", "slot"}) <=> (c \notin Holders), egress' = egress
  PROVE  Held'
  <1>1. Holders' = Holders
    BY HoldersMove
  <1> QED BY <1>1, HoldersMove DEF Held, SlotsAccounted, Holders

\* No slot leaks on any way out of Verify, and none is given back twice
\* (callback.go Verify, its deferred receive).
THEOREM SlotsAreAccounted == EgressSpec => []SlotsAccounted
  <1>1. EgressInit => Held
    <2> SUFFICES ASSUME EgressInit PROVE Held
      OBVIOUS
    <2>1. Holders = {}
      BY DEF EgressInit, Holders
    <2> QED BY <2>1, FS_EmptySet DEF EgressInit, Held, SlotsAccounted, Holders
  <1>2. Held /\ [EgressNext]_egressVars => Held'
    <2> SUFFICES ASSUME Held, [EgressNext]_egressVars PROVE Held'
      OBVIOUS
    <2>1. ASSUME NEW c \in Call, Arrive(c) PROVE Held'
      BY <2>1, SlotKept DEF Arrive, Holders
    <2>2. ASSUME NEW c \in Call, TakeSlot(c) PROVE Held'
      BY <2>2, SlotKept, SlotTaken DEF TakeSlot, Holders
    <2>3. ASSUME NEW c \in Call, VerifyAnswers(c) PROVE Held'
      BY <2>3, SlotKept, SlotReturned DEF VerifyAnswers, Holders
    <2>4. ASSUME NEW c \in Call, SettleAnswers(c) PROVE Held'
      BY <2>4, SlotReturned DEF SettleAnswers, Holders
    <2>5. ASSUME NEW c \in Call, RoundTripFails(c) PROVE Held'
      BY <2>5, SlotKept DEF RoundTripFails, Holders
    <2>6. ASSUME NEW c \in Call, Failed(c) PROVE Held'
      BY <2>6, SlotReturned DEF Failed, Holders
    <2>7. CASE EgressTick \/ UNCHANGED egressVars
      BY <2>7 DEF EgressTick, egressVars, Held, SlotsAccounted, Holders
    <2> QED BY <2>1, <2>2, <2>3, <2>4, <2>5, <2>6, <2>7 DEF EgressNext, EgressStep
  <1>3. Held => SlotsAccounted
    BY DEF Held
  <1> QED BY <1>1, <1>2, <1>3, PTL DEF EgressSpec

-----------------------------------------------------------------------------
(* The breaker.  What it has forgotten left the window: the failures it keeps *)
(* are the end of the log, and the rest of the log lies behind the window.    *)
(* Time only goes on, so the log is in order, and pruning cuts it in two.     *)

InOrder(s) == \A i, j \in DOMAIN s : i <= j => s[i] <= s[j]

\* fs is what is left of s without the first k.
IsTail(fs, s, k) == Len(fs) = Len(s) - k /\ \A i \in 1 .. Len(fs) : fs[i] = s[k + i]

Forgot ==
  \E k \in 0 .. Len(log) :
    /\ IsTail(failures, log, k)
    /\ \A i \in 1 .. k : log[i] <= time - Window

BreakerInv ==
  /\ time \in Nat /\ openUntil \in Nat
  /\ log \in Seq(Nat) /\ failures \in Seq(Nat)
  /\ InOrder(log) /\ \A i \in DOMAIN log : log[i] <= time
  /\ Forgot /\ NoCluster

\* A set of numbers that is not empty has a least one.
LEMMA LeastOne ==
  ASSUME NEW T \in SUBSET Nat, T # {}
  PROVE  \E x \in T : \A y \in T : x <= y
  <1> DEFINE R == OpToRel(<, Nat)
  <1>1. PICK x \in T : \A y \in T : ~ (<<y, x>> \in R)
    BY NatLessThanWellFounded, WFMin
  <1>2. \A y \in T : <<y, x>> \in R <=> y < x
    BY DEF OpToRel
  <1>3. \A y \in T : ~ (y < x)
    BY <1>1, <1>2, Zenon
  <1> HIDE DEF R
  <1> QED BY <1>3

\* Where in a list in order the window begins.
LEMMA WindowBegins ==
  ASSUME NEW fs \in Seq(Nat), InOrder(fs), NEW cut \in Int
  PROVE  \E m \in 0 .. Len(fs) :
           /\ \A i \in 1 .. m : fs[i] <= cut
           /\ \A i \in m + 1 .. Len(fs) : fs[i] > cut
  <1> DEFINE T == {i \in 1 .. Len(fs) : fs[i] > cut}
  <1>0. Len(fs) \in Nat /\ DOMAIN fs = 1 .. Len(fs) /\ \A i \in 1 .. Len(fs) : fs[i] \in Nat
    OBVIOUS
  <1>1. CASE T = {}
    <2>1. \A i \in 1 .. Len(fs) : fs[i] <= cut
      BY <1>0, <1>1
    <2>2. Len(fs) \in 0 .. Len(fs) /\ \A i \in Len(fs) + 1 .. Len(fs) : FALSE
      BY <1>0
    <2> QED BY <2>1, <2>2
  <1>2. CASE T # {}
    <2>0. T \in SUBSET Nat /\ T \subseteq 1 .. Len(fs)
      BY <1>0
    <2>1. PICK x \in T : \A y \in T : x <= y
      <3> HIDE DEF T
      <3> QED BY <2>0, <1>2, LeastOne
    <2>2. x - 1 \in 0 .. Len(fs) /\ (x - 1) + 1 = x
      BY <1>0, <2>1
    <2>3. \A i \in 1 .. x - 1 : fs[i] <= cut
      <3> SUFFICES ASSUME NEW i \in 1 .. x - 1, ~ (fs[i] <= cut) PROVE FALSE
        OBVIOUS
      <3>1. i \in 1 .. Len(fs) /\ ~ (x <= i) /\ fs[i] \in Nat
        BY <1>0, <2>1
      <3>2. i \in T
        BY <3>1
      <3> QED BY <2>1, <3>1, <3>2
    <2>4. \A i \in x .. Len(fs) : fs[i] > cut
      <3> SUFFICES ASSUME NEW i \in x .. Len(fs) PROVE fs[i] > cut
        OBVIOUS
      <3>1. i \in DOMAIN fs /\ x \in DOMAIN fs /\ x <= i /\ fs[i] \in Nat /\ fs[x] \in Nat
        BY <1>0, <2>1
      <3>2. fs[x] <= fs[i] /\ fs[x] > cut
        BY <2>1, <3>1 DEF InOrder
      <3> QED BY <3>1, <3>2
    <2> QED BY <2>2, <2>3, <2>4
  <1> QED BY <1>1, <1>2

\* The loop of Fail keeps of a list in order what lies in the window: its end.
LEMMA RecentIs ==
  ASSUME NEW fs \in Seq(Nat), InOrder(fs), time \in Nat
  PROVE  \E m \in 0 .. Len(fs) :
           /\ \A i \in 1 .. m : fs[i] <= time - Window
           /\ \A i \in m + 1 .. Len(fs) : fs[i] > time - Window
           /\ Recent(fs) \in Seq(Nat) /\ IsTail(Recent(fs), fs, m)
  <1> DEFINE cut == time - Window
             n == Len(fs)
             Step(f) == [i \in 0 .. n |->
                           IF i = 0 THEN <<>>
                           ELSE IF fs[i] > cut THEN Append(f[i - 1], fs[i]) ELSE f[i - 1]]
             kept == CHOOSE f : f = Step(f)
  <1>0. cut \in Int /\ n \in Nat /\ \A i \in 1 .. n : fs[i] \in Nat
    BY EgressAssumption
  <1>1. Recent(fs) = kept[n]
    BY DEF Recent
  <1> HIDE DEF cut
  <1>2. PICK m \in 0 .. n :
          /\ \A i \in 1 .. m : fs[i] <= cut
          /\ \A i \in m + 1 .. n : fs[i] > cut
    BY <1>0, WindowBegins
  <1> DEFINE Rest(i) == [j \in 1 .. i - m |-> fs[m + j]]
             h == [i \in 0 .. n |-> IF i <= m THEN <<>> ELSE Rest(i)]
  <1>3. h = Step(h)
    <2> SUFFICES ASSUME NEW i \in 0 .. n PROVE h[i] = Step(h)[i]
      OBVIOUS
    <2>1. CASE i = 0
      <3>1. i <= m
        BY <2>1, <1>2
      <3> QED BY <2>1, <3>1
    <2>2. CASE i # 0 /\ i <= m
      <3>1. i \in 1 .. m /\ i - 1 \in 0 .. n /\ i - 1 <= m
        BY <2>2, <1>0, <1>2
      <3>2. ~ (fs[i] > cut)
        <4>1. fs[i] <= cut /\ fs[i] \in Nat
          BY <3>1, <1>0, <1>2
        <4> QED BY <4>1, <1>0
      <3>3. h[i] = <<>> /\ h[i - 1] = <<>>
        BY <2>2, <3>1
      <3>4. Step(h)[i] = h[i - 1]
        <4> HIDE DEF h
        <4> QED BY <2>2, <3>2
      <3> QED BY <3>3, <3>4
    <2>3. CASE i = m + 1
      <3>1. i # 0 /\ ~ (i <= m) /\ i - 1 = m /\ m \in 0 .. n /\ i - m = 1 /\ fs[i] > cut
        BY <2>3, <1>0, <1>2
      <3>2. h[i - 1] = <<>>
        BY <3>1
      <3>3. Rest(i) = <<fs[i]>>
        BY <3>1, <2>3
      <3>4. h[i] = <<fs[i]>>
        BY <3>1, <3>3
      <3>5. Step(h)[i] = Append(h[i - 1], fs[i])
        <4> HIDE DEF h
        <4>1. Step(h)[i] = IF i = 0 THEN <<>>
                           ELSE IF fs[i] > cut THEN Append(h[i - 1], fs[i]) ELSE h[i - 1]
          OBVIOUS
        <4> QED BY <3>1, <4>1
      <3>6. fs[i] \in Nat /\ <<>> \in Seq(Nat) /\ Append(<<>>, fs[i]) = <<fs[i]>>
        BY <3>1, <1>0
      <3> HIDE DEF h, Step
      <3> QED BY <3>2, <3>4, <3>5, <3>6, Zenon
    <2>4. CASE i > m + 1
      <3>1. /\ i # 0 /\ ~ (i <= m) /\ i - 1 \in 0 .. n /\ ~ (i - 1 <= m) /\ fs[i] > cut
            /\ (i - 1) - m \in Nat /\ i - m = ((i - 1) - m) + 1 /\ m + (i - m) = i
        BY <2>4, <1>0, <1>2
      <3>2. h[i - 1] = Rest(i - 1) /\ h[i] = Rest(i)
        BY <3>1
      <3>3. Rest(i - 1) \in Seq(Nat) /\ Len(Rest(i - 1)) = (i - 1) - m
        <4>1. \A j \in 1 .. (i - 1) - m : fs[m + j] \in Nat
          <5> SUFFICES ASSUME NEW j \in 1 .. (i - 1) - m PROVE m + j \in 1 .. n
            BY <1>0
          <5> QED BY <3>1, <1>0, <1>2
        <4> QED BY <3>1, <4>1
      <3>4. Append(Rest(i - 1), fs[i]) = Rest(i)
        BY <3>1, <3>3
      <3> QED BY <3>1, <3>2, <3>4
    <2> QED BY <2>1, <2>2, <2>3, <2>4, <1>0, <1>2
  <1> HIDE DEF Step
  <1>4. kept = Step(kept)
    BY <1>3
  <1>5. \A i \in 0 .. n : kept[i] = h[i]
    <2> DEFINE W == {i \in 0 .. n : kept[i] # h[i]}
    <2> SUFFICES ASSUME W # {} PROVE FALSE
      OBVIOUS
    <2> HIDE DEF kept, h
    <2>0. W \in SUBSET Nat
      BY <1>0
    <2>1. PICK x \in W : \A y \in W : x <= y
      <3> HIDE DEF W
      <3> QED BY <2>0, LeastOne
    <2>2. x # 0 => kept[x - 1] = h[x - 1]
      <3> SUFFICES ASSUME x # 0 PROVE x - 1 \notin W /\ x - 1 \in 0 .. n
        OBVIOUS
      <3>1. x - 1 \in 0 .. n /\ ~ (x <= x - 1)
        BY <1>0, <2>1
      <3> QED BY <2>1, <3>1
    <2>3. Step(kept)[x] = Step(h)[x]
      BY <2>1, <2>2 DEF Step
    <2> QED BY <1>3, <1>4, <2>1, <2>3
  <1> HIDE DEF kept
  <1>6. Recent(fs) = h[n]
    <2>1. n \in 0 .. n
      BY <1>0
    <2> HIDE DEF h
    <2> QED BY <1>1, <1>5, <2>1
  <1>7. h[n] \in Seq(Nat) /\ IsTail(h[n], fs, m)
    <2>1. CASE n <= m
      <3>1. h[n] = <<>> /\ n = m
        BY <2>1, <1>0, <1>2
      <3> QED BY <3>1 DEF IsTail
    <2>2. CASE ~ (n <= m)
      <3>1. h[n] = Rest(n) /\ n - m \in Nat
        BY <2>2, <1>0, <1>2
      <3>2. \A j \in 1 .. n - m : fs[m + j] \in Nat
        <4> SUFFICES ASSUME NEW j \in 1 .. n - m PROVE m + j \in 1 .. n
          BY <1>0
        <4> QED BY <1>0, <1>2
      <3> QED BY <3>1, <3>2 DEF IsTail
    <2> QED BY <2>1, <2>2
  <1> QED BY <1>2, <1>6, <1>7 DEF cut

\* What the window holds, as the loop sees it and as the log does, is as much.
LEMMA WindowHolds ==
  ASSUME BreakerInv
  PROVE  \E k \in 0 .. Len(log) :
           /\ Recent(failures) \in Seq(Nat) /\ IsTail(Recent(failures), log, k)
           /\ \A i \in 1 .. k : log[i] <= time - Window
           /\ InWindow(time) = Len(log) - k
  <1>0. /\ time \in Nat /\ time - Window \in Int /\ log \in Seq(Nat) /\ failures \in Seq(Nat)
        /\ Len(log) \in Nat /\ Len(failures) \in Nat
        /\ DOMAIN log = 1 .. Len(log) /\ DOMAIN failures = 1 .. Len(failures)
    BY EgressAssumption DEF BreakerInv
  <1>1. PICK a \in 0 .. Len(log) :
          IsTail(failures, log, a) /\ \A i \in 1 .. a : log[i] <= time - Window
    BY DEF BreakerInv, Forgot
  <1>2. Len(failures) = Len(log) - a
    BY <1>1 DEF IsTail
  <1>3. InOrder(failures)
    <2> SUFFICES ASSUME NEW i \in DOMAIN failures, NEW j \in DOMAIN failures, i <= j
                 PROVE  failures[i] <= failures[j]
      BY DEF InOrder
    <2>0. i \in 1 .. Len(log) - a /\ j \in 1 .. Len(log) - a
      BY <1>0, <1>2
    <2>1. a + i \in 1 .. Len(log) /\ a + j \in 1 .. Len(log) /\ a + i <= a + j
      <3>1. \A n \in Nat : \A x \in 0 .. n : \A y, z \in 1 .. n - x :
              y <= z => x + y \in 1 .. n /\ x + z \in 1 .. n /\ x + y <= x + z
        OBVIOUS
      <3>2. Len(log) \in Nat /\ a \in 0 .. Len(log) /\ i <= j
        BY <1>0
      <3> QED BY <2>0, <3>1, <3>2, Zenon
    <2>2. failures[i] = log[a + i] /\ failures[j] = log[a + j]
      BY <1>0, <1>1 DEF IsTail
    <2>3. \A x, y \in DOMAIN log : x <= y => log[x] <= log[y]
      BY DEF BreakerInv, InOrder
    <2>4. log[a + i] <= log[a + j]
      BY <1>0, <2>1, <2>3
    <2> QED BY <2>2, <2>4
  <1>4. PICK m \in 0 .. Len(failures) :
          /\ \A i \in 1 .. m : failures[i] <= time - Window
          /\ \A i \in m + 1 .. Len(failures) : failures[i] > time - Window
          /\ Recent(failures) \in Seq(Nat) /\ IsTail(Recent(failures), failures, m)
    BY <1>0, <1>3, RecentIs
  <1> DEFINE k == a + m
  <1>5. k \in 0 .. Len(log) /\ Len(Recent(failures)) = Len(log) - k
    BY <1>0, <1>2, <1>4 DEF IsTail
  <1>6. IsTail(Recent(failures), log, k)
    <2>1. ASSUME NEW i \in 1 .. Len(Recent(failures))
          PROVE  Recent(failures)[i] = log[k + i]
      <3>1. i \in Int /\ m + i \in 1 .. Len(failures) /\ a + (m + i) = k + i
        BY <1>0, <1>2, <1>5
      <3>2. Recent(failures)[i] = failures[m + i]
        BY <1>4 DEF IsTail
      <3>3. failures[m + i] = log[a + (m + i)]
        BY <1>1, <3>1 DEF IsTail
      <3> QED BY <3>1, <3>2, <3>3
    <2> QED BY <1>5, <2>1 DEF IsTail
  <1>7. \A i \in 1 .. k : log[i] <= time - Window
    <2> SUFFICES ASSUME NEW i \in 1 .. k, ~ (i \in 1 .. a) PROVE log[i] <= time - Window
      BY <1>1
    <2>1. i - a \in 1 .. m /\ a + (i - a) = i /\ i - a \in 1 .. Len(failures)
      BY <1>0, <1>4
    <2>2. failures[i - a] = log[i]
      BY <1>1, <2>1 DEF IsTail
    <2> QED BY <1>4, <2>1, <2>2
  <1>8. \A i \in k + 1 .. Len(log) : log[i] > time - Window
    <2> SUFFICES ASSUME NEW i \in k + 1 .. Len(log) PROVE log[i] > time - Window
      OBVIOUS
    <2>1. i - a \in m + 1 .. Len(failures) /\ a + (i - a) = i /\ i - a \in 1 .. Len(failures)
      BY <1>0, <1>2, <1>4
    <2>2. failures[i - a] = log[i]
      BY <1>1, <2>1 DEF IsTail
    <2> QED BY <1>4, <2>1, <2>2
  <1> HIDE DEF k
  <1>9. {i \in DOMAIN log : log[i] > time - Window /\ log[i] <= time} = k + 1 .. Len(log)
    <2>1. ASSUME NEW i \in DOMAIN log
          PROVE  (log[i] > time - Window /\ log[i] <= time) <=> i \in k + 1 .. Len(log)
      <3>1. log[i] <= time /\ log[i] \in Nat
        BY <1>0 DEF BreakerInv
      <3>2. i \in 1 .. k \/ i \in k + 1 .. Len(log)
        BY <1>0, <1>5
      <3>3. i \in 1 .. k => ~ (i \in k + 1 .. Len(log))
        BY <1>0, <1>5
      <3> QED BY <1>0, <1>7, <1>8, <3>1, <3>2, <3>3
    <2>2. k + 1 .. Len(log) \subseteq DOMAIN log
      BY <1>0, <1>5
    <2> QED BY <2>1, <2>2
  <1>10. Cardinality(k + 1 .. Len(log)) = Len(log) - k
    <2>1. k + 1 \in Int /\ Len(log) \in Int
      BY <1>0, <1>5
    <2>2. Cardinality(k + 1 .. Len(log)) =
            IF k + 1 > Len(log) THEN 0 ELSE Len(log) - (k + 1) + 1
      BY <2>1, FS_Interval
    <2>3. \A n \in Nat : \A x \in 0 .. n : (IF x + 1 > n THEN 0 ELSE n - (x + 1) + 1) = n - x
      OBVIOUS
    <2>4. Len(log) \in Nat /\ k \in 0 .. Len(log)
      BY <1>0, <1>5
    <2> QED BY <2>2, <2>3, <2>4, Zenon
  <1> QED BY <1>4, <1>5, <1>6, <1>7, <1>9, <1>10 DEF InWindow

\* A failure that does not open the breaker is added to what is kept and logged.
LEMMA FailureIsLogged ==
  ASSUME BreakerInv, Len(Recent(failures)) + 1 < Threshold, time' = time,
         failures' = Append(Recent(failures), time), log' = Append(log, time),
         openUntil' = openUntil
  PROVE  BreakerInv'
  <1>0. /\ time \in Nat /\ Window \in Nat \ {0} /\ Threshold \in Nat /\ log \in Seq(Nat)
        /\ Len(log) \in Nat /\ DOMAIN log = 1 .. Len(log)
        /\ \A i \in DOMAIN log : log[i] \in Nat /\ log[i] <= time
    BY EgressAssumption DEF BreakerInv
  <1>1. PICK k \in 0 .. Len(log) :
          /\ Recent(failures) \in Seq(Nat) /\ IsTail(Recent(failures), log, k)
          /\ \A i \in 1 .. k : log[i] <= time - Window
          /\ InWindow(time) = Len(log) - k
    BY WindowHolds
  <1>2. /\ log' \in Seq(Nat) /\ Len(log') = Len(log) + 1 /\ DOMAIN log' = 1 .. Len(log) + 1
        /\ log'[Len(log) + 1] = time /\ \A i \in 1 .. Len(log) : log'[i] = log[i]
    BY <1>0
  <1>3. /\ failures' \in Seq(Nat) /\ Len(failures') = Len(Recent(failures)) + 1
        /\ failures'[Len(Recent(failures)) + 1] = time
        /\ \A i \in 1 .. Len(Recent(failures)) : failures'[i] = Recent(failures)[i]
    BY <1>0, <1>1
  <1>4. \A i \in DOMAIN log' : log'[i] \in Nat /\ log'[i] <= time
    <2> SUFFICES ASSUME NEW i \in DOMAIN log' PROVE log'[i] \in Nat /\ log'[i] <= time
      OBVIOUS
    <2>1. i \in DOMAIN log \/ i = Len(log) + 1
      BY <1>0, <1>2
    <2> QED BY <1>0, <1>2, <2>1
  <1>5. InOrder(log')
    <2> SUFFICES ASSUME NEW i \in DOMAIN log', NEW j \in DOMAIN log', i <= j
                 PROVE  log'[i] <= log'[j]
      BY DEF InOrder
    <2>1. CASE j = Len(log) + 1
      BY <1>2, <1>4, <2>1
    <2>2. CASE j # Len(log) + 1
      <3>1. i \in DOMAIN log /\ j \in DOMAIN log
        BY <1>0, <1>2, <2>2
      <3> QED BY <1>0, <1>2, <3>1 DEF BreakerInv, InOrder
    <2> QED BY <2>1, <2>2
  <1>6. Forgot'
    <2>1. Len(Recent(failures)) = Len(log) - k
      BY <1>1 DEF IsTail
    <2>2. IsTail(failures', log', k)
      <3>0. Len(failures') = Len(log') - k
        BY <1>0, <1>2, <1>3, <2>1
      <3> SUFFICES ASSUME NEW i \in 1 .. Len(failures') PROVE failures'[i] = log'[k + i]
        BY <3>0, Zenon DEF IsTail
      <3>1. CASE i = Len(Recent(failures)) + 1
        <4>1. k + i = Len(log) + 1
          BY <1>0, <2>1, <3>1
        <4>2. failures'[i] = time
          BY <1>3, <3>1, Zenon
        <4>3. log'[k + i] = time
          BY <1>2, <4>1, Zenon
        <4> QED BY <4>2, <4>3, Zenon
      <3>2. CASE i # Len(Recent(failures)) + 1
        <4>1. i \in 1 .. Len(Recent(failures)) /\ k + i \in 1 .. Len(log)
          BY <1>0, <1>3, <2>1, <3>2
        <4> QED BY <1>1, <1>2, <1>3, <4>1 DEF IsTail
      <3> QED BY <3>1, <3>2
    <2>3. \A i \in 1 .. k : log'[i] <= time' - Window
      <3>1. \A i \in 1 .. k : i \in 1 .. Len(log)
        BY <1>0
      <3> QED BY <1>1, <1>2, <3>1
    <2>4. k \in 0 .. Len(log')
      BY <1>0, <1>2
    <2> QED BY <2>2, <2>3, <2>4 DEF Forgot
  <1>7. NoCluster'
    <2> SUFFICES ASSUME NEW i \in DOMAIN log' PROVE InWindow(log[i])' < Threshold
      BY DEF NoCluster
    <2> DEFINE W == {j \in DOMAIN log' : log'[j] > log'[i] - Window /\ log'[j] <= log'[i]}
    <2>0. InWindow(log[i])' = Cardinality(W)
      BY DEF InWindow
    <2>1. CASE log'[i] = time
      <3> DEFINE V == {j \in DOMAIN log : log[j] > time - Window /\ log[j] <= time}
      <3>1. W = V \cup {Len(log) + 1}
        <4>1. ASSUME NEW j PROVE j \in W <=> j \in V \/ j = Len(log) + 1
          <5>1. j \in DOMAIN log' <=> j \in DOMAIN log \/ j = Len(log) + 1
            BY <1>0, <1>2
          <5>2. j \in DOMAIN log => log'[j] = log[j]
            BY <1>0, <1>2
          <5>3. time > time - Window /\ time <= time
            BY <1>0
          <5> QED BY <1>2, <2>1, <5>1, <5>2, <5>3
        <4> HIDE DEF W, V
        <4> QED BY <4>1
      <3>2. IsFiniteSet(V) /\ Len(log) + 1 \notin V
        <4>1. IsFiniteSet(1 .. Len(log)) /\ V \subseteq 1 .. Len(log)
          BY <1>0, FS_Interval
        <4>2. Len(log) + 1 \notin 1 .. Len(log)
          BY <1>0
        <4> HIDE DEF V
        <4> QED BY <4>1, <4>2, FS_Subset
      <3>3. Cardinality(V) = Len(log) - k
        BY <1>1 DEF InWindow
      <3> HIDE DEF V, W
      <3>4. Cardinality(W) = Len(log) - k + 1
        BY <3>1, <3>2, <3>3, FS_AddElement
      <3>5. Len(Recent(failures)) = Len(log) - k
        BY <1>1 DEF IsTail
      <3> QED BY <2>0, <3>4, <3>5
    <2>2. CASE log'[i] # time
      <3>1. i \in DOMAIN log /\ log'[i] = log[i] /\ log[i] < time /\ log[i] \in Nat
        BY <1>0, <1>2, <2>2
      <3>2. W = {j \in DOMAIN log : log[j] > log[i] - Window /\ log[j] <= log[i]}
        <4>1. ASSUME NEW j \in DOMAIN log'
              PROVE  \/ j \in DOMAIN log /\ log'[j] = log[j]
                     \/ j \notin DOMAIN log /\ ~ (log'[j] <= log'[i])
          BY <1>0, <1>2, <3>1
        <4>2. DOMAIN log \subseteq DOMAIN log'
          BY <1>0, <1>2
        <4> QED BY <3>1, <4>1, <4>2
      <3>3. Cardinality(W) = InWindow(log[i])
        BY <3>2 DEF InWindow
      <3>4. InWindow(log[i]) < Threshold
        BY <3>1 DEF BreakerInv, NoCluster
      <3> QED BY <2>0, <3>3, <3>4
    <2> QED BY <2>1, <2>2
  <1> QED BY <1>2, <1>3, <1>4, <1>5, <1>6, <1>7 DEF BreakerInv

\* Nothing has failed: the breaker starts its account afresh.
LEMMA AccountIsFresh ==
  ASSUME failures' = <<>>, log' = <<>>, time' \in Nat, openUntil' \in Nat
  PROVE  BreakerInv'
  <1>1. /\ failures' \in Seq(Nat) /\ log' \in Seq(Nat) /\ Len(log') = 0 /\ Len(failures') = 0
        /\ DOMAIN log' = {}
    OBVIOUS
  <1>2. 0 \in 0 .. Len(log') /\ IsTail(failures', log', 0) /\ \A i \in 1 .. 0 : FALSE
    BY <1>1 DEF IsTail
  <1>3. Forgot'
    BY <1>2 DEF Forgot
  <1>4. NoCluster' /\ InOrder(log')
    BY <1>1 DEF NoCluster, InOrder
  <1> QED BY <1>1, <1>3, <1>4 DEF BreakerInv

\* Fail, in its three ways.
LEMMA FailKeeps ==
  ASSUME BreakerInv, Fail, time' = time
  PROVE  BreakerInv' /\ (Opens => ~ Open /\ InWindow(time) + 1 >= Threshold)
  <1>0. time \in Nat /\ Threshold \in Nat /\ Cooldown \in Nat
    BY EgressAssumption DEF BreakerInv
  <1>1. CASE Open
    <2>1. UNCHANGED <<failures, openUntil, log, time>>
      BY <1>1 DEF Fail, breaker
    <2> QED BY <2>1 DEF BreakerInv, Forgot, NoCluster, InWindow, Opens
  <1>2. CASE ~ Open
    <2>1. PICK k \in 0 .. Len(log) :
            /\ Recent(failures) \in Seq(Nat) /\ IsTail(Recent(failures), log, k)
            /\ InWindow(time) = Len(log) - k
      BY WindowHolds
    <2>2. InWindow(time) = Len(Recent(failures)) /\ Len(Recent(failures)) \in Nat
      BY <2>1 DEF IsTail
    <2>3. Len(Append(Recent(failures), time)) = Len(Recent(failures)) + 1
      BY <1>0, <2>1
    <2>4. CASE Len(Recent(failures)) + 1 >= Threshold
      <3>1. failures' = <<>> /\ log' = <<>> /\ openUntil' = time + Cooldown
        BY <1>2, <2>3, <2>4 DEF Fail
      <3>2. time' \in Nat /\ openUntil' \in Nat
        BY <1>0, <3>1
      <3> QED BY <1>2, <2>2, <2>4, <3>1, <3>2, AccountIsFresh
    <2>5. CASE ~ (Len(Recent(failures)) + 1 >= Threshold)
      <3>1. /\ failures' = Append(Recent(failures), time) /\ openUntil' = openUntil
            /\ log' = Append(log, time)
        BY <1>2, <2>3, <2>5 DEF Fail
      <3>2. Len(Recent(failures)) + 1 < Threshold
        BY <1>0, <2>2, <2>5
      <3>3. ~ Opens
        BY <3>1 DEF Opens
      <3> QED BY <3>1, <3>2, <3>3, FailureIsLogged
    <2> QED BY <2>4, <2>5
  <1> QED BY <1>1, <1>2

\* The breaker opens on a cluster of failures, and only on one, whatever its bounds,
\* and however the failures of interleaved calls fall (guards.go Breaker.Fail).
THEOREM BreakerOpensOnClusters == EgressSpec => OpensOnClusters
  <1> DEFINE Promise == (Opens => ~ Open /\ InWindow(time) + 1 >= Threshold) /\ NoCluster'
  <1>1. EgressInit => BreakerInv
    <2> SUFFICES ASSUME EgressInit PROVE BreakerInv
      OBVIOUS
    <2>1. /\ failures \in Seq(Nat) /\ log \in Seq(Nat) /\ Len(log) = 0 /\ Len(failures) = 0
          /\ DOMAIN log = {} /\ time \in Nat /\ openUntil \in Nat
      BY DEF EgressInit
    <2>2. 0 \in 0 .. Len(log) /\ IsTail(failures, log, 0) /\ \A i \in 1 .. 0 : FALSE
      BY <2>1 DEF IsTail
    <2>3. Forgot
      BY <2>2 DEF Forgot
    <2>4. NoCluster /\ InOrder(log)
      BY <2>1 DEF NoCluster, InOrder
    <2> QED BY <2>1, <2>3, <2>4 DEF BreakerInv
  <1>2. BreakerInv /\ [EgressNext]_egressVars => BreakerInv' /\ Promise
    <2> SUFFICES ASSUME BreakerInv, [EgressNext]_egressVars
                 PROVE  BreakerInv' /\ (Opens => ~ Open /\ InWindow(time) + 1 >= Threshold)
      BY DEF BreakerInv
    <2>1. ASSUME UNCHANGED <<breaker, time>>
          PROVE  BreakerInv' /\ (Opens => ~ Open /\ InWindow(time) + 1 >= Threshold)
      BY <2>1 DEF breaker, BreakerInv, Forgot, NoCluster, InWindow, Opens
    <2>2. ASSUME Succeed, UNCHANGED time
          PROVE  BreakerInv' /\ (Opens => ~ Open /\ InWindow(time) + 1 >= Threshold)
      <3>1. failures' = <<>> /\ log' = <<>> /\ openUntil' = 0 /\ time' = time /\ time \in Nat
        BY <2>2 DEF Succeed, BreakerInv
      <3>2. ~ Opens
        BY <3>1 DEF Opens
      <3>3. time' \in Nat /\ openUntil' \in Nat
        BY <3>1
      <3> QED BY <3>1, <3>2, <3>3, AccountIsFresh
    <2>3. ASSUME EgressTick
          PROVE  BreakerInv' /\ (Opens => ~ Open /\ InWindow(time) + 1 >= Threshold)
      <3>1. time' = time + 1 /\ UNCHANGED <<failures, openUntil, log>>
        BY <2>3 DEF EgressTick, breaker
      <3>2. ~ Opens
        BY <3>1 DEF Opens
      <3>3. NoCluster'
        BY <3>1 DEF BreakerInv, NoCluster, InWindow
      <3>4. /\ time' \in Nat /\ Window \in Nat /\ log \in Seq(Nat)
            /\ \A i \in DOMAIN log : log[i] \in Nat /\ log[i] <= time'
        BY <3>1, EgressAssumption DEF BreakerInv
      <3>5. PICK k \in 0 .. Len(log) :
              IsTail(failures, log, k) /\ \A i \in 1 .. k : log[i] <= time - Window
        BY DEF BreakerInv, Forgot
      <3>6. \A i \in 1 .. k : log[i] <= time' - Window
        <4> SUFFICES ASSUME NEW i \in 1 .. k PROVE log[i] <= time' - Window
          OBVIOUS
        <4>1. i \in DOMAIN log /\ log[i] <= time - Window /\ time \in Nat
          BY <3>4, <3>5 DEF BreakerInv
        <4> QED BY <3>1, <3>4, <4>1
      <3>7. Forgot'
        BY <3>1, <3>5, <3>6 DEF Forgot
      <3> QED BY <3>1, <3>2, <3>3, <3>4, <3>7 DEF BreakerInv
    <2>4. ASSUME NEW c \in Call, EgressStep(c)
          PROVE  UNCHANGED time /\ (Fail \/ Succeed \/ UNCHANGED breaker)
      BY <2>4 DEF EgressStep, Arrive, TakeSlot, VerifyAnswers, SettleAnswers, RoundTripFails,
                  Failed, Finish
    <2>5. CASE UNCHANGED egressVars
      BY <2>1, <2>5 DEF egressVars
    <2> QED BY <2>1, <2>2, <2>3, <2>4, <2>5, FailKeeps DEF EgressNext
  <1> QED BY <1>1, <1>2, PTL DEF EgressSpec, OpensOnClusters

-----------------------------------------------------------------------------
(* Verification of crawlers.  The cache carries it: an entry rests on a lookup *)
(* that said what the entry says, and expires no later than a ttl after that   *)
(* lookup, because it is dated by the clock read before it.                    *)

\* The lookup behind an entry speaks of the key the entry is kept under.
Backs(l, k) ==
  IF k \in Addr THEN l.said = "yes" /\ l.of = k
                ELSE l.said = "no" /\ BlockOf[l.of] = k

Dated(e) == e.lookup.at <= clock /\ e.expires <= e.lookup.at + CacheTTL

CacheRests == \A k \in CacheKeys : cache[k] \in Entry /\ Backs(cache[k].lookup, k) /\ Dated(cache[k])

\* Where request r stands: what it has been told rests on a lookup, and what it
\* is about to store was looked up no earlier than the clock it read.
Told(r) ==
  answer[r] # NoAnswer =>
       /\ answer[r] \in Answer
       /\ answer[r].given - answer[r].lookup.at < CacheTTL
       /\ answer[r].lookup.at <= clock
       /\ answer[r].verdict = "verified" =>
            answer[r].lookup.said = "yes" /\ answer[r].lookup.of = From[r]
       /\ answer[r].verdict = "unverified" =>
            answer[r].lookup.said = "no" /\ BlockOf[answer[r].lookup.of] = BlockOf[From[r]]
       /\ answer[r].verdict = "indeterminate" =>
            /\ answer[r].lookup.said = "" /\ answer[r].lookup.of = From[r]
            /\ answer[r].lookup.at = answer[r].given

Storing(r) ==
  pc[r] = "store" =>
       /\ answer[r] # NoAnswer
       /\ answer[r].verdict # "indeterminate"
       /\ asked[r] <= answer[r].lookup.at

RequestRests(r) ==
  asked[r] \in Nat /\ asked[r] <= clock /\ Told(r) /\ Storing(r)

Point == {"idle", "limit", "lookup", "store", "done"}

CrawlerInv ==
  /\ clock \in Nat /\ dns \in [Addr -> BOOLEAN]
  /\ cache \in [CacheKey -> {NoEntry} \cup Entry]
  /\ pc \in [Req -> Point] /\ asked \in [Req -> Nat]
  /\ answer \in [Req -> {NoAnswer} \cup Answer]
  /\ CacheRests
  /\ \A r \in Req : RequestRests(r)

\* What a lookup of r's address that said so may be told as.
Supports(l, verdict, r) ==
  /\ verdict = "verified" => l.said = "yes" /\ l.of = From[r]
  /\ verdict = "unverified" => l.said = "no" /\ BlockOf[l.of] = BlockOf[From[r]]
  /\ verdict = "indeterminate" => l.said = "" /\ l.of = From[r] /\ l.at = clock

LEMMA Constants ==
  /\ CacheTTL \in Nat /\ CacheTTL > 0
  /\ \A r \in Req : From[r] \in Addr /\ From[r] \in CacheKey
  /\ \A a \in Addr : BlockOf[a] \in Block /\ BlockOf[a] \in CacheKey /\ BlockOf[a] \notin Addr
  BY CrawlerAssumption DEF CacheKey

LEMMA InitCrawler == CrawlerInit => CrawlerInv
  <1> SUFFICES ASSUME CrawlerInit PROVE CrawlerInv
    OBVIOUS
  <1>1. /\ clock = 0 /\ \A k \in CacheKey : cache[k] = NoEntry
        /\ \A r \in Req : pc[r] = "idle" /\ asked[r] = 0 /\ answer[r] = NoAnswer
    BY DEF CrawlerInit
  <1>2. CacheRests
    BY <1>1 DEF CacheRests, CacheKeys
  <1>3. ASSUME NEW r \in Req PROVE RequestRests(r)
    <2>1. Told(r) /\ Storing(r)
      BY <1>1 DEF Told, Storing
    <2>2. asked[r] \in Nat /\ asked[r] <= clock
      BY <1>1
    <2> QED BY <2>1, <2>2 DEF RequestRests
  <1>4. cache \in [CacheKey -> {NoEntry} \cup Entry] /\ dns \in [Addr -> BOOLEAN] /\ clock \in Nat
    BY <1>1 DEF CrawlerInit
  <1>5. pc \in [Req -> Point] /\ asked \in [Req -> Nat] /\ answer \in [Req -> {NoAnswer} \cup Answer]
    BY <1>1 DEF CrawlerInit, Point
  <1> QED BY <1>2, <1>3, <1>4, <1>5 DEF CrawlerInv

\* A live entry speaks for the address or the block it is kept under, and is
\* younger than the ttl.
LEMMA LiveRests ==
  ASSUME CrawlerInv, NEW k \in CacheKey, Live(k, clock)
  PROVE  /\ cache[k].lookup \in Lookup /\ Backs(cache[k].lookup, k)
         /\ cache[k].lookup.at <= clock /\ clock - cache[k].lookup.at < CacheTTL
  <1>1. cache[k] # NoEntry /\ clock < cache[k].expires
    BY DEF Live
  <1>2. cache[k] \in Entry /\ Backs(cache[k].lookup, k) /\ Dated(cache[k])
    BY <1>1 DEF CrawlerInv, CacheRests, CacheKeys
  <1>3. cache[k].expires \in Nat /\ cache[k].lookup \in Lookup /\ cache[k].lookup.at \in Nat
    BY <1>2 DEF Entry, Lookup
  <1>4. clock \in Nat
    BY DEF CrawlerInv
  <1> QED BY <1>1, <1>2, <1>3, <1>4, Constants DEF Dated

\* Telling r a verdict that a lookup younger than the ttl supports is safe.
LEMMA TellInv ==
  ASSUME CrawlerInv, NEW r \in Req, NEW l \in Lookup, NEW next \in {"store", "done"},
         NEW v \in {"verified", "unverified", "indeterminate"},
         Supports(l, v, r), l.at <= clock, clock - l.at < CacheTTL,
         next = "store" => v # "indeterminate" /\ asked'[r] <= l.at,
         asked' \in [Req -> Nat], asked'[r] <= clock,
         \A q \in Req : q # r => asked'[q] = asked[q],
         Tell(r, v, l), Go(r, next), UNCHANGED <<clock, dns, cache>>
  PROVE  CrawlerInv'
  <1> DEFINE a == [verdict |-> v, given |-> clock, lookup |-> l]
  <1>1. a \in Answer /\ a.verdict = v /\ a.given = clock /\ a.lookup = l /\ a # NoAnswer
    BY DEF CrawlerInv, Answer, NoAnswer
  <1>2. /\ answer' = [answer EXCEPT ![r] = a] /\ answer'[r] = a
        /\ pc' = [pc EXCEPT ![r] = next] /\ pc'[r] = next
    BY DEF Tell, Go, CrawlerInv, Point
  <1> HIDE DEF a
  <1>3. /\ answer' \in [Req -> {NoAnswer} \cup Answer]
        /\ pc' \in [Req -> Point]
        /\ \A q \in Req : q # r => answer'[q] = answer[q] /\ pc'[q] = pc[q]
    BY <1>1, <1>2 DEF CrawlerInv, Point
  <1>4. /\ v = "verified" => l.said = "yes" /\ l.of = From[r]
        /\ v = "unverified" => l.said = "no" /\ BlockOf[l.of] = BlockOf[From[r]]
        /\ v = "indeterminate" => l.said = "" /\ l.of = From[r] /\ l.at = clock
    BY DEF Supports
  <1>5. RequestRests(r)'
    <2>1. Told(r)'
      BY <1>1, <1>2, <1>4 DEF Told
    <2>2. Storing(r)'
      BY <1>1, <1>2 DEF Storing
    <2>3. asked'[r] \in Nat /\ asked'[r] <= clock'
      OBVIOUS
    <2> QED BY <2>1, <2>2, <2>3 DEF RequestRests
  <1>6. ASSUME NEW q \in Req, q # r PROVE RequestRests(q)'
    <2>1. RequestRests(q)
      BY DEF CrawlerInv
    <2>2. UNCHANGED <<clock, answer[q], pc[q], asked[q]>>
      BY <1>3, <1>6
    <2> QED BY ONLY <2>1, <2>2 DEF RequestRests, Told, Storing
  <1>7. CacheRests'
    BY DEF CrawlerInv, CacheRests, CacheKeys, Dated, Backs
  <1> QED BY <1>3, <1>5, <1>6, <1>7 DEF CrawlerInv

LEMMA ConsultInv ==
  ASSUME CrawlerInv, NEW r \in Req, Consult(r)
  PROVE  CrawlerInv'
  <1> DEFINE a == From[r]
  <1>1. /\ a \in Addr /\ a \in CacheKey /\ BlockOf[a] \in CacheKey /\ BlockOf[a] \notin Addr
    BY Constants
  <1>2. /\ asked' = [asked EXCEPT ![r] = clock] /\ UNCHANGED <<clock, dns, cache>>
    BY DEF Consult
  <1>3. /\ asked' \in [Req -> Nat] /\ asked'[r] = clock /\ clock \in Nat
        /\ \A q \in Req : q # r => asked'[q] = asked[q]
    BY <1>2 DEF CrawlerInv
  <1>4. CASE Live(a, clock)
    <2>1. Go(r, "done") /\ Tell(r, "verified", cache[a].lookup)
      BY <1>4 DEF Consult
    <2>2. Supports(cache[a].lookup, "verified", r)
      BY <1>1, <1>4, LiveRests DEF Supports, Backs
    <2> QED BY <1>1, <1>2, <1>3, <1>4, <2>1, <2>2, LiveRests, TellInv
  <1>5. CASE ~ Live(a, clock) /\ Live(BlockOf[a], clock)
    <2>1. Go(r, "done") /\ Tell(r, "unverified", cache[BlockOf[a]].lookup)
      BY <1>5 DEF Consult
    <2>2. Backs(cache[BlockOf[a]].lookup, BlockOf[a])
      BY <1>1, <1>5, LiveRests
    <2>3. cache[BlockOf[a]].lookup.said = "no" /\ BlockOf[cache[BlockOf[a]].lookup.of] = BlockOf[a]
      BY <1>1, <2>2 DEF Backs
    <2>4. Supports(cache[BlockOf[a]].lookup, "unverified", r)
      BY <2>3 DEF Supports
    <2> QED BY <1>1, <1>2, <1>3, <1>5, <2>1, <2>4, LiveRests, TellInv
  <1>6. CASE ~ Live(a, clock) /\ ~ Live(BlockOf[a], clock)
    <2>1. Go(r, "limit") /\ UNCHANGED answer
      BY <1>6 DEF Consult
    <2>2. /\ pc' \in [Req -> Point] /\ pc'[r] = "limit"
          /\ \A q \in Req : q # r => pc'[q] = pc[q]
      BY <2>1 DEF Go, CrawlerInv, Point
    <2>3. CacheRests'
      BY <1>2 DEF CrawlerInv, CacheRests, CacheKeys, Dated, Backs
    <2>4. ASSUME NEW q \in Req PROVE RequestRests(q)'
      <3>1. RequestRests(q)
        BY DEF CrawlerInv
      <3>2. asked'[q] \in Nat /\ asked'[q] <= clock
        <4>1. q # r => asked'[q] = asked[q] /\ asked[q] \in Nat /\ asked[q] <= clock
          BY <1>3, <3>1, Zenon DEF RequestRests
        <4>2. q = r => asked'[q] = clock /\ clock \in Nat
          BY <1>3
        <4>3. clock \in Nat => clock <= clock
          OBVIOUS
        <4> QED BY <4>1, <4>2, <4>3
      <3>3. q # r => asked'[q] = asked[q]
        BY <1>3
      <3>4. Told(q)'
        <4>1. Told(q)
          BY <3>1 DEF RequestRests
        <4>2. clock' = clock /\ answer' = answer
          BY <1>2, <2>1
        <4> QED BY <4>1, <4>2, Zenon DEF Told
      <3>5. Storing(q)'
        BY <2>1, <2>2, <3>1, <3>3 DEF RequestRests, Storing
      <3> QED BY <1>2, <3>2, <3>4, <3>5 DEF RequestRests
    <2> QED BY <1>2, <1>3, <2>1, <2>2, <2>3, <2>4 DEF CrawlerInv
  <1> QED BY <1>4, <1>5, <1>6

LEMMA WaitInv ==
  ASSUME CrawlerInv, NEW r \in Req, Acquire(r) \/ Again(r)
  PROVE  CrawlerInv'
  <1>1. UNCHANGED <<clock, dns, cache>> /\ clock \in Nat
    BY DEF Acquire, Again, CrawlerInv
  <1>2. /\ pc' \in [Req -> Point] /\ pc'[r] # "store"
        /\ \A q \in Req : q # r => pc'[q] = pc[q]
    BY DEF Acquire, Again, Go, CrawlerInv, Point
  <1>3. /\ answer' \in [Req -> {NoAnswer} \cup Answer]
        /\ answer'[r] = NoAnswer \/ answer'[r] = answer[r]
        /\ \A q \in Req : q # r => answer'[q] = answer[q]
    BY DEF Acquire, Again, CrawlerInv
  <1>4. /\ asked' \in [Req -> Nat] /\ asked'[r] \in {0, asked[r]}
        /\ \A q \in Req : q # r => asked'[q] = asked[q]
    BY DEF Acquire, Again, CrawlerInv
  <1>5. CacheRests'
    BY <1>1 DEF CrawlerInv, CacheRests, CacheKeys, Dated, Backs
  <1>6. ASSUME NEW q \in Req PROVE RequestRests(q)'
    <2>1. RequestRests(q)
      BY DEF CrawlerInv
    <2>2. CASE q # r
      BY <1>1, <1>2, <1>3, <1>4, <2>1, <2>2 DEF RequestRests, Told, Storing
    <2>3. CASE q = r
      <3>1. asked'[r] \in Nat /\ asked'[r] <= clock'
        <4>1. asked[r] \in Nat /\ asked[r] <= clock
          BY <2>1, <2>3 DEF RequestRests, Told, Storing
        <4>2. 0 <= clock
          BY <1>1
        <4> QED BY <1>1, <1>4, <4>1, <4>2
      <3> QED BY <1>1, <1>2, <1>3, <2>1, <2>3, <3>1 DEF RequestRests, Told, Storing
    <2> QED BY <2>2, <2>3
  <1> QED BY <1>1, <1>2, <1>3, <1>4, <1>5, <1>6 DEF CrawlerInv

LEMMA LookUpInv ==
  ASSUME CrawlerInv, NEW r \in Req, Saturated(r) \/ LookUp(r)
  PROVE  CrawlerInv'
  <1>1. clock \in Nat /\ UNCHANGED <<clock, dns, cache>>
    BY DEF CrawlerInv, Saturated, LookUp
  <1>0. clock <= clock /\ clock - clock < CacheTTL
    BY <1>1, Constants
  <1>2. /\ asked' = asked /\ asked' \in [Req -> Nat] /\ asked'[r] <= clock
    BY DEF CrawlerInv, RequestRests, Told, Storing, Saturated, LookUp
  <1>3. ASSUME NEW said \in {"yes", "no", ""}
        PROVE  /\ Looked(r, said) \in Lookup /\ Looked(r, said).at = clock
               /\ Looked(r, said).said = said /\ Looked(r, said).of = From[r]
    BY <1>1, Constants DEF Looked, Lookup
  <1>4. CASE Tell(r, "verified", Looked(r, "yes")) /\ Go(r, "store")
    <2>1. Supports(Looked(r, "yes"), "verified", r)
      BY <1>3 DEF Supports
    <2> QED BY <1>0, <1>1, <1>2, <1>3, <1>4, <2>1, TellInv
  <1>5. CASE Tell(r, "unverified", Looked(r, "no")) /\ Go(r, "store")
    <2>1. Supports(Looked(r, "no"), "unverified", r)
      BY <1>3 DEF Supports
    <2> QED BY <1>1, <1>2, <1>0, <1>3, <1>5, <2>1, TellInv
  <1>6. CASE Tell(r, "indeterminate", Looked(r, "")) /\ Go(r, "done")
    <2>1. Supports(Looked(r, ""), "indeterminate", r)
      BY <1>3 DEF Supports
    <2> QED BY <1>1, <1>2, <1>0, <1>3, <1>6, <2>1, TellInv
  <1> QED BY <1>4, <1>5, <1>6 DEF Saturated, LookUp

\* What is stored rests on the lookup just made, and its date is no later.
LEMMA StoreInv ==
  ASSUME CrawlerInv, NEW r \in Req, Store(r)
  PROVE  CrawlerInv'
  <1> DEFINE key   == StoreKey(From[r], answer[r].verdict)
             l     == answer[r].lookup
             entry == [expires |-> asked[r] + CacheTTL, lookup |-> l]
  <1>1. /\ pc[r] = "store" /\ RequestRests(r) /\ clock \in Nat
        /\ UNCHANGED <<clock, dns, asked, answer>> /\ Go(r, "done")
    BY DEF Store, CrawlerInv
  <1>2. /\ answer[r] \in Answer /\ answer[r].verdict \in {"verified", "unverified"}
        /\ asked[r] \in Nat /\ asked[r] <= l.at /\ l.at <= clock /\ l \in Lookup
    BY <1>1 DEF RequestRests, Told, Storing, Answer
  <1>3. Backs(l, key) /\ key \in CacheKey
    <2>1. CASE answer[r].verdict = "verified"
      BY <1>1, <1>2, <2>1, Constants DEF StoreKey, Backs, RequestRests, Told, Storing
    <2>2. CASE answer[r].verdict = "unverified"
      BY <1>1, <1>2, <2>2, Constants DEF StoreKey, Backs, RequestRests, Told, Storing
    <2> QED BY <1>2, <2>1, <2>2
  <1>4. entry \in Entry /\ entry.lookup = l /\ entry.expires = asked[r] + CacheTTL
    BY <1>2, Constants DEF Entry
  <1>5. \A k \in CacheKey : cache'[k] = (IF k = key THEN entry ELSE cache'[k]) /\ cache'[k] \in {entry, NoEntry, cache[k]}
                       /\ (k # key => cache'[k] \in {NoEntry, cache[k]})
    BY DEF Store
  <1>6. cache' = [k \in CacheKey |-> cache'[k]] 
    BY DEF Store
  <1> HIDE DEF key, entry, l
  <1>7. cache' \in [CacheKey -> {NoEntry} \cup Entry]
    BY <1>4, <1>5, <1>6 DEF CrawlerInv
  <1>8. entry.lookup.at <= clock' /\ entry.expires <= entry.lookup.at + CacheTTL
    <2>1. l.at \in Nat
      BY <1>2 DEF Lookup
    <2> QED BY <1>1, <1>2, <1>4, <2>1, Constants
  <1>9. CacheRests'
    <2> SUFFICES ASSUME NEW k \in CacheKeys'
                 PROVE  cache'[k] \in Entry /\ Backs(cache[k].lookup, k)' /\ Dated(cache[k])'
      BY DEF CacheRests
    <2>1. k \in CacheKey /\ cache'[k] # NoEntry
      BY DEF CacheKeys
    <2>2. CASE k = key
      BY <1>3, <1>4, <1>5, <1>8, <2>1, <2>2 DEF Backs, Dated
    <2>3. CASE k # key
      <3>1. cache'[k] = cache[k] /\ k \in CacheKeys
        BY <1>5, <2>1, <2>3 DEF CacheKeys
      <3> QED BY <1>1, <3>1 DEF CrawlerInv, CacheRests, Backs, Dated
    <2> QED BY <2>2, <2>3
  <1>10. /\ pc' \in [Req -> Point] /\ pc'[r] = "done"
         /\ \A q \in Req : q # r => pc'[q] = pc[q]
    BY <1>1 DEF Go, CrawlerInv, Point
  <1>11. ASSUME NEW q \in Req PROVE RequestRests(q)'
    BY <1>1, <1>10 DEF RequestRests, Told, Storing, CrawlerInv
  <1> QED BY <1>1, <1>7, <1>9, <1>10, <1>11 DEF CrawlerInv

\* Neither what DNS changes nor the passing of time disturbs what was told.
LEMMA WorldInv ==
  ASSUME CrawlerInv, CrawlerTick \/ \E a \in Addr : Republish(a)
  PROVE  CrawlerInv'
  <1>1. clock' \in Nat /\ clock \in Nat /\ clock <= clock' /\ UNCHANGED <<cache, pc, asked, answer>>
    BY DEF CrawlerInv, CrawlerTick, Republish
  <1>2. dns' \in [Addr -> BOOLEAN]
    BY DEF CrawlerInv, CrawlerTick, Republish
  <1>3. CacheRests'
    <2> SUFFICES ASSUME NEW k \in CacheKeys PROVE Dated(cache[k])'
      BY <1>1 DEF CrawlerInv, CacheRests, CacheKeys, Backs
    <2>1. cache[k] \in Entry /\ Dated(cache[k])
      BY DEF CrawlerInv, CacheRests
    <2>2. cache[k].lookup.at \in Nat
      BY <2>1 DEF Entry, Lookup
    <2> QED BY <1>1, <2>1, <2>2 DEF Dated
  <1>4. ASSUME NEW q \in Req PROVE RequestRests(q)'
    <2>1. RequestRests(q)
      BY DEF CrawlerInv
    <2>2. answer[q] # NoAnswer => answer[q].lookup.at \in Nat
      BY <2>1 DEF RequestRests, Told, Storing, Answer, Lookup
    <2>3. Told(q)'
      <3>1. answer[q] # NoAnswer => answer[q].lookup.at <= clock'
        <4>1. Told(q) /\ (answer[q] # NoAnswer => answer[q].lookup.at \in Nat)
          BY <2>1, <2>2, Zenon DEF RequestRests
        <4>2. answer[q] # NoAnswer => answer[q].lookup.at <= clock
          BY <4>1, Zenon DEF Told
        <4> QED BY <1>1, <4>1, <4>2
      <3>2. Told(q)
        BY <2>1 DEF RequestRests
      <3> QED BY <1>1, <3>1, <3>2, Zenon DEF Told
    <2>4. Storing(q)'
      BY <1>1, <2>1 DEF RequestRests, Storing
    <2>5. asked'[q] \in Nat /\ asked'[q] <= clock'
      BY <1>1, <2>1 DEF RequestRests
    <2> QED BY <2>3, <2>4, <2>5 DEF RequestRests
  <1> QED BY <1>1, <1>2, <1>3, <1>4 DEF CrawlerInv

\* CrawlerInv is inductive.
LEMMA StepCrawler == CrawlerInv /\ [CrawlerNext]_crawlerVars => CrawlerInv'
  <1> SUFFICES ASSUME CrawlerInv, [CrawlerNext]_crawlerVars PROVE CrawlerInv'
    OBVIOUS
  <1>1. ASSUME NEW r \in Req, Handler(r) \/ Again(r) PROVE CrawlerInv'
    BY <1>1, ConsultInv, WaitInv, LookUpInv, StoreInv DEF Handler
  <1>2. CASE UNCHANGED crawlerVars
    BY <1>2 DEF crawlerVars, CrawlerInv, CacheRests, CacheKeys, Backs, Dated, RequestRests, Told, Storing
  <1> QED BY <1>1, <1>2, WorldInv DEF CrawlerNext

\* A verdict rests on what DNS said (crawler/verifier.go verifyProvider): a
\* verified crawler on a yes about its very address, a refused one on a no about
\* its block, and an outage on neither; and none is older than the cache's ttl, for
\* every ttl and however many lookups race.
THEOREM VerdictsRest == CrawlerSpec => []AnswersRest
  <1>1. CrawlerInv => AnswersRest
    <2> SUFFICES ASSUME CrawlerInv, NEW r \in Req, answer[r] # NoAnswer
                 PROVE  LET l == answer[r].lookup
                        IN  /\ CASE answer[r].verdict = "verified" -> l.said = "yes" /\ l.of = From[r]
                                 [] answer[r].verdict = "unverified" ->
                                      l.said = "no" /\ BlockOf[l.of] = BlockOf[From[r]]
                                 [] answer[r].verdict = "indeterminate" ->
                                      l.said = "" /\ l.of = From[r] /\ l.at = answer[r].given
                            /\ answer[r].given - l.at < CacheTTL
      BY DEF AnswersRest
    <2>1. answer[r].verdict \in {"verified", "unverified", "indeterminate"} /\ RequestRests(r)
      BY DEF CrawlerInv, RequestRests, Told, Storing, Answer
    <2>2. /\ answer[r].verdict = "verified" =>
               answer[r].lookup.said = "yes" /\ answer[r].lookup.of = From[r]
          /\ answer[r].verdict = "unverified" =>
               answer[r].lookup.said = "no" /\ BlockOf[answer[r].lookup.of] = BlockOf[From[r]]
          /\ answer[r].verdict = "indeterminate" =>
               /\ answer[r].lookup.said = "" /\ answer[r].lookup.of = From[r]
               /\ answer[r].lookup.at = answer[r].given
      BY <2>1 DEF RequestRests, Told, Storing
    <2>3. "verified" # "unverified" /\ "verified" # "indeterminate" /\ "unverified" # "indeterminate"
      OBVIOUS
    <2>4. answer[r].given - answer[r].lookup.at < CacheTTL
      BY <2>1 DEF RequestRests, Told, Storing
    <2> QED BY <2>1, <2>2, <2>3, <2>4, ZenonT(30)
  <1> QED BY <1>1, InitCrawler, StepCrawler, PTL DEF CrawlerSpec

-----------------------------------------------------------------------------
(* Wait pages.  What carries the proof is the order of the two dates of an     *)
(* entry: it is dated by a stat made before the read that filled it, so its    *)
(* body is never older than its date, and an entry that matches a stat is no   *)
(* older than that stat.                                                       *)

DatesRest ==
  \A p \in Page : pages[p] # NotCached =>
    pages[p].date <= pages[p].body /\ pages[p].body <= file[p].version

ReadsCurrent ==
  \A q \in Request :
    LET disk == file[reader[q].page].version
    IN  /\ reader[q].at \in {"consult", "read", "store"} => reader[q].date <= disk
        /\ reader[q].at = "store" =>
             /\ reader[q].body # Default
             /\ reader[q].date <= reader[q].body /\ reader[q].body <= disk

PageInv == PageTypeOK /\ DatesRest /\ ReadsCurrent /\ EditsAreLive

LEMMA PageInitInv == PageInit => PageInv
  BY PageAssumption DEF PageInit, PageInv, PageTypeOK, DatesRest, ReadsCurrent, EditsAreLive,
     Nowhere, Reading, Version, Form, NotCached, CachedPage, Default

LEMMA StatPageInv ==
  ASSUME PageInv, NEW q \in Request, NEW p \in Page, StatPage(q, p)
  PROVE  PageInv'
  BY PageAssumption DEF PageInv, PageTypeOK, DatesRest, ReadsCurrent, EditsAreLive, StatPage,
     Reading, Version, Form, NotCached, CachedPage, Default

\* Serving a body no older than the stat, and no newer than the disk, is safe.
LEMMA ServeInv ==
  ASSUME PageInv, NEW q \in Request, NEW body \in Version \cup {Default},
         reader[q].date <= file[reader[q].page].version,
         body # Default => reader[q].date <= body /\ body <= file[reader[q].page].version,
         Serve(q, body), UNCHANGED <<file, pages>>
  PROVE  PageInv'
  <1>1. reader' = [reader EXCEPT ![q] = [reader[q] EXCEPT !.at = "served", !.body = body]]
    BY DEF Serve, PageInv, PageTypeOK
  <1>2. reader[q] \in Reading
    BY DEF PageInv, PageTypeOK
  <1>3. /\ reader'[q] \in Reading /\ reader'[q].at = "served" /\ reader'[q].body = body
        /\ reader'[q].date = reader[q].date /\ reader'[q].page = reader[q].page
    BY <1>1, <1>2 DEF Reading, PageInv, PageTypeOK
  <1>4. \A s \in Request : s # q => reader'[s] = reader[s]
    BY <1>1 DEF PageInv, PageTypeOK
  <1>5. PageTypeOK'
    BY <1>1, <1>3 DEF PageInv, PageTypeOK
  <1>6. ReadsCurrent'
    BY <1>3, <1>4 DEF PageInv, ReadsCurrent
  <1>7. EditsAreLive'
    BY <1>3, <1>4 DEF PageInv, EditsAreLive
  <1> QED BY <1>5, <1>6, <1>7 DEF PageInv, DatesRest

LEMMA ConsultPageInv ==
  ASSUME PageInv, NEW q \in Request, ConsultPage(q)
  PROVE  PageInv'
  <1> DEFINE p == reader[q].page
  <1>1. /\ reader[q] \in Reading /\ reader[q].date <= file[p].version
        /\ p \in Page /\ reader[q].at = "consult" /\ UNCHANGED <<file, pages>>
    BY DEF PageInv, PageTypeOK, ReadsCurrent, ConsultPage, Reading
  <1>2. CASE Fresh(p, reader[q].date)
    <2>1. pages[p] \in CachedPage /\ pages[p].date = reader[q].date
      BY <1>1, <1>2 DEF Fresh, PageInv, PageTypeOK
    <2>2. /\ pages[p].body \in Version
          /\ reader[q].date <= pages[p].body /\ pages[p].body <= file[p].version
      BY <1>1, <1>2, <2>1 DEF CachedPage, PageInv, DatesRest, Fresh
    <2>3. Serve(q, pages[p].body)
      BY <1>2 DEF ConsultPage
    <2> QED BY <1>1, <2>2, <2>3, ServeInv
  <1>3. CASE ~ Fresh(p, reader[q].date)
    <2>1. reader' = [reader EXCEPT ![q].at = "read"]
      BY <1>3 DEF ConsultPage
    <2> QED BY <1>1, <2>1 DEF PageInv, PageTypeOK, DatesRest, ReadsCurrent, EditsAreLive, Reading
  <1> QED BY <1>2, <1>3

LEMMA ReadPageInv ==
  ASSUME PageInv, NEW q \in Request, ReadPage(q)
  PROVE  PageInv'
  <1> DEFINE disk == file[reader[q].page]
  <1>1. /\ reader[q] \in Reading /\ reader[q].date <= disk.version /\ disk.version \in Version
        /\ reader[q].at = "read" /\ UNCHANGED <<file, pages>>
    BY DEF PageInv, PageTypeOK, ReadsCurrent, ReadPage, Reading
  <1>2. CASE disk.form = "gone"
    <2>1. Serve(q, Default)
      BY <1>2 DEF ReadPage
    <2> QED BY <1>1, <2>1, ServeInv
  <1>3. CASE disk.form # "gone"
    <2>1. reader' = [reader EXCEPT ![q] = [reader[q] EXCEPT !.at = "store", !.body = disk.version]]
      BY <1>3 DEF ReadPage, PageInv, PageTypeOK
    <2>2. /\ reader'[q] \in Reading /\ reader'[q].at = "store"
          /\ reader'[q].body = disk.version /\ reader'[q].date = reader[q].date
          /\ reader'[q].page = reader[q].page
      BY <1>1, <2>1 DEF Reading, PageInv, PageTypeOK
    <2>3. \A s \in Request : s # q => reader'[s] = reader[s]
      BY <2>1 DEF PageInv, PageTypeOK
    <2>4. disk.version # Default
      BY <1>1, PageAssumption DEF Version, Default
    <2>5. PageTypeOK'
      BY <1>1, <2>1, <2>2 DEF PageInv, PageTypeOK
    <2>6. ReadsCurrent'
      <3>1. disk.version <= disk.version
        BY <1>1, PageAssumption DEF Version
      <3> QED BY <1>1, <2>2, <2>3, <2>4, <3>1 DEF PageInv, ReadsCurrent
    <2>7. EditsAreLive'
      BY <1>1, <2>2, <2>3 DEF PageInv, EditsAreLive
    <2> QED BY <1>1, <2>5, <2>6, <2>7 DEF PageInv, DatesRest
  <1> QED BY <1>2, <1>3

LEMMA StorePageInv ==
  ASSUME PageInv, NEW q \in Request, StorePage(q)
  PROVE  PageInv'
  BY PageAssumption DEF PageInv, PageTypeOK, DatesRest, ReadsCurrent, EditsAreLive, StorePage,
     Serve, Reading, Version, Form, NotCached, CachedPage, Default

LEMMA EditFileInv ==
  ASSUME PageInv, NEW p \in Page, EditFile(p)
  PROVE  PageInv'
  BY PageAssumption DEF PageInv, PageTypeOK, DatesRest, ReadsCurrent, EditsAreLive, EditFile,
     Reading, Version, Form, NotCached, CachedPage, Default

\* PageInv is inductive.
LEMMA PageStepInv == PageInv /\ [PageNext]_pageVars => PageInv'
  <1> SUFFICES ASSUME PageInv, [PageNext]_pageVars PROVE PageInv'
    OBVIOUS
  <1>1. CASE PageNext
    BY <1>1, StatPageInv, ConsultPageInv, ReadPageInv, StorePageInv, EditFileInv DEF PageNext
  <1>2. CASE UNCHANGED pageVars
    BY <1>2 DEF pageVars, PageInv, PageTypeOK, DatesRest, ReadsCurrent, EditsAreLive
  <1> QED BY <1>1, <1>2

\* Wait pages are never served from before the request that asked (waitpage.go
\* read): however the stats, reads and stores of other requests interleave with
\* the operator's edits, a page served was on disk at or after the stat.
THEOREM PagesAreCurrent == PageSpec => []EditsAreLive
  <1>1. PageInv => EditsAreLive
    BY DEF PageInv
  <1> QED BY <1>1, PageInitInv, PageStepInv, PTL DEF PageSpec
-----------------------------------------------------------------------------
(* The activity log.  An entry and the history beside it are opened, counted   *)
(* up and dropped together.                                                    *)

ActivityInv ==
  /\ ActivityTypeOK
  /\ IsFiniteSet(DOMAIN entries) /\ Cardinality(DOMAIN entries) <= Cap
  /\ DOMAIN did = DOMAIN entries
  /\ \A ip \in DOMAIN entries : entries[ip].lastSeen <= instant
  /\ \A ip \in DOMAIN entries : did[ip] \in [Kind -> Nat]
  /\ Exact

LEMMA ActivityInitInv == ActivityInit => ActivityInv
  <1> SUFFICES ASSUME ActivityInit PROVE ActivityInv
    OBVIOUS
  <1>1. DOMAIN entries = {} /\ DOMAIN did = {} /\ instant = 0
    BY DEF ActivityInit, NoActivity
  <1>2. IsFiniteSet({}) /\ Cardinality({}) = 0
    BY FS_EmptySet
  <1> QED BY <1>1, <1>2, ActivityAssumption DEF ActivityInv, ActivityTypeOK, Exact

\* What an outcome counts as is what it means: one of its kind, or nothing.
LEMMA CountsAsMeant ==
  ASSUME NEW o
  PROVE  /\ Counts(o) \in Kind \cup {"nothing"}
         /\ \A k \in Kind : Meant(o)[k] = IF k = Counts(o) THEN 1 ELSE 0
         /\ Meant(o) \in [Kind -> Nat]
  BY DEF Counts, Meant, Kind, Nothing, Faults

\* One more of a kind, in an entry that keeps its form.
LEMMA BumpCounts ==
  ASSUME NEW e \in ActivityEntry, NEW k \in Kind, instant \in 0 .. MaxInstant,
         e.firstSeen <= instant
  PROVE  /\ Bump(e, k) \in ActivityEntry
         /\ Bump(e, k).firstSeen <= Bump(e, k).lastSeen
         /\ Bump(e, k).lastSeen = instant
         /\ \A j \in Kind : Bump(e, k)[j] = e[j] + IF j = k THEN 1 ELSE 0
  <1>1. CASE k = "failed"
    <2> DEFINE f == [e EXCEPT !.failed = e.failed + 1]
    <2>1. f \in ActivityEntry /\ f.firstSeen = e.firstSeen
      BY DEF ActivityEntry
    <2>2. f.failed = e.failed + 1 /\ f.admits = e.admits /\ f.renews = e.renews
      BY DEF ActivityEntry
    <2>3. Bump(e, k) = [f EXCEPT !.lastSeen = instant]
      BY <1>1 DEF Bump
    <2>4. e.admits \in Nat /\ e.renews \in Nat
      BY DEF ActivityEntry
    <2> HIDE DEF f
    <2>5. Bump(e, k) \in ActivityEntry
      BY <2>1, <2>3 DEF ActivityEntry
    <2>6. Bump(e, k).firstSeen <= Bump(e, k).lastSeen /\ Bump(e, k).lastSeen = instant
      BY <2>1, <2>3 DEF ActivityEntry
    <2>7. \A j \in Kind : Bump(e, k)[j] = f[j]
      BY <2>1, <2>3 DEF ActivityEntry, Kind
    <2> QED BY <1>1, <2>2, <2>4, <2>5, <2>6, <2>7 DEF Kind
  <1>2. CASE k = "admits"
    <2> DEFINE f == [e EXCEPT !.admits = e.admits + 1]
    <2>1. f \in ActivityEntry /\ f.firstSeen = e.firstSeen
      BY DEF ActivityEntry
    <2>2. f.admits = e.admits + 1 /\ f.failed = e.failed /\ f.renews = e.renews
      BY DEF ActivityEntry
    <2>3. Bump(e, k) = [f EXCEPT !.lastSeen = instant]
      BY <1>2 DEF Bump
    <2>4. e.failed \in Nat /\ e.renews \in Nat
      BY DEF ActivityEntry
    <2> HIDE DEF f
    <2>5. Bump(e, k) \in ActivityEntry
      BY <2>1, <2>3 DEF ActivityEntry
    <2>6. Bump(e, k).firstSeen <= Bump(e, k).lastSeen /\ Bump(e, k).lastSeen = instant
      BY <2>1, <2>3 DEF ActivityEntry
    <2>7. \A j \in Kind : Bump(e, k)[j] = f[j]
      BY <2>1, <2>3 DEF ActivityEntry, Kind
    <2> QED BY <1>2, <2>2, <2>4, <2>5, <2>6, <2>7 DEF Kind
  <1>3. CASE k = "renews"
    <2> DEFINE f == [e EXCEPT !.renews = e.renews + 1]
    <2>1. f \in ActivityEntry /\ f.firstSeen = e.firstSeen
      BY DEF ActivityEntry
    <2>2. f.renews = e.renews + 1 /\ f.failed = e.failed /\ f.admits = e.admits
      BY DEF ActivityEntry
    <2>3. Bump(e, k) = [f EXCEPT !.lastSeen = instant]
      BY <1>3 DEF Bump
    <2>4. e.failed \in Nat /\ e.admits \in Nat
      BY DEF ActivityEntry
    <2> HIDE DEF f
    <2>5. Bump(e, k) \in ActivityEntry
      BY <2>1, <2>3 DEF ActivityEntry
    <2>6. Bump(e, k).firstSeen <= Bump(e, k).lastSeen /\ Bump(e, k).lastSeen = instant
      BY <2>1, <2>3 DEF ActivityEntry
    <2>7. \A j \in Kind : Bump(e, k)[j] = f[j]
      BY <2>1, <2>3 DEF ActivityEntry, Kind
    <2> QED BY <1>3, <2>2, <2>4, <2>5, <2>6, <2>7 DEF Kind
  <1> QED BY <1>1, <1>2, <1>3 DEF Kind

\* Whom to keep: the live, but for one at most, who makes room if nobody has.
LEMMA MakeRoomKeeps ==
  ASSUME ActivityInv, NEW keep \in MakeRoom
  PROVE  /\ keep \subseteq LiveIps /\ LiveIps \subseteq DOMAIN entries
         /\ IsFiniteSet(keep) /\ Cardinality(keep) < Cap
         /\ \/ keep = LiveIps
            \/ /\ Cardinality(DOMAIN entries) = Cap /\ LiveIps = DOMAIN entries
               /\ \E ip \in Quietest(LiveIps) : keep = LiveIps \ {ip}
  <1> DEFINE tracked == DOMAIN entries
  <1>1. LiveIps \subseteq tracked
    BY DEF LiveIps
  <1>2. IsFiniteSet(tracked) /\ Cardinality(tracked) <= Cap /\ Cap \in Nat \ {0}
    BY ActivityAssumption DEF ActivityInv
  <1>3. /\ IsFiniteSet(LiveIps) /\ Cardinality(LiveIps) \in Nat /\ Cardinality(tracked) \in Nat
        /\ Cardinality(LiveIps) <= Cardinality(tracked)
        /\ Cardinality(LiveIps) = Cardinality(tracked) => LiveIps = tracked
    BY <1>1, <1>2, FS_Subset, FS_CardinalityType
  <1>4. CASE Cardinality(LiveIps) < Cap
    BY <1>1, <1>3, <1>4 DEF MakeRoom
  <1>5. CASE ~ (Cardinality(LiveIps) < Cap)
    <2>1. Cardinality(tracked) = Cap /\ LiveIps = tracked /\ Cardinality(LiveIps) = Cap
      BY <1>2, <1>3, <1>5
    <2>2. PICK ip \in Quietest(LiveIps) : keep = LiveIps \ {ip}
      BY <1>5 DEF MakeRoom
    <2>3. ip \in LiveIps
      BY <2>2 DEF Quietest
    <2>4. IsFiniteSet(keep) /\ Cardinality(keep) = Cardinality(LiveIps) - 1
      BY <1>3, <2>2, <2>3, FS_RemoveElement
    <2>5. Cardinality(keep) < Cap
      BY <1>2, <2>1, <2>4
    <2> QED BY <1>1, <2>1, <2>2, <2>4, <2>5
  <1> QED BY <1>4, <1>5

\* An event that adds to the entries what it adds to the history keeps them equal.
LEMMA RememberInv ==
  ASSUME ActivityInv, NEW ip, NEW o, Remember(ip, o), instant' = instant,
         DOMAIN entries' \subseteq Ip, IsFiniteSet(DOMAIN entries'),
         Cardinality(DOMAIN entries') <= Cap,
         \A i \in DOMAIN entries' :
           /\ entries'[i] \in ActivityEntry
           /\ entries'[i].firstSeen <= entries'[i].lastSeen
           /\ entries'[i].lastSeen <= instant
           /\ \A k \in Kind :
                entries'[i][k] = (IF i \in DOMAIN entries THEN entries[i][k] ELSE 0)
                                   + IF i = ip THEN Meant(o)[k] ELSE 0
  PROVE  ActivityInv'
  <1>1. ActivityTypeOK'
    BY DEF ActivityInv, ActivityTypeOK
  <1>2. DOMAIN did' = DOMAIN entries'
    BY DEF Remember
  <1>3. ASSUME NEW i \in DOMAIN entries'
        PROVE  did'[i] \in [Kind -> Nat] /\ \A k \in Kind : entries'[i][k] = did'[i][k]
    <2> DEFINE before == IF i \in DOMAIN entries THEN did[i] ELSE Nothing
               more(k) == IF i = ip THEN Meant(o)[k] ELSE 0
    <2>1. did'[i] = [k \in Kind |-> before[k] + more(k)]
      BY <1>3 DEF Remember
    <2>2. ASSUME NEW k \in Kind
          PROVE  /\ before[k] \in Nat /\ more(k) \in Nat
                 /\ before[k] = IF i \in DOMAIN entries THEN entries[i][k] ELSE 0
      BY CountsAsMeant DEF ActivityInv, Exact, Nothing
    <2>3. \A k \in Kind : entries'[i][k] = before[k] + more(k)
      BY <1>3, <2>2
    <2> HIDE DEF before, more
    <2> QED BY <2>1, <2>2, <2>3
  <1> QED BY <1>1, <1>2, <1>3 DEF ActivityInv, Exact

LEMMA FreshIsEmpty ==
  ASSUME instant \in 0 .. MaxInstant
  PROVE  /\ FreshEntry \in ActivityEntry /\ FreshEntry.firstSeen = instant
         /\ \A k \in Kind : FreshEntry[k] = 0
  BY DEF FreshEntry, ActivityEntry, Kind

LEMMA NoteInv ==
  ASSUME ActivityInv, NEW ip, NEW o, Note(ip, o)
  PROVE  ActivityInv'
  <1> DEFINE k == Counts(o)
  <1>1. Remember(ip, o) /\ instant' = instant /\ instant \in 0 .. MaxInstant /\ instant <= instant
    BY ActivityAssumption DEF Note, ActivityInv, ActivityTypeOK
  <1>2. /\ k \in Kind \cup {"nothing"} /\ "nothing" \notin Kind
        /\ \A j \in Kind : Meant(o)[j] = IF j = k THEN 1 ELSE 0
    BY CountsAsMeant DEF Kind
  <1> HIDE DEF k
  <1>3. /\ DOMAIN entries \subseteq Ip /\ IsFiniteSet(DOMAIN entries) /\ Cardinality(DOMAIN entries) <= Cap
        /\ \A i \in DOMAIN entries :
             /\ entries[i] \in ActivityEntry /\ entries[i].firstSeen <= entries[i].lastSeen
             /\ entries[i].lastSeen <= instant
             /\ \A j \in Kind : entries[i][j] \in Nat
    BY DEF ActivityInv, ActivityTypeOK, ActivityEntry, Kind
  <1>4. CASE ~ (ip \in Ip /\ k # "nothing")
    <2>1. entries' = entries
      BY <1>4 DEF Note, k
    <2>2. ASSUME NEW i \in DOMAIN entries, NEW j \in Kind
          PROVE  entries[i][j] = entries[i][j] + IF i = ip THEN Meant(o)[j] ELSE 0
      BY <1>2, <1>3, <1>4
    <2> QED BY <1>1, <1>3, <2>1, <2>2, RememberInv
  <1>5. CASE ip \in DOMAIN entries /\ k # "nothing"
    <2>1. entries' = [entries EXCEPT ![ip] = Bump(@, k)]
      BY <1>3, <1>5 DEF Note, Record, k
    <2>2. k \in Kind /\ entries[ip] \in ActivityEntry /\ entries[ip].firstSeen <= instant
      <3>1. /\ entries[ip].firstSeen \in 0 .. MaxInstant /\ entries[ip].lastSeen \in 0 .. MaxInstant
            /\ entries[ip] \in ActivityEntry
        BY <1>3, <1>5, Zenon DEF ActivityEntry
      <3>2. entries[ip].firstSeen <= entries[ip].lastSeen /\ entries[ip].lastSeen <= instant
        BY <1>3, <1>5
      <3> QED BY <1>1, <1>2, <1>5, <3>1, <3>2
    <2>3. DOMAIN entries' = DOMAIN entries /\ entries'[ip] = Bump(entries[ip], k)
      BY <1>5, <2>1
    <2>4. \A i \in DOMAIN entries : i # ip => entries'[i] = entries[i]
      BY <2>1
    <2>5. \A j \in Kind : entries'[ip][j] = entries[ip][j] + Meant(o)[j]
      BY <1>1, <1>2, <2>2, <2>3, BumpCounts
    <2>6. ASSUME NEW i \in DOMAIN entries
          PROVE  /\ entries'[i] \in ActivityEntry /\ entries'[i].firstSeen <= entries'[i].lastSeen
                 /\ entries'[i].lastSeen <= instant
                 /\ \A j \in Kind :
                      entries'[i][j] = entries[i][j] + IF i = ip THEN Meant(o)[j] ELSE 0
      <3>1. CASE i = ip
        BY <1>1, <2>2, <2>3, <2>5, <3>1, BumpCounts
      <3>2. CASE i # ip
        BY <1>3, <2>4, <3>2
      <3> QED BY <3>1, <3>2
    <2> QED BY <1>1, <1>3, <2>3, <2>6, RememberInv
  <1>6. CASE ip \in Ip \ DOMAIN entries /\ k # "nothing"
    <2>1. PICK keep : /\ keep \in IF Cardinality(DOMAIN entries) >= Cap THEN MakeRoom
                                   ELSE {DOMAIN entries}
                      /\ entries' = [i \in keep \cup {ip} |->
                            IF i = ip THEN Bump(FreshEntry, k) ELSE entries[i]]
      BY <1>6 DEF Note, Record, k
    <2>2. keep \subseteq DOMAIN entries /\ IsFiniteSet(keep) /\ Cardinality(keep) < Cap
      <3>1. CASE Cardinality(DOMAIN entries) >= Cap
        BY <2>1, <3>1, MakeRoomKeeps
      <3>2. CASE ~ (Cardinality(DOMAIN entries) >= Cap)
        <4>1. keep = DOMAIN entries /\ Cardinality(DOMAIN entries) \in Nat /\ Cap \in Nat
          BY <1>3, <2>1, <3>2, FS_CardinalityType, ActivityAssumption
        <4> QED BY <1>3, <3>2, <4>1
      <3> QED BY <3>1, <3>2
    <2>3. DOMAIN entries' = keep \cup {ip} /\ ip \notin keep
      BY <1>6, <2>1, <2>2
    <2>4. IsFiniteSet(DOMAIN entries') /\ Cardinality(DOMAIN entries') <= Cap
      <3>1. Cardinality(keep) \in Nat /\ Cap \in Nat
        BY <2>2, FS_CardinalityType, ActivityAssumption
      <3>2. IsFiniteSet(keep \cup {ip}) /\ Cardinality(keep \cup {ip}) = Cardinality(keep) + 1
        BY <2>2, <2>3, FS_AddElement
      <3> QED BY <2>2, <2>3, <3>1, <3>2
    <2>5. entries'[ip] = Bump(FreshEntry, k) /\ \A i \in keep : entries'[i] = entries[i]
      BY <2>1, <2>3
    <2>6. k \in Kind
      BY <1>2, <1>6
    <2>7. ASSUME NEW i \in DOMAIN entries'
          PROVE  /\ entries'[i] \in ActivityEntry /\ entries'[i].firstSeen <= entries'[i].lastSeen
                 /\ entries'[i].lastSeen <= instant
                 /\ \A j \in Kind :
                      entries'[i][j] = (IF i \in DOMAIN entries THEN entries[i][j] ELSE 0)
                                         + IF i = ip THEN Meant(o)[j] ELSE 0
      <3>1. CASE i = ip
        <4>1. /\ FreshEntry \in ActivityEntry /\ FreshEntry.firstSeen <= instant
              /\ \A j \in Kind : FreshEntry[j] = 0
          BY <1>1, FreshIsEmpty
        <4> QED BY <1>1, <1>2, <1>6, <2>5, <2>6, <3>1, <4>1, BumpCounts
      <3>2. CASE i # ip
        BY <1>3, <2>2, <2>3, <2>5, <3>2
      <3> QED BY <3>1, <3>2
    <2> QED BY <1>1, <1>3, <1>6, <2>2, <2>3, <2>4, <2>7, RememberInv
  <1> QED BY <1>3, <1>4, <1>5, <1>6

\* ActivityInv is inductive.
LEMMA ActivityStep == ActivityInv /\ [ActivityNext]_activityVars => ActivityInv'
  <1> SUFFICES ASSUME ActivityInv, [ActivityNext]_activityVars PROVE ActivityInv'
    OBVIOUS
  <1>1. ASSUME NEW ip \in Ip \cup {NoIp}, NEW o \in Answers, NoteAnswer(ip, o) PROVE ActivityInv'
    BY <1>1, NoteInv DEF NoteAnswer
  <1>2. ASSUME NEW ip \in Ip \cup {NoIp}, NEW walled \in BOOLEAN, RecordDecision(ip, walled)
        PROVE  ActivityInv'
    BY <1>2, NoteInv DEF RecordDecision
  <1>3. CASE ReadLog
    <2>1. /\ DOMAIN entries' = LiveIps /\ DOMAIN did' = LiveIps /\ instant' = instant
          /\ \A ip \in LiveIps : entries'[ip] = entries[ip] /\ did'[ip] = did[ip]
      BY <1>3 DEF ReadLog, Prune
    <2>2. LiveIps \subseteq DOMAIN entries
      BY DEF LiveIps
    <2>3. IsFiniteSet(LiveIps) /\ Cardinality(LiveIps) <= Cap
      <3>1. IsFiniteSet(DOMAIN entries) /\ Cardinality(DOMAIN entries) <= Cap /\ Cap \in Nat
        BY ActivityAssumption DEF ActivityInv
      <3>2. /\ IsFiniteSet(LiveIps) /\ Cardinality(LiveIps) <= Cardinality(DOMAIN entries)
            /\ Cardinality(LiveIps) \in Nat /\ Cardinality(DOMAIN entries) \in Nat
        BY <2>2, <3>1, FS_Subset, FS_CardinalityType
      <3> QED BY <3>1, <3>2
    <2> HIDE DEF LiveIps
    <2> QED BY <2>1, <2>2, <2>3 DEF ActivityInv, ActivityTypeOK, Exact
  <1>4. CASE ActivityTick
    <2>1. /\ instant' = instant + 1 /\ instant' \in 0 .. MaxInstant
          /\ entries' = entries /\ did' = did
      BY <1>4, ActivityAssumption DEF ActivityTick, ActivityInv, ActivityTypeOK
    <2>2. \A ip \in DOMAIN entries : entries[ip].lastSeen <= instant'
      <3> SUFFICES ASSUME NEW ip \in DOMAIN entries PROVE entries[ip].lastSeen <= instant'
        OBVIOUS
      <3>1. entries[ip].lastSeen \in 0 .. MaxInstant /\ entries[ip].lastSeen <= instant /\ instant \in Nat
        BY DEF ActivityInv, ActivityTypeOK, ActivityEntry
      <3> QED BY <2>1, <3>1
    <2> QED BY <2>1, <2>2 DEF ActivityInv, ActivityTypeOK, Exact
  <1>5. CASE UNCHANGED activityVars
    BY <1>5 DEF activityVars, ActivityInv, ActivityTypeOK, Exact
  <1> QED BY <1>1, <1>2, <1>3, <1>4, <1>5 DEF ActivityNext

\* What the log tells an auto-banner of an address is what it did since the gate
\* began to track it (activity.go record, gate/activity.go), for any number of
\* addresses and events and any capacity and ttl.
THEOREM ActivityIsExact == ActivitySpec => []Exact
  <1>1. ActivityInv => Exact
    BY DEF ActivityInv
  <1> QED BY <1>1, ActivityInitInv, ActivityStep, PTL DEF ActivitySpec

\* Noting an event drops a live entry only when the log is full of them, and then
\* the quietest.
LEMMA NoteDrops ==
  ASSUME ActivityInv, NEW ip, NEW o, Note(ip, o),
         NEW x \in DOMAIN entries \ DOMAIN entries', instant - entries[x].lastSeen <= Ttl
  PROVE  /\ Cardinality(DOMAIN entries) = Cap /\ LiveIps = DOMAIN entries
         /\ \E q \in Quietest(LiveIps) :
              DOMAIN entries \ DOMAIN entries' = {q}
  <1>1. ip \in Ip \ DOMAIN entries /\ Counts(o) # "nothing"
    BY DEF Note, Record
  <1>2. PICK keep : /\ keep \in IF Cardinality(DOMAIN entries) >= Cap THEN MakeRoom
                                 ELSE {DOMAIN entries}
                    /\ DOMAIN entries' = keep \cup {ip}
    BY <1>1 DEF Note, Record
  <1>3. keep \in MakeRoom
    BY <1>2
  <1>4. x \in LiveIps /\ x \notin keep
    BY <1>2 DEF LiveIps
  <1>5. PICK q \in Quietest(LiveIps) : keep = LiveIps \ {q}
    BY <1>3, <1>4, MakeRoomKeeps
  <1>6. LiveIps = DOMAIN entries /\ Cardinality(DOMAIN entries) = Cap /\ q \in LiveIps
    BY <1>3, <1>4, MakeRoomKeeps DEF Quietest
  <1>7. DOMAIN entries \ DOMAIN entries' = {q}
    BY <1>1, <1>2, <1>5, <1>6
  <1> QED BY <1>6, <1>7

\* An address that sprays the log pushes out one live entry at a time, the one
\* quiet the longest, and only once every entry is live and the log full
\* (activity.go makeRoom), for any number of addresses and any capacity and ttl.
THEOREM QuietestIsDropped == ActivitySpec => DropsOnlyTheQuietest
  <1> DEFINE Gone == {ip \in DOMAIN entries \ DOMAIN entries' : instant - entries[ip].lastSeen <= Ttl}
             Fair == Gone # {} =>
                       /\ Cardinality(DOMAIN entries) = Cap
                       /\ \A ip \in DOMAIN entries : instant - entries[ip].lastSeen <= Ttl
                       /\ \E ip \in Gone : Gone = {ip} /\ \A o \in DOMAIN entries :
                                             entries[ip].lastSeen <= entries[o].lastSeen
  <1>1. ActivityInv /\ [ActivityNext]_activityVars => [Fair]_activityVars
    <2> SUFFICES ASSUME ActivityInv, ActivityNext, Gone # {} PROVE Fair
      OBVIOUS
    <2>1. PICK x \in DOMAIN entries \ DOMAIN entries' : instant - entries[x].lastSeen <= Ttl
      OBVIOUS
    <2>2. ~ ReadLog /\ ~ ActivityTick
      BY <2>1 DEF ReadLog, Prune, LiveIps, ActivityTick
    <2>3. PICK ip, o : Note(ip, o)
      BY <2>2, Zenon DEF ActivityNext, NoteAnswer, RecordDecision
    <2>4. PICK q \in Quietest(LiveIps) : DOMAIN entries \ DOMAIN entries' = {q}
      BY <2>1, <2>3, NoteDrops
    <2>5. Cardinality(DOMAIN entries) = Cap /\ LiveIps = DOMAIN entries
      BY <2>1, <2>3, NoteDrops
    <2>6. \A i \in DOMAIN entries : instant - entries[i].lastSeen <= Ttl
      BY <2>5 DEF LiveIps
    <2>7. q \in Gone /\ Gone = {q} /\ \A i \in DOMAIN entries : entries[q].lastSeen <= entries[i].lastSeen
      BY <2>4, <2>5, <2>6 DEF Quietest
    <2> QED BY <2>5, <2>6, <2>7
  <1> QED BY <1>1, ActivityInitInv, ActivityStep, PTL DEF ActivitySpec, DropsOnlyTheQuietest
=================================================================================
