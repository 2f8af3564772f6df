--------------------------- MODULE PassChainProofs ---------------------------
(* The renewal chain's three promises, for every fleet, whatever its clocks  *)
(* and settings, and every order of every request; and its deadlines, where  *)
(* the clocks agree.  The invariant adds only what a request can rely on of  *)
(* the bearer material it presents: each challenge carries some gate's       *)
(* pass_ttl, each pass is dated, and no pass of a renewal challenge passes   *)
(* for an admission.                                                         *)
EXTENDS PassChain, TLAPS

\* Whole seconds, rounded down.
LEMMA WholeSeconds ==
  ASSUME NEW t \in Nat
  PROVE  Seconds(t) \in Nat /\ Instant(Seconds(t)) <= t
  BY PassAssumption, SMT DEF Seconds, Instant

LEMMA SecondsOfInstant ==
  ASSUME NEW s \in Nat
  PROVE  Instant(s) \in Nat /\ Seconds(Instant(s)) = s
  BY PassAssumption, SMT DEF Seconds, Instant

LEMMA InstantMonotone ==
  ASSUME NEW s \in Nat, NEW t \in Nat, s <= Seconds(t)
  PROVE  Instant(s) <= t
  <1>1. Instant(s) <= Instant(Seconds(t))
    <2>1. Seconds(t) \in Nat
      BY WholeSeconds
    <2>2. \A x \in Nat : s <= x => s * TicksPerSecond <= x * TicksPerSecond
      BY PassAssumption, SMT
    <2> QED BY <2>1, <2>2 DEF Instant
  <1> QED BY <1>1, WholeSeconds, SecondsOfInstant

-----------------------------------------------------------------------------
\* Every challenge carries the pass_ttl of the gate that issued it.
TTLPromised == \A c \in challenges : \E g \in Gate : c.ttl = PassTTL[g]

\* Every pass is dated after the epoch: a root is never taken for an absent one.
Dated == \A p \in passes : p.iat > 0

\* A pass of a renewal challenge carries a root.
RenewalsShow == \A p \in PowPasses : p.of.kind = "renew" => Renewed(p)

Types ==
  /\ now \in Nat
  /\ challenges \subseteq Challenge
  /\ passes \subseteq Pass

ChainInv ==
  /\ Types /\ TTLPromised /\ Dated /\ RenewalsShow
  /\ RootedInAdmission /\ UnbrokenChain /\ SessionCapped

\* The clocks of the fleet.
LEMMA Clocks ==
  ASSUME now \in Nat, NEW g \in Gate
  PROVE  /\ Clock(g) \in Nat /\ PassTTL[g] \in Nat /\ MaxSession[g] \in Nat
         /\ Seconds(Clock(g)) \in Nat /\ Skew \in Nat
  BY PassAssumption, WholeSeconds DEF Clock

LEMMA InitChain == Init => ChainInv
  BY PassAssumption DEF Init, ChainInv, Types, TTLPromised, Dated, PowPasses,
     RenewalsShow, RootedInAdmission, UnbrokenChain, SessionCapped

LEMMA IssueChain ==
  ASSUME ChainInv, NEW g \in Gate, NEW p \in passes \cup {NoPass},
         NEW aud \in Aud, NEW net \in Net, ServeChallenge(g, p, aud, net)
  PROVE  ChainInv'
  <1>1. challenges' = challenges \cup {Issued(g, p, aud, net)} /\ passes' = passes
        /\ now' = now
    BY DEF ServeChallenge
  <1>2. Issued(g, p, aud, net) \in Challenge /\ Issued(g, p, aud, net).ttl = PassTTL[g]
    BY Clocks DEF Issued, Challenge, ChainInv, Types
  <1>3. Types' /\ TTLPromised' /\ Dated'
    BY <1>1, <1>2 DEF ChainInv, Types, TTLPromised, Dated
  <1>4. RenewalsShow' /\ RootedInAdmission' /\ UnbrokenChain' /\ SessionCapped'
    BY <1>1 DEF ChainInv, RenewalsShow, RootedInAdmission, UnbrokenChain, SessionCapped, PowPasses
  <1> QED BY <1>3, <1>4 DEF ChainInv

\* What a renewal rests on: a pass of the same chain and place, live at the
\* instant of the challenge and inside the session of their common root.
LEMMA RenewalEarned ==
  ASSUME ChainInv, NEW g \in Gate, NEW p \in passes \cup {NoPass},
         NEW aud \in Aud, NEW net \in Net, NEW c \in challenges,
         c.aud = aud, MayRenew(g, p, aud, net, Instant(c.ts))
  PROVE  /\ p \in PowPasses /\ p.aud = c.aud /\ p.net = net
         /\ c.ts < p.exp /\ Instant(p.iat) <= Instant(c.ts) + Skew
         /\ RootAt(p) \in Nat \ {0}
         /\ Instant(c.ts) - Instant(RootAt(p)) < MaxSession[g]
  <1>1. p \in passes /\ p.kind = "pow" /\ p.aud = aud /\ p.net = net
    BY DEF MayRenew, ValidPassAt
  <1>2. c.ts \in Nat /\ p.exp \in Nat /\ p.iat \in Nat /\ p.rt \in Nat /\ p.iat > 0
    BY <1>1 DEF ChainInv, Types, Dated, Challenge, Pass
  <1>3. c.ts < p.exp
    BY <1>2, SecondsOfInstant DEF MayRenew, ValidPassAt
  <1>4. Instant(p.iat) <= Instant(c.ts) + Skew
    <2>1. Instant(c.ts) + Skew \in Nat
      BY <1>2, SecondsOfInstant, PassAssumption
    <2> QED BY <2>1, <1>2, InstantMonotone DEF MayRenew, ValidPassAt
  <1> QED BY <1>1, <1>2, <1>3, <1>4 DEF PowPasses, RootAt, MayRenew

LEMMA AnswerChain ==
  ASSUME ChainInv, NEW g \in Gate, NEW p \in passes \cup {NoPass},
         NEW aud \in Aud, NEW net \in Net, NEW c \in challenges,
         NEW solved \in BOOLEAN, ServeAnswer(g, p, aud, net, c, solved)
  PROVE  ChainInv'
  <1> DEFINE m == Minted(g, p, net, c)
             o == Outcome(g, p, aud, net, c, solved)
  <1>1. now' = now /\ challenges' = challenges
        /\ passes' = IF o = "ok" THEN passes \cup {m} ELSE passes
    BY DEF ServeAnswer
  <1>2. CASE o # "ok"
    <2>1. passes' = passes
      BY <1>1, <1>2
    <2> QED BY <2>1, <1>1 DEF ChainInv, Types, TTLPromised, Dated, PowPasses,
               RenewalsShow, RootedInAdmission, UnbrokenChain, SessionCapped
  <1>3. CASE o = "ok"
    <2>1. /\ c.aud = aud /\ Mintable(m)
          /\ c.kind = "renew" => MayRenew(g, p, aud, net, Instant(c.ts))
      BY <1>3 DEF Outcome
    <2>2. c \in Challenge /\ c.ts \in Nat /\ c.ttl \in Nat /\ c.kind \in {"admit", "renew"}
          /\ c.aud \in Aud
      BY DEF ChainInv, Types, Challenge
    <2>3. Seconds(Clock(g)) \in Nat
      BY Clocks DEF ChainInv, Types
    <2>4. Deadline(c) \in Nat /\ Seconds(Deadline(c)) \in Nat
          /\ Instant(Seconds(Deadline(c))) <= Instant(c.ts) + c.ttl
      <3>1. Instant(c.ts) + c.ttl \in Nat
        BY <2>2, SecondsOfInstant
      <3> QED BY <3>1, WholeSeconds DEF Deadline
    <2>5. /\ m.kind = "pow" /\ m.aud = c.aud /\ m.net = net /\ m.of = c
          /\ m.iat = Seconds(Clock(g)) /\ m.exp = Seconds(Deadline(c))
          /\ m.rt = IF c.kind = "renew" THEN RootAt(p) ELSE 0
      BY DEF Minted
    <2>6. c.kind = "renew" =>
            /\ p \in PowPasses /\ p.aud = c.aud /\ p.net = net
            /\ c.ts < p.exp /\ Instant(p.iat) <= Instant(c.ts) + Skew
            /\ RootAt(p) \in Nat \ {0}
            /\ Instant(c.ts) - Instant(RootAt(p)) < MaxSession[g]
      BY <2>1, RenewalEarned
    <2>7. m \in Pass /\ m.iat > 0
      BY <2>1, <2>2, <2>3, <2>4, <2>6 DEF Minted, Pass, Mintable
    <2>8. passes' = passes \cup {m} /\ PowPasses' = PowPasses \cup {m}
      BY <1>1, <1>3, <2>5 DEF PowPasses
    <2> HIDE DEF m, o
    <2>9. Types' /\ TTLPromised' /\ Dated'
      BY <1>1, <2>7, <2>8 DEF ChainInv, Types, TTLPromised, Dated
    <2>10. RootedInAdmission'
      <3>1. ASSUME Renewed(m)
            PROVE  \E q \in PowPasses : /\ ~ Renewed(q) /\ q.iat = m.rt
                                        /\ q.aud = m.aud /\ q.net = m.net
        <4>1. c.kind = "renew" /\ p \in PowPasses /\ m.rt = RootAt(p)
          BY <3>1, <2>2, <2>5, <2>6 DEF Renewed
        <4>2. CASE ~ Renewed(p)
          BY <4>1, <4>2, <2>5, <2>6 DEF Renewed, RootAt
        <4>3. CASE Renewed(p)
          <5>1. PICK q \in PowPasses : /\ ~ Renewed(q) /\ q.iat = p.rt
                                       /\ q.aud = p.aud /\ q.net = p.net
            BY <4>1, <4>3 DEF ChainInv, RootedInAdmission
          <5> QED BY <5>1, <4>1, <4>3, <2>5, <2>6 DEF Renewed, RootAt
        <4> QED BY <4>2, <4>3
      <3> QED BY <3>1, <2>8 DEF ChainInv, RootedInAdmission
    <2>11. UnbrokenChain'
      <3>1. ASSUME Renewed(m)
            PROVE  \E q \in PowPasses :
                     /\ q.of # m.of
                     /\ RootAt(q) = m.rt /\ q.aud = m.aud /\ q.net = m.net
                     /\ m.of.ts < q.exp /\ Instant(q.iat) <= Instant(m.of.ts) + Skew
        <4>1. c.kind = "renew" /\ p \in PowPasses /\ m.rt = RootAt(p) /\ m.of = c
          BY <3>1, <2>2, <2>5, <2>6 DEF Renewed
        <4>2. CASE p.of # c
          BY <4>1, <4>2, <2>5, <2>6
        <4>3. CASE p.of = c  \* the challenge was answered before: p's own witness
          <5>1. Renewed(p)
            BY <4>1, <4>3 DEF ChainInv, RenewalsShow
          <5>2. PICK q \in PowPasses :
                  /\ q.of # p.of
                  /\ RootAt(q) = p.rt /\ q.aud = p.aud /\ q.net = p.net
                  /\ p.of.ts < q.exp /\ Instant(q.iat) <= Instant(p.of.ts) + Skew
            BY <4>1, <5>1 DEF ChainInv, UnbrokenChain
          <5>3. RootAt(p) = p.rt
            BY <5>1 DEF Renewed, RootAt
          <5> QED BY <5>2, <5>3, <4>1, <4>3, <2>5, <2>6
        <4> QED BY <4>2, <4>3
      <3> QED BY <3>1, <2>8 DEF ChainInv, UnbrokenChain
    <2>12. SessionCapped'
      <3>1. ASSUME Renewed(m)
            PROVE  \E f, h \in Gate :
                     Instant(m.exp) < Instant(m.rt) + MaxSession[f] + PassTTL[h]
        <4>1. c.kind = "renew" /\ m.rt = RootAt(p) /\ m.rt \in Nat
          BY <3>1, <2>2, <2>5, <2>6 DEF Renewed
        <4>2. PICK h \in Gate : c.ttl = PassTTL[h]
          BY DEF ChainInv, TTLPromised
        <4>3. Instant(m.exp) <= Instant(c.ts) + PassTTL[h]
          BY <2>4, <2>5, <4>2
        <4>4. Instant(c.ts) - Instant(m.rt) < MaxSession[g]
          BY <4>1, <2>6
        <4>5. /\ Instant(m.exp) \in Nat /\ Instant(c.ts) \in Nat /\ Instant(m.rt) \in Nat
              /\ PassTTL[h] \in Nat /\ MaxSession[g] \in Nat
          BY <2>2, <2>4, <2>5, <4>1, SecondsOfInstant, PassAssumption
        <4>6. Instant(m.exp) < Instant(m.rt) + MaxSession[g] + PassTTL[h]
          BY <4>3, <4>4, <4>5
        <4> QED BY <4>6
      <3> QED BY <3>1, <2>8 DEF ChainInv, SessionCapped
    <2>13. RenewalsShow'
      <3>1. m.of.kind = "renew" => Renewed(m)
        BY <2>5, <2>6 DEF Renewed
      <3> QED BY <3>1, <2>8 DEF ChainInv, RenewalsShow
    <2> QED BY <2>9, <2>10, <2>11, <2>12, <2>13 DEF ChainInv
  <1> QED BY <1>2, <1>3

\* A paid pass starts no chain and extends none.
LEMMA PaidChain ==
  ASSUME ChainInv, NEW g \in Gate, NEW aud \in Aud, NEW exp \in Nat, MintPaid(g, aud, exp)
  PROVE  ChainInv'
  <1> DEFINE m == [kind |-> "paid", aud |-> aud, net |-> AnyNet, rt |-> 0,
                   iat |-> Seconds(Clock(g)), exp |-> exp, of |-> NoChallenge]
  <1>1. Mintable(m) /\ passes' = passes \cup {m} /\ now' = now /\ challenges' = challenges
    BY DEF MintPaid
  <1>2. m \in Pass /\ m.iat > 0 /\ m.kind = "paid"
    BY <1>1, Clocks DEF Pass, Mintable, ChainInv, Types
  <1> HIDE DEF m
  <1>3. PowPasses' = PowPasses
    BY <1>1, <1>2 DEF PowPasses
  <1>4. Types' /\ TTLPromised' /\ Dated'
    BY <1>1, <1>2 DEF ChainInv, Types, TTLPromised, Dated
  <1>5. RenewalsShow' /\ RootedInAdmission' /\ UnbrokenChain' /\ SessionCapped'
    BY <1>3 DEF ChainInv, RenewalsShow, RootedInAdmission, UnbrokenChain, SessionCapped
  <1> QED BY <1>4, <1>5 DEF ChainInv

LEMMA NextChain == ChainInv /\ [Next]_vars => ChainInv'
  <1> SUFFICES ASSUME ChainInv, [Next]_vars PROVE ChainInv'
    OBVIOUS
  <1>1. ASSUME NEW g \in Gate, Request(g) PROVE ChainInv'
    BY <1>1, IssueChain, AnswerChain DEF Request
  <1>2. ASSUME NEW g \in Gate, NEW aud \in Aud, NEW exp \in 1 .. Seconds(MaxTime),
               MintPaid(g, aud, exp)
        PROVE  ChainInv'
    <2>1. exp \in Nat
      BY PassAssumption, WholeSeconds
    <2> QED BY <1>2, <2>1, PaidChain
  <1>3. CASE Tick \/ UNCHANGED vars
    <2>1. challenges' = challenges /\ passes' = passes /\ now' \in Nat
      BY <1>3 DEF Tick, vars, ChainInv, Types
    <2> QED BY <2>1 DEF ChainInv, Types, TTLPromised, Dated, PowPasses,
               RenewalsShow, RootedInAdmission, UnbrokenChain, SessionCapped
  <1> QED BY <1>1, <1>2, <1>3 DEF Next

LEMMA ChainInvariant == Spec => []ChainInv
  BY InitChain, NextChain, PTL DEF Spec

\* No paid pass, and no pass of another authority or network, is ever renewed.
THEOREM ChainsAreRooted == Spec => []RootedInAdmission
  <1>1. ChainInv => RootedInAdmission
    BY DEF ChainInv
  <1> QED BY <1>1, ChainInvariant, PTL

\* Every renewal was earned by a pass of its chain, live when it was asked for.
THEOREM ChainsAreUnbroken == Spec => []UnbrokenChain
  <1>1. ChainInv => UnbrokenChain
    BY DEF ChainInv
  <1> QED BY <1>1, ChainInvariant, PTL

\* One admission buys max_session and at most one pass more, at any fleet.
THEOREM SessionsAreCapped == Spec => []SessionCapped
  <1>1. ChainInv => SessionCapped
    BY DEF ChainInv
  <1> QED BY <1>1, ChainInvariant, PTL

-----------------------------------------------------------------------------
(* Deadlines are kept where a fleet's clocks agree to the allowance the gate *)
(* makes for them, and its ttls are whole seconds.  Neither can be dropped:  *)
(* a challenge from further ahead is stale, and a fraction of a second can   *)
(* leave a pass that ends in the second it begins, which Mint refuses.       *)

ClocksAgree == \A g, h \in Gate : Ahead[h] <= Ahead[g] + Skew
WholeSecondTTLs == \A g \in Gate : \E s \in Nat : PassTTL[g] = Instant(s)

\* No challenge is ahead of every clock, and Unix time has begun.
Begun ==
  /\ now >= TicksPerSecond
  /\ \A c \in challenges : \E h \in Gate : Instant(c.ts) <= Clock(h)

LEMMA NextBegun == ChainInv /\ Begun /\ [Next]_vars => Begun'
  <1> SUFFICES ASSUME ChainInv, Begun, [Next]_vars PROVE Begun'
    OBVIOUS
  <1>1. now \in Nat /\ TicksPerSecond \in Nat
    BY PassAssumption DEF ChainInv, Types
  <1>2. ASSUME NEW g \in Gate, NEW p \in passes \cup {NoPass}, NEW aud \in Aud, NEW net \in Net,
               ServeChallenge(g, p, aud, net)
        PROVE  Begun'
    <2>1. Instant(Issued(g, p, aud, net).ts) <= Clock(g)
      BY <1>1, Clocks, WholeSeconds DEF Issued
    <2>2. now' = now /\ challenges' = challenges \cup {Issued(g, p, aud, net)}
      BY <1>2 DEF ServeChallenge
    <2> QED BY <2>1, <2>2 DEF Begun, Clock
  <1>3. CASE challenges' = challenges /\ now' \in {now, now + 1}
    <2>1. now' >= TicksPerSecond
      BY <1>1, <1>3 DEF Begun
    <2>2. ASSUME NEW c \in challenges PROVE \E h \in Gate : Instant(c.ts) <= Clock(h)'
      <3>1. PICK h \in Gate : Instant(c.ts) <= Clock(h)
        BY DEF Begun
      <3>2. Instant(c.ts) \in Nat /\ Ahead[h] \in Nat
        BY SecondsOfInstant, PassAssumption DEF ChainInv, Types, Challenge
      <3> QED BY <1>1, <1>3, <3>1, <3>2 DEF Clock
    <2> QED BY <1>3, <2>1, <2>2 DEF Begun
  <1>4. ASSUME NEW g \in Gate, Request(g) PROVE Begun'
    BY <1>2, <1>3, <1>4 DEF Request, ServeAnswer
  <1>5. CASE Tick \/ UNCHANGED vars \/ \E g \in Gate, aud \in Aud, exp \in 1 .. Seconds(MaxTime) :
                                          MintPaid(g, aud, exp)
    BY <1>3, <1>5 DEF Tick, vars, MintPaid
  <1> QED BY <1>4, <1>5 DEF Next

LEMMA AnswerHonoured ==
  ASSUME ClocksAgree, WholeSecondTTLs, ChainInv, Begun,
         NEW g \in Gate, NEW p \in passes \cup {NoPass},
         NEW aud \in Aud, NEW net \in Net, NEW c \in challenges,
         NEW solved \in BOOLEAN, ServeAnswer(g, p, aud, net, c, solved)
  PROVE  DeadlineHonoured'
  <1> DEFINE m == Minted(g, p, net, c)
  <1> SUFFICES ASSUME Clock(g) < Deadline(c), solved, c.aud = aud, aud # NoAud, net # NoNet,
                      c.kind = "renew" => /\ MayRenew(g, p, aud, net, Instant(c.ts))
                                          /\ RootAt(p) <= Seconds(Clock(g))
               PROVE  Outcome(g, p, aud, net, c, solved) = "ok"
    BY DEF ServeAnswer, DeadlineHonoured
  <1>1. /\ c.ts \in Nat /\ Instant(c.ts) \in Nat /\ c.ttl \in Nat
        /\ c.kind \in {"admit", "renew"}
        /\ Clock(g) \in Nat /\ Seconds(Clock(g)) \in Nat
    BY Clocks, SecondsOfInstant DEF ChainInv, Types, Challenge
  <1>2. ~ Stale(c, Clock(g))
    <2>1. PICK h \in Gate : Instant(c.ts) <= Clock(h)
      BY DEF Begun
    <2>2. /\ Ahead[h] <= Ahead[g] + Skew /\ Ahead[h] \in Nat /\ Ahead[g] \in Nat
          /\ Skew \in Nat /\ now \in Nat
      BY PassAssumption DEF ClocksAgree, ChainInv, Types
    <2>3. Instant(c.ts) - Clock(g) <= Skew
      BY <1>1, <2>1, <2>2 DEF Clock
    <2> QED BY <1>1, <2>2, <2>3 DEF Stale, Deadline
  <1>3. ~ (Deadline(c) <= Clock(g))
    BY <1>1 DEF Deadline
  <1>4. Seconds(Clock(g)) > 0
    <2>1. Clock(g) >= TicksPerSecond /\ TicksPerSecond \in Nat \ {0}
      BY PassAssumption DEF Begun, Clock, ChainInv, Types
    <2>2. Instant(1) = TicksPerSecond
      BY <2>1 DEF Instant
    <2> QED BY <1>1, <2>1, <2>2, SMT DEF Seconds
  <1>5. Seconds(Deadline(c)) > Seconds(Clock(g))
    <2>1. PICK s \in Nat : c.ttl = Instant(s)
      BY DEF ChainInv, TTLPromised, WholeSecondTTLs
    <2>2. Deadline(c) = Instant(c.ts + s)
      BY <1>1, <2>1, PassAssumption, SMT DEF Deadline, Instant
    <2>3. Seconds(Deadline(c)) = c.ts + s
      BY <1>1, <2>2, SecondsOfInstant
    <2>4. ~ (c.ts + s <= Seconds(Clock(g)))
      <3>1. c.ts + s \in Nat /\ Instant(c.ts + s) \in Nat
        BY <1>1, SecondsOfInstant
      <3> QED BY <1>1, <2>2, <3>1, InstantMonotone
    <2> QED BY <1>1, <2>3, <2>4
  <1>6. Mintable(m)
    BY <1>1, <1>4, <1>5 DEF Minted, Mintable
  <1> QED BY <1>2, <1>3, <1>6 DEF Outcome

\* A solution with everything that was asked of it, in before its deadline, gets its
\* pass (endpoints.go serveChallenge, DeadlineMs).
THEOREM DeadlinesAreHonoured ==
  ASSUME ClocksAgree, WholeSecondTTLs
  PROVE  Spec => []DeadlineHonoured
  <1>1. Init => Begun /\ DeadlineHonoured
    BY PassAssumption DEF Init, Begun, DeadlineHonoured
  <1>2. ChainInv /\ Begun /\ DeadlineHonoured /\ [Next]_vars => DeadlineHonoured'
    <2> SUFFICES ASSUME ChainInv, Begun, DeadlineHonoured, [Next]_vars PROVE DeadlineHonoured'
      OBVIOUS
    <2>1. CASE reply' = reply
      BY <2>1 DEF DeadlineHonoured
    <2> QED BY <2>1, AnswerHonoured
            DEF Next, Request, ServeChallenge, MintPaid, Tick, vars
  <1> QED BY <1>1, <1>2, NextBegun, ChainInvariant, PTL DEF Spec
==============================================================================
