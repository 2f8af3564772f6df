--------------------------- MODULE GrantStoreProofs ---------------------------
(***************************************************************************)
(* For every number of presentations, authorizations and grants, every     *)
(* lease length and every pattern of faults: StoreInv is inductive, the    *)
(* promises of GrantStore follow from it, and GrantStore implements        *)
(* PaymentLedger.                                                          *)
(***************************************************************************)
EXTENDS GrantStore, TLAPS

\* The kinds of record a well-typed ledger holds.
LEMMA RecordCases ==
  ASSUME NEW rec \in Record
  PROVE  \/ rec = Absent /\ rec.kind = "absent"
         \/ rec = Corrupt /\ rec.kind = "corrupt"
         \/ /\ rec.kind = "reserved" /\ rec.lease \in Req /\ rec.until \in Nat
            /\ rec = Reserved(rec.lease, rec.until)
         \/ /\ rec.kind = "granted" /\ rec.grant \in GrantTerms
            /\ Complete(rec.grant) /\ rec = Granted(rec.grant)
BY DEF Record, Absent, Corrupt, Reserved, Granted

\* What the store writes are records.
LEMMA NewRecords ==
  /\ Absent \in Record
  /\ \A r \in Req, t \in Nat : Reserved(r, t) \in Record
  /\ \A g \in GrantTerms : Complete(g) => Granted(g) \in Record
BY DEF Record, Absent, Reserved, Granted

LEMMA InitInv == Init => StoreInv
<1> SUFFICES ASSUME Init PROVE StoreInv
  OBVIOUS
<1> USE StoreAssumption DEF Init
<1>1. TypeOK
  BY DEF TypeOK, Record, Absent, Corrupt, BeginVerdicts, CommitOutcomes
<1>2. \A a \in Auth : ledger[a].kind \in {"absent", "corrupt"}
  BY DEF Absent, Corrupt
<1>3. QED
  BY <1>1, <1>2 DEF StoreInv, ReservationDated, ClockReadBefore,
     NothingBeforeBegin, LeaseProtects, LiveLease, Converged, CreatedIsStored,
     OneCreator, CorruptIsNobodys, HolderWaits

\* One operation on one authorization: every record of another is untouched.
LEMMA BeginCallInv == ASSUME StoreInv, NEW r \in Req, BeginCall(r) PROVE StoreInv'
<1> USE StoreAssumption DEF BeginCall, StoreInv
<1>1. TypeOK'
  BY DEF TypeOK
<1>2. ReservationDated'
  BY RecordCases DEF TypeOK, ReservationDated, Reserved
<1>3. (ClockReadBefore /\ NothingBeforeBegin /\ HolderWaits)'
  BY DEF TypeOK, ClockReadBefore, NothingBeforeBegin, HolderWaits
<1>4. LeaseProtects'
  BY DEF TypeOK, LeaseProtects, LiveLease, Owns
<1>5. (Converged /\ CreatedIsStored /\ OneCreator)'
  BY DEF Converged, CreatedIsStored, OneCreator
<1>6. CorruptIsNobodys'
  BY DEF TypeOK, CorruptIsNobodys
<1>7. QED
  BY <1>1, <1>2, <1>3, <1>4, <1>5, <1>6

\* Begin's transaction, whether it answers or takes the reservation: the lapse
\* of the old lease at the stale clock is what frees it from its holder.
LEMMA Reserving ==
  ASSUME StoreInv, NEW r \in Req, stage[r] = "begin",
         BeginResult(ledger[Pays[r]], asked[r]) = "new",
         ledger' = [ledger EXCEPT ![Pays[r]] = Reserved(r, asked[r] + PaymentLease)],
         stage' \in { [stage EXCEPT ![r] = x] : x \in {"held", "done"} },
         verdict' \in [Req -> BeginVerdicts],
         UNCHANGED <<now, asked, outcome, got>>
  PROVE  StoreInv'
<1> USE StoreAssumption DEF StoreInv
<1> DEFINE a == Pays[r]
<1>1. /\ a \in Auth /\ ledger[a] \in Record /\ asked[r] \in Nat
      /\ asked[r] + PaymentLease \in Nat
  BY DEF TypeOK
<1>2. \/ ledger[a].kind = "absent"
      \/ ledger[a].kind = "reserved" /\ ledger[a].until <= asked[r]
  BY <1>1, RecordCases DEF BeginResult
<1>3. Reserved(r, asked[r] + PaymentLease) \in Record
  BY <1>1, NewRecords
<1>4. TypeOK'
  BY <1>3 DEF TypeOK
<1>5. ReservationDated'
  <2> SUFFICES ASSUME NEW b \in Auth, ledger'[b].kind = "reserved"
               PROVE  LET q == ledger'[b].lease
                      IN  /\ Pays[q] = b
                          /\ ledger'[b].until = asked'[q] + PaymentLease
                          /\ stage'[q] \in {"held", "done"}
    BY DEF ReservationDated
  <2>1. CASE b = a
    BY <2>1, <1>1 DEF TypeOK, Reserved
  <2>2. CASE b # a
    <3>1. ledger'[b] = ledger[b] /\ ledger[b] \in Record
      BY <2>2 DEF TypeOK
    <3>2. ledger[b].lease \in Req
      BY <3>1, RecordCases DEF Reserved
    <3>3. QED
      BY <3>1, <3>2 DEF ReservationDated, TypeOK
  <2>3. QED BY <2>1, <2>2
<1>6. (ClockReadBefore /\ NothingBeforeBegin /\ HolderWaits)'
  BY DEF TypeOK, ClockReadBefore, NothingBeforeBegin, HolderWaits
<1>7. ledger[a].kind # "granted" /\ ledger[a] # Corrupt
  BY <1>2 DEF Corrupt
<1>8. LeaseProtects'
  <2> SUFFICES ASSUME NEW q \in Req, LiveLease(q)' PROVE Owns(q, ledger[Pays[q]])'
    BY DEF LeaseProtects
  <2>1. CASE q = r
    BY <2>1, <1>1 DEF TypeOK, Owns, Reserved
  <2>2. CASE q # r
    <3>1. LiveLease(q) /\ Owns(q, ledger[Pays[q]])
      BY <2>2 DEF LiveLease, LeaseProtects, TypeOK
    <3>2. CASE Pays[q] = a
      <4>1. ledger[a].kind = "reserved" /\ ledger[a].lease = q
            /\ ledger[a].until = asked[q] + PaymentLease
        BY <3>1, <3>2, <1>1 DEF Owns, ReservationDated
      <4>2. asked[q] + PaymentLease <= now
        BY <4>1, <1>2, <1>1 DEF ClockReadBefore, TypeOK
      <4>3. QED
        BY <4>2, <3>1 DEF LiveLease, TypeOK
    <3>3. CASE Pays[q] # a
      BY <3>1, <3>3, <1>1 DEF Owns, TypeOK
    <3>4. QED BY <3>2, <3>3
  <2>3. QED BY <2>1, <2>2
<1>9. (Converged /\ CreatedIsStored /\ OneCreator)'
  BY <1>1, <1>7 DEF TypeOK, Converged, CreatedIsStored, OneCreator, Granted
<1>10. CorruptIsNobodys'
  BY <1>1 DEF TypeOK, CorruptIsNobodys, Reserved, Corrupt
<1>11. QED
  BY <1>4, <1>5, <1>6, <1>8, <1>9, <1>10

LEMMA BeginTxInv == ASSUME StoreInv, NEW r \in Req, BeginTx(r) PROVE StoreInv'
<1> USE StoreAssumption DEF StoreInv
<1> DEFINE a == Pays[r]
           ans == BeginResult(ledger[a], asked[r])
<1>1. a \in Auth /\ ledger[a] \in Record /\ asked[r] \in Nat
  BY DEF TypeOK
<1>2. ans \in BeginVerdicts
  BY <1>1, RecordCases DEF BeginResult, BeginVerdicts
<1>3. CASE ans = "new"
  <2>1. verdict' \in [Req -> BeginVerdicts]
    BY <1>2 DEF BeginTx, TypeOK
  <2>2. stage' = [stage EXCEPT ![r] = "held"]
    BY <1>3 DEF BeginTx
  <2>3. /\ ledger' = [ledger EXCEPT ![a] = Reserved(r, asked[r] + PaymentLease)]
        /\ UNCHANGED <<now, asked, outcome, got>>
        /\ stage[r] = "begin"
    BY <1>3 DEF BeginTx
  <2>4. QED
    BY <1>3, <2>1, <2>2, <2>3, Reserving
<1>4. CASE ans # "new"
  <2> USE DEF BeginTx
  <2>1. ledger' = ledger /\ stage' = [stage EXCEPT ![r] = "done"]
    BY <1>4
  <2>2. ans = "recoverable" => /\ ledger[a].kind = "granted"
                              /\ ledger[a].grant \in GrantTerms
                              /\ ledger[a] = Granted(ledger[a].grant)
    BY <1>1, RecordCases DEF BeginResult
  <2>3. TypeOK'
    BY <1>2, <2>1, <2>2 DEF TypeOK
  <2>4. (ReservationDated /\ ClockReadBefore /\ NothingBeforeBegin /\ HolderWaits)'
    BY <2>1 DEF TypeOK, ReservationDated, ClockReadBefore, NothingBeforeBegin, HolderWaits
  <2>5. (LeaseProtects /\ CreatedIsStored /\ OneCreator)'
    BY <2>1 DEF TypeOK, LeaseProtects, LiveLease, Owns, CreatedIsStored, OneCreator
  <2>6. Converged'
    BY <2>1, <2>2 DEF TypeOK, Converged
  <2>7. CorruptIsNobodys'
    BY <2>1, <2>2 DEF TypeOK, CorruptIsNobodys, Corrupt
  <2>8. QED
    BY <2>3, <2>4, <2>5, <2>6, <2>7
<1>5. QED
  BY <1>3, <1>4

LEMMA BeginFaultInv == ASSUME StoreInv, NEW r \in Req, BeginFault(r) PROVE StoreInv'
<1> USE StoreAssumption DEF StoreInv
<1>1. verdict' \in [Req -> BeginVerdicts]
  BY DEF BeginFault, TypeOK, BeginVerdicts
<1>2. CASE ledger' = ledger
  <2> USE <1>2 DEF BeginFault
  <2>1. TypeOK'
    BY <1>1 DEF TypeOK
  <2>2. (ReservationDated /\ ClockReadBefore /\ NothingBeforeBegin /\ HolderWaits)'
    BY DEF TypeOK, ReservationDated, ClockReadBefore, NothingBeforeBegin, HolderWaits
  <2>3. (LeaseProtects /\ CreatedIsStored /\ OneCreator)'
    BY DEF TypeOK, LeaseProtects, LiveLease, Owns, CreatedIsStored, OneCreator
  <2>4. (Converged /\ CorruptIsNobodys)'
    BY DEF TypeOK, Converged, CorruptIsNobodys
  <2>5. QED
    BY <2>1, <2>2, <2>3, <2>4
<1>3. CASE ledger' # ledger
  <2>1. /\ ledger' = [ledger EXCEPT ![Pays[r]] = Reserved(r, asked[r] + PaymentLease)]
        /\ BeginResult(ledger[Pays[r]], asked[r]) = "new"
        /\ stage[r] = "begin" /\ stage' = [stage EXCEPT ![r] = "done"]
        /\ UNCHANGED <<now, asked, outcome, got>>
    BY <1>3 DEF BeginFault
  <2>2. QED
    BY <1>1, <2>1, Reserving
<1>4. QED
  BY <1>2, <1>3

\* The write of a grant, whether Commit reports it or the fault hides it: the
\* record was the holder's reservation, so nobody else has been handed a grant.
LEMMA Granting ==
  ASSUME StoreInv, NEW r \in Req, NEW g \in GrantTerms,
         stage[r] = "held", outcome[r] = "none",
         CommitResult(r, ledger[Pays[r]], g) = "created",
         ledger' = [ledger EXCEPT ![Pays[r]] = Granted(g)],
         \/ outcome' = [outcome EXCEPT ![r] = "created"]
            /\ got' = [got EXCEPT ![r] = g]
         \/ outcome' = [outcome EXCEPT ![r] = "fault"] /\ UNCHANGED got,
         UNCHANGED <<now, stage, asked, verdict>>
  PROVE  StoreInv'
<1> USE StoreAssumption DEF StoreInv
<1> DEFINE a == Pays[r]
<1>1. a \in Auth /\ ledger[a] \in Record
  BY DEF TypeOK
<1>2. Complete(g) /\ ledger[a].kind = "reserved" /\ ledger[a].lease = r
  BY <1>1, RecordCases DEF CommitResult, Owns
<1>3. Granted(g) \in Record /\ Granted(g).kind = "granted"
  BY <1>2, NewRecords DEF Granted
<1>4. TypeOK'
  BY <1>3 DEF TypeOK, CommitOutcomes
<1>5. ReservationDated'
  BY <1>1, <1>3 DEF TypeOK, ReservationDated
<1>6. (ClockReadBefore /\ NothingBeforeBegin /\ HolderWaits)'
  BY DEF TypeOK, ClockReadBefore, NothingBeforeBegin, HolderWaits
<1>7. LeaseProtects'
  <2> SUFFICES ASSUME NEW q \in Req, LiveLease(q)' PROVE Owns(q, ledger[Pays[q]])'
    BY DEF LeaseProtects
  <2>1. q # r /\ LiveLease(q) /\ Owns(q, ledger[Pays[q]])
    BY DEF LiveLease, LeaseProtects, TypeOK
  <2>2. Pays[q] # a
    BY <2>1, <1>2 DEF Owns
  <2>3. QED
    BY <2>1, <2>2, <1>1 DEF Owns, TypeOK
<1>8. \A q \in Req : Pays[q] = a => got[q] = NoGrant /\ outcome[q] # "created"
  <2> SUFFICES ASSUME NEW q \in Req, Pays[q] = a
               PROVE got[q] = NoGrant /\ outcome[q] # "created"
    OBVIOUS
  <2>1. \A x : ledger[a] # Granted(x)
    BY <1>2 DEF Granted
  <2>2. QED
    BY <1>2, <2>1 DEF Converged, CreatedIsStored
<1>9. Converged'
  <2> SUFFICES ASSUME NEW q \in Req, got'[q] # NoGrant
               PROVE ledger'[Pays[q]] = Granted(got'[q])
    BY DEF Converged
  <2>1. CASE q = r
    BY <2>1, <1>1, <1>8 DEF TypeOK
  <2>2. CASE q # r
    BY <2>2, <1>1, <1>8 DEF TypeOK, Converged
  <2>3. QED BY <2>1, <2>2
<1>10. (CreatedIsStored /\ OneCreator)'
  BY <1>1, <1>3, <1>8 DEF TypeOK, CreatedIsStored, OneCreator
<1>11. CorruptIsNobodys'
  <2> SUFFICES ASSUME NEW q \in Req, ledger'[Pays[q]] = Corrupt
               PROVE stage'[q] # "held" /\ got'[q] = NoGrant /\ outcome'[q] = "none"
    BY DEF CorruptIsNobodys
  <2>1. Pays[q] # a /\ q # r /\ ledger[Pays[q]] = Corrupt
    BY <1>1, <1>3 DEF TypeOK, Corrupt
  <2>2. QED
    BY <2>1 DEF TypeOK, CorruptIsNobodys
<1>12. QED
  BY <1>4, <1>5, <1>6, <1>7, <1>9, <1>10, <1>11

\* A Commit that writes nothing.
LEMMA CommitAnswers ==
  ASSUME StoreInv, NEW r \in Req, stage[r] = "held", outcome[r] = "none",
         NEW ans \in {"existing", "failed", "fault"},
         outcome' = [outcome EXCEPT ![r] = ans],
         ans = "existing" => /\ ledger[Pays[r]].kind = "granted"
                             /\ got' = [got EXCEPT ![r] = ledger[Pays[r]].grant],
         ans # "existing" => got' = got,
         UNCHANGED <<now, ledger, stage, asked, verdict>>
  PROVE  StoreInv'
<1> USE StoreAssumption DEF StoreInv
<1>1. ledger[Pays[r]] \in Record /\ Pays[r] \in Auth
  BY DEF TypeOK
<1>2. ans = "existing" => /\ ledger[Pays[r]].grant \in GrantTerms
                          /\ ledger[Pays[r]] = Granted(ledger[Pays[r]].grant)
  BY <1>1, RecordCases
<1>3. TypeOK'
  BY <1>2 DEF TypeOK, CommitOutcomes
<1>4. (ReservationDated /\ ClockReadBefore /\ NothingBeforeBegin /\ HolderWaits)'
  BY DEF TypeOK, ReservationDated, ClockReadBefore, NothingBeforeBegin, HolderWaits
<1>5. LeaseProtects'
  BY DEF TypeOK, LeaseProtects, LiveLease, Owns
<1>6. Converged'
  BY <1>1, <1>2 DEF TypeOK, Converged
<1>7. (CreatedIsStored /\ OneCreator)'
  BY DEF TypeOK, CreatedIsStored, OneCreator
<1>8. CorruptIsNobodys'
  BY <1>1 DEF TypeOK, CorruptIsNobodys, Corrupt
<1>9. QED
  BY <1>3, <1>4, <1>5, <1>6, <1>7, <1>8

LEMMA CommitInv ==
  ASSUME StoreInv, NEW r \in Req, NEW g \in GrantTerms,
         CommitTx(r, g) \/ CommitFault(r, g)
  PROVE  StoreInv'
<1> DEFINE ans == CommitResult(r, ledger[Pays[r]], g)
<1>1. stage[r] = "held" /\ outcome[r] = "none"
      /\ UNCHANGED <<now, stage, asked, verdict>>
  BY DEF CommitTx, CommitFault
<1>2. ledger[Pays[r]] \in Record
  BY StoreAssumption DEF StoreInv, TypeOK
<1>3. CASE CommitTx(r, g)
  <2>1. ans \in {"created", "existing", "failed"}
    BY <1>2, RecordCases DEF CommitResult, Owns
  <2>2. ans = "existing" => ledger[Pays[r]].kind = "granted"
    BY <1>2, RecordCases DEF CommitResult
  <2>3. CASE ans = "created"
    BY <1>1, <1>3, <2>3, Granting DEF CommitTx
  <2>4. CASE ans = "existing"
    <3>1. /\ outcome' = [outcome EXCEPT ![r] = ans] /\ ledger' = ledger
          /\ got' = [got EXCEPT ![r] = ledger[Pays[r]].grant]
      BY <1>3, <2>4 DEF CommitTx
    <3>2. QED
      BY <1>1, <2>2, <2>4, <3>1, CommitAnswers
  <2>5. CASE ans = "failed"
    <3>1. outcome' = [outcome EXCEPT ![r] = ans] /\ ledger' = ledger /\ got' = got
      BY <1>3, <2>5 DEF CommitTx
    <3>2. QED
      BY <1>1, <2>5, <3>1, CommitAnswers
  <2>6. QED BY <2>1, <2>3, <2>4, <2>5
<1>4. CASE CommitFault(r, g)
  <2>1. outcome' = [outcome EXCEPT ![r] = "fault"] /\ got' = got
    BY <1>4 DEF CommitFault
  <2>2. CASE ledger' = ledger
    BY <1>1, <2>1, <2>2, CommitAnswers
  <2>3. CASE ledger' # ledger
    BY <1>1, <1>4, <2>1, <2>3, Granting DEF CommitFault
  <2>4. QED BY <2>2, <2>3
<1>5. QED BY <1>3, <1>4

LEMMA ReleaseInv ==
  ASSUME StoreInv, NEW r \in Req, ReleaseTx(r) \/ ReleaseFault(r)
  PROVE  StoreInv'
<1> USE StoreAssumption DEF StoreInv
<1> DEFINE a == Pays[r]
<1>1. /\ stage[r] = "held" /\ stage' = [stage EXCEPT ![r] = "done"]
      /\ UNCHANGED <<now, asked, verdict, outcome, got>>
      /\ \/ ledger' = ledger
         \/ Owns(r, ledger[a]) /\ ledger' = [ledger EXCEPT ![a] = Absent]
  BY DEF ReleaseTx, ReleaseFault
<1>2. a \in Auth /\ ledger[a] \in Record /\ Absent \in Record
      /\ Absent.kind = "absent" /\ Absent # Corrupt
  BY NewRecords DEF TypeOK, Absent, Corrupt
<1>3. TypeOK'
  BY <1>1, <1>2 DEF TypeOK
<1>4. ReservationDated'
  BY <1>1, <1>2 DEF TypeOK, ReservationDated
<1>5. (ClockReadBefore /\ NothingBeforeBegin /\ HolderWaits)'
  BY <1>1 DEF TypeOK, ClockReadBefore, NothingBeforeBegin, HolderWaits
<1>6. LeaseProtects'
  <2> SUFFICES ASSUME NEW q \in Req, LiveLease(q)' PROVE Owns(q, ledger[Pays[q]])'
    BY DEF LeaseProtects
  <2>1. q # r /\ Owns(q, ledger[Pays[q]])
    BY <1>1 DEF LiveLease, LeaseProtects, TypeOK
  <2>2. QED
    BY <1>1, <1>2, <2>1 DEF Owns, TypeOK
<1>7. Converged'
  BY <1>1, <1>2 DEF TypeOK, Converged, Owns, Granted
<1>8. (CreatedIsStored /\ OneCreator /\ CorruptIsNobodys)'
  BY <1>1, <1>2 DEF TypeOK, CreatedIsStored, OneCreator, CorruptIsNobodys, Owns
<1>9. QED
  BY <1>3, <1>4, <1>5, <1>6, <1>7, <1>8

LEMMA CrashInv ==
  ASSUME StoreInv, NEW R \in SUBSET Req, Crash(R)
  PROVE  StoreInv'
<1> USE StoreAssumption DEF StoreInv, Crash
<1>1. TypeOK'
  BY DEF TypeOK
<1>2. ReservationDated'
  <2> SUFFICES ASSUME NEW b \in Auth, ledger[b].kind = "reserved"
               PROVE stage'[ledger[b].lease] \in {"held", "done"}
    BY DEF ReservationDated
  <2>1. ledger[b].lease \in Req
    BY RecordCases DEF TypeOK
  <2>2. QED
    BY <2>1 DEF ReservationDated
<1>3. (ClockReadBefore /\ NothingBeforeBegin /\ HolderWaits)'
  BY DEF TypeOK, ClockReadBefore, NothingBeforeBegin, HolderWaits
<1>4. LeaseProtects'
  BY DEF TypeOK, LeaseProtects, LiveLease, Owns
<1>5. (Converged /\ CreatedIsStored /\ OneCreator /\ CorruptIsNobodys)'
  BY DEF TypeOK, Converged, CreatedIsStored, OneCreator, CorruptIsNobodys
<1>6. QED
  BY <1>1, <1>2, <1>3, <1>4, <1>5

LEMMA TickInv == ASSUME StoreInv, Tick PROVE StoreInv'
<1> USE StoreAssumption DEF StoreInv, Tick
<1>1. TypeOK'
  BY DEF TypeOK
<1>2. ClockReadBefore'
  BY DEF TypeOK, ClockReadBefore
<1>3. LeaseProtects'
  BY DEF TypeOK, LeaseProtects, LiveLease, Owns
<1>4. (ReservationDated /\ NothingBeforeBegin /\ HolderWaits /\ Converged
       /\ CreatedIsStored /\ OneCreator /\ CorruptIsNobodys)'
  BY DEF ReservationDated, NothingBeforeBegin, HolderWaits, Converged,
         CreatedIsStored, OneCreator, CorruptIsNobodys
<1>5. QED
  BY <1>1, <1>2, <1>3, <1>4

\* StoreInv is preserved by every step of every presentation, crash and tick.
LEMMA StepInv == StoreInv /\ [Next]_storeVars => StoreInv'
<1> SUFFICES ASSUME StoreInv, [Next]_storeVars PROVE StoreInv'
  OBVIOUS
<1>1. ASSUME NEW r \in Req, StoreStep(r) PROVE StoreInv'
  BY <1>1, BeginCallInv, BeginTxInv, BeginFaultInv, CommitInv, ReleaseInv DEF StoreStep
<1>2. ASSUME NEW R \in SUBSET Req, Crash(R) PROVE StoreInv'
  BY <1>2, CrashInv
<1>3. CASE Tick
  BY <1>3, TickInv
<1>4. CASE UNCHANGED storeVars
  BY <1>4 DEF storeVars, StoreInv, TypeOK, ReservationDated, ClockReadBefore,
     NothingBeforeBegin, HolderWaits, LeaseProtects, LiveLease, Owns, Converged,
     CreatedIsStored, OneCreator, CorruptIsNobodys
<1>5. QED
  BY <1>1, <1>2, <1>3, <1>4 DEF Next

-----------------------------------------------------------------------------
(* The promises.                                                            *)

\* The inductive invariant holds in every reachable state.
THEOREM StoreInvariant == Spec => []StoreInv
  BY InitInv, StepInv, PTL DEF Spec

\* Every variable keeps its type: the store only ever writes records that its
\* own decoder accepts (decodeGrantRecord, validateGrant).
THEOREM StoreTypes == Spec => []TypeOK
<1>1. StoreInv => TypeOK
  BY DEF StoreInv
<1>2. QED
  BY <1>1, StoreInvariant, PTL

\* A live lease is never lost to another presentation: the reservation in the
\* file is its holder's for as long as it lives (Begin and Release of store.go).
THEOREM LeasesProtect == Spec => []LeaseProtects
<1>1. StoreInv => LeaseProtects
  BY DEF StoreInv
<1>2. QED
  BY <1>1, StoreInvariant, PTL

\* So two presentations of one authorization never hold live leases together.
THEOREM LeasesExclude == Spec => []ExclusiveLease
<1>1. StoreInv => ExclusiveLease
  BY DEF StoreInv, LeaseProtects, ExclusiveLease, Owns
<1>2. QED
  BY <1>1, StoreInvariant, PTL

\* Everyone the store hands a grant is handed the one in the file, and one
\* presentation at most is told it created it.
THEOREM GrantsConverge == Spec => [](Converged /\ OneCreator)
<1>1. StoreInv => Converged /\ OneCreator
  BY DEF StoreInv
<1>2. QED
  BY <1>1, StoreInvariant, PTL

\* Nothing is ever sold on a record that does not decode, which stays as it is.
THEOREM CorruptionFailsClosed == Spec => CorruptFailsClosed
<1>1. StoreInv /\ StoreInv' /\ [Next]_storeVars
      => [\A a \in Auth : ledger[a] = Corrupt =>
            /\ ledger'[a] = Corrupt
            /\ \A r \in Req : Pays[r] = a =>
                 stage'[r] # "held" /\ got'[r] = NoGrant]_storeVars
  <2> SUFFICES ASSUME StoreInv, StoreInv', Next, NEW a \in Auth, ledger[a] = Corrupt
               PROVE  /\ ledger'[a] = Corrupt
                      /\ \A r \in Req : Pays[r] = a =>
                           stage'[r] # "held" /\ got'[r] = NoGrant
    OBVIOUS
  <2> USE StoreAssumption
  <2>1. ledger[a].kind = "corrupt" /\ ledger \in [Auth -> Record]
    BY DEF Corrupt, StoreInv, TypeOK
  <2>2. ASSUME NEW r \in Req, StoreStep(r) PROVE ledger'[a] = ledger[a]
    <3>1. CASE BeginCall(r)
      BY <3>1 DEF BeginCall
    <3>2. CASE BeginTx(r) \/ BeginFault(r)
      BY <3>2, <2>1 DEF BeginTx, BeginFault, BeginResult
    <3>3. ASSUME NEW g \in GrantTerms, CommitTx(r, g) \/ CommitFault(r, g)
          PROVE ledger'[a] = ledger[a]
      BY <3>3, <2>1 DEF CommitTx, CommitFault, CommitResult, Owns
    <3>4. CASE ReleaseTx(r) \/ ReleaseFault(r)
      BY <3>4, <2>1 DEF ReleaseTx, ReleaseFault, Owns
    <3>5. QED
      BY <2>2, <3>1, <3>2, <3>3, <3>4 DEF StoreStep
  <2>3. ledger'[a] = Corrupt
    BY <2>2 DEF Next, Crash, Tick
  <2>4. QED
    BY <2>3 DEF StoreInv, CorruptIsNobodys
<1>2. QED
  BY <1>1, StoreInvariant, PTL DEF Spec, CorruptFailsClosed

\* A grant in the file stays as it is, whoever takes a step.
LEMMA GrantStays ==
  ASSUME StoreInv, [Next]_storeVars, NEW a \in Auth, ledger[a].kind = "granted"
  PROVE  ledger'[a] = ledger[a]
<1> USE StoreAssumption
<1>1. ledger[a] \in Record /\ ledger \in [Auth -> Record]
  BY DEF StoreInv, TypeOK
<1>2. ASSUME NEW r \in Req, StoreStep(r) PROVE ledger'[a] = ledger[a]
  <2>1. CASE BeginCall(r)
    BY <2>1 DEF BeginCall
  <2>2. CASE BeginTx(r) \/ BeginFault(r)
    BY <2>2, <1>1 DEF BeginTx, BeginFault, BeginResult
  <2>3. ASSUME NEW g \in GrantTerms, CommitTx(r, g) \/ CommitFault(r, g)
        PROVE ledger'[a] = ledger[a]
    BY <2>3, <1>1 DEF CommitTx, CommitFault, CommitResult, Owns
  <2>4. CASE ReleaseTx(r) \/ ReleaseFault(r)
    BY <2>4, <1>1 DEF ReleaseTx, ReleaseFault, Owns
  <2>5. QED
    BY <1>2, <2>1, <2>2, <2>3, <2>4 DEF StoreStep
<1>3. QED
  BY <1>2 DEF Next, Crash, Tick, storeVars

\* Whoever has been answered by Begin stays answered.
LEMMA AnsweredStays ==
  ASSUME StoreInv, [Next]_storeVars, NEW q \in Req, stage[q] \in {"held", "done"}
  PROVE  stage'[q] \in {"held", "done"}
<1>1. stage \in [Req -> {"idle", "begin", "held", "done"}]
  BY DEF StoreInv, TypeOK
<1>2. ASSUME NEW r \in Req, StoreStep(r) PROVE stage'[q] \in {"held", "done"}
  <2>1. CASE BeginCall(r)
    BY <2>1, <1>1 DEF BeginCall
  <2>2. CASE BeginTx(r) \/ BeginFault(r)
    BY <2>2, <1>1 DEF BeginTx, BeginFault
  <2>3. ASSUME NEW g \in GrantTerms, CommitTx(r, g) \/ CommitFault(r, g)
        PROVE stage'[q] \in {"held", "done"}
    BY <2>3 DEF CommitTx, CommitFault
  <2>4. CASE ReleaseTx(r) \/ ReleaseFault(r)
    BY <2>4, <1>1 DEF ReleaseTx, ReleaseFault
  <2>5. QED
    BY <1>2, <2>1, <2>2, <2>3, <2>4 DEF StoreStep
<1>3. QED
  BY <1>2 DEF Next, Crash, Tick, storeVars

\* No step of anyone changes or removes a grant that is in the file.
THEOREM GrantsAreForever == Spec => GrantIsForever
<1>1. StoreInv /\ [Next]_storeVars
      => [\A a \in Auth : ledger[a].kind = "granted" => ledger'[a] = ledger[a]]_storeVars
  BY GrantStays
<1>2. QED
  BY <1>1, StoreInvariant, PTL DEF Spec, GrantIsForever

-----------------------------------------------------------------------------
(* The refinement of PaymentLedger.                                         *)

\* Writing anything but a grant leaves what was bought as it was.
LEMMA SameBought ==
  ASSUME ledger \in [Auth -> Record], NEW a \in Auth, NEW rec,
         ledger[a].kind # "granted", rec.kind # "granted",
         ledger' = [ledger EXCEPT ![a] = rec]
  PROVE  Bought' = Bought
BY DEF Bought

\* Handing presentation r the grant in its record adds one answer.
LEMMA OneMoreAnswer ==
  ASSUME got \in [Req -> GrantTerms \cup {NoGrant}], NEW r \in Req,
         got[r] = NoGrant, NEW g \in GrantTerms, got' = [got EXCEPT ![r] = g]
  PROVE  Answers' = Answers \cup {<<Pays[r], g>>}
<1>1. NoGrant # g
  BY StoreAssumption
<1>2. \A q \in Req : got'[q] # NoGrant <=> q = r \/ got[q] # NoGrant
  BY <1>1
<1>3. \A q \in Req : got'[q] = IF q = r THEN g ELSE got[q]
  OBVIOUS
<1>4. QED
  BY <1>2, <1>3 DEF Answers

LEMMA TellStep ==
  ASSUME StoreInv, NEW r \in Req, got[r] = NoGrant,
         ledger[Pays[r]].kind = "granted", ledger' = ledger,
         got' = [got EXCEPT ![r] = ledger[Pays[r]].grant]
  PROVE  Ledger!Tell(Pays[r])
<1> DEFINE a == Pays[r]
<1>1. a \in Auth /\ ledger[a] \in Record
  BY StoreAssumption DEF StoreInv, TypeOK
<1>2. ledger[a].grant \in GrantTerms
  BY <1>1, RecordCases
<1>3. Bought[a] = ledger[a].grant /\ Bought[a] # NoGrant
  BY <1>1, <1>2, StoreAssumption DEF Bought
<1>4. Answers' = Answers \cup {<<a, ledger[a].grant>>}
  BY <1>2, OneMoreAnswer DEF StoreInv, TypeOK
<1>5. Bought' = Bought
  BY DEF Bought
<1>6. QED
  BY <1>3, <1>4, <1>5 DEF Ledger!Tell

LEMMA BuyStep ==
  ASSUME StoreInv, NEW r \in Req, NEW g \in GrantTerms, got[r] = NoGrant,
         CommitResult(r, ledger[Pays[r]], g) = "created",
         ledger' = [ledger EXCEPT ![Pays[r]] = Granted(g)],
         got' = got \/ got' = [got EXCEPT ![r] = g]
  PROVE  Ledger!Buy(Pays[r], g)
<1> DEFINE a == Pays[r]
<1>1. a \in Auth /\ ledger[a] \in Record /\ ledger \in [Auth -> Record]
  BY StoreAssumption DEF StoreInv, TypeOK
<1>2. ledger[a].kind = "reserved"
  BY <1>1 DEF CommitResult, Owns
<1>3. Bought[a] = NoGrant
  BY <1>1, <1>2 DEF Bought
<1>4. Bought' = [Bought EXCEPT ![a] = g]
  BY <1>1 DEF Bought, Granted
<1>5. CASE got' = got
  BY <1>3, <1>4, <1>5 DEF Ledger!Buy, Answers
<1>6. CASE got' = [got EXCEPT ![r] = g]
  <2>1. Answers' = Answers \cup {<<a, g>>}
    BY <1>6, OneMoreAnswer DEF StoreInv, TypeOK
  <2>2. QED
    BY <1>3, <1>4, <2>1 DEF Ledger!Buy
<1>7. QED BY <1>5, <1>6

\* Every step of the store is a step of the ledger or changes nothing in it.
LEMMA StoreStepRefines ==
  StoreInv /\ [Next]_storeVars => [Ledger!LedgerNext]_(Ledger!ledgerVars)
<1> SUFFICES ASSUME StoreInv, [Next]_storeVars
             PROVE  \/ \E a \in Auth : \/ Ledger!Tell(a)
                                       \/ \E g \in GrantTerms : Ledger!Buy(a, g)
                    \/ Bought' = Bought /\ Answers' = Answers
  BY DEF Ledger!LedgerNext, Ledger!ledgerVars
<1> USE StoreAssumption
<1>1. ledger \in [Auth -> Record] /\ \A r \in Req : Pays[r] \in Auth /\ ledger[Pays[r]] \in Record
  BY DEF StoreInv, TypeOK
<1>2. ASSUME NEW r \in Req, StoreStep(r)
      PROVE  \/ \E a \in Auth : \/ Ledger!Tell(a)
                                \/ \E g \in GrantTerms : Ledger!Buy(a, g)
             \/ Bought' = Bought /\ Answers' = Answers
  <2>1. CASE BeginCall(r) \/ ReleaseFault(r)
    BY <2>1 DEF BeginCall, ReleaseFault, Bought, Answers
  <2>2. CASE BeginTx(r) /\ verdict'[r] = "recoverable"
    <3>1. BeginResult(ledger[Pays[r]], asked[r]) = "recoverable"
      BY <2>2 DEF BeginTx, StoreInv, TypeOK
    <3>2. ledger[Pays[r]].kind = "granted"
      BY <3>1, <1>1, RecordCases DEF BeginResult
    <3>3. got[r] = NoGrant
      BY <2>2 DEF BeginTx, StoreInv, NothingBeforeBegin
    <3>4. ledger' = ledger /\ got' = [got EXCEPT ![r] = ledger[Pays[r]].grant]
      BY <2>2, <3>1 DEF BeginTx
    <3>5. QED
      BY <1>1, <3>2, <3>3, <3>4, TellStep
  <2>3. CASE \/ BeginTx(r) /\ verdict'[r] # "recoverable"
             \/ BeginFault(r)
    <3>1. /\ got' = got
          /\ \/ ledger' = ledger
             \/ /\ BeginResult(ledger[Pays[r]], asked[r]) = "new"
                /\ ledger' = [ledger EXCEPT ![Pays[r]] = Reserved(r, asked[r] + PaymentLease)]
      BY <2>3 DEF BeginTx, BeginFault, StoreInv, TypeOK
    <3>2. CASE ledger' = ledger
      BY <3>1, <3>2 DEF Bought, Answers
    <3>3. CASE ledger' # ledger
      <4>1. ledger[Pays[r]].kind # "granted"
        BY <3>1, <3>3, <1>1, RecordCases DEF BeginResult
      <4>2. Reserved(r, asked[r] + PaymentLease).kind # "granted"
        BY DEF Reserved
      <4>3. Bought' = Bought
        BY <1>1, <3>1, <3>3, <4>1, <4>2, SameBought
      <4>4. QED
        BY <3>1, <4>3 DEF Answers
    <3>4. QED BY <3>2, <3>3
  <2>4. ASSUME NEW g \in GrantTerms, CommitTx(r, g) \/ CommitFault(r, g)
        PROVE  \/ \E a \in Auth : \/ Ledger!Tell(a)
                                  \/ \E h \in GrantTerms : Ledger!Buy(a, h)
               \/ Bought' = Bought /\ Answers' = Answers
    <3> DEFINE ans == CommitResult(r, ledger[Pays[r]], g)
    <3>1. got[r] = NoGrant
      BY <2>4 DEF CommitTx, CommitFault, StoreInv, HolderWaits
    <3>2. CASE ans = "created" /\ ledger' # ledger
      <4>1. /\ ledger' = [ledger EXCEPT ![Pays[r]] = Granted(g)]
            /\ got' = got \/ got' = [got EXCEPT ![r] = g]
        BY <2>4, <3>2 DEF CommitTx, CommitFault
      <4>2. QED
        BY <1>1, <3>1, <3>2, <4>1, BuyStep
    <3>3. CASE ans = "existing" /\ CommitTx(r, g)
      <4>1. ledger[Pays[r]].kind = "granted"
        BY <1>1, <3>3, RecordCases DEF CommitResult, Owns
      <4>2. ledger' = ledger /\ got' = [got EXCEPT ![r] = ledger[Pays[r]].grant]
        BY <3>3 DEF CommitTx
      <4>3. QED
        BY <1>1, <3>1, <4>1, <4>2, TellStep
    <3>4. CASE ledger' = ledger /\ got' = got
      BY <3>4 DEF Bought, Answers
    <3>5. ans \in {"created", "existing", "failed"}
      BY <1>1, RecordCases DEF CommitResult, Owns
    <3>6. ans = "created" /\ CommitTx(r, g) => ledger' # ledger
      BY <1>1, RecordCases DEF CommitTx, CommitResult, Owns, Granted
    <3>7. QED
      BY <2>4, <3>2, <3>3, <3>4, <3>5, <3>6 DEF CommitTx, CommitFault
  <2>5. CASE ReleaseTx(r)
    <3>1. got' = got
      BY <2>5 DEF ReleaseTx
    <3>2. CASE ledger' = ledger
      BY <3>1, <3>2 DEF Bought, Answers
    <3>3. CASE ledger' # ledger
      <4>1. /\ ledger[Pays[r]].kind # "granted"
            /\ ledger' = [ledger EXCEPT ![Pays[r]] = Absent]
        BY <2>5, <3>3 DEF ReleaseTx, Owns
      <4>2. Absent.kind # "granted"
        BY DEF Absent
      <4>3. Bought' = Bought
        BY <1>1, <4>1, <4>2, SameBought
      <4>4. QED
        BY <3>1, <4>3 DEF Answers
    <3>4. QED BY <3>2, <3>3
  <2>6. QED
    BY <1>2, <2>1, <2>2, <2>3, <2>4, <2>5 DEF StoreStep
<1>3. CASE \E R \in SUBSET Req : Crash(R)
  BY <1>3 DEF Crash, Bought, Answers
<1>4. CASE Tick
  BY <1>4 DEF Tick, Bought, Answers
<1>5. CASE UNCHANGED storeVars
  BY <1>5 DEF storeVars, Bought, Answers
<1>6. QED
  BY <1>2, <1>3, <1>4, <1>5 DEF Next

\* The store implements the ledger: an authorization buys at most one
\* entitlement, for ever, and every answer about it names that entitlement.
THEOREM StoreImplementsLedger == Spec => ImplementsLedger
<1>1. Init => Ledger!LedgerInit
  <2> SUFFICES ASSUME Init PROVE Ledger!LedgerInit
    OBVIOUS
  <2>1. \A a \in Auth : ledger[a].kind # "granted"
    BY DEF Init, Absent, Corrupt
  <2>2. QED
    BY <2>1 DEF Init, Ledger!LedgerInit, Bought, Answers
<1>2. QED
  BY <1>1, StoreStepRefines, StoreInvariant, PTL
     DEF Spec, ImplementsLedger, Ledger!LedgerSpec
===============================================================================
