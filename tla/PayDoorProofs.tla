---------------------------- MODULE PayDoorProofs ----------------------------
(***************************************************************************)
(* What the pay door promises, for every set of presentations, processes   *)
(* and places, every facilitator and every value of the timeouts:          *)
(*   - as long as no host is paused, a lease outlives the whole paid path; *)
(*   - it drives the store as GrantStore says (DoorDrivesStore), so all    *)
(*     that GrantStoreProofs proves of the store holds under it;           *)
(*   - one payment buys one pass, which rests on a grant in the file, which *)
(*     rests on the money: even when hosts are paused past every lease;    *)
(*   - unless a host is paused, no authorization is settled twice at once, *)
(*     or again after its grant, and no settlement is lost;                *)
(*   - clients are told the truth, the fleet sells each authorization once *)
(*     (PaymentLedger), and handlers only ever get nearer their answers.   *)
(* The first is the margin argument, for every value of the timeouts that  *)
(* keeps the margin.  The next two rest on the invariants EntitlementInv   *)
(* and MoneyInv, the last on FateInv and on the margin.                    *)
(***************************************************************************)
EXTENDS PayDoor, TLAPS

\* How far the clock can be, at each stage, past what the handler read.
OnTime(r) ==
  /\ pc[r] = "begin" => now <= asked[r] + OpenTimeout
  /\ pc[r] = "limit" => now <= asked[r] + OpenTimeout
  /\ pc[r] \in {"verify", "settle"} =>
       /\ since[r] <= asked[r] + OpenTimeout
       /\ now <= since[r] + PathBudget
  /\ pc[r] = "commit" =>
       /\ since[r] <= asked[r] + OpenTimeout + PathBudget
       /\ now <= since[r] + OpenTimeout

\* Where each stage of the handler stands with the store.
InStep(r) ==
  /\ pc[r] = "new" => stage[r] = "idle" /\ outcome[r] = "none"
  /\ pc[r] = "begin" => stage[r] = "begin" /\ outcome[r] = "none"
  /\ pc[r] \in {"limit", "verify", "settle", "commit"} =>
       stage[r] = "held" /\ outcome[r] = "none"

Holdings == {"idle", "begin", "held", "done"}

Typed ==
  /\ now \in Nat
  /\ asked \in [Req -> Nat]
  /\ since \in [Req -> Nat]
  /\ pc \in [Req -> Stages]
  /\ stage \in [Req -> Holdings]
  /\ outcome \in [Req -> Store!CommitOutcomes]
  /\ verdict \in [Req -> Store!BeginVerdicts]

PathInv == Typed /\ \A r \in Req : OnTime(r) /\ InStep(r)

LEMMA Budgets ==
  /\ OpenTimeout \in Nat /\ PathBudget \in Nat /\ PaymentLease \in Nat
  /\ OpenTimeout + PathBudget + OpenTimeout < PaymentLease
  BY DoorAssumption, LeaseMargin

LEMMA PathInit == Init => PathInv
  BY Budgets DEF Init, Store!Init, PathInv, Typed, OnTime, InStep, Stages, Holdings,
     Store!CommitOutcomes, Store!BeginVerdicts

\* What a presentation that takes no step keeps, when the clock stands still.
LEMMA OthersKeep ==
  ASSUME PathInv, NEW r \in Req,
         now' = now, pc'[r] = pc[r], asked'[r] = asked[r], since'[r] = since[r],
         stage'[r] = stage[r], outcome'[r] = outcome[r]
  PROVE  (OnTime(r) /\ InStep(r))'
  BY DEF PathInv, OnTime, InStep

LEMMA PresentPath ==
  ASSUME PathInv, NEW r \in Req, Present(r) PROVE PathInv'
  <1>1. /\ pc[r] = "new" /\ stage[r] = "idle" /\ now' = now /\ outcome' = outcome
        /\ pc' = [pc EXCEPT ![r] = "begin"] /\ since' = since /\ verdict' = verdict
        /\ stage' = [stage EXCEPT ![r] = "begin"]
        /\ asked' = [asked EXCEPT ![r] = now]
    BY DEF Present, Store!BeginCall, Go
  <1>2. Typed'
    BY <1>1 DEF PathInv, Typed, Stages, Holdings
  <1>3. (OnTime(r) /\ InStep(r))'
    BY <1>1, Budgets DEF PathInv, Typed, OnTime, InStep
  <1>4. ASSUME NEW q \in Req, q # r PROVE (OnTime(q) /\ InStep(q))'
    <2>1. /\ pc'[q] = pc[q] /\ asked'[q] = asked[q] /\ since'[q] = since[q]
          /\ stage'[q] = stage[q] /\ outcome'[q] = outcome[q]
      BY <1>1, <1>4 DEF PathInv, Typed
    <2> QED BY <2>1, <1>1, OthersKeep
  <1> QED BY <1>2, <1>3, <1>4 DEF PathInv

\* Only an answer of "new" goes on, and it leaves the reservation held.
LEMMA ClaimPath ==
  ASSUME PathInv, NEW r \in Req, Claim(r) PROVE PathInv'
  <1>1. /\ pc[r] = "begin" /\ now' = now /\ outcome' = outcome
        /\ asked' = asked /\ since' = since
    BY DEF Claim, Store!BeginTx, Store!BeginFault
  <1>2. PICK v \in Store!BeginVerdicts \ {"none"}, s \in {"held", "done"} :
          /\ verdict' = [verdict EXCEPT ![r] = v]
          /\ stage' = [stage EXCEPT ![r] = s]
          /\ v = "new" <=> s = "held"
    <2>1. CASE Store!BeginTx(r)
      <3> DEFINE ans == Store!BeginResult(ledger[Pays[r]], asked[r])
      <3>1. ans \in Store!BeginVerdicts \ {"none"}
        BY DEF Store!BeginResult, Store!BeginVerdicts
      <3>2. /\ verdict' = [verdict EXCEPT ![r] = ans]
            /\ stage' = [stage EXCEPT ![r] = IF ans = "new" THEN "held" ELSE "done"]
        BY <2>1 DEF Store!BeginTx
      <3> HIDE DEF ans
      <3> QED BY <3>1, <3>2
    <2>2. CASE Store!BeginFault(r)
      BY <2>2 DEF Store!BeginFault, Store!BeginVerdicts
    <2> QED BY <2>1, <2>2 DEF Claim
  <1>3. PICK p \in {"done", "serve", "limit"} :
          /\ pc' = [pc EXCEPT ![r] = p]
          /\ p = "limit" => verdict'[r] = "new"
    <2>1. verdict'[r] \in Store!BeginVerdicts \ {"none"}
      BY <1>2 DEF PathInv, Typed
    <2> QED BY <2>1 DEF Claim, Recover, Go, Store!BeginVerdicts
  <1>4. Typed'
    BY <1>1, <1>2, <1>3 DEF PathInv, Typed, Stages, Holdings
  <1>5. (OnTime(r) /\ InStep(r))'
    BY <1>1, <1>2, <1>3 DEF PathInv, Typed, OnTime, InStep
  <1>6. ASSUME NEW q \in Req, q # r PROVE (OnTime(q) /\ InStep(q))'
    <2>1. /\ pc'[q] = pc[q] /\ asked'[q] = asked[q] /\ since'[q] = since[q]
          /\ stage'[q] = stage[q] /\ outcome'[q] = outcome[q]
      BY <1>1, <1>2, <1>3, <1>6 DEF PathInv, Typed
    <2> QED BY <2>1, <1>1, OthersKeep
  <1> QED BY <1>4, <1>5, <1>6 DEF PathInv

\* A step of r that leaves the store and the clock alone and moves r to `to':
\* it is enough that r is on time and in step where it arrives.
LEMMA StepPath ==
  ASSUME PathInv, NEW r \in Req, NEW to \in Stages,
         UNCHANGED store, pc' = [pc EXCEPT ![r] = to],
         NEW at \in Nat, since' = [since EXCEPT ![r] = at],
         (OnTime(r) /\ InStep(r))'
  PROVE  PathInv'
  <1>1. Typed'
    BY DEF PathInv, Typed, store
  <1>2. ASSUME NEW q \in Req, q # r PROVE (OnTime(q) /\ InStep(q))'
    <2>1. /\ pc'[q] = pc[q] /\ asked'[q] = asked[q] /\ since'[q] = since[q]
          /\ stage'[q] = stage[q] /\ outcome'[q] = outcome[q] /\ now' = now
      BY <1>2 DEF PathInv, Typed, store
    <2> QED BY <2>1, OthersKeep
  <1> QED BY <1>1, <1>2 DEF PathInv

\* A step that takes r out of the leased stages owes nothing more.
Unleased == {"grant", "serve", "mint", "release", "done"}

LEMMA LeavePath ==
  ASSUME PathInv, NEW r \in Req, NEW to \in Unleased,
         UNCHANGED store, pc' = [pc EXCEPT ![r] = to], since' = since
  PROVE  PathInv'
  <1>1. /\ to \in Stages /\ since[r] \in Nat
        /\ since' = [since EXCEPT ![r] = since[r]]
    BY DEF PathInv, Typed, Unleased, Stages
  <1>2. (OnTime(r) /\ InStep(r))'
    BY DEF PathInv, Typed, OnTime, InStep, Unleased
  <1> QED BY <1>1, <1>2, StepPath

LEMMA RespondMoves ==
  ASSUME NEW r, NEW d, Respond(r, d)
  PROVE  \E to \in Unleased : pc' = [pc EXCEPT ![r] = to]
  BY DEF Respond, Go, Unleased

LEMMA AdmitPath ==
  ASSUME PathInv, NEW r \in Req, Admit(r) PROVE PathInv'
  <1>1. UNCHANGED store /\ pc[r] = "limit"
    BY DEF Admit
  <1>2. CASE (Respond(r, "rateLimited") \/ Respond(r, "infra")) /\ UNCHANGED since
    BY <1>1, <1>2, RespondMoves, LeavePath
  <1>3. CASE Go(r, "verify") /\ since' = [since EXCEPT ![r] = now]
    <2>1. now \in Nat /\ "verify" \in Stages /\ pc' = [pc EXCEPT ![r] = "verify"]
      BY <1>3 DEF PathInv, Typed, Go, Stages
    <2>2. (OnTime(r) /\ InStep(r))'
      BY <1>1, <1>3, <2>1, Budgets DEF PathInv, Typed, OnTime, InStep, store
    <2> QED BY <1>1, <1>3, <2>1, <2>2, StepPath
  <1> QED BY <1>2, <1>3 DEF Admit

LEMMA VerifyPath ==
  ASSUME PathInv, NEW r \in Req, VerifyAnswer(r) PROVE PathInv'
  <1>1. UNCHANGED <<store, since>> /\ pc[r] = "verify"
    BY DEF VerifyAnswer
  <1>2. CASE Respond(r, "infra") \/ Respond(r, "rejected")
    BY <1>1, <1>2, RespondMoves, LeavePath
  <1>3. CASE Go(r, "settle")
    <2>1. /\ since[r] \in Nat /\ "settle" \in Stages
          /\ pc' = [pc EXCEPT ![r] = "settle"]
      BY <1>3 DEF PathInv, Typed, Go, Stages
    <2>2. (OnTime(r) /\ InStep(r))'
      BY <1>1, <2>1 DEF PathInv, Typed, OnTime, InStep, store
    <2>3. since' = [since EXCEPT ![r] = since[r]]
      BY <1>1 DEF PathInv, Typed
    <2> QED BY <1>1, <2>1, <2>2, <2>3, StepPath
  <1> QED BY <1>2, <1>3 DEF VerifyAnswer

LEMMA SettlePath ==
  ASSUME PathInv, NEW r \in Req, SettleAnswer(r) PROVE PathInv'
  <1>1. UNCHANGED store /\ pc[r] = "settle"
    BY DEF SettleAnswer
  <1>2. SettleVerdict(reply[r]) \in {"valid", "invalid", "pending", "ambiguous"}
    BY DEF SettleVerdict
  <1>3. CASE SettleVerdict(reply[r]) = "valid"
    <2>1. /\ pc' = [pc EXCEPT ![r] = "commit"] /\ since' = [since EXCEPT ![r] = now]
          /\ now \in Nat /\ "commit" \in Stages
      BY <1>3 DEF SettleAnswer, Go, PathInv, Typed, Stages
    <2>2. (OnTime(r) /\ InStep(r))'
      BY <1>1, <2>1, Budgets DEF PathInv, Typed, OnTime, InStep, store
    <2> QED BY <1>1, <2>1, <2>2, StepPath
  <1>4. CASE SettleVerdict(reply[r]) # "valid"
    <2>1. \E d : Respond(r, d) /\ UNCHANGED since
      BY <1>2, <1>4 DEF SettleAnswer
    <2> QED BY <1>1, <2>1, RespondMoves, LeavePath
  <1> QED BY <1>3, <1>4

LEMMA LeavingSteps ==
  ASSUME PathInv, NEW r \in Req, SettleFails(r) \/ Settled(r) \/ Serve(r) \/ Mint(r)
  PROVE  PathInv'
  <1>1. UNCHANGED <<store, since>>
    BY DEF SettleFails, Settled, Serve, Mint
  <1>2. \E to \in Unleased : pc' = [pc EXCEPT ![r] = to]
    <2>1. (\E d : Respond(r, d)) \/ Go(r, "serve") \/ Go(r, "mint")
      BY DEF SettleFails, Settled, Serve, Mint
    <2> QED BY <2>1, RespondMoves DEF Go, Unleased
  <1> QED BY <1>1, <1>2, LeavePath

\* Commit and Release touch no other presentation's standing with the store.
LEMMA CommitPath ==
  ASSUME PathInv, NEW r \in Req, Commit(r) \/ Return(r) PROVE PathInv'
  <1>1. PICK to \in Unleased : pc' = [pc EXCEPT ![r] = to]
    BY DEF Commit, Return, Go, Unleased
  <1>2. /\ now' = now /\ asked' = asked /\ verdict' = verdict /\ since' = since
        /\ \E s \in Holdings : stage' = [stage EXCEPT ![r] = s]
        /\ \E o \in Store!CommitOutcomes : outcome' = [outcome EXCEPT ![r] = o]
    <2>1. CASE Commit(r)
      <3>1. stage' = stage /\ stage' = [stage EXCEPT ![r] = stage[r]]
            /\ stage[r] \in Holdings
        BY <2>1 DEF Commit, Store!CommitTx, Store!CommitFault, PathInv, Typed
      <3>2. \E o \in Store!CommitOutcomes : outcome' = [outcome EXCEPT ![r] = o]
        <4>1. CASE Store!CommitTx(r, GrantFor(r))
          <5> DEFINE ans == Store!CommitResult(r, ledger[Pays[r]], GrantFor(r))
          <5>1. outcome' = [outcome EXCEPT ![r] = ans]
            BY <4>1 DEF Store!CommitTx
          <5>2. ans \in Store!CommitOutcomes
            <6>1. CASE ans \in {"failed", "existing", "created"}
              BY <6>1 DEF Store!CommitOutcomes
            <6>2. CASE ans \notin {"failed", "existing", "created"}
              BY <6>2, <4>1 DEF Store!CommitTx, Store!CommitResult
            <6> QED BY <6>1, <6>2
          <5> QED BY <5>1, <5>2
        <4>2. CASE Store!CommitFault(r, GrantFor(r))
          BY <4>2 DEF Store!CommitFault, Store!CommitOutcomes
        <4> QED BY <2>1, <4>1, <4>2 DEF Commit
      <3>3. now' = now /\ asked' = asked /\ verdict' = verdict /\ since' = since
        BY <2>1 DEF Commit, Store!CommitTx, Store!CommitFault
      <3> QED BY <3>1, <3>2, <3>3
    <2>2. CASE Return(r)
      <3>1. outcome' = [outcome EXCEPT ![r] = outcome[r]] /\ outcome[r] \in Store!CommitOutcomes
        BY <2>2 DEF Return, Store!ReleaseTx, Store!ReleaseFault, PathInv, Typed
      <3>2. /\ stage' = [stage EXCEPT ![r] = "done"] /\ "done" \in Holdings /\ now' = now
            /\ asked' = asked /\ verdict' = verdict /\ since' = since
        BY <2>2 DEF Return, Store!ReleaseTx, Store!ReleaseFault, Holdings
      <3> QED BY <3>1, <3>2
    <2> QED BY <2>1, <2>2
  <1>3. Typed'
    BY <1>1, <1>2 DEF PathInv, Typed, Unleased, Stages
  <1>4. (OnTime(r) /\ InStep(r))'
    BY <1>1 DEF PathInv, Typed, OnTime, InStep, Unleased
  <1>5. ASSUME NEW q \in Req, q # r PROVE (OnTime(q) /\ InStep(q))'
    <2>1. /\ pc'[q] = pc[q] /\ asked'[q] = asked[q] /\ since'[q] = since[q]
          /\ stage'[q] = stage[q] /\ outcome'[q] = outcome[q]
      BY <1>1, <1>2, <1>5 DEF PathInv, Typed
    <2> QED BY <2>1, <1>2, OthersKeep
  <1> QED BY <1>3, <1>4, <1>5 DEF PathInv

\* A crash takes its handlers out of the path and leaves the rest alone.
LEMMA CrashPath ==
  ASSUME PathInv, NEW p \in Proc, Crash(p) PROVE PathInv'
  <1> DEFINE dead == {r \in Req : ProcOf[r] = p /\ pc[r] \notin {"new", "done"}}
  <1>1. /\ pc' = [r \in Req |-> IF r \in dead THEN "done" ELSE pc[r]]
        /\ stage' = [r \in Req |-> IF r \in dead /\ stage[r] \in {"begin", "held"}
                                   THEN "done" ELSE stage[r]]
        /\ UNCHANGED <<now, asked, verdict, outcome, since>>
    BY DEF Crash, Store!Crash
  <1> HIDE DEF dead
  <1>2. Typed'
    BY <1>1 DEF PathInv, Typed, Stages, Holdings
  <1>3. ASSUME NEW r \in Req PROVE (OnTime(r) /\ InStep(r))'
    <2>1. CASE r \in dead
      <3>1. pc'[r] = "done"
        BY <1>1, <2>1
      <3> QED BY <3>1 DEF OnTime, InStep
    <2>2. CASE r \notin dead
      <3>1. pc'[r] = pc[r] /\ stage'[r] = stage[r]
        BY <1>1, <2>2
      <3> QED BY <3>1, <1>1, OthersKeep
    <2> QED BY <2>1, <2>2
  <1> QED BY <1>2, <1>3 DEF PathInv

\* Without pauses the clock waits for every handler that is within its budget.
LEMMA TickPath ==
  ASSUME PathInv, "pause" \notin Faults, Tick PROVE PathInv'
  <1>1. /\ \A r \in Req : WithinBudget(r)
        /\ now' = now + 1
        /\ UNCHANGED <<stage, asked, verdict, outcome, pc, since>>
    BY DEF Tick, Store!Tick, door
  <1>2. Typed'
    BY <1>1 DEF PathInv, Typed
  <1>3. ASSUME NEW r \in Req PROVE (OnTime(r) /\ InStep(r))'
    <2>1. WithinBudget(r) /\ OnTime(r) /\ InStep(r)
      BY <1>1 DEF PathInv
    <2>2. now \in Nat /\ asked[r] \in Nat /\ since[r] \in Nat
      BY DEF PathInv, Typed
    <2>3. InStep(r)'
      BY <1>1, <2>1 DEF InStep
    <2>4. OnTime(r)'
      BY <1>1, <2>1, <2>2, Budgets DEF OnTime, WithinBudget
    <2> QED BY <2>3, <2>4
  <1> QED BY <1>2, <1>3 DEF PathInv

LEMMA PathNext ==
  ASSUME "pause" \notin Faults PROVE PathInv /\ [Next]_vars => PathInv'
  <1> SUFFICES ASSUME PathInv, [Next]_vars PROVE PathInv'
    OBVIOUS
  <1>1. ASSUME NEW r \in Req, Handler(r) PROVE PathInv'
    BY <1>1, PresentPath, ClaimPath, AdmitPath, VerifyPath, SettlePath,
       LeavingSteps, CommitPath DEF Handler, Working
  <1>2. CASE UNCHANGED <<store, door>>
    BY <1>2 DEF store, door, PathInv, Typed, OnTime, InStep
  <1>3. ASSUME NEW r \in Req, Facilitator(r) PROVE UNCHANGED <<store, door>>
    BY <1>3 DEF Facilitator, FacilitatorMoves, FacilitatorReplays, FacilitatorRefuses
  <1>4. ASSUME NEW a \in Auth, ChainConfirms(a) PROVE UNCHANGED <<store, door>>
    BY <1>4 DEF ChainConfirms
  <1>5. ASSUME NEW p \in Proc, Crash(p) PROVE PathInv'
    BY <1>5, CrashPath
  <1>6. CASE Tick
    BY <1>6, TickPath
  <1>7. CASE UNCHANGED vars
    BY <1>7, <1>2 DEF vars
  <1> QED BY <1>1, <1>2, <1>3, <1>4, <1>5, <1>6, <1>7 DEF Next

\* While a handler talks to the facilitator or commits, its lease is alive.
THEOREM LeaseOutlives ==
  ASSUME "pause" \notin Faults PROVE Spec => []LeaseOutlivesPath
  <1>1. PathInv => LeaseOutlivesPath
    <2> SUFFICES ASSUME PathInv, NEW r \in Req,
                        pc[r] \in {"limit", "verify", "settle", "commit"}
                 PROVE  Store!LiveLease(r)
      BY DEF LeaseOutlivesPath
    <2>1. OnTime(r) /\ InStep(r) /\ now \in Nat /\ asked[r] \in Nat /\ since[r] \in Nat
      BY DEF PathInv, Typed
    <2>2. now < asked[r] + PaymentLease
      BY <2>1, Budgets DEF OnTime
    <2> QED BY <2>1, <2>2 DEF InStep, Store!LiveLease
  <1>2. PathInv /\ [Next]_vars => PathInv'
    BY PathNext
  <1> QED BY <1>1, <1>2, PathInit, PTL DEF Spec

-----------------------------------------------------------------------------
Grants == INSTANCE GrantStoreProofs

-----------------------------------------------------------------------------
(* The store of PayDoor is the store of GrantStoreProofs: two instances of   *)
(* one module, whose operators the provers see as different symbols.         *)

\* The door's constants are constants of a store.
LEMMA StoreConstants == Grants!StoreAssumption
  BY DoorAssumption, NoGrantAssumption
     DEF Grants!StoreAssumption, MaxExp, Grants!GrantTerms, Store!GrantTerms

\* The operators of the two instances agree ...
LEMMA SameOperators ==
  /\ Store!GrantTerms = Grants!GrantTerms
  /\ \A r, t : Store!Reserved(r, t) = Grants!Reserved(r, t)
  /\ \A g : Store!Granted(g) = Grants!Granted(g)
  /\ \A r, rec : Store!Owns(r, rec) <=> Grants!Owns(r, rec)
  /\ \A g : Store!Complete(g) <=> Grants!Complete(g)
  /\ \A rec, t : Store!BeginResult(rec, t) = Grants!BeginResult(rec, t)
  /\ \A r, rec, g : Store!CommitResult(r, rec, g) = Grants!CommitResult(r, rec, g)
  /\ \A r : Store!LiveLease(r) <=> Grants!LiveLease(r)
  <1>1. Store!GrantTerms = Grants!GrantTerms
    BY DEF Store!GrantTerms, Grants!GrantTerms
  <1>2. \A r, t : Store!Reserved(r, t) = Grants!Reserved(r, t)
    BY DEF Store!Reserved, Grants!Reserved
  <1>3. \A g : Store!Granted(g) = Grants!Granted(g)
    BY DEF Store!Granted, Grants!Granted
  <1>4. \A r, rec : Store!Owns(r, rec) <=> Grants!Owns(r, rec)
    BY DEF Store!Owns, Grants!Owns
  <1>5. \A g : Store!Complete(g) <=> Grants!Complete(g)
    BY DEF Store!Complete, Grants!Complete
  <1>6. \A rec, t : Store!BeginResult(rec, t) = Grants!BeginResult(rec, t)
    BY DEF Store!BeginResult, Grants!BeginResult
  <1>7. \A r, rec, g : Store!CommitResult(r, rec, g) = Grants!CommitResult(r, rec, g)
    BY DEF Store!CommitResult, Grants!CommitResult, Store!Complete, Grants!Complete,
       Store!Owns, Grants!Owns
  <1>8. \A r : Store!LiveLease(r) <=> Grants!LiveLease(r)
    BY DEF Store!LiveLease, Grants!LiveLease
  <1> QED BY <1>1, <1>2, <1>3, <1>4, <1>5, <1>6, <1>7, <1>8

\* ... and so do their steps.
LEMMA SameSteps ==
  /\ Store!Init <=> Grants!Init
  /\ \A r : Store!BeginCall(r) <=> Grants!BeginCall(r)
  /\ \A r : Store!BeginTx(r) <=> Grants!BeginTx(r)
  /\ \A r : Store!BeginFault(r) <=> Grants!BeginFault(r)
  /\ \A r, g : Store!CommitTx(r, g) <=> Grants!CommitTx(r, g)
  /\ \A r, g : Store!CommitFault(r, g) <=> Grants!CommitFault(r, g)
  /\ \A r : Store!ReleaseTx(r) <=> Grants!ReleaseTx(r)
  /\ \A r : Store!ReleaseFault(r) <=> Grants!ReleaseFault(r)
  /\ \A R : Store!Crash(R) <=> Grants!Crash(R)
  /\ Store!Tick <=> Grants!Tick
  <1>0. Store!Init <=> Grants!Init
    BY DEF Store!Init, Grants!Init, Store!Absent, Grants!Absent, Store!Corrupt, Grants!Corrupt
  <1>1. \A r : Store!BeginCall(r) <=> Grants!BeginCall(r)
    BY DEF Store!BeginCall, Grants!BeginCall
  <1>2. \A r : Store!BeginTx(r) <=> Grants!BeginTx(r)
    BY SameOperators DEF Store!BeginTx, Grants!BeginTx
  <1>3. \A r : Store!BeginFault(r) <=> Grants!BeginFault(r)
    BY SameOperators DEF Store!BeginFault, Grants!BeginFault
  <1>4. \A r, g : Store!CommitTx(r, g) <=> Grants!CommitTx(r, g)
    BY SameOperators DEF Store!CommitTx, Grants!CommitTx
  <1>5. \A r, g : Store!CommitFault(r, g) <=> Grants!CommitFault(r, g)
    BY SameOperators DEF Store!CommitFault, Grants!CommitFault
  <1>6. \A r : Store!ReleaseTx(r) <=> Grants!ReleaseTx(r)
    BY SameOperators DEF Store!ReleaseTx, Grants!ReleaseTx, Store!Absent, Grants!Absent
  <1>7. \A r : Store!ReleaseFault(r) <=> Grants!ReleaseFault(r)
    BY DEF Store!ReleaseFault, Grants!ReleaseFault
  <1>8. \A R : Store!Crash(R) <=> Grants!Crash(R)
    BY DEF Store!Crash, Grants!Crash
  <1>9. Store!Tick <=> Grants!Tick
    BY DEF Store!Tick, Grants!Tick
  <1> QED BY <1>0, <1>1, <1>2, <1>3, <1>4, <1>5, <1>6, <1>7, <1>8, <1>9

-----------------------------------------------------------------------------
(* The invariant of entitlements.                                            *)

\* What a presentation has in hand at each stage: a grant for its own place
\* before it serves, and the pass it served is that grant's.
Standing(r) ==
  /\ pc[r] = "grant" => outcome[r] \in {"failed", "fault"} \/ got[r] # NoGrant
  /\ pc[r] \in {"serve", "mint"} => got[r] # NoGrant /\ PlaceOf(got[r]) = Place(r)
  /\ pass[r] # 0 => /\ got[r] # NoGrant /\ PlaceOf(got[r]) = Place(r)
                    /\ pass[r] = got[r].exp

\* It strengthens OnePassPerPayment, and rests on the store's.
EntitlementInv ==
  /\ Grants!StoreInv
  /\ pc \in [Req -> Stages]
  /\ pass \in [Req -> Nat]
  /\ expiry \in [Req -> 0 .. MaxExp]
  /\ \A r \in Req : Standing(r)

\* Nothing is in hand at the start.
LEMMA EntitlementInit == Init => EntitlementInv
  <1> SUFFICES ASSUME Init PROVE EntitlementInv
    OBVIOUS
  <1>1. Grants!Init
    BY SameSteps DEF Init
  <1>2. Grants!StoreInv
    BY <1>1, StoreConstants, Grants!InitInv
  <1>3. MaxExp \in Nat
    BY DoorAssumption DEF MaxExp
  <1> QED BY <1>2, <1>3 DEF Init, EntitlementInv, Standing, Stages

\* The grant a settlement asks for is one the store can hold.
LEMMA GrantIsATerm ==
  ASSUME EntitlementInv, NEW r \in Req
  PROVE  /\ GrantFor(r) \in Grants!GrantTerms /\ GrantFor(r) # NoGrant
         /\ PlaceOf(GrantFor(r)) = Place(r)
  <1>1. (CHOOSE t \in Tx : TRUE) \in Tx
    BY DoorAssumption
  <1>2. GrantFor(r) \in Grants!GrantTerms
    BY <1>1, DoorAssumption DEF EntitlementInv, GrantFor, Grants!GrantTerms
  <1>3. PlaceOf(GrantFor(r)) = Place(r)
    BY DEF GrantFor, PlaceOf, Place
  <1> QED BY <1>2, <1>3, StoreConstants DEF Grants!StoreAssumption

\* Every step of the door is a step of the store, or leaves it alone.
LEMMA StoreMoves ==
  ASSUME EntitlementInv, [Next]_vars PROVE [Grants!Next]_(Grants!storeVars)
  <1> USE SameSteps
  <1>1. CASE UNCHANGED store
    BY <1>1 DEF store, Grants!storeVars
  <1>2. ASSUME NEW r \in Req, Handler(r) PROVE [Grants!Next]_(Grants!storeVars)
    <2>1. CASE Present(r) \/ Claim(r) \/ Return(r)
      BY <2>1 DEF Present, Claim, Return, Grants!Next, Grants!StoreStep
    <2>2. CASE Commit(r)
      <3>1. \E g \in Grants!GrantTerms : Grants!CommitTx(r, g) \/ Grants!CommitFault(r, g)
        BY <2>2, GrantIsATerm DEF Commit
      <3> QED BY <3>1 DEF Grants!Next, Grants!StoreStep
    <2>3. CASE UNCHANGED store
      BY <2>3, <1>1
    <2> QED
      BY <1>2, <2>1, <2>2, <2>3
         DEF Handler, Working, Admit, VerifyAnswer, SettleAnswer, SettleFails, Settled, Serve, Mint
  <1>3. ASSUME NEW r \in Req, Facilitator(r) PROVE UNCHANGED store
    BY <1>3 DEF Facilitator, FacilitatorMoves, FacilitatorReplays, FacilitatorRefuses
  <1>4. ASSUME NEW a \in Auth, ChainConfirms(a) PROVE UNCHANGED store
    BY <1>4 DEF ChainConfirms
  <1>5. ASSUME NEW p \in Proc, Crash(p) PROVE Grants!Next
    <2> DEFINE dead == {r \in Req : ProcOf[r] = p /\ pc[r] \notin {"new", "done"}}
    <2>1. dead \in SUBSET Req /\ Grants!Crash(dead)
      BY <1>5 DEF Crash
    <2> QED BY <2>1 DEF Grants!Next
  <1>6. CASE Tick
    BY <1>6 DEF Tick, Grants!Next
  <1>7. CASE UNCHANGED vars
    BY <1>7, <1>1 DEF vars
  <1> QED BY <1>1, <1>2, <1>3, <1>4, <1>5, <1>6, <1>7 DEF Next

\* So the store's invariant is kept by the door.
LEMMA StoreKeeps ==
  ASSUME EntitlementInv, [Next]_vars PROVE Grants!StoreInv'
  <1>1. [Grants!Next]_(Grants!storeVars)
    BY StoreMoves
  <1> QED BY <1>1, StoreConstants, Grants!StepInv DEF EntitlementInv

-----------------------------------------------------------------------------
(* EntitlementInv is inductive: one lemma for each action that disturbs it.  *)

\* What a presentation that takes no step keeps.
LEMMA StandsStill ==
  ASSUME NEW q \in Req, Standing(q),
         pc'[q] = pc[q], pass'[q] = pass[q], outcome'[q] = outcome[q], got'[q] = got[q]
  PROVE  Standing(q)'
  BY DEF Standing, PlaceOf, Place

\* A handler's step moves its own stage only, and never its pass but in Mint.
LEMMA StandingMoves ==
  ASSUME EntitlementInv, NEW r \in Req, Grants!StoreInv',
         NEW to \in Stages, pc' = [pc EXCEPT ![r] = to],
         NEW o, outcome' = [outcome EXCEPT ![r] = o],
         NEW g, got' = [got EXCEPT ![r] = g],
         NEW e \in Nat, pass' = [pass EXCEPT ![r] = e],
         expiry' \in [Req -> 0 .. MaxExp],
         Standing(r)'
  PROVE  EntitlementInv'
  <1>1. pc' \in [Req -> Stages] /\ pass' \in [Req -> Nat]
    BY DEF EntitlementInv
  <1>2. ASSUME NEW q \in Req, q # r PROVE Standing(q)'
    <2>1. /\ pc'[q] = pc[q] /\ pass'[q] = pass[q]
          /\ outcome'[q] = outcome[q] /\ got'[q] = got[q]
      BY <1>2 DEF EntitlementInv, Grants!StoreInv, Grants!TypeOK
    <2> QED BY <2>1, StandsStill DEF EntitlementInv
  <1> QED BY <1>1, <1>2 DEF EntitlementInv

\* The types the steps below rely on, and an unchanged function as an update.
LEMMA Functions ==
  ASSUME EntitlementInv
  PROVE  /\ outcome \in [Req -> Grants!CommitOutcomes]
         /\ got \in [Req -> Grants!GrantTerms \cup {NoGrant}]
         /\ verdict \in [Req -> Grants!BeginVerdicts]
         /\ ledger \in [Auth -> Grants!Record] /\ Pays \in [Req -> Auth]
         /\ NoGrant \notin Grants!GrantTerms
         /\ now \in 0 .. MaxTime
         /\ \A r \in Req : /\ outcome' = outcome => outcome' = [outcome EXCEPT ![r] = outcome[r]]
                           /\ got' = got => got' = [got EXCEPT ![r] = got[r]]
                           /\ pass' = pass => pass' = [pass EXCEPT ![r] = pass[r]]
                           /\ pass[r] \in Nat
  BY StoreConstants DEF EntitlementInv, Grants!StoreInv, Grants!TypeOK, Grants!StoreAssumption

\* The kinds of record the file holds.
LEMMA Kinds ==
  ASSUME EntitlementInv, NEW a \in Auth
  PROVE  \/ ledger[a].kind \in {"absent", "corrupt", "reserved"}
         \/ /\ ledger[a].kind = "granted" /\ ledger[a].grant \in Grants!GrantTerms
            /\ ledger[a] = Grants!Granted(ledger[a].grant)
  <1>1. ledger[a] \in Grants!Record
    BY Functions
  <1> QED BY <1>1 DEF Grants!Record, Grants!Absent, Grants!Corrupt, Grants!Granted

\* The steps that go on, refuse or answer without the store: what is in hand stays.
LEMMA QuietSteps ==
  ASSUME EntitlementInv, Grants!StoreInv', NEW r \in Req,
         NEW to \in Stages \ {"grant", "serve", "mint"}, pc' = [pc EXCEPT ![r] = to],
         UNCHANGED <<outcome, got, pass>>, expiry' \in [Req -> 0 .. MaxExp]
  PROVE  EntitlementInv'
  <1>1. Standing(r)'
    BY DEF EntitlementInv, Standing, PlaceOf, Place
  <1> QED BY <1>1, Functions, StandingMoves

\* A presentation that calls Begin has nothing more in hand.
LEMMA PresentStands ==
  ASSUME EntitlementInv, Grants!StoreInv', NEW r \in Req, Present(r) PROVE EntitlementInv'
  <1>1. /\ pc' = [pc EXCEPT ![r] = "begin"] /\ UNCHANGED <<outcome, got, pass, expiry>>
    BY DEF Present, Store!BeginCall, Go
  <1> QED BY <1>1, QuietSteps DEF Stages, EntitlementInv

\* Begin hands over a grant to a presentation that has none, and only the grant
\* of its own place is served.
LEMMA ClaimStands ==
  ASSUME EntitlementInv, Grants!StoreInv', NEW r \in Req, Claim(r) PROVE EntitlementInv'
  <1>1. outcome' = outcome /\ pass' = pass /\ expiry' = expiry /\ stage[r] = "begin"
    BY DEF Claim, Store!BeginTx, Store!BeginFault
  <1>2. got[r] = NoGrant
    BY <1>1 DEF EntitlementInv, Grants!StoreInv, Grants!NothingBeforeBegin
  <1>3. pass[r] = 0
    BY <1>2 DEF EntitlementInv, Standing
  <1>4. PICK g : /\ got' = [got EXCEPT ![r] = g]
                 /\ verdict'[r] = "recoverable" => g # NoGrant
    <2>1. CASE Grants!BeginTx(r) /\ verdict'[r] = "recoverable"
      <3>1. Grants!BeginResult(ledger[Pays[r]], asked[r]) = "recoverable"
        BY <2>1, Functions DEF Grants!BeginTx
      <3>2. /\ ledger[Pays[r]].kind = "granted"
            /\ ledger[Pays[r]].grant \in Grants!GrantTerms
        BY <3>1, Functions, Kinds DEF Grants!BeginResult
      <3>3. got' = [got EXCEPT ![r] = ledger[Pays[r]].grant]
        BY <2>1, <3>1 DEF Grants!BeginTx
      <3> QED BY <3>2, <3>3, Functions
    <2>2. CASE Grants!BeginTx(r) /\ verdict'[r] # "recoverable"
      <3>1. Grants!BeginResult(ledger[Pays[r]], asked[r]) # "recoverable"
        BY <2>2, Functions DEF Grants!BeginTx
      <3>2. got' = got
        BY <2>2, <3>1 DEF Grants!BeginTx
      <3> QED BY <2>2, <3>2, Functions
    <2>3. CASE Grants!BeginFault(r)
      <3>1. got' = got /\ verdict'[r] = "error"
        BY <2>3, Functions DEF Grants!BeginFault
      <3> QED BY <3>1, Functions
    <2> QED BY <2>1, <2>2, <2>3, SameSteps DEF Claim
  <1>5. PICK p \in Stages \ {"grant", "mint"} :
          /\ pc' = [pc EXCEPT ![r] = p]
          /\ p = "serve" => verdict'[r] = "recoverable" /\ PlaceOf(got'[r]) = Place(r)
    <2>1. verdict'[r] \in Grants!BeginVerdicts \ {"none"}
      <3>1. CASE Grants!BeginTx(r)
        BY <3>1, Functions DEF Grants!BeginTx, Grants!BeginResult, Grants!BeginVerdicts
      <3>2. CASE Grants!BeginFault(r)
        BY <3>2, Functions DEF Grants!BeginFault, Grants!BeginVerdicts
      <3> QED BY <3>1, <3>2, SameSteps DEF Claim
    <2> QED BY <2>1 DEF Claim, Recover, Go, Grants!BeginVerdicts, Stages
  <1>6. Standing(r)'
    BY <1>1, <1>3, <1>4, <1>5, Functions DEF Standing, EntitlementInv, PlaceOf, Place
  <1>7. expiry' \in [Req -> 0 .. MaxExp]
    BY <1>1 DEF EntitlementInv
  <1> QED BY <1>1, <1>4, <1>5, <1>6, <1>7, Functions, StandingMoves

\* An accepted Commit hands over a grant, to a holder that has none.
LEMMA CommitStands ==
  ASSUME EntitlementInv, Grants!StoreInv', NEW r \in Req, Commit(r) PROVE EntitlementInv'
  <1>1. /\ pc' = [pc EXCEPT ![r] = "grant"] /\ "grant" \in Stages
        /\ UNCHANGED <<pass, expiry>> /\ stage[r] = "held" /\ outcome[r] = "none"
    BY DEF Commit, Go, Stages, Store!CommitTx, Store!CommitFault
  <1>2. pass[r] = 0
    BY <1>1 DEF EntitlementInv, Standing, Grants!StoreInv, Grants!HolderWaits
  <1>3. PICK o, g : /\ outcome' = [outcome EXCEPT ![r] = o]
                    /\ got' = [got EXCEPT ![r] = g]
                    /\ o \in {"failed", "fault"} \/ g # NoGrant
    <2> DEFINE ans == Grants!CommitResult(r, ledger[Pays[r]], GrantFor(r))
    <2>1. CASE Grants!CommitTx(r, GrantFor(r)) /\ ans = "created"
      BY <2>1, GrantIsATerm DEF Grants!CommitTx
    <2>2. CASE Grants!CommitTx(r, GrantFor(r)) /\ ans = "existing"
      <3>1. ledger[Pays[r]].kind = "granted" /\ ledger[Pays[r]].grant # NoGrant
        BY <2>2, Functions, Kinds DEF Grants!CommitResult, Grants!Owns
      <3> QED BY <2>2, <3>1 DEF Grants!CommitTx
    <2>3. CASE Grants!CommitTx(r, GrantFor(r)) /\ ans = "failed"
      BY <2>3, Functions DEF Grants!CommitTx
    <2>4. ans \in {"created", "existing", "failed"}
      BY Functions, Kinds DEF Grants!CommitResult, Grants!Owns
    <2>5. CASE Grants!CommitFault(r, GrantFor(r))
      BY <2>5, Functions DEF Grants!CommitFault
    <2> QED BY <2>1, <2>2, <2>3, <2>4, <2>5, SameSteps DEF Commit
  <1>4. Standing(r)'
    BY <1>1, <1>2, <1>3, Functions DEF Standing, EntitlementInv
  <1>5. expiry' \in [Req -> 0 .. MaxExp]
    BY <1>1 DEF EntitlementInv
  <1> QED BY <1>1, <1>3, <1>4, <1>5, Functions, StandingMoves

\* After Commit: an accepted grant of another place is not served.
LEMMA SettledStands ==
  ASSUME EntitlementInv, Grants!StoreInv', NEW r \in Req, Settled(r) PROVE EntitlementInv'
  <1>1. /\ UNCHANGED <<outcome, got, pass, expiry>> /\ pc[r] = "grant"
    BY DEF Settled, store
  <1>2. CASE Go(r, "serve") /\ outcome[r] \notin {"failed", "fault"}
             /\ PlaceOf(got[r]) = Place(r)
    <2>1. pc' = [pc EXCEPT ![r] = "serve"] /\ "serve" \in Stages
      BY <1>2 DEF Go, Stages
    <2>2. Standing(r)'
      BY <1>1, <1>2, <2>1 DEF EntitlementInv, Standing, PlaceOf, Place
    <2>3. expiry' \in [Req -> 0 .. MaxExp]
      BY <1>1 DEF EntitlementInv
    <2> QED BY <1>1, <2>1, <2>2, <2>3, Functions, StandingMoves
  <1>3. CASE \E d : Respond(r, d)
    <2>1. PICK to \in Unleased : pc' = [pc EXCEPT ![r] = to] /\ to \notin {"grant", "serve", "mint"}
      BY <1>3 DEF Respond, Go, Unleased
    <2>2. to \in Stages \ {"grant", "serve", "mint"}
      BY <2>1 DEF Unleased, Stages
    <2>3. expiry' \in [Req -> 0 .. MaxExp]
      BY <1>1 DEF EntitlementInv
    <2> QED BY <1>1, <2>1, <2>2, <2>3, QuietSteps
  <1> QED BY <1>2, <1>3 DEF Settled

\* The pass is the grant's.
LEMMA ServeStands ==
  ASSUME EntitlementInv, Grants!StoreInv', NEW r \in Req, Serve(r) \/ Mint(r)
  PROVE  EntitlementInv'
  <1>1. /\ UNCHANGED <<outcome, got, expiry>> /\ pc[r] \in {"serve", "mint"}
        /\ got[r] \in Grants!GrantTerms /\ PlaceOf(got[r]) = Place(r)
    BY Functions DEF Serve, Mint, store, EntitlementInv, Standing
  <1>2. PICK to \in {"mint", "release", "done"} : pc' = [pc EXCEPT ![r] = to]
    BY DEF Serve, Mint, Respond, Go
  <1>3. PICK e \in {pass[r], got[r].exp} : pass' = [pass EXCEPT ![r] = e]
    BY Functions DEF Serve, Mint
  <1>4. got[r].exp \in Nat
    BY <1>1 DEF Grants!GrantTerms
  <1>5. Standing(r)'
    BY <1>1, <1>2, <1>3, Functions DEF EntitlementInv, Standing, PlaceOf, Place
  <1>6. expiry' \in [Req -> 0 .. MaxExp] /\ to \in Stages /\ e \in Nat
    BY <1>1, <1>2, <1>3, <1>4 DEF EntitlementInv, Stages
  <1> QED BY <1>1, <1>2, <1>3, <1>5, <1>6, Functions, StandingMoves

\* The rest of a handler's steps.
LEMMA QuietHandlerSteps ==
  ASSUME EntitlementInv, Grants!StoreInv', NEW r \in Req,
         Admit(r) \/ VerifyAnswer(r) \/ SettleAnswer(r) \/ SettleFails(r) \/ Return(r)
  PROVE  EntitlementInv'
  <1>1. UNCHANGED <<outcome, got, pass>>
    BY DEF Admit, VerifyAnswer, SettleAnswer, SettleFails, Return, store,
       Store!ReleaseTx, Store!ReleaseFault
  <1>2. SettleVerdict(reply[r]) \in {"valid", "invalid", "pending", "ambiguous"}
    BY DEF SettleVerdict
  <1>3. \/ \E d : Respond(r, d)
        \/ \E to \in {"verify", "settle", "commit", "done"} : Go(r, to)
    BY <1>2 DEF Admit, VerifyAnswer, SettleAnswer, SettleFails, Return
  <1>4. PICK to \in Stages \ {"grant", "serve", "mint"} : pc' = [pc EXCEPT ![r] = to]
    BY <1>3 DEF Respond, Go, Stages
  <1>5. expiry' = expiry \/ expiry' = [expiry EXCEPT ![r] = now + PaidTTL]
    BY <1>2 DEF Admit, VerifyAnswer, SettleAnswer, SettleFails, Return
  <1>6. expiry' \in [Req -> 0 .. MaxExp]
    BY <1>5, Functions, DoorAssumption DEF EntitlementInv, MaxExp
  <1> QED BY <1>1, <1>4, <1>6, QuietSteps

\* A crash ends handlers where they stand.
LEMMA CrashStands ==
  ASSUME EntitlementInv, Grants!StoreInv', NEW p \in Proc, Crash(p) PROVE EntitlementInv'
  <1> DEFINE dead == {r \in Req : ProcOf[r] = p /\ pc[r] \notin {"new", "done"}}
  <1>1. /\ pc' = [r \in Req |-> IF r \in dead THEN "done" ELSE pc[r]]
        /\ UNCHANGED <<outcome, got, pass, expiry>>
    BY DEF Crash, Store!Crash
  <1>2. pc' \in [Req -> Stages]
    BY <1>1 DEF EntitlementInv, Stages
  <1> HIDE DEF dead
  <1>3. ASSUME NEW r \in Req PROVE Standing(r)'
    BY <1>1 DEF EntitlementInv, Standing, PlaceOf, Place
  <1> QED BY <1>1, <1>2, <1>3 DEF EntitlementInv

\* Every step keeps the invariant.
LEMMA EntitlementNext == EntitlementInv /\ [Next]_vars => EntitlementInv'
  <1> SUFFICES ASSUME EntitlementInv, [Next]_vars PROVE EntitlementInv'
    OBVIOUS
  <1>1. Grants!StoreInv'
    BY StoreKeeps
  <1>2. ASSUME NEW r \in Req, Handler(r) PROVE EntitlementInv'
    BY <1>1, <1>2, PresentStands, ClaimStands, CommitStands, SettledStands, ServeStands,
       QuietHandlerSteps DEF Handler, Working
  <1>3. CASE UNCHANGED <<outcome, got, door>>
    <2>1. ASSUME NEW r \in Req PROVE Standing(r)'
      BY <1>3, StandsStill DEF EntitlementInv, door
    <2> QED BY <1>1, <1>3, <2>1 DEF EntitlementInv, door
  <1>4. ASSUME NEW r \in Req, Facilitator(r) PROVE UNCHANGED <<outcome, got, door>>
    BY <1>4 DEF Facilitator, FacilitatorMoves, FacilitatorReplays, FacilitatorRefuses, store
  <1>5. ASSUME NEW a \in Auth, ChainConfirms(a) PROVE UNCHANGED <<outcome, got, door>>
    BY <1>5 DEF ChainConfirms, store
  <1>6. ASSUME NEW p \in Proc, Crash(p) PROVE EntitlementInv'
    BY <1>1, <1>6, CrashStands
  <1>7. CASE Tick \/ UNCHANGED vars
    BY <1>3, <1>7 DEF Tick, Store!Tick, vars, store
  <1> QED BY <1>2, <1>3, <1>4, <1>5, <1>6, <1>7 DEF Next

-----------------------------------------------------------------------------
(* What follows from it, pauses or not.                                      *)

\* The invariant holds in every reachable state.
THEOREM Entitlements == Spec => []EntitlementInv
  BY EntitlementInit, EntitlementNext, PTL DEF Spec

\* Every behaviour of the door is one of the store (pay.go calls Begin, Commit
\* and Release in their order), so the store's theorems hold of the door's file.
THEOREM DoorDrivesStore == Spec => Grants!Spec
  <1>1. Init => Grants!Init
    BY SameSteps DEF Init
  <1>2. EntitlementInv /\ [Next]_vars => [Grants!Next]_(Grants!storeVars)
    BY StoreMoves
  <1> QED BY <1>1, <1>2, Entitlements, PTL DEF Spec, Grants!Spec

\* All the passes ever given for an authorization are one pass, at one place,
\* and each rests on the grant in the file (servePayment, servePaidGrant).
THEOREM OnePass == Spec => []OnePassPerPayment
  <1>1. EntitlementInv => OnePassPerPayment
    <2> SUFFICES ASSUME EntitlementInv, NEW r \in Req, pass[r] # 0
                 PROVE  /\ ledger[Pays[r]].kind = "granted"
                        /\ ledger[Pays[r]].grant.exp = pass[r]
                        /\ PlaceOf(ledger[Pays[r]].grant) = Place(r)
      BY DEF OnePassPerPayment
    <2>1. /\ ledger[Pays[r]] = Grants!Granted(got[r])
          /\ pass[r] = got[r].exp /\ PlaceOf(got[r]) = Place(r)
      BY DEF EntitlementInv, Standing, Grants!StoreInv, Grants!Converged
    <2>2. \A g : Grants!Granted(g).kind = "granted" /\ Grants!Granted(g).grant = g
      BY DEF Grants!Granted
    <2> QED BY <2>1, <2>2
  <1> QED BY <1>1, Entitlements, PTL

-----------------------------------------------------------------------------
(* The invariant of money.                                                   *)

\* The chain has moved what was asked, where it was asked, from who signed.
Paid(a) == chain[a] = Moved("settled", AsAsked)

\* Behind every grant, every Commit under way and every answer that Verify would
\* accept stands the money.
MoneyInv ==
  /\ chain \in [Auth -> {Unspent} \cup [state : {"broadcast", "settled"}, transfer : Transfer]]
  /\ reply \in [Req -> Answer]
  /\ \A r \in Req : SettleVerdict(reply[r]) = "valid" => Paid(Pays[r])
  /\ \A r \in Req : pc[r] = "commit" => Paid(Pays[r])
  /\ \A a \in Auth : ledger[a].kind = "granted" => Paid(a)

\* A refusal is an answer, and not an accepted one.
LEMMA RefusalIsInvalid == Refusal \in Answer /\ SettleVerdict(Refusal) # "valid"
  BY DEF Refusal, SettleVerdict, Answer

\* An answer that Verify accepts is about a settled transfer of what was asked.
LEMMA ValidIsPaid ==
  ASSUME NEW t \in Transfer, NEW ok \in BOOLEAN, NEW a \in Claims(t, ok),
         SettleVerdict(a) = "valid"
  PROVE  ok /\ t = AsAsked
  <1>1. a.success /\ a.network = "asked" /\ a.payer # "other" /\ a.amount # "other"
    BY DEF SettleVerdict
  <1>2. ok /\ t.network = "asked" /\ t.payer = "from" /\ t.amount = "asked"
    BY <1>1 DEF Claims, Transfer
  <1> QED BY <1>2 DEF AsAsked, Transfer

\* Nothing is claimed at the start.
LEMMA MoneyInit == Init => MoneyInv
  <1> SUFFICES ASSUME Init PROVE MoneyInv
    OBVIOUS
  <1>1. /\ \A r \in Req : reply[r] = Refusal /\ pc[r] = "new"
        /\ \A a \in Auth : ledger[a].kind = "absent"
    BY DEF Init, Store!Absent
  <1>2. chain \in [Auth -> {Unspent}] /\ reply \in [Req -> Answer]
    BY RefusalIsInvalid DEF Init
  <1> QED BY <1>1, <1>2, RefusalIsInvalid DEF MoneyInv

\* What is paid stays paid.
LEMMA PaidStays ==
  ASSUME MoneyInv, [Next]_vars, NEW a \in Auth, Paid(a) PROVE Paid(a)'
  <1>0. chain \in [Auth -> {chain[b] : b \in Auth}]
    BY DEF MoneyInv
  <1>1. chain[a].state = "settled" /\ chain[a] # Unspent
    BY DEF Paid, Moved, Unspent
  <1>3. ASSUME NEW r \in Req, Handler(r) PROVE UNCHANGED chain
    BY <1>3 DEF Handler, Working, Present, Claim, Admit, VerifyAnswer, SettleAnswer, SettleFails,
       Commit, Settled, Serve, Mint, Return, world
  <1>4. ASSUME NEW r \in Req, Facilitator(r) PROVE chain'[a] = chain[a]
    <2>1. CASE FacilitatorMoves(r)
      <3>1. chain[Pays[r]] = Unspent
            /\ \E m : chain' = [chain EXCEPT ![Pays[r]] = m]
        BY <2>1 DEF FacilitatorMoves
      <3> QED BY <3>1, <1>1, <1>0
    <2> QED BY <1>4, <2>1 DEF Facilitator, FacilitatorReplays, FacilitatorRefuses
  <1>5. ASSUME NEW b \in Auth, ChainConfirms(b) PROVE chain'[a] = chain[a]
    <2>1. chain[b].state = "broadcast" /\ \E m : chain' = [chain EXCEPT ![b] = m]
      BY <1>5 DEF ChainConfirms
    <2> QED BY <2>1, <1>1, <1>0
  <1>6. ASSUME NEW p \in Proc, Crash(p) PROVE UNCHANGED chain
    BY <1>6 DEF Crash, world
  <1>7. ASSUME Tick \/ UNCHANGED vars PROVE UNCHANGED chain
    BY <1>7 DEF Tick, vars, world
  <1>8. chain'[a] = chain[a]
    BY <1>3, <1>4, <1>5, <1>6, <1>7 DEF Next
  <1> QED BY <1>8 DEF Paid, Moved, AsAsked

\* Only Commit puts a grant in the file.
LEMMA GrantedByCommit ==
  ASSUME EntitlementInv, [Next]_vars, NEW a \in Auth,
         ledger'[a].kind = "granted", ledger[a].kind # "granted"
  PROVE  \E r \in Req : pc[r] = "commit" /\ Pays[r] = a
  <1>1. ledger' # ledger
    OBVIOUS
  <1>2. ASSUME NEW r \in Req, Claim(r) PROVE FALSE
    <2>1. ledger' = ledger
          \/ ledger' = [ledger EXCEPT ![Pays[r]] = Grants!Reserved(r, asked[r] + PaymentLease)]
      BY <1>2, SameSteps DEF Claim, Grants!BeginTx, Grants!BeginFault
    <2> QED BY <2>1, Functions DEF Grants!Reserved
  <1>3. ASSUME NEW r \in Req, Return(r) PROVE FALSE
    <2>1. ledger' = ledger \/ ledger' = [ledger EXCEPT ![Pays[r]] = Grants!Absent]
      BY <1>3, SameSteps DEF Return, Grants!ReleaseTx, Grants!ReleaseFault
    <2> QED BY <2>1, Functions DEF Grants!Absent
  <1>4. ASSUME NEW r \in Req, Commit(r) PROVE pc[r] = "commit" /\ Pays[r] = a
    <2>1. ledger' = ledger \/ \E g : ledger' = [ledger EXCEPT ![Pays[r]] = g]
      BY <1>4, SameSteps DEF Commit, Grants!CommitTx, Grants!CommitFault
    <2>2. pc[r] = "commit"
      BY <1>4 DEF Commit
    <2> QED BY <2>1, <2>2, Functions
  <1>5. ASSUME NEW r \in Req, Handler(r) PROVE pc[r] = "commit" /\ Pays[r] = a
    BY <1>1, <1>2, <1>3, <1>4, <1>5
       DEF Handler, Working, Present, Store!BeginCall, Admit, VerifyAnswer, SettleAnswer, SettleFails,
           Settled, Serve, Mint, store
  <1>6. ASSUME NEW r \in Req, Facilitator(r) PROVE FALSE
    BY <1>1, <1>6 DEF Facilitator, FacilitatorMoves, FacilitatorReplays, FacilitatorRefuses, store
  <1>7. ASSUME NEW b \in Auth, ChainConfirms(b) PROVE FALSE
    BY <1>1, <1>7 DEF ChainConfirms, store
  <1>8. ASSUME NEW p \in Proc, Crash(p) PROVE FALSE
    BY <1>1, <1>8 DEF Crash, Store!Crash
  <1>9. CASE Tick \/ UNCHANGED vars
    BY <1>1, <1>9 DEF Tick, Store!Tick, vars, store
  <1> QED BY <1>5, <1>6, <1>7, <1>8, <1>9 DEF Next

\* A presentation comes to Commit with an accepted answer.
LEMMA CommitAfterValid ==
  ASSUME EntitlementInv, [Next]_vars, NEW r \in Req, pc'[r] = "commit", pc[r] # "commit"
  PROVE  SettleVerdict(reply[r]) = "valid"
  <1>1. ASSUME NEW q \in Req, Handler(q) PROVE SettleVerdict(reply[r]) = "valid"
    <2>1. SettleVerdict(reply[q]) \in {"valid", "invalid", "pending", "ambiguous"}
      BY DEF SettleVerdict
    <2>2. CASE SettleAnswer(q)
      <3>1. \/ SettleVerdict(reply[q]) = "valid"
            \/ \E to \in Unleased : pc' = [pc EXCEPT ![q] = to]
        BY <2>1, <2>2, RespondMoves DEF SettleAnswer
      <3>2. \E to : pc' = [pc EXCEPT ![q] = to]
        BY <2>1, <2>2 DEF SettleAnswer, Respond, Go
      <3> QED BY <3>1, <3>2 DEF Unleased, EntitlementInv
    <2>3. CASE Claim(q)
      <3>1. verdict'[q] \in Grants!BeginVerdicts \ {"none"}
        <4>1. CASE Grants!BeginTx(q)
          BY <4>1, Functions DEF Grants!BeginTx, Grants!BeginResult, Grants!BeginVerdicts
        <4>2. CASE Grants!BeginFault(q)
          BY <4>2, Functions DEF Grants!BeginFault, Grants!BeginVerdicts
        <4> QED BY <2>3, <4>1, <4>2, SameSteps DEF Claim
      <3>2. \E to \in {"done", "serve", "limit"} : pc' = [pc EXCEPT ![q] = to]
        BY <2>3, <3>1 DEF Claim, Recover, Go, Grants!BeginVerdicts
      <3> QED BY <3>2 DEF EntitlementInv
    <2>4. CASE ~ SettleAnswer(q) /\ ~ Claim(q)
      <3>1. \/ \E d : Respond(q, d)
            \/ \E to \in {"begin", "verify", "settle", "grant", "serve", "mint", "done"} : Go(q, to)
        BY <1>1, <2>4 DEF Handler, Working, Present, Admit, VerifyAnswer, SettleFails, Commit,
           Settled, Serve, Mint, Return
      <3>2. \E to \in Stages \ {"commit"} : pc' = [pc EXCEPT ![q] = to]
        BY <3>1 DEF Respond, Go, Stages
      <3> QED BY <3>2 DEF EntitlementInv
    <2> QED BY <2>2, <2>3, <2>4
  <1>2. ASSUME NEW q \in Req, Facilitator(q) PROVE FALSE
    BY <1>2 DEF Facilitator, FacilitatorMoves, FacilitatorReplays, FacilitatorRefuses, door
  <1>3. ASSUME NEW b \in Auth, ChainConfirms(b) PROVE FALSE
    BY <1>3 DEF ChainConfirms, door
  <1>4. ASSUME NEW p \in Proc, Crash(p) PROVE FALSE
    BY <1>4 DEF Crash
  <1>5. CASE Tick \/ UNCHANGED vars
    BY <1>5 DEF Tick, vars, door
  <1> QED BY <1>1, <1>2, <1>3, <1>4, <1>5 DEF Next

\* Every answer the facilitator gives is a refusal or true of the chain.
LEMMA AnswersAreTrue ==
  ASSUME MoneyInv, NEW r \in Req, Facilitator(r)
  PROVE  \/ reply' = reply
         \/ reply' = [reply EXCEPT ![r] = Refusal]
         \/ \E t \in Transfer, st \in {"broadcast", "settled"} :
              /\ chain'[Pays[r]] = Moved(st, t)
              /\ \E a \in Claims(t, st = "settled") : reply' = [reply EXCEPT ![r] = a]
  <1>1. Pays[r] \in Auth
    BY DoorAssumption
  <1>2. CASE FacilitatorMoves(r)
    <2>1. PICK t \in Transfers, st \in {"broadcast", "settled"} :
            /\ chain' = [chain EXCEPT ![Pays[r]] = Moved(st, t)]
            /\ Answers(r, Claims(t, st = "settled"))
      BY <1>2 DEF FacilitatorMoves
    <2>2. t \in Transfer
      BY DoorAssumption
    <2>3. chain'[Pays[r]] = Moved(st, t)
      BY <1>1, <2>1 DEF MoneyInv
    <2>4. \/ reply' = reply
          \/ \E a \in Claims(t, st = "settled") : reply' = [reply EXCEPT ![r] = a]
      BY <2>1 DEF Answers
    <2> QED BY <2>2, <2>3, <2>4
  <1>3. CASE FacilitatorReplays(r)
    <2> DEFINE c == chain[Pays[r]]
    <2>1. c # Unspent /\ chain' = chain
      BY <1>3 DEF FacilitatorReplays
    <2>2. c.state \in {"broadcast", "settled"} /\ c.transfer \in Transfer
          /\ c = Moved(c.state, c.transfer)
      BY <1>1, <2>1 DEF MoneyInv, Moved
    <2>3. \/ Answers(r, Claims(c.transfer, c.state = "settled"))
          \/ Answers(r, {Refusal})
      BY <1>3 DEF FacilitatorReplays
    <2>4. \/ reply' = reply
          \/ reply' = [reply EXCEPT ![r] = Refusal]
          \/ \E a \in Claims(c.transfer, c.state = "settled") : reply' = [reply EXCEPT ![r] = a]
      BY <2>3 DEF Answers
    <2> QED BY <2>1, <2>2, <2>4
  <1>4. CASE FacilitatorRefuses(r)
    BY <1>4 DEF FacilitatorRefuses, Answers
  <1> QED BY <1>2, <1>3, <1>4 DEF Facilitator

\* Every other step leaves an answer alone or drops it.
LEMMA RepliesElsewhere ==
  ASSUME [Next]_vars, \A r \in Req : ~ Facilitator(r)
  PROVE  reply' = reply \/ \E r \in Req : reply' = [reply EXCEPT ![r] = Refusal]
  <1>1. ASSUME NEW r \in Req, Handler(r)
        PROVE  reply' = reply \/ reply' = [reply EXCEPT ![r] = Refusal]
    BY <1>1 DEF Handler, Working, Present, Claim, Admit, VerifyAnswer, SettleAnswer, SettleFails,
       Commit, Settled, Serve, Mint, Return, world
  <1>2. ASSUME \/ \E a \in Auth : ChainConfirms(a)
               \/ \E p \in Proc : Crash(p)
               \/ Tick \/ UNCHANGED vars
        PROVE  reply' = reply
    BY <1>2 DEF ChainConfirms, Crash, Tick, vars, world
  <1> QED BY <1>1, <1>2 DEF Next

\* Every step keeps the invariant.
LEMMA MoneyNext ==
  ASSUME EntitlementInv, MoneyInv, [Next]_vars PROVE MoneyInv'
  <1> DEFINE Chains == {Unspent} \cup [state : {"broadcast", "settled"}, transfer : Transfer]
  <1>1. chain' \in [Auth -> Chains]
    <2>1. chain \in [Auth -> Chains]
      BY DEF MoneyInv
    <2>2. \A st \in {"broadcast", "settled"}, t \in Transfer : Moved(st, t) \in Chains
      BY DEF Moved
    <2> HIDE DEF Chains
    <2>3. ASSUME NEW r \in Req, FacilitatorMoves(r) PROVE chain' \in [Auth -> Chains]
      BY <2>1, <2>2, <2>3, DoorAssumption DEF FacilitatorMoves
    <2>4. ASSUME NEW a \in Auth, ChainConfirms(a) PROVE chain' \in [Auth -> Chains]
      <3>1. chain[a] # Unspent
        BY <2>4 DEF ChainConfirms, Unspent
      <3>2. chain[a].transfer \in Transfer
        BY <2>1, <3>1 DEF Chains
      <3>3. Moved("settled", chain[a].transfer) \in Chains /\ Unspent \in Chains
        BY <2>2, <3>2 DEF Chains
      <3> QED BY <2>1, <2>4, <3>3 DEF ChainConfirms
    <2>5. ASSUME \/ \E r \in Req : Handler(r) \/ FacilitatorReplays(r) \/ FacilitatorRefuses(r)
                 \/ \E p \in Proc : Crash(p)
                 \/ Tick \/ UNCHANGED vars
          PROVE  chain' = chain
      BY <2>5 DEF Handler, Working, Present, Claim, Admit, VerifyAnswer, SettleAnswer, SettleFails,
         Commit, Settled, Serve, Mint, Return, FacilitatorReplays, FacilitatorRefuses,
         Crash, Tick, vars, world
    <2> QED BY <2>1, <2>3, <2>4, <2>5 DEF Next, Facilitator
  <1>2. reply' \in [Req -> Answer]
        /\ \A r \in Req : SettleVerdict(reply'[r]) = "valid" => Paid(Pays[r])'
    <2>1. CASE reply' = reply
      BY <2>1, PaidStays, DoorAssumption DEF MoneyInv
    <2>2. ASSUME NEW q \in Req, reply' = [reply EXCEPT ![q] = Refusal]
          PROVE  reply' \in [Req -> Answer]
                 /\ \A r \in Req : SettleVerdict(reply'[r]) = "valid" => Paid(Pays[r])'
      <3>1. reply' \in [Req -> Answer] /\ reply'[q] = Refusal
            /\ \A r \in Req : r # q => reply'[r] = reply[r]
        BY <2>2, RefusalIsInvalid DEF MoneyInv
      <3> QED BY <3>1, RefusalIsInvalid, PaidStays, DoorAssumption DEF MoneyInv
    <2>3. ASSUME NEW q \in Req, NEW t \in Transfer, NEW st \in {"broadcast", "settled"},
                 chain'[Pays[q]] = Moved(st, t),
                 NEW a \in Claims(t, st = "settled"), reply' = [reply EXCEPT ![q] = a]
          PROVE  reply' \in [Req -> Answer]
                 /\ \A r \in Req : SettleVerdict(reply'[r]) = "valid" => Paid(Pays[r])'
      <3>1. a \in Answer
        BY DEF Claims
      <3>2. reply' \in [Req -> Answer] /\ reply'[q] = a
            /\ \A r \in Req : r # q => reply'[r] = reply[r]
        BY <2>3, <3>1 DEF MoneyInv
      <3>3. SettleVerdict(a) = "valid" => Paid(Pays[q])'
        <4> SUFFICES ASSUME SettleVerdict(a) = "valid" PROVE Paid(Pays[q])'
          OBVIOUS
        <4>1. st = "settled" /\ t = AsAsked
          BY ValidIsPaid
        <4>2. Pays' = Pays /\ AsAsked' = AsAsked
          BY DEF AsAsked
        <4> QED BY <2>3, <4>1 DEF Paid, Moved, AsAsked
      <3> QED BY <3>2, <3>3, PaidStays, DoorAssumption DEF MoneyInv
    <2> QED BY <2>1, <2>2, <2>3, AnswersAreTrue, RepliesElsewhere
  <1>3. \A r \in Req : pc'[r] = "commit" => Paid(Pays[r])'
    <2> SUFFICES ASSUME NEW r \in Req, pc'[r] = "commit" PROVE Paid(Pays[r])'
      OBVIOUS
    <2>1. Paid(Pays[r])
      BY CommitAfterValid DEF MoneyInv
    <2> QED BY <2>1, PaidStays, DoorAssumption
  <1>4. \A a \in Auth : ledger'[a].kind = "granted" => Paid(a)'
    <2> SUFFICES ASSUME NEW a \in Auth, ledger'[a].kind = "granted" PROVE Paid(a)'
      OBVIOUS
    <2>1. Paid(a)
      BY GrantedByCommit DEF MoneyInv
    <2> QED BY <2>1, PaidStays
  <1> QED BY <1>1, <1>2, <1>3, <1>4 DEF MoneyInv, SettleVerdict

\* No entitlement without the money, whatever the facilitator answers, loses or
\* replays (Verify's checks of the settle answer).
THEOREM GrantsAreBacked == Spec => []GrantBacked
  <1>1. EntitlementInv /\ MoneyInv /\ [Next]_vars => MoneyInv'
    BY MoneyNext
  <1>2. MoneyInv => GrantBacked
    BY DEF MoneyInv, Paid, GrantBacked
  <1> QED BY <1>1, <1>2, MoneyInit, Entitlements, PTL DEF Spec

-----------------------------------------------------------------------------
(* What holds while no host is paused, through the margin of the lease.      *)

\* While no host is paused, the lease is alive and the reservation is its own.
LEMMA OwnOnPath ==
  ASSUME EntitlementInv, LeaseOutlivesPath, NEW r \in Req,
         pc[r] \in {"limit", "verify", "settle", "commit"}
  PROVE  Grants!Owns(r, ledger[Pays[r]])
  <1>1. Grants!LiveLease(r)
    BY SameOperators DEF LeaseOutlivesPath
  <1> QED BY <1>1 DEF EntitlementInv, Grants!StoreInv, Grants!LeaseProtects

\* No authorization is in two handlers' hands at the facilitator (the promise of
\* BeginInFlight).
THEOREM SettlesAlone ==
  ASSUME "pause" \notin Faults PROVE Spec => []ExclusiveSettle
  <1>1. EntitlementInv /\ LeaseOutlivesPath => ExclusiveSettle
    BY OwnOnPath DEF ExclusiveSettle, Grants!Owns
  <1> QED BY <1>1, Entitlements, LeaseOutlives, PTL

\* The requests at the facilitator.
Wired == wire \in [Req -> {"none", "sent", "answered", "closed"}]

\* They keep their type.
LEMMA WiredNext == Wired /\ [Next]_vars => Wired'
  <1> SUFFICES ASSUME Wired, [Next]_vars PROVE Wired'
    OBVIOUS
  <1>1. ASSUME NEW r \in Req, Handler(r) \/ Facilitator(r) PROVE Wired'
    BY <1>1 DEF Handler, Working, Present, Claim, Admit, VerifyAnswer, SettleAnswer, SettleFails,
       Commit, Settled, Serve, Mint, Return, world, Facilitator, FacilitatorMoves,
       FacilitatorReplays, FacilitatorRefuses, Answers, Wired
  <1>2. ASSUME \/ \E a \in Auth : ChainConfirms(a)
               \/ \E p \in Proc : Crash(p)
               \/ Tick \/ UNCHANGED vars
        PROVE  wire' = wire
    BY <1>2 DEF ChainConfirms, Crash, Tick, vars, world
  <1> QED BY <1>1, <1>2 DEF Next, Wired

\* Only a handler whose /verify was answered sends its /settle.
LEMMA SentByVerify ==
  ASSUME Wired, [Next]_vars, NEW r \in Req, wire[r] = "none", wire'[r] = "sent"
  PROVE  pc[r] = "verify"
  <1>1. ASSUME NEW q \in Req, Handler(q) PROVE pc[r] = "verify"
    <2>1. CASE VerifyAnswer(q)
      BY <2>1 DEF VerifyAnswer, Wired
    <2>2. CASE SettleAnswer(q) \/ SettleFails(q)
      <3>1. wire' = wire \/ wire' = [wire EXCEPT ![q] = "closed"]
        BY <2>2 DEF SettleAnswer, SettleFails, Wired
      <3> QED BY <3>1 DEF Wired
    <2>3. CASE wire' = wire
      BY <2>3
    <2> QED
      BY <1>1, <2>1, <2>2, <2>3 DEF Handler, Working, Present, Claim, Admit, Commit, Settled, Serve,
         Mint, Return, world
  <1>2. ASSUME NEW q \in Req, Facilitator(q) PROVE FALSE
    <2>1. wire' = wire \/ wire' = [wire EXCEPT ![q] = "answered"]
          \/ wire' = [wire EXCEPT ![q] = "closed"]
      BY <1>2 DEF Facilitator, FacilitatorMoves, FacilitatorReplays, FacilitatorRefuses, Answers
    <2> QED BY <2>1 DEF Wired
  <1>3. ASSUME \/ \E a \in Auth : ChainConfirms(a)
               \/ \E p \in Proc : Crash(p)
               \/ Tick \/ UNCHANGED vars
        PROVE  FALSE
    BY <1>3 DEF ChainConfirms, Crash, Tick, vars, world
  <1> QED BY <1>1, <1>2, <1>3 DEF Next

\* An authorization with a grant is not sent for settlement again: Begin has
\* answered for it by then.
THEOREM SettlesOnce ==
  ASSUME "pause" \notin Faults PROVE Spec => NoSettleAfterGrant
  <1>1. EntitlementInv /\ LeaseOutlivesPath /\ Wired /\ [Next]_vars =>
          [\A r \in Req : wire[r] = "none" /\ wire'[r] = "sent" =>
             ledger[Pays[r]].kind # "granted"]_vars
    BY SentByVerify, OwnOnPath DEF Grants!Owns
  <1>2. Init => Wired
    BY DEF Init, Wired
  <1> QED BY <1>1, <1>2, WiredNext, Entitlements, LeaseOutlives, PTL
          DEF Spec, NoSettleAfterGrant

-----------------------------------------------------------------------------
\* What becomes of a settlement, unless the file failed, for a named authority.
Kept(r) == outcome[r] \notin {"none", "fault"} /\ AudienceOf[r] # NoAudience
Sound(r, d) == \/ d \in {"none", "passPaid"}
               \/ d \in {"replay", "grantFailed"} /\ expiry[r] <= now
Fate(r) ==
  /\ pc[r] = "commit" => expiry[r] > 0
  /\ pc[r] \notin {"release", "done"} => decision[r] = "none"
  /\ Kept(r) => outcome[r] = "created" /\ got[r] = GrantFor(r) /\ Sound(r, decision[r])

\* It strengthens NoLostSettlement.
FateInv == decision \in [Req -> Decisions] /\ \A r \in Req : Fate(r)

\* The clock never goes back, and nobody reads it as anything but a number.
LEMMA ClockTyped == EntitlementInv => now \in Nat /\ \A r \in Req : expiry[r] \in Nat
  <1>1. MaxTime \in Nat /\ MaxExp \in Nat
    BY DoorAssumption DEF MaxExp
  <1> QED BY <1>1, Functions DEF EntitlementInv

\* What a presentation that takes no step keeps.
LEMMA FateKeeps ==
  ASSUME EntitlementInv, NEW q \in Req, Fate(q), pc'[q] = pc[q], outcome'[q] = outcome[q],
         got'[q] = got[q], decision'[q] = decision[q], expiry'[q] = expiry[q],
         now' = now \/ now' = now + 1
  PROVE  Fate(q)'
  <1>1. expiry[q] <= now => expiry'[q] <= now'
    BY ClockTyped
  <1>2. GrantFor(q)' = GrantFor(q)
    BY DEF GrantFor
  <1> QED BY <1>1, <1>2 DEF Fate, Kept, Sound

\* A step of r that keeps or makes its decision, and its own Fate.
LEMMA FateMoves ==
  ASSUME EntitlementInv, FateInv, NEW r \in Req, now' = now,
         NEW to, pc' = [pc EXCEPT ![r] = to],
         NEW o, outcome' = [outcome EXCEPT ![r] = o],
         NEW g, got' = [got EXCEPT ![r] = g],
         NEW d \in Decisions, decision' = [decision EXCEPT ![r] = d],
         NEW e, expiry' = [expiry EXCEPT ![r] = e],
         Fate(r)'
  PROVE  FateInv'
  <1>1. ASSUME NEW q \in Req, q # r PROVE Fate(q)'
    <2>1. /\ pc'[q] = pc[q] /\ outcome'[q] = outcome[q] /\ got'[q] = got[q]
          /\ decision'[q] = decision[q] /\ expiry'[q] = expiry[q]
      BY <1>1, Functions DEF EntitlementInv, FateInv
    <2> QED BY <2>1, FateKeeps DEF FateInv
  <1>2. decision' \in [Req -> Decisions]
    BY DEF FateInv
  <1> QED BY <1>1, <1>2 DEF FateInv

\* Its lease alive: Commit creates the grant it is given, refuses one that names no
\* authority, or the file fails.
LEMMA FateCommit ==
  ASSUME EntitlementInv, FateInv, LeaseOutlivesPath, NEW r \in Req, Commit(r)
  PROVE  FateInv'
  <1>1. /\ pc[r] = "commit" /\ pc' = [pc EXCEPT ![r] = "grant"] /\ now' = now
        /\ outcome[r] = "none" /\ UNCHANGED <<decision, expiry>>
    BY DEF Commit, Go, Store!CommitTx, Store!CommitFault
  <1> DEFINE ans == Grants!CommitResult(r, ledger[Pays[r]], GrantFor(r))
  <1>2. AudienceOf[r] # NoAudience => ans = "created"
    <2>1. Grants!Owns(r, ledger[Pays[r]])
      BY <1>1, OwnOnPath
    <2>2. (CHOOSE t \in Tx : TRUE) \in Tx /\ NoTx \notin Tx /\ expiry[r] > 0
      BY <1>1, DoorAssumption DEF FateInv, Fate
    <2>3. AudienceOf[r] # NoAudience => Grants!Complete(GrantFor(r))
      BY <2>2 DEF Grants!Complete, GrantFor
    <2> QED BY <2>1, <2>3 DEF Grants!CommitResult, Grants!Owns
  <1>3. PICK o, g : /\ outcome' = [outcome EXCEPT ![r] = o]
                    /\ got' = [got EXCEPT ![r] = g]
                    /\ o # "fault" /\ AudienceOf[r] # NoAudience => o = "created" /\ g = GrantFor(r)
    <2>1. CASE Grants!CommitTx(r, GrantFor(r))
      <3>1. /\ outcome' = [outcome EXCEPT ![r] = ans]
            /\ got' = CASE ans = "created"  -> [got EXCEPT ![r] = GrantFor(r)]
                        [] ans = "existing" -> [got EXCEPT ![r] = ledger[Pays[r]].grant]
                        [] ans = "failed"   -> got
        BY <2>1 DEF Grants!CommitTx
      <3>2. ans \in {"created", "existing", "failed"}
        BY Functions, Kinds DEF Grants!CommitResult, Grants!Owns
      <3> HIDE DEF ans
      <3>3. CASE ans = "created"
        BY <3>1, <3>3
      <3>4. CASE ans # "created"
        <4>1. \E g : got' = [got EXCEPT ![r] = g]
          BY <3>1, <3>2, <3>4, Functions
        <4> QED BY <1>2, <3>1, <3>4, <4>1
      <3> QED BY <3>3, <3>4
    <2>2. CASE Grants!CommitFault(r, GrantFor(r))
      BY <2>2, Functions DEF Grants!CommitFault
    <2> QED BY <2>1, <2>2, SameSteps DEF Commit
  <1> HIDE DEF ans
  <1>4. /\ decision' = [decision EXCEPT ![r] = decision[r]] /\ decision[r] \in Decisions
        /\ expiry' = [expiry EXCEPT ![r] = expiry[r]]
    BY <1>1 DEF FateInv, EntitlementInv
  <1>5. /\ pc'[r] = "grant" /\ outcome'[r] = o /\ got'[r] = g /\ decision'[r] = "none"
        /\ GrantFor(r)' = GrantFor(r)
    <2>1. decision[r] = "none"
      BY <1>1 DEF FateInv, Fate
    <2> QED BY <1>1, <1>3, <2>1, Functions DEF EntitlementInv, GrantFor
  <1>6. Fate(r)'
    BY <1>3, <1>5 DEF Fate, Kept, Sound
  <1> QED BY <1>1, <1>3, <1>4, <1>6, FateMoves

\* A step of r before its Commit.
LEMMA FateBefore ==
  ASSUME EntitlementInv, FateInv, NEW r \in Req, outcome[r] = "none",
         UNCHANGED <<now, outcome>>,
         NEW to \in Stages, pc' = [pc EXCEPT ![r] = to],
         NEW g, got' = [got EXCEPT ![r] = g],
         NEW e, expiry' = [expiry EXCEPT ![r] = e], to = "commit" => e > 0,
         NEW d \in Decisions, decision' = [decision EXCEPT ![r] = d],
         to \notin {"release", "done"} => d = "none"
  PROVE  FateInv'
  <1>1. outcome' = [outcome EXCEPT ![r] = outcome[r]]
    BY Functions
  <1>2. pc'[r] = to /\ decision'[r] = d /\ outcome'[r] = "none" /\ expiry'[r] = e
    BY DEF EntitlementInv, FateInv
  <1>3. Fate(r)'
    BY <1>2 DEF Fate, Kept
  <1> QED BY <1>1, <1>3, FateMoves

\* A step of r after it, or without it.
LEMMA FateAfter ==
  ASSUME EntitlementInv, FateInv, NEW r \in Req, UNCHANGED <<now, outcome, got, expiry>>,
         NEW to \in {"serve", "mint", "release", "done"}, pc' = [pc EXCEPT ![r] = to],
         NEW d \in Decisions, decision' = [decision EXCEPT ![r] = d],
         to \notin {"release", "done"} => d = "none", Kept(r) => Sound(r, d)
  PROVE  FateInv'
  <1>1. /\ outcome' = [outcome EXCEPT ![r] = outcome[r]]
        /\ got' = [got EXCEPT ![r] = got[r]]
        /\ expiry' = [expiry EXCEPT ![r] = expiry[r]]
    BY Functions DEF EntitlementInv
  <1>2. /\ pc'[r] = to /\ decision'[r] = d /\ GrantFor(r)' = GrantFor(r)
        /\ Kept(r)' = Kept(r) /\ Sound(r, d)' = Sound(r, d)
    BY DEF EntitlementInv, FateInv, GrantFor, Kept, Sound
  <1>3. Fate(r)
    BY DEF FateInv
  <1>4. /\ to # "commit"
        /\ Sound(r, decision[r])' <=> Sound(r, d)
    BY <1>2 DEF Sound
  <1>5. Fate(r)'
    BY <1>2, <1>3, <1>4 DEF Fate
  <1> QED BY <1>1, <1>5, FateMoves

\* A response decides, and ends or releases.
LEMMA FateResponds ==
  ASSUME NEW r, NEW d, Respond(r, d)
  PROVE  \E to \in {"release", "done"} :
           pc' = [pc EXCEPT ![r] = to] /\ decision' = [decision EXCEPT ![r] = d]
  BY DEF Respond, Go, Decide

\* Up to Commit nothing has been asked of the file.
LEMMA FateEarly ==
  ASSUME EntitlementInv, FateInv, LeaseOutlivesPath, NEW r \in Req,
         pc[r] \in {"limit", "verify", "settle"} \/ stage[r] \in {"idle", "begin"}
  PROVE  outcome[r] = "none"
  BY DEF LeaseOutlivesPath, Store!LiveLease, EntitlementInv, Grants!StoreInv,
     Grants!NothingBeforeBegin

LEMMA FateClaim ==
  ASSUME EntitlementInv, FateInv, LeaseOutlivesPath, NEW r \in Req, Claim(r)
  PROVE  FateInv'
  <1>1. /\ UNCHANGED <<now, outcome, expiry>> /\ stage[r] = "begin" /\ pc[r] = "begin"
    BY DEF Claim, Store!BeginTx, Store!BeginFault
  <1>2. \E g : got' = [got EXCEPT ![r] = g]
    <2>1. got' = got \/ got' = [got EXCEPT ![r] = ledger[Pays[r]].grant]
      BY DEF Claim, Store!BeginTx, Store!BeginFault
    <2> QED BY <2>1, Functions
  <1>3. verdict'[r] \in Grants!BeginVerdicts \ {"none"}
    <2>1. CASE Grants!BeginTx(r)
      BY <2>1, Functions DEF Grants!BeginTx, Grants!BeginResult, Grants!BeginVerdicts
    <2>2. CASE Grants!BeginFault(r)
      BY <2>2, Functions DEF Grants!BeginFault, Grants!BeginVerdicts
    <2> QED BY <2>1, <2>2, SameSteps DEF Claim
  <1>4. decision[r] = "none" /\ decision = [decision EXCEPT ![r] = "none"]
    BY <1>1 DEF FateInv, Fate
  <1>5. PICK to \in {"limit", "serve", "done"},
             d \in {"stateUnavailable", "replay", "inflight", "none"} :
          /\ pc' = [pc EXCEPT ![r] = to] /\ decision' = [decision EXCEPT ![r] = d]
          /\ to # "done" => d = "none"
    BY <1>3, <1>4 DEF Claim, Recover, Go, Decide, Grants!BeginVerdicts
  <1>6. to \in Stages /\ d \in Decisions /\ expiry' = [expiry EXCEPT ![r] = expiry[r]]
    BY <1>1 DEF Stages, Decisions, EntitlementInv
  <1>7. outcome[r] = "none"
    BY <1>1, FateEarly
  <1> QED BY <1>1, <1>2, <1>5, <1>6, <1>7, FateBefore

\* The settle answer: only a valid one goes to Commit, with an expiry.
LEMMA FateSettle ==
  ASSUME EntitlementInv, FateInv, LeaseOutlivesPath, NEW r \in Req, SettleAnswer(r)
  PROVE  FateInv'
  <1> DEFINE v == SettleVerdict(reply[r])
  <1>1. /\ UNCHANGED store /\ pc[r] = "settle" /\ outcome[r] = "none"
        /\ v = "valid" => /\ Go(r, "commit") /\ UNCHANGED decision
                          /\ expiry' = [expiry EXCEPT ![r] = now + PaidTTL]
        /\ v = "invalid" => Respond(r, "rejected") /\ UNCHANGED expiry
        /\ v = "pending" => Respond(r, "pending") /\ UNCHANGED expiry
        /\ v = "ambiguous" => Respond(r, "ambiguous") /\ UNCHANGED expiry
    BY FateEarly DEF SettleAnswer
  <1>2. v \in {"valid", "invalid", "pending", "ambiguous"}
    BY DEF SettleVerdict
  <1>3. /\ UNCHANGED <<now, outcome>> /\ got' = [got EXCEPT ![r] = got[r]]
        /\ decision = [decision EXCEPT ![r] = "none"]
    BY <1>1, Functions DEF store, FateInv, Fate
  <1> HIDE DEF v
  <1>4. CASE v = "valid"
    <2>1. /\ pc' = [pc EXCEPT ![r] = "commit"] /\ decision' = [decision EXCEPT ![r] = "none"]
          /\ expiry' = [expiry EXCEPT ![r] = now + PaidTTL] /\ now + PaidTTL > 0
      BY <1>1, <1>3, <1>4, ClockTyped, DoorAssumption DEF Go
    <2> QED BY <1>1, <1>3, <2>1, FateBefore DEF Stages, Decisions
  <1>5. CASE v # "valid"
    <2>1. \E d \in {"rejected", "pending", "ambiguous"} : Respond(r, d) /\ UNCHANGED expiry
      BY <1>1, <1>2, <1>5, Zenon
    <2>2. PICK to \in {"release", "done"}, d \in {"rejected", "pending", "ambiguous"} :
            /\ pc' = [pc EXCEPT ![r] = to] /\ decision' = [decision EXCEPT ![r] = d]
            /\ UNCHANGED expiry
      BY <2>1, FateResponds
    <2>3. /\ to \in Stages /\ to # "commit" /\ d \in Decisions
          /\ expiry' = [expiry EXCEPT ![r] = expiry[r]]
      BY <2>2 DEF Stages, Decisions, EntitlementInv
    <2> QED BY <1>1, <1>3, <2>2, <2>3, FateBefore
  <1> QED BY <1>4, <1>5

\* The other steps before Commit.
LEMMA FateWaits ==
  ASSUME EntitlementInv, FateInv, LeaseOutlivesPath, NEW r \in Req,
         Present(r) \/ Admit(r) \/ VerifyAnswer(r) \/ SettleFails(r)
  PROVE  FateInv'
  <1>1. UNCHANGED <<now, outcome, got, expiry>> /\ outcome[r] = "none"
    <2>1. UNCHANGED <<now, outcome, got, expiry>>
      BY DEF Present, Admit, VerifyAnswer, SettleFails, store, Store!BeginCall
    <2>2. pc[r] \in {"limit", "verify", "settle"} \/ stage[r] \in {"idle", "begin"}
      BY DEF Present, Admit, VerifyAnswer, SettleFails, Store!BeginCall
    <2> QED BY <2>1, <2>2, FateEarly
  <1>2. decision = [decision EXCEPT ![r] = "none"]
    <2>1. pc[r] \in {"new", "limit", "verify", "settle"}
      BY DEF Present, Admit, VerifyAnswer, SettleFails
    <2> QED BY <2>1 DEF FateInv, Fate
  <1>3. \/ \E to \in {"begin", "verify", "settle"} : Go(r, to) /\ UNCHANGED decision
        \/ \E d \in {"rateLimited", "infra", "rejected", "ambiguous"} : Respond(r, d)
    BY DEF Present, Admit, VerifyAnswer, SettleFails
  <1>4. PICK to \in {"begin", "verify", "settle", "release", "done"},
             d \in {"rateLimited", "infra", "rejected", "ambiguous", "none"} :
          /\ pc' = [pc EXCEPT ![r] = to] /\ decision' = [decision EXCEPT ![r] = d]
          /\ to \notin {"release", "done"} => d = "none"
    BY <1>2, <1>3, FateResponds DEF Go
  <1>5. /\ to \in Stages /\ to # "commit" /\ d \in Decisions
        /\ got' = [got EXCEPT ![r] = got[r]] /\ expiry' = [expiry EXCEPT ![r] = expiry[r]]
    BY <1>1, Functions DEF Stages, Decisions, EntitlementInv
  <1> QED BY <1>1, <1>4, <1>5, FateBefore

\* After Commit: what is kept is served, and refused only when its time is over.
LEMMA FateServes ==
  ASSUME EntitlementInv, FateInv, NEW r \in Req, Settled(r) \/ Serve(r) \/ Mint(r)
  PROVE  FateInv'
  <1>1. /\ UNCHANGED <<now, outcome, got, expiry>> /\ pc[r] \in {"grant", "serve", "mint"}
        /\ decision[r] = "none" /\ decision = [decision EXCEPT ![r] = "none"]
    BY DEF Settled, Serve, Mint, store, FateInv, Fate
  <1>2. Kept(r) => /\ outcome[r] = "created" /\ got[r].exp = expiry[r]
                   /\ PlaceOf(got[r]) = Place(r) /\ AudienceOf[r] # NoAudience
    <2>1. GrantFor(r).exp = expiry[r] /\ PlaceOf(GrantFor(r)) = Place(r)
      BY DEF GrantFor, PlaceOf, Place
    <2> QED BY <2>1 DEF FateInv, Fate, Kept
  <1>3. now \in Nat /\ expiry[r] \in Nat
    BY ClockTyped
  <1>4. \/ \E to \in {"serve", "mint"} : Go(r, to) /\ UNCHANGED decision
        \/ \E d \in {"grantFailed", "grantConflict", "replay", "passPaid"} :
             Respond(r, d) /\ (Kept(r) => Sound(r, d))
    <2>1. CASE Settled(r)
      BY <1>2, <2>1 DEF Settled
    <2>2. CASE Serve(r)
      BY <1>2, <1>3, <2>2 DEF Serve, Sound
    <2>3. CASE Mint(r)
      BY <1>2, <1>3, <2>3 DEF Mint, Sound
    <2> QED BY <2>1, <2>2, <2>3
  <1>5. PICK to \in {"serve", "mint", "release", "done"},
             d \in {"grantFailed", "grantConflict", "replay", "passPaid", "none"} :
          /\ pc' = [pc EXCEPT ![r] = to] /\ decision' = [decision EXCEPT ![r] = d]
          /\ to \notin {"release", "done"} => d = "none"
          /\ Kept(r) => Sound(r, d)
    BY <1>1, <1>4, FateResponds DEF Go, Sound
  <1>6. d \in Decisions
    BY DEF Decisions
  <1> QED BY <1>1, <1>5, <1>6, FateAfter

\* The deferred Release.
LEMMA FateReturns ==
  ASSUME EntitlementInv, FateInv, NEW r \in Req, Return(r) PROVE FateInv'
  <1>1. /\ UNCHANGED <<now, outcome, got, expiry, decision>> /\ pc' = [pc EXCEPT ![r] = "done"]
    BY DEF Return, Go, Store!ReleaseTx, Store!ReleaseFault
  <1>2. /\ decision' = [decision EXCEPT ![r] = decision[r]] /\ decision[r] \in Decisions
        /\ Kept(r) => Sound(r, decision[r])
    BY <1>1 DEF FateInv, Fate
  <1> QED BY <1>1, <1>2, FateAfter

\* Every step keeps it.
LEMMA FateNext == EntitlementInv /\ FateInv /\ LeaseOutlivesPath /\ [Next]_vars => FateInv'
  <1> SUFFICES ASSUME EntitlementInv, FateInv, LeaseOutlivesPath, [Next]_vars PROVE FateInv'
    OBVIOUS
  <1>1. ASSUME UNCHANGED <<pc, outcome, got, decision, expiry>>, now' = now \/ now' = now + 1
        PROVE  FateInv'
    BY <1>1, FateKeeps DEF FateInv
  <1>2. ASSUME NEW r \in Req, Facilitator(r)
        PROVE  UNCHANGED <<pc, outcome, got, decision, expiry, now>>
    BY <1>2 DEF Facilitator, FacilitatorMoves, FacilitatorReplays, FacilitatorRefuses, store, door
  <1>3. ASSUME NEW p \in Proc, Crash(p) PROVE FateInv'
    <2> DEFINE dead == {r \in Req : ProcOf[r] = p /\ pc[r] \notin {"new", "done"}}
    <2>1. /\ pc' = [r \in Req |-> IF r \in dead THEN "done" ELSE pc[r]]
          /\ UNCHANGED <<outcome, got, decision, expiry, now>>
      BY <1>3 DEF Crash, Store!Crash
    <2> HIDE DEF dead
    <2>2. \A r \in Req : pc'[r] = "done" \/ pc'[r] = pc[r]
      BY <2>1
    <2>3. ASSUME NEW r \in Req PROVE Fate(r)'
      <3>1. GrantFor(r)' = GrantFor(r)
        BY <2>1 DEF GrantFor
      <3> QED BY <2>1, <2>2, <3>1 DEF FateInv, Fate, Kept, Sound
    <2> QED BY <2>1, <2>3 DEF FateInv
  <1>4. ASSUME (\E a \in Auth : ChainConfirms(a)) \/ Tick \/ UNCHANGED vars
        PROVE  UNCHANGED <<pc, outcome, got, decision, expiry>> /\ (now' = now \/ now' = now + 1)
    BY <1>4 DEF ChainConfirms, Tick, Store!Tick, vars, store, door
  <1>5. ASSUME NEW r \in Req, Handler(r) PROVE FateInv'
    BY <1>5, FateCommit, FateClaim, FateSettle, FateWaits, FateServes, FateReturns
       DEF Handler, Working
  <1> QED BY <1>1, <1>2, <1>3, <1>4, <1>5 DEF Next

\* A payment that settled for a named authority has its grant in the file as it was
\* asked for, unless the file itself failed: Commit finds the reservation its own,
\* whatever the others do; and its pass is refused only when its time was over.
THEOREM SettlementsAreKept ==
  ASSUME "pause" \notin Faults PROVE Spec => []NoLostSettlement
  <1>1. Init => FateInv
    BY DEF Init, Store!Init, FateInv, Fate, Kept, Decisions
  <1>2. EntitlementInv /\ FateInv => NoLostSettlement
    <2> SUFFICES ASSUME EntitlementInv, FateInv, NEW r \in Req, Kept(r)
                 PROVE  ledger[Pays[r]] = Store!Granted(GrantFor(r)) /\ Sound(r, decision[r])
      BY DEF NoLostSettlement, Kept, Sound
    <2>1. got[r] = GrantFor(r) /\ Sound(r, decision[r])
      BY DEF FateInv, Fate
    <2>2. ledger[Pays[r]] = Grants!Granted(got[r])
      BY <2>1, GrantIsATerm DEF EntitlementInv, Grants!StoreInv, Grants!Converged
    <2> QED BY <2>1, <2>2, SameOperators
  <1> QED BY <1>1, <1>2, FateNext, Entitlements, LeaseOutlives, PTL DEF Spec

-----------------------------------------------------------------------------
(* What the client is told is so, pauses or not.                             *)

\* A payment is refused as used only when it bought another place, or a time that is
\* over; as a conflict, only when it bought another place; as in progress, only
\* when another presentation of it has begun; and a pass announced is one given.
Told(r, d, rec, p) ==
  /\ d = "replay" => /\ rec.kind = "granted"
                     /\ PlaceOf(rec.grant) # Place(r) \/ rec.grant.exp <= now
  /\ d = "grantConflict" => rec.kind = "granted" /\ PlaceOf(rec.grant) # Place(r)
  /\ d = "inflight" => \E q \in Req \ {r} : Pays[q] = Pays[r] /\ stage[q] \in {"held", "done"}
  /\ d = "passPaid" => p # 0
ToldTruly == \A r \in Req : Told(r, decision[r], ledger[Pays[r]], pass[r])

Deciding == decision \in [Req -> Decisions]
Retorts == {"replay", "grantConflict", "inflight", "passPaid"}

\* A step of the door, for the file and the clock.
LEMMA FileGoesOn ==
  ASSUME EntitlementInv, [Next]_vars
  PROVE  /\ \A a \in Auth : ledger[a].kind = "granted" => ledger'[a] = ledger[a]
         /\ \A q \in Req : stage[q] \in {"held", "done"} => stage'[q] \in {"held", "done"}
         /\ now \in Nat /\ now' \in Nat /\ now <= now'
  <1>1. Grants!StoreInv /\ [Grants!Next]_(Grants!storeVars)
    BY StoreMoves DEF EntitlementInv
  <1>2. now \in Nat
    BY <1>1, DoorAssumption DEF Grants!StoreInv, Grants!TypeOK
  <1>3. now' = now \/ now' = now + 1
    <2>1. ASSUME NEW r \in Req, Grants!StoreStep(r) PROVE now' = now
      BY <2>1 DEF Grants!StoreStep, Grants!BeginCall, Grants!BeginTx, Grants!BeginFault,
         Grants!CommitTx, Grants!CommitFault, Grants!ReleaseTx, Grants!ReleaseFault
    <2> QED BY <1>1, <2>1 DEF Grants!Next, Grants!Crash, Grants!Tick, Grants!storeVars
  <1>4. \A a \in Auth : ledger[a].kind = "granted" => ledger'[a] = ledger[a]
    BY <1>1, StoreConstants, Grants!GrantStays
  <1>5. \A q \in Req : stage[q] \in {"held", "done"} => stage'[q] \in {"held", "done"}
    BY <1>1, StoreConstants, Grants!AnsweredStays
  <1> QED BY <1>2, <1>3, <1>4, <1>5

\* What was so stays so.
LEMMA ToldStays ==
  ASSUME EntitlementInv, [Next]_vars, NEW r \in Req,
         Told(r, decision[r], ledger[Pays[r]], pass[r]),
         decision'[r] = decision[r], pass'[r] = pass[r]
  PROVE  Told(r, decision[r], ledger[Pays[r]], pass[r])'
  <1> DEFINE rec == ledger[Pays[r]]
  <1>1. Pays[r] \in Auth
    BY DoorAssumption
  <1>2. rec.kind = "granted" => ledger'[Pays[r]] = rec /\ rec.grant.exp \in Nat
    <2>1. rec.kind = "granted" => ledger'[Pays[r]] = rec
      BY <1>1, FileGoesOn
    <2>2. rec.kind = "granted" => rec.grant \in Grants!GrantTerms
      BY <1>1, Kinds
    <2> QED BY <2>1, <2>2 DEF Grants!GrantTerms
  <1>3. \A e \in Nat : e <= now => e <= now'
    BY FileGoesOn
  <1>4. \A q \in Req : stage[q] \in {"held", "done"} => stage'[q] \in {"held", "done"}
    BY FileGoesOn
  <1> HIDE DEF rec
  <1>5. decision[r] = "replay" =>
          /\ ledger'[Pays[r]].kind = "granted"
          /\ \/ PlaceOf(ledger'[Pays[r]].grant) # Place(r)
             \/ ledger'[Pays[r]].grant.exp <= now'
    BY <1>2, <1>3 DEF Told, rec
  <1>6. decision[r] = "grantConflict" =>
          ledger'[Pays[r]].kind = "granted" /\ PlaceOf(ledger'[Pays[r]].grant) # Place(r)
    BY <1>2 DEF Told, rec
  <1>7. decision[r] = "inflight" =>
          \E q \in Req \ {r} : Pays[q] = Pays[r] /\ stage'[q] \in {"held", "done"}
    BY <1>4 DEF Told
  <1>8. decision[r] = "passPaid" => pass[r] # 0
    BY DEF Told
  <1> QED BY <1>5, <1>6, <1>7, <1>8 DEF Told, PlaceOf, Place

\* Begin's refusals are true of the record it read.
LEMMA ClaimTells ==
  ASSUME EntitlementInv, Deciding, [Next]_vars, NEW r \in Req, Claim(r),
         Told(r, decision[r], ledger[Pays[r]], pass[r])
  PROVE  Told(r, decision[r], ledger[Pays[r]], pass[r])'
  <1> DEFINE rec == ledger[Pays[r]]
             ans == Grants!BeginResult(rec, asked[r])
  <1>1. /\ pass' = pass /\ Pays[r] \in Auth /\ now' = now
        /\ Grants!BeginTx(r) \/ Grants!BeginFault(r)
    BY SameSteps, DoorAssumption DEF Claim, Grants!BeginTx, Grants!BeginFault
  <1>2. verdict'[r] = "error" \/ (verdict'[r] = ans /\ Grants!BeginTx(r))
    BY <1>1, Functions DEF Grants!BeginTx, Grants!BeginFault
  <1>3. asked[r] <= now /\ asked[r] \in Nat /\ now \in Nat
    BY FileGoesOn DEF EntitlementInv, Grants!StoreInv, Grants!ClockReadBefore, Grants!TypeOK
  <1>4. rec.kind = "granted" => rec.grant \in Grants!GrantTerms /\ rec.grant.exp \in Nat
    BY <1>1, Kinds DEF Grants!GrantTerms
  <1>5. CASE verdict'[r] = "recoverable"
    <2>1. rec.kind = "granted" /\ got' = [got EXCEPT ![r] = rec.grant]
      BY <1>2, <1>5 DEF Grants!BeginTx, Grants!BeginResult
    <2>2. got'[r] = rec.grant
      BY <2>1, Functions
    <2>3. ledger'[Pays[r]] = rec
      BY <1>1, <2>1, FileGoesOn
    <2>4. CASE PlaceOf(got'[r]) # Place(r)
      <3>1. decision'[r] = "replay"
        BY <1>5, <2>4 DEF Claim, Recover, Decide, Deciding
      <3> QED BY <2>1, <2>2, <2>3, <2>4, <3>1 DEF Told, PlaceOf, Place
    <2>5. CASE PlaceOf(got'[r]) = Place(r)
      <3>1. decision' = decision
        BY <1>5, <2>5 DEF Claim, Recover
      <3> QED BY <1>1, <3>1, ToldStays
    <2> QED BY <2>4, <2>5
  <1>6. CASE verdict'[r] = "spent"
    <2>1. rec.kind = "granted" /\ ~ (asked[r] < rec.grant.exp)
      BY <1>2, <1>6 DEF Grants!BeginResult
    <2>2. ledger'[Pays[r]] = rec
      BY <1>1, <2>1, FileGoesOn
    <2>3. decision'[r] = "replay"
      BY <1>6 DEF Claim, Decide, Deciding
    <2>4. rec.grant.exp <= now'
      BY <1>1, <1>3, <1>4, <2>1
    <2> QED BY <2>1, <2>2, <2>3, <2>4 DEF Told, PlaceOf, Place
  <1>7. CASE verdict'[r] = "inflight"
    <2>1. rec.kind = "reserved" /\ stage[r] = "begin"
      BY <1>2, <1>7, Functions DEF Grants!BeginResult, Grants!BeginTx
    <2>2. PICK q \in Req : Pays[q] = Pays[r] /\ stage[q] \in {"held", "done"}
      <3>1. rec.lease \in Req
        BY <1>1, <2>1, Functions, Grants!RecordCases, StoreConstants
      <3> QED BY <1>1, <2>1, <3>1 DEF EntitlementInv, Grants!StoreInv, Grants!ReservationDated
    <2>3. q # r /\ stage'[q] \in {"held", "done"}
      BY <2>1, <2>2, FileGoesOn
    <2>4. decision'[r] = "inflight"
      BY <1>7 DEF Claim, Decide, Deciding
    <2> QED BY <2>2, <2>3, <2>4 DEF Told
  <1>8. CASE verdict'[r] = "new"
    <2>1. decision' = decision
      BY <1>8 DEF Claim
    <2> QED BY <1>1, <2>1, ToldStays
  <1>9. CASE verdict'[r] = "error"
    <2>1. decision'[r] = "stateUnavailable"
      BY <1>9 DEF Claim, Decide, Deciding
    <2> QED BY <2>1 DEF Told
  <1>10. verdict'[r] \in {"recoverable", "spent", "inflight", "new", "error"}
    BY <1>2 DEF Grants!BeginResult
  <1> QED BY <1>5, <1>6, <1>7, <1>8, <1>9, <1>10

\* After Commit, and at the pass: the grant in hand is the one in the file.
LEMMA HandTells ==
  ASSUME EntitlementInv, Deciding, [Next]_vars, NEW r \in Req, Settled(r) \/ Serve(r) \/ Mint(r),
         Told(r, decision[r], ledger[Pays[r]], pass[r])
  PROVE  Told(r, decision[r], ledger[Pays[r]], pass[r])'
  <1>1. /\ UNCHANGED store /\ ledger' = ledger /\ now' = now /\ got' = got
        /\ pass \in [Req -> Nat]
    BY DEF Settled, Serve, Mint, store, EntitlementInv
  <1>2. got[r] # NoGrant => /\ ledger[Pays[r]].kind = "granted"
                            /\ ledger[Pays[r]].grant = got[r]
                            /\ got[r].exp \in Nat /\ now \in Nat
    <2>1. got[r] # NoGrant => ledger[Pays[r]] = Grants!Granted(got[r])
      BY DEF EntitlementInv, Grants!StoreInv, Grants!Converged
    <2>2. \A g : Grants!Granted(g).kind = "granted" /\ Grants!Granted(g).grant = g
      BY DEF Grants!Granted
    <2>3. got[r] # NoGrant => got[r].exp \in Nat
      BY Functions DEF Grants!GrantTerms
    <2> QED BY <2>1, <2>2, <2>3, FileGoesOn
  <1>3. CASE Settled(r)
    <2>1. pass' = pass /\ pc[r] = "grant"
      BY <1>3 DEF Settled
    <2>2. CASE outcome[r] \in {"failed", "fault"}
      <3>1. decision'[r] = "grantFailed"
        BY <1>3, <2>2 DEF Settled, Respond, Decide, Deciding
      <3> QED BY <3>1 DEF Told
    <2>3. CASE outcome[r] \notin {"failed", "fault"} /\ PlaceOf(got[r]) # Place(r)
      <3>1. decision'[r] = "grantConflict" /\ got[r] # NoGrant
        BY <1>3, <2>1, <2>3 DEF Settled, Respond, Decide, Deciding, EntitlementInv, Standing
      <3> QED BY <1>1, <1>2, <2>3, <3>1 DEF Told, PlaceOf, Place
    <2>4. CASE outcome[r] \notin {"failed", "fault"} /\ PlaceOf(got[r]) = Place(r)
      <3>1. decision' = decision
        BY <1>3, <2>4 DEF Settled
      <3> QED BY <2>1, <3>1, ToldStays
    <2> QED BY <2>2, <2>3, <2>4
  <1>4. CASE Serve(r)
    <2>1. got[r] # NoGrant /\ pass' = pass
      BY <1>4 DEF Serve, EntitlementInv, Standing
    <2>2. CASE now < got[r].exp
      <3>1. decision' = decision
        BY <1>4, <2>2 DEF Serve
      <3> QED BY <2>1, <3>1, ToldStays
    <2>3. CASE ~ (now < got[r].exp)
      <3>1. decision'[r] = "replay"
        BY <1>4, <2>3 DEF Serve, Respond, Decide, Deciding
      <3>2. got[r].exp <= now
        BY <1>2, <2>1, <2>3
      <3> QED BY <1>1, <1>2, <2>1, <3>1, <3>2 DEF Told, PlaceOf, Place
    <2> QED BY <2>2, <2>3
  <1>5. CASE Mint(r)
    <2>1. got[r] # NoGrant
      BY <1>5 DEF Mint, EntitlementInv, Standing
    <2>2. CASE now < got[r].exp /\ AudienceOf[r] # NoAudience
      <3>1. decision'[r] = "passPaid" /\ pass' = [pass EXCEPT ![r] = got[r].exp]
        BY <1>5, <2>2 DEF Mint, Respond, Decide, Deciding
      <3>2. pass'[r] = got[r].exp /\ got[r].exp # 0
        BY <1>1, <1>2, <2>1, <2>2, <3>1
      <3> QED BY <3>1, <3>2 DEF Told
    <2>3. CASE ~ (now < got[r].exp /\ AudienceOf[r] # NoAudience)
      <3>1. decision'[r] = "grantFailed"
        BY <1>5, <2>3 DEF Mint, Respond, Decide, Deciding
      <3> QED BY <3>1 DEF Told
    <2> QED BY <2>2, <2>3
  <1> QED BY <1>3, <1>4, <1>5

\* Every other step says nothing of the kind, or nothing at all.
LEMMA OthersTellNothing ==
  ASSUME EntitlementInv, Deciding, [Next]_vars, NEW r \in Req, Handler(r),
         ~ Claim(r), ~ Settled(r), ~ Serve(r), ~ Mint(r)
  PROVE  /\ pass' = pass
         /\ decision' = decision \/ \E d \in Decisions \ Retorts : Decide(r, d)
  <1>1. SettleVerdict(reply[r]) \in {"valid", "invalid", "pending", "ambiguous"}
    BY DEF SettleVerdict
  <1>2. pass' = pass
    BY DEF Handler, Working, Present, Admit, VerifyAnswer, SettleAnswer, SettleFails, Commit, Return
  <1>3. CASE SettleAnswer(r)
    BY <1>1, <1>3 DEF SettleAnswer, Respond, Decisions, Retorts
  <1>4. CASE ~ SettleAnswer(r)
    BY <1>4 DEF Handler, Working, Present, Admit, VerifyAnswer, SettleFails, Commit, Return,
       Respond, Decisions, Retorts
  <1> QED BY <1>2, <1>3, <1>4

\* Every step keeps it.
LEMMA ToldNext ==
  EntitlementInv /\ Deciding /\ ToldTruly /\ [Next]_vars => Deciding' /\ ToldTruly'
  <1> SUFFICES ASSUME EntitlementInv, Deciding, ToldTruly, [Next]_vars
               PROVE  Deciding' /\ ToldTruly'
    OBVIOUS
  <1>0. ASSUME UNCHANGED <<decision, pass>> PROVE Deciding' /\ ToldTruly'
    BY <1>0, ToldStays DEF Deciding, ToldTruly
  <1>1. ASSUME NEW r \in Req, Handler(r) PROVE Deciding' /\ ToldTruly'
    <2>1. /\ decision' = decision \/ \E d \in Decisions : Decide(r, d)
          /\ pass' = pass \/ \E e : pass' = [pass EXCEPT ![r] = e]
      <3>1. CASE Claim(r)
        <4>1. verdict'[r] \in Grants!BeginVerdicts \ {"none"}
          <5>1. CASE Grants!BeginTx(r)
            BY <5>1, Functions DEF Grants!BeginTx, Grants!BeginResult, Grants!BeginVerdicts
          <5>2. CASE Grants!BeginFault(r)
            BY <5>2, Functions DEF Grants!BeginFault, Grants!BeginVerdicts
          <5> QED BY <3>1, <5>1, <5>2, SameSteps DEF Claim
        <4> QED BY <3>1, <4>1 DEF Claim, Recover, Decisions, Grants!BeginVerdicts
      <3>2. CASE Settled(r) \/ Serve(r) \/ Mint(r)
        BY <3>2 DEF Settled, Serve, Mint, Respond, Decisions
      <3> QED BY <1>1, <3>1, <3>2, OthersTellNothing
    <2>2. Deciding'
      BY <2>1 DEF Deciding, Decide
    <2>3. ASSUME NEW q \in Req, q # r PROVE Told(q, decision[q], ledger[Pays[q]], pass[q])'
      <3>1. decision'[q] = decision[q] /\ pass'[q] = pass[q]
        BY <2>1, <2>3 DEF Deciding, Decide, EntitlementInv
      <3> QED BY <3>1, ToldStays DEF ToldTruly
    <2>4. Told(r, decision[r], ledger[Pays[r]], pass[r])'
      <3>1. CASE Claim(r)
        BY <3>1, ClaimTells DEF ToldTruly
      <3>2. CASE Settled(r) \/ Serve(r) \/ Mint(r)
        BY <3>2, HandTells DEF ToldTruly
      <3>3. CASE ~ Claim(r) /\ ~ Settled(r) /\ ~ Serve(r) /\ ~ Mint(r) /\ decision' # decision
        <4>1. decision'[r] \notin Retorts
          BY <1>1, <3>3, OthersTellNothing DEF Deciding, Decide
        <4> QED BY <4>1 DEF Told, Retorts
      <3>4. CASE ~ Claim(r) /\ ~ Settled(r) /\ ~ Serve(r) /\ ~ Mint(r) /\ decision' = decision
        BY <1>1, <3>4, OthersTellNothing, ToldStays DEF ToldTruly
      <3> QED BY <3>1, <3>2, <3>3, <3>4
    <2> QED BY <2>2, <2>3, <2>4 DEF ToldTruly
  <1>2. ASSUME NEW r \in Req, Facilitator(r) PROVE UNCHANGED <<decision, pass>>
    BY <1>2 DEF Facilitator, FacilitatorMoves, FacilitatorReplays, FacilitatorRefuses, door
  <1>3. ASSUME \/ \E a \in Auth : ChainConfirms(a)
               \/ \E p \in Proc : Crash(p)
               \/ Tick \/ UNCHANGED vars
        PROVE  UNCHANGED <<decision, pass>>
    BY <1>3 DEF ChainConfirms, Crash, Tick, vars, door
  <1> QED BY <1>0, <1>1, <1>2, <1>3 DEF Next

\* Nobody is refused on a pretext (servePayment's answers, whatever pauses, crashes
\* and faults): "already used" is said only of a payment that bought a pass of
\* another place, or one that has run out; "in progress" only when another
\* presentation has begun on it; and a pass announced is a pass given.
THEOREM ClientsAreToldTruly == Spec => []ToldTruly
  <1>1. Init => Deciding /\ ToldTruly
    <2> SUFFICES ASSUME Init PROVE Deciding /\ ToldTruly
      OBVIOUS
    <2>1. Deciding /\ \A r \in Req : decision[r] = "none"
      BY DEF Init, Deciding, Decisions
    <2> QED BY <2>1 DEF ToldTruly, Told
  <1> QED BY <1>1, ToldNext, Entitlements, PTL DEF Spec

\* The door's file implements the ledger of entitlements: what an authorization
\* bought is bought once, never changes, and is what everybody is told.
THEOREM DoorImplementsLedger == Spec => Grants!ImplementsLedger
  BY DoorDrivesStore, StoreConstants, Grants!StoreImplementsLedger

-----------------------------------------------------------------------------
(* A handler is never stuck, and its steps are numbered: EveryoneDecided but  *)
(* for the fairness of the server and of the timeouts.                       *)

\* The store answers the call the handler stands before; what it passes on is there.
Ready(r) ==
  /\ InStep(r)
  /\ pc[r] = "release" => stage[r] = "held"
  /\ pc[r] = "grant" => outcome[r] \in {"failed", "fault"} \/ got[r] # NoGrant
  /\ pc[r] \in {"serve", "mint"} => got[r] # NoGrant
Keyed(r) == InStep(r) /\ (pc[r] = "release" => stage[r] = "held")
KeyedInv == \A r \in Req : Keyed(r)

\* How many steps a handler has left at most, by where it stands.
Left(stand) ==
  IF stand = "new" THEN 10 ELSE IF stand = "begin" THEN 9 ELSE IF stand = "limit" THEN 8
  ELSE IF stand = "verify" THEN 7 ELSE IF stand = "settle" THEN 6
  ELSE IF stand = "commit" THEN 5 ELSE IF stand = "grant" THEN 4
  ELSE IF stand = "serve" THEN 3 ELSE IF stand = "mint" THEN 2
  ELSE IF stand = "release" THEN 1 ELSE 0

\* A handler's own steps bring it nearer its end, and nothing sets it back.
MarchOn ==
  \A r \in Req : /\ Left(pc'[r]) <= Left(pc[r])
                 /\ Handler(r) => Left(pc'[r]) < Left(pc[r])

\* Begin answers something.
LEMMA BeginAnswers ==
  ASSUME EntitlementInv, NEW r \in Req, Claim(r)
  PROVE  verdict'[r] \in {"error", "recoverable", "spent", "inflight", "new"}
  <1>1. CASE Grants!BeginTx(r)
    BY <1>1, Functions DEF Grants!BeginTx, Grants!BeginResult
  <1>2. CASE Grants!BeginFault(r)
    BY <1>2, Functions DEF Grants!BeginFault
  <1> QED BY <1>1, <1>2, SameSteps DEF Claim

\* The number at each stage.
LEMMA LeftAt ==
  /\ Left("new") = 10 /\ Left("begin") = 9 /\ Left("limit") = 8 /\ Left("verify") = 7
  /\ Left("settle") = 6 /\ Left("commit") = 5 /\ Left("grant") = 4 /\ Left("serve") = 3
  /\ Left("mint") = 2 /\ Left("release") = 1 /\ Left("done") = 0
  BY DEF Left

\* Where a handler's step takes it.
LEMMA WhereTo ==
  ASSUME EntitlementInv, NEW r \in Req, Handler(r)
  PROVE  \E to \in Stages : pc' = [pc EXCEPT ![r] = to] /\ Left(to) < Left(pc[r])
  <1> USE DEF Go, Respond
  <1>1. CASE Claim(r)
    <2>1. PICK to \in {"limit", "serve", "done"} : pc[r] = "begin" /\ pc' = [pc EXCEPT ![r] = to]
      BY <1>1, BeginAnswers DEF Claim, Recover
    <2>2. to \in Stages /\ Left(to) < Left(pc[r])
      BY <2>1, LeftAt DEF Stages
    <2> QED BY <2>1, <2>2
  <1>2. CASE SettleAnswer(r)
    <2>1. SettleVerdict(reply[r]) \in {"valid", "invalid", "pending", "ambiguous"}
      BY DEF SettleVerdict
    <2>2. PICK to \in {"commit", "release", "done"} : pc[r] = "settle" /\ pc' = [pc EXCEPT ![r] = to]
      BY <1>2, <2>1 DEF SettleAnswer
    <2>3. to \in Stages /\ Left(to) < Left(pc[r])
      BY <2>2, LeftAt DEF Stages
    <2> QED BY <2>2, <2>3
  <1>3. CASE Present(r)
    <2>1. pc[r] = "new" /\ pc' = [pc EXCEPT ![r] = "begin"]
      BY <1>3 DEF Present
    <2> QED BY <2>1, LeftAt DEF Stages
  <1>4. CASE Admit(r)
    <2>1. PICK to \in {"verify", "release", "done"} : pc[r] = "limit" /\ pc' = [pc EXCEPT ![r] = to]
      BY <1>4 DEF Admit
    <2>2. to \in Stages /\ Left(to) < Left(pc[r])
      BY <2>1, LeftAt DEF Stages
    <2> QED BY <2>1, <2>2
  <1>5. CASE VerifyAnswer(r)
    <2>1. PICK to \in {"settle", "release", "done"} : pc[r] = "verify" /\ pc' = [pc EXCEPT ![r] = to]
      BY <1>5 DEF VerifyAnswer
    <2>2. to \in Stages /\ Left(to) < Left(pc[r])
      BY <2>1, LeftAt DEF Stages
    <2> QED BY <2>1, <2>2
  <1>6. CASE SettleFails(r)
    <2>1. PICK to \in {"release", "done"} : pc[r] = "settle" /\ pc' = [pc EXCEPT ![r] = to]
      BY <1>6 DEF SettleFails
    <2>2. to \in Stages /\ Left(to) < Left(pc[r])
      BY <2>1, LeftAt DEF Stages
    <2> QED BY <2>1, <2>2
  <1>7. CASE Commit(r)
    <2>1. pc[r] = "commit" /\ pc' = [pc EXCEPT ![r] = "grant"]
      BY <1>7 DEF Commit
    <2> QED BY <2>1, LeftAt DEF Stages
  <1>8. CASE Settled(r)
    <2>1. PICK to \in {"serve", "release", "done"} : pc[r] = "grant" /\ pc' = [pc EXCEPT ![r] = to]
      BY <1>8 DEF Settled
    <2>2. to \in Stages /\ Left(to) < Left(pc[r])
      BY <2>1, LeftAt DEF Stages
    <2> QED BY <2>1, <2>2
  <1>9. CASE Serve(r)
    <2>1. PICK to \in {"mint", "release", "done"} : pc[r] = "serve" /\ pc' = [pc EXCEPT ![r] = to]
      BY <1>9 DEF Serve
    <2>2. to \in Stages /\ Left(to) < Left(pc[r])
      BY <2>1, LeftAt DEF Stages
    <2> QED BY <2>1, <2>2
  <1>10. CASE Return(r)
    <2>1. pc[r] = "release" /\ pc' = [pc EXCEPT ![r] = "done"]
      BY <1>10 DEF Return
    <2> QED BY <2>1, LeftAt DEF Stages
  <1>11. CASE Mint(r)
    <2>1. PICK to \in {"release", "done"} : pc[r] = "mint" /\ pc' = [pc EXCEPT ![r] = to]
      BY <1>11 DEF Mint
    <2>2. to \in Stages /\ Left(to) < Left(pc[r])
      BY <2>1, LeftAt DEF Stages
    <2> QED BY <2>1, <2>2
  <1> QED BY <1>1, <1>2, <1>3, <1>4, <1>5, <1>6, <1>7, <1>8, <1>9, <1>10, <1>11
      DEF Handler, Working

\* Nobody else's step moves a handler, but a crash, which ends it.
LEMMA Marching == EntitlementInv /\ [Next]_vars => [MarchOn]_vars
  <1> SUFFICES ASSUME EntitlementInv, Next PROVE MarchOn
    OBVIOUS
  <1>1. /\ \A to : Left(to) \in Nat
        /\ Left("done") = 0
    BY DEF Left
  <1>2. ASSUME NEW r \in Req, NEW to \in Stages, pc' = [pc EXCEPT ![r] = to],
               Left(to) < Left(pc[r]), NEW q \in Req
        PROVE  Left(pc'[q]) <= Left(pc[q])
    <2>1. pc'[q] = pc[q] \/ (q = r /\ pc'[q] = to)
      BY <1>2 DEF EntitlementInv
    <2> QED BY <1>1, <1>2, <2>1
  <1>3. ASSUME NEW r \in Req, Handler(r)
        PROVE  /\ Left(pc'[r]) < Left(pc[r])
               /\ \A q \in Req : Left(pc'[q]) <= Left(pc[q])
    <2>1. PICK to \in Stages : pc' = [pc EXCEPT ![r] = to] /\ Left(to) < Left(pc[r])
      BY <1>3, WhereTo
    <2>2. pc'[r] = to
      BY <2>1 DEF EntitlementInv
    <2> QED BY <1>2, <2>1, <2>2
  <1>4. ASSUME \/ \E r \in Req : Facilitator(r)
               \/ \E a \in Auth : ChainConfirms(a)
               \/ Tick
        PROVE  pc' = pc
    BY <1>4 DEF Facilitator, FacilitatorMoves, FacilitatorReplays, FacilitatorRefuses,
       ChainConfirms, Tick, door
  <1>5. ASSUME NEW p \in Proc, Crash(p), NEW q \in Req PROVE pc'[q] \in {"done", pc[q]}
    BY <1>5 DEF Crash
  <1>6. ASSUME NEW q \in Req PROVE Left(pc'[q]) <= Left(pc[q])
    <2>1. pc'[q] \in {"done", pc[q]} => Left(pc'[q]) <= Left(pc[q])
      BY <1>1
    <2> QED BY <1>3, <1>4, <1>5, <2>1 DEF Next
  <1> QED BY <1>3, <1>6 DEF MarchOn

\* What a presentation that takes no step keeps.
LEMMA KeyedStays ==
  ASSUME NEW q \in Req, Keyed(q), pc'[q] = pc[q], stage'[q] = stage[q], outcome'[q] = outcome[q]
  PROVE  Keyed(q)'
  BY DEF Keyed, InStep

\* Standings with the store that fit a stage other than the first.
Fitting(to, s, o) ==
  /\ to # "new" /\ (to = "begin" => s = "begin" /\ o = "none")
  /\ to \in {"limit", "verify", "settle", "commit"} => s = "held" /\ o = "none"
  /\ to = "release" => s = "held"

\* A handler's step moves its own stage, and its own standing with the store.
LEMMA KeyedMoves ==
  ASSUME EntitlementInv, KeyedInv, NEW r \in Req,
         NEW to, pc' = [pc EXCEPT ![r] = to],
         NEW s, stage' = [stage EXCEPT ![r] = s],
         NEW o, outcome' = [outcome EXCEPT ![r] = o],
         Fitting(to, s, o)
  PROVE  KeyedInv'
  <1>1. stage \in [Req -> {"idle", "begin", "held", "done"}]
    BY DEF EntitlementInv, Grants!StoreInv, Grants!TypeOK
  <1>2. pc'[r] = to /\ stage'[r] = s /\ outcome'[r] = o
    BY <1>1, Functions DEF EntitlementInv
  <1>3. Keyed(r)'
    BY <1>2 DEF Keyed, InStep, Fitting
  <1>4. ASSUME NEW q \in Req, q # r PROVE Keyed(q)'
    BY <1>1, <1>4, Functions, KeyedStays DEF EntitlementInv, KeyedInv
  <1> QED BY <1>3, <1>4 DEF KeyedInv

\* A step that leaves the store alone, and stays on the paid path or leaves it.
LEMMA KeyedOn ==
  ASSUME EntitlementInv, KeyedInv, NEW r \in Req, UNCHANGED store,
         NEW to \in Stages \ {"new", "begin"}, pc' = [pc EXCEPT ![r] = to],
         to \in {"limit", "verify", "settle", "commit"} => stage[r] = "held" /\ outcome[r] = "none",
         to = "release" => stage[r] = "held"
  PROVE  KeyedInv'
  <1>1. stage \in [Req -> {"idle", "begin", "held", "done"}]
    BY DEF EntitlementInv, Grants!StoreInv, Grants!TypeOK
  <1>2. /\ stage' = [stage EXCEPT ![r] = stage[r]]
        /\ outcome' = [outcome EXCEPT ![r] = outcome[r]]
    BY <1>1, Functions DEF store
  <1> QED BY <1>2, KeyedMoves DEF Fitting

\* A response: the Release that was deferred runs if there is a lease.
LEMMA KeyedRespond ==
  ASSUME EntitlementInv, KeyedInv, NEW r \in Req, UNCHANGED store, NEW d, Respond(r, d)
  PROVE  KeyedInv'
  <1>1. PICK to \in {"release", "done"} :
          pc' = [pc EXCEPT ![r] = to] /\ (to = "release" => stage[r] = "held")
    BY DEF Respond, Go
  <1> QED BY <1>1, KeyedOn DEF Stages

\* Begin leaves a lease to the presentation it lets through, and to no other.
LEMMA KeyedClaim ==
  ASSUME EntitlementInv, KeyedInv, NEW r \in Req, Claim(r) PROVE KeyedInv'
  <1>1. outcome[r] = "none" /\ outcome' = outcome
    BY DEF Claim, KeyedInv, Keyed, InStep, Store!BeginTx, Store!BeginFault
  <1>2. PICK s : stage' = [stage EXCEPT ![r] = s] /\ (verdict'[r] = "new" => s = "held")
    <2>1. CASE Grants!BeginTx(r)
      BY <2>1, Functions DEF Grants!BeginTx
    <2>2. CASE Grants!BeginFault(r)
      BY <2>2, Functions DEF Grants!BeginFault
    <2> QED BY <2>1, <2>2, SameSteps DEF Claim
  <1>3. PICK to \in {"limit", "serve", "done"} :
          pc' = [pc EXCEPT ![r] = to] /\ (to = "limit" => verdict'[r] = "new")
    BY BeginAnswers DEF Claim, Recover, Go
  <1>4. outcome' = [outcome EXCEPT ![r] = "none"]
    BY <1>1, Functions
  <1>5. Fitting(to, s, "none")
    BY <1>2, <1>3 DEF Fitting
  <1> QED BY <1>2, <1>3, <1>4, <1>5, KeyedMoves

\* Every step of a handler ...
LEMMA KeyedHandler ==
  ASSUME EntitlementInv, KeyedInv, NEW r \in Req, Handler(r) PROVE KeyedInv'
  <1>0. Keyed(r)
    BY DEF KeyedInv
  <1>1. CASE Present(r)
    <2>1. /\ pc' = [pc EXCEPT ![r] = "begin"] /\ stage' = [stage EXCEPT ![r] = "begin"]
          /\ outcome' = outcome /\ outcome[r] = "none"
      BY <1>0, <1>1 DEF Present, Go, Store!BeginCall, Keyed, InStep
    <2>2. outcome' = [outcome EXCEPT ![r] = "none"]
      BY <2>1, Functions
    <2>3. Fitting("begin", "begin", "none")
      BY DEF Fitting
    <2> QED BY <2>1, <2>2, <2>3, KeyedMoves
  <1>2. CASE Admit(r)
    <2>1. UNCHANGED store /\ pc[r] = "limit"
      BY <1>2 DEF Admit
    <2>2. (\E d : Respond(r, d)) \/ pc' = [pc EXCEPT ![r] = "verify"]
      BY <1>2 DEF Admit, Go
    <2> QED BY <1>0, <2>1, <2>2, KeyedRespond, KeyedOn DEF Keyed, InStep, Stages
  <1>3. CASE VerifyAnswer(r)
    <2>1. UNCHANGED store /\ pc[r] = "verify"
      BY <1>3 DEF VerifyAnswer
    <2>2. (\E d : Respond(r, d)) \/ pc' = [pc EXCEPT ![r] = "settle"]
      BY <1>3 DEF VerifyAnswer, Go
    <2> QED BY <1>0, <2>1, <2>2, KeyedRespond, KeyedOn DEF Keyed, InStep, Stages
  <1>4. CASE SettleAnswer(r)
    <2>1. SettleVerdict(reply[r]) \in {"valid", "invalid", "pending", "ambiguous"}
      BY DEF SettleVerdict
    <2>2. UNCHANGED store /\ pc[r] = "settle"
      BY <1>4 DEF SettleAnswer
    <2>3. (\E d : Respond(r, d)) \/ pc' = [pc EXCEPT ![r] = "commit"]
      BY <1>4, <2>1 DEF SettleAnswer, Go
    <2> QED BY <1>0, <2>2, <2>3, KeyedRespond, KeyedOn DEF Keyed, InStep, Stages
  <1>5. CASE SettleFails(r)
    BY <1>5, KeyedRespond DEF SettleFails
  <1>6. CASE Settled(r)
    <2>1. UNCHANGED store
      BY <1>6 DEF Settled
    <2>2. (\E d : Respond(r, d)) \/ pc' = [pc EXCEPT ![r] = "serve"]
      BY <1>6 DEF Settled, Go
    <2> QED BY <2>1, <2>2, KeyedRespond, KeyedOn DEF Stages
  <1>7. CASE Serve(r) \/ Mint(r)
    <2>1. UNCHANGED store
      BY <1>7 DEF Serve, Mint
    <2>2. (\E d : Respond(r, d)) \/ pc' = [pc EXCEPT ![r] = "mint"]
      BY <1>7 DEF Serve, Mint, Go
    <2> QED BY <2>1, <2>2, KeyedRespond, KeyedOn DEF Stages
  <1>8. CASE Commit(r)
    <2>1. pc' = [pc EXCEPT ![r] = "grant"] /\ stage' = stage
          /\ \E o : outcome' = [outcome EXCEPT ![r] = o]
      BY <1>8 DEF Commit, Go, Store!CommitTx, Store!CommitFault
    <2>2. stage' = [stage EXCEPT ![r] = stage[r]]
      BY <2>1 DEF EntitlementInv, Grants!StoreInv, Grants!TypeOK
    <2>3. \A s, o : Fitting("grant", s, o)
      BY DEF Fitting
    <2> QED BY <2>1, <2>2, <2>3, KeyedMoves
  <1>9. CASE Return(r)
    <2>1. pc' = [pc EXCEPT ![r] = "done"] /\ outcome' = outcome
          /\ \E s : stage' = [stage EXCEPT ![r] = s]
      BY <1>9 DEF Return, Go, Store!ReleaseTx, Store!ReleaseFault
    <2>2. outcome' = [outcome EXCEPT ![r] = outcome[r]]
      BY <2>1, Functions
    <2>3. \A s, o : Fitting("done", s, o)
      BY DEF Fitting
    <2> QED BY <2>1, <2>2, <2>3, KeyedMoves
  <1>10. CASE Claim(r)
    BY <1>10, KeyedClaim
  <1> QED BY <1>1, <1>2, <1>3, <1>4, <1>5, <1>6, <1>7, <1>8, <1>9, <1>10 DEF Handler, Working

\* ... and every other step keeps it.
LEMMA KeyedNext == EntitlementInv /\ KeyedInv /\ [Next]_vars => KeyedInv'
  <1> SUFFICES ASSUME EntitlementInv, KeyedInv, [Next]_vars PROVE KeyedInv'
    OBVIOUS
  <1>1. CASE UNCHANGED <<pc, stage, outcome>>
    BY <1>1, KeyedStays DEF KeyedInv
  <1>2. ASSUME NEW r \in Req, Facilitator(r) PROVE UNCHANGED <<pc, stage, outcome>>
    BY <1>2 DEF Facilitator, FacilitatorMoves, FacilitatorReplays, FacilitatorRefuses, store, door
  <1>3. ASSUME NEW p \in Proc, Crash(p) PROVE KeyedInv'
    <2> DEFINE dead == {r \in Req : ProcOf[r] = p /\ pc[r] \notin {"new", "done"}}
    <2>1. /\ pc' = [r \in Req |-> IF r \in dead THEN "done" ELSE pc[r]]
          /\ stage' = [r \in Req |-> IF r \in dead /\ stage[r] \in {"begin", "held"}
                                     THEN "done" ELSE stage[r]]
          /\ outcome' = outcome
      BY <1>3 DEF Crash, Store!Crash
    <2> HIDE DEF dead
    <2>2. ASSUME NEW r \in Req PROVE Keyed(r)'
      BY <2>1 DEF KeyedInv, Keyed, InStep
    <2> QED BY <2>2 DEF KeyedInv
  <1>4. ASSUME (\E a \in Auth : ChainConfirms(a)) \/ Tick \/ UNCHANGED vars
        PROVE  UNCHANGED <<pc, stage, outcome>>
    BY <1>4 DEF ChainConfirms, Tick, Store!Tick, vars, store, door
  <1> QED BY <1>1, <1>2, <1>3, <1>4, KeyedHandler DEF Next

\* What EveryoneDecided rests on besides fairness: wherever a handler stands, what
\* its next call needs is there (the deferred Release has a lease to release, what
\* is served is in hand); each of its steps brings it nearer its end, ten at most;
\* and no step of anybody else's, crash or pause sets it back.
THEOREM HandlersMarchOn == Spec => [](\A r \in Req : Ready(r)) /\ [][MarchOn]_vars
  <1>1. Init => KeyedInv
    BY DEF Init, Store!Init, KeyedInv, Keyed, InStep
  <1>2. EntitlementInv /\ KeyedInv => \A r \in Req : Ready(r)
    BY DEF EntitlementInv, KeyedInv, Keyed, Ready, Standing
  <1> QED BY <1>1, <1>2, KeyedNext, Marching, Entitlements, PTL DEF Spec
==============================================================================
