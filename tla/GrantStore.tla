------------------------------ MODULE GrantStore ------------------------------
(***************************************************************************)
(* internal/payment/store.go: the durable store that makes a payment       *)
(* authorization single-use.  A presentation calls Begin, which reserves   *)
(* the authorization under a random lease; the holder Commits a grant or   *)
(* lets the reservation go with Release.  The file is opened for one       *)
(* operation at a time, so every operation is one atomic step, taken by    *)
(* any number of goroutines in any number of processes; what is NOT atomic *)
(* is the clock, which Begin reads before it waits for the file lock.      *)
(*                                                                         *)
(* A lease is 128 random bits drawn by one presentation, and nothing but   *)
(* its equality is used: it is named here by the presentation itself.      *)
(***************************************************************************)
EXTENDS Integers

CONSTANTS
  Req,           \* presentations; each calls Begin at most once
  Auth,          \* payment authorizations (payment.ID)
  Scope, Audience, Tx,
  NoTx, NoGrant,
  NoAudience,    \* the audience of a request whose Host is empty
  Pays,          \* Pays[r]: the authorization presentation r carries
  PaymentLease,  \* paymentLease, 30 s in the code
  MaxTime,       \* bound: the clock stops here
  MaxExp,        \* bound: the latest expiry a grant can have
  Faults         \* which faults may happen: "store", "crash"

GrantTerms == [scope : Scope, audience : Audience \cup {NoAudience},
               tx : Tx \cup {NoTx}, exp : 0 .. MaxExp]

ASSUME StoreAssumption ==
  /\ Pays \in [Req -> Auth]
  /\ PaymentLease \in Nat \ {0}
  /\ MaxTime \in Nat
  /\ MaxExp \in Nat
  /\ NoTx \notin Tx
  /\ NoGrant \notin GrantTerms

VARIABLES
  now,      \* the wall clock
  ledger,   \* the bbolt bucket: authorization -> record
  stage,    \* where each presentation stands with the store
  asked,    \* the clock value its Begin read
  verdict,  \* what its Begin answered
  outcome,  \* what its Commit answered
  got       \* the grant the store handed it

storeVars == <<now, ledger, stage, asked, verdict, outcome, got>>

-----------------------------------------------------------------------------
(* Records.  A JSON value that does not decode, a grant with a lease left   *)
(* on it, an incomplete reservation or grant: all are the corrupt record.   *)

Absent  == [kind |-> "absent"]
Corrupt == [kind |-> "corrupt"]
Reserved(r, t) == [kind |-> "reserved", lease |-> r, until |-> t]
Granted(g) == [kind |-> "granted", grant |-> g]

\* validateGrant: no part may be missing.  A scope is a route's digest and a network
\* a rail's, which the configuration has made sure of; an audience is what the client
\* sent as its Host, which may be nothing.
Complete(g) == g.audience # NoAudience /\ g.tx # NoTx /\ g.exp > 0

Record == {Absent, Corrupt}
          \cup [kind : {"reserved"}, lease : Req, until : Nat]
          \cup [kind : {"granted"}, grant : {g \in GrantTerms : Complete(g)}]

BeginVerdicts  == {"none", "new", "inflight", "recoverable", "spent", "error"}
CommitOutcomes == {"none", "created", "existing", "failed", "fault"}

TypeOK ==
  /\ now \in 0 .. MaxTime
  /\ ledger \in [Auth -> Record]
  /\ stage \in [Req -> {"idle", "begin", "held", "done"}]
  /\ asked \in [Req -> 0 .. MaxTime]
  /\ verdict \in [Req -> BeginVerdicts]
  /\ outcome \in [Req -> CommitOutcomes]
  /\ got \in [Req -> GrantTerms \cup {NoGrant}]

\* A file left by earlier runs may hold records this build cannot decode.
Init ==
  /\ now = 0
  /\ ledger \in [Auth -> {Absent, Corrupt}]
  /\ stage = [r \in Req |-> "idle"]
  /\ asked = [r \in Req |-> 0]
  /\ verdict = [r \in Req |-> "none"]
  /\ outcome = [r \in Req |-> "none"]
  /\ got = [r \in Req |-> NoGrant]

-----------------------------------------------------------------------------
(* Begin.                                                                   *)

\* now := s.now(), before the file is opened.
BeginCall(r) ==
  /\ stage[r] = "idle"
  /\ stage' = [stage EXCEPT ![r] = "begin"]
  /\ asked' = [asked EXCEPT ![r] = now]
  /\ UNCHANGED <<now, ledger, verdict, outcome, got>>

\* Slips of Begin's classification the properties must catch: a live reservation
\* handed on, and a record that does not decode taken for an unseen payment.
BeginOverLease(rec, t) ==
  CASE rec.kind = "corrupt"  -> "error"
    [] rec.kind = "granted"  -> IF t < rec.grant.exp THEN "recoverable" ELSE "spent"
    [] OTHER                 -> "new"
BeginLenient(rec, t) ==
  CASE rec.kind = "granted"  -> IF t < rec.grant.exp THEN "recoverable" ELSE "spent"
    [] rec.kind = "reserved" -> IF t < rec.until THEN "inflight" ELSE "new"
    [] OTHER                 -> "new"

\* The classification Begin makes of a record, at the clock value it read.
BeginResult(rec, t) ==
  CASE rec.kind = "corrupt"  -> "error"
    [] rec.kind = "granted"  -> IF t < rec.grant.exp THEN "recoverable"
                                                     ELSE "spent"
    [] rec.kind = "reserved" -> IF t < rec.until THEN "inflight" ELSE "new"
    [] OTHER                 -> "new"       \* never presented

\* The transaction: answer, and reserve an unseen or lapsed authorization.
BeginTx(r) ==
  LET a   == Pays[r]
      ans == BeginResult(ledger[a], asked[r])
  IN  /\ stage[r] = "begin"
      /\ verdict' = [verdict EXCEPT ![r] = ans]
      /\ stage' = [stage EXCEPT ![r] = IF ans = "new" THEN "held" ELSE "done"]
      /\ ledger' = IF ans = "new"
                   THEN [ledger EXCEPT ![a] =
                           Reserved(r, asked[r] + PaymentLease)]
                   ELSE ledger
      /\ got' = IF ans = "recoverable"
                THEN [got EXCEPT ![r] = ledger[a].grant] ELSE got
      /\ UNCHANGED <<now, asked, outcome>>

\* The file cannot be opened or locked within its timeout, or the update
\* reports an error.  A failed sync may leave what was written in the file.
BeginFault(r) ==
  LET a == Pays[r]
  IN  /\ "store" \in Faults
      /\ stage[r] = "begin"
      /\ verdict' = [verdict EXCEPT ![r] = "error"]
      /\ stage' = [stage EXCEPT ![r] = "done"]
      /\ \/ UNCHANGED ledger
         \/ /\ BeginResult(ledger[a], asked[r]) = "new"
            /\ ledger' = [ledger EXCEPT ![a] =
                            Reserved(r, asked[r] + PaymentLease)]
      /\ UNCHANGED <<now, asked, outcome, got>>

-----------------------------------------------------------------------------
(* Commit and Release, by the presentation whose Begin answered "new".      *)

\* A slip: any reservation is taken for one's own.
OwnsAny(r, rec) == rec.kind = "reserved"

\* Does the record still carry this presentation's reservation?
Owns(r, rec) == rec.kind = "reserved" /\ rec.lease = r

\* Slips: a commit that replaces the grant it finds, one that does not validate.
CommitOver(r, rec, g) ==
  IF Complete(g) /\ (rec.kind = "granted" \/ Owns(r, rec)) THEN "created" ELSE "failed"
CommitUnvalidated(r, rec, g) ==
  CASE rec.kind = "granted" -> "existing"
    [] Owns(r, rec)         -> "created"
    [] OTHER                -> "failed"

CommitResult(r, rec, g) ==
  IF ~ Complete(g) THEN "failed"
  ELSE CASE rec.kind = "granted" -> "existing"  \* an existing grant wins
         [] Owns(r, rec)         -> "created"
         [] OTHER                -> "failed"    \* gone, changed, unreadable

CommitTx(r, g) ==
  LET a   == Pays[r]
      ans == CommitResult(r, ledger[a], g)
  IN  /\ stage[r] = "held" /\ outcome[r] = "none"
      /\ outcome' = [outcome EXCEPT ![r] = ans]
      /\ ledger' = IF ans = "created"
                   THEN [ledger EXCEPT ![a] = Granted(g)] ELSE ledger
      /\ got' = CASE ans = "created"  -> [got EXCEPT ![r] = g]
                  [] ans = "existing" -> [got EXCEPT ![r] = ledger[a].grant]
                  [] ans = "failed"   -> got
      /\ UNCHANGED <<now, stage, asked, verdict>>

\* The file fails Commit itself, which may have been written all the same.
CommitFault(r, g) ==
  LET a == Pays[r]
  IN  /\ "store" \in Faults
      /\ stage[r] = "held" /\ outcome[r] = "none"
      /\ outcome' = [outcome EXCEPT ![r] = "fault"]
      /\ \/ UNCHANGED ledger
         \/ /\ CommitResult(r, ledger[a], g) = "created"
            /\ ledger' = [ledger EXCEPT ![a] = Granted(g)]
      /\ UNCHANGED <<now, stage, asked, verdict, got>>

\* A slip: Release deletes the record whatever it has become.
ReleaseAlways(r) ==
  /\ stage[r] = "held"
  /\ stage' = [stage EXCEPT ![r] = "done"]
  /\ ledger' = [ledger EXCEPT ![Pays[r]] = Absent]
  /\ UNCHANGED <<now, asked, verdict, outcome, got>>

\* Release deletes the caller's own pending reservation and nothing else.
ReleaseTx(r) ==
  LET a == Pays[r]
  IN  /\ stage[r] = "held"
      /\ stage' = [stage EXCEPT ![r] = "done"]
      /\ ledger' = IF Owns(r, ledger[a])
                   THEN [ledger EXCEPT ![a] = Absent] ELSE ledger
      /\ UNCHANGED <<now, asked, verdict, outcome, got>>

\* Release failed: the reservation stays until it lapses.
ReleaseFault(r) ==
  /\ "store" \in Faults
  /\ stage[r] = "held"
  /\ stage' = [stage EXCEPT ![r] = "done"]
  /\ UNCHANGED <<now, ledger, asked, verdict, outcome, got>>

-----------------------------------------------------------------------------
(* The process dies: its presentations take no further step, and the file  *)
(* keeps whatever they had reserved.  And time passes.                      *)

Crash(R) ==
  /\ "crash" \in Faults
  /\ stage' = [r \in Req |-> IF r \in R /\ stage[r] \in {"begin", "held"}
                             THEN "done" ELSE stage[r]]
  /\ UNCHANGED <<now, ledger, asked, verdict, outcome, got>>

Tick ==
  /\ now < MaxTime
  /\ now' = now + 1
  /\ UNCHANGED <<ledger, stage, asked, verdict, outcome, got>>

StoreStep(r) ==
  \/ BeginCall(r) \/ BeginTx(r) \/ BeginFault(r)
  \/ \E g \in GrantTerms : CommitTx(r, g) \/ CommitFault(r, g)
  \/ ReleaseTx(r) \/ ReleaseFault(r)

Next ==
  \/ \E r \in Req : StoreStep(r)
  \/ \E R \in SUBSET Req : Crash(R)
  \/ Tick

Spec == Init /\ [][Next]_storeVars

-----------------------------------------------------------------------------
(* What the store promises.                                                 *)

\* A presentation that has not tried to commit, inside its own lease.
LiveLease(r) ==
  /\ stage[r] = "held" /\ outcome[r] = "none"
  /\ now < asked[r] + PaymentLease

\* While a lease lives, the reservation in the file is its holder's: no other
\* Begin, however long it waited for the file lock, no late Release and no
\* restarted process takes it away (Begin's stale clock, Release's lease test).
LeaseProtects ==
  \A r \in Req : LiveLease(r) => Owns(r, ledger[Pays[r]])

\* Two presentations of one authorization never hold live leases together, so
\* one at most is in the facilitator's hands (the comment on BeginInFlight).
ExclusiveLease ==
  \A r, q \in Req :
    LiveLease(r) /\ LiveLease(q) /\ Pays[r] = Pays[q] => r = q

\* Whoever the store handed a grant holds what the file holds now: racing
\* processes, retries and recoveries converge on one result (Commit's comment).
Converged ==
  \A r \in Req : got[r] # NoGrant => ledger[Pays[r]] = Granted(got[r])

\* At most one presentation of an authorization is told it created the grant.
OneCreator ==
  \A r, q \in Req :
    /\ outcome[r] = "created" /\ outcome[q] = "created"
    /\ Pays[r] = Pays[q]
    => r = q

\* A record that does not decode is never taken for an unseen payment: it stays,
\* and nobody is handed a lease or a grant on it (decodeGrantRecord).
CorruptFailsClosed ==
  [][\A a \in Auth : ledger[a] = Corrupt =>
       /\ ledger'[a] = Corrupt
       /\ \A r \in Req : Pays[r] = a =>
            stage'[r] # "held" /\ got'[r] = NoGrant]_storeVars

\* A grant, once in the file, is there unchanged for ever: no Begin at any
\* clock value, no Release and no second Commit touches it (Grant's comment:
\* forgetting it would let a cached success buy another entitlement).
GrantIsForever ==
  [][\A a \in Auth : ledger[a].kind = "granted" => ledger'[a] = ledger[a]]_storeVars

-----------------------------------------------------------------------------
(* Why those hold: the inductive invariant.                                 *)

\* A reservation is its holder's, dated by the clock its holder's Begin read.
ReservationDated ==
  \A a \in Auth : ledger[a].kind = "reserved" =>
    LET r == ledger[a].lease
    IN  /\ Pays[r] = a
        /\ ledger[a].until = asked[r] + PaymentLease
        /\ stage[r] \in {"held", "done"}

\* No Begin works with a clock value from the future.
ClockReadBefore == \A r \in Req : asked[r] <= now

\* A presentation is handed nothing before its Begin has answered.
NothingBeforeBegin ==
  \A r \in Req : stage[r] \in {"idle", "begin"} =>
    outcome[r] = "none" /\ got[r] = NoGrant

\* A created grant is in the file.
CreatedIsStored ==
  \A r \in Req : outcome[r] = "created" => ledger[Pays[r]].kind = "granted"

\* Between Begin and Commit a holder has been handed nothing.
HolderWaits ==
  \A r \in Req : stage[r] = "held" /\ outcome[r] = "none" => got[r] = NoGrant

\* Nobody holds a lease, a recovered grant or a created one on a corrupt record.
CorruptIsNobodys ==
  \A r \in Req : ledger[Pays[r]] = Corrupt =>
    stage[r] # "held" /\ got[r] = NoGrant /\ outcome[r] = "none"

StoreInv ==
  /\ TypeOK /\ ReservationDated /\ ClockReadBefore /\ NothingBeforeBegin
  /\ HolderWaits /\ LeaseProtects /\ Converged /\ CreatedIsStored /\ OneCreator
  /\ CorruptIsNobodys

-----------------------------------------------------------------------------
(* The store implements the ledger of entitlements: what an authorization   *)
(* bought is the grant in its record, and the answers given are the grants  *)
(* handed to presentations.                                                 *)

Bought == [a \in Auth |->
             IF ledger[a].kind = "granted" THEN ledger[a].grant ELSE NoGrant]
Answers == {<<Pays[r], got[r]>> : r \in {q \in Req : got[q] # NoGrant}}

Ledger == INSTANCE PaymentLedger
            WITH Grant <- GrantTerms, entitlement <- Bought, told <- Answers
ImplementsLedger == Ledger!LedgerSpec
==============================================================================
