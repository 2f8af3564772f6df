------------------------------- MODULE PayDoor -------------------------------
(***************************************************************************)
(* The pay door: gate/pay.go servePayment and servePaidGrant, with the     *)
(* verdicts of payment/callback.go Verify, over the shared GrantStore and   *)
(* an external facilitator and chain.                                      *)
(*                                                                         *)
(* A presentation is one GET or HEAD carrying a PAYMENT-SIGNATURE that has  *)
(* passed the local checks (decode, rail match, payment.ID).  Any number    *)
(* of them, in several gate processes over one state file, may carry the    *)
(* same authorization, at the same or at different resources.               *)
(***************************************************************************)
EXTENDS Integers

CONSTANTS
  Req, Auth, Scope, Audience, Tx, NoTx, NoGrant, NoAudience,
  Proc,          \* gate processes sharing the state file
  ProcOf,        \* ProcOf[r]: the process presentation r arrives at
  Pays,          \* Pays[r]: the authorization it carries
  ScopeOf,       \* ScopeOf[r]: scope of the first route matching its path
  AudienceOf,    \* AudienceOf[r]: its lower-cased Host, NoAudience if empty
  PaymentLease,  \* paymentLease, 30 s
  OpenTimeout,   \* bolt.Options.Timeout, 2 s
  PathBudget,    \* pathBudget, 15 s
  PaidTTL,       \* the rule's paid_ttl
  MaxTime,       \* bound: the clock stops here
  Transfers,     \* transfers the facilitator may make, see Transfer
  Replays,       \* how it answers for a spent authorization, see Answers
  Faults         \* subset of {"store", "crash", "network", "pause"}

\* What a transfer can get wrong with respect to what the gate asked for.
Transfer == [network : {"asked", "other"}, payer : {"from", "other"},
             amount : {"asked", "other"}]
AsAsked == [network |-> "asked", payer |-> "from", amount |-> "asked"]

MaxExp == MaxTime + PaidTTL

ASSUME DoorAssumption ==
  /\ Pays \in [Req -> Auth] /\ ProcOf \in [Req -> Proc]
  /\ ScopeOf \in [Req -> Scope] /\ AudienceOf \in [Req -> Audience \cup {NoAudience}]
  /\ {PaymentLease, PaidTTL} \subseteq Nat \ {0}
  /\ {OpenTimeout, PathBudget, MaxTime} \subseteq Nat
  /\ Tx # {} /\ NoTx \notin Tx
  /\ Transfers \subseteq Transfer
  /\ Replays \subseteq {"cached", "refused"}

\* The constants of the code leave the lease longer than the whole paid path.
ASSUME LeaseMargin == OpenTimeout + PathBudget + OpenTimeout < PaymentLease

VARIABLES
  now, ledger, stage, asked, verdict, outcome, got,  \* GrantStore
  pc,        \* where each presentation's handler stands
  since,     \* when its present wait began
  expiry,    \* the expiry it computed for the grant
  decision,  \* the ladder decision it was answered with
  pass,      \* the expiry of the pass it was given, 0 for none
  counted,   \* has it added its value to the metric?
  wire,      \* its /settle request, as the facilitator sees it
  reply,     \* the answer under way to the gate
  chain      \* what happened to each authorization on chain

store == <<now, ledger, stage, asked, verdict, outcome, got>>
door  == <<pc, since, expiry, decision, pass, counted>>
world == <<wire, reply, chain>>
vars  == <<store, door, world>>

Store == INSTANCE GrantStore

\* The absence of a grant is not one.
ASSUME NoGrantAssumption == NoGrant \notin Store!GrantTerms

-----------------------------------------------------------------------------
(* The facilitator's answers and the verdicts Verify draws from them.       *)

\* A /settle answer: what it claims, "" and NoTx where it claims nothing.
Answer == [success : BOOLEAN, pending : BOOLEAN, tx : Tx \cup {NoTx},
           network : {"asked", "other", ""}, payer : {"from", "other", ""},
           amount : {"asked", "other", ""}]

Refusal == [success |-> FALSE, pending |-> FALSE, tx |-> NoTx,
            network |-> "", payer |-> "", amount |-> ""]

\* Truthful answers about a transfer, complete or with parts left out.  A
\* facilitator that omits the payer or the amount moved what it was asked to.
Claims(t, ok) ==
  { a \in Answer :
      /\ a.success = ok /\ a.pending = ~ ok
      /\ a.network \in {t.network, ""}
      /\ a.payer \in {t.payer} \cup (IF t.payer = "from" THEN {""} ELSE {})
      /\ a.amount \in {t.amount} \cup (IF t.amount = "asked" THEN {""} ELSE {}) }

\* A slip: the amount the facilitator reports is not compared.
SettleTrusting(a) ==
  IF a.success
  THEN IF a.tx = NoTx \/ a.network # "asked" \/ a.payer = "other"
       THEN "ambiguous" ELSE "valid"
  ELSE IF ~ a.pending THEN "invalid"
       ELSE IF a.tx = NoTx \/ a.network # "asked" THEN "ambiguous"
       ELSE "pending"

\* Verify's switch over the settle answer.
SettleVerdict(a) ==
  IF a.success
  THEN IF \/ a.tx = NoTx
          \/ a.network # "asked"
          \/ a.payer = "other"
          \/ a.amount = "other"
       THEN "ambiguous" ELSE "valid"
  ELSE IF ~ a.pending THEN "invalid"
       ELSE IF a.tx = NoTx \/ a.network # "asked" THEN "ambiguous"
       ELSE "pending"

Unspent == [state |-> "unspent"]
Moved(st, t) == [state |-> st, transfer |-> t]

-----------------------------------------------------------------------------
Decisions == {"none", "stateUnavailable", "replay", "inflight", "rateLimited",
              "infra", "rejected", "pending", "ambiguous", "grantFailed",
              "grantConflict", "passPaid"}

Stages == {"new", "begin", "limit", "verify", "settle", "commit", "grant",
           "serve", "mint", "release", "done"}

TypeOK ==
  /\ Store!TypeOK
  /\ pc \in [Req -> Stages]
  /\ since \in [Req -> 0 .. MaxTime]
  /\ expiry \in [Req -> 0 .. MaxExp]
  /\ decision \in [Req -> Decisions]
  /\ pass \in [Req -> 0 .. MaxExp]
  /\ counted \in [Req -> BOOLEAN]
  /\ wire \in [Req -> {"none", "sent", "answered", "closed"}]
  /\ reply \in [Req -> Answer]
  /\ chain \in [Auth -> {Unspent}
                \cup [state : {"broadcast", "settled"}, transfer : Transfer]]

Init ==
  /\ Store!Init
  /\ ledger = [a \in Auth |-> Store!Absent]
  /\ pc = [r \in Req |-> "new"]
  /\ since = [r \in Req |-> 0]
  /\ expiry = [r \in Req |-> 0]
  /\ decision = [r \in Req |-> "none"]
  /\ pass = [r \in Req |-> 0]
  /\ counted = [r \in Req |-> FALSE]
  /\ wire = [r \in Req |-> "none"]
  /\ reply = [r \in Req |-> Refusal]
  /\ chain = [a \in Auth |-> Unspent]

Go(r, next) == pc' = [pc EXCEPT ![r] = next]
Decide(r, d) == decision' = [decision EXCEPT ![r] = d]

\* The response is written; the deferred Release runs when the handler returns.
Respond(r, d) ==
  /\ Decide(r, d)
  /\ Go(r, IF stage[r] = "held" THEN "release" ELSE "done")

Place(r) == <<ScopeOf[r], AudienceOf[r]>>
PlaceOf(g) == <<g.scope, g.audience>>

-----------------------------------------------------------------------------
(* servePayment.                                                            *)

\* grants.Begin: the clock is read, then the file is waited for.
Present(r) ==
  /\ pc[r] = "new"
  /\ Store!BeginCall(r)
  /\ Go(r, "begin")
  /\ UNCHANGED <<since, expiry, decision, pass, counted, world>>

\* A grant is found: its holder is served, at the place it was bought for.  The
\* slip before it serves it anywhere.
RecoverAnywhere(r) == Go(r, "serve") /\ UNCHANGED decision

Recover(r) ==
  IF PlaceOf(got'[r]) # Place(r)
  THEN Decide(r, "replay") /\ Go(r, "done")
  ELSE Go(r, "serve") /\ UNCHANGED decision

\* The switch over Begin's answer.
Claim(r) ==
  /\ pc[r] = "begin"
  /\ Store!BeginTx(r) \/ Store!BeginFault(r)
  /\ CASE verdict'[r] = "error" ->
            Decide(r, "stateUnavailable") /\ Go(r, "done")
       [] verdict'[r] = "recoverable" -> Recover(r)
       [] verdict'[r] = "spent" ->
            Decide(r, "replay") /\ Go(r, "done")
       [] verdict'[r] = "inflight" ->
            Decide(r, "inflight") /\ Go(r, "done")
       [] verdict'[r] = "new" ->
            Go(r, "limit") /\ UNCHANGED decision
  /\ UNCHANGED <<since, expiry, pass, counted, world>>

\* payLimit.Allow, then Verify's breaker and egress slot.  Their state is the
\* subject of a module of its own; here each may refuse.
Admit(r) ==
  /\ pc[r] = "limit"
  /\ \/ Respond(r, "rateLimited") /\ UNCHANGED since
     \/ Respond(r, "infra") /\ UNCHANGED since
     \/ /\ Go(r, "verify")
        /\ since' = [since EXCEPT ![r] = now]
        /\ UNCHANGED decision
  /\ UNCHANGED <<store, expiry, pass, counted, world>>

\* The /verify round trip: no answer, a refusal, or a valid signature.  A
\* facilitator that replays what it settled still finds the signature valid.
VerifyAnswer(r) ==
  /\ pc[r] = "verify"
  /\ \/ /\ "network" \in Faults
        /\ Respond(r, "infra") /\ UNCHANGED wire
     \/ /\ chain[Pays[r]].state = "unspent" \/ "refused" \in Replays
        /\ Respond(r, "rejected") /\ UNCHANGED wire
     \/ /\ Go(r, "settle") /\ UNCHANGED decision
        /\ wire' = [wire EXCEPT ![r] = "sent"]
  /\ UNCHANGED <<store, since, expiry, pass, counted, reply, chain>>

\* The /settle round trip ends with an answer.  paidExpiry reads the clock now.
SettleAnswer(r) ==
  LET v == SettleVerdict(reply[r])
  IN  /\ pc[r] = "settle" /\ wire[r] = "answered"
      /\ CASE v = "valid" ->
                /\ Go(r, "commit") /\ UNCHANGED decision
                /\ expiry' = [expiry EXCEPT ![r] = now + PaidTTL]
                /\ since' = [since EXCEPT ![r] = now]
           [] v = "invalid" -> Respond(r, "rejected") /\ UNCHANGED <<expiry, since>>
           [] v = "pending" -> Respond(r, "pending") /\ UNCHANGED <<expiry, since>>
           [] v = "ambiguous" -> Respond(r, "ambiguous") /\ UNCHANGED <<expiry, since>>
      /\ wire' = [wire EXCEPT ![r] = "closed"]
      /\ reply' = [reply EXCEPT ![r] = Refusal]
      /\ UNCHANGED <<store, pass, counted, chain>>

\* A slip: only an answer that does not decode ends the wait, silence does not.
SettleWaits(r) ==
  /\ pc[r] = "settle" /\ wire[r] = "answered"
  /\ Respond(r, "ambiguous")
  /\ wire' = [wire EXCEPT ![r] = "closed"]
  /\ reply' = [reply EXCEPT ![r] = Refusal]
  /\ UNCHANGED <<store, since, expiry, pass, counted, chain>>

\* It ends without one: a timeout, a broken connection, a 5xx, a body that does
\* not decode.  Exactly one attempt; what the facilitator does is unknown, and
\* it may still do it later.
SettleFails(r) ==
  /\ "network" \in Faults
  /\ pc[r] = "settle"
  /\ Respond(r, "ambiguous")
  /\ wire' = [wire EXCEPT ![r] = IF @ = "answered" THEN "closed" ELSE @]
  /\ reply' = [reply EXCEPT ![r] = Refusal]
  /\ UNCHANGED <<store, since, expiry, pass, counted, chain>>

\* grants.Commit of the settled grant.
GrantFor(r) == [scope |-> ScopeOf[r], audience |-> AudienceOf[r],
                tx |-> CHOOSE t \in Tx : TRUE, exp |-> expiry[r]]

Commit(r) ==
  /\ pc[r] = "commit"
  /\ Store!CommitTx(r, GrantFor(r)) \/ Store!CommitFault(r, GrantFor(r))
  /\ Go(r, "grant")
  /\ UNCHANGED <<since, expiry, decision, pass, counted, world>>

\* What follows Commit: the error, the grant of another place, or the count.
Settled(r) ==
  /\ pc[r] = "grant"
  /\ IF outcome[r] \in {"failed", "fault"}
     THEN Respond(r, "grantFailed") /\ UNCHANGED counted
     ELSE IF PlaceOf(got[r]) # Place(r)
     THEN Respond(r, "grantConflict") /\ UNCHANGED counted
     ELSE /\ counted' = [counted EXCEPT ![r] = TRUE]
          /\ Go(r, "serve") /\ UNCHANGED decision
  /\ UNCHANGED <<store, since, expiry, pass, world>>

\* servePaidGrant: nothing when the grant has run out ...
Serve(r) ==
  /\ pc[r] = "serve"
  /\ IF now < got[r].exp
     THEN Go(r, "mint") /\ UNCHANGED decision
     ELSE Respond(r, "replay")
  /\ UNCHANGED <<store, since, expiry, pass, counted, world>>

\* ... and a pass for what is left of it, which setPassCookie reads the clock again
\* to date: Mint refuses a lifetime that is over by then, and a pass for no audience.
Mint(r) ==
  /\ pc[r] = "mint"
  /\ IF now < got[r].exp /\ AudienceOf[r] # NoAudience
     THEN Respond(r, "passPaid") /\ pass' = [pass EXCEPT ![r] = got[r].exp]
     ELSE Respond(r, "grantFailed") /\ UNCHANGED pass
  /\ UNCHANGED <<store, since, expiry, counted, world>>

\* The deferred Release.
Return(r) ==
  /\ pc[r] = "release"
  /\ Store!ReleaseTx(r) \/ Store!ReleaseFault(r)
  /\ Go(r, "done")
  /\ UNCHANGED <<since, expiry, decision, pass, counted, world>>

-----------------------------------------------------------------------------
(* The facilitator and the chain (external).  An authorization's nonce      *)
(* moves its amount once, whoever submits it and however often.             *)

\* An answer to a request nobody waits for any more goes nowhere.
Answers(r, answers) ==
  IF pc[r] = "settle"
  THEN /\ wire' = [wire EXCEPT ![r] = "answered"]
       /\ \E a \in answers : reply' = [reply EXCEPT ![r] = a]
  ELSE /\ wire' = [wire EXCEPT ![r] = "closed"]
       /\ UNCHANGED reply

\* It settles, or broadcasts and does not wait for the confirmation.
FacilitatorMoves(r) ==
  /\ wire[r] = "sent" /\ chain[Pays[r]] = Unspent
  /\ \E t \in Transfers, st \in {"broadcast", "settled"} :
       /\ chain' = [chain EXCEPT ![Pays[r]] = Moved(st, t)]
       /\ Answers(r, Claims(t, st = "settled"))
  /\ UNCHANGED <<store, door>>

\* It is asked again about an authorization it has already moved.
FacilitatorReplays(r) ==
  LET c == chain[Pays[r]]
  IN  /\ wire[r] = "sent" /\ c # Unspent
      /\ \/ "cached" \in Replays
            /\ Answers(r, Claims(c.transfer, c.state = "settled"))
         \/ "refused" \in Replays /\ Answers(r, {Refusal})
      /\ UNCHANGED <<store, door, chain>>

FacilitatorRefuses(r) ==
  /\ wire[r] = "sent" /\ chain[Pays[r]] = Unspent
  /\ Answers(r, {Refusal})
  /\ UNCHANGED <<store, door, chain>>

\* A broadcast transaction confirms, or is dropped and leaves the nonce unspent.
ChainConfirms(a) ==
  /\ chain[a].state = "broadcast"
  /\ chain' \in { [chain EXCEPT ![a] = Moved("settled", chain[a].transfer)],
                  [chain EXCEPT ![a] = Unspent] }
  /\ UNCHANGED <<store, door, wire, reply>>

-----------------------------------------------------------------------------
(* Crashes and time.                                                        *)

\* A process dies with every handler it is running.
Crash(p) ==
  LET dead == {r \in Req : ProcOf[r] = p /\ pc[r] \notin {"new", "done"}}
  IN  /\ dead # {} /\ Store!Crash(dead)
      /\ pc' = [r \in Req |-> IF r \in dead THEN "done" ELSE pc[r]]
      /\ UNCHANGED <<since, expiry, decision, pass, counted, world>>

\* A slip: the round trips are not under the path budget.
WithoutPathBudget(r) ==
  CASE pc[r] = "begin" -> now < asked[r] + OpenTimeout
    [] pc[r] = "commit" -> now < since[r] + OpenTimeout
    [] pc[r] \in {"limit", "grant"} -> FALSE
    [] OTHER -> TRUE

\* The timeouts of the code, as what each handler may be kept waiting for: the
\* file's open timeout in Begin and Commit, the path budget in Verify; steps
\* that wait for nothing take no time, but the clock may turn between the two
\* that servePaidGrant reads.  A response being written, and the Release after
\* it, may take as long as the upstream and the client do.
WithinBudget(r) ==
  CASE pc[r] = "begin" -> now < asked[r] + OpenTimeout
    [] pc[r] \in {"verify", "settle"} -> now < since[r] + PathBudget
    [] pc[r] = "commit" -> now < since[r] + OpenTimeout
    [] pc[r] \in {"limit", "grant"} -> FALSE
    [] OTHER -> TRUE

\* A paused host, or a clock that is stepped, outlasts every budget.
Tick ==
  /\ "pause" \in Faults \/ \A r \in Req : WithinBudget(r)
  /\ Store!Tick
  /\ UNCHANGED <<door, world>>

\* From Begin to the decision, whatever it is.
Working(r) ==
  \/ Claim(r) \/ Admit(r) \/ VerifyAnswer(r) \/ SettleAnswer(r) \/ SettleFails(r)
  \/ Commit(r) \/ Settled(r) \/ Serve(r) \/ Mint(r)

Handler(r) == Present(r) \/ Working(r) \/ Return(r)

Facilitator(r) ==
  FacilitatorMoves(r) \/ FacilitatorReplays(r) \/ FacilitatorRefuses(r)

Next ==
  \/ \E r \in Req : Handler(r) \/ Facilitator(r)
  \/ \E a \in Auth : ChainConfirms(a)
  \/ \E p \in Proc : Crash(p)
  \/ Tick

Spec == Init /\ [][Next]_vars

-----------------------------------------------------------------------------
(* Fairness: up to its decision a handler waits for the file and for the   *)
(* facilitator only, and each of those waits has a timeout (SettleFails is  *)
(* always possible).  Nothing is assumed of what follows: the answer is     *)
(* forwarded from the upstream or written to the client with no timeout, so *)
(* that Return may never come.  Nor of clients, of the facilitator, of the  *)
(* chain or of the clock.                                                   *)

FairSpec == Spec /\ \A r \in Req : WF_vars(Working(r))

-----------------------------------------------------------------------------
(* What the door promises.                                                  *)

\* No entitlement without the money: a grant is in the file only when the chain
\* has moved the asked amount, on the asked network, from the payer who signed.
\* A transfer that is merely broadcast, or is evidenced by a success with parts
\* missing or wrong, never becomes one (Verify's checks of the settle answer).
GrantBacked ==
  \A a \in Auth : ledger[a].kind = "granted" =>
    chain[a] = Moved("settled", AsAsked)

\* One payment, one entitlement: all the passes ever given for an authorization
\* are the one its grant in the file records, at the place it was bought for and to
\* the same instant, whichever presentations, processes and recoveries they came
\* from.  A pass is given only once the file has its grant: a process that dies
\* after the response has lost nothing the client was given.
OnePassPerPayment ==
  \A r \in Req : pass[r] # 0 =>
    /\ ledger[Pays[r]].kind = "granted"
    /\ ledger[Pays[r]].grant.exp = pass[r]
    /\ PlaceOf(ledger[Pays[r]].grant) = Place(r)

\* Unless a host is paused, a lease outlives the whole paid path: while a
\* handler talks to the facilitator or commits, the reservation is still its own.
\* It rests on paymentLease > open timeout + pathBudget + open timeout.
LeaseOutlivesPath ==
  \A r \in Req : pc[r] \in {"limit", "verify", "settle", "commit"} =>
    Store!LiveLease(r)

\* So no authorization is ever in two handlers' hands at the facilitator ...
ExclusiveSettle ==
  \A r, q \in Req :
    /\ pc[r] \in {"verify", "settle", "commit"}
    /\ pc[q] \in {"verify", "settle", "commit"}
    /\ Pays[r] = Pays[q]
    => r = q

\* ... nor sent for settlement again once a grant is recorded for it (Grant's
\* comment: a cached success must not buy another entitlement) ...
NoSettleAfterGrant ==
  [][\A r \in Req : wire[r] = "none" /\ wire'[r] = "sent" =>
       ledger[Pays[r]].kind # "granted"]_vars

\* ... and no settlement is lost but by a fault of the file itself: a payment that
\* was settled for a named authority has its grant in the file, as this presentation
\* asked for it, and the payer is refused his pass only if the time he bought was
\* over before the pass was made (a short paid_ttl against the wait for the file).
\* Of one that names no authority it is not true: it is settled, and Commit then
\* refuses its grant.
NoLostSettlement ==
  \A r \in Req :
    outcome[r] \notin {"none", "fault"} /\ AudienceOf[r] # NoAudience =>
      /\ ledger[Pays[r]] = Store!Granted(GrantFor(r))
      /\ \/ decision[r] \in {"none", "passPaid"}
         \/ decision[r] \in {"replay", "grantFailed"} /\ expiry[r] <= now

\* Every presentation is decided, whatever the facilitator does and however long any
\* other client takes over its answer, unless its process dies.
EveryoneDecided ==
  \A r \in Req : pc[r] = "begin" ~> (decision[r] # "none" \/ pc[r] = "done")
==============================================================================
