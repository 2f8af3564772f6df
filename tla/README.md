# Anteroom in TLA+

A TLA+ model of the parts of Anteroom whose correctness depends on order: what
interleaves, fails half way, is retried, lapses, or arrives late. Everything is
translated from the Go and JavaScript under `src/`; what lies outside it (the
facilitator, the chain, DNS, browsers, clients) is modelled from how that code
uses it. `PROJECT.json` maps each definition to the lines it stands for, lists the
runs, the hazards they are aimed at and the theorems.

Check a module with `tlc -workers 2 -config MCPayDoor.cfg MCPayDoor`, its proofs
with `tlapm PayDoorProofs.tla`.

## 1. The system

Anteroom is a reverse proxy. Every request walks one ladder (`gate.serve`): own
endpoints, bypassed paths and addresses, claimed identities, a valid pass, and
then either the wait page (a proof of work, paid by a browser), a refusal with
instructions, or the pay door (x402: a signed authorization which a facilitator
verifies and settles). A pass is a signed cookie. Free passes are short, and a
service worker renews them; the right to renew descends from pass to pass up to
`max_session`. Paid passes last as long as the entitlement bought, recorded in a
bbolt file.

| Component | State it keeps | Operations | What makes it correct |
|---|---|---|---|
| grant store, `payment/store.go` | a file of records per authorization: reserved (lease, until) or granted | Begin, Commit, Release | a live lease is never lost; a grant is created once and stays; corrupt records sell nothing |
| pay door, `gate/pay.go`, `payment/callback.go` | none of its own; a handler's locals across two file waits and two round trips | servePayment, Verify, servePaidGrant, deferred Release | money backs every grant; one payment, one pass; no settlement lost or repeated |
| terms of payment, `config.go`, `pay.go` offer, `payment/verifier.go` | none: compiled from the file | offer, MatchRail, ID, the choice of facilitator | the facilitator is asked for what the file says, with its own credentials; a payment has one name |
| egress guards, `payment/guards.go` | breaker (failure instants, open-until), slots, token buckets by address | Record, Allow; slot take and return | the breaker opens on every cluster and only on one; no slot leaks; the rate holds, and starves nobody |
| ladder, `gate/gate.go`, `identity.go` | none per process but the compiled rules; the request's headers | serve, serveClaimedIdentity, serveClean, the proxy's Rewrite | nothing is served below its price; what goes upstream is what the gate wrote |
| bypass matcher, `internal/bypass` | tables | globs; the client's address through proxies | a client cannot take another's address |
| proof-of-work passes, `endpoints.go`, `challenge.go`, `token.go` | none: challenges and passes are signed and live with clients | serveChallenge, serveAnswer, Mint, Verify, mayRenew | chains are rooted in an admission, unbroken, capped |
| renewal worker, `assets/sw.js`, `page.js`, `renew.js` | the worker's globals (timer, waiters, stopped, last ping); tabs; the cookie | messages start, stop, ping, solve; timer; rounds that suspend at each await | no pass lapses under a visible tab; one admission at a time; a closed browser stops |
| crawler verification, `crawler/verifier.go` | a bounded cache under a lock, a semaphore of lookups | verifyProvider, cacheStore | a verdict rests on an answer about that address, fresh enough; an outage is no verdict |
| page cache, `gate/waitpage.go` pageSource | two cached files, by size and date | stat, read, store, with other requests between | edits are live at once |
| response writers, `injector.go`, `inject.go` planCSP, `pay.go` paidWriter | held head, decision, header snapshot | WriteHeader, Write, Flush, finish | bodies arrive whole; edited only when safe, and what is put in runs; paid content leaves sealed |
| activity log, `internal/activity` | a bounded map by address | Record, snapshot, prune | counts are exact; the quietest is dropped |
| configuration, `internal/config` | none: file, environment and defaults | Load | what is accepted is consistent; the rest is refused |
| lifecycle, `cmd/anteroom/main.go`, admin server | listeners, connections, the error channel, the signal, the drain's grace | load, bind, serve, drain, exit | asked to stop, it stops |
| hosted fetchers, rendering, metrics, solver core, packaging | tables, counters | lookup, rendering | see section 8 |

Interactions: the ladder calls every other component, in order. The pay door calls
the limiter, the store, Verify (breaker, slots, facilitator) and the store again;
Release is deferred over all of it. Several processes may share one store file.
Configuration is read once, by a process that lives until it is asked to stop; clients
outlive it, with the passes and offers of the file before. The
renewal worker sees the passes' endpoints through one browser's cookie. A writer is
chosen by the rung that forwards. The log and the metrics are told outcomes.

What is hard: handlers of one authorization in several processes, with a clock read
before a lock is waited for; a settlement whose answer is lost, or whose file write
fails after it took effect; leases against timeouts; failures of calls that were out
when the breaker opened; bearer material shared, kept and replayed in any order at
gates whose clocks differ; an event loop that suspends at each `await` and that the
browser may kill; a cache read before a lookup and written after it; rules that are
reordered under passes already sold, and terms under offers already seen; headers that
anybody may write before the proxies do; writers driven by chunks, flushes and
informational responses on a shared header map; policies that intersect; a page replaced
between the stat and the read; a drain that a connection outlasts. The hazards are listed with their
lines in `PROJECT.json`.

## 2. Modules

| Module | Models | Composes |
|---|---|---|
| `PaymentLedger` | abstract: an authorization buys at most one entitlement, for ever, and everyone is told the same | |
| `GrantStore` | `store.go`; implements `PaymentLedger` | INSTANCE `PaymentLedger` |
| `PayDoor` | `pay.go` and Verify's decisions, over the store, with an external facilitator and chain | INSTANCE `GrantStore`, whose actions it conjoins with its own |
| `Egress` | the breaker and the slots, under interleaved calls | |
| `Limiter` | the token buckets and their bounded map | |
| `PassChain` | issue, answer, mint, verify, renewal entitlement in a fleet | |
| `RenewalWorker` | the worker, the wait page and the driver, in one browser | the gate of `PassChain`, as one browser sees it |
| `CrawlerCache` | cached reverse-DNS verification | |
| `PageCache` | the cache of `header.html` and `footer.html` | |
| `ActivityLog` | the log | |
| `Bypass` | globs, and ClientIP's walk through X-Forwarded-For | |
| `Ladder` | every rung, claimed identities, pass selection, headers | EXTENDS `Bypass`; settlements (`PayDoor`) and validity (`PassChain`) as outcomes |
| `ScriptPolicy` | planCSP, and what a browser makes of a policy | |
| `ResponseWriters` | injector and paidWriter, driven by the proxy | EXTENDS `ScriptPolicy` |
| `Configuration` | layers, defaults and validation of a file | EXTENDS `Bypass` |
| `PaymentTerms` | offer, MatchRail, payment.ID, the verifier of a rail | EXTENDS `Configuration` |
| `Lifecycle` | `main.go` run(): start, bind, serve, drain, exit | |
| `Deployment` | redeployments under clients who pay on old offers | EXTENDS `PaymentTerms`, `Lifecycle` |
| `GrantStoreProofs`, `PayDoorProofs`, `PassChainProofs`, `RenewalWorkerProofs`, `LadderProofs`, `ResponseWritersProofs`, `DeploymentProofs` | the theorems about the module each is named after | `PayDoorProofs` instantiates `GrantStoreProofs` |
| `SharedProofs` | the theorems about what all handlers share | EXTENDS `Limiter`, `Egress`, `CrawlerCache`, `PageCache`, `ActivityLog` |
| `MC*` | instances for TLC; `MCShared` puts the five structures all handlers share side by side | |

How state and actions correspond to the code:

- **GrantStore.** The file is opened for one operation at a time, so each of
  `BeginTx`, `CommitTx`, `ReleaseTx` is a bbolt transaction, one step. `BeginCall` is
  `now := s.now()`, which the code reads *before* it waits for the file: `asked` is that
  stale clock. `BeginFault`, `CommitFault`, `ReleaseFault` are operations that fail,
  possibly after their write took effect. A lease is 128 random bits of which only
  equality is used; it is named by the presentation that drew it. A record that does
  not decode, or decodes incomplete, is the one `Corrupt` record.
- **PayDoor.** `pc` is where `servePayment` stands; each action runs from one wait to
  the next, with every call it makes. `Claim` is Begin and the switch over its answer;
  `Admit` the rate limit, breaker and slot (each may refuse, see `Egress`, `Limiter`);
  `VerifyAnswer`, `SettleAnswer`, `SettleFails` the round trips and Verify's verdicts;
  `Commit` and `Settled` the grant and what follows; `Serve` is the clock that
  `servePaidGrant` reads, `Mint` the pass, for which the clock is read again; `Return` the
  deferred Release, after the answer is written. A presentation's audience may be
  `NoAudience`, that of an empty Host, of which neither a grant nor a pass can be made. `FacilitatorMoves`, `FacilitatorReplays`,
  `FacilitatorRefuses` and `ChainConfirms` are external: a nonce moves its amount once; an
  answer may be incomplete, untrue to what was asked, lost, or come when nobody waits.
  `WithinBudget` states the timeouts: the clock does not pass a handler's budget unless
  the host is paused (fault `"pause"`).
- **Egress.** `Arrive`, `TakeSlot` and the answers are the lock sections of the breaker and
  the slot's take and return. `log`, a history variable, keeps every failure since the
  breaker last opened or closed, pruned by nothing.
- **Limiter.** `AllowNew` and `AllowOld` are Allow for an unknown and a known key; credits
  are integers (a presentation costs `Cost`, a tick brings `Rate`), which is exact where
  the code uses floats. `born` and `admitted` are history.
- **PassChain.** The state is all challenges and passes ever signed, since nothing else is
  stored. `ServeChallenge`, `ServeAnswer`, `MintPaid` take any of them. A pass carries
  `of`, history that names the challenge it was minted for. Each gate has its own clock
  offset and settings; timestamps are cut to seconds as the tokens cut them. `NoAud` and `NoNet` are an empty
  authority and a client whose address is not known: challenges are issued for them, and
  Mint refuses them (a bought pass is for no network, and needs none).
- **RenewalWorker.** A `round` is a run of `renew()` or `admit()`; `stage` names the await it
  is suspended at. `HearPing`, `HearStart`, `HearStop`, `HearSolve` are the message handlers
  inside the tabs' actions; `FireTimer` the timer; `Answered` and `Confirmed` a round's end;
  the worker's `lastTTL`, which decides between two retry delays, is left open: both may be
  chosen. `Kill` the browser ending the worker; `Sleep` the device sleeping.
- **CrawlerCache.** `Consult`, `Acquire`/`Saturated`, `LookUp`, `Store` are the lock and
  semaphore sections of `verifyProvider`. An entry remembers the lookup behind it (history).
- **PageCache.** `StatPage`, `ConsultPage`, `ReadPage`, `StorePage` are the stat, the two
  lock sections and the read between them. A file is the number of its version, which
  stands for its date and size together: a same-size edit within one tick of the file
  system's clock, or a restored old date, is outside the model, as is a file that outgrows
  `maxPageBytes` between stat and read.
- **Bypass, Ladder.** A pattern is the text before and after its one `*`; an address range is
  a set. An origin is a client, what it wrote into X-Forwarded-For, and the proxies it came
  through, which append what they see. One request at a time walks `rung` by `rung`; `hdr`
  says who wrote each header the gate cares about, `"address"` standing for every header
  that names the client. `Deploy` redeploys the rules in another order while passes live on.
- **ActivityLog.** One action per operation.
- **ScriptPolicy, ResponseWriters.** A policy gives the directives planCSP looks at the set
  of their sources; each directive is named once. `Permits` and `Runs` are external: what a browser
  runs under all the policies of a response. A body is a sequence of the pieces the
  scanners tell apart, delivered in every chunking; the writers' actions are WriteHeader,
  Write, Flush and the end, which is `Abort` when the upstream or the client breaks off and
  nobody finishes the injector.
- **Configuration, PaymentTerms.** A file is a function from the keys it sets; `Load` is the
  whole of config.Load, `None` for a refusal, that of an unknown key included. Names compared without their case are records
  of what they are and how they are written. A price is its digits, an amount a number.
  A payment is a sequence of JSON members, of which the decoder takes the last of a name
  whatever the case of its key (`Decoded`), and a reader that keeps to the case the last
  that is spelled so (`AsSpelled`): what the gate names a payment by is the one, what the
  chain is taken to spend the other.
- **Lifecycle, Deployment.** `stage` is where `run()` stands; `ServeFails`, `Connect`, `Finish`
  and `Signal` are the world's. `Present` is servePayment up to the store: its local checks
  choose what the facilitator is asked (`asked`) and under which name the store will know
  the payment (`named`, history). The promises read the file as its author would: `Tens`
  are the powers of ten a price is scaled by.

Definitions introduced by "A slip" are variants of the one they precede: the plausible
mistake that must break the property named with it in `PROJECT.json`. Nothing in a
specification uses them.

## 3. Runs

Every property of a passing run is violated when its slip is put in place of the
definition it varies. All runs finish within about two minutes on two cores.

| Run | Question | Bounds, and why they suffice |
|---|---|---|
| `MCGrantStore` | Do racing presentations keep leases, fail closed, and implement the ledger? | three presentations of one authorization (a holder, one that takes a lapsed lease over, a late one); lease 2, clock to 4, so leases lapse and are retaken with stale clocks; store faults and crashes. Records of different authorizations never interact. |
| `MCPayDoor` | Under the code's budgets, is every entitlement backed, single and durable, and no settlement lost or repeated? | two presentations in two processes at two places; lease 4 over waits 1+1+1; clock to 5, so a lease lapses and a pass expires; store, crash and network faults; a transfer with each part wrong; a facilitator that replays from cache or refuses. |
| `MCPayDoorPaused` | And when a host stalls past every lease, is everyone decided? | lease 1, pauses and network faults: both handlers can settle, one of them for a client without a Host. `FairSpec`. |
| `MCPassChain` | Are chains rooted, unbroken, capped, and honest answers honoured? | two gates one second apart, ttl 2, session 2, clock to 4, three challenges and three passes: an admission and two renewals, at either gate, in any order; one network, and clients whose address is not known. |
| `MCRenewalWorker` | Does renewal keep a visible tab alive, admit once, abandon nobody, and end? | two tabs, two rounds at once, ttl 6 renewed 2 early, clock from 2 to 8 (a pass to its end, its renewal at 6, and a closed browser); failing rounds, kills, sleep. |
| `MCRenewalStopped` | Is a stop final? It is not: section 7. | the same worker without faults, with jitter. |
| `MCShared` | Do the structures that all handlers share keep their promises at their limits: the limiter, the breaker and slots, the crawler cache, the page cache, the activity log? | They share nothing with each other: each behaviour moves one and leaves the others as they began. Limiter: three addresses at a map that is wiped at the third, rate 2 against cost 3, so credits do not divide, clock to 8. Egress: three calls, threshold 3, window 3, cooldown 5, two slots, clock to 8: failures straddle the window, arrive while it is open, and after it closed. Crawlers: three requests, two addresses of one block, cache of two, two lookups, ttl 2, clock to 2, changing DNS. Pages: two readers, one page edited three times and in every form. Log: three addresses for two slots, ttl 1, six events. |
| `MCLadder` | Is anything served below its price, forged, shadowed, unsealed, let in at another's address, or let past a failed claim? | every request shape with any two cookies, from six origins through none to two proxies with hops written beforehand; three authorities, two of them public; two rule lists. One request at a time is no loss: requests share only the rules. The module also evaluates `MatchGlob` against the definition by splitting, for all patterns with up to two characters on either side and all paths of up to three. |
| `MCResponseWriters` | Do bodies arrive whole, are pages tagged when and only when safe, does the element run without loosening any policy, is paid content sealed? | bodies of up to three pieces, those with the end of a head behind, and some with a later one, in every chunking, at a buffering budget of three, so that heads end before, at and behind it; one informational response; policies of up to three sources, alone and in the pairs of the acceptance tests. |
| `MCRenewalBlocked` | Does what the element asks for load? It may not: section 7. | short bodies; the policies of the acceptance tests, alone and in pairs. |
| `MCScriptsDisabled` | Do the operator's own scripts still run? They may not: section 7. | the same. |
| `MCDeployment` | Is the facilitator asked only for what this file says, with its own credentials; has a payment one name; does the process stop when asked? | three starts, of two sound files that differ in price, places, spelling, method and facilitator, and one that is refused; echoes of every entry of any file in two spellings; nine payloads: other spellings and forms of a nonce, one past 2^256 - 1, one garbled, one with a member twice, one with a key in another case, one with both authorizations; two payments named; one connection at a time at either server. The module also evaluates `Load` on twenty-two files with one fault each, which it must refuse, and on the sound ones. |

`CHECK_DEADLOCK FALSE` throughout: clocks and counters are bounded, requests finish and
tabs close, so the models stop where the system would idle. Symmetry is used only over
presentations, calls, addresses and tabs that no constant tells apart, and never in a
run with a liveness property.

Each module has a type invariant. Only `MCGrantStore` spends a check on it; the proofs
below establish it for `GrantStore`, `Limiter`, `PassChain` and, as far as they need it,
for the others they are about.

`KeptAlive` depends on an admission taking less time than the renewal headroom (3 s at
most). A pass ends `pass_ttl` after its challenge was issued, not after it was answered. An
admission that begins before a renewal and ends after it replaces the cookie by an older
pass, and keeps the timer the renewal set (`sw.js:119` sets one only if there is none): if it
took as long as the headroom, the pass lapses before the timer fires.

## 4. Fairness

Two specifications state liveness. `PayDoor`'s `FairSpec` (`EveryoneDecided`) assumes weak
fairness of each handler up to its decision (`Working`), and nothing of clients, facilitator,
chain or clock: the Go runtime runs a goroutine whose wait has ended, and up to there every
wait ends, because each has a timeout (the store's open timeout, the path budget of Verify,
which `SettleFails` and the failures of `VerifyAnswer` stand for). What follows has none: the
paid request is forwarded to the upstream as any other (`pay.go:646`), and the server has no
WriteTimeout on purpose (`main.go:84`), so an endless stream, or a client that stops reading,
keeps a handler for ever. `Return` is therefore not fair, a handler that was decided may
never end, and a reservation that is not released is left to lapse. Presenting is a client's
choice and is not fair either.

`DeploymentSpec` (`StopsWhenAsked`) assumes that a process does not stop between two steps
of `run()` and that the drain's time passes (`Runs`). Nothing is assumed of connections,
which may stay open for ever, of listeners, of the operator or of the signal.

## 5. What is proved

Checked by TLAPS for every value of the constants, under the named assumptions that the
modules state (`StoreAssumption`, `DoorAssumption`, `NoGrantAssumption`, `LeaseMargin`,
`LimiterAssumption`, `EgressAssumption`, `CrawlerAssumption`, `PageAssumption`,
`ActivityAssumption`, `PassAssumption`, `WorkerAssumption`, `LadderAssumption`,
`WritersAssumption`, `DeploymentAssumption`). Three of them are more than typing:

- `LeaseMargin`: two open timeouts and the path budget are shorter than a lease (2 s + 15 s
  + 2 s against 30 s in the code).
- `WritersAssumption`: no policy of a page names the nonce the gate is about to draw (16
  random bytes).
- `DeploymentAssumption`: what decoding a file gives, that is, rails with every key and
  prices in digits.

All safety properties of the passing runs are proved. The arguments:

- **The store** (`GrantStoreProofs`). `StoreInv` adds to the promises what keeps them:
  a reservation carries its holder and the clock its holder read (`ReservationDated`), no
  clock is from the future, nobody holds a grant before it is handed one. From it:
  `TypeOK`, `LeaseProtects`, `ExclusiveLease`, `Converged` and `OneCreator`,
  `CorruptFailsClosed`, `GrantIsForever`. The refinement maps an authorization to the grant
  in its record and the answers to the grants handed out: Commit that creates is `Buy`,
  Begin and Commit that find a grant are `Tell`, all else stutters.
- **The pay door** (`PayDoorProofs`). `PathInv` says how far the clock can be, at each stage,
  past what the handler read; the budgets add up to less than a lease, so
  `LeaseOutlivesPath` holds as long as no host is paused. The door drives the store as
  `GrantStore` says (`DoorDrivesStore`), so all of the above holds under it.
  `EntitlementInv` (a handler serves only a grant of its own place, and a pass is the grant
  in the file) gives `OnePassPerPayment`; `MoneyInv` (behind each grant, each Commit under
  way and each answer Verify accepts, the chain has moved the money) gives `GrantBacked`:
  both hold whatever pauses. Together with the margin: `ExclusiveSettle`,
  `NoSettleAfterGrant`, and, through `FateInv`, `NoLostSettlement`: a payment settled for a
  named authority is in the file as it was asked for, and the only ways its payer gets no
  pass are a fault of the file, and time bought that was over before the pass was made. What answers say is
  true (`ClientsAreToldTruly`): a client is only told `replay` when its payment bought a pass
  of another place or one that has run out, `grantConflict` when it bought one of another
  place, `inflight` when another presentation has begun on it. `DoorImplementsLedger` carries
  the store's refinement to the door: the doors of a fleet, together, sell each authorization
  once. `HandlersMarchOn` says that no handler is ever out of step with the store, that each
  step of its own brings it nearer its end, of which it is at most ten away, and that
  nothing else sets it back: the part of `EveryoneDecided` that is not fairness.
- **What handlers share** (`SharedProofs`).
  - Limiter: `Accounted` (admitted plus left was paid for up to the last refill) gives
    `Paced` and `NoStarvation`; the bound of the map is its own invariant.
  - Egress: slots rest on one count of the calls that hold one (`Held`). `OpensOnClusters`
    rests on `BreakerInv`: the breaker keeps the end of everything that failed, and the rest
    lies behind the window, because time only goes on; so what the loop of `Fail` counts is
    what the window holds.
  - Crawlers: an entry rests on a lookup that said what the entry says, and is dated by the
    clock read before it (`CacheRests`), so every answer does (`AnswersRest`).
  - Pages: an entry is no older than its date, because the stat comes before the read
    (`EditsAreLive`).
  - Activity: the counters agree with the entries, and each entry with what was held against
    its address (`Exact`); what `makeRoom` drops is what was quiet longest
    (`DropsOnlyTheQuietest`).
- **Passes** (`PassChainProofs`). `ChainInv`: challenges carry some gate's ttl, passes are
  dated, no pass outlives its challenge's ttl, renewals show their chain. From it
  `RootedInAdmission`, `UnbrokenChain`, `SessionCapped`, for any fleet, clocks and settings.
  `DeadlineHonoured` takes two hypotheses more: the clocks of the fleet agree to the skew
  allowed (`ClocksAgree`), and ttls are whole seconds (`WholeSecondTTLs`); it is about
  clients with a Host and a known address. Section 7 says what happens to a fraction.
- **The renewal worker** (`RenewalWorkerProofs`). `WorkerInv`: at most one admission round
  runs, it is the one tabs wait for, and each round is dated by what it was begun for. From
  it `OneAdmission` and `NotAbandoned`, wherever rounds are suspended and the worker killed.
  `ClosedInv` (what was begun before the last tab closed, and how late it can end) gives
  `ClosedBrowserBound`. `KeptInv` (while a tab is kept, either the timer fires in time for a
  renewal, or a renewal is under way that ends in time) gives `KeptAlive` under one
  hypothesis, `RenewsInTime`: a device that is awake ends an admission and a renewal within
  the headroom, no delay reaches into it, and pings are more frequent than staleness. A
  `pass_ttl` of a few seconds does not satisfy it, and is not kept alive.
- **The ladder** (`LadderProofs`). `WalkInv`: passes are earned, requests carry passes that
  are alive, nothing is decided before the end, headers are clean from the second rung on,
  and payment is only taken where there is a price. Three ways a rung can end (it answers,
  forwards or hands on) keep it and the promises; each rung is one of them. From it
  `AdmittedAsPriced`, `UpstreamSeesTheGate`, `NeverShadowed`, `ClaimsFailClosed`, for any
  rules, passes and traffic. `AddressIsReal` is a lemma about sequences of hops, of any
  length: the last hop that is not trusted was appended by a proxy that is. `GlobsAreGlobs`
  says of every pattern and path that matchGlob is the glob its comment describes.
- **The writers** (`ResponseWritersProofs`). `WritersInv`: what is on the wire and what is
  held back make up what was fed; a page that is undecided is wholly held; a tag stands
  where the document's head opens; the header map has the page's policies or the plan's; and
  a page left bare has an excuse. With it, `BodyIntact`, `TagIsEarned` and
  `NotSilentlyBare`, for any body, budget and chunking. `ElementRuns` and `NothingLoosened`
  come down to lemmas about planCSP, over all policies. `PaidInv` keeps the pass in the map
  or out of it until the final head, for `PaidSealed`.
- **Deployments** (`DeploymentProofs`). `Running`: a process runs on what its file and the
  environment come to. What `offer`, `MatchRail` and the choice of verifier then yield is
  what the file says (`AskedIsOffered`, `CredentialsStayHome`); that the price is, to the
  last digit, rests on `PriceIsExact`, about numbers read digit by digit. `Naming` (a name
  has in it what the chain goes by) gives `OneSpendOneName`, of payments whose keys are
  spelled as documented: there decoder and chain read alike (section 7 has the others). `ListenersNeverBlock`: an accept
  loop finds room for its error, as the comment at `errCh` demands (`LifeInv` counts errors
  and loops together). `ProcessesMarchOn`: each
  step a process takes by itself brings it nearer its end, and nothing sets it back, so that
  a drain ends within its grace: the part of `StopsWhenAsked` that is not fairness.
  `ProcessesAreDependable`: what a process runs with is what the rest of the gate takes for
  granted, whatever was written and inherited. Sessions outlive passes, which `PassChain`
  assumes; every rail has a network of its own, an address that can be paid at and a
  facilitator nobody listens in on, and no rule is free on any rail.

Two definitions are written as recursive functions (`Number`, the reading of digits, and the
loop of the breaker's `Recent`). What they compute is proved for all inputs, by the least
input at which they would go wrong; that such functions exist at all is proved first.

The inductive invariants were checked by TLC on the instances above before they were proved.

## 6. What is only model-checked

`EveryoneDecided` and `StopsWhenAsked`: liveness under fairness is beyond TLAPS. What is
left to TLC of them is that a handler, or a process, which can take a step of its own takes
it; that finitely many steps are enough is proved (`HandlersMarchOn`, `ProcessesMarchOn`).
The counterexamples of section 7 are TLC's as well. That `Load` refuses what it must is evaluated
over the faulty files of `MCDeployment`. The type invariants of `Lifecycle`, `Ladder` and the
writers are proved as far as the theorems need them.

## 7. Where the code and its words differ

Shown by a run:

- `sw.js:239`: `renew()` schedules the next renewal when its round ends, without looking at
  `stopped`. A stop during a round is therefore followed by another renewal, although
  `sw.js:46` says only a start from a fresh page resumes renewal (`MCRenewalStopped`).
- `inject.go:370`: rules 6 and 7 let the inline loader run, and nothing sees to the script
  it asks for: under a policy of hosts, nonces, hashes or 'unsafe-inline' without 'self' and
  'strict-dynamic' the page is tagged and never renews. Rule 4, tried first, likewise takes
  the external script under 'self' beside 'strict-dynamic', where 'self' counts for nothing
  (`MCRenewalBlocked`).
- `inject.go:373`: when one policy has only 'unsafe-inline' and another beside it needs a
  hash, rule 7 adds the hash to both, which disables the page's own inline scripts: what
  the comment of rule 6 calls actively harmful (`MCScriptsDisabled`).

Met while modelling; the models do what the code does, and where a promise had to be stated
around it, the item names the promise:

- `pay.go:529`: without `public_hosts`, a request with an empty Host is named by no authority
  (`gate.go:884`). A payment in it is verified and settled, and only then does Commit refuse
  its grant (`store.go:107`): the answer is `grantFailed`, nothing records the settlement, and
  a retry settles or fails again. `docs/operating.md:453` has recovery closed "after a known
  successful settlement". `NoLostSettlement` is therefore stated of a named authority.
- `pay.go:529`, `pay.go:548`: after a pause longer than the lease two handlers can settle
  one authorization; one is given the other's grant, and both add to `paidValue`.
- `callback.go:134`: a shut door's "not charged" is true of this presentation, not of
  an earlier one of the same authorization.
- `verifier.go:187`, `wire.go:136`: the decoder takes a key in any case, and the last of
  several, while the payment is sent on as it came (`wire.go:225`). A payment with a second
  key in another case is named by one member, and spent by the other at a facilitator that
  keeps to the case: one authorization can then have many names. `OneSpendOneName` is
  therefore stated of keys that are spelled as documented, and `PayDoor`'s authorizations
  are what payments are named by; the chain still spends each once.
- `pay.go:621`: when the clock passes the end of the time bought between the two readings of
  `servePaidGrant`, the answer is `grantFailed`, although the grant is in the file.
- `config.go:495`: the values of facilitator headers are expanded by os.Expand, which also
  takes a bare `$NAME`, where the comment above it (`config.go:485`) has only `${NAME}`.
- `pay.go:253`: Retry-After is cut, not rounded up: it can be up to a second early. It
  changes no state and is left out of `Egress`.
- `callback.go:340`: a round trip ended by the client's own cancellation counts as a
  facilitator failure for the breaker.
- `token.go:117`: a `pass_ttl` with a fraction of a second can give an expiry equal to the
  issue time, which Mint refuses; the answer is a 500.
- `token.go:120`: a root issued by a gate whose clock is ahead can lie after its renewal,
  which Mint refuses likewise.
- `injector.go:84`: a document whose head ends exactly behind the buffering budget is left
  without the script when the chunk ends there.
- `main.go:164`: the admin server's drain is called sub-second, but shares the gate's grace
  and has nothing of its own to hurry it: a slow admin request can use up all of it.
- `config.go`: the default grace of 5 s is shorter than the 15 s a settlement may take, so
  that a shutdown may cut one off. It is then what `PayDoor` calls a crash.
- `main.go`: a signal before Notify ends the process at once, without a drain.

## 8. What is not modelled, and why

- Signatures, hashes, HMAC and the proof of work itself: assumed perfect; a hash search has
  no interleavings. Key rotation of passes.
- JSON, headers' grammars, x402 wire types, the request classifier: parsing without state. A
  value that does not parse is one of the outcomes the models branch on. Of planCSP, a
  directive named twice, and 'none' beside other sources, are not told apart; a sandbox in a
  meta policy, which browsers ignore, is taken to block, as the code takes it.
- Of the configuration: the page files' presence, the form of public hosts and addresses,
  the crawlers' names, the hints for unknown keys, and unknown keys
  within a rule or a rail (refused alike). Header values are those after expansion. A rail's `rpc_url` is only published.
- Hosted fetchers and embedded crawler ranges: tables; a free choice in `Ladder`.
- The wait page, refusals, widget, admin pages and metrics exposition: rendering.
- Policies in the head are those of the whole head; the code looks for its end by the
  first `</head` or `<body` (`injector.go:215`), which may stand in a comment and hide what
  is behind it.
- A tab that opens while the worker waits to be told which are open.
- Which requests may carry an injected response (`injectableRequest`), and upgrades that
  leave the writers by hijacking the connection.
- The worker's fallback in the page when no worker is available, and the retirement of a
  worker whose script changed.
- The healthcheck probe, packaging and the acceptance tests.

## 9. Plan

Done, in this order: the store and its ledger; the pay door; its guards; passes; the
renewal worker; the crawler cache; the ladder; the writers; the log; then addresses and
globs, the page cache, planCSP, configuration, the terms of payment, the life of the
process and redeployments; proofs of all safety properties of the passing runs.

Then what clients are told, the ledger under the door, the measure of the pay door's
handlers, and what can be taken for granted of a configuration that was accepted.

Next, to model: key rotation across a fleet; the page's fallback without a worker; the
request classifier.
