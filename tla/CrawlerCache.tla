----------------------------- MODULE CrawlerCache -----------------------------
(****************************************************************************)
(* crawler/verifier.go verifyProvider: authenticating one provider's        *)
(* crawlers by forward-confirmed reverse DNS, past the embedded ranges.     *)
(* Requests share a bounded cache, guarded by a lock that is not held over  *)
(* the lookup, and a bounded number of lookups.  DNS itself (external) may  *)
(* change its mind at any time, and may not answer.                         *)
(****************************************************************************)
EXTENDS Integers, FiniteSets

CONSTANTS
  Req,          \* requests that claim to be the crawler
  Addr,         \* client addresses outside the embedded ranges
  Block,        \* their /64s; an IPv4 address is a block of its own
  BlockOf,      \* BlockOf[a]: the block negative answers about a are kept under
  From,         \* From[r]: the address request r comes from
  CacheTTL,     \* dnsCacheTTL, 4 h
  Timeout,      \* the lookup timeout, 2 s
  MaxEntries,   \* maxCacheEntries, 8192
  MaxLookups,   \* capacity of limit, 16
  MaxClock       \* bound: the clock stops here

ASSUME CrawlerAssumption ==
  /\ From \in [Req -> Addr] /\ BlockOf \in [Addr -> Block]
  /\ Addr \cap Block = {}
  /\ {CacheTTL, MaxEntries, MaxLookups} \subseteq Nat \ {0}
  /\ {Timeout, MaxClock} \subseteq Nat

VARIABLES
  clock,
  dns,      \* what DNS says of each address
  cache,    \* what each key holds: the expiry and, history, the lookup behind it
  pc, asked,  \* where each request stands, and the clock it read on entry
  answer    \* what it was told, when, and the lookup that rests on

crawlerVars == <<clock, dns, cache, pc, asked, answer>>

\* Positive answers are kept by address, negative ones by block.
CacheKey == Addr \cup Block
\* A lookup: of which address, when, and what DNS said ("" for no answer).
Lookup == [of : Addr, at : Nat, said : {"yes", "no", ""}]

NoEntry == [expires |-> 0]
Entry == [expires : Nat, lookup : Lookup]
CacheKeys == {k \in CacheKey : cache[k] # NoEntry}

NoAnswer == [verdict |-> "none"]
Answer == [verdict : {"verified", "unverified", "indeterminate"},
           given : Nat, lookup : Lookup]

Looking == {r \in Req : pc[r] \in {"lookup", "store"}}

CrawlerTypeOK ==
  /\ clock \in Nat
  /\ dns \in [Addr -> BOOLEAN]
  /\ cache \in [CacheKey -> {NoEntry} \cup Entry]
  /\ pc \in [Req -> {"idle", "limit", "lookup", "store", "done"}]
  /\ asked \in [Req -> 0 .. MaxClock]
  /\ answer \in [Req -> {NoAnswer} \cup Answer]
  /\ Cardinality(Looking) <= MaxLookups

CrawlerInit ==
  /\ clock = 0
  /\ dns \in [Addr -> BOOLEAN]
  /\ cache = [k \in CacheKey |-> NoEntry]
  /\ pc = [r \in Req |-> "idle"]
  /\ asked = [r \in Req |-> 0]
  /\ answer = [r \in Req |-> NoAnswer]

Go(r, next) == pc' = [pc EXCEPT ![r] = next]

Tell(r, v, l) == answer' = [answer EXCEPT ![r] =
                              [verdict |-> v, given |-> clock, lookup |-> l]]
Looked(r, said) == [of |-> From[r], at |-> clock, said |-> said]

-----------------------------------------------------------------------------
\* The first lock section: the cached positive for the address, then the cached
\* negative for its block, if it has not expired; else the lookup is to be made.
Live(k, t) == cache[k] # NoEntry /\ t < cache[k].expires

Consult(r) ==
  LET a == From[r]
  IN  /\ pc[r] = "idle"
      /\ asked' = [asked EXCEPT ![r] = clock]
      /\ IF Live(a, clock)
         THEN Go(r, "done") /\ Tell(r, "verified", cache[a].lookup)
         ELSE IF Live(BlockOf[a], clock)
         THEN Go(r, "done") /\ Tell(r, "unverified", cache[BlockOf[a]].lookup)
         ELSE Go(r, "limit") /\ UNCHANGED answer
      /\ UNCHANGED <<clock, dns, cache>>

\* A place among the lookups, waited for no longer than the timeout.
Acquire(r) ==
  /\ pc[r] = "limit" /\ Cardinality(Looking) < MaxLookups
  /\ Go(r, "lookup")
  /\ UNCHANGED <<clock, dns, cache, asked, answer>>

\* No place before the timeout, or before the client went away.
Saturated(r) ==
  /\ pc[r] = "limit" /\ Cardinality(Looking) >= MaxLookups
  /\ Go(r, "done") /\ Tell(r, "indeterminate", Looked(r, ""))
  /\ UNCHANGED <<clock, dns, cache, asked>>

\* A slip: a failed lookup is stored like any other.
LookUpOutage(r) ==
  /\ pc[r] = "lookup"
  /\ Go(r, "store")
  /\ \/ dns[From[r]] /\ Tell(r, "verified", Looked(r, "yes"))
     \/ ~ dns[From[r]] /\ Tell(r, "unverified", Looked(r, "no"))
     \/ Tell(r, "indeterminate", Looked(r, ""))
  /\ UNCHANGED <<clock, dns, cache, asked>>

\* verifyDNS answers, or fails for a reason that says nothing of the address.
\* Verified by the very address alone, whatever else its name resolves to.
LookUp(r) ==
  /\ pc[r] = "lookup"
  /\ \/ dns[From[r]] /\ Tell(r, "verified", Looked(r, "yes")) /\ Go(r, "store")
     \/ ~ dns[From[r]] /\ Tell(r, "unverified", Looked(r, "no")) /\ Go(r, "store")
     \/ Tell(r, "indeterminate", Looked(r, "")) /\ Go(r, "done")
  /\ UNCHANGED <<clock, dns, cache, asked>>

\* The second lock section: an entry gives way if the cache is full, and the
\* verdict is kept for as long after the clock read on entry.
StoreKey(a, verdict) == IF verdict = "unverified" THEN BlockOf[a] ELSE a

Evictions == IF Cardinality(CacheKeys) >= MaxEntries THEN CacheKeys ELSE {}

Store(r) ==
  LET key   == StoreKey(From[r], answer[r].verdict)
      entry == [expires |-> asked[r] + CacheTTL, lookup |-> answer[r].lookup]
      Kept(old) == [k \in CacheKey |-> IF k = key THEN entry
                                  ELSE IF k = old THEN NoEntry ELSE cache[k]]
  IN  /\ pc[r] = "store"
      /\ Go(r, "done")
      /\ IF Evictions = {} THEN cache' = Kept(key)
                           ELSE \E old \in Evictions : cache' = Kept(old)
      /\ UNCHANGED <<clock, dns, asked, answer>>

\* The next request from the same connection.
Again(r) ==
  /\ pc[r] = "done"
  /\ Go(r, "idle") /\ answer' = [answer EXCEPT ![r] = NoAnswer]
  /\ asked' = [asked EXCEPT ![r] = 0]
  /\ UNCHANGED <<clock, dns, cache>>

-----------------------------------------------------------------------------
\* DNS changes what it says of an address.
Republish(a) ==
  /\ dns' = [dns EXCEPT ![a] = ~ @]
  /\ UNCHANGED <<clock, cache, pc, asked, answer>>

\* No request waits for a place or for DNS past its timeout.
CrawlerTick ==
  /\ clock < MaxClock
  /\ \A r \in Req : pc[r] \in {"limit", "lookup"} => clock < asked[r] + Timeout
  /\ clock' = clock + 1
  /\ UNCHANGED <<dns, cache, pc, asked, answer>>

Handler(r) == Consult(r) \/ Acquire(r) \/ Saturated(r) \/ LookUp(r) \/ Store(r)

CrawlerNext ==
  \/ \E r \in Req : Handler(r) \/ Again(r)
  \/ \E a \in Addr : Republish(a)
  \/ CrawlerTick

CrawlerSpec == CrawlerInit /\ [][CrawlerNext]_crawlerVars

-----------------------------------------------------------------------------
(* What verification promises.                                              *)

\* Every verdict rests on what DNS said: verified, on a yes about that very
\* address, although refusals are shared by a whole block; unverified, on a no
\* about its block; and an outage is never remembered as either.  No verdict is older
\* than the cache's ttl, however slow the lookup that stored it: an entry is dated by
\* the clock read before the lookup, never after it.
AnswersRest ==
  \A r \in Req : answer[r] # NoAnswer =>
    LET l == answer[r].lookup
    IN  /\ CASE answer[r].verdict = "verified" -> l.said = "yes" /\ l.of = From[r]
             [] answer[r].verdict = "unverified" ->
                  l.said = "no" /\ BlockOf[l.of] = BlockOf[From[r]]
             [] answer[r].verdict = "indeterminate" ->
                  l.said = "" /\ l.of = From[r] /\ l.at = answer[r].given
        /\ answer[r].given - l.at < CacheTTL
==============================================================================
