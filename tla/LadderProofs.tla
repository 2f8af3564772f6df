----------------------------- MODULE LadderProofs -----------------------------
(* What the ladder promises holds for every set of paths, rules and clients,  *)
(* every number of passes alive, and every order in which rules are deployed. *)
(* A pass is worth what was earned for it, a request carries only passes that *)
(* are alive, and nothing is decided before the request is done: the rest     *)
(* follows rung by rung.  Whose address a request has is a lemma on sequences *)
(* of hops: the last one that is not trusted was appended by one that is.     *)
EXTENDS Ladder, SequenceTheorems, WellFoundedInduction, TLAPS

\* Passes are earned: what one says was solved for or bought, where it says.
Earnt(c) ==
  /\ c.kind \in {"pow", "paid"}
  /\ c.kind = "pow" => c.scope = All
  /\ <<c.aud, c.scope>> \in earned
AllEarnt == \A c \in passes : Earnt(c)

\* What a request carries.
Carried ==
  rung # "idle" =>
    /\ DOMAIN q.cookies \subseteq 1..2
    /\ \A i \in DOMAIN q.cookies : q.cookies[i] \in passes \cup {BadPass}

Undecided == rung # "done" => decision = "none" /\ upstream = Nothing

\* Past the first rung, nothing the client wrote stands in the gate's own headers.
Stripped == {"status", "action", "receipt", "offer"}
Cleaned ==
  /\ hdr \in [Header -> Writer]
  /\ rung \notin {"idle", "canonical", "done"} => \A h \in Stripped : hdr[h] = "absent"

PricedHere == rung \in {"payment", "settle"} => Priced(q.path) # {}

WalkInv == AllEarnt /\ Carried /\ Undecided /\ Cleaned /\ PricedHere

-----------------------------------------------------------------------------
(* Which cookie is taken for the pass.                                      *)

\* A set of places in a request's cookies has a first one.
LEMMA MinOfPlaces ==
  ASSUME NEW S, S \subseteq 1..2, S # {}
  PROVE  Min(S) \in S
<1>1. \E x \in S : \A y \in S : x =< y
  <2>1. CASE 1 \in S
    BY <2>1
  <2>2. CASE 1 \notin S
    <3>1. \A x \in S : x = 2
      BY <2>2
    <3>2. 2 \in S
      BY <3>1
    <3> QED BY <3>1, <3>2
  <2> QED BY <2>1, <2>2
<1> QED BY <1>1 DEF Min

\* The pass is one of the cookies that verify here, and one that opens the path
\* or was solved for, if there is any such.
Opening ==
  {i \in Usable : q.cookies[i].kind = "pow" \/ ScopeCovers(q.cookies[i], q.path)}

LEMMA ThePass ==
  ASSUME Carried, rung # "idle", Usable # {}
  PROVE  /\ \E i \in Usable : ValidPass = q.cookies[i]
         /\ Opening # {} => \E i \in Opening : ValidPass = q.cookies[i]
<1>1. Usable \subseteq 1..2
  BY DEF Carried, Usable
<1>2. Opening \subseteq Usable
  BY DEF Opening
<1>3. ValidPass = q.cookies[Min(IF Opening = {} THEN Usable ELSE Opening)]
  BY DEF ValidPass, Opening
<1>4. CASE Opening = {}
  <2>1. Min(Usable) \in Usable
    BY <1>1, MinOfPlaces
  <2> QED BY <1>3, <1>4, <2>1
<1>5. CASE Opening # {}
  <2>1. Min(Opening) \in Opening
    BY <1>1, <1>2, <1>5, MinOfPlaces
  <2> QED BY <1>2, <1>3, <1>5, <2>1
<1> QED BY <1>4, <1>5

\* What is taken for the pass is a pass alive, earned at this authority.
LEMMA ThePassIsEarnt ==
  ASSUME Carried, AllEarnt, rung # "idle", ValidPass # BadPass
  PROVE  /\ ValidPass \in passes
         /\ Earnt(ValidPass)
         /\ ValidPass.aud = q.host
<1>1. Usable # {}
  BY DEF ValidPass
<1>2. PICK i \in Usable : ValidPass = q.cookies[i]
  BY <1>1, ThePass
<1>3. i \in DOMAIN q.cookies /\ q.cookies[i] # BadPass /\ q.cookies[i].aud = q.host
  BY DEF Usable
<1> QED BY <1>2, <1>3 DEF Carried, AllEarnt

\* A cookie that opens the path is not passed over for one that does not.
LEMMA ThePassOpens ==
  ASSUME Carried, AllEarnt, rung # "idle",
         NEW i \in DOMAIN q.cookies, Opens(q.cookies[i])
  PROVE  ValidPass # BadPass /\ ScopeCovers(ValidPass, q.path)
<1>1. i \in Opening
  BY DEF Opens, Usable, Opening
<1>2. Usable # {} /\ Opening # {}
  BY <1>1 DEF Opening
<1>3. PICK j \in Opening : ValidPass = q.cookies[j]
  BY <1>2, ThePass
<1>4. j \in DOMAIN q.cookies /\ q.cookies[j] # BadPass
  BY DEF Opening, Usable
<1>5. q.cookies[j].kind = "pow" => q.cookies[j].scope = All
  BY <1>4 DEF Carried, AllEarnt, Earnt
<1>6. ScopeCovers(q.cookies[j], q.path)
  BY <1>5 DEF Opening, ScopeCovers
<1> QED BY <1>3, <1>4, <1>6

-----------------------------------------------------------------------------
(* The walk.                                                                *)

LEMMA InitWalk == Init => WalkInv
<1> SUFFICES ASSUME Init PROVE WalkInv
  OBVIOUS
<1>1. hdr \in [Header -> Writer]
  BY Zenon DEF Init, Writer
<1> QED BY <1>1 DEF Init, WalkInv, AllEarnt, Carried, Undecided, Cleaned, PricedHere

\* A step that leaves passes, rules and the request alone keeps what rests on them,
\* as long as it answers, forwards or hands on a request under way.
LEMMA WorldKept ==
  ASSUME WalkInv, rung # "idle", rung' # "idle", UNCHANGED <<world, q>>
  PROVE  AllEarnt' /\ Carried'
<1>1. passes' = passes /\ earned' = earned /\ q' = q
  BY DEF world
<1>2. AllEarnt'
  BY <1>1, Zenon DEF WalkInv, AllEarnt, Earnt
<1>3. Carried'
  BY <1>1, Zenon DEF WalkInv, Carried
<1> QED BY <1>2, <1>3

\* An answered request.
LEMMA Answered ==
  ASSUME WalkInv, rung # "idle", UNCHANGED <<world, q>>, NEW d, Answer(d)
  PROVE  WalkInv'
<1>1. AllEarnt' /\ Carried'
  BY WorldKept DEF Answer
<1>2. Undecided' /\ Cleaned' /\ PricedHere'
  BY DEF WalkInv, Answer, Undecided, Cleaned, PricedHere
<1> QED BY <1>1, <1>2 DEF WalkInv

\* A request handed on past the first two rungs, but to the doors of payment.
LEMMA HandedOn ==
  ASSUME WalkInv, rung \notin {"idle", "canonical", "done"}, UNCHANGED <<world, q>>,
         NEW next \in {"authority", "bypass", "identity", "pass", "door"}, Leave(next)
  PROVE  WalkInv'
<1>1. AllEarnt' /\ Carried'
  BY WorldKept DEF Leave
<1>2. Undecided' /\ Cleaned' /\ PricedHere'
  BY DEF WalkInv, Leave, Undecided, Cleaned, PricedHere
<1> QED BY <1>1, <1>2 DEF WalkInv

\* A forwarded request.
LEMMA Forwarded ==
  ASSUME WalkInv, rung # "idle", UNCHANGED <<world, q>>,
         NEW d, NEW sent \in [Header -> Writer], NEW sealed, Forward(d, sent, sealed)
  PROVE  WalkInv'
<1>1. AllEarnt' /\ Carried'
  BY WorldKept DEF Forward
<1>2. Undecided' /\ Cleaned' /\ PricedHere'
  BY DEF WalkInv, Forward, Undecided, Cleaned, PricedHere
<1> QED BY <1>1, <1>2 DEF WalkInv

LEMMA StatedHeaders ==
  ASSUME Cleaned
  PROVE  Stated \in [Header -> Writer]
BY DEF Cleaned, Stated, Header, Writer

LEMMA SoldHeaders ==
  ASSUME Cleaned
  PROVE  [Stated EXCEPT !["pass"] = "absent", !["signature"] = "absent"] \in [Header -> Writer]
BY StatedHeaders DEF Writer

\* Prices move with the rules and nothing else.
LEMMA PricesKept ==
  ASSUME UNCHANGED <<world, q>>
  PROVE  /\ Priced(q.path)' = Priced(q.path)
         /\ \A c : ScopeCovers(c, q.path)' = ScopeCovers(c, q.path)
<1>1. rules' = rules /\ q' = q
  BY DEF world
<1>2. Priced(q.path)' = Priced(q.path)
  BY <1>1 DEF Priced, SelectInSeq
<1>3. \A c : ScopeCovers(c, q.path)' = ScopeCovers(c, q.path)
  BY <1>1, <1>2 DEF ScopeCovers
<1> QED BY <1>2, <1>3

-----------------------------------------------------------------------------
(* The promises, kept by each way a rung can end.                           *)

Claimed == q.shape # "none" /\ q.claim # "none" /\ AddressOf(q.from) # NoAddress

Promises == AdmittedAsPriced /\ UpstreamSeesTheGate /\ NeverShadowed /\ ClaimsFailClosed

LEMMA InitPromises == Init => Promises
<1> SUFFICES ASSUME Init PROVE Promises
  OBVIOUS
<1>1. decision = "none" /\ rung = "idle" /\ upstream.reached = FALSE
  BY DEF Init, Nothing
<1> QED BY <1>1 DEF Promises, AdmittedAsPriced, UpstreamSeesTheGate, NeverShadowed,
                    ClaimsFailClosed

\* Nothing is promised of a request that nothing has decided, before its pass is looked at.
LEMMA Unpromised ==
  ASSUME decision' = "none", upstream' = Nothing,
         rung' \notin {"pass", "door", "payment", "settle"}
  PROVE  Promises'
<1>1. upstream'.reached = FALSE
  BY DEF Nothing
<1>2. AdmittedAsPriced' /\ UpstreamSeesTheGate' /\ NeverShadowed'
  BY <1>1 DEF AdmittedAsPriced, UpstreamSeesTheGate, NeverShadowed
<1>3. ClaimsFailClosed'
  BY DEF ClaimsFailClosed
<1> QED BY <1>2, <1>3 DEF Promises

LEMMA AnswerPromises ==
  ASSUME WalkInv, rung \notin {"idle", "done"}, UNCHANGED <<world, q>>,
         NEW d, Answer(d), d \notin {"pass-pow", "pass-paid"},
         d \in {"wait-page", "payment-required"} => ~ Claimed
  PROVE  Promises'
<1>1. decision' = d /\ rung' = "done" /\ upstream' = Nothing /\ q' = q
  BY DEF Answer, WalkInv, Undecided
<1>2. upstream'.reached = FALSE
  BY <1>1 DEF Nothing
<1>3. AdmittedAsPriced' /\ UpstreamSeesTheGate' /\ NeverShadowed'
  BY <1>1, <1>2 DEF AdmittedAsPriced, UpstreamSeesTheGate, NeverShadowed
<1>4. ClaimsFailClosed'
  BY <1>1 DEF ClaimsFailClosed, Claimed, AddressOf, Peer, Hops
<1> QED BY <1>3, <1>4 DEF Promises

LEMMA LeavePromises ==
  ASSUME WalkInv, rung \notin {"idle", "done"}, UNCHANGED <<world, q>>,
         NEW next, next # "done", Leave(next),
         next \in {"pass", "door", "payment", "settle"} => ~ Claimed,
         next \in {"door", "payment", "settle"} =>
           ~ \E i \in DOMAIN q.cookies : Opens(q.cookies[i])
  PROVE  Promises'
<1>1. decision' = "none" /\ rung' = next /\ upstream' = Nothing /\ q' = q
  BY DEF Leave, WalkInv, Undecided
<1>2. upstream'.reached = FALSE
  BY <1>1 DEF Nothing
<1>3. AdmittedAsPriced' /\ UpstreamSeesTheGate'
  BY <1>1, <1>2 DEF AdmittedAsPriced, UpstreamSeesTheGate
<1>4. NeverShadowed'
  BY <1>1, PricesKept DEF NeverShadowed, Opens
<1>5. ClaimsFailClosed'
  BY <1>1 DEF ClaimsFailClosed, Claimed, AddressOf, Peer, Hops
<1> QED BY <1>3, <1>4, <1>5 DEF Promises

\* What leaves is what the gate wrote, and sealed if and only if it was sold.
LEMMA ForwardSeen ==
  ASSUME NEW d, NEW sent \in [Header -> Writer], NEW sealed \in BOOLEAN,
         Forward(d, sent, sealed),
         sent["action"] = "absent", sent["status"] # "client",
         sent["status"] = "gate" => d \notin {"bypass-path", "bypass-ip", "cors-preflight"},
         sealed <=> d = "pass-paid"
  PROVE  UpstreamSeesTheGate'
<1>1. /\ decision' = d
      /\ upstream'.sealed = sealed
      /\ upstream'.sees = [h \in Header |->
                     IF h \in {"pass", "signature", "offer", "receipt"}
                     THEN "absent" ELSE Readdressed(sent)[h]]
  BY DEF Forward
<1>2. \A h \in Header : /\ h # "address" => Readdressed(sent)[h] = sent[h]
                        /\ Readdressed(sent)["address"] \in {"absent", "gate"}
  BY DEF Readdressed, Header
<1>3. ASSUME NEW h \in Header
      PROVE  /\ upstream'.sees[h] # "client"
             /\ upstream'.sees[h] = "gate" => \/ h = "address"
                                              \/ h = "status" /\ sent["status"] = "gate"
  BY <1>1, <1>2, <1>3 DEF Header
<1> QED BY <1>1, <1>3 DEF UpstreamSeesTheGate

LEMMA ForwardPromises ==
  ASSUME WalkInv, rung \notin {"idle", "done"}, UNCHANGED <<world, q>>,
         NEW d, NEW sent \in [Header -> Writer], NEW sealed \in BOOLEAN,
         Forward(d, sent, sealed),
         sent["action"] = "absent", sent["status"] # "client",
         sent["status"] = "gate" => d \notin {"bypass-path", "bypass-ip", "cors-preflight"},
         sealed <=> d = "pass-paid",
         d \notin {"wait-page", "payment-required"},
         d \in {"pass-pow", "pass-paid"} => ~ Claimed,
         d = "pass-pow" => <<q.host, All>> \in earned,
         d = "pass-paid" => Priced(q.path) # {} /\ <<q.host, Priced(q.path)>> \in earned
  PROVE  Promises'
<1>1. decision' = d /\ rung' = "done" /\ q' = q /\ earned' = earned
  BY DEF Forward, world
<1>2. UpstreamSeesTheGate'
  BY ForwardSeen
<1>3. AdmittedAsPriced'
  BY <1>1, PricesKept DEF AdmittedAsPriced
<1>4. NeverShadowed'
  BY <1>1 DEF NeverShadowed
<1>5. ClaimsFailClosed'
  BY <1>1 DEF ClaimsFailClosed, Claimed, AddressOf, Peer, Hops
<1> QED BY <1>2, <1>3, <1>4, <1>5 DEF Promises

-----------------------------------------------------------------------------
(* The rungs.                                                               *)

LadderInv == WalkInv /\ Promises

\* What the pass rung and those below it know: the claim is no obstacle.
LEMMA Unclaimed ==
  ASSUME LadderInv, rung \in {"pass", "door", "payment", "settle"}
  PROVE  ~ Claimed
BY DEF LadderInv, Promises, ClaimsFailClosed, Claimed

LEMMA ArriveStep ==
  ASSUME LadderInv, rung = "idle", NEW r \in Request, Arrive(r)
  PROVE  LadderInv'
<1>1. passes' = passes /\ earned' = earned /\ q' = r /\ rung' = "canonical"
  BY DEF Arrive, world
<1>2. AllEarnt'
  BY <1>1, Zenon DEF LadderInv, WalkInv, AllEarnt, Earnt
<1>3. Carried'
  <2>1. r.cookies \in UNION {[1..m -> passes \cup {BadPass}] : m \in 0..2}
    BY DEF Request, SeqOf
  <2>2. PICK m \in 0..2 : r.cookies \in [1..m -> passes \cup {BadPass}]
    BY <2>1
  <2>3. DOMAIN r.cookies \subseteq 1..2
    BY <2>2
  <2>4. \A i \in DOMAIN r.cookies : r.cookies[i] \in passes \cup {BadPass}
    BY <2>2
  <2> QED BY <1>1, <2>3, <2>4, Zenon DEF Carried
<1>4. Cleaned'
  <2>1. hdr' \in [Header -> Writer]
    BY DEF Arrive, Writer
  <2> QED BY <1>1, <2>1 DEF Cleaned
<1>5. Undecided' /\ PricedHere'
  BY <1>1 DEF Arrive, Undecided, PricedHere
<1>6. Promises'
  BY <1>1, Unpromised DEF Arrive
<1> QED BY <1>2, <1>3, <1>4, <1>5, <1>6 DEF LadderInv, WalkInv

LEMMA CanonicalStep == LadderInv /\ Canonical => LadderInv'
<1> SUFFICES ASSUME LadderInv, Canonical PROVE LadderInv'
  OBVIOUS
<1>1. rung = "canonical" /\ rung' \in {"done", "authority"} /\ upstream' = Nothing
  BY DEF Canonical, LadderInv, WalkInv, Undecided
<1>2. AllEarnt' /\ Carried'
  BY <1>1, WorldKept DEF Canonical, LadderInv
<1>3. Cleaned'
  BY <1>1 DEF Canonical, Without, LadderInv, WalkInv, Cleaned, Header, Writer, Stripped
<1>4. Undecided' /\ PricedHere'
  BY <1>1 DEF Canonical, LadderInv, WalkInv, Undecided, PricedHere
<1>5. Promises'
  <2>1. decision' \in {"none", "non-canonical-path"} /\ upstream'.reached = FALSE
    BY <1>1 DEF Canonical, LadderInv, WalkInv, Undecided, Nothing
  <2> QED BY <1>1, <2>1 DEF Promises, AdmittedAsPriced, UpstreamSeesTheGate, NeverShadowed,
                    ClaimsFailClosed
<1> QED BY <1>2, <1>3, <1>4, <1>5 DEF LadderInv, WalkInv

LEMMA AuthorityStep == LadderInv /\ Authority => LadderInv'
<1> SUFFICES ASSUME LadderInv, Authority PROVE LadderInv'
  OBVIOUS
<1>1. CASE \E d \in {"unknown-authority", "own-endpoint"} : Answer(d)
  BY <1>1, Answered, AnswerPromises DEF LadderInv, Authority
<1>2. CASE Leave("bypass")
  BY <1>2, HandedOn, LeavePromises DEF LadderInv, Authority
<1> QED BY <1>1, <1>2 DEF Authority

LEMMA BypassStep == LadderInv /\ Bypass => LadderInv'
<1> SUFFICES ASSUME LadderInv, Bypass PROVE LadderInv'
  OBVIOUS
<1>1. rung = "bypass" /\ UNCHANGED <<world, q>>
  BY DEF Bypass
<1>2. /\ hdr \in [Header -> Writer]
      /\ hdr["action"] = "absent" /\ hdr["status"] = "absent"
  BY <1>1 DEF LadderInv, WalkInv, Cleaned, Stripped
<1>3. CASE \E d \in {"bypass-path", "bypass-ip", "cors-preflight"} : Forward(d, hdr, FALSE)
  BY <1>1, <1>2, <1>3, Forwarded, ForwardPromises DEF LadderInv
<1>4. CASE Leave("identity")
  BY <1>1, <1>4, HandedOn, LeavePromises DEF LadderInv
<1> QED BY <1>3, <1>4 DEF Bypass

LEMMA IdentityStep == LadderInv /\ Identity => LadderInv'
<1> SUFFICES ASSUME LadderInv, Identity PROVE LadderInv'
  OBVIOUS
<1>1. rung = "identity" /\ UNCHANGED <<world, q>>
  BY DEF Identity
<1>2. /\ Stated \in [Header -> Writer]
      /\ Stated["action"] = "absent" /\ Stated["status"] = "gate"
  BY <1>1, StatedHeaders DEF LadderInv, WalkInv, Cleaned, Stripped, Stated, Header
<1>3. CASE \E d \in {"bypass-crawler", "bypass-hosted"} : Forward(d, Stated, FALSE)
  BY <1>1, <1>2, <1>3, Forwarded, ForwardPromises DEF LadderInv
<1>4. CASE \E d \in {"crawler-verification-unavailable", "crawler-unverified",
                     "hosted-refusal", "hosted-unverified"} : Answer(d)
  BY <1>1, <1>4, Answered, AnswerPromises DEF LadderInv
<1>5. CASE Leave("pass") /\ ~ Claimed
  BY <1>1, <1>5, HandedOn, LeavePromises DEF LadderInv
<1> QED BY <1>3, <1>4, <1>5 DEF Identity, Claimed

LEMMA PassStep == LadderInv /\ PassRung => LadderInv'
<1> SUFFICES ASSUME LadderInv, PassRung PROVE LadderInv'
  OBVIOUS
<1>1. rung = "pass" /\ UNCHANGED <<world, q>> /\ ~ Claimed
  BY Unclaimed DEF PassRung
<1>2. /\ Stated \in [Header -> Writer]
      /\ Stated["action"] = "absent" /\ Stated["status"] = "gate"
  BY <1>1, StatedHeaders DEF LadderInv, WalkInv, Cleaned, Stripped, Stated, Header
<1>3. CASE ValidPass # BadPass /\ ScopeCovers(ValidPass, q.path)
  <2>1. Earnt(ValidPass) /\ ValidPass.aud = q.host
    BY <1>1, <1>3, ThePassIsEarnt DEF LadderInv, WalkInv
  <2>2. CASE ValidPass.kind = "paid"
    <3>1. Forward("pass-paid", Stated, TRUE)
      BY <1>3, <2>2 DEF PassRung
    <3>2. Priced(q.path) # {} /\ <<q.host, Priced(q.path)>> \in earned
      BY <1>3, <2>1, <2>2 DEF ScopeCovers, Earnt
    <3> QED BY <1>1, <1>2, <3>1, <3>2, Forwarded, ForwardPromises DEF LadderInv
  <2>3. CASE ValidPass.kind # "paid"
    <3>1. Forward("pass-pow", Stated, FALSE)
      BY <1>3, <2>3 DEF PassRung
    <3>2. <<q.host, All>> \in earned
      BY <2>1, <2>3 DEF Earnt
    <3> QED BY <1>1, <1>2, <3>1, <3>2, Forwarded, ForwardPromises DEF LadderInv
  <2> QED BY <2>2, <2>3
<1>4. CASE ~ (ValidPass # BadPass /\ ScopeCovers(ValidPass, q.path))
  <2>1. Leave("door")
    BY <1>4 DEF PassRung
  <2>2. ~ \E i \in DOMAIN q.cookies : Opens(q.cookies[i])
    BY <1>1, <1>4, ThePassOpens DEF LadderInv, WalkInv
  <2> QED BY <1>1, <2>1, <2>2, HandedOn, LeavePromises DEF LadderInv
<1> QED BY <1>3, <1>4

\* The doors of payment are only opened where there is a price.
LEMMA PaymentOffered ==
  ASSUME WalkInv, rung \in {"door", "payment"}, UNCHANGED <<world, q>>,
         NEW next \in {"payment", "settle"}, Leave(next), Priced(q.path) # {}
  PROVE  WalkInv'
<1>1. AllEarnt' /\ Carried'
  BY WorldKept DEF Leave
<1>2. PricedHere'
  BY PricesKept DEF PricedHere
<1>3. Undecided' /\ Cleaned'
  BY DEF WalkInv, Leave, Undecided, Cleaned
<1> QED BY <1>1, <1>2, <1>3 DEF WalkInv

LEMMA DoorStep == LadderInv /\ Door => LadderInv'
<1> SUFFICES ASSUME LadderInv, Door PROVE LadderInv'
  OBVIOUS
<1>1. /\ rung = "door" /\ UNCHANGED <<world, q>> /\ ~ Claimed
      /\ ~ \E i \in DOMAIN q.cookies : Opens(q.cookies[i])
  BY Unclaimed DEF Door, LadderInv, Promises, NeverShadowed
<1>2. CASE \E d \in {"wait-page", "refusal", "pay-malformed", "payment-required"} : Answer(d)
  BY <1>1, <1>2, Answered, AnswerPromises DEF LadderInv
<1>3. CASE Leave("payment") /\ Priced(q.path) # {}
  BY <1>1, <1>3, PaymentOffered, LeavePromises DEF LadderInv
<1> QED BY <1>2, <1>3 DEF Door, Unadmitted

LEMMA PaymentStep == LadderInv /\ Payment => LadderInv'
<1> SUFFICES ASSUME LadderInv, Payment PROVE LadderInv'
  OBVIOUS
<1>1. /\ rung = "payment" /\ UNCHANGED <<world, q>> /\ ~ Claimed
      /\ ~ \E i \in DOMAIN q.cookies : Opens(q.cookies[i])
      /\ Priced(q.path) # {}
  BY Unclaimed DEF Payment, LadderInv, WalkInv, PricedHere, Promises, NeverShadowed
<1>2. CASE \E d \in {"pay-method-refused", "pay-upgrade-refused", "pay-malformed",
                     "pay-unoffered", "pay-unidentified"} : Answer(d)
  BY <1>1, <1>2, Answered, AnswerPromises DEF LadderInv
<1>3. CASE Leave("settle")
  BY <1>1, <1>3, PaymentOffered, LeavePromises DEF LadderInv
<1> QED BY <1>2, <1>3 DEF Payment

LEMMA RefusedStep == LadderInv /\ Refused => LadderInv'
BY Answered, AnswerPromises DEF LadderInv, Refused

LEMMA GrantedStep == LadderInv /\ Granted => LadderInv'
<1> SUFFICES ASSUME LadderInv, Granted PROVE LadderInv'
  OBVIOUS
<1> DEFINE sent == [Stated EXCEPT !["pass"] = "absent", !["signature"] = "absent"]
           sold == [kind |-> "paid", aud |-> q.host, scope |-> Priced(q.path)]
<1>1. /\ rung = "settle" /\ ~ Claimed /\ rules' = rules /\ q' = q
      /\ passes' = passes \cup {sold}
      /\ earned' = earned \cup {<<q.host, Priced(q.path)>>}
      /\ Forward("pass-paid", sent, TRUE)
  BY Unclaimed DEF Granted
<1>2. /\ sent \in [Header -> Writer]
      /\ sent["action"] = "absent" /\ sent["status"] = "gate"
  BY <1>1, StatedHeaders, SoldHeaders
     DEF LadderInv, WalkInv, Cleaned, Stripped, Stated, Header
<1>3. decision' = "pass-paid" /\ rung' = "done" /\ hdr' = sent
  BY <1>1 DEF Forward
<1> HIDE DEF sent
<1>4. AllEarnt'
  <2>1. \A c \in passes : Earnt(c)'
    BY <1>1 DEF LadderInv, WalkInv, AllEarnt, Earnt
  <2>2. \A c : c = sold => Earnt(c)'
    BY <1>1 DEF Earnt
  <2>3. \A c \in passes' : Earnt(c)'
    BY <1>1, <2>1, <2>2
  <2> QED BY <2>3 DEF AllEarnt
<1>5. Carried'
  BY <1>1 DEF LadderInv, WalkInv, Carried
<1>6. Undecided' /\ Cleaned' /\ PricedHere'
  BY <1>2, <1>3 DEF Undecided, Cleaned, PricedHere
<1>7. UpstreamSeesTheGate'
  BY <1>1, <1>2, ForwardSeen
<1>8. AdmittedAsPriced'
  <2>1. Priced(q.path) # {} /\ Priced(q.path)' = Priced(q.path)
    BY <1>1 DEF LadderInv, WalkInv, PricedHere, Priced, SelectInSeq
  <2> QED BY <1>1, <1>3, <2>1 DEF AdmittedAsPriced
<1>9. NeverShadowed' /\ ClaimsFailClosed'
  BY <1>1, <1>3 DEF NeverShadowed, ClaimsFailClosed, Claimed, AddressOf, Peer, Hops
<1> QED BY <1>4, <1>5, <1>6, <1>7, <1>8, <1>9 DEF LadderInv, WalkInv, Promises

-----------------------------------------------------------------------------
(* Between requests.                                                        *)

\* While the ladder is idle, passes may grow and rules change, but nothing is said.
LEMMA BetweenRequests ==
  ASSUME AllEarnt', rung' = "idle", decision' = "none", upstream' = Nothing,
         hdr' \in [Header -> Writer]
  PROVE  LadderInv'
<1>1. Carried' /\ Undecided' /\ Cleaned' /\ PricedHere'
  BY DEF Carried, Undecided, Cleaned, PricedHere
<1>2. Promises'
  BY Unpromised
<1> QED BY <1>1, <1>2 DEF LadderInv, WalkInv

LEMMA DoneStep == LadderInv /\ Done => LadderInv'
<1> SUFFICES ASSUME LadderInv, Done PROVE LadderInv'
  OBVIOUS
<1>1. AllEarnt'
  BY Zenon DEF Done, world, LadderInv, WalkInv, AllEarnt, Earnt
<1>2. hdr' \in [Header -> Writer]
  BY DEF Done, Reset, Writer
<1> QED BY <1>1, <1>2, BetweenRequests DEF Done, Reset

LEMMA SolveStep ==
  ASSUME LadderInv, NEW h \in Host, Solve(h)
  PROVE  LadderInv'
<1> DEFINE solved == [kind |-> "pow", aud |-> h, scope |-> All]
<1>1. \A c \in passes : Earnt(c)'
  BY DEF Solve, LadderInv, WalkInv, AllEarnt, Earnt
<1>2. Earnt(solved)'
  BY DEF Solve, Earnt
<1>3. AllEarnt'
  BY <1>1, <1>2 DEF Solve, AllEarnt
<1> QED BY <1>3, BetweenRequests DEF Solve, LadderInv, WalkInv, Undecided, Cleaned

LEMMA DeployStep ==
  ASSUME LadderInv, NEW rs \in Rules, Deploy(rs)
  PROVE  LadderInv'
<1>1. AllEarnt'
  BY Zenon DEF Deploy, LadderInv, WalkInv, AllEarnt, Earnt
<1> QED BY <1>1, BetweenRequests DEF Deploy, LadderInv, WalkInv, Undecided, Cleaned

LEMMA StutterStep == LadderInv /\ UNCHANGED vars => LadderInv'
<1> SUFFICES ASSUME LadderInv, UNCHANGED vars PROVE LadderInv'
  OBVIOUS
<1>1. UNCHANGED <<world, q>> /\ rung' = rung /\ hdr' = hdr /\ decision' = decision
      /\ upstream' = upstream /\ earned' = earned /\ q' = q /\ passes' = passes
  BY DEF vars, world
<1>2. AllEarnt' /\ Carried' /\ Undecided' /\ Cleaned'
  BY <1>1, Zenon DEF LadderInv, WalkInv, AllEarnt, Earnt, Carried, Undecided, Cleaned
<1>3. PricedHere'
  BY <1>1, PricesKept DEF LadderInv, WalkInv, PricedHere
<1>4. AdmittedAsPriced' /\ NeverShadowed'
  BY <1>1, PricesKept DEF LadderInv, Promises, AdmittedAsPriced, NeverShadowed, Opens
<1>5. UpstreamSeesTheGate'
  BY <1>1, Zenon DEF LadderInv, Promises, UpstreamSeesTheGate
<1>6. ClaimsFailClosed'
  BY <1>1 DEF LadderInv, Promises, ClaimsFailClosed, AddressOf, Peer, Hops
<1> QED BY <1>2, <1>3, <1>4, <1>5, <1>6 DEF LadderInv, WalkInv, Promises

LEMMA Walked == Spec => []LadderInv
<1>1. Init => LadderInv
  BY InitWalk, InitPromises DEF LadderInv
<1>2. LadderInv /\ [Next]_vars => LadderInv'
  BY ArriveStep, CanonicalStep, AuthorityStep, BypassStep, IdentityStep, PassStep, DoorStep,
     PaymentStep, RefusedStep, GrantedStep, DoneStep, SolveStep, DeployStep, StutterStep
     DEF Next, Rung
<1> QED BY <1>1, <1>2, PTL DEF Spec

-----------------------------------------------------------------------------
(* Whose address it is.                                                     *)

\* A set of places in a sequence has a last one.
LEMMA MaxOfPlaces ==
  ASSUME NEW n \in Nat, NEW S, S \subseteq 1..n, S # {}
  PROVE  Max(S) \in S /\ \A y \in S : Max(S) >= y
<1> DEFINE T == {n - x : x \in S}
<1>1. T \subseteq Nat /\ T # {}
  <2>1. \A x \in S : n - x \in Nat
    OBVIOUS
  <2>2. PICK x \in S : TRUE
    OBVIOUS
  <2>3. n - x \in T
    OBVIOUS
  <2> QED BY <2>1, <2>3
<1>2. IsWellFoundedOn(OpToRel(<, Nat), Nat)
  BY NatLessThanWellFounded
<1>3. PICK t \in T : \A u \in T : ~ (<<u, t>> \in OpToRel(<, Nat))
  <2> HIDE DEF T
  <2> QED BY <1>1, <1>2, WFMin
<1>4. \A u \in T : t <= u
  <2>1. ASSUME NEW u \in T PROVE t <= u
    <3>1. u \in Nat /\ t \in Nat
      BY <1>1
    <3>2. ~ (u < t)
      BY <1>3, <3>1 DEF OpToRel
    <3> QED BY <3>1, <3>2
  <2> QED BY <2>1
<1>5. PICK x \in S : t = n - x
  OBVIOUS
<1>6. \A y \in S : x >= y
  <2>1. ASSUME NEW y \in S PROVE x >= y
    <3>1. n - x <= n - y
      BY <1>4, <1>5
    <3> QED BY <3>1
  <2> QED BY <2>1
<1> QED BY <1>6 DEF Max

\* Behind a proxy, the hops end with the client and the proxies it came through
\* but for the last; what the client wrote stands before them.
LEMMA HopsEnd ==
  ASSUME NEW o \in Origin, o.via # <<>>
  PROVE  /\ Hops(o) \in Seq(Addr \cup {Garbage, NoAddress})
         /\ Len(Hops(o)) = Len(o.wrote) + Len(o.via)
         /\ Hops(o)[Len(o.wrote) + 1] = o.client
         /\ \A j \in 1..Len(o.via) - 1 : Hops(o)[Len(o.wrote) + 1 + j] = o.via[j]
<1> DEFINE A == Addr \cup {Garbage, NoAddress}
           W == o.wrote
           F == Front(o.via)
           C == <<o.client>>
<1>1. W \in Seq(A) /\ o.via \in Seq(Addr) /\ o.client \in A
  BY DEF Origin
<1>2. Len(o.via) \in Nat \ {0}
  BY <1>1
<1>3. F \in Seq(Addr) /\ Len(F) = Len(o.via) - 1 /\ \A j \in 1..Len(o.via) - 1 : F[j] = o.via[j]
  BY <1>1, <1>2 DEF Front
<1>4. C \in Seq(A) /\ Len(C) = 1 /\ C[1] = o.client
  BY <1>1
<1>5. Hops(o) = W \o (C \o F)
  BY DEF Hops
<1>6. F \in Seq(A)
  BY <1>3
<1> HIDE DEF A, W, F, C
<1> DEFINE T == C \o F
<1>7. /\ T \in Seq(A) /\ Len(T) = Len(o.via)
      /\ T[1] = o.client
      /\ \A j \in 1..Len(o.via) - 1 : T[1 + j] = o.via[j]
  <2>1. T \in Seq(A) /\ Len(T) = Len(C) + Len(F)
    BY <1>4, <1>6, ConcatProperties
  <2>2. \A i \in 1..Len(C) + Len(F) : T[i] = IF i <= Len(C) THEN C[i] ELSE F[i - Len(C)]
    BY <1>4, <1>6, ConcatProperties
  <2> HIDE DEF T
  <2> QED BY <1>2, <1>3, <1>4, <2>1, <2>2
<1> HIDE DEF T
<1> DEFINE H == W \o T
<1>8. /\ H \in Seq(A) /\ Len(H) = Len(W) + Len(o.via)
      /\ H[Len(W) + 1] = o.client
      /\ \A j \in 1..Len(o.via) - 1 : H[Len(W) + 1 + j] = o.via[j]
  <2>1. H \in Seq(A) /\ Len(H) = Len(W) + Len(T)
    BY <1>1, <1>7, ConcatProperties
  <2>2. \A i \in 1..Len(W) + Len(T) : H[i] = IF i <= Len(W) THEN W[i] ELSE T[i - Len(W)]
    BY <1>1, <1>7, ConcatProperties
  <2>3. Len(W) \in Nat
    BY <1>1
  <2> HIDE DEF H
  <2>4. \A j \in 1..Len(T) : H[Len(W) + j] = T[j]
    BY <1>2, <1>7, <2>1, <2>2, <2>3
  <2> QED BY <1>2, <1>7, <2>1, <2>3, <2>4
<1> QED BY <1>5, <1>8 DEF T, A, W

Strangers(o) == ({o.client} \cup Range(o.via)) \ Trusted

LEMMA AddressOfStranger ==
  ASSUME NEW o \in Origin, o.client = NoAddress => o.via = <<>>
  PROVE  Strangers(o) = {} \/ AddressOf(o) \in Strangers(o)
<1>1. CASE o.via = <<>>
  <2>1. Range(o.via) = {} /\ Peer(o) = o.client
    BY <1>1 DEF Range, Peer
  <2>2. CASE o.client \in Trusted
    BY <2>1, <2>2 DEF Strangers
  <2>3. CASE o.client \notin Trusted
    BY <2>1, <2>3 DEF Strangers, AddressOf, ClientIP
  <2> QED BY <2>2, <2>3
<1>2. CASE o.via # <<>> /\ Peer(o) \notin Trusted
  <2>1. Peer(o) \in Range(o.via)
    BY <1>2 DEF Origin, Peer, Last, Range
  <2> QED BY <1>2, <2>1 DEF Strangers, AddressOf, ClientIP
<1>3. CASE o.via # <<>> /\ Peer(o) \in Trusted /\ Strangers(o) # {}
  <2> DEFINE H == Hops(o)
             w == Len(o.wrote)
             v == Len(o.via)
             I == {i \in 1..Len(H) : H[i] \notin Trusted}
             m == Max(I)
  <2>1. /\ w \in Nat /\ v \in Nat \ {0} /\ o.via \in [1..v -> Addr]
        /\ o.client \in Addr
    BY <1>3, LenProperties, EmptySeq DEF Origin
  <2>2. /\ Len(H) = w + v
        /\ H[w + 1] = o.client
        /\ \A j \in 1..v - 1 : H[w + 1 + j] = o.via[j]
    BY <1>3, HopsEnd
  <2>3. o.via[v] \in Trusted
    BY <1>3 DEF Peer, Last
  <2>4. I = {i \in 1..w + v : H[i] \notin Trusted}
    BY <2>2
  <2>5. Strangers(o) = ({o.client} \cup {o.via[j] : j \in 1..v}) \ Trusted
    BY <2>1 DEF Strangers, Range
  <2>6. AddressOf(o) = IF I = {} \/ Max(I) = 0 THEN Peer(o)
                       ELSE IF H[Max(I)] = Garbage THEN Peer(o) ELSE H[Max(I)]
    BY <1>3 DEF AddressOf, ClientIP, SelectLastInSeq
  <2> HIDE DEF H, w, v, I
  <2>7. \E i \in I : i > w
    <3>1. CASE o.client \notin Trusted
      <4>1. w + 1 \in I
        BY <2>1, <2>2, <2>4, <3>1
      <4> QED BY <2>1, <4>1
    <3>2. CASE o.client \in Trusted
      <4>1. PICK j \in 1..v : o.via[j] \notin Trusted
        BY <1>3, <2>5, <3>2
      <4>2. j \in 1..v - 1
        BY <2>1, <2>3, <4>1
      <4>3. w + 1 + j \in I
        BY <2>1, <2>2, <2>4, <4>1, <4>2
      <4> QED BY <2>1, <4>2, <4>3
    <3> QED BY <3>1, <3>2
  <2>8. m \in I /\ \A y \in I : m >= y
    <3>1. I \subseteq 1..w + v /\ I # {} /\ w + v \in Nat
      BY <2>1, <2>4, <2>7
    <3> QED BY <3>1, MaxOfPlaces
  <2> HIDE DEF m
  <2>9. H[m] \notin Trusted /\ m \in w + 1..w + v
    BY <2>1, <2>4, <2>7, <2>8
  <2>10. H[m] \in Strangers(o) /\ H[m] \in Addr
    <3>1. CASE m = w + 1
      BY <2>1, <2>2, <2>5, <2>9, <3>1
    <3>2. CASE m # w + 1
      <4> DEFINE j == m - (w + 1)
      <4>1. j \in 1..v - 1 /\ m = w + 1 + j
        BY <2>1, <2>9, <3>2
      <4> HIDE DEF j
      <4>2. H[m] = o.via[j] /\ j \in 1..v
        BY <2>1, <2>2, <4>1
      <4> QED BY <2>1, <2>5, <2>9, <4>2
    <3> QED BY <3>1, <3>2
  <2>11. I # {} /\ m # 0 /\ H[m] # Garbage
    BY <2>1, <2>7, <2>9, <2>10, LadderAssumption
  <2> QED BY <2>6, <2>10, <2>11 DEF m
<1> QED BY <1>1, <1>2, <1>3

\* The request on the ladder came from where requests come from.
LEMMA AddressInv ==
  Spec => [](Undecided /\ (rung # "idle" => q.from \in Origins))
<1> DEFINE From == rung # "idle" => q.from \in Origins
<1>1. Init => Undecided /\ From
  BY DEF Init, Undecided
<1>2. Undecided /\ From /\ [Next]_vars => (Undecided /\ From)'
  <2> SUFFICES ASSUME Undecided, From, [Next]_vars PROVE (Undecided /\ From)'
    OBVIOUS
  <2>1. CASE rung = "idle" /\ \E r \in Request : Arrive(r)
    BY <2>1 DEF Arrive, Undecided, Request
  <2>2. CASE Rung
    BY <2>2 DEF Rung, Canonical, Authority, Bypass, Identity, PassRung, Door, Unadmitted, Payment,
                Refused, Granted, Answer, Leave, Forward, Undecided
  <2>3. CASE Done \/ UNCHANGED vars \/ (\E h \in Host : Solve(h)) \/ (\E rs \in Rules : Deploy(rs))
    BY <2>3 DEF Done, Reset, Solve, Deploy, vars, Undecided
  <2> QED BY <2>1, <2>2, <2>3 DEF Next
<1> QED BY <1>1, <1>2, PTL DEF Spec

-----------------------------------------------------------------------------
(* Globs.                                                                   *)

\* Two texts, one after the other.
LEMMA Joined ==
  ASSUME NEW C, NEW u \in Seq(C), NEW v \in Seq(C)
  PROVE  /\ Len(u \o v) = Len(u) + Len(v)
         /\ \A i \in 1 .. Len(u) : (u \o v)[i] = u[i]
         /\ \A i \in 1 .. Len(v) : (u \o v)[Len(u) + i] = v[i]
  <1>1. Len(u \o v) = Len(u) + Len(v)
    OBVIOUS
  <1>2. \A i \in 1 .. Len(u) : (u \o v)[i] = u[i]
    OBVIOUS
  <1>3. \A i \in 1 .. Len(v) : (u \o v)[Len(u) + i] = v[i]
    OBVIOUS
  <1> QED BY <1>1, <1>2, <1>3

\* A beginning, and an end, place by place.
LEMMA PrefixIs ==
  ASSUME NEW C, NEW s \in Seq(C), NEW t \in Seq(C)
  PROVE  IsPrefix(s, t) <=> Len(s) <= Len(t) /\ \A i \in 1 .. Len(s) : s[i] = t[i]
  <1>0. Len(s) \in Nat /\ Len(t) \in Nat
    OBVIOUS
  <1>1. SubSeq(s, 1, Len(s)) = s
    OBVIOUS
  <1>2. ASSUME Len(s) <= Len(t)
        PROVE  SubSeq(t, 1, Len(s)) = s <=> \A i \in 1 .. Len(s) : s[i] = t[i]
    <2>1. /\ SubSeq(t, 1, Len(s)) \in Seq(C) /\ Len(SubSeq(t, 1, Len(s))) = Len(s)
          /\ \A i \in 1 .. Len(s) : SubSeq(t, 1, Len(s))[i] = t[i]
      BY <1>0, <1>2
    <2>2. ASSUME NEW u \in Seq(C), Len(u) = Len(s)
          PROVE  u = s <=> \A i \in 1 .. Len(s) : u[i] = s[i]
      BY <2>2
    <2> QED BY <2>1, <2>2
  <1> QED BY <1>1, <1>2 DEF IsPrefix

LEMMA SuffixIs ==
  ASSUME NEW C, NEW s \in Seq(C), NEW t \in Seq(C)
  PROVE  IsSuffix(s, t) <=>
           Len(s) <= Len(t) /\ \A i \in 1 .. Len(s) : s[i] = t[(Len(t) - Len(s)) + i]
  <1>0. Len(s) \in Nat /\ Len(t) \in Nat
    OBVIOUS
  <1>1. ASSUME NEW u \in Seq(C)
        PROVE  /\ Reverse(u) \in Seq(C) /\ Len(Reverse(u)) = Len(u)
               /\ \A i \in 1 .. Len(u) : Reverse(u)[i] = u[(Len(u) - i) + 1]
    <2>1. \A i \in 1 .. Len(u) : (Len(u) - i) + 1 \in 1 .. Len(u)
      OBVIOUS
    <2>2. \A i \in 1 .. Len(u) : u[(Len(u) - i) + 1] \in C
      BY <2>1
    <2> QED BY <2>2 DEF Reverse
  <1>2. IsSuffix(s, t) <=>
          Len(s) <= Len(t) /\ \A i \in 1 .. Len(s) : Reverse(s)[i] = Reverse(t)[i]
    BY <1>1, PrefixIs DEF IsSuffix
  <1>3. ASSUME Len(s) <= Len(t)
        PROVE  (\A i \in 1 .. Len(s) : Reverse(s)[i] = Reverse(t)[i]) <=>
                 \A i \in 1 .. Len(s) : s[i] = t[(Len(t) - Len(s)) + i]
    <2>1. ASSUME NEW i \in 1 .. Len(s)
          PROVE  /\ (Len(s) - i) + 1 \in 1 .. Len(s)
                 /\ (Len(t) - ((Len(s) - i) + 1)) + 1 = (Len(t) - Len(s)) + i
                 /\ (Len(s) - ((Len(s) - i) + 1)) + 1 = i
                 /\ (Len(t) - i) + 1 = (Len(t) - Len(s)) + ((Len(s) - i) + 1)
                 /\ i \in 1 .. Len(t)
      BY <1>0, <1>3
    <2>2. ASSUME NEW i \in 1 .. Len(s)
          PROVE  Reverse(s)[i] = s[(Len(s) - i) + 1] /\ Reverse(t)[i] = t[(Len(t) - i) + 1]
      BY <1>1, <2>1
    <2>3. ASSUME \A i \in 1 .. Len(s) : s[i] = t[(Len(t) - Len(s)) + i], NEW i \in 1 .. Len(s)
          PROVE  Reverse(s)[i] = Reverse(t)[i]
      BY <2>1, <2>2, <2>3
    <2>4. ASSUME \A i \in 1 .. Len(s) : Reverse(s)[i] = Reverse(t)[i], NEW i \in 1 .. Len(s)
          PROVE  s[i] = t[(Len(t) - Len(s)) + i]
      <3> DEFINE j == (Len(s) - i) + 1
      <3>1. j \in 1 .. Len(s) /\ (Len(s) - j) + 1 = i /\ (Len(t) - j) + 1 = (Len(t) - Len(s)) + i
        BY <2>1
      <3>2. Reverse(s)[j] = Reverse(t)[j]
        BY <2>4, <3>1
      <3> HIDE DEF j
      <3> QED BY <2>2, <3>1, <3>2
    <2> QED BY <2>3, <2>4
  <1> QED BY <1>2, <1>3

\* matchGlob is the glob its comment describes: a `*` stands for any run of
\* characters, and a pattern without one for itself; for every pattern and path,
\* over any characters (bypass.go matchGlob).
THEOREM GlobsAreGlobs ==
  ASSUME NEW C, NEW pre \in Seq(C), NEW post \in Seq(C), NEW s \in Seq(C)
  PROVE  /\ MatchGlob([pre |-> pre, star |-> TRUE, post |-> post], s) <=>
              \E run \in Seq(C) : s = pre \o run \o post
         /\ MatchGlob([pre |-> pre, star |-> FALSE, post |-> post], s) <=> s = pre
  <1> DEFINE a == Len(pre)
             b == Len(post)
             n == Len(s)
  <1>0. a \in Nat /\ b \in Nat /\ n \in Nat
    OBVIOUS
  <1>1. MatchGlob([pre |-> pre, star |-> TRUE, post |-> post], s) <=>
          /\ n >= a + b
          /\ \A i \in 1 .. a : pre[i] = s[i]
          /\ \A i \in 1 .. b : post[i] = s[(n - b) + i]
    <2>1. MatchGlob([pre |-> pre, star |-> TRUE, post |-> post], s) <=>
            n >= a + b /\ IsPrefix(pre, s) /\ IsSuffix(post, s)
      BY DEF MatchGlob
    <2>2. n >= a + b => a <= n /\ b <= n
      BY <1>0
    <2> QED BY <2>1, <2>2, PrefixIs, SuffixIs
  <1>2. ASSUME NEW run \in Seq(C), s = pre \o run \o post
        PROVE  /\ n >= a + b
               /\ \A i \in 1 .. a : pre[i] = s[i]
               /\ \A i \in 1 .. b : post[i] = s[(n - b) + i]
    <2> DEFINE m == Len(run)
               u == pre \o run
    <2>1. /\ m \in Nat /\ u \in Seq(C) /\ Len(u) = a + m
          /\ \A i \in 1 .. a : u[i] = pre[i]
      OBVIOUS
    <2>2. s = u \o post
      BY <1>2
    <2> HIDE DEF u
    <2>3. /\ n = (a + m) + b
          /\ \A i \in 1 .. a + m : s[i] = u[i]
          /\ \A i \in 1 .. b : s[(a + m) + i] = post[i]
      <3>1. /\ Len(u \o post) = Len(u) + b
            /\ \A i \in 1 .. Len(u) : (u \o post)[i] = u[i]
            /\ \A i \in 1 .. b : (u \o post)[Len(u) + i] = post[i]
        BY <2>1, Joined
      <3> HIDE DEF a, b, n, m
      <3>2. Len(u \o post) = n
        BY <2>2 DEF n
      <3> QED BY <2>1, <2>2, <3>1, <3>2
    <2>4. \A i \in 1 .. a : i \in 1 .. a + m
      BY <1>0, <2>1
    <2>5. n >= a + b /\ n - b = a + m
      BY <1>0, <2>1, <2>3
    <2> QED BY <2>1, <2>3, <2>4, <2>5
  <1>3. ASSUME n >= a + b, \A i \in 1 .. a : pre[i] = s[i],
               \A i \in 1 .. b : post[i] = s[(n - b) + i]
        PROVE  \E run \in Seq(C) : s = pre \o run \o post
    <2> DEFINE run == SubSeq(s, a + 1, n - b)
               u == pre \o run
    <2>1. /\ run \in Seq(C) /\ Len(run) = (n - b) - a
          /\ \A i \in 1 .. (n - b) - a : run[i] = s[a + i]
      BY <1>0, <1>3
    <2>2. /\ u \in Seq(C) /\ Len(u) = n - b
          /\ \A i \in 1 .. a : u[i] = pre[i]
          /\ \A i \in 1 .. (n - b) - a : u[a + i] = run[i]
      <3> HIDE DEF run
      <3>1. /\ u \in Seq(C) /\ Len(u) = a + ((n - b) - a)
            /\ \A i \in 1 .. a : u[i] = pre[i]
            /\ \A i \in 1 .. (n - b) - a : u[a + i] = run[i]
        BY <2>1
      <3> QED BY <1>0, <3>1
    <2>3. ASSUME NEW i \in 1 .. n - b PROVE u[i] = s[i]
      <3> HIDE DEF u, run
      <3>1. CASE i \in 1 .. a
        BY <1>3, <2>2, <3>1
      <3>2. CASE i \notin 1 .. a
        <4>1. i - a \in 1 .. (n - b) - a /\ a + (i - a) = i
          BY <1>0, <3>2
        <4> QED BY <2>1, <2>2, <4>1
      <3> QED BY <3>1, <3>2
    <2> HIDE DEF u
    <2>4. /\ u \o post \in Seq(C) /\ Len(u \o post) = (n - b) + b
          /\ \A i \in 1 .. n - b : (u \o post)[i] = u[i]
          /\ \A i \in 1 .. b : (u \o post)[(n - b) + i] = post[i]
      BY <2>2
    <2>5. ASSUME NEW i \in 1 .. n PROVE (u \o post)[i] = s[i]
      <3>1. CASE i \in 1 .. n - b
        BY <2>3, <2>4, <3>1
      <3>2. CASE i \notin 1 .. n - b
        <4> DEFINE j == i - (n - b)
        <4>1. j \in 1 .. b /\ (n - b) + j = i
          BY <1>0, <1>3, <3>2
        <4> HIDE DEF j
        <4> QED BY <1>3, <2>4, <4>1
      <3> QED BY <3>1, <3>2
    <2>6. u \o post = s
      <3>1. Len(u \o post) = n
        BY <1>0, <2>4
      <3>2. ASSUME NEW v \in Seq(C), Len(v) = n, \A i \in 1 .. n : v[i] = s[i] PROVE v = s
        BY <3>2
      <3> QED BY <2>4, <2>5, <3>1, <3>2
    <2> QED BY <2>1, <2>6 DEF u
  <1>4. MatchGlob([pre |-> pre, star |-> FALSE, post |-> post], s) <=> s = pre
    BY DEF MatchGlob
  <1> QED BY <1>1, <1>2, <1>3, <1>4

-----------------------------------------------------------------------------
(* The theorems.                                                            *)

\* Whatever passes a client holds, bought under whatever rules, a path is served on
\* a pass only to one solved for here, or bought where this path's price is asked now
\* (gate.go validPass, scopeCovers).
THEOREM ServedAsPriced == Spec => []AdmittedAsPriced
<1>1. LadderInv => AdmittedAsPriced
  BY DEF LadderInv, Promises
<1> QED BY <1>1, Walked, PTL

\* Neither forged headers nor credentials reach the upstream on any rung, and an
\* answer is sealed if and only if it was sold (gate.go serve, forward).
THEOREM OnlyTheGateWrites == Spec => []UpstreamSeesTheGate
<1>1. LadderInv => UpstreamSeesTheGate
  BY DEF LadderInv, Promises
<1> QED BY <1>1, Walked, PTL

\* No cookie shadows a pass that opens the path (gate.go validPass).
THEOREM HoldersPass == Spec => []NeverShadowed
<1>1. LadderInv => NeverShadowed
  BY DEF LadderInv, Promises
<1> QED BY <1>1, Walked, PTL

\* A claim to be a machine is settled by the claim (identity.go serveClaimedIdentity).
THEOREM ClaimsSettled == Spec => []ClaimsFailClosed
<1>1. LadderInv => ClaimsFailClosed
  BY DEF LadderInv, Promises
<1> QED BY <1>1, Walked, PTL

\* Nobody takes another's address: a request of a range that is never challenged is
\* one of theirs, whatever its client wrote (bypass.go ClientIP).
THEOREM AddressesAreReal == Spec => []AddressIsReal
<1>1. Undecided /\ (rung # "idle" => q.from \in Origins) => AddressIsReal
  <2> SUFFICES ASSUME Undecided, decision = "bypass-ip", rung # "idle" => q.from \in Origins
               PROVE  Strangers(q.from) = {} \/ AddressOf(q.from) \in Strangers(q.from)
    BY DEF AddressIsReal, Strangers
  <2>1. q.from \in Origins
    BY DEF Undecided
  <2>2. q.from \in Origin /\ (q.from.client = NoAddress => q.from.via = <<>>)
    BY <2>1, LadderAssumption
  <2> QED BY <2>2, AddressOfStranger
<1> QED BY <1>1, AddressInv, PTL

===============================================================================
