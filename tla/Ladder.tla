-------------------------------- MODULE Ladder --------------------------------
(****************************************************************************)
(* gate.go serve: the ladder every request walks until one rung answers it, *)
(* with identity.go serveClaimedIdentity, the local checks of pay.go        *)
(* servePayment and the forwarding of an admitted request.  A rung sees the *)
(* request as the rungs before it left it: headers are stripped, set and    *)
(* stripped again on the way.                                               *)
(*                                                                          *)
(* What a pass opens depends on the rules of the moment: passes outlive the *)
(* process that sold them, and the operator may reorder the rules between.  *)
(* A settlement's own steps are PayDoor's, a pass's validity PassChain's.   *)
(****************************************************************************)
EXTENDS Bypass, FiniteSets

CONSTANTS
  Path, Host,
  KindOf,      \* KindOf[p]: "dots", "own", "health" or "site"
  Text,        \* Text[p]: its characters
  Exempt,      \* bypass.paths, a set of patterns
  Addr,
  Trusted,     \* bypass.trusted_proxies
  Allowed,     \* bypass.cidrs
  Origins,     \* where requests come from: see Origin
  PublicHost,  \* public_hosts, as normalized authorities; {} allows them all
  Rules,       \* the rule lists the operator may deploy
  AllowHosted, \* triage.allow_hosted_fetchers
  All,         \* the scope of a proof-of-work pass
  MaxPasses    \* bound: the passes alive at a time

\* A request is a client's, who may write hops of its own into X-Forwarded-For, and
\* the gate's other headers with them, and it reaches the gate through proxies that
\* each append the peer they see.
Origin == [client : Addr \cup {NoAddress}, wrote : Seq(Addr \cup {Garbage}), via : Seq(Addr)]

\* A rule is sold under the digest of its paths: it is named by its patterns here.
Scope == UNION {Range(rs) : rs \in Rules}

ASSUME LadderAssumption ==
  /\ KindOf \in [Path -> {"dots", "own", "health", "site"}]
  /\ Text \in [Path -> Seq(STRING)] /\ Exempt \subseteq Pattern
  /\ Garbage \notin Addr
  /\ Trusted \subseteq Addr /\ Allowed \subseteq Addr
  /\ Origins \subseteq Origin
  /\ \A o \in Origins : o.client = NoAddress => o.via = <<>>
  /\ PublicHost \subseteq Host
  /\ Rules # {} /\ \A rs \in Rules : rs \in Seq(SUBSET Pattern)
  /\ AllowHosted \in BOOLEAN
  /\ All \notin Scope /\ MaxPasses \in Nat

VARIABLES
  rules,     \* the rules this process runs with
  passes,    \* passes alive in the world
  earned,    \* what was solved or settled: <<authority, scope>>, history
  q,         \* the request on the ladder
  rung,      \* the rung that has it
  hdr,       \* who wrote each of the gate's headers the request carries
  decision,
  upstream   \* what the upstream was sent, and whether its answer is sealed

vars == <<rules, passes, earned, q, rung, hdr, decision, upstream>>

\* A pass a keyring verifies.  A cookie may also be expired, forged, or bound to
\* another network: BadPass stands for all of those.
Pass == [kind : {"pow"}, aud : Host, scope : {All}]
        \cup [kind : {"paid"}, aud : Host, scope : Scope]
BadPass == [kind |-> "bad"]

\* shape: a navigation, another GET, a GET asking for an upgrade, a POST, or a
\* CORS preflight.  sigs: how many PAYMENT-SIGNATUREs it carries.
Shapes == {"page", "read", "upgrade", "write", "preflight"}
Request == [path : Path, host : Host, from : Origins,
            shape : Shapes, claim : {"none", "crawler", "hosted"},
            sigs : {"none", "one", "two"},
            cookies : SeqOf(passes \cup {BadPass}, 2)]

\* What the gate's connection and X-Forwarded-For say of an origin, and whose
\* address it takes them for.
Peer(o) == IF o.via = <<>> THEN o.client ELSE Last(o.via)
Hops(o) == o.wrote \o IF o.via = <<>> THEN <<>> ELSE <<o.client>> \o Front(o.via)
AddressOf(o) == ClientIP(Peer(o), Hops(o), Trusted)

\* A declared crawler is never taken for a navigation (classifyNavigation).
Classified(r) == r.claim = "crawler" => r.shape # "page"

\* "address" is X-Forwarded-For and every other header that names the client.
Header == {"status", "action", "receipt", "offer", "signature", "pass", "address"}
Writer == {"absent", "client", "gate"}
Nothing == [reached |-> FALSE]

Walled == {"crawler-unverified", "hosted-refusal", "hosted-unverified",
           "payment-required", "wait-page", "refusal"}
Upstreams == {"bypass-path", "bypass-ip", "cors-preflight", "pass-pow", "pass-paid",
             "bypass-crawler", "bypass-hosted"}
Others == {"none", "non-canonical-path", "unknown-authority", "own-endpoint",
           "crawler-verification-unavailable", "pay-method-refused",
           "pay-upgrade-refused", "pay-malformed", "pay-unoffered", "pay-unidentified", "pay-refused"}

TypeOK ==
  /\ rules \in Rules
  /\ passes \subseteq Pass
  /\ earned \subseteq Host \X (Scope \cup {All})
  /\ hdr \in [Header -> Writer]
  /\ decision \in Walled \cup Upstreams \cup Others
  /\ upstream = Nothing \/ upstream.sees \in [Header -> Writer]

Init ==
  /\ rules \in Rules
  /\ passes = {} /\ earned = {}
  /\ q = [shape |-> "none"] /\ rung = "idle"
  /\ hdr = [h \in Header |-> "absent"]
  /\ decision = "none" /\ upstream = Nothing

-----------------------------------------------------------------------------
(* Rungs answer, forward, or leave the request to the next one.             *)

Without(names) == [h \in Header |-> IF h \in names THEN "absent" ELSE hdr[h]]

Answer(d) ==
  /\ decision' = d /\ rung' = "done"
  /\ UNCHANGED <<hdr, upstream>>

\* newProxy's Rewrite: whatever names the client is dropped, and the address the
\* gate took it for is stated, if there is one.
Readdressed(sent) ==
  [sent EXCEPT !["address"] = IF AddressOf(q.from) = NoAddress THEN "absent" ELSE "gate"]

\* A slip: only a pass is stripped on the way out.
ForwardSigned(d, sent, sealed) ==
  /\ decision' = d /\ rung' = "done" /\ hdr' = sent
  /\ upstream' = [reached |-> TRUE, sealed |-> sealed,
                  sees |-> [h \in Header |->
                     IF h = "pass" THEN "absent" ELSE Readdressed(sent)[h]]]

\* forward, the only way to the upstream: no credential of the gate goes there.
Forward(d, sent, sealed) ==
  /\ decision' = d /\ rung' = "done" /\ hdr' = sent
  /\ upstream' = [reached |-> TRUE, sealed |-> sealed,
                  sees |-> [h \in Header |->
                     IF h \in {"pass", "signature", "offer", "receipt"}
                     THEN "absent" ELSE Readdressed(sent)[h]]]

Leave(next) == rung' = next /\ UNCHANGED <<hdr, decision, upstream>>

\* X-Anteroom-Status, as the gate states it.
Stated == [hdr EXCEPT !["status"] = "gate"]

world == <<rules, passes, earned>>

Arrive(r) ==
  /\ Classified(r)
  /\ q' = r /\ rung' = "canonical"
  /\ hdr' = [h \in Header |->
       CASE h = "pass" -> IF r.cookies = <<>> THEN "absent" ELSE "client"
         [] h = "signature" -> IF r.sigs = "none" THEN "absent" ELSE "client"
         [] OTHER -> IF r.from.wrote # <<>> THEN "client" ELSE "absent"]
  /\ decision' = "none" /\ upstream' = Nothing
  /\ UNCHANGED world

\* Inbound copies of the gate's own headers are dropped before anything else.
Canonical ==
  /\ rung = "canonical"
  /\ hdr' = Without({"status", "action", "receipt", "offer"})
  /\ IF KindOf[q.path] = "dots"
     THEN decision' = "non-canonical-path" /\ rung' = "done"
     ELSE rung' = "authority" /\ UNCHANGED decision
  /\ UNCHANGED <<world, q, upstream>>

Authority ==
  /\ rung = "authority"
  /\ IF KindOf[q.path] # "health" /\ PublicHost # {} /\ q.host \notin PublicHost
     THEN Answer("unknown-authority")
     ELSE IF KindOf[q.path] \in {"own", "health"} THEN Answer("own-endpoint")
     ELSE Leave("bypass")
  /\ UNCHANGED <<world, q>>

Bypass ==
  /\ rung = "bypass"
  /\ IF Matches(Exempt, Text[q.path]) THEN Forward("bypass-path", hdr, FALSE)
     ELSE IF AddressOf(q.from) \in Allowed THEN Forward("bypass-ip", hdr, FALSE)
     ELSE IF q.shape = "preflight" THEN Forward("cors-preflight", hdr, FALSE)
     ELSE Leave("identity")
  /\ UNCHANGED <<world, q>>

\* A slip: a crawler that cannot be verified just now goes on up the ladder.
IdentityLenient ==
  /\ rung = "identity"
  /\ IF q.claim = "none" \/ AddressOf(q.from) = NoAddress THEN Leave("pass")
     ELSE IF q.claim = "crawler"
     THEN \/ Forward("bypass-crawler", Stated, FALSE)
          \/ Leave("pass")
          \/ Answer("crawler-unverified")
     ELSE \/ IF AllowHosted THEN Forward("bypass-hosted", Stated, FALSE)
                            ELSE Answer("hosted-refusal")
          \/ Answer("hosted-unverified")
  /\ UNCHANGED <<world, q>>

\* serveClaimedIdentity: a claim is verified, and answered here for good,
\* unless there is no address to verify.
Identity ==
  /\ rung = "identity"
  /\ IF q.claim = "none" \/ AddressOf(q.from) = NoAddress THEN Leave("pass")
     ELSE IF q.claim = "crawler"
     THEN \/ Forward("bypass-crawler", Stated, FALSE)
          \/ Answer("crawler-verification-unavailable")
          \/ Answer("crawler-unverified")
     ELSE \/ IF AllowHosted THEN Forward("bypass-hosted", Stated, FALSE)
                            ELSE Answer("hosted-refusal")
          \/ Answer("hosted-unverified")
  /\ UNCHANGED <<world, q>>

-----------------------------------------------------------------------------
(* Passes.                                                                  *)

\* matchRoute: the first rule that matches prices the path; {} if none does.
Priced(p) ==
  LET i == SelectInSeq(rules, LAMBDA pats : Matches(pats, Text[p]))
  IN  IF i = 0 THEN {} ELSE rules[i]

\* A slip: a purchase opens whatever its own rule matches.
CoversOwnPaths(pass, p) ==
  IF pass.kind = "pow" THEN TRUE ELSE Matches(pass.scope, Text[p])

ScopeCovers(pass, p) ==
  IF pass.kind = "pow" THEN pass.scope = All
  ELSE Priced(p) # {} /\ pass.scope = Priced(p)

\* The places of the cookies that verify here.
Usable == {i \in DOMAIN q.cookies : q.cookies[i] # BadPass /\ q.cookies[i].aud = q.host}

\* A slip: the first usable cookie is the pass.
FirstPass == IF Usable = {} THEN BadPass ELSE q.cookies[Min(Usable)]

\* validPass: of the cookies that verify, the first that opens the path or is a
\* proof-of-work pass, else the first of them.
ValidPass ==
  LET opening == {i \in Usable :
                    q.cookies[i].kind = "pow" \/ ScopeCovers(q.cookies[i], q.path)}
  IN  IF Usable = {} THEN BadPass
      ELSE q.cookies[Min(IF opening = {} THEN Usable ELSE opening)]

PassRung ==
  /\ rung = "pass"
  /\ IF ValidPass # BadPass /\ ScopeCovers(ValidPass, q.path)
     THEN IF ValidPass.kind = "paid"
          THEN Forward("pass-paid", Stated, TRUE)
          ELSE Forward("pass-pow", Stated, FALSE)
     ELSE Leave("door")
  /\ UNCHANGED <<world, q>>

-----------------------------------------------------------------------------
(* The doors, for a request that nothing admits.                            *)

Unadmitted == IF q.shape = "page" THEN Answer("wait-page") ELSE Answer("refusal")

Door ==
  /\ rung = "door"
  /\ IF Priced(q.path) = {} THEN Unadmitted
     ELSE IF q.sigs = "two" THEN Answer("pay-malformed")
     ELSE IF q.sigs # "none" THEN Leave("payment")
     ELSE IF q.shape # "page" THEN Answer("payment-required")
     ELSE Unadmitted
  /\ UNCHANGED <<world, q>>

\* servePayment's refusals before it claims anything: a payment buys a pass, on
\* a plain GET or HEAD, and must be offered here and one the gate can name.
Payment ==
  /\ rung = "payment"
  /\ IF q.shape = "write" THEN Answer("pay-method-refused")
     ELSE IF q.shape = "upgrade" THEN Answer("pay-upgrade-refused")
     ELSE \/ \E d \in {"pay-malformed", "pay-unoffered", "pay-unidentified"} : Answer(d)
          \/ Leave("settle")
  /\ UNCHANGED <<world, q>>

\* The settlement fails, or its grant is served: a pass, and the first response.
Refused == rung = "settle" /\ Answer("pay-refused") /\ UNCHANGED <<world, q>>

Granted ==
  /\ rung = "settle"
  /\ Forward("pass-paid", [Stated EXCEPT !["pass"] = "absent", !["signature"] = "absent"],
             TRUE)
  /\ passes' = passes \cup {[kind |-> "paid", aud |-> q.host, scope |-> Priced(q.path)]}
  /\ Cardinality(passes') <= MaxPasses
  /\ earned' = earned \cup {<<q.host, Priced(q.path)>>}
  /\ UNCHANGED <<rules, q>>

-----------------------------------------------------------------------------
(* Between requests: passes are solved for, and the gate is redeployed.     *)

Reset == /\ q' = [shape |-> "none"] /\ rung' = "idle" /\ decision' = "none"
         /\ hdr' = [h \in Header |-> "absent"] /\ upstream' = Nothing

Done == rung = "done" /\ Reset /\ UNCHANGED world

Solve(h) ==
  /\ rung = "idle" /\ h \in PublicHost
  /\ passes' = passes \cup {[kind |-> "pow", aud |-> h, scope |-> All]}
  /\ Cardinality(passes') <= MaxPasses
  /\ earned' = earned \cup {<<h, All>>}
  /\ UNCHANGED <<rules, q, rung, hdr, decision, upstream>>

Deploy(rs) ==
  /\ rung = "idle" /\ rules' = rs
  /\ UNCHANGED <<passes, earned, q, rung, hdr, decision, upstream>>

Rung == \/ Canonical \/ Authority \/ Bypass \/ Identity \/ PassRung
        \/ Door \/ Payment \/ Refused \/ Granted

Next ==
  \/ rung = "idle" /\ \E r \in Request : Arrive(r)
  \/ Rung \/ Done
  \/ \E h \in Host : Solve(h)
  \/ \E rs \in Rules : Deploy(rs)

Spec == Init /\ [][Next]_vars

-----------------------------------------------------------------------------
(* What the ladder promises.                                                *)

\* Nobody pays a low price for a highly priced path: whatever passes a client
\* holds, bought under whatever rules, a path is served on a pass only to one
\* solved for at this authority, or bought where this path's price is asked now.
AdmittedAsPriced ==
  /\ decision = "pass-pow" => <<q.host, All>> \in earned
  /\ decision = "pass-paid" => Priced(q.path) # {} /\ <<q.host, Priced(q.path)>> \in earned

\* What the upstream sees of the gate's headers the gate has written there:
\* neither forgeries nor credentials get through, on any rung, and bypassed
\* traffic is told nothing but its address.  What leaves on a purchase leaves
\* sealed, and nothing else does: only what was sold is kept out of shared caches.
UpstreamSeesTheGate ==
  upstream.reached =>
    /\ \A h \in Header :
         /\ upstream.sees[h] # "client"
         /\ upstream.sees[h] = "gate" =>
              \/ h = "address"
              \/ h = "status" /\ decision \notin {"bypass-path", "bypass-ip", "cors-preflight"}
    /\ upstream.sealed <=> decision = "pass-paid"

\* Nobody takes another's address: whatever a client writes into the headers, the
\* ranges that are never challenged let in a request of theirs, or one that came
\* through a proxy the operator trusts from a client he trusts as well.
AddressIsReal ==
  decision = "bypass-ip" =>
    LET o == q.from
        strangers == ({o.client} \cup Range(o.via)) \ Trusted
    IN  strangers = {} \/ AddressOf(o) \in strangers

\* A pass that opens the path is never shadowed by another cookie: its holder is
\* neither walled nor sent to settle a payment for what he already has.
Opens(c) == c # BadPass /\ c.aud = q.host /\ ScopeCovers(c, q.path)
NeverShadowed ==
  rung \in {"door", "payment", "settle"} => ~ \E i \in DOMAIN q.cookies : Opens(q.cookies[i])

\* A claim to be a machine is settled by the claim: with an address to verify it
\* against, it is never answered with a pass, a price or a puzzle.
ClaimsFailClosed ==
  q.shape # "none" /\ q.claim # "none" /\ AddressOf(q.from) # NoAddress =>
    /\ rung \notin {"pass", "door", "payment", "settle"}
    /\ decision \notin {"pass-pow", "pass-paid", "wait-page", "payment-required"}
=============================================================================
