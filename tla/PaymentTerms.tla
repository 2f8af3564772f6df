------------------------------ MODULE PaymentTerms ------------------------------
(*****************************************************************************)
(* What the gate makes of its terms when a payment comes: pay.go's route and *)
(* offer, the verifier gate.go gives a rail, and payment/verifier.go's local *)
(* checks, which name the payment and say what the facilitator is asked.     *)
(*****************************************************************************)
EXTENDS Configuration

CONSTANT MaxNonce  \* 2^256 - 1

Rails(terms) == Range(terms.rails)
RailOf(terms, network) == CHOOSE rl \in Rails(terms) : rl.network = network

\* matchRoute: the first rule that covers the path; None if there is none.
RouteOf(terms, path) ==
  LET i == SelectInSeq(terms.rules, LAMBDA r : Matches(r.paths, path))
  IN  IF i = 0 THEN None ELSE terms.rules[i]

\* offer's accepts: one entry a rail, in the operator's order.
Requirement(rl, rule) ==
  [scheme |-> "exact", network |-> rl.network, asset |-> rl.asset,
   amount |-> rule.atomic[rl.network], payTo |-> rl.payTo, method |-> rl.method]
Accepts(terms, rule) == [i \in DOMAIN terms.rails |-> Requirement(terms.rails[i], rule)]

\* facilitatorIdentity: the address but for its last slash, and the headers.
Base(url) == [scheme |-> url.scheme, host |-> url.host]

Identity(rl) == <<Base(rl.facilitator), rl.headers>>

\* The verifier of a rail is that of the first rail of its identity.
VerifierOf(terms, network) ==
  LET i == SelectInSeq(terms.rails, LAMBDA rl : Identity(rl) = Identity(RailOf(terms, network)))
  IN  [base |-> Base(terms.rails[i].facilitator), headers |-> terms.rails[i].headers]

\* A slip: the entry is found by its network and scheme, and its terms are not compared.
MatchRailByName(echo, accepts) ==
  LET i == SelectInSeq(accepts, LAMBDA q : q.network = echo.network /\ q.scheme = echo.scheme)
  IN  IF i = 0 THEN None ELSE accepts[i]

\* MatchRail: the gate's own entry for the rail the client names, if what the client
\* says of its terms is what they are.
MatchRail(echo, accepts) ==
  LET i == SelectInSeq(accepts, LAMBDA q : q.network = echo.network /\ q.scheme = echo.scheme)
      q == accepts[i]
  IN  IF i # 0 /\ q.asset.is = echo.asset.is /\ q.amount = echo.amount /\ q.payTo.is = echo.payTo.is
      THEN q ELSE None

AuthKeyFor(method) == IF method = "permit2" THEN "permit2Authorization" ELSE "authorization"

\* canonicalInteger: the number, however it is written, if it is one of 256 bits.
Canonical(nonce) == IF nonce.as # "garbled" /\ nonce.is \in 0 .. MaxNonce THEN nonce.is ELSE None

\* A JSON object that is decoded into a struct, as its members in their order.  Go gives
\* a field the last member whose key is its name, without regard to case; what is sent on
\* is the object itself, in which a reader that does regard it finds the last member
\* spelled as the field is (external).
Decoded(object, field) ==
  LET i == SelectLastInSeq(object, LAMBDA m : m.key = field)
  IN  IF i = 0 THEN None ELSE object[i].value
AsSpelled(object, field) ==
  LET i == SelectLastInSeq(object, LAMBDA m : m.key = field /\ m.exact)
  IN  IF i = 0 THEN None ELSE object[i].value

Named(req, key, auth) ==
  LET from  == Decoded(auth, "from")
      nonce == Decoded(auth, "nonce")
  IN  IF from = None \/ nonce = None \/ Canonical(nonce) = None THEN None
      ELSE [scheme |-> req.scheme, network |-> req.network, asset |-> req.asset.is,
            key |-> key, from |-> from.is, nonce |-> Canonical(nonce)]

\* A slip: the first authorization the payload has, whatever the rail's method.
IDOfFirst(body, req) ==
  LET auths == Decoded(body, "payload")
      key == IF "permit2Authorization" \in DOMAIN auths THEN "permit2Authorization" ELSE "authorization"
  IN  IF auths = <<>> THEN None ELSE Named(req, key, auths[key])

\* payment.ID: what names the payment is the authorization the rail's method consumes;
\* a payload with another one beside it is refused.
ID(body, req) ==
  LET auths == Decoded(body, "payload")
      key == AuthKeyFor(req.method)
  IN  IF auths = None THEN None
      ELSE IF DOMAIN auths # {key} THEN None ELSE Named(req, key, auths[key])
================================================================================
