------------------------------- MODULE Deployment -------------------------------
(******************************************************************************)
(* A gate through its redeployments: an operator changes the file and starts  *)
(* the process again, while clients pay on offers they saw under any of the   *)
(* files, in payloads that name their authorizations however they like.  What *)
(* becomes of a payment once the facilitator is asked is PayDoor's.           *)
(******************************************************************************)
EXTENDS PaymentTerms, Lifecycle

CONSTANTS
  Files,     \* what the operator may deploy
  Env,       \* the environment it is started in
  Paths,     \* what is asked for
  Payloads,  \* what clients present: bodies whose payloads map keys to authorizations
  MaxNamed   \* bound: payments named

\* What decoding gives of the payments a file names: rails with every key, empty
\* ones included, and prices in digits.  A process without a configuration has none.
RailKeys == {"network", "asset", "decimals", "domain", "method", "payTo", "facilitator", "headers"}
ASSUME DeploymentAssumption ==
  /\ \A f \in Files : "payments" \in DOMAIN f /\ f.payments # None =>
       LET p == f.payments
       IN  /\ p.rails \in Seq(Range(p.rails)) /\ p.rules \in Seq(Range(p.rules))
           /\ \A rl \in Range(p.rails) : rl = [k \in RailKeys |-> rl[k]]
           /\ \A r \in Range(p.rules) : r.price # None =>
                r.price.whole \in Seq(0 .. 9) /\ r.price.frac \in Seq(0 .. 9)
  /\ Off = None

\* What clients may echo: any entry any of the files offers, spelled any way.
Offered ==
  LET loaded == {Load(f, Env) : f \in Files} \ {None}
  IN  UNION { UNION { Range(Accepts(c.payments, r)) : r \in Range(c.payments.rules) } :
              c \in {c \in loaded : c.payments # None} }
Echoes == Offered \cup {[q EXCEPT !.asset.as = "lower", !.payTo.as = "lower"] : q \in Offered}

VARIABLES
  written,  \* the file the process was started with
  asked,    \* what the facilitator is asked in this step, if anything
  named     \* payments named so far, each with what it spends on the chain

Nothing == [asked |-> FALSE]

\* What the chain consumes: the authorization of the rail's method, as the facilitator
\* reads it, in the space of numbers that its signer has there (external).
Spends(body, req) ==
  LET auths == AsSpelled(body, "payload")
      key   == AuthKeyFor(req.method)
      from  == AsSpelled(auths[key], "from")
      nonce == AsSpelled(auths[key], "nonce")
  IN  IF auths = None THEN None
      ELSE IF key \notin DOMAIN auths \/ from = None \/ nonce = None THEN None
      ELSE <<req.network, req.asset.is, req.method, from.is, nonce.is>>

\* Every member the gate may read has the key as the documents spell it.
Plain(object) == \A i \in 1 .. Len(object) : object[i].exact
PlainKeys(body) ==
  LET auths == Decoded(body, "payload")
  IN  Plain(body) /\ \A k \in DOMAIN auths : Plain(auths[k])

DeploymentInit == LifeInit /\ written = None /\ asked = Nothing /\ named = {}

Deploy(f) == Start(Load(f, Env)) /\ written' = f /\ asked' = Nothing /\ UNCHANGED named

\* servePayment up to the store, for a payment that none of its local checks refuses.
Present(path, echo, body) ==
  /\ open["gate"] > 0 /\ cfg.payments # None
  /\ LET rule == RouteOf(cfg.payments, path)
         req == MatchRail(echo, Accepts(cfg.payments, rule))
         id == ID(body, req)
     IN  /\ rule # None /\ req # None /\ id # None
         /\ asked' = [asked |-> TRUE, path |-> path, echo |-> echo, req |-> req,
                      of |-> VerifierOf(cfg.payments, req.network)]
         /\ named' = named \cup {[id |-> id, spends |-> Spends(body, req), plain |-> PlainKeys(body)]}
  /\ Cardinality(named') <= MaxNamed
  /\ UNCHANGED <<lifeVars, written>>

Run == LifeStep /\ asked' = Nothing /\ UNCHANGED <<written, named>>

DeploymentNext ==
  \/ \E f \in Files : Deploy(f)
  \/ Run
  \/ \E path \in Paths, echo \in Echoes, body \in Payloads : Present(path, echo, body)

deploymentVars == <<lifeVars, written, asked, named>>

\* The process does not stop between two of its steps, and time passes.
DeploymentSpec ==
  DeploymentInit /\ [][DeploymentNext]_deploymentVars /\ WF_lifeVars(Runs /\ Run)

-----------------------------------------------------------------------------
(* What the operator wrote, read off the file as he would read it.            *)

P == written.payments
RuleFor(path) == P.rules[SelectInSeq(P.rules, LAMBDA r : Matches(r.paths, path))]
RailFor(network) == P.rails[SelectInSeq(P.rails, LAMBDA rl : rl.network = network)]
Places(rl) == IF rl.decimals = 0 THEN 6 ELSE rl.decimals
Tens[n \in Nat] == IF n = 0 THEN 1 ELSE 10 * Tens[n - 1]

\* The facilitator is only ever asked to settle what this file asks for the path now:
\* the written price, in the units of the rail's token, to the operator's address for
\* the rail; and only for a client who said those were the terms, whichever
\* deployment's offer it was paying on.
AskedIsOffered ==
  asked # Nothing =>
    LET q == asked.req
        rl == RailFor(q.network)
        price == RuleFor(asked.path).price
    IN  /\ q.amount * Tens[Len(price.frac)] = Number(price.whole \o price.frac) * Tens[Places(rl)]
        /\ q.asset = rl.asset
        /\ q.payTo = IF rl.payTo # None THEN rl.payTo ELSE P.payTo
        /\ asked.echo.amount = q.amount
        /\ asked.echo.asset.is = q.asset.is /\ asked.echo.payTo.is = q.payTo.is

\* A credential goes nowhere but to the facilitator it was written beside, and a
\* rail is settled with its own (Rail.Facilitator: inheritance is all-or-nothing).
CredentialsStayHome ==
  asked # Nothing =>
    LET rl == RailFor(asked.req.network)
        home == IF rl.facilitator # None THEN rl ELSE P
    IN  asked.of = [base |-> Base(home.facilitator), headers |-> Headers(home.headers)]

\* Payments whose keys are spelled as the field names are have one name if and only if
\* the chain can spend one of them: however a client spells the values, orders, repeats or
\* wraps the members, and however the operator has spelled the token since (payment.ID;
\* everything PayDoor says of an authorization rests on it).  The comment in the code,
\* "because the client re-spelled it", is about values; of other keys nothing is claimed.
OneSpendOneName ==
  \A x, y \in named : x.plain /\ y.plain => (x.id = y.id <=> x.spends = y.spends)
================================================================================
