------------------------------ MODULE MCDeployment ------------------------------
(********************************************************************************)
(* Three files deployed in any order: the price, the spelling of the token and  *)
(* the facilitators change between the first two, and the third cannot be used. *)
(********************************************************************************)
EXTENDS Deployment, TLC

CONSTANTS base, radius, other, usdc, sbc, wallet, till, nobody, alice, acme, bank

MCFamilyOf == [n \in {base, radius, other} |-> IF n = other THEN "none" ELSE "eip155"]

Word(w, as) == [is |-> w, as |-> as]
Url(scheme, host) == [scheme |-> scheme, host |-> host, credentials |-> FALSE]
Slashed(scheme, host) == [scheme |-> scheme, host |-> host, credentials |-> FALSE, slash |-> TRUE]
Header(name, value) == [name |-> name, value |-> value]
Price(whole, frac) == [whole |-> whole, frac |-> frac]

Rail(network, asset, decimals, method, payTo, facilitator, headers) ==
  [network |-> network, asset |-> asset, decimals |-> decimals, domain |-> TRUE,
   method |-> method, payTo |-> payTo, facilitator |-> facilitator, headers |-> headers]
Rule(name, pre, price) ==
  [name |-> name, paths |-> {[pre |-> pre, star |-> TRUE, post |-> <<>>]}, price |-> price, ttl |-> 600]
Payments(rails, rules) ==
  [payTo |-> Word(wallet, "mixed"), facilitator |-> Url("https", acme),
   headers |-> <<Header("X-Old", "1"), Header("X-Key", "acme")>>, timeout |-> 0,
   rails |-> rails, rules |-> rules]

Yesterday ==
  Payments(<<Rail(base, Word(usdc, "mixed"), 0, None, None, None, <<>>),
             Rail(radius, Word(sbc, "mixed"), 2, "permit2", Word(till, "lower"), Url("http", bank), <<>>)>>,
           <<Rule("reports", <<"/", "r">>, Price(<<>>, <<5>>)), Rule("site", <<"/">>, Price(<<0>>, <<0, 2>>))>>)
Today ==
  Payments(<<Rail(base, Word(usdc, "lower"), 6, "eip3009", None, Slashed("https", acme), <<Header("X-Key", "base")>>),
             Rail(radius, Word(sbc, "mixed"), 2, "permit2", None, None, <<>>)>>,
           <<Rule("site", <<"/">>, Price(<<0>>, <<5>>))>>)

File(payments) == [upstream |-> 3000, grace |-> 2, payments |-> payments]
Sound == {File(Yesterday), File(Today) @@ [admin |-> 8090]}

\* The environment names what it may, and a key it may not.
MCEnv == [listen |-> 8081, grace |-> 9]

\* Each of these is refused, for the one reason that tells it from a file that is not.
With(rl) == [Today EXCEPT !.rails[2] = rl]
Second == Today.rails[2]
Broken == {
  File([Today EXCEPT !.rules[1].price = Price(<<0>>, <<0, 0, 1>>)]),
  File([Today EXCEPT !.rules[1].price = Price(<<0>>, <<0>>)]),
  File([Today EXCEPT !.rules[1].name = ScopeAll]),
  File([Today EXCEPT !.rules = <<>>]),
  File([Today EXCEPT !.facilitator = Url("http", acme)]),
  File([Today EXCEPT !.facilitator.credentials = TRUE]),
  File([Today EXCEPT !.headers = <<Header("X-Key", None)>>]),
  File([Today EXCEPT !.headers = <<Header("Host", "x")>>]),
  File([Today EXCEPT !.payTo = Word(nobody, "mixed")]),
  File(With([Second EXCEPT !.network = base])),
  File(With([Second EXCEPT !.network = other])),
  File(With([Second EXCEPT !.headers = <<Header("X-Key", "r")>>])),
  File(With([Second EXCEPT !.payTo = Word(nobody, "lower")])),
  File(With([Second EXCEPT !.method = "erc7710"])),
  File(With([Second EXCEPT !.domain = FALSE])),
  [grace |-> 0] @@ File(None), [admin |-> 8081] @@ File(None),
  [passTTL |-> 1900] @@ File(None), [pasTTL |-> 60] @@ File(None), [difficulty |-> 5] @@ File(None),
  [payments |-> None], [keys |-> {[kid |-> "k", bytes |-> 15]}] @@ File(None) }
ASSUME /\ \A f \in Broken : Load(f, MCEnv) = None
       /\ \A f \in Sound : Load(f, MCEnv) # None

MCFiles == Sound \cup {File(With([Second EXCEPT !.network = base]))}

Member(key, value) == [key |-> key, exact |-> TRUE, value |-> value]
Body(auths) == <<Member("payload", auths)>>
Auth(as, nonce, form) ==
  <<Member("from", Word(alice, as)), Member("nonce", [is |-> nonce, as |-> form])>>
Old == Auth("mixed", 1, "hex")

\* One repeats a member, one has a key spelled otherwise, one has two authorizations.
MCPayloads ==
  {Body("authorization" :> Old), Body("authorization" :> Auth("lower", 1, "decimal")),
   Body("permit2Authorization" :> Old), Body("permit2Authorization" :> Auth("lower", 2, "decimal")),
   Body("authorization" :> Auth("mixed", 4, "hex")), Body("authorization" :> Auth("mixed", 1, "garbled")),
   Body("authorization" :> (Auth("mixed", 2, "hex") \o Old)),
   Body("authorization" :> <<Old[1], [Old[2] EXCEPT !.exact = FALSE]>>),
   Body(("permit2Authorization" :> Auth("mixed", 2, "hex")) @@ ("authorization" :> Old))}

MCPaths == {<<"/">>, <<"/", "r", "x">>}
================================================================================
