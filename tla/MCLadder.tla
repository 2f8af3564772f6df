------------------------------- MODULE MCLadder -------------------------------
(****************************************************************************)
(* Two paths sold under rules in either order, and one of each other kind;  *)
(* clients at the gate's own door, behind one trusted proxy and behind two, *)
(* and behind a stranger's, with hops they wrote themselves.                *)
(****************************************************************************)
EXTENDS Ladder

CONSTANTS dots, own, health, exempt, home, report, h1, h2, h3,
          someone, office, proxy, edge, relay

Pat(pre, star, post) == [pre |-> pre, star |-> star, post |-> post]

MCText == [p \in Path |-> CASE p = home -> <<"/">> [] p = report -> <<"/", "r">>
                            [] p = exempt -> <<"/", "w", "/", "r">> [] OTHER -> <<"/", "g">>]
MCExempt == {Pat(<<"/", "w", "/">>, TRUE, <<>>), Pat(<<"/", "r">>, TRUE, <<"r">>)}

MCKindOf == [p \in Path |->
  CASE p = dots -> "dots" [] p = own -> "own" [] p = health -> "health" [] OTHER -> "site"]

Site == {Pat(<<"/">>, TRUE, <<>>)}
Reports == {Pat(<<"/">>, TRUE, <<"r">>)}
MCRules == {<<Site, Reports>>, <<Reports>>}

From(client, wrote, via) == [client |-> client, wrote |-> wrote, via |-> via]
MCOrigins == { From(someone, <<office>>, <<>>), From(NoAddress, <<>>, <<>>),
               From(office, <<>>, <<proxy>>), From(someone, <<office>>, <<edge, proxy>>),
               From(someone, <<Garbage>>, <<relay, proxy>>), From(proxy, <<office, Garbage>>, <<edge>>) }

\* matchGlob is the glob its comment describes: `*` stands for any run of characters.
Chars == SeqOf({"a", "/"}, 3)
ASSUME \A pre, post \in SeqOf({"a", "/"}, 2), s \in Chars :
  MatchGlob(Pat(pre, TRUE, post), s) <=> \E run \in Chars : s = pre \o run \o post
=============================================================================
