-------------------------- MODULE MCResponseWriters --------------------------
(* Every short body, and heads that end past the budget, under no policy, and *)
(* shorter ones under one that asks for a nonce and one that forbids scripts; *)
(* and one small document under every policy of up to three sources, by       *)
(* itself or beside another, in a header or in the head.                      *)
EXTENDS ResponseWriters

CONSTANTS MaxBody, MaxSources

MCDocs(n) == SeqOf(Pieces, n) \cup {Append(d, "end") : d \in TupleOf(Pieces, n)}

\* Documents whose head opens early and ends past the budget.
LateHeads == {<<"open">> \o d \o <<"end">> : d \in TupleOf({"head", "text"}, MaxBody)}
SmallDoc == <<"head", "end">>

Plain(sources) == [elem |-> Unset, script |-> sources, default |-> Unset, sandbox |-> Unset]
Silent == Plain(Unset)
Enforced(ps) == [enforce |-> ps, report |-> <<>>, meta |-> <<>>]
Telling == {Enforced(<<Plain({"dynamic", "nonce"})>>), Enforced(<<Plain({"none"})>>)}

Lists(n) == {l \in SUBSET (Source \ {"our-nonce", "our-hash"}) : Cardinality(l) <= n}
Single == {Plain(l) : l \in Lists(MaxSources)}
Shaped ==
  {[Plain(Unset) EXCEPT !.default = l] : l \in Lists(1)}
  \cup {[Plain({s}) EXCEPT !.elem = l] : s \in {"none", "self"}, l \in Lists(1)}
  \cup {[Plain({"self"}) EXCEPT !.sandbox = f] : f \in SUBSET Flag}
  \cup {Silent}
Beside == {Plain(l) : l \in Lists(1)} \cup {Silent, Plain({"nonce", "dynamic"})}

MCCsp ==
  {Enforced(<<p>>) : p \in Single \cup Shaped}
  \cup {Enforced(<<p, q>>) : p \in Single \cup Shaped, q \in Beside}
  \cup {[enforce |-> <<p>>, report |-> <<q>>, meta |-> <<>>] : p \in Beside, q \in Beside}
  \cup {[enforce |-> <<p>>, report |-> <<>>, meta |-> <<q>>] : p \in Single, q \in Beside}

MCPages == [body : MCDocs(MaxBody) \cup LateHeads, csp : {NoCsp}]
           \cup [body : MCDocs(MaxBody - 1), csp : Telling]
           \cup [body : {SmallDoc}, csp : MCCsp]

\* The shapes of the acceptance test's matrix (tier1_gate_test.go, CSPLadder), in
\* one header or two.
Shapes == {Plain(l) : l \in {{"self"}, {"self", "inline"}, {"inline"}, {"nonce", "dynamic"},
                             {"hash"}, {"host"}}}
MCMatrix == [body : MCDocs(MaxBody),
             csp : {Enforced(<<p>>) : p \in Shapes}
                   \cup {Enforced(<<p, q>>) : p \in Shapes, q \in Shapes}]
=============================================================================
