------------------------------ MODULE MCPayDoor ------------------------------
(* Presentations of one authorization, at two places, in two processes that *)
(* share the state file; the transfers include one of each wrong kind.      *)
EXTENDS PayDoor, TLC

CONSTANTS r1, r2, r3, a1, s1, s2, h1, p1, p2

MCPays == [r \in Req |-> a1]
MCProcOf == [r \in Req |-> IF r = r2 THEN p2 ELSE p1]
MCScopeOf == [r \in Req |-> IF r = r2 THEN s2 ELSE s1]
MCAudienceOf == [r \in Req |-> h1]

\* ... of which the second's Host is empty, where no public hosts are configured.
MCNameless == [r \in Req |-> IF r = r2 THEN NoAudience ELSE h1]

Honest == {AsAsked}
Careless == Honest \cup { [AsAsked EXCEPT !.network = "other"],
                          [AsAsked EXCEPT !.payer = "other"],
                          [AsAsked EXCEPT !.amount = "other"] }
==============================================================================
