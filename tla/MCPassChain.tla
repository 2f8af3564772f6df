----------------------------- MODULE MCPassChain -----------------------------
(* One or two gates; the second one's clock and configuration may differ.    *)
EXTENDS PassChain, TLC

CONSTANTS g1, g2, Second, FirstTTL, SecondTTL, FirstSession, SecondSession

MCAhead == [g \in Gate |-> IF g = g2 THEN Second ELSE 0]
MCPassTTL == [g \in Gate |-> IF g = g2 THEN SecondTTL ELSE FirstTTL]
MCMaxSession == [g \in Gate |-> IF g = g2 THEN SecondSession ELSE FirstSession]
==============================================================================
