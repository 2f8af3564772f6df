---------------------------- MODULE MCGrantStore ----------------------------
(* Three presentations of one authorization.  They carry the same payment   *)
(* and nothing else tells them apart, so they are interchangeable.          *)
EXTENDS GrantStore, TLC

CONSTANTS r1, r2, r3, a1

MCPays == r1 :> a1 @@ r2 :> a1 @@ r3 :> a1
Interchangeable == Permutations({r1, r2, r3})
=============================================================================
