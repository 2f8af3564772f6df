--------------------------- MODULE MCRenewalWorker ---------------------------
(* Two tabs, which nothing tells apart.                                      *)
EXTENDS RenewalWorker, TLC

CONSTANTS t1, t2

\* An admission is the long solve, a renewal the short one.
MCRoundTime == [admission |-> 1, renewal |-> 0]

ASSUME RenewsInTime

Interchangeable == Permutations({t1, t2})
==============================================================================
