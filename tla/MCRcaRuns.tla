------------------------------- MODULE MCRcaRuns -------------------------------
(* One run and three calls that compete for it, over two incidents.        *)
EXTENDS RcaRuns, TLC

CONSTANTS i1, i2, e1, e2, r1, c1, c2, c3

CallSymmetry == Permutations(Call)
===============================================================================
