-------------------------------- MODULE Sums --------------------------------
(***************************************************************************)
(* Python's sum() over what a dictionary holds for some of its keys.       *)
(***************************************************************************)
EXTENDS Integers, FiniteSets, FiniteSetsExt

SumOver(f, S) == MapThenSumSet(LAMBDA c : f[c], S)
=============================================================================
