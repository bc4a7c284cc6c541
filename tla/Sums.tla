-------------------------------- MODULE Sums --------------------------------
(***************************************************************************)
(* The sum of the values of a function with a finite domain: of a quantity *)
(* over the threads, or over the messages of a sequence.                   *)
(***************************************************************************)
EXTENDS Integers, FiniteSetsExt

SumOver(f) == MapThenSumSet(LAMBDA x : f[x], DOMAIN f)
=============================================================================
