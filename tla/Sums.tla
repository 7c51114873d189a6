--------------------------------- MODULE Sums ---------------------------------
(***************************************************************************)
(* What the values of a function come to over a set of its arguments: the  *)
(* totals the books, the stock and the statements are kept by.             *)
(***************************************************************************)
EXTENDS Integers, FiniteSets, FiniteSetsExt

SumOf(f, S) == MapThenSumSet(LAMBDA x : f[x], S)

\* All its values
SumAll(f) == SumOf(f, DOMAIN f)
===============================================================================
