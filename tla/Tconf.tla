------------------------------- MODULE Tconf -------------------------------
(***************************************************************************)
(* tconf() over U-relations (tupleconf.c).  The rewriter passes a row's n *)
(* condition triples (variable, outcome, probability) to productN_ge, and  *)
(* product_ge(n) copies them into a WSD (create_map), neutralises every   *)
(* later literal on a variable met before (the reserved variable with     *)
(* outcome 1 and probability 1 when the outcomes agree, outcome 0 and     *)
(* probability 0 when they contradict) and multiplies the probabilities.  *)
(* product0 and product1_ge are the cases n = 0 and n = 1.  tconf makes   *)
(* its select certain (rewrite.c), so its rows are not filtered for       *)
(* consistency: contradictory rows reach product_ge.                      *)
(***************************************************************************)
EXTENDS Lineage

\* localcond.h
RNG_FOR_RESERVED_VAR_NEGATIVE == 0

\* create_map(var, rng, 0, prob) for every triple of the arguments
CreateMaps(args) == [k \in DOMAIN args |-> CreateMap(args[k][1], args[k][2], args[k][3])]

\* mutant: an agreeing duplicate keeps its probability
DupCompareKeepProb(a, b) ==
  IF a.var # b.var THEN b
  ELSE IF a.rng = b.rng
       THEN CreateMap(RESERVED_VAR, RNG_FOR_RESERVED_VAR, b.prob)
       ELSE CreateMap(RESERVED_VAR, RNG_FOR_RESERVED_VAR_NEGATIVE, Zero)

\* literal b (data[j]) after the comparison with literal a (data[i])
DupCompare(a, b) ==
  IF a.var # b.var THEN b
  ELSE IF a.rng = b.rng
       THEN CreateMap(RESERVED_VAR, RNG_FOR_RESERVED_VAR, One)
       ELSE CreateMap(RESERVED_VAR, RNG_FOR_RESERVED_VAR_NEGATIVE, Zero)

(* for (i = 0; i < n - 1; i++) for (j = i + 1; j < n; j++), 1-based: the  *)
(* comparisons run in this order on the literals as already rewritten.    *)
RECURSIVE DupLoop(_, _, _)
DupLoop(d, i, j) ==
  IF i >= Len(d) THEN d
  ELSE IF j > Len(d) THEN DupLoop(d, i + 1, i + 2)
  ELSE DupLoop([d EXCEPT ![j] = DupCompare(d[i], d[j])], i, j + 1)

\* product_ge(n): the pairwise loop, then the product of the probabilities
ProductGe(args) == ProdProbs(DupLoop(CreateMaps(args), 1, 2))

\* the value tconf() returns for a row with the given condition triples
TconfOf(args) ==
  CASE Len(args) = 0 -> One
    [] Len(args) = 1 -> args[1][3]
    [] OTHER         -> ProductGe(args)
=============================================================================
