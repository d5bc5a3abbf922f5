------------------------- MODULE MC_DTreeAggregate -------------------------
EXTENDS DTreeAggregate, TLC

\* three variables; variable 1 has an else outcome of mass 1/4
MC_Dist ==
  (1 :> (1 :> <<1, 2>> @@ 2 :> <<1, 4>>)) @@
  (2 :> (1 :> <<1, 3>> @@ 2 :> <<2, 3>>)) @@
  (3 :> (1 :> <<1, 2>> @@ 2 :> <<1, 2>>))

\* variable 2's outcomes sum to 4/3: getMissingRngs rejects S once both are in it
MC_DistLate ==
  (1 :> (1 :> <<1, 2>> @@ 2 :> <<1, 4>>)) @@
  (2 :> (1 :> <<2, 3>> @@ 2 :> <<2, 3>>))
MC_EpsBoth     == {<<0, 1>>, <<1, 10>>}
MC_EpsExact    == {<<0, 1>>}

\* every array of up to MC_SortLen clauses with probabilities from
\* MC_SortProbSeq; distinct ids make a lost or duplicated clause visible
MC_SortLen     == 6
MC_SortProbSeq == <<<<1, 4>>, <<1, 2>>, <<3, 4>>>>
MC_SortInputs ==
  UNION {{[i \in 1 .. n |-> [id |-> i, prob |-> MC_SortProbSeq[ps[i]]]] : ps \in [1 .. n -> 1 .. 3]} :
           n \in 0 .. MC_SortLen}

\* every array of the bounds is sorted correctly
MC_QuickSortOK == \A a \in MC_SortInputs : QuickSortCorrect(a)

\* the bounded check of the quicksort, evaluated once in the initial state
VARIABLE sortOK

MC_Init == sortOK = MC_QuickSortOK /\ Init

MC_Next == DNext /\ UNCHANGED sortOK

(* quicksort(S, 0, NUM_WSDS - 1), which conf_appro_final_ge applies to    *)
(* the clauses before it builds the tree, sorts every clause array of the *)
(* bounds (up to six clauses, so that the median of medians takes a       *)
(* second group) by non-increasing probability and keeps every clause.    *)
QuickSortSorts == sortOK
=============================================================================
