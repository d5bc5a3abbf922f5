------------------------------ MODULE Lineage ------------------------------
(***************************************************************************)
(* The clause bag S and the local world table as the exact, approximate   *)
(* and Monte-Carlo engines see them (localcond.c): advance, updateWorld-   *)
(* Table (step 2, the outcome lookup), getMissingRngs.                     *)
(*                                                                         *)
(* A literal (Map) is [var, rng, prob]; a world-set descriptor (WSD) is    *)
(* [data |-> <<literal, ...>>, prob].  The world table is a sequence of   *)
(* entries [var, rngs |-> <<[rng, p], ...>>] in insertion order.  The      *)
(* extendible-hash directory that finds an entry is WorldTable.tla; here   *)
(* an entry is found by its variable, which is what the directory is for  *)
(* (InsertedVarsFindable).  Probabilities are exact fractions (ProbArith). *)
(***************************************************************************)
EXTENDS Integers, Sequences, FiniteSets, ProbArith

RESERVED_VAR         == 0
RNG_FOR_RESERVED_VAR == 1

\* create_map(var, rng, 0, prob)
CreateMap(v, r, p) == [var |-> v, rng |-> r, prob |-> p]

ReservedMap == CreateMap(RESERVED_VAR, RNG_FOR_RESERVED_VAR, One)

(***************************************************************************)
(* advance, first loop: for every pair i < j of literals of one clause    *)
(* with the same variable, the later one becomes the reserved variable    *)
(* with probability 1.  The code compares variables only (the comment     *)
(* says "same variable and same range").                                  *)
(***************************************************************************)
Neutralise(data) ==
  [j \in DOMAIN data |->
     IF \E i \in 1 .. (j - 1) : data[i].var = data[j].var
     THEN ReservedMap ELSE data[j]]

RECURSIVE ProdProbs(_)
ProdProbs(data) ==
  IF data = <<>> THEN One ELSE QMul(Head(data).prob, ProdProbs(Tail(data)))

\* the index of the world-table entry of variable v, 0 if there is none
WtIndex(wt, v) ==
  IF \E e \in DOMAIN wt : wt[e].var = v
  THEN CHOOSE e \in DOMAIN wt : wt[e].var = v ELSE 0

(***************************************************************************)
(* updateWorldTable for one literal: wtEntryInit when the variable is new, *)
(* then rngEntryInit with the literal's probability when the outcome is   *)
(* new to the entry.                                                      *)
(***************************************************************************)
UpdateWorldTable(wt, m) ==
  LET wt1 == IF WtIndex(wt, m.var) = 0
             THEN Append(wt, [var |-> m.var, rngs |-> <<>>]) ELSE wt
      e   == WtIndex(wt1, m.var)
  IN IF \E k \in DOMAIN wt1[e].rngs : wt1[e].rngs[k].rng = m.rng
     THEN wt1
     ELSE [wt1 EXCEPT ![e].rngs = Append(@, [rng |-> m.rng, p |-> m.prob])]

RECURSIVE UpdateAll(_, _)
UpdateAll(wt, data) ==
  IF data = <<>> THEN wt ELSE UpdateAll(UpdateWorldTable(wt, Head(data)), Tail(data))

(***************************************************************************)
(* advance(n, state, wsd): neutralise duplicate variables, multiply the   *)
(* literal probabilities into wsd->prob, record every literal in the      *)
(* world table, append the WSD to S.  Returns [S, wt].  (genStateInit for *)
(* S = NULL is done by the caller, ConfAggregate.)                        *)
(***************************************************************************)
Advance(S, wt, data) ==
  LET d == Neutralise(data)
  IN [S  |-> Append(S, [data |-> d, prob |-> ProdProbs(d)]),
      wt |-> UpdateAll(wt, d)]

\* the error bound of getMissingRngs: "sum - 1.0 > 0.01"
SumSlack == <<1, 100>>

RngSum(entry) == QSumSeq([k \in DOMAIN entry.rngs |-> entry.rngs[k].p])

RngMax(entry) ==
  CHOOSE r \in {entry.rngs[k].rng : k \in DOMAIN entry.rngs} :
    \A k \in DOMAIN entry.rngs : entry.rngs[k].rng <= r

\* getMissingRngs raises an error for this table
MissingRngsError(wt) ==
  \E e \in DOMAIN wt : QLt(SumSlack, QSub(RngSum(wt[e]), One))

\* mutant: getMissingRngs without the "sum < 1.0" completion
GetMissingRngsNone(wt) == wt

(***************************************************************************)
(* getMissingRngs: every entry whose outcome probabilities sum to less    *)
(* than 1 gets the outcome max + 1 with the remaining mass.               *)
(***************************************************************************)
GetMissingRngs(wt) ==
  [e \in DOMAIN wt |->
     IF QLt(RngSum(wt[e]), One)
     THEN [wt[e] EXCEPT !.rngs = Append(@, [rng |-> RngMax(wt[e]) + 1,
                                            p   |-> QSub(One, RngSum(wt[e]))])]
     ELSE wt[e]]
=============================================================================
