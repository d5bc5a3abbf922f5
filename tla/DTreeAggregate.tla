-------------------------- MODULE DTreeAggregate --------------------------
(***************************************************************************)
(* conf(approach, epsilon) with the decomposition tree: the transition    *)
(* function conf_appro_accumN_ge (the conf_appro_accum macro of           *)
(* localcond.h) and the final function conf_appro_final_ge (d-tree.c).    *)
(* They share the backend globals S, NUM_WSDS and groupcxt with conf()    *)
(* (ConfAggregate), and add two more: appro_approach and appro_epsilon,   *)
(* set from every row's arguments, so the final uses the last row's      *)
(* (ConfAggregate's approach and eps).                                     *)
(***************************************************************************)
EXTENDS ConfAggregate, DTree

(* conf_appro_accum(n): record the row's approach and epsilon (the        *)
(* query's), create groupcxt when it is NULL, build the WSD and advance.  *)
ConfApproAccum(g, c) == ConfAccum(g, c)

(* conf_appro_final_ge without a group context: 0 *)
ConfApproFinalEmpty(g) == ConfFinal(g)

(* an approach other than "R..." or "A...": the group's globals are      *)
(* released, then elog(ERROR) aborts the query                            *)
ConfApproFinalBadApproach(g) ==
  /\ FinalAllowed(g)
  /\ groupcxt
  /\ approach \notin {"R", "A"}
  /\ aborts < MaxAborts
  /\ S' = <<>> /\ sNull' = TRUE /\ groupcxt' = FALSE
  /\ aborts' = aborts + 1
  /\ NextQuery
  /\ UNCHANGED <<wt, restored>>

(* getMissingRngs raises its error inside conf_appro_final_ge *)
ConfApproFinalError(g) ==
  /\ approach \in {"R", "A"}
  /\ ConfFinalError(g)

(* conf_appro_final_ge: getMissingRngs, the tree over all of S, then the *)
(* release of the group's state (S := NULL, groupcxt := NULL).           *)
ConfApproFinalCompute(g) ==
  /\ FinalAllowed(g)
  /\ groupcxt
  /\ approach \in {"R", "A"}
  /\ ~MissingRngsError(wt)
  /\ LET Finish(wt1, r) == /\ res' = [res EXCEPT ![g] = r.p]
                            /\ restored' = (r.S = r.sorted)
                            /\ wt' = wt1
         Run(wt1) == Finish(wt1, DTreeFinal(S, wt1, eps, approach = "R"))
     IN Run(GetMissingRngs(wt))
  /\ S' = <<>> /\ sNull' = TRUE
  /\ groupcxt' = FALSE
  /\ UNCHANGED <<fed, aborts, approach, eps>>

DNext ==
  \/ \E g \in Groups, c \in Clauses : ConfApproAccum(g, c)
  \/ \E g \in Groups : \/ ConfApproFinalEmpty(g) \/ ConfApproFinalBadApproach(g)
                       \/ ConfApproFinalError(g) \/ ConfApproFinalCompute(g)
  \/ QueryAbort

DSpec == Init /\ [][DNext]_vars


-----------------------------------------------------------------------------
\* the absolute value of a fraction
QAbs(a) == <<Abs(a[1]), a[2]>>

(* The value conf(approach, epsilon) returns is an epsilon-approximation  *)
(* of the probability of the group's rows: within epsilon * p of p for    *)
(* "R", within epsilon for "A", and p itself for epsilon <= 0 (the exact *)
(* decomposition tree).  This is what the bounds of the tree, its        *)
(* stopping test and the midpoint formula of conf_appro_final_ge are for. *)
ApproxWithinEpsilon ==
  \A g \in Groups : res[g] # NoResult =>
    LET p == BruteForce(fed[g])
        d == QAbs(QSub(res[g], p))
    IN IF ~QLt(Zero, eps) THEN res[g] = p
       ELSE IF approach = "R" THEN QLeq(d, QMul(eps, p))
       ELSE QLeq(d, eps)

(* The bucketing bounds of compute_upper_and_lower_bounds, which decide  *)
(* the exact tree's shortcut and start the approximate tree, contain the *)
(* probability of the clauses accumulated in S: every bucket holds only   *)
(* clauses without a shared variable, so its probability is exact.  It   *)
(* is stated for the distributions getMissingRngs accepts.                *)
BucketBoundsSound ==
  ~sNull /\ ~MissingRngsError(wt) =>
    LET b == ComputeBounds(DOMAIN S, S)
        p == BruteForce(SClauses)
    IN QLeq(b.lower, p) /\ QLeq(p, b.upper)

(* Both trees hand S back as they found it (after the quicksort): every   *)
(* literal dropped by find_wsds_with_var_rng is restored by               *)
(* reset_wsds_var_rng, also over the merged set after subsumption removal *)
(* and on the paths that stop early.                                      *)
DTreeRestoresS == restored
=============================================================================
