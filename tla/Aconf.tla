------------------------------- MODULE Aconf -------------------------------
(***************************************************************************)
(* aconf(epsilon, delta): the Monte-Carlo confidence of aconf.c.  The     *)
(* transition function aconf_accumN (the aconf_accum macro of localcond.h)*)
(* shares S, NUM_WSDS, groupcxt and the world table with conf()           *)
(* (ConfAggregate) and sets the globals epsilon and delta from every row. *)
(* aconf_final completes the world table, computes the bag sum nM and     *)
(* runs AA_algorithm: the three loops of Dagum, Karp, Luby and Ross, each *)
(* calling compute_estimator.                                              *)
(*                                                                         *)
(* compute_estimator is random: it picks a clause with probability        *)
(* S[i]->prob / nM and completes a truth assignment tau from the world    *)
(* table.  Its value 1 / c_tau is modelled exactly, as the set of values  *)
(* it can return and as its expectation over both random choices.  The   *)
(* floating-point thresholds of AA_algorithm are abstracted to their      *)
(* IEEE class: upsilon1_sra is +inf when epsilon or delta is 0 (a positive *)
(* number divided by 0, or the log of +inf), else a finite number, whose   *)
(* size is the constant Upsilon1; the sample counts of steps 2 and 3 are   *)
(* finite there and are the constants N2 and N3.  The final call runs to  *)
(* its end without the executor interleaving, so all other actions wait   *)
(* for phase = "idle".                                                    *)
(***************************************************************************)
EXTENDS ConfAggregate

CONSTANTS
  AconfEpsilons,  \* values of the epsilon argument (fractions)
  AconfDeltas,    \* values of the delta argument (fractions)
  Upsilon1,       \* a finite upsilon1_sra (a fraction)
  N2, N3,         \* the finite sample counts of steps 2 and 3
  AccCap          \* a fraction above Upsilon1 where the step-1 sum saturates

ASSUME QLt(Upsilon1, AccCap) /\ N2 \in Nat \ {0} /\ N3 \in Nat \ {0}

VARIABLES
  epsilon, delta, \* the globals of aconf.c
  phase,          \* "idle" or the step of AA_algorithm being run
  cur,            \* the group whose aconf_final runs
  nM,             \* the bag sum of the clause weights
  acc,            \* the running sum S of the current step
  n               \* the loop counter of steps 2 and 3

avars == <<vars, epsilon, delta, phase, cur, nM, acc, n>>
aconfVars == <<epsilon, delta, phase, cur, nM, acc, n>>

-----------------------------------------------------------------------------
(* compute_estimator over S and the completed world table wt.             *)

\* Cij: the outcome clause i gives entry j's variable (the last literal of it), -1 if none
Cij(bag, tab, i, j) ==
  LET ks == {k \in DOMAIN bag[i].data : bag[i].data[k].var = tab[j].var}
  IN IF ks = {} THEN -1
     ELSE bag[i].data[CHOOSE k \in ks : \A k2 \in ks : k2 <= k].rng

\* the index of outcome r in entry j's outcomes
RngOf(tab, j, r) == CHOOSE k \in DOMAIN tab[j].rngs : tab[j].rngs[k].rng = r
\* tau[j]: the clause's outcome, or one that choose_with_distribution_2 can return
TauOutcomes(bag, tab, i, j) ==
  IF Cij(bag, tab, i, j) = -1 THEN {tab[j].rngs[k].rng : k \in DOMAIN tab[j].rngs}
  ELSE {Cij(bag, tab, i, j)}

\* the truth assignments tau the first loop builds from clause i
Taus(bag, tab, i) ==
  {tau \in [DOMAIN tab -> UNION {TauOutcomes(bag, tab, i, j) : j \in DOMAIN tab}] :
     \A j \in DOMAIN tab : tau[j] \in TauOutcomes(bag, tab, i, j)}

\* the probability that the completion picks tau
TauProb(bag, tab, i, tau) ==
  LET free == {j \in DOMAIN tab : Cij(bag, tab, i, j) = -1}
  IN QProdOver([j \in free |-> tab[j].rngs[RngOf(tab, j, tau[j])].p], free)

\* mutant: the satisfaction test stops before the clause's last literal
SatisfiedSkipLast(bag, tab, tau, i) ==
  \A k \in 1 .. (Len(bag[i].data) - 1) :
    tau[WtIndex(tab, bag[i].data[k].var)] = bag[i].data[k].rng

\* clause i is satisfied by tau (every literal's wt_entry->tau equals its rng)
Satisfied(bag, tab, tau, i) ==
  \A k \in DOMAIN bag[i].data : tau[WtIndex(tab, bag[i].data[k].var)] = bag[i].data[k].rng

CTau(bag, tab, tau) == Cardinality({i \in DOMAIN bag : Satisfied(bag, tab, tau, i)})

\* the bag sum nM of aconf_final
BagSum(bag) == QSumSeq([i \in DOMAIN bag |-> bag[i].prob])

\* the values compute_estimator can return: 1 / c_tau, for a clause of
\* positive weight that choose_with_distribution picks
EstimatorValues(bag, tab) ==
  {<<1, CTau(bag, tab, tau)>> : tau \in UNION {Taus(bag, tab, i) : i \in {i \in DOMAIN bag : QLt(Zero, bag[i].prob)}}}

\* the expectation of compute_estimator over the clause and the completion
ExpectedEstimator(bag, tab) ==
  LET m == BagSum(bag)
      E(i) == QSumOver([tau \in Taus(bag, tab, i) |->
                          QMul(TauProb(bag, tab, i, tau), <<1, CTau(bag, tab, tau)>>)],
                       Taus(bag, tab, i))
  IN QSumOver([i \in DOMAIN bag |-> QMul(QDiv(bag[i].prob, m), E(i))], DOMAIN bag)

-----------------------------------------------------------------------------
(* AA_algorithm, step 1: the threshold upsilon1_sra, "inf" for epsilon or *)
(* delta equal to 0                                                        *)
Threshold1(e, d) == IF e = Zero \/ d = Zero THEN "inf" ELSE Upsilon1

Below(a, t) == IF t = "inf" THEN TRUE ELSE QLt(a, t)

Max2(a, b) == IF a < b THEN b ELSE a

\* the running sum, saturated at AccCap (only its comparison with the
\* threshold matters, and AccCap is above every finite one)
Saturate(a) == IF QLt(a, AccCap) THEN a ELSE AccCap

AInit ==
  /\ Init
  /\ epsilon \in AconfEpsilons /\ delta \in AconfDeltas
  /\ phase = "idle" /\ cur = NoResult /\ nM = Zero /\ acc = Zero /\ n = 0

\* the next query's arguments
NextAconfArgs == epsilon' \in AconfEpsilons /\ delta' \in AconfDeltas

Idle == phase = "idle"

(* aconf_accumN: epsilon and delta from the row (the query's), then the   *)
(* body of accum                                                           *)
AconfAccum(g, c) ==
  /\ Idle
  /\ ConfAccum(g, c)
  /\ UNCHANGED aconfVars

(* aconf_final without a group context returns 0 *)
AconfFinalEmpty(g) ==
  /\ Idle
  /\ ConfFinal(g)
  /\ UNCHANGED aconfVars

(* getMissingRngs raises its error inside aconf_final *)
AconfFinalError(g) ==
  /\ Idle
  /\ ConfFinalError(g)
  /\ NextAconfArgs
  /\ UNCHANGED <<phase, cur, nM, acc, n>>

(* aconf_final up to AA_algorithm: getMissingRngs, computeEntryPointers,  *)
(* nM and clause_bag_prob                                                  *)
AconfFinalStart(g) ==
  /\ Idle
  /\ FinalAllowed(g)
  /\ groupcxt
  /\ ~MissingRngsError(wt)
  /\ wt' = GetMissingRngs(wt)
  /\ nM' = BagSum(S)
  /\ phase' = "step1" /\ cur' = g /\ acc' = Zero /\ n' = 0
  /\ UNCHANGED <<S, sNull, groupcxt, fed, res, aborts, restored, approach, eps, epsilon, delta>>

\* mutant: "S = compute_estimator()" for "S += compute_estimator()"
AconfStep1Assign ==
  /\ phase = "step1"
  /\ Below(acc, Threshold1(epsilon, delta))
  /\ \E v \in EstimatorValues(S, wt) : acc' = Saturate(v)
  /\ UNCHANGED <<vars, epsilon, delta, phase, cur, nM, n>>

(* step 1: while (S < upsilon1_sra) { N++; S += compute_estimator(); } *)
AconfStep1 ==
  /\ phase = "step1"
  /\ Below(acc, Threshold1(epsilon, delta))
  /\ \E v \in EstimatorValues(S, wt) : acc' = Saturate(QAdd(acc, v))
  /\ UNCHANGED <<vars, epsilon, delta, phase, cur, nM, n>>

AconfStep1Done ==
  /\ phase = "step1"
  /\ ~Below(acc, Threshold1(epsilon, delta))
  /\ phase' = "step2" /\ acc' = Zero /\ n' = 0
  /\ UNCHANGED <<vars, epsilon, delta, cur, nM>>

(* step 2: N2 iterations of two estimator calls (their squared difference *)
(* only sizes step 3, whose count is the constant N3)                      *)
AconfStep2 ==
  /\ phase = "step2"
  /\ n < N2
  /\ n' = n + 1
  /\ UNCHANGED <<vars, epsilon, delta, phase, cur, nM, acc>>

AconfStep2Done ==
  /\ phase = "step2"
  /\ n >= N2
  /\ phase' = "step3" /\ acc' = Zero /\ n' = 0
  /\ UNCHANGED <<vars, epsilon, delta, cur, nM>>

\* mutant: step 3 loops while i <= N, like step 2
AconfStep3LE ==
  /\ phase = "step3"
  /\ n <= N3
  /\ \E v \in EstimatorValues(S, wt) : acc' = QAdd(acc, v)
  /\ n' = n + 1
  /\ UNCHANGED <<vars, epsilon, delta, phase, cur, nM>>

(* step 3: N3 estimator calls summed *)
AconfStep3 ==
  /\ phase = "step3"
  /\ n < N3
  /\ \E v \in EstimatorValues(S, wt) : acc' = QAdd(acc, v)
  /\ n' = n + 1
  /\ UNCHANGED <<vars, epsilon, delta, phase, cur, nM>>

(* AA_algorithm returns S / N; aconf_final multiplies it by nM, deletes   *)
(* groupcxt and sets NUM_WSDS = 0, S = NULL, groupcxt = NULL              *)
AconfFinalReturn ==
  /\ phase = "step3"
  /\ n >= N3
  /\ res' = [res EXCEPT ![cur] = QMul(QDiv(acc, <<N3, 1>>), nM)]
  /\ S' = <<>> /\ sNull' = TRUE /\ groupcxt' = FALSE
  /\ phase' = "idle" /\ cur' = NoResult /\ acc' = Zero /\ n' = 0
  /\ UNCHANGED <<wt, fed, aborts, restored, approach, eps, epsilon, delta, nM>>

\* the steps of one aconf_final call
AconfSteps ==
  \/ AconfStep1 \/ AconfStep1Done \/ AconfStep2 \/ AconfStep2Done
  \/ AconfStep3 \/ AconfFinalReturn

ANext ==
  \/ \E g \in Groups, c \in Clauses : AconfAccum(g, c)
  \/ \E g \in Groups : \/ AconfFinalEmpty(g) \/ AconfFinalError(g)
                       \/ AconfFinalStart(g)
  \/ AconfSteps
  \/ Idle /\ QueryAbort /\ NextAconfArgs /\ UNCHANGED <<phase, cur, nM, acc, n>>

(* The final function runs on the backend's one thread until it returns: *)
(* once enabled, its next step is taken.                                  *)
ASpec == AInit /\ [][ANext]_avars /\ WF_avars(AconfSteps)

-----------------------------------------------------------------------------
AconfTypeOK ==
  /\ phase \in {"idle", "step1", "step2", "step3"}
  /\ cur \in Groups \cup {NoResult}
  /\ (phase = "idle") = (cur = NoResult)
  /\ epsilon \in AconfEpsilons /\ delta \in AconfDeltas
  /\ QLeq(Zero, acc) /\ n \in 0 .. Max2(N2, N3)
  /\ \A g \in Groups : res[g] = NoResult \/ QLeq(Zero, res[g])

(* compute_estimator is an unbiased estimator of p / nM (its comment):    *)
(* over the clause picked with weight S[i]->prob / nM and the assignment  *)
(* completed from the world table, the mean of 1 / c_tau times nM is the  *)
(* probability of the disjunction of the clauses in S.  This needs the    *)
(* world table completed by getMissingRngs, tau built from the picked     *)
(* clause, neutralised literals on the reserved variable, and c_tau       *)
(* counting every clause.  It is stated of S rather than of the group's   *)
(* rows, which S also holds after an aborted query (finding conf_abort).  *)
EstimatorUnbiased ==
  phase # "idle" => QMul(ExpectedEstimator(S, wt), nM) = BruteForce(SClauses)

(* Every aconf_final call returns: the stopping-rule loop of step 1 ends  *)
(* and so do the counted loops of steps 2 and 3 (spec.md section 7: the   *)
(* approximate engines always terminate with an estimate).               *)
AconfTerminates == ~Idle ~> Idle
=============================================================================
