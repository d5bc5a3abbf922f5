--------------------------- MODULE ConfAggregate ---------------------------
(***************************************************************************)
(* conf() as an aggregate: the transition function conf_accumN_ge (the    *)
(* accum macro of localcond.h calling advance) once per input row, the    *)
(* final function conf_final_ge once per group.  Their state is global to *)
(* the backend: S, NUM_WSDS and groupcxt (localcond.h), and the world     *)
(* table of the aggregate node's genstate.  conf_final_ge releases it     *)
(* (S := NULL, groupcxt := NULL) only when it returns.                    *)
(*                                                                         *)
(* The executor that drives the two calls is not in this repository; it  *)
(* is modelled from spec.md (sections 2 and 5): rows arrive for groups in *)
(* the order of the grouping Strategy ("plain": one group, "sorted": one *)
(* group after the other, "hashed": all rows, then every group's final),  *)
(* and a query may be aborted by an error raised outside the engine.      *)
(***************************************************************************)
EXTENDS WsTree

CONSTANTS
  Groups,      \* the groups of a query
  Vars,        \* variable ids (naturals > 0)
  Rngs,        \* outcome ids (naturals > 0)
  Dist,        \* Dist[v][r]: probability of v -> r (Zero: not an outcome)
  WSD_LEN,     \* literals per row (the N of conf_accumN_ge)
  MaxClauses,  \* bound on the rows of a query, over all its groups, and on S
  MaxAborts,   \* bound on aborted queries
  Strategy,    \* "plain", "sorted" or "hashed"
  NoResult,    \* a group whose final has not run
  Approaches,  \* values of conf(approach, epsilon)'s approach: "R", "A", anything else
  Epsilons     \* values of its epsilon argument (fractions)

ASSUME Strategy \in {"plain", "sorted", "hashed"}
ASSUME Strategy = "plain" => Cardinality(Groups) = 1
ASSUME \A e \in Epsilons : QLt(e, One)

VARIABLES
  S,         \* the clause bag (WSD**)
  sNull,     \* S == NULL
  wt,        \* the world table of genstate
  groupcxt,  \* groupcxt # NULL
  fed,       \* executor: the rows fed to each group in this query
  res,       \* executor: the value final returned for each group
  aborts,    \* number of aborted queries
  restored,  \* history: the last final's engine gave S back as it found it
  approach,  \* appro_approach (d-tree.c), set by every conf(approach, eps) row
  eps        \* appro_epsilon (d-tree.c)

vars == <<S, sNull, wt, groupcxt, fed, res, aborts, restored, approach, eps>>

Lits    == {<<v, r>> \in Vars \X Rngs : Dist[v][r] # Zero}
\* a row's condition columns: no variable with two outcomes (the rewriter's
\* remove_mutual_exclusiveness filters contradictory rows)
Clauses == {c \in [1 .. WSD_LEN -> Lits] :
              \A i, j \in 1 .. WSD_LEN : c[i][1] = c[j][1] => c[i][2] = c[j][2]}

ToMaps(c) == [j \in DOMAIN c |-> CreateMap(c[j][1], c[j][2], Dist[c[j][1]][c[j][2]])]

-----------------------------------------------------------------------------
(* The reference: the probability that some clause is true when every    *)
(* variable independently takes outcome r with probability Dist[v][r] and *)
(* an outcome 0 ("else") with the remaining mass.                          *)
Worlds == [Vars -> Rngs \cup {0}]
Holds(c, w) == \A j \in DOMAIN c : w[c[j][1]] = c[j][2]

RECURSIVE QSumOver(_, _)
\* the sum of the fractions f[x] over the finite set xs
QSumOver(f, xs) ==
  IF xs = {} THEN Zero
  ELSE LET x == CHOOSE y \in xs : TRUE IN QAdd(f[x], QSumOver(f, xs \ {x}))

RECURSIVE QProdOver(_, _)
QProdOver(f, xs) ==
  IF xs = {} THEN One
  ELSE LET x == CHOOSE y \in xs : TRUE IN QMul(f[x], QProdOver(f, xs \ {x}))

ElseMass(v) == QSub(One, QSumOver(Dist[v], Rngs))
Weight(v, r) == IF r = 0 THEN ElseMass(v) ELSE Dist[v][r]

WorldProb(w) == QProdOver([v \in Vars |-> Weight(v, w[v])], Vars)

BruteForce(cs) ==
  QSumOver([w \in Worlds |-> WorldProb(w)],
           {w \in Worlds : \E i \in DOMAIN cs : Holds(cs[i], w)})

-----------------------------------------------------------------------------
FSE == INSTANCE FiniteSetsExt

\* the rows fed to the aggregate in this query
RowsFed == FSE!MapThenSumSet(LAMBDA h : Len(fed[h]), Groups)

\* executor: may a row of group g come next / may g's final run now
Open(h) == fed[h] # <<>> /\ res[h] = NoResult

RowAllowed(g) ==
  /\ res[g] = NoResult
  /\ RowsFed < MaxClauses
  /\ sNull \/ Len(S) < MaxClauses
  /\ CASE Strategy = "plain"  -> TRUE
       [] Strategy = "sorted" -> \A h \in Groups \ {g} : ~Open(h)
       [] Strategy = "hashed" -> \A h \in Groups : res[h] = NoResult

FinalAllowed(g) ==
  /\ res[g] = NoResult
  /\ Strategy = "plain" \/ fed[g] # <<>>

(* conf_appro_accum stores the row's approach and epsilon in the        *)
(* globals; the rewriter passes the user's arguments unchanged to every  *)
(* row, so they are the query's, chosen when it starts.                  *)
NextArgs == approach' \in Approaches /\ eps' \in Epsilons

ApproInit == approach \in Approaches /\ eps \in Epsilons

\* the executor starts the next query; the engine's globals are untouched
NextQuery ==
  /\ fed' = [h \in Groups |-> <<>>]
  /\ res' = [h \in Groups |-> NoResult]
  /\ NextArgs

Init ==
  /\ S = <<>> /\ sNull = TRUE
  /\ wt = <<>>
  /\ groupcxt = FALSE
  /\ fed = [g \in Groups |-> <<>>]
  /\ res = [g \in Groups |-> NoResult]
  /\ aborts = 0
  /\ restored = TRUE
  /\ ApproInit

(* conf_accumN_ge: the accum macro; advance runs genStateInit when S is   *)
(* NULL, then appends the row's WSD and records its literals.             *)
ConfAccum(g, c) ==
  /\ RowAllowed(g)
  /\ LET S0  == IF sNull THEN <<>> ELSE S
         wt0 == IF sNull THEN <<>> ELSE wt
         a   == Advance(S0, wt0, ToMaps(c))
     IN /\ S' = a.S /\ wt' = a.wt
  /\ sNull' = FALSE
  /\ groupcxt' = TRUE
  /\ fed' = [fed EXCEPT ![g] = Append(@, c)]
  /\ UNCHANGED <<res, aborts, restored, approach, eps>>

(* conf_final_ge: 0 without a group context; else getMissingRngs,         *)
(* indve_compute_prob over all of S, release of the group's state.       *)
ConfFinal(g) ==
  /\ FinalAllowed(g)
  /\ ~groupcxt
  /\ res' = [res EXCEPT ![g] = Zero]
  /\ UNCHANGED <<S, sNull, wt, groupcxt, fed, aborts, restored, approach, eps>>

\* mutant: conf_final_ge without "S = NULL" (NUM_WSDS kept)
ConfFinalComputeKeepS(g) ==
  /\ FinalAllowed(g)
  /\ groupcxt
  /\ ~MissingRngsError(wt)
  /\ LET wt1 == GetMissingRngs(wt)
         r   == IndveComputeProb(DOMAIN S, S, wt1)
     IN /\ res' = [res EXCEPT ![g] = r.p]
        /\ restored' = (r.S = S)
        /\ wt' = wt1
  /\ groupcxt' = FALSE
  /\ UNCHANGED <<S, sNull, fed, aborts, approach, eps>>

ConfFinalCompute(g) ==
  /\ FinalAllowed(g)
  /\ groupcxt
  /\ ~MissingRngsError(wt)
  /\ LET wt1 == GetMissingRngs(wt)
         r   == IndveComputeProb(DOMAIN S, S, wt1)
     IN /\ res' = [res EXCEPT ![g] = r.p]
        /\ restored' = (r.S = S)
        /\ wt' = wt1
  /\ S' = <<>> /\ sNull' = TRUE
  /\ groupcxt' = FALSE
  /\ UNCHANGED <<fed, aborts, approach, eps>>

(* getMissingRngs raises ERROR: the entries before the offending one are  *)
(* completed, S and groupcxt stay as they are, and the query is aborted. *)
ConfFinalError(g) ==
  /\ FinalAllowed(g)
  /\ groupcxt
  /\ MissingRngsError(wt)
  /\ aborts < MaxAborts
  /\ LET bad == FirstBit({e \in DOMAIN wt : QLt(SumSlack, QSub(RngSum(wt[e]), One))})
     IN wt' = [e \in DOMAIN wt |-> IF e < bad THEN GetMissingRngs(wt)[e] ELSE wt[e]]
  /\ aborts' = aborts + 1
  /\ NextQuery
  /\ UNCHANGED <<S, sNull, groupcxt, restored>>

(* an error raised elsewhere in the query (or a cancel) while a group's   *)
(* rows are being accumulated                                            *)
QueryAbort ==
  /\ groupcxt
  /\ aborts < MaxAborts
  /\ aborts' = aborts + 1
  /\ NextQuery
  /\ UNCHANGED <<S, sNull, wt, groupcxt, restored>>

Next ==
  \/ \E g \in Groups, c \in Clauses : ConfAccum(g, c)
  \/ \E g \in Groups : ConfFinal(g) \/ ConfFinalCompute(g) \/ ConfFinalError(g)
  \/ QueryAbort

Spec == Init /\ [][Next]_vars

-----------------------------------------------------------------------------
TypeOK ==
  /\ sNull \in BOOLEAN /\ groupcxt \in BOOLEAN /\ restored \in BOOLEAN
  /\ \A i \in DOMAIN S : Len(S[i].data) = WSD_LEN
  /\ \A e \in DOMAIN wt : wt[e].var \in Vars \cup {RESERVED_VAR}
  /\ fed \in [Groups -> Seq(Clauses)]
  /\ \A g \in Groups : res[g] = NoResult \/ (QLeq(Zero, res[g]) /\ QLeq(res[g], One))
  /\ aborts \in 0 .. MaxAborts
  /\ approach \in Approaches /\ eps \in Epsilons

\* the clauses of S as (variable, outcome) pairs, the reserved variable left out
SClauses ==
  [i \in DOMAIN S |->
     SelectSeq([k \in DOMAIN S[i].data |-> <<S[i].data[k].var, S[i].data[k].rng>>],
               LAMBDA l : l[1] # RESERVED_VAR)]

(* The value conf_final_ge returns for a group is the probability of the *)
(* disjunction of exactly the rows accumulated for that group in this     *)
(* query: S, NUM_WSDS, groupcxt and the world table are backend globals,  *)
(* so the rows of another group, or of an aborted query, that are still   *)
(* in S when the final runs would be counted in.                          *)
FinalIsExact ==
  \A g \in Groups : res[g] # NoResult => res[g] = BruteForce(fed[g])

(* indve_compute_prob hands S back as it found it: every literal that     *)
(* find_wsds_with_var_rng dropped (rng := -1, prob divided) on the way    *)
(* down is restored by reset_wsds_var_rng, also on the found_empty and    *)
(* early-stop paths.                                                      *)
IndveRestoresS == restored

(* conf_final_ge computes the probability of whatever S holds when it    *)
(* runs, with the world table as advance and earlier finals left it: the *)
(* rows of the group and also those an aborted query left behind, with   *)
(* the entries their literals made in the world table.  With             *)
(* FinalIsExact this separates the engine's arithmetic from the          *)
(* executor's protocol.                                                  *)
FinalIsConfOfS ==
  [][\A g \in Groups :
       res[g] = NoResult /\ res'[g] # NoResult /\ groupcxt
         => res'[g] = BruteForce(SClauses)]_vars
=============================================================================
