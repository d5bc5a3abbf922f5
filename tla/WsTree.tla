------------------------------ MODULE WsTree ------------------------------
(***************************************************************************)
(* The exact confidence engine of ws-tree.c: indve_compute_prob, the      *)
(* recursion that splits a set of WSDs into an independent component and  *)
(* the rest, and eliminates the variable chosen by choose_var_minlog,     *)
(* temporarily dropping its literals from the clauses of S (rng := -1,    *)
(* prob /= literal prob) and restoring them afterwards.                    *)
(*                                                                         *)
(* A bitset is a set of WSD indices.  The recursion threads S through, as *)
(* the C code mutates the global S in place; it returns [p, S].  The      *)
(* world table wt is only read (the counts of choose_var_minlog are       *)
(* scratch and computed here from S).                                     *)
(***************************************************************************)
EXTENDS Lineage

DROPPED == -1   \* "Mark the used choices of rng for that var"

IsLive(m) == m.rng # DROPPED

(* compare_map(m1, m2) # 0: both literals live and on the same variable *)
Dependent(m1, m2) == IsLive(m1) /\ IsLive(m2) /\ m1.var = m2.var

(* wsd_ind: no literal of d1 depends on a literal of d2 *)
WsdInd(d1, d2) ==
  \A i \in DOMAIN d1.data, j \in DOMAIN d2.data : ~Dependent(d1.data[i], d2.data[j])

FirstBit(set) == CHOOSE i \in set : \A j \in set : i <= j

(* find_independent_split / dfs: the WSDs of set connected to its first  *)
(* member by chains of dependent WSDs                                     *)
FindIndependentSplit(set, S) ==
  LET RECURSIVE Dfs(_)
      Dfs(R) == LET R2 == R \cup {j \in set : \E i \in R : i # j /\ ~WsdInd(S[i], S[j])}
                IN IF R2 = R THEN R ELSE Dfs(R2)
  IN Dfs({FirstBit(set)})

(* the live literals on var of the WSDs in set, as <<wsd, position>>    *)
LiveOn(set, S, var) ==
  UNION {{<<i, j>> : j \in {k \in DOMAIN S[i].data :
                              IsLive(S[i].data[k]) /\ S[i].data[k].var = var}} : i \in set}

(***************************************************************************)
(* choose_var_minlog: over the entries with a counted outcome, the one    *)
(* minimising rng_entry_count * (set_size - assignments) + assignments,   *)
(* the first in table order on a tie; 0 (NULL) when none is counted.      *)
(***************************************************************************)
ChooseVarMinlog(set, S, wt) ==
  LET Asg(e)  == Cardinality(LiveOn(set, S, wt[e].var))   \* how_many_assignments
      Val(e)  == Len(wt[e].rngs) * (Cardinality(set) - Asg(e)) + Asg(e)
      Cands   == {e \in DOMAIN wt : Asg(e) > 0}
  IN IF Cands = {} THEN 0
     ELSE CHOOSE e \in Cands : \A f \in Cands : Val(e) < Val(f) \/ (Val(e) = Val(f) /\ e <= f)

(* find_wsds_without_var: the WSDs of set with no literal on var at all  *)
FindWsdsWithoutVar(set, S, var) ==
  {i \in set : \A j \in DOMAIN S[i].data : S[i].data[j].var # var}

\* mutant: reset_wsds_var_rng restoring rng without "S[i]->prob *= ..."
ResetWsdsVarRngNoProb(set, S, var, rng) ==
  [i \in DOMAIN S |->
     IF i \notin set THEN S[i]
     ELSE [S[i] EXCEPT !.data = [j \in DOMAIN @ |->
                                  IF @[j].var = var THEN [@[j] EXCEPT !.rng = rng] ELSE @[j]]]]

(***************************************************************************)
(* reset_wsds_var_rng: every literal on var of the WSDs in set gets rng   *)
(* back and its probability multiplied back into the WSD.                 *)
(***************************************************************************)
ResetWsdsVarRng(set, S, var, rng) ==
  [i \in DOMAIN S |->
     IF i \notin set THEN S[i]
     ELSE LET on == {j \in DOMAIN S[i].data : S[i].data[j].var = var}
              RECURSIVE Mul(_, _)
              Mul(p, js) == IF js = {} THEN p
                            ELSE LET j == FirstBit(js)
                                 IN Mul(QMul(p, S[i].data[j].prob), js \ {j})
          IN [data |-> [j \in DOMAIN S[i].data |->
                          IF j \in on THEN [S[i].data[j] EXCEPT !.rng = rng]
                          ELSE S[i].data[j]],
              prob |-> Mul(S[i].prob, on)]]

(***************************************************************************)
(* find_wsds_with_var_rng: scan the WSDs of set in index order; in each   *)
(* one holding var -> rng, drop the first such literal and divide the WSD *)
(* probability by it.  A WSD left with probability 1 stops the scan       *)
(* (found_empty_wsd): the dropped literals are restored and an empty,     *)
(* non-NULL subset returned.  Returns [found (non-NULL), sub, S].         *)
(***************************************************************************)
FindWsdsWithVarRng(set, S, var, rng) ==
  LET Match(s, i) == {j \in DOMAIN s[i].data : s[i].data[j].var = var /\ s[i].data[j].rng = rng}
      RECURSIVE Scan(_, _, _)
      Scan(i, sub, s) ==
        IF i > Len(s) THEN [sub |-> sub, s |-> s, empty |-> FALSE]
        ELSE IF i \notin set \/ Match(s, i) = {} THEN Scan(i + 1, sub, s)
        ELSE LET j  == FirstBit(Match(s, i))
                 s1 == [s EXCEPT ![i].data[j].rng = DROPPED,
                                 ![i].prob = QDiv(@, s[i].data[j].prob)]
             IN IF s1[i].prob = One
                THEN [sub |-> sub \cup {i}, s |-> s1, empty |-> TRUE]
                ELSE Scan(i + 1, sub \cup {i}, s1)
      r == Scan(1, {}, S)
  IN IF r.empty
     THEN [found |-> TRUE, sub |-> {}, S |-> ResetWsdsVarRng(r.sub, r.s, var, rng)]
     ELSE [found |-> r.sub # {}, sub |-> r.sub, S |-> r.s]

NoMemo == <<-1, 1>>   \* p_without_var = -1: not computed yet

SetTask(set, S, wt) == [kind |-> "set", set |-> set, S |-> S, wt |-> wt]
LoopTask(i, e, sub, wo, acc, wt) ==
  [kind |-> "loop", i |-> i, e |-> e, sub |-> sub, wo |-> wo, acc |-> acc, wt |-> wt]

(***************************************************************************)
(* indve_compute_prob as one recursive operator on a task: a "set" task   *)
(* is a call indve_compute_prob(set); a "loop" task is the loop over the  *)
(* outcomes of the chosen variable from outcome i on, with the running    *)
(* acc = [pleft, pwo (p_without_var), S].  Both return [p, S], a loop     *)
(* also whether it stopped early.                                         *)
(***************************************************************************)
RECURSIVE Indve(_)
Indve(t) ==
  IF t.kind = "loop" THEN
    LET wt == t.wt  e == t.e  acc == t.acc IN
    IF t.i > Len(wt[e].rngs) THEN [p |-> acc.pleft, S |-> acc.S, stop |-> FALSE]
    ELSE
    LET var == wt[e].var
        o   == wt[e].rngs[t.i]
        f   == FindWsdsWithVarRng(t.sub, acc.S, var, o.rng)
        wor == IF acc.pwo = NoMemo THEN Indve(SetTask(t.wo, f.S, wt))
               ELSE [p |-> acc.pwo, S |-> f.S]
        rec == Indve(SetTask(f.sub \cup t.wo, f.S, wt))
        nxt == CASE ~f.found      -> [cur |-> QMul(o.p, wor.p), pwo |-> wor.p, S |-> wor.S]
                 [] f.sub = {}    -> [cur |-> o.p, pwo |-> acc.pwo, S |-> f.S]
                 [] OTHER         -> [cur |-> QMul(o.p, rec.p), pwo |-> acc.pwo,
                                      S |-> ResetWsdsVarRng(f.sub \cup t.wo, rec.S, var, o.rng)]
        pl  == QAdd(acc.pleft, nxt.cur)
    IN IF pl = One /\ Len(wt[e].rngs) = 1
       THEN [p |-> One, S |-> nxt.S, stop |-> TRUE]
       ELSE Indve(LoopTask(t.i + 1, e, t.sub, t.wo,
                           [pleft |-> pl, pwo |-> nxt.pwo, S |-> nxt.S], wt))
  ELSE
    LET set == t.set  S == t.S  wt == t.wt IN
    IF set = {} THEN [p |-> Zero, S |-> S]
    ELSE
    LET sub  == FindIndependentSplit(set, S)
        e    == ChooseVarMinlog(sub, S, wt)
        left == IF Cardinality(sub) = 1
                THEN [p |-> S[FirstBit(sub)].prob, S |-> S, stop |-> FALSE]
                ELSE IF e = 0 THEN [p |-> One, S |-> S, stop |-> TRUE]
                ELSE Indve(LoopTask(1, e, sub, FindWsdsWithoutVar(sub, S, wt[e].var),
                                    [pleft |-> Zero, pwo |-> NoMemo, S |-> S], wt))
        right == Indve(SetTask(set \ sub, left.S, wt))
    IN IF left.stop \/ left.p = One THEN [p |-> One, S |-> left.S]
       ELSE [p |-> QOr(left.p, right.p), S |-> right.S]

\* conf_final_ge: indve_compute_prob over the full set of S
IndveComputeProb(set, S, wt) == Indve(SetTask(set, S, wt))
=============================================================================
