------------------------------ MODULE DTree ------------------------------
(***************************************************************************)
(* The decomposition-tree engine of d-tree.c: the bucketing bounds, the   *)
(* variable heuristic choose_var_max_occur_same_column, the subsumption   *)
(* removal applied when two sets of clauses are merged, the exact tree    *)
(* (epsilon = 0) and the approximate tree with its bound bookkeeping,     *)
(* and the quicksort that orders S before the approximation.               *)
(*                                                                         *)
(* d-tree.c keeps its own copies of find_independent_split, dfs, wsd_ind, *)
(* compare_map, find_wsds_without_var and reset_wsds_var_rng; they are    *)
(* the same code as in ws-tree.c and the WsTree operators are reused.     *)
(* Its find_wsds_with_var_rng differs (it drops every matching literal of *)
(* a clause) and is modelled here.  As in WsTree, S is threaded through.  *)
(***************************************************************************)
EXTENDS WsTree

NoVar == -2   \* a NULL world-table entry

\* the variables of the live literals of S[i]
LiveVars(S, i) ==
  {S[i].data[k].var : k \in {k \in DOMAIN S[i].data : IsLive(S[i].data[k])}}

\* mutant: add_to_bucket without add_var_to_bucket (the bucket's variables are never recorded)
BucketsNoVars(set, S) ==
  LET RECURSIVE Fill(_, _)
      Fill(i, bs) ==
        IF i > Len(S) THEN bs
        ELSE IF i \notin set THEN Fill(i + 1, bs)
        ELSE LET fit == {b \in DOMAIN bs : bs[b].vars \cap LiveVars(S, i) = {}}
                 AddTo(bk) == [vars |-> bk.vars, prob |-> QOr(bk.prob, S[i].prob)]
             IN IF fit = {}
                THEN Fill(i + 1, Append(bs, AddTo([vars |-> {}, prob |-> Zero])))
                ELSE Fill(i + 1, [bs EXCEPT ![FirstBit(fit)] = AddTo(@)])
  IN Fill(1, <<>>)

(***************************************************************************)
(* compute_upper_and_lower_bounds with exists_in_bucket, add_to_bucket,   *)
(* add_var_to_bucket and add_new_bucket: the clauses of set, in index     *)
(* order, go to the first bucket sharing none of their live variables, or *)
(* to a new one; a bucket's probability is that of the disjunction of its *)
(* clauses.  lower = the largest bucket, upper = min(1, sum of buckets).  *)
(***************************************************************************)
Buckets(set, S) ==
  LET RECURSIVE Fill(_, _)
      Fill(i, bs) ==
        IF i > Len(S) THEN bs
        ELSE IF i \notin set THEN Fill(i + 1, bs)
        ELSE LET fit       == {b \in DOMAIN bs : bs[b].vars \cap LiveVars(S, i) = {}}
                 AddTo(bk) == [vars |-> bk.vars \cup LiveVars(S, i),
                               prob |-> QOr(bk.prob, S[i].prob)]
             IN IF fit = {}
                THEN Fill(i + 1, Append(bs, AddTo([vars |-> {}, prob |-> Zero])))
                ELSE Fill(i + 1, [bs EXCEPT ![FirstBit(fit)] = AddTo(@)])
  IN Fill(1, <<>>)

ComputeBounds(set, S) ==
  LET bs  == Buckets(set, S)
      ps  == {bs[b].prob : b \in DOMAIN bs}
      sum == QSumSeq([b \in DOMAIN bs |-> bs[b].prob])
  IN [lower |-> IF ps = {} THEN Zero ELSE CHOOSE p \in ps : \A q \in ps : QLeq(q, p),
      upper |-> IF QLt(One, sum) THEN One ELSE sum]

(***************************************************************************)
(* choose_var_max_occur_same_column: count the live literals of set,      *)
(* clause by clause and column by column; the variable whose running      *)
(* count first exceeds the maximum in column latest wins; while none has  *)
(* been seen in that column, the same is done over the other columns.     *)
(* Columns are 1-based; latest = 0 is the first call's -1.  Returns the   *)
(* variable (NoVar for NULL) and new_var_col.                             *)
(***************************************************************************)
ChooseVarMaxOccurSameColumn(set, S, latest) ==
  LET Vs == UNION {{S[i].data[k].var : k \in DOMAIN S[i].data} : i \in DOMAIN S}
      RECURSIVE Scan(_, _, _)
      Scan(i, j, st) ==
        IF i > Len(S) THEN st
        ELSE IF i \notin set \/ j > Len(S[i].data) THEN Scan(i + 1, 1, st)
        ELSE IF ~IsLive(S[i].data[j]) THEN Scan(i, j + 1, st)
        ELSE LET v   == S[i].data[j].var
                 c   == st.cnt[v] + 1
                 st1 == [st EXCEPT !.cnt[v] = c]
             IN Scan(i, j + 1,
                  IF j = latest
                  THEN IF c > st.same THEN [st1 EXCEPT !.same = c, !.sameVar = v, !.col = j]
                       ELSE st1
                  ELSE IF st.same = -1 /\ c > st.other
                       THEN [st1 EXCEPT !.other = c, !.otherVar = v, !.col = j]
                       ELSE st1)
      r == Scan(1, 1, [cnt |-> [v \in Vs |-> 0], same |-> -1, other |-> -1,
                       sameVar |-> NoVar, otherVar |-> NoVar, col |-> latest])
  IN [var |-> IF r.same # -1 THEN r.sameVar ELSE r.otherVar, col |-> r.col]

\* mutant: find_wsds_with_var_rng returning on found_empty_wsd without reset_wsds_var_rng
DtFindWsdsWithVarRngNoReset(set, S, var, rng) ==
  LET RECURSIVE Scan(_, _, _)
      Scan(i, j, acc) ==
        IF i > Len(acc.s) \/ (j = 1 /\ acc.empty) THEN acc
        ELSE IF i \notin set \/ j > Len(acc.s[i].data) THEN Scan(i + 1, 1, acc)
        ELSE IF acc.s[i].data[j].var = var /\ acc.s[i].data[j].rng = rng
        THEN LET s1 == [acc.s EXCEPT ![i].data[j].rng = DROPPED,
                                     ![i].prob = QDiv(@, acc.s[i].data[j].prob)]
             IN Scan(i, j + 1, [sub |-> acc.sub \cup {i}, s |-> s1,
                                empty |-> acc.empty \/ s1[i].prob = One])
        ELSE Scan(i, j + 1, acc)
      r == Scan(1, 1, [sub |-> {}, s |-> S, empty |-> FALSE])
  IN IF r.empty THEN [found |-> TRUE, sub |-> {}, S |-> r.s]
     ELSE [found |-> r.sub # {}, sub |-> r.sub, S |-> r.s]

(***************************************************************************)
(* find_wsds_with_var_rng of d-tree.c: as in ws-tree.c, but every literal *)
(* var -> rng of a clause is dropped, and the found_empty_wsd test runs   *)
(* after each drop; the scan stops after the clause that set it.           *)
(***************************************************************************)
DtFindWsdsWithVarRng(set, S, var, rng) ==
  LET RECURSIVE Scan(_, _, _)
      Scan(i, j, acc) ==
        IF i > Len(acc.s) \/ (j = 1 /\ acc.empty) THEN acc
        ELSE IF i \notin set \/ j > Len(acc.s[i].data) THEN Scan(i + 1, 1, acc)
        ELSE IF acc.s[i].data[j].var = var /\ acc.s[i].data[j].rng = rng
        THEN LET s1 == [acc.s EXCEPT ![i].data[j].rng = DROPPED,
                                     ![i].prob = QDiv(@, acc.s[i].data[j].prob)]
             IN Scan(i, j + 1, [sub |-> acc.sub \cup {i}, s |-> s1,
                                empty |-> acc.empty \/ s1[i].prob = One])
        ELSE Scan(i, j + 1, acc)
      r == Scan(1, 1, [sub |-> {}, s |-> S, empty |-> FALSE])
  IN IF r.empty
     THEN [found |-> TRUE, sub |-> {}, S |-> ResetWsdsVarRng(r.sub, r.s, var, rng)]
     ELSE [found |-> r.sub # {}, sub |-> r.sub, S |-> r.s]

(***************************************************************************)
(* bitset_union_removing_subsumption(set1, set2): a clause j of set2 is   *)
(* left out when some clause i of set1 has all the variables of its live  *)
(* literals among the variables of j.  Only variables are compared, not   *)
(* outcomes.                                                               *)
(***************************************************************************)
Subsumes(S, i, j) ==
  \A k \in DOMAIN S[i].data :
    IsLive(S[i].data[k]) => \E h \in DOMAIN S[j].data : S[j].data[h].var = S[i].data[k].var

UnionRemovingSubsumption(set1, set2, S) ==
  set1 \cup {j \in set2 : ~\E i \in set1 : Subsumes(S, i, j)}

-----------------------------------------------------------------------------
(* quicksort of S by clause probability, largest first (1-based bounds). *)
Swap(a, x, y) == [a EXCEPT ![x] = a[y], ![y] = a[x]]

(* findMedianIndex: a selection of the largest among every shift-th      *)
(* element from left to right, for the first half of them; returns the   *)
(* array and the middle position k.                                      *)
FindMedianIndex(a, left, right, shift) ==
  LET k == left + (((right - left) \div shift + 1) \div 2) * shift
      RECURSIVE Outer(_, _), MaxFrom(_, _, _)
      MaxFrom(b, j, m) ==
        IF j > right THEN m
        ELSE MaxFrom(b, j + shift, IF QLt(b[m].prob, b[j].prob) THEN j ELSE m)
      Outer(b, i) == IF i > k THEN b ELSE Outer(Swap(b, i, MaxFrom(b, i, i)), i + shift)
  IN [a |-> Outer(a, left), k |-> k]

(* findMedianOfMedians: moves the median of medians to position left.    *)
FindMedianOfMedians(a, left, right) ==
  LET RECURSIVE Groups(_, _, _), Rounds(_, _)
      Groups(b, i, shift) ==
        IF i > right THEN b
        ELSE LET endIndex == IF i + shift * 5 - 1 < right THEN i + shift * 5 - 1 ELSE right
                 m        == FindMedianIndex(b, i, endIndex, shift)
             IN Groups(Swap(m.a, i, m.k), i + shift * 5, shift)
      Rounds(b, shift) ==
        IF shift > right - left THEN b ELSE Rounds(Groups(b, left, shift), shift * 5)
  IN IF left = right THEN a ELSE Rounds(a, 1)

\* mutant: partition without the final swap that puts the pivot in place
PartitionNoPivotSwap(a, left, right) ==
  LET a1 == FindMedianOfMedians(a, left, right)
      pv == a1[left].prob
      RECURSIVE Loop(_, _, _)
      Loop(b, i, index) ==
        IF i >= right THEN [a |-> b, k |-> index]
        ELSE IF QLt(pv, b[i].prob) THEN Loop(Swap(b, i, index), i + 1, index + 1)
        ELSE Loop(b, i + 1, index)
  IN Loop(Swap(a1, left, right), left, left)

(* partition: pivot = the median of medians; larger elements go first.  *)
Partition(a, left, right) ==
  LET a1 == FindMedianOfMedians(a, left, right)
      pv == a1[left].prob
      RECURSIVE Loop(_, _, _)
      Loop(b, i, index) ==
        IF i >= right THEN [a |-> Swap(b, right, index), k |-> index]
        ELSE IF QLt(pv, b[i].prob) THEN Loop(Swap(b, i, index), i + 1, index + 1)
        ELSE Loop(b, i + 1, index)
  IN Loop(Swap(a1, left, right), left, left)

RECURSIVE QuickSort(_, _, _)
QuickSort(a, left, right) ==
  IF left >= right THEN a
  ELSE LET p == Partition(a, left, right)
       IN QuickSort(QuickSort(p.a, left, p.k - 1), p.k + 1, right)

(* The quicksort of conf_appro_final_ge returns a permutation of its     *)
(* input ordered by non-increasing probability, for every input: the      *)
(* median-of-medians pivot selection, the partition loop and the two      *)
(* recursive calls on either side of the pivot.                           *)
QuickSortCorrect(a) ==
  LET s == QuickSort(a, 1, Len(a))
      Count(q, x) == Cardinality({i \in DOMAIN q : q[i] = x})
  IN /\ Len(s) = Len(a)
     /\ \A x \in {a[i] : i \in DOMAIN a} : Count(s, x) = Count(a, x)
     /\ \A i \in 1 .. Len(s) - 1 : QLeq(s[i + 1].prob, s[i].prob)

-----------------------------------------------------------------------------
DSetTask(set, S, wt, col) == [kind |-> "set", set |-> set, S |-> S, wt |-> wt, col |-> col]
DLoopTask(i, e, sub, wo, acc, wt, col) ==
  [kind |-> "loop", i |-> i, e |-> e, sub |-> sub, wo |-> wo, acc |-> acc, wt |-> wt, col |-> col]

(***************************************************************************)
(* decomposition_tree_exact, as one recursive operator on a task like     *)
(* WsTree's Indve: the same recursion as indve_compute_prob, with the     *)
(* variable of choose_var_max_occur_same_column (its new_var_col handed   *)
(* to the calls below it), the d-tree's find_wsds_with_var_rng, and the   *)
(* clauses without the variable merged by bitset_union_removing_          *)
(* subsumption.  Returns [p, S] (a loop also whether it stopped early).   *)
(***************************************************************************)
RECURSIVE DTreeExact(_)
DTreeExact(t) ==
  IF t.kind = "loop" THEN
    LET wt == t.wt  e == t.e  acc == t.acc IN
    IF t.i > Len(wt[e].rngs) THEN [p |-> acc.pleft, S |-> acc.S, stop |-> FALSE]
    ELSE
    LET var == wt[e].var
        o   == wt[e].rngs[t.i]
        f   == DtFindWsdsWithVarRng(t.sub, acc.S, var, o.rng)
        u   == UnionRemovingSubsumption(f.sub, t.wo, f.S)
        wor == IF acc.pwo = NoMemo THEN DTreeExact(DSetTask(t.wo, f.S, wt, t.col))
               ELSE [p |-> acc.pwo, S |-> f.S]
        rec == DTreeExact(DSetTask(u, f.S, wt, t.col))
        nxt == CASE ~f.found   -> [cur |-> QMul(o.p, wor.p), pwo |-> wor.p, S |-> wor.S]
                 [] f.sub = {} -> [cur |-> o.p, pwo |-> acc.pwo, S |-> f.S]
                 [] OTHER      -> [cur |-> QMul(o.p, rec.p), pwo |-> acc.pwo,
                                   S |-> ResetWsdsVarRng(u, rec.S, var, o.rng)]
        pl  == QAdd(acc.pleft, nxt.cur)
    IN IF pl = One /\ Len(wt[e].rngs) = 1
       THEN [p |-> One, S |-> nxt.S, stop |-> TRUE]
       ELSE DTreeExact(DLoopTask(t.i + 1, e, t.sub, t.wo,
                                 [pleft |-> pl, pwo |-> nxt.pwo, S |-> nxt.S], wt, t.col))
  ELSE
    LET set == t.set  S == t.S  wt == t.wt IN
    IF set = {} THEN [p |-> Zero, S |-> S]
    ELSE
    LET sub  == FindIndependentSplit(set, S)
        ch   == ChooseVarMaxOccurSameColumn(sub, S, t.col)
        left == IF Cardinality(sub) = 1
                THEN [p |-> S[FirstBit(sub)].prob, S |-> S, stop |-> FALSE]
                ELSE IF ch.var = NoVar THEN [p |-> One, S |-> S, stop |-> TRUE]
                ELSE DTreeExact(DLoopTask(1, WtIndex(wt, ch.var), sub,
                                          FindWsdsWithoutVar(sub, S, ch.var),
                                          [pleft |-> Zero, pwo |-> NoMemo, S |-> S], wt, ch.col))
        right == DTreeExact(DSetTask(set \ sub, left.S, wt, t.col))
    IN IF left.stop \/ left.p = One THEN [p |-> One, S |-> left.S]
       ELSE [p |-> QOr(left.p, right.p), S |-> right.S]

-----------------------------------------------------------------------------
(* The approximation.  cfg = [sn |-> stopping_number, rel |-> is_relative]; *)
(* bi is a bound_information record: coefficient/constant of the upper   *)
(* (cu, ku), lower (cl, kl) and leaf-closing upper (ccu, kcu) bounds.      *)
(* sat is the global has_satisfied_stopping_condition.                     *)

\* "(upper - lower) / lower <= stopping_number" (relative; x / 0 is never <=)
\* or "upper - lower <= stopping_number" (absolute)
Stop(cfg, U, L) ==
  IF cfg.rel THEN L # Zero /\ QLeq(QDiv(QSub(U, L), L), cfg.sn)
  ELSE QLeq(QSub(U, L), cfg.sn)

\* the leaf may be closed: its weighted gap is below 0.001 * stopping_number
CloseLeaf(cfg, gap, L) ==
  IF cfg.rel THEN L # Zero /\ QLeq(QDiv(gap, L), QMul(<<1, 1000>>, cfg.sn))
  ELSE QLeq(gap, QMul(<<1, 1000>>, cfg.sn))

\* coefficient * (a + b - a * b) + constant
Whole(coef, const, a, b) == QAdd(QMul(coef, QOr(a, b)), const)

ASetTask(set, S, wt, path, bi, col, sat, cfg) ==
  [kind |-> "set", set |-> set, S |-> S, wt |-> wt, path |-> path, bi |-> bi,
   col |-> col, sat |-> sat, cfg |-> cfg]

\* the bounds b of a branch weighted by the outcome's probability p
Branch(b, p, st, S) == [ub |-> QMul(b.upper, p), lb |-> QMul(b.lower, p), st |-> st, S |-> S]

(***************************************************************************)
(* The first round over the outcomes of the chosen variable (entry we):   *)
(* each branch is bounded by compute_upper_and_lower_bounds over the      *)
(* clauses without the variable (state null), is 1 when a clause became   *)
(* empty (state empty), or is bounded over the union of the clauses with  *)
(* the outcome and those without the variable, whose literals are then    *)
(* restored (state union).                                                *)
(***************************************************************************)
FirstRound(sub, wo, we, S) ==
  LET RECURSIVE Round1(_, _)
      Round1(i, acc) ==
        IF i > Len(we.rngs) THEN acc
        ELSE LET o == we.rngs[i]
                 f == DtFindWsdsWithVarRng(sub, acc.S, we.var, o.rng)
                 Add(r) == [ub |-> Append(acc.ub, r.ub), lb |-> Append(acc.lb, r.lb),
                            st |-> Append(acc.st, r.st), S |-> r.S]
             IN Round1(i + 1, Add(
                  CASE ~f.found   -> Branch(ComputeBounds(wo, f.S), o.p, "null", f.S)
                    [] f.sub = {} -> [ub |-> o.p, lb |-> o.p, st |-> "empty", S |-> f.S]
                    [] OTHER      -> Branch(ComputeBounds(f.sub \cup wo, f.S), o.p, "union",
                                            ResetWsdsVarRng(f.sub \cup wo, f.S, we.var, o.rng))))
  IN Round1(1, [ub |-> <<>>, lb |-> <<>>, st |-> <<>>, S |-> S])

\* the second-round loop over the outcomes of entry e, after the first round r1
ALoopTask(t, sub, wo, e, rb, r1) ==
  [kind |-> "loop", i |-> 1, e |-> e, sub |-> sub, wo |-> wo, ub |-> r1.ub, lb |-> r1.lb,
   st |-> r1.st, S |-> r1.S, sat |-> t.sat, path |-> t.path, bi |-> t.bi, rb |-> rb,
   wt |-> t.wt, col |-> t.col, cfg |-> t.cfg]

\* the loop's bounds: the sums of its branches
ALoopDone(t) == [lower |-> QSumSeq(t.lb), upper |-> QSumSeq(t.ub), S |-> t.S, sat |-> t.sat]

(* the bound_information handed to the refinement of branch i: the       *)
(* other branches and the rest of the set fold into the coefficients     *)
RefineBoundInfo(t, p) ==
  LET bi == t.bi  rb == t.rb  i == t.i  n == Len(t.ub)
      condU == QAdd(QSumSeq(SubSeq(t.ub, 1, i - 1)), QSumSeq(SubSeq(t.lb, i + 1, n)))
      ncl   == QMul(QMul(bi.cl, QSub(One, rb.lower)), p)
  IN [cu  |-> QMul(QMul(bi.cu, QSub(One, rb.upper)), p),
      ku  |-> QAdd(bi.ku, QMul(bi.cu, QOr(rb.upper, QSub(QSumSeq(t.ub), t.ub[i])))),
      cl  |-> ncl,
      kl  |-> QAdd(bi.kl, QMul(bi.cl, QOr(rb.lower, QSub(QSumSeq(t.lb), t.lb[i])))),
      ccu |-> ncl,
      kcu |-> QAdd(bi.kcu, QMul(bi.ccu, QOr(rb.lower, condU)))]

(* branch i refined to r (weighted by p); the literals of u restored     *)
ARefined(t, r, p, u, var, rng) ==
  [t EXCEPT !.kind = "next", !.i = t.i + 1, !.lb[t.i] = QMul(r.lower, p),
            !.ub[t.i] = QMul(r.upper, p), !.S = ResetWsdsVarRng(u, r.S, var, rng), !.sat = r.sat]

\* the bounds of a component and of the rest of the set combined
AJoin(left, right) ==
  [lower |-> QOr(left.lower, right.lower), upper |-> QOr(left.upper, right.upper),
   S |-> right.S, sat |-> right.sat]

(***************************************************************************)
(* decomposition_tree_approximate.  A "set" task is a call; it bounds the *)
(* rest of set (compute_upper_and_lower_bounds) and, for a non-singleton  *)
(* component, runs the FirstRound and hands the second round to a "loop" *)
(* task: per outcome, stop when the whole tree is within stopping_number, *)
(* skip (close) a leaf whose gap is small, or refine it by a recursive    *)
(* call; a "next" task stops the loop if that set the flag.  A "right"    *)
(* task is the rest of the call: the whole-tree test after the component, *)
(* and the right partition unless the flag is set or its lower bound is  *)
(* 0.  Returns [lower, upper, S, sat].                                    *)
(***************************************************************************)
RECURSIVE DTreeApprox(_)
DTreeApprox(t) ==
  CASE t.kind = "next" ->
         IF t.sat THEN ALoopDone(t) ELSE DTreeApprox([t EXCEPT !.kind = "loop"])
    [] t.kind = "loop" /\ t.i > Len(t.ub) -> ALoopDone(t)
    [] t.kind = "loop" ->
         LET bi  == t.bi  rb == t.rb  i == t.i
             o   == t.wt[t.e].rngs[i]
             var == t.wt[t.e].var
             wl  == Whole(bi.cl, bi.kl, QSumSeq(t.lb), rb.lower)
             cwu == Whole(bi.ccu, bi.kcu, QAdd(QSumSeq(SubSeq(t.ub, 1, i - 1)),
                                              QSumSeq(SubSeq(t.lb, i + 1, Len(t.ub)))), rb.lower)
             nbi == RefineBoundInfo(t, o.p)
             f   == DtFindWsdsWithVarRng(t.sub, t.S, var, o.rng)
             u   == UnionRemovingSubsumption(f.sub, t.wo, f.S)
             Refine(set, s) == DTreeApprox(ASetTask(set, s, t.wt, QMul(t.path, o.p), nbi,
                                                    t.col, t.sat, t.cfg))
         IN IF Stop(t.cfg, Whole(bi.cu, bi.ku, QSumSeq(t.ub), rb.upper), wl)
            THEN ALoopDone([t EXCEPT !.sat = TRUE])
            ELSE IF Stop(t.cfg, cwu, wl) /\ CloseLeaf(t.cfg, QMul(QSub(t.ub[i], t.lb[i]), t.path), wl)
            THEN DTreeApprox([t EXCEPT !.i = i + 1])
            ELSE CASE t.st[i] = "null"  -> DTreeApprox(ARefined(t, Refine(t.wo, t.S), o.p, {}, var, o.rng))
                   [] t.st[i] = "empty" -> DTreeApprox([t EXCEPT !.kind = "next", !.i = i + 1])
                   [] OTHER             -> DTreeApprox(ARefined(t, Refine(u, f.S), o.p, u, var, o.rng))
    [] t.kind = "right" ->
         LET bi   == t.bi  rb == t.rb  left == t.left
             sat1 == left.sat \/ Stop(t.cfg, Whole(bi.cu, bi.ku, left.upper, rb.upper),
                                            Whole(bi.cl, bi.kl, left.lower, rb.lower))
             ncu  == QMul(bi.cu, QSub(One, left.upper))
             nku  == QAdd(bi.ku, QMul(bi.cu, left.upper))
             nbi  == [cu |-> ncu, ku |-> nku,
                      cl |-> QMul(bi.cl, QSub(One, left.lower)),
                      kl |-> QAdd(bi.kl, QMul(bi.cl, left.lower)),
                      ccu |-> ncu, kcu |-> nku]
         IN AJoin(left, IF ~sat1 /\ rb.lower # Zero
                        THEN DTreeApprox(ASetTask(t.set, left.S, t.wt, t.path, nbi, t.col, sat1, t.cfg))
                        ELSE [lower |-> rb.lower, upper |-> rb.upper, S |-> left.S, sat |-> sat1])
    [] t.set = {} -> [lower |-> Zero, upper |-> Zero, S |-> t.S, sat |-> t.sat]
    [] OTHER ->
         LET S      == t.S
             sub    == FindIndependentSplit(t.set, S)
             rb     == ComputeBounds(t.set \ sub, S)
             ch     == ChooseVarMaxOccurSameColumn(sub, S, t.col)
             e      == WtIndex(t.wt, ch.var)
             wo     == FindWsdsWithoutVar(sub, S, ch.var)
             Right(left) == [kind |-> "right", set |-> t.set \ sub, wt |-> t.wt, path |-> t.path,
                             bi |-> t.bi, col |-> t.col, cfg |-> t.cfg, rb |-> rb, left |-> left]
         IN IF Cardinality(sub) = 1
            THEN DTreeApprox(Right([lower |-> S[FirstBit(sub)].prob, upper |-> S[FirstBit(sub)].prob,
                                    S |-> S, sat |-> t.sat]))
            ELSE IF ch.var = NoVar THEN [lower |-> One, upper |-> One, S |-> S, sat |-> t.sat]
            ELSE DTreeApprox(Right(DTreeApprox(ALoopTask(t, sub, wo, e, rb,
                                                         FirstRound(sub, wo, t.wt[e], S)))))

-----------------------------------------------------------------------------
StoppingNumber(eps, rel) ==
  IF rel THEN QDiv(QMul(<<2, 1>>, eps), QSub(One, eps)) ELSE QMul(<<2, 1>>, eps)

\* the result: the midpoint of the bounds r, weighted by 1 -/+ epsilon when relative
Midpoint(r, eps, rel, sorted) ==
  [p |-> IF rel
         THEN QDiv(QAdd(QMul(r.upper, QSub(One, eps)), QMul(r.lower, QAdd(One, eps))), <<2, 1>>)
         ELSE QDiv(QAdd(r.upper, r.lower), <<2, 1>>),
   S |-> r.S, sorted |-> sorted]

BoundInfo0 == [cu |-> One, ku |-> Zero, cl |-> One, kl |-> Zero, ccu |-> One, kcu |-> Zero]

(***************************************************************************)
(* The computation of conf_appro_final_ge after getMissingRngs, over all  *)
(* of S: for epsilon > 0, quicksort S, bound it, build the approximate    *)
(* tree unless the bounds already suffice, and return the midpoint        *)
(* (relative: weighted by 1 -/+ epsilon); otherwise the exact tree unless *)
(* upper = lower.  Returns [p, S (after), sorted (S before the tree)].    *)
(***************************************************************************)
\* the approximation over the sorted Ss, whose bucketing bounds are b
ApproxFinal(Ss, b, wt, eps, rel) ==
  LET cfg == [sn |-> StoppingNumber(eps, rel), rel |-> rel]
  IN Midpoint(IF Stop(cfg, b.upper, b.lower) THEN [lower |-> b.lower, upper |-> b.upper, S |-> Ss]
              ELSE DTreeApprox(ASetTask(DOMAIN Ss, Ss, wt, One, BoundInfo0, 0, FALSE, cfg)),
              eps, rel, Ss)

\* the exact tree's result r over S
WithSorted(r, S) == [p |-> r.p, S |-> r.S, sorted |-> S]

\* the exact tree over S unless its bucketing bounds b coincide
ExactFinal(S, b, wt) ==
  IF QLt(Zero, QSub(b.upper, b.lower)) THEN WithSorted(DTreeExact(DSetTask(DOMAIN S, S, wt, 0)), S)
  ELSE [p |-> b.upper, S |-> S, sorted |-> S]

DTreeFinal(S, wt, eps, rel) ==
  IF QLt(Zero, eps)
  THEN LET Bounded(Ss) == ApproxFinal(Ss, ComputeBounds(DOMAIN Ss, Ss), wt, eps, rel)
       IN Bounded(QuickSort(S, 1, Len(S)))
  ELSE ExactFinal(S, ComputeBounds(DOMAIN S, S), wt)
=============================================================================
