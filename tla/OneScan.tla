------------------------------ MODULE OneScan ------------------------------
(***************************************************************************)
(* SPROUT's conf() for hierarchical queries whose signature has the 1scan *)
(* property (SPROUT.c, signature.c).  The rewriter builds the signature   *)
(* tree sigTreeRoot, annotates its leaves (calSib, calDomain), sets the   *)
(* global isOneScan = is1Scan(sigTreeRoot) and sorts the lineage by the   *)
(* leaves' order (getVarOrder).  Then conf_accumN runs advance, which     *)
(* feeds every row straight into processTuple, once per row, and          *)
(* conf_final closes the last partition with a NULL tuple and returns the *)
(* root's accumulated probability.                                        *)
(*                                                                         *)
(* The aggregate node's stateData, the executor that drives the two calls *)
(* and the rewriter that builds the signature are not in this repository; *)
(* they are modelled from spec.md (sections 4.6 and 5): groups arrive one *)
(* after the other (the rewriter sorts), and every query starts with a    *)
(* zeroed stateData.  Probabilities are exact fractions (ProbArith).      *)
(***************************************************************************)
EXTENDS ProbArith, FiniteSets, TLC

LOCAL SE == INSTANCE SequencesExt

CONSTANTS
  Sigs,       \* signature trees the rewriter may build: [leaf, star, kids]
  Inputs(_),  \* Inputs(sig): the sorted lineages a group of a query on sig may have
  Groups,     \* the groups of a query
  NoResult    \* a group whose final has not run

VARIABLES
  sig,        \* sigTreeRoot, which schedule rewrites
  sigOrig,    \* the signature buildSigTree(sgTreeRoot) builds for the query
  isOneScan,  \* the global isOneScan, is1Scan of the query's signature
  groupcxt,   \* groupcxt # NULL (SPROUT.c's own global)
  st,         \* the aggregate node's stateData
  lineage,    \* the aggregate node's lineageTable: the rows stored so far
  lin,        \* executor: the sorted lineage of each group of this query
  fed,        \* executor: the rows of each group fed so far
  res         \* executor: the value conf_final returned for each group

vars == <<sig, sigOrig, isOneScan, groupcxt, st, lineage, lin, fed, res>>

-----------------------------------------------------------------------------
(* Signature trees (signature.c).  A node is [leaf, star, kids, type,    *)
(* pt, pos]: star is withStar; type, pt and pos matter for leaves: the    *)
(* leaf's column in the lineage (derivePos), and the probability table    *)
(* schedule gives an aggregated leaf.  The annotations calSib and         *)
(* calDomain write into the first child of a node when it is a leaf are  *)
(* returned by FillLeafNode with the leaves, in the order of getVarOrder. *)

\* the types of a leaf (palloc0 leaves NOTAGGREGATED)
NOTAGGREGATED == 0
AGGREGATED    == 1

RECURSIVE LeafDescendentCount(_)
LeafDescendentCount(n) ==
  IF n.leaf THEN 1
  ELSE SE!FoldLeft(LAMBDA c, k : c + LeafDescendentCount(k), 0, n.kids)

\* derivePos: number the leaves from column p on, left to right
RECURSIVE DerivePos(_, _)
DerivePos(n, p) ==
  IF n.leaf THEN [n EXCEPT !.pos = p]
  ELSE [n EXCEPT !.kids =
          [i \in DOMAIN n.kids |->
             DerivePos(n.kids[i],
                       p + SE!FoldLeft(LAMBDA c, k : c + LeafDescendentCount(k), 0,
                                       SubSeq(n.kids, 1, i - 1)))]]

RECURSIVE Get1stLeafChild(_)
Get1stLeafChild(n) == IF n.leaf THEN n ELSE Get1stLeafChild(n.kids[1])

\* mutant: the first child counted among its siblings
CalSibAll(n) == Len(n.kids)

\* calSib: the first child, if a leaf, combines the sums of its right siblings
CalSib(n) == Len(n.kids) - 1

\* calDomain: the first child, if a leaf, heads the leaves of its right siblings
CalDomain(n) == SE!FoldLeft(LAMBDA c, k : c + LeafDescendentCount(k), 0, Tail(n.kids))

RECURSIVE Is1Scan(_)
Is1Scan(n) ==
  \/ n.leaf
  \/ /\ \A i \in DOMAIN n.kids : Is1Scan(n.kids[i])
     /\ n.kids[1].leaf /\ ~n.kids[1].star

LeafInfo(n, dom, vtc) ==
  [type |-> n.type, pt |-> n.pt, pos |-> n.pos, domain |-> dom, varsToCombine |-> vtc]

RECURSIVE FillLeafNode(_)
FillLeafNode(n) ==
  IF n.leaf THEN <<LeafInfo(n, 0, 0)>>
  ELSE SE!FlattenSeq([i \in DOMAIN n.kids |->
         IF i = 1 /\ n.kids[1].leaf THEN <<LeafInfo(n.kids[1], CalDomain(n), CalSib(n))>>
         ELSE FillLeafNode(n.kids[i])])

-----------------------------------------------------------------------------
(* processTuple's helpers (SPROUT.c).  An aggregated column reads its     *)
(* probability table: only the representative at its head is a valid    *)
(* variable, and lookup pops it.                                          *)

IsAValidVar(info, var) ==
  \/ info.type = NOTAGGREGATED
  \/ info.pt # <<>> /\ Head(info.pt).repre = var

\* the value of lookup; an empty table is a NULL dereference (Consume)
Lookup(info, var, probability) ==
  IF info.type = NOTAGGREGATED THEN probability
  ELSE IF info.pt = <<>> THEN Zero ELSE Head(info.pt).probability

\* lookup's pop of the representatives of the aggregated columns in K
Consume(s, K) ==
  [s EXCEPT !.vars = [k \in DOMAIN s.vars |->
                        IF k \in K /\ s.vars[k].type # NOTAGGREGATED /\ s.vars[k].pt # <<>>
                        THEN [s.vars[k] EXCEPT !.pt = Tail(s.vars[k].pt)]
                        ELSE s.vars[k]],
            !.fault = s.fault \/ \E k \in K : s.vars[k].type # NOTAGGREGATED /\ s.vars[k].pt = <<>>]

\* mutant: getProduct without "*plist = (*plist)->next"
GetProductNoPop(info, p, plist) ==
  LET k == info.varsToCombine
      n == IF k <= Len(plist) THEN k ELSE Len(plist)
  IN [prod |-> SE!FoldLeft(QMul, p, SubSeq(plist, 1, n)), rest |-> plist, ok |-> k <= Len(plist)]

\* getProduct: p times the first varsToCombine sums of the list, which it pops;
\* ok is FALSE when the list runs out (a NULL dereference in the code)
GetProduct(info, p, plist) ==
  LET k == info.varsToCombine
      n == IF k <= Len(plist) THEN k ELSE Len(plist)
  IN [prod |-> SE!FoldLeft(QMul, p, SubSeq(plist, 1, n)),
      rest |-> SubSeq(plist, n + 1, Len(plist)),
      ok   |-> k <= Len(plist)]

InsertIntoReadySumList(head, sum) == <<sum>> \o head

\* the zeroed stateData of a new aggregate node
FreshState ==
  [NoOfVars |-> 0, vars |-> <<>>, counter |-> 0, calculating |-> FALSE,
   cursor |-> 0, sum |-> <<>>, tempSum |-> <<>>, preTuple |-> <<>>,
   readySumList |-> <<>>, curTuple |-> <<>>, curTupleProb |-> <<>>,
   fault |-> FALSE]

-----------------------------------------------------------------------------
(* processTuple (SPROUT.c), columns numbered from 1.  A tuple is          *)
(* curTuple (variables) with curTupleProb; preTuple is the previous one.  *)

LookupCol(s, k) == Lookup(s.vars[k], s.curTuple[k], s.curTupleProb[k])

\* the newBlock label: open a block at every column, cursor at the last one
NewBlock(s) ==
  Consume([s EXCEPT !.sum = [k \in 1 .. s.NoOfVars |-> LookupCol(s, k)],
                    !.calculating = TRUE,
                    !.cursor = s.NoOfVars,
                    !.preTuple = s.curTuple],
          1 .. s.NoOfVars)

(* The intermediate states of a step are passed as parameters of the     *)
(* next operator rather than named by LET, so that each is written once. *)

\* column j of the finish label's loop, gp its getProduct: a leaf's sum is
\* put on the ready list, a head's block is closed into it
CloseCol(s, j, gp) ==
  IF s.vars[j].domain = 0
  THEN [s EXCEPT !.readySumList = InsertIntoReadySumList(@, s.sum[j])]
  ELSE [s EXCEPT !.readySumList = InsertIntoReadySumList(gp.rest, QOr(s.tempSum[j], gp.prod)),
                 !.tempSum[j] = Zero,
                 !.fault = @ \/ ~gp.ok]

\* the loop from the cursor column down to j > i of the finish label
RECURSIVE CloseCols(_, _, _)
CloseCols(s, j, i) ==
  IF j <= i THEN s
  ELSE CloseCols(CloseCol(s, j, GetProduct(s.vars[j], s.sum[j], s.readySumList)), j - 1, i)

\* after the head column i is closed (s3 with the new cursor, s2 before):
\* if calculating, the columns of i's sub-signature restart from the tuple
RestartCols(s3, s2, i) ==
  IF s2.calculating
  THEN Consume([s3 EXCEPT !.sum = [k \in DOMAIN s2.sum |->
                                     IF i <= k /\ k <= s3.cursor THEN LookupCol(s2, k)
                                     ELSE s2.sum[k]]],
               i .. s3.cursor)
  ELSE s3

\* the head column i closed into tempSum[i]
AfterHead(s2, i, final) ==
  IF final
  THEN [st |-> s2, result |-> s2.tempSum[1]]
  ELSE [st |-> RestartCols([s2 EXCEPT !.cursor = i + s2.vars[i].domain,
                                      !.preTuple = s2.curTuple], s2, i),
        result |-> One]

CloseHead(s1, i, final, gp) ==
  AfterHead([s1 EXCEPT !.readySumList = gp.rest,
                       !.tempSum[i] = QOr(@, gp.prod),
                       !.fault = @ \/ ~gp.ok], i, final)

\* column i once the columns right of it are closed (s1)
FinishCol(s1, i, final) ==
  IF s1.vars[i].domain > 0 \/ s1.NoOfVars = 1
  THEN CloseHead(s1, i, final, GetProduct(s1.vars[i], s1.sum[i], s1.readySumList))
  ELSE [st |-> Consume([s1 EXCEPT !.sum[i] = QOr(@, LookupCol(s1, i)),
                                  !.cursor = i,
                                  !.preTuple = s1.curTuple], {i}),
        result |-> One]

(* The finish label, first changed column i: the columns right of i are   *)
(* closed; if i heads a sub-signature its block is closed into tempSum[i] *)
(* (and, for a final call, tempSum[1] is the result), the cursor moves to *)
(* the end of i's sub-signature and its columns restart from the current *)
(* tuple; a leaf without descendants only adds the new variable.  "result"*)
(* is the value written to *finalProb, One when nothing is written.       *)
Finish(s, i, final) == FinishCol(CloseCols(s, s.cursor, i), i, final)

\* the first column up to the cursor whose variable changed and is valid (0: none)
FirstChange(s) ==
  LET ch == {k \in 1 .. s.cursor : s.curTuple[k] # s.preTuple[k]
                                   /\ IsAValidVar(s.vars[k], s.curTuple[k])}
  IN IF ch = {} THEN 0 ELSE CHOOSE k \in ch : \A m \in ch : k <= m

\* the loop over the columns before the cursor, i its first change
ScanColsAt(s, i) ==
  CASE i = 0        -> [s EXCEPT !.preTuple = s.curTuple]
    [] i = s.cursor -> Consume([s EXCEPT !.sum[i] = QOr(@, LookupCol(s, i)),
                                         !.preTuple = s.curTuple], {i})
    [] OTHER        -> Finish(s, i, FALSE).st

ScanCols(s) == ScanColsAt(s, FirstChange(s))

\* processTuple once the counter is incremented
ProcessCounted(s) ==
  IF s.counter = 1
  THEN NewBlock([s EXCEPT !.tempSum = [k \in 1 .. s.NoOfVars |-> Zero],
                          !.preTuple = [k \in 1 .. s.NoOfVars |-> 0],
                          !.readySumList = <<>>])
  ELSE IF s.curTuple[1] = s.preTuple[1]
  THEN IF s.calculating THEN ScanCols(s) ELSE s
  ELSE IF IsAValidVar(s.vars[1], s.curTuple[1])
  THEN IF s.calculating THEN ScanCols(s) ELSE NewBlock(s)
  ELSE IF s.calculating THEN Finish([s EXCEPT !.calculating = FALSE], 1, FALSE).st
  ELSE s

(* processTuple(s, NULL, NULL): one tuple.  The first tuple of a group    *)
(* (counter = 1) allocates the state; a new block in the first column is *)
(* continued, reopened, finished or ignored by the four situations of the *)
(* code.                                                                  *)
ProcessTuple(s0) == ProcessCounted([s0 EXCEPT !.counter = @ + 1])

\* processTuple(s, NULL, &result): close the last partition
ProcessFinal(s) ==
  IF s.calculating THEN Finish(s, 1, TRUE)
  ELSE [st |-> s, result |-> s.tempSum[1]]

-----------------------------------------------------------------------------
(* simpleAggregation: removes the star of a leaf x that is the first     *)
(* child of its node, y being the first leaf of x's right sibling.  One   *)
(* pass over the stored lineage partitions x's variables: hashTable0 and  *)
(* hashTable1 map a variable of x or y to its entry of the probability    *)
(* table (0 for NULL), an entry's representative is the first x variable *)
(* of its partition and its probability the disjunction of the           *)
(* partition's x variables.  Column c of a row is at row[c + 1].          *)

\* getPTEFromHT (with hashFunction; newVarEntry appends to the slot's chain, so
\* a search of the chain for the variable finds the first entry)
GetPTEFromHT(ht, var) == IF var \in DOMAIN ht THEN ht[var] ELSE 0

NewVarEntry(var, pte, ht) == ht @@ (var :> pte)

SimpleAggregationStep(x, y, acc, t) ==
  LET c0 == t[x.pos + 1][1]
      p0 == t[x.pos + 1][2]
      c1 == t[y.pos + 1][1]
      first == acc.counter = 0
      newX == first \/ (c0 # acc.pre[1] /\ IsAValidVar(x, c0) /\ GetPTEFromHT(acc.ht0, c0) = 0)
      newY == first \/ (c1 # acc.pre[2] /\ IsAValidVar(y, c1) /\ GetPTEFromHT(acc.ht1, c1) = 0)
      pte0 == GetPTEFromHT(acc.ht0, c0)
      pte1 == GetPTEFromHT(acc.ht1, c1)
      n == Len(acc.pt) + 1
  IN [counter |-> acc.counter + 1,
      pre |-> <<c0, c1>>,
      pt  |-> CASE newX /\ newY -> Append(acc.pt, [repre |-> c0, probability |-> Lookup(x, c0, p0)])
               [] newX /\ pte1 # 0 ->
                    [acc.pt EXCEPT ![pte1].probability = QOr(@, Lookup(x, c0, p0))]
               [] OTHER -> acc.pt,
      ht0 |-> CASE newX /\ newY -> NewVarEntry(c0, n, acc.ht0)
               [] newX -> NewVarEntry(c0, pte1, acc.ht0)
               [] OTHER -> acc.ht0,
      ht1 |-> CASE newX /\ newY -> NewVarEntry(c1, n, acc.ht1)
               [] ~newX /\ newY -> NewVarEntry(c1, pte0, acc.ht1)
               [] OTHER -> acc.ht1,
      fault |-> acc.fault \/ (newX /\ ~newY /\ pte1 = 0)]

\* the probability table vars[0]->pt, and whether a NULL entry was dereferenced
SimpleAggregation(x, y, l) ==
  LET r == SE!FoldLeft(LAMBDA acc, t : SimpleAggregationStep(x, y, acc, t),
                       [counter |-> 0, pre |-> <<0, 0>>, pt |-> <<>>,
                        ht0 |-> <<>>, ht1 |-> <<>>, fault |-> FALSE], l)
  IN [pt |-> r.pt, fault |-> r.fault]

\* the first child c of node n1 aggregated into a starless AGGREGATED leaf;
\* kf: whether scheduling the children faulted
AggregateFirst(n1, c, kf, sa) ==
  [tree |-> [n1 EXCEPT !.kids[1] = [c EXCEPT !.star = FALSE, !.type = AGGREGATED, !.pt = sa.pt]],
   fault |-> kf \/ sa.fault]

\* node n once its children are scheduled (sk)
ScheduleNode(n, sk, l) ==
  LET n1 == [n EXCEPT !.kids = [i \in DOMAIN n.kids |-> sk[i].tree]]
      kf == \E i \in DOMAIN n.kids : sk[i].fault
  IN IF Is1Scan(n1) THEN [tree |-> n1, fault |-> kf]
     ELSE AggregateFirst(n1, n1.kids[1], kf,
                         SimpleAggregation(n1.kids[1], Get1stLeafChild(n1.kids[2]), l))

(* schedule: gives every child the 1scan property, then, if the node      *)
(* still lacks it, aggregates its first child, which becomes a starless   *)
(* AGGREGATED leaf; calSib and calDomain are recomputed by FillLeafNode.  *)
(* Returns the rewritten tree and whether an aggregation faulted.         *)
RECURSIVE Schedule(_, _)
Schedule(n, l) ==
  IF Is1Scan(n) THEN [tree |-> n, fault |-> FALSE]
  ELSE ScheduleNode(n, [i \in DOMAIN n.kids |->
                          IF Is1Scan(n.kids[i]) THEN [tree |-> n.kids[i], fault |-> FALSE]
                          ELSE Schedule(n.kids[i], l)], l)

\* row t as the current tuple of a state whose leaves are vars
SetTuple(s, t) ==
  [s EXCEPT !.curTuple = [k \in DOMAIN s.vars |-> t[s.vars[k].pos + 1][1]],
            !.curTupleProb = [k \in DOMAIN s.vars |-> t[s.vars[k].pos + 1][2]]]

\* oneScan once the state holds the leaves
OneScanLeaves(s, l) ==
  ProcessFinal(SE!FoldLeft(LAMBDA s1, t : ProcessTuple(SetTuple(s1, t)), s, l))

(* oneScan: the leaves of the scheduled signature take the state, every   *)
(* stored row goes through processTuple (its columns picked by the        *)
(* leaves' pos), and a NULL tuple closes the last partition.              *)
OneScanRun(s, root, l) ==
  OneScanLeaves([s EXCEPT !.counter = 0, !.vars = FillLeafNode(root),
                          !.NoOfVars = LeafDescendentCount(root)], l)

-----------------------------------------------------------------------------
\* the row as the current tuple, columns in order
AdvanceRow(s0, row) ==
  ProcessTuple([s0 EXCEPT !.curTuple = [k \in DOMAIN row |-> row[k][1]],
                          !.curTupleProb = [k \in DOMAIN row |-> row[k][2]]])

(* advance, the onescan branch: the first call of a query gives the state *)
(* the leaves of sigTreeRoot and the row's width; then the row becomes    *)
(* the current tuple and goes through processTuple.  row[k] is the k-th   *)
(* condition column: <<variable, probability>>.                          *)
Advance(s, row) ==
  AdvanceRow(IF s.NoOfVars = 0
             THEN [s EXCEPT !.vars = FillLeafNode(sig), !.NoOfVars = Len(row)]
             ELSE s, row)

\* executor: the groups come one after the other (sorted aggregation)
Open(h) == fed[h] > 0 /\ res[h] = NoResult

RowAllowed(g) ==
  /\ res[g] = NoResult
  /\ fed[g] < Len(lin[g])
  /\ \A h \in Groups \ {g} : ~Open(h)

\* a group's final follows its last row; a query without rows (a plain
\* aggregate over no input) calls the final once
FinalAllowed(g) ==
  /\ res[g] = NoResult
  /\ fed[g] = Len(lin[g])
  /\ \A h \in Groups \ {g} : ~Open(h)
  /\ lin[g] = <<>> => \A h \in Groups : res[h] = NoResult

\* the input of a query on signature s: a lineage per group, or no rows at all
QueryInputs(s) == [Groups -> Inputs(s)] \cup {[h \in Groups |-> <<>>]}

Init ==
  /\ sigOrig \in {DerivePos(n, 0) : n \in Sigs}
  /\ sig = sigOrig
  /\ isOneScan = Is1Scan(sigOrig)
  /\ lin \in QueryInputs(sigOrig)
  /\ groupcxt = FALSE
  /\ st = FreshState
  /\ lineage = <<>>
  /\ fed = [g \in Groups |-> 0]
  /\ res = [g \in Groups |-> NoResult]

(* conf_accumN (the accumulate macro): create groupcxt if it is NULL,     *)
(* read the row's n (variable, probability) pairs and advance: with       *)
(* isOneScan through processTuple, otherwise into the lineage (the        *)
(* storeLineage and addVarProb of advance's else branch).                 *)
ConfAccum(g) ==
  /\ RowAllowed(g)
  /\ isOneScan
  /\ groupcxt' = TRUE
  /\ st' = Advance(st, lin[g][fed[g] + 1])
  /\ fed' = [fed EXCEPT ![g] = @ + 1]
  /\ UNCHANGED <<sig, sigOrig, isOneScan, lineage, lin, res>>

ConfAccumStore(g) ==
  /\ RowAllowed(g)
  /\ ~isOneScan
  /\ groupcxt' = TRUE
  /\ lineage' = Append(lineage, lin[g][fed[g] + 1])
  /\ fed' = [fed EXCEPT ![g] = @ + 1]
  /\ UNCHANGED <<sig, sigOrig, isOneScan, st, lin, res>>

\* conf_final without a group context: 0
ConfFinalEmpty(g) ==
  /\ FinalAllowed(g)
  /\ ~groupcxt
  /\ res' = [res EXCEPT ![g] = Zero]
  /\ UNCHANGED <<sig, sigOrig, isOneScan, groupcxt, st, lineage, lin, fed>>

\* mutant: conf_final without "state->counter = 0"
ConfFinalNoReset(g) ==
  /\ FinalAllowed(g)
  /\ groupcxt
  /\ isOneScan
  /\ LET r == ProcessFinal(st)
     IN /\ res' = [res EXCEPT ![g] = r.result]
        /\ st' = r.st
  /\ groupcxt' = FALSE
  /\ UNCHANGED <<sig, sigOrig, isOneScan, lineage, lin, fed>>

(* conf_final, onescan: processTuple with a NULL tuple closes the last    *)
(* partition and gives the result; counter := 0; groupcxt is deleted.     *)
ConfFinal(g) ==
  /\ FinalAllowed(g)
  /\ groupcxt
  /\ isOneScan
  /\ LET r == ProcessFinal(st)
     IN /\ res' = [res EXCEPT ![g] = r.result]
        /\ st' = [r.st EXCEPT !.counter = 0]
  /\ groupcxt' = FALSE
  /\ UNCHANGED <<sig, sigOrig, isOneScan, lineage, lin, fed>>

(* conf_final without the 1scan property: schedule rewrites sigTreeRoot   *)
(* by aggregations over the stored lineage, oneScan computes the result,  *)
(* the signature is rebuilt (buildSigTree, addNonJoinedRelation,          *)
(* derivePos, calSib, calDomain) and the lineage pointers are reset;      *)
(* groupcxt is deleted.                                                   *)
ConfFinalSchedule(g) ==
  /\ FinalAllowed(g)
  /\ groupcxt
  /\ ~isOneScan
  /\ LET sc == Schedule(sig, lineage)
         r  == OneScanRun(st, sc.tree, lineage)
     IN /\ res' = [res EXCEPT ![g] = r.result]
        /\ st' = [r.st EXCEPT !.fault = @ \/ sc.fault]
  /\ sig' = sigOrig
  /\ lineage' = <<>>
  /\ groupcxt' = FALSE
  /\ UNCHANGED <<sigOrig, isOneScan, lin, fed>>

Next ==
  \E g \in Groups :
    \/ ConfAccum(g) \/ ConfAccumStore(g)
    \/ ConfFinalEmpty(g) \/ ConfFinal(g) \/ ConfFinalSchedule(g)

Spec == Init /\ [][Next]_vars

-----------------------------------------------------------------------------
(* The reference: the probability that some row of lineage l is true when *)
(* every (column, variable) is an independent event of the row's         *)
(* probability, by inclusion and exclusion over the sets of rows.        *)
Facts(l, T) == UNION {{<<k, l[t][k][1], l[t][k][2]>> : k \in DOMAIN l[t]} : t \in T}

RECURSIVE QProdFacts(_)
QProdFacts(F) ==
  IF F = {} THEN One
  ELSE LET x == CHOOSE y \in F : TRUE IN QMul(x[3], QProdFacts(F \ {x}))

\* the rows of l in the set numbered m, bit t - 1 of m for row t
RowSet(l, m) == {t \in DOMAIN l : (m \div 2^(t - 1)) % 2 = 1}

\* the signed terms of the sets numbered lo .. hi, summed by halves
RECURSIVE InclExcl(_, _, _)
InclExcl(l, lo, hi) ==
  IF lo = hi
  THEN LET T == RowSet(l, lo)
           p == QProdFacts(Facts(l, T))
       IN IF Cardinality(T) % 2 = 1 THEN p ELSE <<-p[1], p[2]>>
  ELSE LET mid == (lo + hi) \div 2
       IN QAddLcm(InclExcl(l, lo, mid), InclExcl(l, mid + 1, hi))

InclExclConf(l) == IF l = <<>> THEN Zero ELSE InclExcl(l, 1, 2^Len(l) - 1)

\* the value a group's rows must give (replaced by a table in MC_OneScan)
ConfOf(l) == InclExclConf(l)

-----------------------------------------------------------------------------
OneScanTypeOK ==
  /\ isOneScan = Is1Scan(sigOrig)
  /\ groupcxt \in BOOLEAN
  /\ \A g \in Groups : fed[g] \in 0 .. Len(lin[g])
  /\ \A g \in Groups : res[g] = NoResult \/ (QLeq(Zero, res[g]) /\ QLeq(res[g], One))
  /\ st.cursor \in 0 .. st.NoOfVars
  /\ Len(st.readySumList) <= st.NoOfVars

(* The value conf_final returns for a group is the probability of the     *)
(* disjunction of the group's rows, as exact inference would give it:    *)
(* processTuple's blocks, cursor, ready-sum list and the per-column sums  *)
(* combine the rows of every signature of Sigs correctly, and the state a *)
(* group leaves (counter reset, sums, ready list) does not leak into the  *)
(* next group of the query.                                               *)
OneScanExact ==
  \A g \in Groups : res[g] # NoResult => res[g] = ConfOf(lin[g])

(* No step dereferences NULL: getProduct never pops more ready sums than  *)
(* are on the list (every head column finds the closed sums of its        *)
(* varsToCombine siblings there), lookup never reads an aggregated        *)
(* column's exhausted probability table (its representatives are popped   *)
(* in the order oneScan meets them), and simpleAggregation always finds  *)
(* the partition of a known y variable.                                   *)
NoNullDereference == ~st.fault
====
