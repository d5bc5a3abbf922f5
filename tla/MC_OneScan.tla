----------------------------- MODULE MC_OneScan -----------------------------
(***************************************************************************)
(* Model-checking instance of OneScan: every lineage of a hierarchical    *)
(* query, with at most MC_B blocks per node and MC_B tuples per starred   *)
(* leaf, on the signatures                                                *)
(*   [R S*]*        a key column and one starred column                   *)
(*   [R S* T*]*     two starred siblings: R combines two ready sums       *)
(*   [R [S T*]*]*   a nested sub-signature headed by S                    *)
(*   [A* B*]*       no 1scan: schedule aggregates A over B                *)
(* (MC_Sigs) and, in MC_SigsNested,                                       *)
(*   [R [A* B*]*]*  no 1scan below the root: schedule recurses into it.   *)
(* In both, the first child schedule aggregates is a leaf (the simple     *)
(* aggregation of the code).                                              *)
(* A tuple's variable id encodes its block (10 * block id + index), so    *)
(* each (column, id) is one tuple of one relation, as in a tuple-         *)
(* independent database, and its probability depends only on both.      *)
(***************************************************************************)
EXTENDS OneScan, TLC

MC_B == 2

Lf(star) == [leaf |-> TRUE, star |-> star, kids |-> <<>>,
             type |-> NOTAGGREGATED, pt |-> <<>>, pos |-> 0]
Nd(ks) == [leaf |-> FALSE, star |-> FALSE, kids |-> ks,
           type |-> NOTAGGREGATED, pt |-> <<>>, pos |-> 0]

MC_Sigs ==
  { Nd(<<Lf(FALSE), Lf(TRUE)>>),
    Nd(<<Lf(FALSE), Lf(TRUE), Lf(TRUE)>>),
    Nd(<<Lf(FALSE), Nd(<<Lf(FALSE), Lf(TRUE)>>)>>),
    Nd(<<Lf(TRUE), Lf(TRUE)>>) }

\* a signature whose starred leaf schedule aggregates is not its first column
MC_SigsNested == { Nd(<<Lf(FALSE), Nd(<<Lf(TRUE), Lf(TRUE)>>)>>) }

\* the concatenations of one row of every set of c
RECURSIVE CrossRows(_, _)
CrossRows(c, i) ==
  IF i > Len(c) THEN {<<>>}
  ELSE {r \o q : r \in c[i], q \in CrossRows(c, i + 1)}

\* the sequences with one element of every set of ss
RECURSIVE SeqChoices(_)
SeqChoices(ss) ==
  IF ss = <<>> THEN {<<>>}
  ELSE {<<x>> \o r : x \in Head(ss), r \in SeqChoices(Tail(ss))}

\* the possible row sets of node n inside the block with id b: a leaf has
\* one tuple, or 1 .. MC_B when starred; a node 1 .. MC_B blocks, each the
\* join of one row set of every child
RECURSIVE RowSets(_, _)
RowSets(n, b) ==
  IF n.leaf
  THEN IF n.star THEN {{<<10 * b + j>> : j \in 1 .. m} : m \in 1 .. MC_B}
       ELSE {{<<10 * b + 1>>}}
  ELSE LET Block(id) == {CrossRows(c, 1) :
                           c \in SeqChoices([i \in DOMAIN n.kids |-> RowSets(n.kids[i], id)])}
       IN UNION {{UNION {f[j] : j \in 1 .. m} :
                    f \in SeqChoices([j \in 1 .. m |-> Block(10 * b + j)])} : m \in 1 .. MC_B}

LexLt(a, b) == \E k \in DOMAIN a : a[k] < b[k] /\ \A m \in 1 .. k - 1 : a[m] = b[m]

MC_Probs == <<<<1, 2>>, <<1, 3>>, <<1, 5>>>>

WithProbs(r) == [k \in DOMAIN r |-> <<r[k], MC_Probs[((k + r[k]) % 3) + 1]>>]

RECURSIVE SortRows(_)
SortRows(rs) ==
  IF rs = {} THEN <<>>
  ELSE LET m == CHOOSE x \in rs : \A y \in rs : x = y \/ LexLt(x, y)
       IN <<m>> \o SortRows(rs \ {m})

\* the sorted lineages (rows in getVarOrder order) of signature s
MC_Inputs(s) ==
  {[i \in DOMAIN q |-> WithProbs(q[i])] : q \in {SortRows(rs) : rs \in RowSets(s, 0)}}

\* the lineages of at most MC_Rows rows: one block of [A* B*]* under R
\* already has four, enough for an aggregated partition of two variables
MC_Rows == 4

MC_InputsSmall(s) == {l \in MC_Inputs(s) : Len(l) <= MC_Rows}

MC_AllInputs == UNION {Inputs(s) : s \in Sigs} \cup {<<>>}

\* the reference value of every lineage, computed once
MC_Ref == [l \in MC_AllInputs |-> InclExclConf(l)]

MC_ConfOf(l) == MC_Ref[l]

-----------------------------------------------------------------------------
(* The rewriter's side (Signature): the queries whose signatures are      *)
(* MC_Sigs, and two with relations no equality joins, over tables whose *)
(* arity makes the key leaf R starless and the others starred.  On every *)
(* database of at most MC_DBTuples tuples per table over the values 1    *)
(* and 2, the query's join, as the sorted lineage HQ_rewriting hands conf *)
(* (one condition column per leaf, in getVarOrder order), goes through    *)
(* schedule and oneScan on the signature the rewriter builds.  A tuple's *)
(* variable is 10 * (its relation's place in the from clause) + the code  *)
(* of its values, its probability a function of the variable.            *)

LOCAL SQ == INSTANCE SequencesExt

MC_DBTuples == 2

MC_Arity == ("R" :> 1) @@ ("S" :> 2) @@ ("T" :> 3) @@ ("A" :> 2) @@ ("B" :> 2)
MC_Attrs == <<"a", "b", "c">>

SG == INSTANCE Signature WITH
        NAttr <- MC_Arity, PKCols <- {}, TableOf <- [r \in DOMAIN MC_Arity |-> r]

Eq(r1, a1, r2, a2) == <<<<r1, a1>>, <<r2, a2>>>>

\* [R S*]*, [R S* T*]*, [R [S T*]*]* and [A* B*]*
MC_Queries ==
  { [from |-> <<"R", "S">>, where |-> <<Eq("R", "a", "S", "a")>>],
    [from |-> <<"R", "S", "T">>,
     where |-> <<Eq("R", "a", "S", "a"), Eq("S", "a", "T", "a")>>],
    [from |-> <<"R", "S", "T">>,
     where |-> <<Eq("R", "a", "S", "a"), Eq("S", "a", "T", "a"), Eq("S", "b", "T", "b")>>],
    [from |-> <<"A", "B">>, where |-> <<Eq("A", "a", "B", "a")>>] }

\* relations no equality joins: a new root over [R S*]*, and the root of
\* an empty where clause reused
MC_QueriesNonJoined ==
  { [from |-> <<"R", "S", "A">>, where |-> <<Eq("R", "a", "S", "a")>>],
    [from |-> <<"R", "A">>, where |-> <<>>] }

\* the signature as OneScan's nodes
RECURSIVE ToOneScan(_)
ToOneScan(n) ==
  IF n.leaf THEN Lf(n.star) ELSE Nd([k \in DOMAIN n.kids |-> ToOneScan(n.kids[k])])

\* a table instance: a set of 1 .. MC_DBTuples tuples
Instances(r) ==
  {I \in SUBSET [1 .. MC_Arity[r] -> {1, 2}] : I # {} /\ Cardinality(I) <= MC_DBTuples}

TupleVar(k, t) == 10 * k + SQ!FoldLeft(LAMBDA c, v : 2 * c + v - 1, 0, t) + 1

AttrIdx(a) == CHOOSE i \in DOMAIN MC_Attrs : MC_Attrs[i] = a
FromIdx(q, r) == CHOOSE k \in DOMAIN q.from : q.from[k] = r
Val(q, c, col) == c[FromIdx(q, col[1])][AttrIdx(col[2])]

\* the join of database d (an instance per from item): one tuple per item
\* with every equality of the where clause true
Join(q, d) ==
  {c \in SeqChoices(d) : \A k \in DOMAIN q.where : Val(q, c, q.where[k][1]) = Val(q, c, q.where[k][2])}

\* the sorted lineage of the join, for leaf relations lr
LineageOf(q, d, lr) ==
  LET rows == {[m \in DOMAIN lr |-> TupleVar(FromIdx(q, lr[m]), c[FromIdx(q, lr[m])])] : c \in Join(q, d)}
  IN [i \in 1 .. Cardinality(rows) |->
        [m \in DOMAIN lr |-> <<SortRows(rows)[i][m], MC_Probs[(SortRows(rows)[i][m] % 3) + 1]>>]]

\* what conf_final returns for lineage l on signature s: schedule, oneScan
\* (an empty join never creates groupcxt, and conf_final returns 0)
EndToEnd(s, l) == OneScanRun(FreshState, Schedule(s, l).tree, l)

QueryConfExact(q, s, lr) ==
  \A d \in SeqChoices([k \in DOMAIN q.from |-> Instances(q.from[k])]) :
     LET l == LineageOf(q, d, lr)
     IN l # <<>> =>
        /\ ~(Schedule(s, l).fault \/ EndToEnd(s, l).st.fault)
        /\ EndToEnd(s, l).result = InclExclConf(l)

MC_SigOK ==
  /\ \A q \in MC_Queries : ToOneScan(SG!SignatureOf(q)) \in MC_Sigs
  /\ \A q \in MC_Queries \cup MC_QueriesNonJoined :
     /\ SG!TakesHQPath(q)
     /\ QueryConfExact(q, DerivePos(ToOneScan(SG!SignatureOf(q)), 0), SG!GetVarOrder(SG!SignatureOf(q)))

VARIABLE sigOK

MC_Init == sigOK = MC_SigOK /\ Init
MC_Next == Next /\ UNCHANGED sigOK

(* For every query above the rewriter takes the hierarchical path (isHQ, *)
(* not is_self_join), and conf_final, scheduling and scanning the         *)
(* signature geneSGList, buildSGTree, buildSigTree and                    *)
(* addNonJoinedRelation build for it, returns the exact probability of   *)
(* the query's lineage on every small database, without a fault; the     *)
(* signatures of the first four are the ones the one-scan runs on.        *)
HQConfExact == sigOK

=============================================================================
