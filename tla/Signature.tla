----------------------------- MODULE Signature -----------------------------
(***************************************************************************)
(* The rewriter's signature of a conf() query (signature.c, rewrite.c).   *)
(* geneSGList folds the where clause's column equalities into subgoal     *)
(* lists (join classes of columns); isHQ and is_self_join decide whether  *)
(* the query takes the one-scan path; ProcessSignature builds the subgoal *)
(* tree (buildSGTree), the signature tree (buildSigTree) and adds the     *)
(* relations no equality joins (addNonJoinedRelation).  The later steps   *)
(* on the signature tree (derivePos, calSib, calDomain, is1Scan,          *)
(* getVarOrder) are in OneScan.                                           *)
(*                                                                         *)
(* A column (a subgoal's fields) is <<relation, attribute>>, a relation   *)
(* is the alias of a from-clause item, a subgoal list is a sequence of    *)
(* columns and an sgList a sequence of subgoal lists; the linked lists of *)
(* the code become sequences in the same order.  The catalog lookups      *)
(* nattr, IsPK and the relation ids is_self_join compares are constants.  *)
(***************************************************************************)
EXTENDS Naturals, Sequences, FiniteSets

LOCAL SE == INSTANCE SequencesExt

CONSTANTS
  NAttr,    \* nattr: the number of attributes of each relation's table
  PKCols,   \* IsPK: the columns that belong to their table's primary key
  TableOf   \* relation_openrv(rv)->rd_id: the table a relation reads

Rel(sg) == sg[1]

\* the results of sgListcmp
SG_EQUAL     == 0
SG_GREAT     == 1
SG_LESS      == 2
SG_DISJOINT  == 3
SG_INTERSECT == 4
SG_UNKNOWCMP == 5

\* isSameAttr: the column is already a subgoal of list l
IsSameAttr(l, f) == \E k \in DOMAIN l : l[k] = f

\* the lists, in order, that hold a column of equality p
Holding(list, p) ==
  {i \in DOMAIN list : IsSameAttr(list[i], p[1]) \/ IsSameAttr(list[i], p[2])}

\* one equality of geneSGList: the first list that holds one of its columns
\* takes the other (addNewSG appends it), and when no list holds either a
\* new list <<l, r>> is put in front; nothing merges two lists.
GeneStep(list, p) ==
  IF Holding(list, p) = {} THEN <<<<p[1], p[2]>>>> \o list
  ELSE LET i == SE!Min(Holding(list, p)) IN
       IF IsSameAttr(list[i], p[1]) /\ IsSameAttr(list[i], p[2]) THEN list
       ELSE [list EXCEPT ![i] = Append(@, IF IsSameAttr(@, p[1]) THEN p[2] ELSE p[1])]

\* geneSGList over the where clause's column equalities, left to right
GeneSGList(where) == SE!FoldLeft(GeneStep, <<>>, where)

\* sgInsgList: compares all fields but the last, the relation
SgInSgList(sg, l) == \E k \in DOMAIN l : Rel(l[k]) = Rel(sg)

\* sgListcmp counts the subgoals of l1 whose relation occurs in l2
Joint(l1, l2) == Cardinality({k \in DOMAIN l1 : SgInSgList(l1[k], l2)})

SgListcmp(l1, l2) ==
  IF Joint(l1, l2) = Len(l1) /\ Joint(l1, l2) = Len(l2) THEN SG_EQUAL
  ELSE IF Joint(l1, l2) = Len(l1) /\ Joint(l1, l2) < Len(l2) THEN SG_LESS
  ELSE IF Joint(l1, l2) = Len(l2) /\ Joint(l1, l2) < Len(l1) THEN SG_GREAT
  ELSE IF Joint(l1, l2) = 0 THEN SG_DISJOINT
  ELSE IF Joint(l1, l2) # Len(l2) /\ Joint(l1, l2) # Len(l1) THEN SG_INTERSECT
  ELSE SG_UNKNOWCMP

\* isHQ: no earlier list INTERSECTs a later one
IsHQ(list) ==
  \A i, j \in DOMAIN list : i < j => SgListcmp(list[i], list[j]) # SG_INTERSECT

\* is_self_join: i < length - 2 and j < length - 1, 0-based
IsSelfJoin(from) ==
  \E i \in 1 .. Len(from) - 2 : \E j \in i + 1 .. Len(from) - 1 :
     TableOf[from[i]] = TableOf[from[j]]

\* the query takes the hierarchical path of rewrite.c
TakesHQPath(q) == IsHQ(GeneSGList(q.where)) /\ ~IsSelfJoin(q.from)

-----------------------------------------------------------------------------
(* The subgoal tree.  A node is [sglist, attrCount, kids]; isLeaf is not  *)
(* read by the later steps and is left out.                               *)

\* sameLists: one list, or every pair EQUAL
SameLists(list) ==
  Len(list) = 1 \/ \A i, j \in DOMAIN list : i < j => SgListcmp(list[i], list[j]) = SG_EQUAL

\* the lists of list at the indices I, in order
Keep(list, I) ==
  LET idx == SelectSeq([i \in DOMAIN list |-> i], LAMBDA i : i \in I)
  IN [k \in DOMAIN idx |-> list[idx[k]]]

\* rmNthLists: list without the indices marked in I
RmNthLists(list, I) == Keep(list, DOMAIN list \ I)

\* findMax: the lists no list is greater than; the result is built by
\* prepending, so it is in reverse order
FindMaxIdx(list) ==
  {i \in DOMAIN list : \A j \in DOMAIN list : SgListcmp(list[i], list[j]) # SG_LESS}
FindMax(list) == SE!Reverse(Keep(list, FindMaxIdx(list)))

\* findDisjoint: the first list and every later list not DISJOINT from the
\* first one (and only from it), prepended
FindDisjointIdx(list) ==
  {1} \cup {i \in 2 .. Len(list) : SgListcmp(list[1], list[i]) # SG_DISJOINT}
FindDisjoint(list) == SE!Reverse(Keep(list, FindDisjointIdx(list)))

\* the while loop of buildSGTree: findDisjoint until the list is empty
RECURSIVE DisjointSets(_)
DisjointSets(list) ==
  IF list = <<>> THEN <<>>
  ELSE <<FindDisjoint(list)>> \o DisjointSets(RmNthLists(list, FindDisjointIdx(list)))

RECURSIVE BuildSGTree(_, _), SGInner(_, _, _)
\* an inner node: its maxima, and one child per disjoint set of the rest
SGInner(mx, sets, ac) ==
  [sglist |-> mx, attrCount |-> ac,
   kids |-> [k \in DOMAIN sets |-> BuildSGTree(sets[k], ac)]]

\* buildSGTree(node, parentSGListCount) on node->sglist = list
BuildSGTree(list, parent) ==
  IF SameLists(list)
  THEN [sglist |-> list, attrCount |-> Len(list) + parent, kids |-> <<>>]
  ELSE SGInner(FindMax(list),
               DisjointSets(RmNthLists(list, FindMaxIdx(list))),
               Len(FindMax(list)) + parent)

-----------------------------------------------------------------------------
(* The signature tree.  A node is [leaf, star, rels, kids]: withStar, and *)
(* for a leaf its relation (rels = {relation}, {} for an inner node).     *)

SigLeaf(r, star) == [leaf |-> TRUE, star |-> star, rels |-> {r}, kids |-> <<>>]
SigNode(ks) == [leaf |-> FALSE, star |-> FALSE, rels |-> {}, kids |-> ks]

\* sgInChildSGLists: looks at the head list of every child only
SgInChildSGLists(sg, n) == \E k \in DOMAIN n.kids : SgInSgList(sg, n.kids[k].sglist[1])

\* withStar unless the node's attrCount is the table's arity or the
\* column is a primary-key column
WithStar(sg, ac) == ~(ac = NAttr[TableOf[Rel(sg)]] \/ sg \in PKCols)

\* a leaf for every subgoal of the head list not in a child's head list.
\* For a skipped subgoal the code links the stale child pointer to itself;
\* the next leaf or child overwrites that link, so the order is this one.
HeadLeaves(n) ==
  LET h == Keep(n.sglist[1], {k \in DOMAIN n.sglist[1] : ~SgInChildSGLists(n.sglist[1][k], n)})
  IN [k \in DOMAIN h |-> SigLeaf(Rel(h[k]), WithStar(h[k], n.attrCount))]

\* buildSigTree: no children for an empty sglist, else the head's leaves
\* followed by one subtree per child
RECURSIVE BuildSigTree(_)
BuildSigTree(n) ==
  IF n.sglist = <<>> THEN SigNode(<<>>)
  ELSE SigNode(HeadLeaves(n) \o [k \in DOMAIN n.kids |-> BuildSigTree(n.kids[k])])

\* relIsJoined: a node with an empty sglist asks its children, any other
\* node its head list only
RECURSIVE RelIsJoined(_, _)
RelIsJoined(r, n) ==
  IF n.sglist = <<>> THEN \E k \in DOMAIN n.kids : RelIsJoined(r, n.kids[k])
  ELSE \E k \in DOMAIN n.sglist[1] : Rel(n.sglist[1][k]) = r

\* addNonJoinedRelation: starred leaves for the unjoined relations, in
\* from-clause order, in front of the root's children, under a new root
\* when the subgoal root's attrCount is not 0
\* mutant: the unjoined leaves always join the old root
AddNonJoinedSameRoot(sgRoot, sigRoot, nj) ==
  IF nj = <<>> THEN sigRoot
  ELSE [sigRoot EXCEPT !.kids = [k \in DOMAIN nj |-> SigLeaf(nj[k], TRUE)] \o @]

AddNonJoined(sgRoot, sigRoot, nj) ==
  IF nj = <<>> THEN sigRoot
  ELSE IF sgRoot.attrCount # 0
  THEN SigNode([k \in DOMAIN nj |-> SigLeaf(nj[k], TRUE)] \o <<sigRoot>>)
  ELSE [sigRoot EXCEPT !.kids = [k \in DOMAIN nj |-> SigLeaf(nj[k], TRUE)] \o @]

AddNonJoinedRelation(sgRoot, sigRoot, from) ==
  AddNonJoined(sgRoot, sigRoot, SelectSeq(from, LAMBDA r : ~RelIsJoined(r, sgRoot)))

\* ProcessSignature up to addNonJoinedRelation, on geneSGList's lists
ProcessSignature(from, sglist) ==
  AddNonJoinedRelation(BuildSGTree(sglist, 0), BuildSigTree(BuildSGTree(sglist, 0)), from)

\* getVarOrder: the leaves' relations, left to right (the sort key of the
\* lineage; a leaf's fields stand for its relation's condition columns)
RECURSIVE GetVarOrder(_)
GetVarOrder(n) ==
  IF n.leaf THEN <<CHOOSE r \in n.rels : TRUE>>
  ELSE SE!FoldLeft(LAMBDA acc, c : acc \o GetVarOrder(c), <<>>, n.kids)

\* the signature tree of a query q = [from, where] on the hierarchical path
SignatureOf(q) == ProcessSignature(q.from, GeneSGList(q.where))
=============================================================================
