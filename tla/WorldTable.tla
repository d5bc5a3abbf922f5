----------------------------- MODULE WorldTable -----------------------------
(***************************************************************************)
(* The local world table of one duplicate-elimination group               *)
(* (src/postgresql-8.3.3/src/backend/maybms/localcond.c).                  *)
(*                                                                         *)
(* Each call updateWorldTable(s, map) looks the variable of a literal up  *)
(* in an extendible hash table: a directory HT of 2^nbits slots, indexed  *)
(* by the low nbits bits of the variable id, each slot pointing to a      *)
(* bucket (mList) of at most LIST_INIT_SIZE (key, entry index) pairs with *)
(* its own local depth.  A missing variable gets a new world-table entry  *)
(* (wtEntryInit); a full bucket is split (distribute_elements), doubling  *)
(* the directory first when its local depth equals the global one         *)
(* (expand_hashtable).  Then the outcome of the literal is looked up in   *)
(* the entry and appended when new (rngEntryInit).                        *)
(*                                                                         *)
(* Probabilities are left out: they do not influence the directory.  The  *)
(* write of update_buckets past the end of HT (undefined behaviour in C)   *)
(* is recorded in the history variable oob and otherwise dropped.          *)
(***************************************************************************)
EXTENDS Naturals, Sequences, FiniteSets

CONSTANTS
  Keys,           \* variable ids that literals may carry (naturals)
  Rngs,           \* outcome tags
  INIT_NBITS,     \* localcond.c: initial number of directory bits
  LIST_INIT_SIZE, \* localcond.c: capacity of a bucket
  MaxEntries,     \* bound on world-table entries (model bound)
  NULL            \* empty directory slot

ASSUME Keys \subseteq Nat /\ INIT_NBITS \in Nat /\ LIST_INIT_SIZE \in Nat \ {0}
ASSUME MaxEntries \in Nat

VARIABLES
  ht,        \* directory: slot -> bucket id or NULL
  nbits,     \* global depth of the directory
  buckets,   \* bucket id -> [nbits |-> local depth, keys |-> <<key, wt index>> seq]
  wt,        \* world table entries: index -> [var, rngs]
  oob,       \* history: update_buckets wrote a slot beyond the directory
  inserted   \* history: variables ever passed to updateWorldTable

vars == <<ht, nbits, buckets, wt, oob, inserted>>

Pow2(n) == 2^n

\* HASHFUNC(key, GETMASK(nbits)): the low nbits bits of the key
Hash(key, n) == key % Pow2(n)

Slots(n) == 0 .. (Pow2(n) - 1)

\* search: the wt index stored with key in the bucket, or 0 (KEY_NOT_FOUND)
Search(list, key) ==
  IF \E i \in DOMAIN list.keys : list.keys[i][1] = key
  THEN list.keys[CHOOSE i \in DOMAIN list.keys : list.keys[i][1] = key][2]
  ELSE 0

\* mlist_make: an empty bucket with the given local depth
MlistMake(n) == [nbits |-> n, keys |-> <<>>]

\* mutant: mlappend storing (index, key) instead of (key, index)
MlappendSwapped(list, key, idx) == [list EXCEPT !.keys = Append(@, <<idx, key>>)]

\* mlappend: append a (key, index) pair to a bucket
Mlappend(list, key, idx) == [list EXCEPT !.keys = Append(@, <<key, idx>>)]

BUCKETISFULL(list) == Len(list.keys) = LIST_INIT_SIZE

(***************************************************************************)
(* The directory and buckets are threaded through the helpers as a record *)
(* st = [ht, nbits, buckets, oob] so that the while loop of               *)
(* updateWorldTable can be one recursive operator.                        *)
(***************************************************************************)

\* update_buckets: point every slot index + i * 2^(list nbits),
\* i < 2^(nbits - list nbits), at bucket b
UpdateBuckets(st, index, b) ==
  LET lbits   == st.buckets[b].nbits
      targets == {index + i * Pow2(lbits) : i \in 0 .. (Pow2(st.nbits - lbits) - 1)}
  IN [st EXCEPT
        !.ht  = [s \in DOMAIN st.ht |-> IF s \in targets THEN b ELSE st.ht[s]],
        !.oob = @ \/ (\E t \in targets : t \notin DOMAIN st.ht)]

\* a new bucket id with local depth n added to the store
NewBucket(st, n) ==
  [st EXCEPT !.buckets = [i \in 1 .. (Len(st.buckets) + 1) |->
                            IF i <= Len(st.buckets) THEN st.buckets[i]
                            ELSE MlistMake(n)]]

\* create_bucket: a bucket with INIT_NBITS bits placed at index
CreateBucket(st, index) ==
  LET st1 == NewBucket(st, INIT_NBITS)
  IN UpdateBuckets(st1, index, Len(st1.buckets))

\* expand_hashtable: double the directory, the upper half copying the lower
ExpandHashtable(st) ==
  [st EXCEPT !.nbits = @ + 1,
             !.ht    = [s \in Slots(st.nbits + 1) |-> st.ht[s % Pow2(st.nbits)]]]

\* distribute_elements: split the full bucket at index into two buckets
\* one bit deeper and re-append its pairs by the new mask
DistributeElements(st, key, index) ==
  LET old  == st.buckets[st.ht[index]]
      low  == Hash(key, old.nbits)
      high == low + Pow2(old.nbits)
      st1  == NewBucket(NewBucket(st, old.nbits + 1), old.nbits + 1)
      l1   == Len(st1.buckets) - 1
      l2   == Len(st1.buckets)
      st2  == UpdateBuckets(UpdateBuckets(st1, low, l1), high, l2)
      RECURSIVE Reappend(_, _)
      Reappend(s, i) ==
        IF i > Len(old.keys) THEN s
        ELSE LET e == old.keys[i]
                 b == s.ht[Hash(e[1], old.nbits + 1)]
             IN Reappend([s EXCEPT !.buckets[b] = Mlappend(@, e[1], e[2])], i + 1)
  IN Reappend(st2, 1)

\* mutant: the loop of updateWorldTable as an "if": one split at most
SplitOnce(st, key) ==
  LET b == st.ht[Hash(key, st.nbits)]
  IN IF BUCKETISFULL(st.buckets[b])
     THEN LET st1 == IF st.buckets[b].nbits = st.nbits THEN ExpandHashtable(st) ELSE st
          IN DistributeElements(st1, key, Hash(key, st1.nbits))
     ELSE st

\* the while loop of updateWorldTable: split until the target bucket has room
RECURSIVE SplitUntilRoom(_, _)
SplitUntilRoom(st, key) ==
  LET b == st.ht[Hash(key, st.nbits)]
  IN IF BUCKETISFULL(st.buckets[b])
     THEN LET st1 == IF st.buckets[b].nbits = st.nbits THEN ExpandHashtable(st) ELSE st
          IN SplitUntilRoom(DistributeElements(st1, key, Hash(key, st1.nbits)), key)
     ELSE st

\* wtEntryInit: a new entry for variable v, its index is the new length
WtEntryInit(v) == Append(wt, [var |-> v, rngs |-> <<>>])

\* rngEntryInit / the step 2 lookup: append rng to entry idx unless present
AddRng(table, idx, rng) ==
  IF \E j \in DOMAIN table[idx].rngs : table[idx].rngs[j] = rng
  THEN table
  ELSE [table EXCEPT ![idx].rngs = Append(@, rng)]

St == [ht |-> ht, nbits |-> nbits, buckets |-> buckets, oob |-> oob]

Commit(st) ==
  /\ ht' = st.ht
  /\ nbits' = st.nbits
  /\ buckets' = st.buckets
  /\ oob' = st.oob

(* genStateInit *)
Init ==
  /\ nbits = INIT_NBITS
  /\ ht = [s \in Slots(INIT_NBITS) |-> NULL]
  /\ buckets = <<>>
  /\ wt = <<>>
  /\ oob = FALSE
  /\ inserted = {}

(* updateWorldTable(s, map) for a literal (v, rng) *)
UpdateWorldTable(v, rng) ==
  LET index == Hash(v, nbits) IN
  /\ inserted' = inserted \cup {v}
  /\ \/ \* empty slot: new entry, new bucket at index, append
        /\ ht[index] = NULL
        /\ Len(wt) < MaxEntries
        /\ LET st == CreateBucket(St, index)
               w  == WtEntryInit(v)
           IN /\ Commit([st EXCEPT !.buckets[st.ht[index]] =
                                     Mlappend(@, v, Len(w))])
              /\ wt' = AddRng(w, Len(w), rng)
     \/ \* variable found in its bucket
        /\ ht[index] # NULL
        /\ Search(buckets[ht[index]], v) # 0
        /\ wt' = AddRng(wt, Search(buckets[ht[index]], v), rng)
        /\ UNCHANGED <<ht, nbits, buckets, oob>>
     \/ \* not found: new entry, split while full, append
        /\ ht[index] # NULL
        /\ Search(buckets[ht[index]], v) = 0
        /\ Len(wt) < MaxEntries
        /\ LET st == SplitUntilRoom(St, v)
               w  == WtEntryInit(v)
               b  == st.ht[Hash(v, st.nbits)]
           IN /\ Commit([st EXCEPT !.buckets[b] = Mlappend(@, v, Len(w))])
              /\ wt' = AddRng(w, Len(w), rng)

Next == \E v \in Keys, r \in Rngs : UpdateWorldTable(v, r)

Spec == Init /\ [][Next]_vars

-----------------------------------------------------------------------------
\* Buckets reachable from the directory.
Live == {ht[s] : s \in {x \in DOMAIN ht : ht[x] # NULL}}

TypeOK ==
  /\ nbits \in Nat /\ nbits >= INIT_NBITS
  /\ DOMAIN ht = Slots(nbits)
  /\ \A s \in DOMAIN ht : ht[s] = NULL \/ ht[s] \in DOMAIN buckets
  /\ \A b \in DOMAIN buckets : /\ buckets[b].nbits \in Nat
                               /\ \A i \in DOMAIN buckets[b].keys :
                                    buckets[b].keys[i] \in Keys \X (1 .. Len(wt))
  /\ \A i \in DOMAIN wt : wt[i].var \in Keys /\ \A j \in DOMAIN wt[i].rngs : wt[i].rngs[j] \in Rngs
  /\ oob \in BOOLEAN
  /\ inserted \subseteq Keys

(* A bucket reachable from the directory never holds more than            *)
(* LIST_INIT_SIZE pairs: the while loop of updateWorldTable keeps         *)
(* splitting (and doubling the directory) until the bucket the new        *)
(* variable hashes to has room, however many variables share low bits.   *)
BucketsNeverOverflow ==
  \A b \in Live : Len(buckets[b].keys) <= LIST_INIT_SIZE

(* Every variable ever passed to updateWorldTable is found again by the   *)
(* lookup of its next call: the slot of its low nbits bits points to a     *)
(* bucket holding it, with the index of a world-table entry for it.  A    *)
(* lost variable makes the next literal on it create a second entry, so   *)
(* the engines treat one random variable as two independent ones.        *)
InsertedVarsFindable ==
  \A v \in inserted :
    LET b == ht[Hash(v, nbits)]
    IN /\ b # NULL
       /\ Search(buckets[b], v) # 0
       /\ wt[Search(buckets[b], v)].var = v
=============================================================================
