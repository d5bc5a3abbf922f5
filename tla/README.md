# TLA+ models of the MayBMS confidence engine

This directory holds TLA+ models of the confidence-computation engine of MayBMS
(`src/postgresql-8.3.3/src/backend/maybms/`), the TLC configurations that check
them, and `PROJECT.json`. That file lists the components, runs, mutants, the
mapping of every modelled definition to its source lines, the findings and the
hazards.

## 1. The system

MayBMS adds probabilistic tables (U-relations) to PostgreSQL 8.3. A tuple
carries condition columns: triples (variable, outcome, probability). The
rewriter (`rewrite.c`) turns `conf()`, `aconf()`, `tconf()` and the related
calls into ordinary aggregates over those columns. The engine then computes
the probability that the disjunction of the rows' conjunctions is true.

| Part | Source | State | Operations |
|---|---|---|---|
| Lineage and world table | `localcond.c`, `localcond.h` | clause bag `S` (WSD array), `NUM_WSDS`, `WSD_LEN`, `groupcxt` (backend globals); the world table and its extendible-hash directory `HT`, `nbits`, buckets (`mList`) in the aggregate node's `genstate` | `advance`, `updateWorldTable`, `create_bucket`, `update_buckets`, `expand_hashtable`, `distribute_elements`, `search`, `mlappend`, `wtEntryInit`, `rngEntryInit`, `genStateInit`, `getMissingRngs`, `computeEntryPointers`, `resetCount` |
| Exact confidence (ws-tree) | `ws-tree.c` | `S` is changed in place and restored | `conf_accumN_ge` (the `accum` macro), `conf_final_ge`, `indve_compute_prob` and its helpers |
| Decomposition-tree approximation | `d-tree.c` | `S` sorted by probability, bound buckets | `conf_appro_accum`, `conf_appro_final_ge`, `decomposition_tree_approximate` / `_exact`, `bitset_union_removing_subsumption` |
| Monte-Carlo approximation | `aconf.c` | `S`, the world table, sampled assignment `tau` | `aconf_accum`, `aconf_final`, `compute_estimator`, `AA_algorithm` |
| One-scan (SPROUT) | `SPROUT.c`, `signature.c` | per-aggregate state and lineage table, signature tree | `conf_accum0..10`, `conf_final`, `oneScan`, `processTuple` |
| tconf and products | `tupleconf.c` | none of its own; it uses the global `groupcxt` | `tconf`, `product_ge` |
| argmax | `argmax.c` | per-group state, kept per hash entry under hashed aggregation | transition and final functions |
| Bitsets | `bitset.c` | word arrays | set, clear, test, union, negate, singleton, first bit |
| Rewriting | `rewrite*.c`, `supported.c`, `repair_key.c`, `pick_tuples.c` | parse trees | query transformation |

How the parts interact: the executor, which is not in this repository, calls an
aggregate's transition function once per row and its final function once per
group. The transition function calls `advance`. `advance` appends a WSD to `S`
and records each literal in the world table. The final function completes the
world table (`getMissingRngs`), runs one engine over all of `S`, then deletes
`groupcxt` and sets `S` to NULL. `S`, `NUM_WSDS` and `groupcxt` are process-wide
globals. They are not per group.

### Hard behaviours

- **Directory growth.** Doubling the directory and splitting buckets while
  variables arrive in any order (`localcond.c:190-259`, `:541-639`).
- **Temporary removal and restoration.** The exact engine temporarily removes
  literals from the shared `S` and restores them on every return path
  (`ws-tree.c:260-330`, `:338-454`). There is also a memoised sub-result
  (`p_without_var`), the `found_empty` shortcut, and early stops on `p == 1.0`.
- **Group scope held in globals.** The group's scope lives in globals. The
  transition and final calls are driven by a grouping strategy the engine does
  not control: plain, sorted or hashed (spec.md section 5). An error or a cancel
  between them leaves the globals set.
- **Unsound subsumption in the d-tree.** The d-tree's subsumption removal
  compares only variables (`d-tree.c:779`).
- **Statistical engines and input order.** The Monte-Carlo engine's stopping
  rules. The one-scan's reliance on sorted input, and its state machine over
  the columns of the signature: a cursor, per-column sums and a stack of
  finished sums (`readySumList`) that `getProduct` pops without checking its
  end (`SPROUT.c:947-959`, `:1198-1370`).

### Correctness properties

- A group's `conf()` equals the probability of the disjunction of that group's
  rows. This holds for every order of rows and every grouping strategy.
- `indve_compute_prob` leaves `S` as it found it.
- Every variable recorded in the world table is found again, and no bucket
  exceeds its capacity.
- The approximate engines' bounds contain the exact value, and the one-scan
  equals the exact value on hierarchical input.

## 2. Modules

| Module | Models | State / operators |
|---|---|---|
| `WorldTable.tla` | the extendible-hash directory of `localcond.c` | VARIABLES `ht` (HT), `nbits`, `buckets` (mList: local depth and (key, index) pairs), `wt` (entries: variable, outcomes), plus two history variables: `oob` (a write past HT) and `inserted`. The single action `UpdateWorldTable(v, rng)` has one disjunct per branch of `updateWorldTable`: an empty slot, a variable found, and a variable not found. The while loop of splits is the recursive `SplitUntilRoom`. |
| `ProbArith.tla` | probabilities | exact fractions `<<n, d>>`; `QOr` is the `p_l + p_r - p_l * p_r` of `indve_compute_prob` |
| `Lineage.tla` | `advance`, the outcome lookup of `updateWorldTable`, `getMissingRngs` | pure operators over `S` (a sequence of `[data, prob]`) and the world table (a sequence of `[var, rngs]`), where an entry is found by its variable. `Neutralise` is `advance`'s duplicate-variable loop. |
| `WsTree.tla` | `ws-tree.c` | `Indve` is one recursive operator on a task record. A "set" task is a call `indve_compute_prob(set)`. A "loop" task is the loop over the chosen variable's outcomes, with `p_without_var` memoised. Both thread `S` through as the C code mutates it. `IndveComputeProb(set, S, wt)` starts a set task. `FindWsdsWithVarRng` and `ResetWsdsVarRng` are the drop and restore. Bitsets are sets of indices. |
| `ConfAggregate.tla` | `conf_accumN_ge`, `conf_final_ge`, the globals, and the executor | VARIABLES `S`, `sNull` (S == NULL), `wt`, `groupcxt`, and, for the executor, `fed` (the rows given to each group) and `res` (the value each final returned). There are also `aborts` and the history variable `restored`. Actions: `ConfAccum(g, c)`; `ConfFinal` (groupcxt NULL, returns 0); `ConfFinalCompute`; `ConfFinalError` (the `elog(ERROR)` of `getMissingRngs`); `QueryAbort`. `BruteForce` is the reference: it sums over all worlds. |
| `DTree.tla` | `d-tree.c` | Pure operators over `S` and the world table. `ComputeBounds` and `Buckets` are `compute_upper_and_lower_bounds` with the first-fit bucketing. `ChooseVarMaxOccurSameColumn`, `DtFindWsdsWithVarRng` (drops all matching literals, tests `found_empty` after each) and `UnionRemovingSubsumption` (`bitset_union_removing_subsumption`, variables only, as in the code) are the tree's helpers. `QuickSort`, `Partition` and the median-of-medians helpers are the sort of `S` by probability. `DTreeExact` and `DTreeApprox` are the two recursive trees on task records, like `Indve`: a "set" task is a call, a "loop" task the loop over the chosen variable's outcomes (first round of bounds, then refinement), a "right" task the right partition and the `1-(1-l)(1-r)` join. `DTreeFinal` is the body of `conf_appro_final_ge` from the sort to the midpoint. |
| `DTreeAggregate.tla` | `conf_appro_accumN_ge`, `conf_appro_final_ge` | EXTENDS `ConfAggregate` and `DTree`; adds the globals `approach` and `eps`. Actions: `ConfApproAccum`, `ConfApproFinalEmpty` (groupcxt NULL), `ConfApproFinalBadApproach` (reset, then `elog(ERROR)`), `ConfApproFinalError` (`getMissingRngs`), `ConfApproFinalCompute`. |
| `Aconf.tla` | `aconf.c`, the `aconf_accum` macro | EXTENDS `ConfAggregate`; adds the globals `epsilon`, `delta` and the state of one running `aconf_final`: `phase` (idle, step1, step2, step3), `cur`, `nM`, `acc` (the running sum S of the step) and `n`. `compute_estimator` is pure: `Taus` are the assignments the first loop builds from a clause, `TauProb` their probability under `choose_with_distribution_2`, `CTau` the count of satisfied clauses; `EstimatorValues` is what one call can return and `ExpectedEstimator` its mean over the clause pick and the completion. Actions: `AconfAccum`, `AconfFinalEmpty`, `AconfFinalError`, `AconfFinalStart` (up to `clause_bag_prob`), one action per loop body and loop exit of `AA_algorithm`, and `AconfFinalReturn` (the result times `nM`, then the reset). |
| `OneScan.tla` | `SPROUT.c`, the signature operations of `signature.c` | Signature trees are nested records `[leaf, star, kids, type, pt, pos]`; `LeafDescendentCount`, `DerivePos`, `CalSib`, `CalDomain`, `Is1Scan` and `FillLeafNode` are the recursive functions of `signature.c`. VARIABLES `sig` (`sigTreeRoot`), `sigOrig` (the tree the rewriter built), `isOneScan`, `groupcxt`, `st` (the `stateData`: cursor, `sum`, `tempSum`, `preTuple`, `readySumList`, the leaves with their probability tables, and a `fault` flag set where the code would dereference NULL) and `lineage`; the executor's `lin`, `fed`, `res`. `ProcessTuple` and `ProcessFinal` are `processTuple`, split into one operator per part of its control: `NewBlock` (the `newBlock` label), `ScanCols` (the column loop), `Finish` (the `finish` label: `CloseCols` for the loop from the cursor down, `FinishCol` for the first changed column). `Schedule`, `SimpleAggregation` and `OneScanRun` are `schedule`, `simpleAggregation` and `oneScan`. Actions: `ConfAccum` (advance with the 1scan property), `ConfAccumStore` (advance storing the row), `ConfFinalEmpty`, `ConfFinal`, `ConfFinalSchedule` (schedule, oneScan, rebuild of the signature). `InclExclConf` is the reference: inclusion-exclusion over the rows, each a product of independent facts. |
| `Tconf.tla` | `tupleconf.c` | Pure operators: `CreateMaps` (`create_map` per triple), `DupCompare` and `DupLoop` (the pairwise loop of `product_ge`, comparing literals as already rewritten), `ProductGe`, and `TconfOf` (`product0`, `product1_ge`, `productN_ge`). |
| `Signature.tla` | `signature.c` up to the signature tree, the hierarchical-path test of `rewrite.c` | Pure operators on a query `[from, where]`: a column is `<<relation, attribute>>`, a subgoal list a sequence of columns. `GeneStep`/`GeneSGList` (`geneSGList`, `addNewSG`), `SgListcmp` (counting by relation, as `sgInsgList` does), `IsHQ`, `IsSelfJoin` (`is_self_join` with its loop bounds), `FindMax`, `FindDisjoint`, `DisjointSets`, `BuildSGTree`, `BuildSigTree` (head list only, the star rule over the constants `NAttr` and `PKCols`), `RelIsJoined`, `AddNonJoinedRelation`, `GetVarOrder` and `ProcessSignature`. `SignatureOf(q)` is the tree the rewriter hands the one-scan. |
| `MC_WorldTable.tla`, `MC_ConfAggregate.tla`, `MC_DTreeAggregate.tla`, `MC_Aconf.tla`, `MC_OneScan.tla` | model-checking instances | small key sets and distributions; all arrays of up to seven clauses for the sort; every tconf row of up to four literals; the signatures and sorted lineages of the one-scan, and the queries and small databases the rewriter's signatures are checked on |

Neither engine is checked against a separate abstract specification: what a
confidence aggregate promises its executor (each final returns the
probability of exactly its group's rows) is stated directly over the
executor's variables `fed` and `res`, as `FinalIsExact` and `OneScanExact`.
A refinement to a two-action abstract module was tried and said no more than
these invariants, so it is not kept.

Pure algorithms checked over every bounded input (the `tconf` rows, the
quicksort's arrays, the rewriter's signatures on small databases) run once,
in the initial state of the MC module: `MC_Init` sets an MC-level variable
(`tconfOK`, `sortOK`, `sigOK`) to the check's value, and `MC_Next` leaves it
unchanged.

The operators of `OneScan` hand the intermediate states of a step to the next
operator as parameters rather than naming them by LET. TLC's coverage
profiler walks a definition once per place that names it, so the LET form
grows exponentially with the nesting of `processTuple`'s paths.

Data is abstracted, and all of the control is kept:
- a variable is a small natural;
- a probability is an exact fraction;
- the directory is kept only in `WorldTable`, while `Lineage` finds entries by
  variable. That is what the directory provides, and `InsertedVarsFindable`
  checks it separately.

The executor is not in `src/` and is modelled from spec.md. Its definitions
(`Open`, `RowAllowed`, `FinalAllowed`, `NextQuery`, `QueryAbort`) are marked
`spec_modelled`:
- plain runs one group and allows a final without rows;
- sorted runs the groups one after the other;
- hashed feeds all rows, then runs each group's final;
- a query may be aborted while a group is open, leaving the engine's globals as
  they are.

`ConfFinalError` aborts only when `aborts < MaxAborts`.

The input rows are `Clauses`: consistent pairs of literals. This is what
`remove_mutual_exclusiveness` (`rewrite.c:1481`) guarantees.

## 3. Runs

| Run | Config | Expect | What it shows |
|---|---|---|---|
| `world_table_bounds` | `WorldTable_bounds.cfg` | pass | For any insertion order of the ids {0,1,2,3,4,8}, the split loop keeps every reachable bucket within capacity. Ids 0, 4 and 8 share their low two bits, so they force two splits in a row. |
| `world_table_lookup` | `WorldTable_lookup.cfg` | violation | Inserting 0, 2, 4, 3, 1 loses 3. After the directory grows to 2 bits, `create_bucket(3)` builds a 1-bit bucket. `update_buckets` writes it to HT[3] and to HT[5], past the end of HT. Then the bucket for 1 is written to HT[1] and HT[3], over the bucket holding 3. |
| `conf_sorted` | `ConfAggregate_sorted.cfg` | pass | Two groups finalised in turn, with up to 3 rows of two literals over two variables between them. Each group's result equals `BruteForce` of its own rows, because each final resets `S` before the next group starts, and `indve_compute_prob` restores every literal it drops. `tconf()` of every row of up to four literals, repeated and contradictory ones included, equals `conf()` of a group holding only that row (`TconfIsConfOfRow`). |
| `conf_errors` | `ConfAggregate_errors.cfg` | pass | Variable 2's outcomes sum to 4/3, so once both are in the bag `getMissingRngs` raises its error; a query may also be aborted with its rows left in `S`. Every value `conf_final_ge` returns is the probability of the rows `S` holds at that moment (`FinalIsConfOfS`, an action property): the engine's arithmetic is exact over the leftovers of an aborted query, with the world-table entries they made, so the wrong results of `conf_abort` come from what `S` holds, not from how it is evaluated. After a `getMissingRngs` error `S` keeps the offending rows, so no later final of the session returns a value (every one raises again). |
| `conf_hashed` | `ConfAggregate_hashed.cfg` | violation | Group g1 gets the row (x1=1, x1=1), g2 the row (x1=1, x2=1), and g2's final runs first. It returns 1/2, the probability of x1=1, that is of the disjunction of both groups' rows, instead of 1/6, the probability of its own row. The final also resets `S` and `groupcxt`, so g1's final, which the trace does not reach, would find no group context and return 0. |
| `conf_abort` | `ConfAggregate_abort.cfg` | violation | A query accumulates (x1=1) and is aborted. The next query's `conf()` over no rows returns 1/2 instead of 0. |
| `dtree_state` | `DTreeAggregate_state.cfg` | pass | Approaches "R" and a rejected "X", ε in {0, 1/10}, up to 2 rows over two variables and one aborted query (`MaxAborts = 1`), so `getMissingRngs` errors, the rejected approach and aborts all happen and leave rows in `S`. The trees hand `S` back as they found it, the bucketing bounds contain the probability of `S`, and the median-of-medians quicksort orders every array of up to six clauses over three probabilities by non-increasing probability and keeps every clause. |
| `dtree_exact` | `DTreeAggregate_exact.cfg` | violation | Rows (x1=1), (x1=2, x2=1), (x2=2) with x1, x2 uniform over {1,2}: the exact tree returns 3/4, the true value is 11/12. Subsumption removal drops (x2=2) because it compares variables only. |
| `aconf_state` | `Aconf_state.cfg` | pass | Up to 3 rows over two variables, ε = δ = 1/10, with errors and an abort. Whenever `aconf_final` is running, the mean of `compute_estimator` times `nM` equals `BruteForce` of the bag, and every final returns. |
| `aconf_zero` | `Aconf_zero.cfg` | violation | `aconf(0, 0.1)` over one row: step 1's threshold is +inf and the loop never exits. |
| `onescan_groups` | `OneScan_groups.cfg` | pass | Signatures `[R S*]*`, `[R S* T*]*`, `[R [S T*]*]*` (1scan) and `[A* B*]*` (scheduled by `simpleAggregation`); every sorted lineage of two groups in which each starred node repeats one or two times; a variable's probability (1/2, 1/3 or 1/5) is fixed by its column and value. Every `conf_final` returns exactly its group's probability (`OneScanExact`), and no `getProduct`, `lookup` or hash lookup goes past the end of its list (`NoNullDereference`). End to end from the rewriter (`HQConfExact`): for the four queries whose signatures these are, and for two with unjoined relations, the query takes the hierarchical path, and `schedule` plus `oneScan` over the signature `Signature` builds return the exact probability of the query's join on every database of up to two tuples per table. |
| `onescan_nested` | `OneScan_nested.cfg` | violation | `[R [A* B*]*]*`, one group of up to 4 rows: the one-scan counts the B variables of a non-representative A again and returns 4/15 where the probability is 1/5 (finding 6). |

### Bounds and why they are enough

- **WorldTable.** The code uses `INIT_NBITS = 10` and `LIST_INIT_SIZE = 30`;
  the model uses 1 and 2. The control flow is the same: the split loop, the
  expansion test and the slot arithmetic. So the first split, a repeated split
  and the first doubling all happen within six ids. `MaxEntries = 7` leaves
  room for the duplicate entry that a lost variable produces.
- **ConfAggregate.**
  - Two literals per row is the smallest width with neutralisation and with
    rows that share one variable but not another.
  - Three rows make components with three members. Elimination then recurses
    below a split, which reaches the memoised `p_without_var`, the
    `found_empty` path and the restore of a union with rows that lack the
    variable.
  - The two outcome values allow both a complete and an incomplete
    distribution.
- **DTree.** Three rows over two variables with two outcomes reach every
  kind of loop step: a branch whose drop empties a clause (`"empty"`), one
  with no clause of the variable (`"null"`) and a union. ε = 1/10 keeps the
  approximate tree refining; ε = 1/2 makes it stop at the first bounds. The
  subsumption bug needs three rows and three variables, so the violation run
  uses variables {1,2,3}. The sort is checked over every array of up to
  six clauses over three probabilities: the median-of-medians takes the
  median of groups of five, so six elements reach a second group and a
  recursive median, and duplicates reach the equal-to-pivot paths. This
  bounded check runs once, in the initial state of `MC_DTreeAggregate`
  (the variable `sortOK`). `dtree_state` allows one aborted query, which
  is what lets a `getMissingRngs` error, the rejected approach "X" and an
  outside abort happen (each counts as the query's abort); with it, 2 rows
  keep the run near a minute, while 3 rows take nine.
- **Aconf.** The magnitude of the thresholds does not change the control
  flow, only the number of iterations: `Upsilon1 = 2` makes step 1 take two
  to six samples (values 1, 1/2, 1/3), and `N2 = 1`, `N3 = 2` run every loop
  body and exit of steps 2 and 3. The step-1 sum saturates at `AccCap = 3`,
  above the finite threshold, so the loop test is unaffected; with an
  infinite threshold the saturated loop is a step that no longer changes the
  state, which is how TLC sees a loop that runs for ever.
- **OneScan.** One or two repetitions of every starred node give every
  column change the scan distinguishes: a change in the first column (a new
  block), in a middle column (the finish loop), in the cursor column, and no
  change. The three 1scan signatures have one, two and nested heads, so the
  finish loop closes one and two columns and the ready list is popped across
  levels. `[A* B*]*` is the smallest signature that `schedule` must rewrite;
  two groups check that the state of one group does not reach the next.
  The nested signature needs up to four rows for two A and two B variables;
  with more rows its reference grows past what TLC evaluates in minutes.
- **Signature.** The six queries reach every path of `ProcessSignature`
  that a hierarchical query takes: one join class with a key leaf and
  starred leaves, a class nested in another (`findMax`, `findDisjoint`,
  `sgInChildSGLists`), a class without a key (`schedule`), an unjoined
  relation under a new root (`attrCount` not 0) and under the reused root
  (an empty where clause). Tables of arity 1 to 3 with values 1 and 2 and up
  to two tuples each give joins where a key value matches several tuples
  and where a tuple matches none; the largest lineage has eight rows.
- **Tconf.** Rows of up to four literals over the two-variable
  distribution give every comparison of the pairwise loop: a repeat after a
  neutralised literal, two contradictions on one variable, and a
  contradiction after a repeat.
- **Fairness.** Only `Aconf` assumes any: weak fairness of `AconfSteps`, the
  steps of one running `aconf_final`. The engine is single-threaded and
  call-and-return (spec.md section 5): once a final has started, the backend
  runs it until it returns, so its next step is always eventually taken.
  Nothing is assumed of the executor (rows, finals, aborts), and every other
  property is a safety property. The configs of ConfAggregate say `CHECK_DEADLOCK FALSE`
  because a query really ends once all of its groups have been finalised.

### Mutants

Each property of a passing run is broken by a plausible bug in the mapped code:
- an `mlappend` called with its arguments swapped;
- the split `while` written as an `if`;
- `- p_l * p_r` missing from the combination of the two sides;
- `getMissingRngs` without the "else" completion;
- `reset_wsds_var_rng` not multiplying the probability back;
- `conf_final_ge` not setting `S = NULL`;
- `bitset_union_removing_subsumption` or the bucketing ignoring variables,
  and `find_wsds_with_var_rng` not resetting;
- a partition step that does not move the pivot;
- the Monte-Carlo engine's loop bounds and the satisfied test off by one;
- `getProduct` not advancing its list, `conf_final` not resetting `counter`,
  and `calSib` counting the first child among its siblings;
- `product_ge` keeping an agreeing duplicate's probability;
- `addNonJoinedRelation` always reusing the old root.

## 4. Findings

1. **Code bug.** `create_bucket`/`update_buckets` (`localcond.c:602-639`) go
   wrong after the directory has grown: a write past `HT` and a lost
   variable. In the code this needs at least 31 variables of one group sharing
   their low 10 bits.
2. **Divergence from spec.md section 5.** The group state is global, so
   hashed aggregation mixes groups. `argmax.c:222` and `SPROUT.c:470` handle
   `AGG_HASHED`, but conf does not.
3. **Divergence from spec.md sections 5 and 7.** After an error or a cancel
   between accum and final, the rows of the aborted query leak into the next
   `conf()`. This happens because `groupcxt` has no parent context and the
   reset happens only on success.

4. **Code bug.** `bitset_union_removing_subsumption` (`d-tree.c:779`)
   counts a clause as subsumed when it has the same *variables* as a clause of
   the other side, whatever their outcomes. The exact tree (ε = 0, which the
   code takes also for ε < 0) then drops a clause that is not implied, and
   `conf(approach, 0)` returns 3/4 for a group whose probability is 11/12
   (run `dtree_exact`). The approximate tree uses the same union, so its
   bounds can miss the true value too.

5. **Divergence from spec.md section 7.** `aconf(0, δ)` (or `δ = 0`) never
   returns (`aconf.c:349`). `epsilon_sra = min(0.5, sqrt(ε))` is 0, so
   `upsilon1_sra` is +inf and the loop `while (S < upsilon1_sra)` adds
   estimator values for ever. No code checks the arguments. The spec says the
   approximate engines always terminate and that ε = 0 must be rejected or
   redirected (run `aconf_zero`).

6. **Divergence from spec.md (one-scan equivalence).** After
   `simpleAggregation`, only the representative of an aggregated column is a
   valid variable. `processTuple`'s column loop (`SPROUT.c:1290-1293`) skips
   a change in an invalid column but takes a change in a later one. So for
   `[R [A* B*]*]*`, whose A column `schedule` aggregates, the B variables
   after every non-representative A are added again to the representative's
   block. Rows R11 with A 111 (1/5), 112 (1/2) and B 111 (1/2), 112 (1/3)
   give 4/15 instead of 1/5 (run `onescan_nested`). The same result comes
   from the C functions compiled on their own. spec.md says the one-scan
   must equal the exact engine.

### Defects in the signature, confirmed on the model without a run

Each was reproduced with the operators of `Signature` and `MC_OneScan`
(`SignatureOf`, `QueryConfExact`). Each is a hazard in `PROJECT.json`. None
has a violation run of its own yet.

7. **`isHQ` accepts a non-hierarchical query.** `sgListcmp` counts a list's
   subgoals by relation (`signature.c:871`), and one list can hold a
   relation twice. `T.c = U.a, T.a = S.a, T.b = S.a` gives the lists
   `[T.a, S.a, T.b]` and `[T.c, U.a]`, compared GREAT, although {T,S} and
   {T,U} overlap. The one-scan's result then differs from the exact
   probability. spec.md section 7 says this precondition must be detected.
8. **Disconnected joins.** `findMax` keeps every maximal list, but
   `buildSigTree` and `relIsJoined` (`signature.c:1450`) read only the head.
   For `R.a = S.a AND A.a = B.a`, A and B become unjoined starred leaves and
   conf is wrong.
9. **Duplicate leaves.** `findDisjoint` (`signature.c:1164`) groups by
   overlap with the first list only. With the classes {R,S,T,V,W} >
   {R,S,T,V} > {R,S} and {T,V}, in that list order, the signature has seven
   leaves for five relations.
10. **`is_self_join` skips the last from item** (`rewrite.c:1995`, loop
    bounds `length - 2` and `length - 1`). So `FROM R r1, R r2` takes the
    one-scan path.

## 5. Plan

Order, from the most important behaviour to the least:

1. **Done.** `WorldTable`, `Lineage`, `WsTree`, `ConfAggregate`.
2. **`ConfAggregate`, continued.**
   - `tconf` is modelled (`Tconf`). Its write of `groupcxt` cannot meet an
     open `conf()` group: `tconf` makes its select certain, and `conf()` over
     a certain select is rejected (`rewrite.c:311-317`).
   - A distribution whose sum lies in (1, 1.01], which `getMissingRngs`
     accepts without an error.
3. **Done: `DTree`, `DTreeAggregate`.** Still open: a refinement of the
   approximate tree to an abstract "interval containing the probability"
   specification via `INSTANCE ... WITH`, which the subsumption bug currently
   breaks.
4. **Done: `Aconf`.** Still open: the `int` counter of step 3 against a
   `float8` bound (`aconf.c:381`) and NaN results for a negative ε.
5. **Done: `OneScan`.** Still open: `complexAggregation`
   (`SPROUT.c:663-925`), which `schedule` uses when the first child of a
   node that lacks the 1scan property is not a leaf; the smallest such
   signature (`[[A B*]* C*]*`) needs lineages of three columns and more rows
   than the reference can be evaluated over.
6. **`Bitset`:** as a refinement of the set operations `WsTree` uses.
7. **`Signature`:** one violation run over all small queries on the
   hierarchical path (`HQConfExact` over every where clause of up to three
   equalities), showing findings 7, 8 and 10 with one property.

## 6. Not modelled

- **Rewriting layer.** Parse-tree transformation, excluded by spec.md
  section 1. Two things are used. One is its consistency promise. The other
  is its choice of the hierarchical path and the signature (`Signature`).
  The SQL it builds is not modelled.
- **argmax.** `argmax.c` reads `argmaxState` and the executor's
  `AggState->argmax` and `currentEntry`. No file of the repository defines
  them, because the executor (`nodeAgg.c`) is not part of it. The code
  cannot be translated faithfully.
- **`product(n)` for tuple-independent relations.** These functions multiply
  their arguments. Which arguments they get is the rewriter's choice.
- **PIP plugin.** A separate sampling plugin.
- **Logging and utilities.**
- **Aggregate catalog entries.**
- **Float rounding.** Probabilities are exact fractions, so the models check
  the exact-arithmetic logic of the `== 1.0` tests, not their floating-point
  behaviour.
- **Memory contexts.** Beyond the global `groupcxt` flag, memory contexts are
  not modelled. Neither are the pointer fields that `computeEntryPointers`
  recomputes.
- **Catalog lookups of the signature.** `nattr`, `IsPK` and the relation
  ids `is_self_join` compares are constants. `getRelation` and
  `newSubGoal`, which resolve a column name to its from item, are replaced by
  columns that carry their relation. Self-joins are not given shared
  variables in the model's databases.
- **Freed memory in SPROUT.** `conf_final` deletes `groupcxt`, which holds
  the state's array of leaves, but leaves `NoOfVars` set, so later groups of
  a query read the array from freed memory. The model keeps the old value;
  the outcome where the memory is reused is not modelled.
- **Aborted query's aggregate state.** After an aborted query, the model keeps
  the world table the engine had. The state a new aggregate node hands the
  engine is in the executor, which is not in this repository. Whatever it is,
  the stale `S` is counted.
