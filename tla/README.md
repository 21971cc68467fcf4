# DrillBeyond: TLA+ models, checks and proofs

This directory holds a verification project for the DrillBeyond executor
extension: `src/src/backend/drillbeyond/*.c` and
`src/include/drillbeyond/drillbeyond.h`. The TLA+ modules model the
executor's state machines. TLC checks them on small instances, and TLAPS
proves the odometer's and the join operator's invariants for every instance.

## The system

DrillBeyond adds *open attributes* to PostgreSQL queries. An open attribute's
values are not stored locally. An external resolver returns them, with several
*candidates* per join key. The runtime is made of the following parts, all
running single-threaded in the pull-based executor:

- **DrillBeyond join operator** (`drillbeyond_operator.c`, `ExecDrillBeyond`).
  - Phase 1 spools the whole outer input into a tuplestore and registers every
    join key in the attribute's **candidate cache** (`drillbeyond_hashtable.c`).
  - It then makes one batched request through the **resolver client**
    (`drillbeyond_requests.c`) for the entries not yet requested.
  - Last, it calls `reconsiderStrategy`.
  - Phase 2 replays the tuplestore. To each row it attaches either
    `values[db_current_origin]` (`DRB_DEFAULT`) or a pointer to the whole
    candidate bundle (`DRB_PLACEHOLDER`).
- **Expansion operator** (`drillbeyond_compress.c`,
  `ExecDrillBeyondExpand`). It has three strategies:
  - `DRB_EXPAND2` (`drb_expand2`) buffers its input and substitutes the
    current candidate for the bundle pointer.
  - `DRB_DEFAULT` passes rows through.
  - `DRB_TOP` (`drb_top`) is the **combination driver**. It runs one pass of
    the plan per combination of candidate indices ("digits", one per join
    operator, kept in `db_current_origin`). Between passes it advances the
    digits like an odometer, with radix `drb_max_num_cands`. It then marks
    the operators whose digit it visited, and every node above them, with
    bit 128 of `chgParam` (`_drb_set_chg_param`). After that it rescans the
    plan.
- **Rescans.** A rescan with bit 128 lets a join operator replay its
  tuplestore when nothing below it changed. Otherwise the tuplestore is
  refetched. An Expand2 node likewise replays or clears its buffer.
- **Strategy reoptimizer** (`reconsiderStrategy`). It may switch an attribute
  to `DRB_DEFAULT` once real selectivities are known.
- **Plan-swap controller** (`drillbeyond_reoptimization.c`). It may replace
  the running plan.
- **Planner phase one** (`drillbeyond_planner_phase_one`, `drb_walker`). It
  marks an expansion aggregative or sorting from the query's target list;
  phase three reads those flags.
- **Planner phase three** (`drillbeyond_planner.c`,
  `drillbeyond_planner_phase_three`). It builds the plans the executor runs:
  - it puts `Material` nodes above subtrees that no open attribute changes
    (`add_mat_nodes`, `should_materialize`);
  - it puts a `DRB_TOP` above the plan;
  - under big omega it gives each non-selective expansion a `DRB_EXPAND2` and
    sets its DrillBeyond to `DRB_PLACEHOLDER`. The Expand2 goes under a
    `Limit`, under a `Sort` on the attribute, or below the first `Agg`.

## Modules

| module | models | state | actions |
|---|---|---|---|
| `DrbEnumeration` | what the driver promises (spec 4.4, 8.1, 8.7): every combination once, in mixed-radix order, then end of data | `produced`, `closed` | `Produce`, `Close` |
| `DrbTop` | `drb_top`: the odometer, the budget `total_permutations`, passes | `digit`, `tp`, `topPc`, `emitted` | `TopPass`, `TopAdvance`, `TopFinish`, `TopTerminated` |
| `DrbPipeline` | the plan below the driver: targeted rescans, join operators and Expand2 nodes replaying or refetching, and the runtime strategy switch, per pass | `DrbTop`'s variables plus `chg`, `fetched`, `store`, `mat`, `lastOut`, `strat` | `Pass`, `Advance`, `Finish`, `Terminated` |
| `DrbJoin` | one join operator with its cache and resolver calls, over several scans, and the plan swap of the reoptimizer | `rows`, `store`, `pos`, `fetched`, `registered`, `requested`, `numValues`, `inUnion`, `numCands`, `selLen`, `digit`, `scans`, `attached`, `selRead`, `phase` | `Fetch`, `Emit`, `RescanReplay`, `RescanRefetch`, `JoinDone`, `Reoptimize` |
| `DrbReconsider` | the switch test of `reconsiderStrategy`, in exact arithmetic | the inputs of one decision | none (fixed inputs) |
| `DrbPlanner` | planner phase one's flags from the target list, and phase three as pointer surgery on a plan graph, and the removal of its Material nodes at run time | `lt`, `rt`, `tag`, `nodes`, `opStrat`, `expandNode`, `opMats`, `matNodes`, `resultPlan`, `topPlan`, `outputPlan`, `i`, `pc`, the input plan and expansion flags | `SkipSelective`, `AggBranch`, `PlainBranch`, `Finish`, `ExecInitMats`, `RemoveMats`, `Planned` |
| `DrbTopProofs` | TLAPS proofs about `DrbTop` | | |
| `DrbJoinProofs` | TLAPS proofs about `DrbJoin` | | |
| `DrbTopRefinement` | TLAPS proof that `DrbTop` implements `DrbEnumeration` (safety part) | | |
| `DrbPipelineProofs` | TLAPS proofs about `DrbPipeline` | | |

`MCDrbTop`, `MCDrbPipeline`, `MCDrbJoin` and `MCDrbPlanner` give the
constants for TLC.

### How the models correspond to the code

**`DrbTop`.**
- `digit[e]` is `db_current_origin` of the e-th entry of `drb_operator_states`.
  That list is collected in plan pre-order, and entry 1 is the least
  significant digit.
- `OdometerStep` is the `for` loop of `drb_top`. An operator is `Visited`
  when every operator before it was at `drb_max_num_cands - 1`. A visited
  operator at the maximum is reset to 0. The first visited operator below
  the maximum is incremented, and the loop breaks there.
- `ResetOps` is the set of visited operators, i.e. `resetOps`.
- `TopAdvance` and `TopFinish` are the two outcomes of the loop test
  `--total_permutations > 0`.
- `total_permutations` is a C `int` of `IntBits` bits. `ToInt` is the
  assignment of the double `pow(K, n)` to it: out of range the conversion is
  undefined in C, and the x86-64 build yields `INT_MIN`. `Dec` is the
  decrement, which wraps because PostgreSQL is compiled with `-fwrapv`.
- `TopFairSpec` adds weak fairness on `TopNext` (see Fairness below).
- Rows are abstracted to passes: a pass appends the digit vector that
  `drb_top` writes into the `drb_expandTo` columns.
- `EnumerationRefined` instantiates `DrbEnumeration` with `produced <- emitted`
  and checks its `FairSpec`, the enumeration together with its liveness.

**`DrbPipeline`.** The plan is a constant tree numbered in pre-order.
- Node kinds are `drb` (join operator), `expand`, and `plan` (a host node).
- `Claims`, `Claimant` and `Marked` are `_drb_set_chg_param`. Because
  `bms_del_member` edits `resetOps` in place, the first claiming node in
  pre-order takes each attribute. Expand nodes in `DRB_DEFAULT` never claim.
- A pass computes, top-down, how each node is entered (`Mode`):
  - fresh;
  - rescanned with bit 128;
  - rescanned normally;
  - pulled after its end;
  - not pulled.
- `FetchedAfter`, `MatAfter` and `StoreAfter` are `ExecReScanDrillBeyond` and
  `ExecReScanDrillBeyondExpand`.
- `RescansKids` says which rescans call `ExecReScan` on an unmarked child:
  - host nodes do;
  - a join operator does only in a normal rescan;
  - an expand node never does.
- The host executor's lazy rescan (a node whose `chgParam` is set is rescanned
  when it is next pulled) is not in this repository. `KidMode`, `Mode` and
  `Merge` model it from the spec and are marked `spec_modelled`.
- Each node then produces a `Row` bottom-up (`Out`). A row records, for each
  attribute, the candidate index its values were computed with, or the token
  `Tok` of a `DRB_PLACEHOLDER` bundle pointer. `NodeOut(n, in, kids)` is what
  one node does with what it reads (`Input`) and what its children output
  (`KidsOut`). `Out` only ties them together across the tree. Its branches
  form an IF chain in the order of the code's tests. A CASE would not do
  here: its guards overlap (an eof node may also be a plan node), and in
  TLA+ overlapping CASE arms are a free choice, not the first one.
- `Substitute` is `drb_expand2`, which replaces the token with the value
  indexed by the current digit.
- `store` and `mat` are the tuplestores and the `materialized` flag.
- `strat` is the `drb_strategy` of each join and expand node's plan. It
  starts as the planner chose it (`Strat`).
  - With `drb_enable_dynamic_omega` (`DynOmega`), `reconsiderStrategy` runs
    at the end of every phase 1 (`Fetches`).
  - If its switch test is true for the attribute, it sets both the
    operator's and the expand node's strategy to `DRB_DEFAULT`
    (`Reconsidered`). Whether the test is true depends on the observed
    selectivities, and the constant `Switching` gives it.
  - The switch takes effect in the middle of the pass. The operator's
    phase 2 already attaches values, while the expand node above has
    already entered `drb_expand2` under the old strategy.

**`DrbJoin`.** A row is its join key.
- The cache is a set of `registered` keys with their entries.
- `Fetch` is phase 1 as a whole:
  - spool and register (`tup_to_json`);
  - `drillbeyond_fill_msg`, which makes a request only if some unrequested
    entry has a non-NULL key;
  - `drillbeyond_request`, which resolves exactly the unrequested entries and
    synthesizes one NULL candidate for an empty response;
  - `reconsiderStrategy`'s reads of `selectivities`.
- `Emit` is one row of phase 2: lookup, preselection on `inUnion`, and the
  read of `values[db_current_origin]`.
- The two rescans are the branches of `ExecReScanDrillBeyond`.
- The environment chooses the outer rows of each scan and the resolver's
  candidate count (from `CandCounts`).
- A new hash entry is not zeroed. Until it is resolved, its `numValues` and
  `inUnion` are arbitrary, so the initial state chooses them.
- `Reoptimize` is the first call of `drb_top` with
  `drb_enable_reoptimization`, as a whole:
  - the fragment loop runs the operator once: phase 1, then phase 2 up to
    the first returned row, whose value slot is read (`FragmentRead`);
  - the manual rescan rewinds the tuplestore;
  - `reoptimize` replans the query. The new plan's target list (from
    `NewTls`) and outer rows are chosen by the environment;
  - `switch_plans` starts the new operator at digit 0 with the old
    `db_num_cands`. If `check_tl_subset` holds (`TlSubset`, which skips
    entries that are not Vars), it takes over the old tuplestore as
    fetched. Otherwise it starts unfetched;
  - `reconsiderStrategy` reads the selectivities.
  The cache belongs to the expansion and survives the swap.

**`DrbPlanner`.**
- The plan is a graph of node ids. `lt` and `rt` are `lefttree` and
  `righttree`, so the code's pointer assignments are `EXCEPT`s. The ids of
  new nodes are fixed per role: `MatId(parent, side)`, `Exp2Id(e)`, `TopId`.
- An input node carries only what phase three reads: its tag, whether it has
  quals, whether `plan_rows = 1`, and whether its initPlan, qual or joinqual
  holds a variable subplan (`drb_has_variable_subplan`,
  `contain_variable_subplans`).
- `MatPoints` is the recursion of `add_mat_nodes`. It descends into a
  variable child and wraps an invariant child for which `should_materialize`
  holds. `PlannerInit` applies it together with the `DRB_TOP` of lines
  575-577.
- One action per iteration of the `foreach` over `root->drb_expansions`:
  - `SkipSelective` is the `continue`;
  - `AggBranch` is the AGGREGATIVE branch;
  - `PlainBranch` is the NON_AGG branch.
  Both branches first step over a `Limit` and, when the attribute is sorted,
  a `Sort` (`Strip`). `FirstAgg` is `drb_pull_first_node`.
- `Finish` is `topPlan->lefttree = result_plan`.
- Execution set-up follows the planning:
  - `ExecInitMats` is `drb_collect_drb_mat_states`, called from the Expand2's
    init. It keeps in each DrillBeyond's list the Material nodes below its
    Expand2.
  - `RemoveMats` is `remove_mat_nodes`, called by `reconsiderStrategy` when it
    does not switch or there is one candidate. The plan nodes stand for the
    executor states that `ExecInitNode` builds one for one.
- The expansion flags come from phases one and two. `PhaseOne` is
  `drillbeyond_planner_phase_one` with its `drb_walker`: an input plan
  carries its query's target list, each entry as its `ressortgroupref`
  and its Vars (expansion, attno, under an Aggref or not), and the sort
  references of the ORDER BY. An expansion is `Aggregative` when its open
  attribute (attno 1) occurs inside an Aggref, and `Sorting` when it occurs
  in an entry the ORDER BY names; a join column (attno 2) or a column of
  another relation sets nothing. `selective` is phase two's "the relation
  has a restriction", chosen per expansion in `PlannerInit`.

**`DrbReconsider`.**
- Selectivities are integers in hundredths.
- `CodeShouldSwitch` is the code's test `score < big_omega_cost * 0.8`, with
  the divisions of the cost models kept as numerator and denominator.
- `SpecShouldSwitch` is the comparison of spec 4.5.

## Runs

| run | cfg | expect | shows |
|---|---|---|---|
| top | `MCDrbTop.cfg` | pass | 4 operators, 3 candidates, 32-bit budget, weak fairness: all 81 combinations once, in order, within the budget, then end-of-data (`TypeOK`, `PassesWithinBudget`, `EnumerationRefined`) |
| pipeline_default | `MCDrbPipelineDefault.cfg` | pass | three `DRB_DEFAULT` operators at depths 1, 2 and 3 with 4 candidates each (64 passes): each pass carries the current digits (`PassCorrect`), and every pass after the first starts with bit 128 set above each changed operator (`ChgCoversChangedOps`) |
| pipeline_dynamic | `MCDrbPipelineDynamic.cfg` | pass | a big-omega attribute above a selective `DRB_DEFAULT` one, switched to `DRB_DEFAULT` by `reconsiderStrategy` in the first pass, with 8 candidates (64 passes): every pass is right (`PassCorrect`) |
| pipeline_bigomega | `MCDrbPipelineTwo.cfg` | violation | the big-omega plan built by planner phase three for two attributes loses all rows in the second pass |
| join | `MCDrbJoin.cfg` | pass | two keys, up to two rows per scan, three scans, preselection on: with the fragment read and the plan swap, every lookup finds an entry the resolver filled (`LookupResolved`) |
| join_null_key | `MCDrbJoinNullKey.cfg` | violation | a scan whose new keys are all NULL makes no request and looks up unresolved entries |
| join_few_candidates | `MCDrbJoinFewCands.cfg` | violation | a response with fewer than `drb_max_num_cands` candidates makes the digit index past the values |
| join_swap | `MCDrbJoinSwap.cfg` | violation | after a swap that passes `check_tl_subset`, the new operator replays the rows the old plan's outer input produced (`StoreMatchesOuter`) |
| join_no_candidates | `MCDrbJoinNoCands.cfg` | violation | an empty response makes `reconsiderStrategy` read outside `selectivities` |
| reconsider | `MCDrbReconsider.cfg` | violation | the code's switch test disagrees with spec 4.5 |
| planner | `MCDrbPlanner.cfg` | pass | five plan shapes with their queries, two expansions, every choice of `selective` and the `aggregative` and `sorting` flags phase one derives, query level 1: the plan stays a tree with its original nodes, every Expand2 sits above its DrillBeyond, and every Material sits over an invariant subtree |
| planner_agg_second | `MCDrbPlannerAggSecond.cfg` | violation | `SELECT a1, sum(a2) ... GROUP BY a1`: the Expand2 of `a1` is left out of the plan (`ExpandCoversOp`) |

### Properties and what they catch

- `PassCorrect`: at the end of each pass, the top received the rows of the
  combination it is in. Violating it takes an advance, a targeted marking, and
  the rescans and pulls of several nodes.
  - It catches a replay of a stale tuplestore (the mutant
    `FetchedAfterAlwaysReplay`).
  - It catches a buffer cleared under a kept `materialized` flag (the
    violation run).
- `ChgCoversChangedOps`: before every pass but the first, bit 128 of
  `chgParam` is set on every node at or above the node that claims an
  operator whose digit the last odometer step changed. It relates the
  digits after the step to the marking made from `resetOps` before it: the
  changed operators are those up to the first nonzero digit.
  - It catches a `resetOps` that leaves out the operators wrapped to 0 (the
    mutant `ResetOpsIncrementedOnly`).
  - `ChgCoversChangedOpsHolds` proves it for every plan tree. The run
    `pipeline_default` checks it on one tree; the run `pipeline_dynamic`
    does not repeat it.
- `EnumerationRefined`: refinement of `DrbEnumeration`'s fair
  specification. No combination is repeated, the order is mixed-radix, and
  (the liveness part) every combination is eventually produced and
  end-of-data eventually follows. An `int` budget that overflows breaks it:
  with `IntBits = 6`, `pow(3, 4) = 81` becomes `INT_MIN`, the decrement
  wraps to `INT_MAX`, and end-of-data comes after 32 combinations. The run
  uses 32 bits, where the budget fits.
- `PassesWithinBudget`: no more than `pow(K, n)` passes.
- `LookupResolved`, `DigitInBounds`, `SelectivitiesInBounds`: the reads of
  the cache and of the selectivities are of initialized memory inside its
  bounds. The run `join` checks `LookupResolved`. `DigitInBounds` is only
  the property of the violation run `join_few_candidates`: when every
  resolver answer has `drb_max_num_cands` candidates, it follows from
  `LookupResolved`, and the case that matters is the one that breaks it.
- That a resolved entry never changes is not a property of its own. Only
  `Fetch` writes entries, and it takes the unrequested ones
  (`requests.c:91`), so such a property would restate that guard.
- `StoreMatchesOuter`: a fetched operator's tuplestore holds the rows of its
  current outer plan. A rescan keeps this, because it replays only when the
  outer plan did not change. The tuplestore transplant of `switch_plans`
  breaks it.

- `RewriteKeepsPlan`: the plan phase three returns is a tree below
  `outputPlan`. It holds every node phase three allocated. With the
  inserted nodes erased, it is the input plan. A lost relink breaks it (the
  mutant `FinishNoRelink`). The subquery cycle (the hazard at line 689)
  breaks it too: with `TopLevel = FALSE`, TLC finds it in three steps.
- `ExpandCoversOp`: every expansion that is not skipped has its DrillBeyond
  in `DRB_PLACEHOLDER` and its Expand2 in the plan above that DrillBeyond.
  This is what the pipeline needs to expand the placeholder tokens. A
  skipped expansion keeps `DRB_DEFAULT`.
- `MatsInvariant`: nothing below an added Material node varies with the
  candidates, Expand2 nodes included. It catches a Material over a variable
  child (the mutant `MatPointsNoVarTest`).

### Bounds

- **top:** 4 digits with radix 3. This reaches a carry through all four
  digits and the final wrap.
- **pipeline_default:** N = 3 with 4 candidates gives 64 passes. The three
  operators sit at depths 1, 2 and 3, so every combination of "replay", "my
  outer changed" and "normal rescan below a refetching operator" occurs.
- **pipeline_dynamic:** the plan `1 Expand2(1) -> 2 DRB(1) -> 3 DRB(2) ->
  4 Scan`. Without the switch this plan loses its rows as soon as digit 2
  changes, through the same `materialized` flag as pipeline_bigomega. With 8
  candidates the run crosses seven such carries. The mutant that switches
  only the operator, and leaves the expand node in `DRB_EXPAND2`, makes the
  expand node replay rows of the old digit.
- **pipeline_bigomega:** two attributes with two candidates is the smallest
  big-omega plan with two stacked Expand2 nodes.
- **join:** two keys and rows of length up to 2 over three scans. This lets
  new keys appear in a refetch after others were resolved, which is the case
  where a request covers only part of the cache. Reoptimization is on. The
  three possible new target lists are a plain subset, a subset only because
  a non-Var entry is skipped, and a non-subset, so both branches of
  `switch_plans` are taken.

- **planner:** two expansions are needed for every finding about the order
  of branches. There are four plans:
  - Limit, Sort and Agg over a nested loop with an invariant inner scan,
    which gets a Material;
  - a hash join, whose Hash is never materialized;
  - a semi-join whose inner side is an Agg, which gets a Material;
  - a join whose inner scan has a variable subplan, which must not get one.
  With every choice of selective, aggregative and sorting flags, each branch
  is taken in each position of the loop.

All these models are deterministic in their control. The plan is fixed. The
environment's choices are rows, candidate counts, the replanned target list
and the switch decision.

### Fairness

Only the run top assumes fairness: `TopFairSpec` is `TopSpec` with
`WF_topVars(TopNext)`. Execution is single-threaded and pull-based. A
query run to completion (`ExecutePlan` with no row limit) calls the top
node until it returns NULL, and each pass pulls the pipeline below it to
exhaustion. So a step of `drb_top` that is enabled is eventually taken. The
fairness does not cover a client that stops fetching from a cursor; the
liveness claim is for queries run to their end. Without the fairness TLC
finds the refinement violated by stuttering in the initial state. All other
properties are safety properties.

## Proofs

`DrbTopProofs` proves, for every `N >= 1`, `MaxCands >= 1` and int width
`IntBits >= 2` such that the budget fits into an int (`FitsInt`, i.e.
`pow(K, n) <= INT_MAX`):

- `TypeCorrect`: `TopSpec => []TypeOK`;
- `BudgetRespected`: `TopSpec => []PassesWithinBudget`.

`FitsInt` is a hypothesis of the theorems, not an assumption of the module,
because the overflow case is a real behaviour of the code (see
`EnumerationRefined`). Under it, the lemma `DecNoWrap` says the wrapping
decrement is plain subtraction on every counter value the loop tests.

Both rest on the inductive invariant `IInv`. It holds the type, plus the
budget accounting `Len(emitted) + tp = Budget + (1 if a pass just ended)`,
plus `tp >= 1` until the driver is done. `PassesWithinBudget` alone is not
inductive: the counter and the number of passes must be related for a step
to preserve it. `OdometerStepType` is the lemma that an odometer step keeps
digits in range.

The lemma `ResetOpsAreChanged` says that with at least two candidates,
`resetOps` is exactly the set of operators whose digit the odometer step
changes. The targeted rescan marks the operators in `resetOps`, so every
changed operator is refetched and every unchanged one may replay.

The provers know nothing about `^`. The fact that `pow(K, n)` is a positive
natural number is therefore the assumption `BudgetAssumption`, and that
`INT_MAX` is a natural number is `IntMaxAssumption`. TLC evaluates both on
every run of `MCDrbTop`.

`DrbJoinProofs` proves, for every set of keys, every candidate cap, every
row bound and every number of scans:

- `LookupResolvedHolds`: `JoinSpec => []LookupResolved`, assuming `NullFree`
  (no join key is NULL);
- `JoinTypeCorrect`: `JoinSpec => []JoinTypeOK`, with no assumption.
  `JoinTypeOK` is inductive by itself. The lemmas are `RowSeqsBounded` (an
  outer input is at most `MaxRows` keys) and `AttachType` (a value slot read
  from a spooled row is typed); they give the read position and the slot
  read by phase 2 and by the fragment run of the plan swap.

The assumption is exactly what the violation run `join_null_key` shows to be
necessary. `LookupResolved` is not inductive
as it stands. Its inductive strengthening `LInv` says:
- the spooled rows are keys;
- once phase 1 has run, every spooled row's entry is requested;
- the attached slot belongs to a requested entry.

The step that needs `NullFree` is `RequestMade`: a non-empty set of
unrequested keys always makes `drillbeyond_fill_msg` send a request.
The proofs cover the plan swap (`Reoptimize`) as well. The fragment read
finds a requested entry because phase 1 has run. A transplanted tuplestore
keeps only rows whose entries are requested, and the cache is not touched.

`DrbTopRefinement` proves, under the same `FitsInt`:

- `TopImplementsEnumeration`: `TopSpec => Enum!Spec`. `drb_top` emits the
  combinations in mixed-radix order, each once, and returns NULL only after
  the last. This is `EnumerationRefined` without its fairness.

The refinement mapping is that of `DrbTop`'s `Enum`: `produced` is
`emitted` and `closed` is `topPc = "done"`. A `TopPass` is a `Produce`, a
`TopFinish` is a `Close`, and an advance is a stutter. The argument rests on
the inductive invariant `RInv`. It extends `IInv` with three facts:
- while a pass runs, the combinations emitted are exactly those before the
  current digits in mixed-radix order `Before`;
- after a pass, the emitted ones are those before the digits and the
  digits themselves;
- `tp - 1` is the number of combinations after the digits.

So `TopAdvance`, which needs `tp - 1 > 0`, always has a successor to move
to. `TopFinish` fires exactly when none is left, and so every combination
has been emitted. The lemmas it rests on:
- `Before` is a strict total order on the combinations. Totality takes a
  highest differing digit (`HighestDifference`). That digit is the least
  element of a nonempty set of naturals (`LeastNat`), from
  `WellFoundedInduction`'s `WFMin` for `<` on `Nat`, with no induction over
  an operator.
- The odometer step is the successor in that order (`SuccessorStep`): the
  new digits come after the old ones, and nothing lies between.
- Nothing comes after a combination when no digit is below its maximum
  (`FirstBelowMax`).

The counting uses `CombosCountAssumption`: there are `pow(K, n)`
combinations. It is an assumption of `DrbTop`, like `BudgetAssumption`,
because the provers know nothing about `^`. TLC evaluates it on every run of
`MCDrbTop` and `MCDrbPipeline`.

`DrbPipelineProofs` proves, for every plan tree that satisfies the
assumptions of `DrbPipeline`, every `N` and every `MaxCands`:

- `PipelineRefinesTop`: `Spec => TopSpec`. Every pipeline step takes a step
  of `drb_top` on the driver's variables, or leaves them alone. It is a
  lemma about the driver's variables only. With `TopImplementsEnumeration`
  it says that the passes are run under the combinations in order, not
  that the pipeline delivers the right rows in them. That is `PassCorrect`,
  which the run `pipeline_bigomega` shows is not true of every plan.
- `ChgCoversChangedOpsHolds`: `Spec => []ChgCoversChangedOps`, with no
  hypothesis. The invariant only needs the digits typed to be inductive
  (`CInv`). Its key lemma is `ChangedWereReset`: every operator up to the
  first nonzero digit after an odometer step was visited by the step's loop,
  and so is in `resetOps`. The lemma takes the least position whose digit
  was below its maximum, again by `LeastNat`. The claimant of each operator
  depends on `strat`, which `Advance` leaves alone.

- `PipeTypeCorrect`: under `FitsInt`, `Spec => []PipeTypeOK`. The inductive
  invariant `PInv` is `IInv` and `PipeTypeOK` together: a pass stores what a
  node read, so the stores stay typed only if every node's output is typed
  in every reachable state. That is `OutType`, and its argument runs over
  the tree:
  - `OutStep`: a node whose children output typed rows (or none) outputs
    typed rows itself. It goes branch by branch through `NodeOut`, with
    `MergeType` for host nodes and `OuterIsKid` for the single child of an
    operator or expand node.
  - `OutType`: if some node output an ill-typed row, take the largest such
    node (`MaxNat`, from `FS_StrictSubsetOrderingWellFounded` and `WFMin`).
    Its children have larger numbers (`TreeAssumption`), so they are all
    typed, and `OutStep` contradicts.

  This needs the plan tree finite. `TreeAssumption` now says so
  (`IsFiniteSet(Nodes)`), which every plan is.

  The proofs use the defining equations of the recursive functions `Mode`
  and `Out` (`ModeType`, `OutDef`). tlapm takes such a definition
  `f[x \in S] == e` as the fact `f = [x \in S |-> e]`, without proving that
  a solution exists. Here one does exist and is unique, by recursion along
  the tree: `Mode[n]` reads only the parent, which has a smaller number, and
  `Out[n]` reads only the children, which have larger numbers, over finitely
  many nodes. The SMT backend gives up on the equation when the body of the
  function is large. This is why the body of `Out` is the separate operator
  `NodeOut`.

Only TLC checks the following:
- the liveness part of `EnumerationRefined`: every combination is
  eventually emitted, and end-of-data eventually follows. Liveness and
  `ENABLED` are out of the prover's reach.
- `PassCorrect`. It does not hold for every tree (the run
  `pipeline_bigomega`). A proof would need the exact condition on plan shapes
  under which a replayed or substituted row equals the current digits, and
  an induction along the tree over `Mode`, `StoreAfter` and `Reconsidered`
  together. That is beyond what `PipeTypeCorrect`'s argument gives.
- everything about `DrbPlanner`. It walks plan graphs with RECURSIVE
  operators, which take away the SMT backend of any module that reaches
  them.
- `SelectivitiesInBounds`, `StoreMatchesOuter` and the switch test of
  `DrbReconsider`. These are the properties of the violation runs, which the
  code breaks.

## Not modelled (yet)

- Material nodes in the pipeline models. `DrbPlanner` checks that they sit
  over invariant subtrees, so a Material only changes how a rescan is
  served, not what it returns.
- The expression trees of the target list (`PhaseOne` sees each entry as
  the set of its Vars, which is all the walk reads as long as Aggrefs do
  not nest, as SQL requires), phase two's split of the restrictions into
  `drb_qual` and the set-up of the cache's hash functions, pulled-up
  projection, and target-list edits.
- The plan swap for several operators at once, and `fix_join_cols`, which
  only renumbers join columns. `reoptimize` is the host planner; its result
  is an environment choice.
- Pulled-up selection predicates.
- Host nodes that do not pull all their children (hash and nested-loop joins
  with an empty outer).
- The resolver's JSON. Join keys are abstract values, with NULL as a key
  of its own, although the code takes a Datum of 0 for NULL. A response
  is applied entry by entry, although the code matches entries by their
  position in the hash iteration. A response without candidates is the
  model's zero-candidate answer, because the code makes it one. See the
  hazards at `drillbeyond_requests.c:67` and `:108` in `PROJECT.json`.
- Cost model, rewriting, EXPLAIN, debugging and sampling: these have no
  runtime state, or are I/O.
