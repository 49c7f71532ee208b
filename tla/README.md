# GPU-Presolver: a verification project

TLA+ models of the presolver's core, the TLC runs that check them on small
instances, and TLAPS proofs of what holds for every size. Paths are those of
the repository; `gpu_presolve.cu` and `gpu_postsolve.cu` stand for the files of
that name in `src/cpp/src/presolve/`, `rules/` for the directory below it.
`PROJECT.json` names, for every definition, the source lines it models.

## 1. The system

GPU-Presolver reduces a linear program

    minimize c'x + c0   subject to   AL <= Ax <= AU,   l <= x <= u

before a solver sees it, and afterwards turns a solution of the reduced LP into
one of the original. A host thread decides what runs; every rule is a handful
of CUDA kernels of one thread per row or column. There are no messages, no
persistence and no second host thread: what is hard is the order of the rules,
the threads inside a kernel, and a record that must be undone later, by other
code, in the opposite order.

### Components

| component | state it keeps | operations | correct when |
|---|---|---|---|
| Scheduler (`run_gpu_presolve_impl`, gpu_presolve.cu 2162-3370) | terminal flag, deadline, clean flags, iteration counter, nonzero counts | lambdas that run phases, repeat while something changes, and call each other | it ends; it stops early only at a fixpoint; nothing is committed after a verdict or (but once) after the deadline; a skipped rule would have found nothing |
| Batched singleton closure (2503-2831) | one plan over many rounds, degrees kept by subtraction, a snapshot of what dual fixing last saw | three rules in turn, then one compaction | incremental state equals recomputed state; the optimum is kept and recovered; verdicts are right |
| Plan application (apply_plan_to_working_lp, 2021-2125) | keep masks, prefix scans, compacted vectors and matrix | gather kernels, three ways to build the index maps, packing of fixed values | the maps name the column whose data sits in each slot; each fixed value recorded once |
| Presolve record (update_record_from_plan, 1535-1790) | index maps, fixed values, flat tape, payloads, timeline of checkpoints | rename a plan's records, append them, install new maps | every column that left can be brought back, by exactly one entry, from columns that were live then |
| Primal postsolve (postsolve_gpu) | the point under reconstruction, a replay range | validate, scatter, restore fixed values, walk tape and timeline backwards, expand payloads in parallel | it returns what undoing the plans one by one returns |
| Row rules (`rules/`: empty, singleton, redundant and duplicate rows) | activities, hash groups | drop rows, turn sides into bounds, merge sides, verdicts | the set of points stays what it was; a verdict is right |
| Column rules (fixed, empty, dual-inference, equality singletons, dual fix, duplicate columns) | owners of rows, colour counts, hash pairs | fix, drop, merge or solve for columns; append records | no optimum is lost; postsolve rebuilds a point of the LP at the reduced cost |
| Implied variable bounds | bounds over rounds, activities, groups, a preserve-free mask | rounds on one plan, a new plan after a fixing, a last row phase | the same points; each recorded bound has a row that implies it; free columns stay free |
| Doubleton equations | claims on columns, matched rows, a rebuilt matrix per batch | match, solve, rebuild, repeat; a scalar path with one target row | pivots are disjoint; the same points; the repetition ends |
| Component rules (antipodal, linf) | `parent[]`, edges, roots | concurrent union-find, quotient of the LP, payload | roots are the components; the quotient keeps the optimum |
| Dual postsolve (gpu_postsolve.cu 628-1723) | y, z, retrieved mask | a second replay of the tape on the final values, a projection of the reduced costs no record settled | the duals of an optimum of the last LP become duals of the optimum postsolve returns |
| Structural L1, model-wide projections | payloads, certificates | pattern scans, one substitution | only their records and their place in the schedule matter to the rest |
| Working LP and summary | borrowed and owned device buffers | hand-over, move, release | each buffer freed once, none used after |
| Statistics and plan buffers | degrees, singleton masks | recompute kernels, allocation by requirement | agree with the matrix |
| MPS reader, tools | - | parse, print | outside the presolver's logic |

### How they interact

The scheduler allocates a *plan* (a copy of the LP's vectors with every row and
column kept) and lets one or more rules edit it. If the plan changed something
and gave no verdict, it is *committed*: the record is updated with the maps as
they were, fixed columns are packed, the LP is compacted, new maps are
installed. Rules write to the record only through their plan, in the plan's
*local* indices; the record speaks of *original* ones. Ordinary records go to a
flat tape; structural and component reductions go to payload lists, and a
checkpoint ties each payload to the length the tape had. Postsolve gets the
record and a solution of the last LP.

Most plans hold one rule's work. Three hold more: the batched closure (three
rules, many rounds), the closure of implied bounds (rounds of one rule), and a
doubleton phase (batches, each on a matrix rebuilt under the masks of the
plan). There a rule meets masks, sides and costs that earlier rounds rewrote.

### What is hard, and where

* **Two index spaces.** A record renamed with the maps of the wrong moment
  reads another column. Three code paths build these maps.
* **Order.** Tape and payload lists are separate; only checkpoint positions
  keep them chronological.
* **Threads.** Compaction writes slots computed by scans; payloads are expanded
  in place by concurrent threads; pairs are joined by a lock-free union-find
  with plain loads; pivots are claimed by atomic minima over several rounds; the
  scalar doubleton path publishes eleven fields without synchronisation.
* **Stale facts.** Clean flags, incremental degrees, dual-fix candidates,
  activities from before a round, owners from before a matching round, skipped
  packing because another kernel's counter was zero, reduced costs that postsolve
  reads before it has computed them.
* **Chains inside one launch.** Duplicate columns merge into columns that merge
  again; bounds dropped because rows imply them must not certify each other.
* **Termination.** Loops nested four deep repeat while a callee reports change.
* **Time.** The deadline may pass between any test and the commit it guards.

`PROJECT.json` lists these hazards with their lines.

## 2. Modules

| module | models | composed of |
|---|---|---|
| `Ranks` | the rank of an index among kept ones: prefix scan of a mask | |
| `Sums` | the sum of the entries of a row, a column or a cost vector | |
| `MapCompaction` | one column-map compaction, thread by thread: gather kernel, dense loop, parallel pack, sparse ranges, GPU identity path, fixed-value packing | `Ranks` |
| `UndoLog` | what the record promises: one chronological log over original columns | |
| `PresolveRecord` | `update_record_from_plan` over any sequence of plans | `Ranks`, implements `UndoLog` |
| `Postsolve` | presolve followed by `postsolve_gpu`, thread by thread in the payload kernels | extends `PresolveRecord` |
| `Scheduler` | both schedulers with all their lambdas | |
| `SmallLp` | LPs over small integers, a plan as a record of masks, costs, bounds, sides, constant, tape and verdict; the replay of its records | `Ranks`, `Sums` |
| `SingletonRules` | equality column singletons, dual fixing, singleton rows as rewrites of a plan | `SmallLp` |
| `RowRules` | empty, singleton, redundant and duplicate rows, redundant bounds | `SingletonRules` |
| `ColumnRules` | fixed and empty columns, dual inference, duplicate columns, and their replay | `RowRules` |
| `RulePhases` | the phases of `run_row_phase` and `run_col_phase` | `ColumnRules` |
| `Matching` | the pivots a doubleton batch takes, as a function of the candidates | |
| `DoubletonMatching` | the matching kernels, access by access | `Matching` |
| `DoubletonRules` | what makes a row a candidate, and what solving a batch does to a plan | `RowRules`, `Matching` |
| `WorkingLp` | the LP presolve hands from routine to routine, and what postsolve makes of its points | `ColumnRules`, `DoubletonRules` |
| `DualReplay` | the dual pass over the tape and the projection after it | `WorkingLp` |
| `ImpliedBounds` | the closure of implied variable bounds: rounds, groups, limits | `WorkingLp` |
| `DoubletonBatches` | batches of a phase, phases of the routine | `WorkingLp` |
| `PresolveLoop` | phases, bounds closure and doubleton batches in any order on one LP and one record | `RulePhases`, `ImpliedBounds`, `DoubletonBatches`, `DualReplay` |
| `BatchedClosure` | the singleton closure's rounds, statistics, candidates and snapshot | `SingletonRules` |
| `DoubletonTarget` | the scalar doubleton path and its metadata, store by store | `DoubletonRules` |
| `Merging` | what a parallel connected-components pass promises | |
| `ComponentForest` | the concurrent union-find, access by access, with stale loads | implements `Merging` |
| `PairComponents` | both component rules on LPs of paired columns, and their recovery | `SmallLp`; uses the outcome `ComponentForest` is checked for |
| `IndexLemmas` | induction; what ranks, ascending lists, sums, ends of finite sets and rounds of the matching are, for every input | `Ranks`, `Sums`, `Matching` |
| `*Proofs` | theorems | the modules they name |
| `MC*` | instances for TLC | |

### How state and actions correspond to the code

**MapCompaction.** `red` is `col_red2org`, `keep` the plan's mask, `lpIds` the
ids the gather kernel moved into each slot of the new LP (slots hold `Garbage`
after allocation), `next` the map being built. An action is one thread of a
kernel (`todo` is the set that has not run, so all orders occur) or one pass of
a host loop. The identity path is allowed, as in the code, only while no column
was ever removed. `fixedSeen` is the atomic counter that decides whether the
packing kernels run at all.

**PresolveRecord.** A plan is any set of kept rows and columns with the records
one rule can append: units `{[to, from]}` that say which columns they compute
from which, or one payload. A rule's records mention columns live at its start.
`AppendTape`, `AppendPayload`, `AppendFixed`, `InstallMaps` are conjuncts of the one
action `ApplyPlan`, in the code's order: the old maps rename, the new maps
replace them. Values do not occur here; `Postsolve` adds them.

**Postsolve.** Values are symbolic terms: what a column holds is the expression
it was computed by, so equality of two points means equality of every step that
led to them. `Expected` undoes the plans one by one, each in the index space it
was written in. The kernels of a payload run one thread at a time in any order.

**Scheduler.** Each lambda is an entry of `Routines` (a loop kind and a list of
steps with the flags they need and set); the actions interpret it with a stack.
`StartPhase`, `RunRule`, `EndPhase`/`Commit` are a phase's statements;
`StartActivity ... Leave` the activity closure with its groups and rounds;
`StartClosure`/`EndClosure` the batched closure as its caller sees it. A rule
finds something or not, nondeterministically, but a rule that found nothing on
this LP finds nothing again (`quiet`): the rules are deterministic.

**The rules on small LPs.** A plan is a record with masks, costs, bounds, sides,
objective constant, tape and verdict; indices stay those of the LP presolve was
entered with (renaming is `PresolveRecord`'s subject). `Inf` is a number beyond
every other number of the models, and all tolerances are zero. A rule is one function of a plan: its kernels use
commutative atomics and an `atomicMin` for the owner of a row, and read only what
the rule's earlier kernels finished, so their order does not show; where it
would show (matching, union-find, target metadata) the kernels have a module of
their own. Everything but the doubleton rule divides by 1 or -1 only (`Unit`). The tape
holds every record that one of postsolve's two passes acts on. Rows dropped as
redundant or empty, relaxed sides and bound changes that name no row have records
that neither pass acts on; those are left out.

**BatchedClosure.** `EqStep`, `MarkStep`, `DualStep`, `RefreshStep`, `RowsStep`,
`EndRound`, `Finish` are the loop's statements, and `Expire` may happen between any
two. The stopping test is evaluated where the code evaluates it.

**WorkingLp, PresolveLoop.** `current` is the working LP together with the record
made so far. `RunRowPhase`, `RunColPhase` run a phase and commit it; `RunBounds` and
`RunDoubletons` call the two routines that hold a plan over several rounds, whose
own actions follow; `LastPhase` is the single phase of redundant bounds. Which
order the scheduler picks is `Scheduler`'s subject: here any order is allowed.
`Recovered` is postsolve: kept columns, columns with one value left, then the tape
from its end; the reduced cost that a duplicate-column split reads too early is a
parameter that properties quantify over.

**DualReplay.** A replay state is `[x, y, z, got]`: the final values, row duals, reduced
costs, and the columns whose reduced cost is there (`z_retrieved`). Each record type
is one function of a record and a state, the branch of the code's switch for it.
As in the code, a handler has the *user's* LP and the *final* values, not those its
record was written on. `Protected` is the mask of columns whose reduced cost a record
has settled, `Projection` what happens to the others, and `RecoveredAll` the whole of
`postsolve_gpu`: the primal pass, the dual pass, the projection.

**ImpliedBounds.** `plan`, `nnz`, `structural`, `changed`, `changedAny`, `rounds` and
`boundOnly` are the closure's locals; a round is one action that computes all
columns from the bounds it was entered with. A record names the smallest row
that implies the new bound, or none.

**DoubletonMatching.** `pcs`, the claims and the owners are the arrays of the
matching kernels; each row is a thread whose loads, `atomicMin`s and stores are
separate actions, and a kernel boundary waits for all of them. `DoubletonBatches`
uses what `TakesTheMatching` establishes: the rows taken are `Matched`.

**DoubletonTarget.** A row that lowers the target index stores its metadata field by
field; the fields of two rows mix in any way their stores can be ordered.

**ComponentForest.** `held[v]` is the set of values a plain load of `parent[v]` may
return: everything the cell held since its last write was published. A
compare-and-swap sees the last value. `Publish` makes the last write the only one,
as does a kernel boundary.

**PairComponents.** Rows are kept up to a nonzero factor, because the code scales
some of them by a coefficient or a weight. `Root` is the smallest pair of a
component, which is what `RootsAreComponents` says the union-find leaves.

## 3. Runs

| run | question | instance | states |
|---|---|---|---|
| `map_compaction` | Do all paths build the map of what was gathered? Is the exception unreachable, are slots written once, fixed values recorded once? | all maps, masks and coinciding sets of up to 4 columns | 0.03 M |
| `postsolve` | Does the record implement `UndoLog`, are maps and recorded names right, is the returned point the one the plans promise, does replay end and go strictly backwards? | 2 rows, 3 columns, two plans | 0.75 M |
| `scheduler` | Do both schedulers end, stop only at a fixpoint, and keep flags, deadline and verdicts right? | every rule enabled, three commits, two levels of nonzeros | 0.5 M |
| `closure` | Degrees, candidates, verdicts, optimum kept and recovered in the batched closure | `TwoColumns`: all 2x2 matrices over -1, 0, 1; `ThreeColumns`: all 2x3 over 0, 1 | 1.3 M |
| `presolve_loop` | Point recovered, duals recovered, optimum kept, verdicts right over all rules together | eight families of up to 3 rows and 4 columns, below | 0.18 M |
| `doubleton_matching` | Are pivots disjoint, whatever the order of the threads, and is the outcome always the same? | 4 rows over a path of columns and a chord | 1.2 M |
| `component_forest` | Is the union-find right under any order and any stale load, and does it end? | every graph of 3 edges on 4 pairs | 0.8 M |
| `pair_components` | Does the quotient keep the optimum, and do roots copied back give points of the LP? | two antipodal pairs, three in a chain, two under the linf rule | 0.6 M |
| `closure_one_compaction`, `closure_finite`, `pair_components_fixed_root`, `doubleton_target_race` | refuted, see Findings | | |

All passing runs hold, each in about two minutes or less. `CHECK_DEADLOCK FALSE`
is set where a module models a computation that ends; `doubleton_matching` has an
explicit terminal step and is checked for deadlock.

The families of `presolve_loop`: `Small`, every 2x2 matrix over half-bounded and boxed
columns through three phases of any kind; `ParallelColumns`, chains of duplicate
columns under one hash; `ParallelThree`, three parallel or colliding rows whose sides
nest, cross or miss each other; `Bounds` and `BoundChains`, bounds implied by two rows
and bounds that imply bounds; `TwoPivots` and `OnePivot`, doubletons that share a
column or do not; `Mixed`, all kinds of routines in turn on one LP.

### Bounds, and why they are enough

* *Sizes of the record models.* Compaction is decided by one column, its
  predecessors and the ends of ranges: four columns give two ranges with a gap,
  an empty range, both ends. The record is decided by pairs of plans. Beyond
  these sizes the maps are covered by the proofs. An antipodal payload whose
  members include a pair other than its root needs four columns and is beyond
  the run's three; recovery of such components by value is in `pair_components`.
* *MaxPlans, MaxRecords, MaxSupport* bound the length of a presolve run.
* *MaxCommits, MaxIters, MaxRounds, MaxBoundOnly, MaxNnz* (Scheduler). Three
  commits are enough for a commit, its clean-up and one after it. `MaxCommits`
  stands for a measure every committed plan decreases (rows, columns, finite
  sides and bounds), and is the one assumption `Ends` rests on: rounds that only
  tighten bounds are limited by the code itself. With fewer than twenty
  nonzeros the ratio 0.95 of `_has_good_nnz_progress` is "strictly fewer".
* *Box*: points are looked for in `-Box..Box`; all sides and finite bounds of the
  instances are at most 2, and an activity of two or three such columns fits.
  Where "no optimum is lost" is asked, the points of the user's LP are those of
  the unit box and those of the reduced LP of the whole one, so that a better
  point just outside is not called lost.
  The same box bounds the row duals that `RecoversDuals` starts from.
* *Inf and Largest*: the code's infinity is a floating-point one, the models' a number
  (10000000) with tests for it where the code tests. It must never be reached by
  arithmetic. `Largest` bounds the finite bounds and sides a closure starts
  from; every column that leaves may add each bound to each side, so N + 1 times as
  much is the most a number can grow to, and as much again when it comes back.
  `InfIsFar` assumes that `Inf` lies beyond what N of either can reach, and the
  proofs show that this is enough.
* *phases* (a family's field) and `phasesLeft` bound how many phases follow one
  another; three are enough for a phase, one that meets its work, and one after it.
* *Unit* (WorkingLp): phases other than doubletons start only when coefficients are
  1, 0 or -1, because the rules divide; `LeaveUnits` ends a run of batches whose next
  pivot is not 1 or -1. Fill-in coefficients other than that occur, are checked
  by the properties, and are where such a run ends.
* *MatchingRounds, MaxBatches, MinSelected, MinPercent* are the code's limits with
  small values; each of them is reached.
* *PairCount, EdgeCount*: two edges give one failed compare-and-swap, three a chain of
  hooks that meets a halving; four pairs allow a path of length three.
* *Precondition.* LPs enter with l <= u. Crossed bounds are what the empty-column
  and fixed-variable rules report; merging duplicate columns or swapping bounds
  through a negative doubleton pivot before that would hide the crossing.

### Fairness

* `postsolve` and `scheduler` have weak fairness on the union of the host thread's steps: the host thread keeps running and its kernels end. Threads of
  a kernel are steps of that union, and no single thread is scheduled specially.
  The passing of the deadline has no fairness: `Ends` holds when it never comes.
* `component_forest` has weak fairness for each thread of the running kernel, for the
  next kernel, and for `Publish`: on the GPU every resident thread advances, and a
  write reaches the caches eventually. Without the last, a thread could retry for
  ever on a stale load; this is what the loop's own plain loads rely on.
* The closures and batches have no liveness property of their own but state the
  measure that makes their loops end: `RoundsShrink` (a further round of the batched
  closure removed a row or column) and `BatchesShrink` (a batch that changes anything
  removed a column; the single-pivot path, used when `doubleton_equations_scan` is off, is not
  repeated in any model). The closure of implied bounds is limited by its counters.

### What the runs show

Worth knowing beyond "no error":

* `OneLateCommit` is tight: a plan under construction when the deadline passes is
  still committed. The README's "soft time limit ... checked between presolve
  phases" says as much.
* `FastNeverEnds`: the exit `if (!changed_iter && fast_phase) break` (gpu_presolve.cu
  3360) can never be taken. Where it is reached after a fast phase, `fast_phase` says
  that nonzeros were lost, which no unchanged cycle does; after a medium phase
  an unchanged cycle has already left the loop.
* `VerdictIsRight` of the closure: what it calls infeasible has no point
  (`InfeasibleIsRight`); in what it calls unbounded every point is undercut by one that
  comes back from the reduced LP (`UnboundedIsRight`).
* `StatsAreLive` and `CandidatesComplete`: the closure's two shortcuts are exact. The
  second one needs the snapshot to be taken *before* the sweep, as the code's
  comment says, and rows that were removed to count as changed.
* `RecoversPoint`, `NoOptimumLost` together: after any sequence of phases the reduced LP
  has the optimum of the LP presolve was entered with, and postsolve finds a
  point of it, whenever no column was fixed at an infinity.
* `RecoversPoint` quantifies over the sign of the reduced cost that the split of a
  duplicate column reads before the dual pass has computed it (gpu_postsolve.cu 651):
  the split is right whatever it reads.
* `RecoversDuals`: an optimum of the reduced LP *with its duals* comes back as an optimum
  of the user's LP with its duals, complementary row by row and column by column,
  on every tape that satisfies two conditions. Both are about what the rules
  record, and no rule sees to either; the repository says as much
  (README.md 87-88: "Postsolve does not guarantee dual feasibility or
  complementarity"), so their failing is no finding.
  They tell the reader when the duals may be relied on:
  - `Accounted`: every column that left has a record that settles its reduced cost from
    all its rows. This fails after infinite fixes (the reduced cost is set to zero),
    after dual inference, for columns fixed by implied bounds or by a doubleton
    (their reduced cost is left to the projection, which has only their bounds to
    go by), and for a doubleton whose eliminated column is in other rows: the
    record lists no support, so the dual of the doubleton row misses their share.
  - `ReplayedAsWritten`: no record is replayed against an LP or values it was not written
    on. The handlers compute activities and residuals from the user's LP, so a
    deleted row, a duplicate row or a bound change recorded after a substitution,
    a doubleton or a merge of columns meets coefficients its rule never saw;
    likewise a duplicate row recorded after a column was fixed (the sides it kept
    had the fixed value subtracted, the activity it is compared with has not),
    and a doubleton after a merge.
* `SamePoints`: rounds of implied bounds and batches of doubletons change no point at
  all, also when the clock stops them between two rounds. Rows they empty are
  checked before they go.
* `SupportRowsImply`: the row a bound change names still implies it after the bounds of
  the whole batch are merged, because a round reads only the bounds it was
  entered with and the record is cut at the column.
* `TakesTheMatching`: the racy loads of the selection kernel do not make the outcome
  depend on the schedule: a row that sees itself in both cells is the minimum.
* `has_row_action` is overwritten by each doubleton batch (rules/rule_doubleton_equations.cu
  1673) rather than accumulated. This is harmless, since its one reader
  (gpu_presolve.cu 2943) never follows a batch.

### Findings

1. `OneCompactionRecovers` (batched closure, only above ten million nonzeros). The
   record of an infinite dual fix takes a row's side from the plan, where a
   finite fix of an earlier round has already subtracted its column, and lists
   the whole original row. Replay subtracts the fixed column again. Row
   x1+x3+x4 >= 2 with x1 fixed at 2 in round one is recorded as "0 - x1 - x4" for
   x3, and likewise for x4: replay gives x4 = -2 and then x3 = 0, so the recovered
   x1+x3+x4 is 0. With one rule per plan the sides are those of the LP, so the
   rule is right outside the closure; the comment at gpu_presolve.cu 2503-2505
   claims that one compaction preserves the tape.
2. `RecoversFinite` (same closure). In x1+x2 = 1 with free columns without cost, x1 is
   solved for and takes the row with it; x2, now without rows, is fixed to minus
   infinity with no row and no bound to bring it back. Postsolve returns
   infinities. Elsewhere `empty_cols` takes such columns first.
3. `pair_components_fixed_root` (rules/rule_linf_components.cu 616). The root column of a
   component with equal bounds other than zero is dropped, while the rows that
   contain it keep their sides: the reduced rows lose a constant. The same
   property holds in `pair_components`, whose linf families have no such bounds.
4. `AnyRowsAreExact` (rules/rule_doubleton_equations.cu 343, the scalar path). Rows that
   lower the target index in turn each store eleven fields with plain stores; the
   next kernel may take the row of one and the columns or the coefficient of
   another. The batch path has no such metadata and is not concerned.

## 4. Proofs

Checked by TLAPS, for all values of the constants.

**MapCompactionProofs** (from `N0Assumption`: `N0` is a natural number).
`CompactionMatches` is `Spec => []MapMatchesLp`, `CompactionNeverThrows` is `Spec =>
[]NeverThrows`. Neither formula is inductive: they speak of the end only. The
invariant `IInv` of `CompactionInvariant` says at each point how far each kernel and
loop has come: `Gathered` (every slot of a thread that has run holds its column),
`HostStart` and `DenseInv` (the dense loop has copied exactly the kept among its
first k-1 columns, hence never finds a count mismatch), `PackInv` (kernel threads
have packed the removed columns by rank), `SparseInv` (what has been copied is the
image of the prefix before the next removed column), `IdentityInv` (slots of
finished threads hold their own index, which is the original one because no
column was ever removed), `ResultInv` (the outcome). Its arithmetic rests on
`IndexLemmas`: the rank of a kept index is positive, at most the count, strictly
increasing, onto, and steps by one; these follow from cardinalities of
intervals.
`CompactionRecordsFixed` is `Spec => []FixedExactlyOnce`. Its invariant `FixedInv` adds that
the identity kernel's counter is zero exactly while every fixed column is still
to be visited (`SeenInv`: a skipped packing loses nothing), that the packing
kernels have stored each listed column they visited at its rank (`ListInv`), and
that the host loop has recorded exactly the fixed columns of smaller rank, in
increasing order (`AppendInv`).

**PostsolveProofs, the record** (from `RecordAssumption`): for any LP and any number of plans
of any size,

* `RecordMapsMatch`: both maps name the original row and column of every slot of the
  working LP, in increasing order. The invariant `MapsInv` adds the typing of the
  maps and that the record's counts are their lengths, which the next compaction
  reads.
* `RecordInvHolds`: the invariant `RecordInv` everything else rests on: `RecordTyped`
  (entries speak of original columns only), `Chronological` (checkpoints ascend and stay
  inside the tape), `Numbered` (a payload has exactly one checkpoint, in the order of
  its kind) and `FixedLeft` (a column with a recorded value is no longer live).
* `RecordIsAccepted` (`RecordAccepted`) and `RecordRowsRenamed` (`RowsRenamed`).
* `RecordImplementsUndoLog` (`ImplementsUndoLog`): the refinement. `LogOf` merges the flat
  tape with the timeline, so the core of the argument is where a checkpoint and a
  record land in it (`LogIndex`, `LogAtCheckpoint`, `LogAtRecord`), and that a plan only
  appends: `PayloadAppends` and `TapeStepAdds` say that the log after a commit is the
  log before it and the plan's entries, renamed. What remains of each clause of
  `Commit` follows from what a plan may hold (`PlanFacts`) and from the maps being
  injective (`RenamedUnit`).
* `UndoLogAccounted`: in every behaviour of `UndoLog` over the record's columns each column
  is live, fixed, or eliminated by exactly one entry; `RecordAccounted`: hence in every
  behaviour of the code's record.

**PostsolveProofs, postsolve** (from `RecordAssumption`), on top of the record: for any LP, any
number and size of plans, any point and any order of the threads,

* `PostsolveRecovers` (`RecoversSolution`): postsolve returns the point that undoing the plans one
  at a time gives;
* `PostsolveInOrder` (`LastInFirstOut`): the entries are undone from the last to the first;
* `PostsolveKeepsRecord` (`PSpec => Spec`): postsolve never writes the record, so every theorem
  about the record holds throughout;
* `PostsolveInvHolds`: the invariant, which also says that no phase ever throws.

The records of a plan, the kernels of a payload, the entries of a log and the plans
of a run are all folds (`Run`), which split and agree where their steps do. The argument
has three parts. *Index spaces*: undoing a plan on its own columns and replaying its
entries on original columns do the same, column by column, through the map of that
moment (`Spread`, `RecordsRenamed`, `KernelsRenamed`); it needs that a column of the plan is
written by one entry and that the map is injective. *History* (`HistoryInv`): after
every commit, replaying the whole log equals undoing all plans committed so far,
for every point of the live columns; a commit appends to both (`CommitUndone`). *Walk*
(`WalkInv`): in each phase, what is left to be undone makes of `x` the final point;
inside a kernel of several threads, those still to run make of `x` what the kernel
makes of the point it started from, in whatever order they come, because no two
write the same column (`KernelLeaves`), and the component kernel reads its cache and not
`x`. One bound of the model stays in the theorem: `StructuralPayloads` has one member per
role, so the kernels of a structural payload have one thread, while those of a
component have any number. `HistoryInv` quantifies over all points, so TLC does not evaluate it; it
checks the two properties it is there for.

**SchedulerProofs** (from `SchedulerAssumption`): every safety property of the run `scheduler`,
for any limits and any set of enabled rules. The scheduler is an interpreter with
a stack of lambdas, so the first thing proved is its wiring: which lambda can
call which, where its callers are then, and what a return hands up
(`WellFormed`). On it rest

* `VerdictStands` (`VerdictIsFinal`) and `DeadlineStops` (`OneLateCommit`);
* `FalseIsTrue` (`FalseMeansUnchanged`), whose invariant says of each frame of the stack
  that the reports it has collected so far cover all commits since it was entered,
  the pending result of the frame above included;
* `FastGivesWay` (`FastNeverEnds`): a fast cycle whose reports are all false left the
  nonzero count where it was;
* `CleanIsRight` (`CleanMeansQuiet`): between a phase that found nothing and the statement
  that marks the rule clean no plan is committed;
* `StopsWhereNothingIsFound` (`StopsAtFixpoint`), the longest: for each frame of the fixed
  scheduler the invariant names the rules that the statements executed since the
  last commit have found quiet (`PhaseInv`, `RoundsInv`, `Quiets`), that a lambda whose
  report is false keeps what its callers had found (`ReportInv`), and that a stop by
  verdict or deadline excuses all of it (`VerdictInv`). `QuietInv` and `CountInv` were
  checked by TLC on the run's instance before they were proved.

**ComponentForestProofs** (from `ForestAssumption`: the counts are natural numbers).
`ForestAlwaysDescends` is `Spec => []ForestDescends`: no parent is ever above its child, so
the forest has no cycle, for any number of pairs, edges and threads and however
stale their loads. The formula alone is not inductive, since a thread carries
values it loaded earlier into its next compare-and-swap. `IInv` adds that
everything a load may still see is at most the cell it is loaded from, that the
last value is among it, and `Descending`: each local of a thread is at most the
vertex its search started from. `ForestTyped` is the type invariant: no kernel
indexes outside `parent[]`.

`RootsFound` (`Spec => []RootsAreComponents`) and `ForestMerges` (`Spec => OnlyMerges`, the
refinement of `Merging`) rest on `ForestInvariant`, which says how the threads, the
cells and the trees keep together although every load may be old:

* `Cells`: while edges are hooked a cell has only ever held pairs of the tree it is
  in now, and a root's cell only itself; while paths are compressed the roots no
  longer move, so what a cell ever held has the cell's root;
* `Walks`, `Joins`, `Flattens`: a search stays in the tree of the pair it started
  from; a pair a thread saw pointing to itself and that no longer does has been
  hooked meanwhile; what a compressing thread is about to store is the root;
* `Trees`: a set of pairs that every edge lies inside or outside of holds each tree
  whole, and the ends of an edge whose thread is over are in one tree.

A halving moves a cell to an ancestor (`RedirectKeeps`), a successful hook hangs one
tree below another (`HangMoves`), so under the partition every step is a stutter or
one merge. The reference `Component` grows along edges for `PairCount` rounds; that it
has stopped growing by then is counted by cardinality. `ForestInv` was checked by TLC
on instances of three pairs with three edges and four with two before it was proved.

**DoubletonMatchingProofs** (from `MatchingAssumption`). `MatchingDisjoint` is `Spec =>
[]PivotsDisjoint`: no interleaving of any number of rows gives a column to two
pivots. The invariant separates two kinds of taken rows (`RowInv`): those of this round
own both their columns, and a column has one owner; those of earlier rounds are
`Settled`: their columns are blocked and nobody owns them, because a claim skips
blocked columns (`ClaimsFree`). `LaunchPcs` says which statements a thread can be at in
each kernel. `MatchingTyped` is the type invariant.

`MatchingDetermined` is `Spec => []TakesTheMatching` and `MatchingMaximal` is `Spec =>
[]LeavesNoFreeRow`. Both follow from `MatchInv`: an owner cell holds the minimum of the
claims made so far, all of rows that are free (`OwnerInv`), and the rows taken are
those of the rounds that have ended and the winners of this one that have got to
their store (`TakenInv`). A winner owns both its columns, and two winners share none,
so a row that another thread blocks under the eyes of a selecting thread was not a
winner, whatever it loads. A round with a free row takes one, the smallest, so after as
many rounds as rows none is free.

**BatchedClosureProofs** (from the assumptions of `BatchedClosure` and the modules under it),
for any LP, any families, number of rounds and moment at which the clock stops them:

* `ClosureStatsAreLive` (`StatsAreLive`): degrees kept up by subtraction are those of the live
  matrix, and the masks name its singletons. `StatsInv` says that the statistics are
  exact for the masks of the last refresh (`Counted`, one definition for rows and
  columns), and that these are the plan's masks where a rule reads them, unless the
  loop has stopped.
* `ClosureCandidatesComplete` (`CandidatesComplete`): `SweptInv` says that for every column left
  the snapshot of the last sweep has the fate "keep". `FateReads` is the reason why
  it is enough to look at changed columns: it names all that a fate is read from.
* `ClosureRoundsShrink` (`RoundsShrink`): `RoundsInv` pays each round that asks for another with
  a row or a column that has left.

Of the rules these proofs use only that they remove rows and columns, leave the matrix
alone, keep a verdict, and that a sweep without a verdict leaves only columns to keep
(`EqShrinks`, `DualFixShrinks`, `RowsShrink`). `ClosureInv` was checked by TLC on the instance of
the run `closure` before it was proved.

The second half of the module is about the numbers, for any LP with coefficients -1,
0 and 1 (`FamiliesAssumption`) whose numbers stay clear of `Inf` (`InfIsFar`):

* `ClosureRecoversFeasible` (`RecoversFeasible`): a point of the reduced LP comes back as a point
  of the LP, unless a column left by an infinite fix, and costs what the reduced LP
  said. Finding 1 is why the exception is there;
* `ClosureLosesNoBetterPoint` (`NoBetterPointLost`): every point of the LP is one of the reduced
  LP at no more cost there. Together: the optimum is kept;
* `ClosureVerdictIsRight` (`VerdictIsRight`): an LP called infeasible has no point, and in one
  called unbounded every point is undercut by one that comes back;
* `ClosureValuesInvariant`: the invariant under all of them.

The invariant `ValuesInv` states what a plan in the middle of the closure *means* for the
LP the closure was entered with, so that a rule only has to be compared with the plan
it was given, and rounds and their number disappear. `Comes` is the way back:
replaying the tape from any point of the plan gives a point of the LP at the same
cost. `Goes` is the way there: a point of the LP is a point of the plan at no more
cost. `TapeLeft` says that no record computes a column that is still live, without
which a later round would be undone by an earlier record. `Data` and `Reaching` bound the
numbers: k columns that left have multiplied the largest finite one by at most
(N + 1)^k (`Reach`), and a point coming back may grow once more by as much for each
column (`Spread`); without them a finite bound could become `Inf` by addition and be
read as none. `RowsReady` says that the singleton mask is fresh where rows are turned
into bounds. `ComesBack` and `GoesOn` reduce the step of a rule to two statements about it alone;
one lemma each proves them:

* `SingletonRowsKeep`: a row with one column left says what its two bounds say, and
  the bounds of all such rows of one column meet in the largest and smallest;
* `DualFixKeeps`: putting columns at the ends their costs prefer can only loosen the rows
  that stay, and replaying a `FixedCol` gives each its value;
* `EqKeeps`: solving a row for a column moves its cost to the others (`MovedCost`), the
  objective does not change for any point of the row, the bound of the column that
  the row does not imply becomes the one side left of the row, and the record's
  solution satisfies both again.

`VerdictIsRight` needs one more conjunct, `UnboundedInv`: once the verdict is "unbounded", the
plan has a column whose cost is lowered by a step of one (`Escapes`), with neither its
bound nor a row it is in to stop it (`OpenEscapes`). A point of the LP goes to a point of
the plan at no more cost, the step goes to a cheaper one, and that one comes back; so
it is undercut, though the plan may have left the ray to columns long removed.

Sums over a row are folds (`Total`); that they split, agree and are ordered where their
terms are, is in `IndexLemmas`, by induction over their length; what activities and replays
are is in the first part of the module. The invariant quantifies over
all integer points, so TLC does not evaluate it: it checks what it is there for, on
the points of the box.

**PresolveLoopProofs** (from the assumptions of `PresolveLoop` and the modules under it; the
matrices of the families have integer coefficients, of any size), for any LP, any limits
and any order of row phases, column phases, bounds closures and doubleton batches:

* `LoopTypes`: the working LP stays an LP over integers, with masks of the rows and columns
  there are; the closure and the batches are never both under way;
* `LoopOnlyRemoves`: no step brings a row or a column back;
* `LoopRoundsTighten`: no round of implied bounds loosens a bound;
* `LoopFreeStaysFree` (`FreeStaysFree`): a closure boxes no free column in;
* `LoopBatchesShrink` (`BatchesShrink`): a batch that counts as progress has removed a column,
  which is what lets the loop over batches end.

A rule enters by one lemma, that its plan *shrinks*: the masks are subsets of what they
were and the numbers still integers (`RedundantRowsShrinks`, `DuplicateColumnsShrinks`,
`RewrittenShrinks`, ... one per rule, `RowPhaseShrinks` and `ColPhaseShrinks` for the
phases). Where a rule is a loop over pairs or over the bounds of columns (`DuplicateColumns`,
`RedundantBounds`), the model is a recursive function and the lemma that it *is* the
function its recursion describes is proved by induction (`WorksExist`, `DropsExist`). For a
batch of doubletons, what a column or a row gets from the pivots is a sum over pivots
with a row each (`AtIs`, `NewCoefIs`, `ShiftIs`, `CostsAre`).

The invariant is `LoopInv`: `LoopTypeOK`, and, between the rounds of a group, `GroupInv`. The
plan of a group has the costs of the LP the group started from, and each of its
columns is `Open`: if it was free and without a cost in that LP, it is not boxed in. The flag that preserves it is asked about the LP the group
started with, and the bounds about the plan, so the two have to be carried through
all rounds of the group together. `RoundStep` is the argument for one round: a preserved
column keeps its bounds; one that would end with both bounds finite either has them
cross, and the plan is infeasible, or meet, and the column is fixed and leaves, or has a
bound that was finite before. A batch that is not skipped has taken at least one pivot
(`MatchedRounds`, of `IndexLemmas`); its eliminated column, or its kept one if that is
fixed, was live and is removed (`SolveBatchStep`).

**Induction.** Library theorems that take a predicate as a parameter cannot be
instantiated, but the least-element form of induction can be stated with a set
(`LeastMember`, `NatSetInduction`, `IntervalInduction` in `IndexLemmas`), and is used
throughout.

**Only model-checked:**

* liveness (`Ends`, `Finishes`, `PostsolveEnds`), which with `ENABLED` is outside the prover;
* `RecoversPoint`, `NoOptimumLost`, `VerdictIsRight`, `RecoversDuals`, `SamePoints` and `SupportRowsImply`
  of the loop. An infinite bound is a large number in the model, so for arbitrary integers
  they are false: arithmetic on bounds could reach it. The closure's invariant bounds its
  numbers (`Reaching`); the doubleton rule divides and fills in, which N alone does
  not bound, so the argument would have to be made anew for each of some thirty rules;
* `RecoversFeasible` of `PairComponents`, which is false in general (the finding on a root that
  is fixed), and `NoBetterOptimumLost` there and `NoOptimumLost` of the loop, which compare
  optima within boxes: TLC needs the boxes, and beyond the instance it is not what holds.

## 5. Not modelled, and why

* *The rest of the dual replay.* The `FmeCol` branch (a column eliminated between
  inequalities), whose record no rule writes; postsolve called without the user's
  LP, which skips most handlers; duals after a payload (structural and component
  reductions have no dual replay: their columns are left to the projection).
* *Structural L1 detection and the model-wide projections.* Scans for a few fixed
  dense numeric shapes (sums over hundreds of rows, cover costs, hulls of two
  rows, McCormick blocks), with no instance small enough to enumerate. Their
  payloads, replay and place in the schedule are modelled.
* *Ownership of device buffers.* One sequential chain of assignments; no branch
  depends on another actor.
* *CSR compaction and transpose, statistics kernels.* The LP is a matrix with
  masks here; the index maps that these kernels share are in `MapCompaction`.
* *Cost and size gates* of certificates (work caps, minimum nonzeros) other than
  those named above: they only skip work.
* *Floating point*: tolerances, rounding, cancellation. The LPs of the models have
  integer data on which every operation is exact.
* *`int32` overflow of offsets*: the number of records and of payloads is guarded by
  throws, the offsets of a record's indices and values (gpu_presolve.cu 1402) are not; both
  are out of reach of small plans.
* *CUDA failures*: every call throws on error and presolve is abandoned.
* *The MPS reader and the command-line tools*: sequential input and output.

## 6. Plan

In order; each comes with mutated definitions that its properties refute and map
entries.

1. **Theorems**: the values of the row phases and of the implied bounds, which are made of the
   same lemmas as the closure's, for numbers that stay below `Inf`.
2. **CSR compaction and transpose**, thread by thread, refining "the matrix
   restricted to kept rows and columns"; composed with `MapCompaction`.
3. **Structural L1**: detection of the block structure that its payload relies on.
