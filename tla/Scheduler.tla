----------------------------- MODULE Scheduler -----------------------------
(***************************************************************************)
(* run_gpu_presolve_impl: which rule runs when, on which LP, and when it   *)
(* all stops.                                                              *)
(*                                                                         *)
(* The scheduler is a family of lambdas that call each other, repeat       *)
(* themselves while something changes, and share a terminal flag, a        *)
(* deadline that may pass between any two statements, two "clean" flags    *)
(* and the working LP.  The lambdas are the entries of Routines, as        *)
(* sequences of steps; the actions interpret them with a stack of frames.  *)
(* What a rule finds is nondeterministic, but a rule that found nothing    *)
(* finds nothing again on the same LP (variable quiet).                    *)
(***************************************************************************)
EXTENDS Naturals, Sequences, FiniteSets

CONSTANTS
  Schedulers,       \* by params.use_tiered_scheduler: "TieredMain" or "FixedMain"
  Bootstraps,       \* params.enable_tiered_bootstrap
  SingleBatch,      \* params.doubleton_equations_single_batch_per_iter
  EnabledRules,     \* the rules whose enable_ parameter is set
  MaxIters,         \* params.max_iters
  MaxRounds,        \* max(1, params.implied_variable_bounds_max_rounds)
  MaxBoundOnly,     \* max(1, params.implied_variable_bounds_max_bound_only_rounds)
  MaxNnz,           \* bound: nonzeros of the working LP
  ClosureNnz,       \* kMinNnzForBatchedClosure
  MaxCommits        \* bound: plans committed in a run

ASSUME SchedulerAssumption ==
  /\ Schedulers \subseteq {"TieredMain", "FixedMain"}
  /\ Bootstraps \in BOOLEAN /\ SingleBatch \in BOOLEAN
  /\ MaxIters \in Nat /\ MaxNnz \in Nat /\ ClosureNnz \in Nat /\ MaxCommits \in Nat
  /\ MaxRounds \in Nat \ {0} /\ MaxBoundOnly \in Nat \ {0}

VARIABLES
  stack,        \* frames of the running lambdas, innermost last
  busy,         \* what the current step of the top frame is doing
  rules,        \* rules of the running phase that have not had their turn
  planChanged,  \* plan.has_change of the phase
  planBad,      \* plan.has_infeasible or plan.has_unbounded
  act,          \* locals of the activity closure
  terminal,     \* the flag of that name
  statusBad,    \* summary.has_infeasible or summary.has_unbounded
  expired,      \* time_exceeded()
  clean,        \* rules with column_singletons_..._clean set
  iterations,   \* summary.iterations
  fastPhase, phaseNnz, cycleNnz,   \* fast_phase, nnz_before_phase, cycle_nnz_before
  nnz,          \* current.lp.A.nnz
  version,      \* commits so far: identifies the working LP
  quiet,        \* rules that found nothing on this very LP
  lateCommits   \* commits made after the deadline

lpVars == <<nnz, version, quiet, lateCommits, clean>>
planVars == <<busy, rules, planChanged, planBad, act>>
loopVars == <<iterations, fastPhase, phaseNnz, cycleNnz>>
statusVars == <<terminal, statusBad>>
vars == <<stack, planVars, statusVars, expired, loopVars, lpVars>>

-----------------------------------------------------------------------------
(* The lambdas.  A step runs when one of the labels it needs was reported  *)
(* by an earlier step of the pass, and reports its own label if it changed *)
(* the LP.                                                                 *)

Step(do, what) == [do |-> do, what |-> what, label |-> "changed", needs |-> {}, unless |-> {}]
Phase(rs) == Step("phase", rs)
Call(r) == Step("call", <<r>>)
As(label, s) == [s EXCEPT !.label = label]
If(labels, s) == [s EXCEPT !.needs = labels]
Unless(labels, s) == [s EXCEPT !.unless = labels]

Once(body) == [loop |-> "once", body |-> body]
While(body) == [loop |-> "while", body |-> body]
DoWhile(body) == [loop |-> "do", body |-> body]
\* run_cleanup_trigger_col_rule, and its copies in the bootstrap.
Trigger(rs) == <<As("rule", Phase(rs)), If({"rule"}, Call("Recirculation"))>>

FixedBounds == <<"infeasible_fixed_variables", "empty_cols">>

Routines == [
  SingletonRows |-> While(<<Phase(<<"singleton_rows">>)>>),
  Recirculation |-> While(<<Phase(FixedBounds), Phase(<<"empty_rows", "singleton_rows">>),
                            Phase(<<"empty_cols">>)>>),
  Cleanup |-> Once(<<Phase(FixedBounds), Phase(<<"dual_fix">>), Call("SingletonRows"),
                     Phase(<<"empty_rows">>), Phase(<<"empty_cols">>)>>),
  Doubletons |-> While(<<Phase(<<"doubleton_equations">>)>>),
  FastLoop |-> While(<<Phase(<<"column_singletons_dual">>), Phase(<<"column_singletons_eq">>),
                       If({"changed"}, Call("Cleanup"))>>),
  FastPhase |-> Once(<<As("closure", Step("closure", <<>>)), Call("FastLoop"),
                       Call("Doubletons"), If({"changed"}, Call("Cleanup"))>>),
  Activity |-> Once(<<Step("activity", <<>>),
                      If({"changed"}, Phase(<<"infeasible_redundant_rows">>))>>),
  MediumPhase |-> Once(<<As("prop", Phase(<<"infeasible_redundant_rows">>)),
                         As("prop", Call("Activity")), If({"prop"}, Call("Cleanup")),
                         As("dup", Phase(<<"duplicate_rows">>)),
                         As("dup", Phase(<<"duplicate_columns">>)),
                         If({"dup"}, Call("Cleanup"))>>),
  FixedRows |-> Once(<<Phase(<<"empty_rows">>), Phase(<<"singleton_rows">>),
                       Phase(<<"infeasible_redundant_rows">>), As("primal", Call("Activity")),
                       If({"primal"}, Call("Recirculation")), Phase(<<"duplicate_rows">>)>>),
  OneFixed |-> Once(Trigger(<<"infeasible_fixed_variables">>)),
  OneStructural |-> Once(Trigger(<<"structural_l1">>)),
  OneDualFix |-> Once(Trigger(<<"dual_fix">>)),
  OneDuplicate |-> Once(Trigger(<<"duplicate_columns">>)),
  OneBounds |-> Once(Trigger(FixedBounds)),
  EachDual |-> DoWhile(Trigger(<<"column_singletons_dual">>)),
  EachEq |-> DoWhile(Trigger(<<"column_singletons_eq">>)),
  EachDoubleton |-> DoWhile(Trigger(<<"doubleton_equations">>)),
  FixedCols |-> Once(<<Call("OneFixed"), Call("OneStructural"), Phase(<<"empty_cols">>),
                       Call("EachDual"), Call("EachEq"), Call("EachDoubleton"),
                       Call("OneDualFix"), Call("OneDuplicate")>>),
  FixedIterations |-> [loop |-> "iterate", body |-> <<Call("FixedRows"), Call("FixedCols")>>],
  Bootstrap |-> [loop |-> "bootstrap", body |->
                  <<As("rewrite", Step("untimed", <<"covering_cost_dominance">>)),
                    As("linf", Phase(<<"linf_components">>)),
                    As("rewrite", Unless({"linf"}, Phase(<<"antipodal_components">>))),
                    As("rewrite", Phase(<<"bounded_two_row_projection">>)),
                    As("rewrite", Phase(<<"orphan_mccormick_projection">>)),
                    As("before", Phase(<<"structural_l1">>)),
                    If({"before"}, As("cleanup", Call("Cleanup"))),
                    Phase(<<"empty_rows">>), Phase(<<"singleton_rows">>),
                    Phase(<<"infeasible_redundant_rows">>), Phase(<<"duplicate_rows">>),
                    Call("OneBounds"), Phase(<<"empty_cols">>), Call("EachDual"),
                    Call("EachEq"), Call("OneDualFix"), Call("OneDuplicate"),
                    If({"changed"}, As("after", Phase(<<"structural_l1">>))),
                    If({"after"}, Call("Cleanup"))>>],
  Cycles |-> [loop |-> "cycle", body |-> <<Call("Cleanup"), Step("half", <<>>)>>],
  TieredMain |-> Once(<<Step("bootstrap", <<"Bootstrap">>), Call("Cycles"),
                        Phase(<<"redundant_bounds">>)>>),
  FixedMain |-> Once(<<Call("FixedIterations"), Phase(<<"redundant_bounds">>)>>)
]

\* Rules that may report infeasibility or unboundedness.
Deciding == {"antipodal_components", "linf_components", "column_singletons_dual",
             "column_singletons_eq", "doubleton_equations", "dual_fix", "duplicate_columns",
             "duplicate_rows", "empty_cols", "empty_rows", "implied_variable_bounds",
             "infeasible_redundant_rows", "singleton_rows"}
CleanRules == {"column_singletons_dual", "column_singletons_eq"}
ClosureRules == {"column_singletons_eq", "dual_fix", "singleton_rows"}

RangeOf(s) == {s[i] : i \in DOMAIN s}
Top == stack[Len(stack)]
Routine(f) == Routines[f.routine]
Current == Routine(Top).body[Top.pc]
AtStep(do) == /\ stack # <<>> /\ busy = "idle"
              /\ Top.pc \in DOMAIN Routine(Top).body
              /\ Current.do = do

Frame(r) == [routine |-> r, pc |-> 0, said |-> {}, any |-> FALSE, entered |-> version]

\* Mutants of Advanced: the last report overwrites what was reported before.
AdvancedAnyLost(f, changed) ==
  [f EXCEPT !.pc = @ + 1,
            !.said = IF changed THEN @ \cup {Routine(f).body[f.pc].label} ELSE @,
            !.any = changed]
AdvancedLabelsLost(f, changed) ==
  [f EXCEPT !.pc = @ + 1,
            !.said = IF changed THEN {Routine(f).body[f.pc].label} ELSE {},
            !.any = @ \/ changed]

\* A frame after its current step reported whether it changed the LP.
Advanced(f, changed) ==
  [f EXCEPT !.pc = @ + 1,
            !.said = IF changed THEN @ \cup {Routine(f).body[f.pc].label} ELSE @,
            !.any = @ \/ changed]
Advance(changed) == stack' = [stack EXCEPT ![Len(stack)] = Advanced(Top, changed)]
Jump(pc) == stack' = [stack EXCEPT ![Len(stack)] = [Top EXCEPT !.pc = pc, !.said = {}]]
Return == stack' = IF Len(stack) = 1 THEN <<>>
                   ELSE [i \in 1..(Len(stack) - 1) |->
                           IF i = Len(stack) - 1 THEN Advanced(stack[i], Top.any) ELSE stack[i]]

NoActivity == [rounds |-> 0, boundOnly |-> 0, limit |-> 0, group |-> FALSE,
               structural |-> FALSE, any |-> FALSE]

Init ==
  /\ nnz \in 0..MaxNnz
  /\ version = 0 /\ quiet = {} /\ lateCommits = 0 /\ clean = {}
  /\ \E main \in Schedulers :
       stack = <<[routine |-> main, pc |-> 0, said |-> {}, any |-> FALSE, entered |-> 0]>>
  /\ busy = "idle" /\ rules = <<>> /\ planChanged = FALSE /\ planBad = FALSE
  /\ act = NoActivity
  /\ terminal = FALSE /\ statusBad = FALSE /\ expired = FALSE
  /\ iterations = 0 /\ fastPhase = TRUE /\ phaseNnz = 0 /\ cycleNnz = 0

\* Mutant of Stopped: loops forget the deadline.
StoppedByVerdict == terminal
\* The exit test of the loops.
Stopped == terminal \/ expired

IterationsLeft == iterations < MaxIters

\* Mutant of PhaseBarred: a phase starts after a verdict.
PhaseBarredByTime(s) == expired /\ s.do = "phase"
\* What a phase checks before it starts.  The covering rewrite is the first
\* of the bootstrap, which checked the deadline itself.
PhaseBarred(s) == terminal \/ (expired /\ s.do = "phase")

-----------------------------------------------------------------------------
(* Control flow.                                                           *)

\* The test in front of a pass: while loops and the two iteration loops
\* return without running a pass, the others start.
EnterPass ==
  /\ stack # <<>> /\ busy = "idle" /\ Top.pc = 0
  /\ LET loop == Routine(Top).loop
         stop == \/ loop = "while" /\ Stopped
                 \/ loop \in {"iterate", "cycle"} /\ (Stopped \/ ~IterationsLeft)
     IN IF stop THEN Return ELSE Jump(1)
  /\ UNCHANGED <<planVars, statusVars, expired, loopVars, lpVars>>

Wanted(s) == /\ s.needs = {} \/ s.needs \cap Top.said # {}
             /\ s.unless \cap Top.said = {}
             /\ Top.routine = "FastLoop" => RangeOf(s.what) \cap clean = {}
             /\ s.do = "bootstrap" => Bootstraps /\ MaxIters > 0 /\ ~expired

Skip ==
  /\ stack # <<>> /\ busy = "idle" /\ Top.pc \in DOMAIN Routine(Top).body
  /\ ~Wanted(Current)
  /\ Advance(FALSE)
  /\ UNCHANGED <<planVars, statusVars, expired, loopVars, lpVars>>

CallStep ==
  /\ \E do \in {"call", "bootstrap", "half"} : AtStep(do)
  /\ Wanted(Current)
  /\ LET callee == IF Current.do # "half" THEN Current.what[1]
                   ELSE IF fastPhase THEN "FastPhase" ELSE "MediumPhase"
     IN /\ stack' = Append(stack, Frame(callee))
        /\ phaseNnz' = IF Current.do = "half" THEN nnz ELSE phaseNnz
        /\ cycleNnz' = IF callee = "Cycles" THEN nnz ELSE cycleNnz
  /\ UNCHANGED <<planVars, statusVars, expired, iterations, fastPhase, lpVars>>

\* Mutant of Repeats: a while loop that no longer asks for a change.
RepeatsUnchanged(f) ==
  LET single == SingleBatch /\ f.routine \in {"Doubletons", "EachDoubleton"}
  IN \/ Routine(f).loop = "while" /\ ~single
     \/ Routine(f).loop = "do" /\ f.said # {} /\ ~single /\ ~Stopped
\* A while loop repeats after a pass with a change, its test is in front of
\* the next pass; a do loop tests the verdict and the deadline here.
Repeats(f) ==
  LET single == SingleBatch /\ f.routine \in {"Doubletons", "EachDoubleton"}
  IN /\ f.said # {} /\ ~single
     /\ Routine(f).loop = "while" \/ (Routine(f).loop = "do" /\ ~Stopped)

\* The end of a pass of a lambda.
EndPass ==
  /\ stack # <<>> /\ busy = "idle" /\ Top.pc = Len(Routine(Top).body) + 1
  /\ Routine(Top).loop \in {"once", "while", "do"}
  /\ IF Repeats(Top) THEN Jump(0) ELSE Return
  /\ UNCHANGED <<planVars, statusVars, expired, loopVars, lpVars>>

\* The end of the bootstrap and of an iteration of the fixed scheduler.
EndIteration ==
  /\ stack # <<>> /\ busy = "idle" /\ Top.pc = Len(Routine(Top).body) + 1
  /\ Routine(Top).loop \in {"bootstrap", "iterate"}
  /\ iterations' = iterations + 1
  /\ IF Routine(Top).loop = "iterate" /\ Top.said # {} THEN Jump(0) ELSE Return
  /\ UNCHANGED <<planVars, statusVars, expired, fastPhase, phaseNnz, cycleNnz, lpVars>>

\* Mutant of GoodProgress: no progress counts as good.
GoodProgressInclusive(before, after) == before > 0 /\ after <= before
\* _has_good_nnz_progress; with fewer than 20 nonzeros a ratio of 0.95 asks
\* for one nonzero less.
GoodProgress(before, after) == before > 0 /\ after < before

\* The end of a tiered cycle: a productive fast phase is followed by another,
\* a productive medium phase goes back to fast, an unproductive one ends it.
EndCycle ==
  /\ stack # <<>> /\ busy = "idle" /\ Top.pc = 3 /\ Top.routine = "Cycles"
  /\ iterations' = iterations + 1
  /\ LET changed == Top.said # {}
         productive == GoodProgress(IF fastPhase THEN phaseNnz ELSE cycleNnz, nnz)
     IN IF fastPhase
        THEN /\ fastPhase' = productive
             /\ IF ~changed /\ productive THEN Return ELSE Jump(0)
             /\ UNCHANGED cycleNnz
        ELSE IF ~changed \/ ~productive
        THEN Return /\ UNCHANGED <<fastPhase, cycleNnz>>
        ELSE Jump(0) /\ fastPhase' = TRUE /\ cycleNnz' = nnz
  /\ UNCHANGED <<planVars, statusVars, expired, phaseNnz, lpVars>>

-----------------------------------------------------------------------------
(* Commits.                                                                *)

\* Mutant of Commit: the clean flags are not invalidated.
CommitKeepsClean ==
  /\ version' = version + 1
  /\ nnz' \in 0..MaxNnz
  /\ quiet' = {}
  /\ lateCommits' = IF expired THEN lateCommits + 1 ELSE lateCommits
  /\ UNCHANGED clean

\* apply_plan_to_working_lp and invalidate_column_singleton_clean: nothing
\* that was known of the old LP is known of the new one.
Commit ==
  /\ version' = version + 1
  /\ nnz' \in 0..MaxNnz
  /\ clean' = {}
  /\ quiet' = {}
  /\ lateCommits' = IF expired THEN lateCommits + 1 ELSE lateCommits

-----------------------------------------------------------------------------
(* run_row_phase, run_col_phase and the model-wide rewrites: several rules *)
(* fill one plan, in order, until one decides or the deadline passes.      *)

StartPhase ==
  /\ \E do \in {"phase", "untimed"} : AtStep(do)
  /\ Wanted(Current)
  /\ IF PhaseBarred(Current)
     THEN Advance(FALSE) /\ UNCHANGED planVars
     ELSE /\ busy' = "phase"
          /\ rules' = Current.what
          /\ planChanged' = FALSE /\ planBad' = FALSE
          /\ UNCHANGED <<stack, act>>
  /\ UNCHANGED <<statusVars, expired, loopVars, lpVars>>

\* A rule may find something unless it already found nothing on this LP and
\* no rule of the phase has changed the plan since.
MayFind(r) == (r \notin quiet \/ planChanged) /\ version < MaxCommits

\* The next rule of the phase is skipped because it is not enabled, the
\* deadline passed or the plan is decided; or it finds nothing, changes the
\* plan, or decides it.
RunRule ==
  /\ busy = "phase" /\ rules # <<>>
  /\ rules' = Tail(rules)
  /\ LET r == Head(rules)
         skipped == \/ r \notin EnabledRules \/ planBad
                    \/ expired /\ Current.do = "phase"
     IN \/ /\ skipped
           /\ UNCHANGED <<planChanged, planBad, quiet>>
        \/ /\ ~skipped
           /\ quiet' = quiet \cup {r}
           /\ UNCHANGED <<planChanged, planBad>>
        \/ /\ ~skipped /\ MayFind(r)
           /\ planChanged' = TRUE
           /\ UNCHANGED <<planBad, quiet>>
        \/ /\ ~skipped /\ MayFind(r) /\ r \in Deciding
           /\ planBad' = TRUE
           /\ UNCHANGED <<planChanged, quiet>>
  /\ UNCHANGED <<stack, busy, act, statusVars, expired, loopVars, nnz, version, clean,
                 lateCommits>>

\* A column-singleton phase of one rule that committed nothing marks it clean.
MarkedClean ==
  IF Len(Current.what) = 1 THEN RangeOf(Current.what) \cap CleanRules \cap EnabledRules ELSE {}

EndPhase ==
  /\ busy = "phase" /\ rules = <<>>
  /\ busy' = "idle"
  /\ terminal' = planBad /\ statusBad' = planBad
  /\ LET changed == planChanged /\ ~planBad
     IN /\ IF changed THEN Commit
           ELSE clean' = clean \cup MarkedClean /\ UNCHANGED <<nnz, version, quiet, lateCommits>>
        /\ Advance(changed)
  /\ planChanged' = FALSE /\ planBad' = FALSE
  /\ UNCHANGED <<rules, act, expired, loopVars>>

-----------------------------------------------------------------------------
(* run_batched_singleton_cleanup_closure, as its caller sees it.  It may    *)
(* report a change although it ended undecided and committed nothing.       *)

StartClosure ==
  /\ AtStep("closure")
  /\ IF Stopped \/ nnz < ClosureNnz \/ ~(ClosureRules \subseteq EnabledRules)
     THEN Advance(FALSE) /\ UNCHANGED busy
     ELSE busy' = "closure" /\ UNCHANGED stack
  /\ UNCHANGED <<rules, planChanged, planBad, act, statusVars, expired, loopVars, lpVars>>

EndClosure ==
  /\ busy = "closure"
  /\ busy' = "idle"
  /\ \E changed, bad \in BOOLEAN :
       /\ changed \/ bad => version < MaxCommits
       /\ terminal' = bad /\ statusBad' = bad
       /\ IF changed /\ ~bad THEN Commit ELSE UNCHANGED lpVars
       /\ Advance(changed)
  /\ UNCHANGED <<rules, planChanged, planBad, act, expired, loopVars>>

-----------------------------------------------------------------------------
(* run_implied_variable_bounds_with_activity_closure: groups of rounds of   *)
(* one rule.  Tightened bounds collect in the plan of the group; a change   *)
(* of rows or columns ends the group and starts another on the new LP.      *)

Rule == "implied_variable_bounds"

StartActivity ==
  /\ AtStep("activity")
  /\ IF Rule \notin EnabledRules
     THEN Advance(FALSE) /\ UNCHANGED <<busy, act>>
     ELSE busy' = "group" /\ act' = NoActivity /\ UNCHANGED stack
  /\ UNCHANGED <<rules, planChanged, planBad, statusVars, expired, loopVars, lpVars>>

Leave == busy' = "idle" /\ act' = NoActivity /\ Advance(act.any)

\* The outer loop.  The limit on rounds without a structural change depends
\* on the nonzeros of the LP the group starts on.
OpenGroup ==
  /\ busy = "group"
  /\ IF act.rounds >= MaxRounds \/ Stopped
     THEN Leave
     ELSE /\ busy' = "round" /\ UNCHANGED stack
          /\ \E limit \in 1..MaxBoundOnly :
               act' = [act EXCEPT !.limit = limit, !.group = FALSE, !.structural = FALSE]
  /\ UNCHANGED <<rules, planChanged, planBad, statusVars, expired, loopVars, lpVars>>

\* One turn of the inner loop.
Round ==
  /\ busy = "round"
  /\ IF act.rounds >= MaxRounds \/ Stopped
     THEN busy' = "close" /\ UNCHANGED <<act, statusVars, quiet>>
     ELSE LET ran == [act EXCEPT !.rounds = @ + 1]
              changed == [ran EXCEPT !.group = TRUE, !.any = TRUE]
              mayFind == (Rule \notin quiet \/ act.group) /\ version < MaxCommits
          IN \/ /\ busy' = "close" /\ act' = ran
                /\ terminal' = FALSE /\ statusBad' = FALSE
                /\ quiet' = quiet \cup {Rule}
             \/ /\ mayFind
                /\ busy' = "close" /\ act' = ran
                /\ terminal' = TRUE /\ statusBad' = TRUE
                /\ UNCHANGED quiet
             \/ /\ mayFind
                /\ busy' = "close"
                /\ act' = [changed EXCEPT !.structural = TRUE, !.boundOnly = 0]
                /\ terminal' = FALSE /\ statusBad' = FALSE
                /\ UNCHANGED quiet
             \/ /\ mayFind
                /\ busy' = IF act.boundOnly + 1 >= act.limit THEN "close" ELSE "round"
                /\ act' = [changed EXCEPT !.structural = FALSE, !.boundOnly = @ + 1]
                /\ terminal' = FALSE /\ statusBad' = FALSE
                /\ UNCHANGED quiet
  /\ UNCHANGED <<stack, rules, planChanged, planBad, expired, loopVars, nnz, version, clean,
                 lateCommits>>

CloseGroup ==
  /\ busy = "close"
  /\ IF act.group /\ ~terminal THEN Commit ELSE UNCHANGED lpVars
  /\ IF terminal \/ ~act.group \/ ~act.structural \/ act.boundOnly >= act.limit
     THEN Leave
     ELSE busy' = "group" /\ UNCHANGED <<act, stack>>
  /\ UNCHANGED <<rules, planChanged, planBad, statusVars, expired, loopVars>>

-----------------------------------------------------------------------------
\* The deadline passes, at any moment.
Expire ==
  /\ ~expired /\ stack # <<>>
  /\ expired' = TRUE
  /\ UNCHANGED <<stack, planVars, statusVars, loopVars, lpVars>>

Work ==
  \/ EnterPass \/ Skip \/ CallStep \/ EndPass \/ EndIteration \/ EndCycle
  \/ StartPhase \/ RunRule \/ EndPhase \/ StartClosure \/ EndClosure
  \/ StartActivity \/ OpenGroup \/ Round \/ CloseGroup

Next == Work \/ Expire

\* The host thread keeps running; nothing forces the deadline to pass.
Spec == Init /\ [][Next]_vars /\ WF_vars(Work)

-----------------------------------------------------------------------------
\* What a lambda returns is what its callers branch on: as long as it would
\* return false it has committed nothing since it was entered, and neither
\* has anything it called.  Otherwise a loop ends, or a cleanup is left out,
\* although the LP has changed.
FalseMeansUnchanged ==
  \A i \in DOMAIN stack :
    ~(stack[i].any \/ (i = Len(stack) /\ act.any)) =>
      stack[i].entered = IF i = Len(stack) THEN version ELSE stack[i + 1].entered

\* After infeasibility or unboundedness was found no plan is applied and the
\* verdict is not taken back, though every phase assigns both flags.
VerdictIsFinal ==
  [][terminal => /\ version' = version /\ terminal' /\ statusBad' = statusBad]_vars

\* The deadline stops presolve at the next phase: the plan that was being
\* built when it passed may still be applied, and no other.
OneLateCommit == lateCommits <= 1

\* The clean flags skip a column-singleton rule in the fast phase.  A rule is
\* marked clean only if it would find nothing on the present LP, or if
\* presolve is over anyway.
CleanMeansQuiet == clean \subseteq quiet \/ Stopped

\* Without a verdict and before the deadline the fixed scheduler stops only
\* at its iteration limit or when no enabled rule finds anything any more.
GenericRules == {"empty_rows", "singleton_rows", "infeasible_redundant_rows",
                 "implied_variable_bounds", "duplicate_rows", "infeasible_fixed_variables",
                 "structural_l1", "empty_cols", "column_singletons_dual",
                 "column_singletons_eq", "doubleton_equations", "dual_fix",
                 "duplicate_columns"}
StopsAtFixpoint ==
  (stack # <<>> /\ Top.routine = "FixedMain" /\ Top.pc = 2 /\ busy = "idle") =>
    Stopped \/ iterations = MaxIters \/ GenericRules \cap EnabledRules \subseteq quiet

\* A fast cycle that changed nothing is never taken for a productive one, so
\* the tiered scheduler always tries a medium phase before it gives up: the
\* early exit at the end of a cycle is dead.
FastNeverEnds ==
  (stack # <<>> /\ Top.routine = "Cycles" /\ Top.pc = 3 /\ fastPhase /\ Top.said = {})
    => ~GoodProgress(phaseNnz, nnz)

\* Presolve ends: a loop repeats only after a commit.
Ends == <>(stack = <<>>)
=============================================================================
