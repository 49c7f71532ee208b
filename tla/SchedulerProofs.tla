-------------------------- MODULE SchedulerProofs --------------------------
(***************************************************************************)
(* Proofs about the scheduler of run_gpu_presolve_impl: what its lambdas    *)
(* report to their callers is true, the clean flags and the verdict can be *)
(* relied on, the deadline lets one commit pass, and it stops early only   *)
(* where no rule finds anything.  The proofs rest on the wiring of the     *)
(* lambdas (first section) and on what relates each frame of the stack to  *)
(* the frame it called.                                                    *)
(***************************************************************************)
EXTENDS Scheduler, Integers, SequenceTheorems, TLAPS

-----------------------------------------------------------------------------
(* The wiring of the lambdas: which step is where, who calls whom, and     *)
(* which rules a lambda has tried when it returns.                         *)

Names == {"SingletonRows", "Recirculation", "Cleanup", "Doubletons", "FastLoop", "FastPhase",
          "Activity", "MediumPhase", "FixedRows", "OneFixed", "OneStructural", "OneDualFix",
          "OneDuplicate", "OneBounds", "EachDual", "EachEq", "EachDoubleton", "FixedCols",
          "FixedIterations", "Bootstrap", "Cycles", "TieredMain", "FixedMain"}
Mains == {"TieredMain", "FixedMain"}
Kinds == {"phase", "untimed", "call", "bootstrap", "half", "closure", "activity"}
Labels == {"changed", "rule", "closure", "prop", "dup", "primal", "rewrite", "linf", "before",
           "cleanup", "after"}
RuleNames == {"empty_rows", "singleton_rows", "infeasible_redundant_rows",
              "implied_variable_bounds", "duplicate_rows", "infeasible_fixed_variables",
              "structural_l1", "empty_cols", "column_singletons_dual",
              "column_singletons_eq", "doubleton_equations", "dual_fix",
              "duplicate_columns", "redundant_bounds", "covering_cost_dominance",
              "linf_components", "antipodal_components", "bounded_two_row_projection",
              "orphan_mccormick_projection"}

IsStep(s) == s = [do |-> s.do, what |-> s.what, label |-> s.label, needs |-> s.needs,
                  unless |-> s.unless]

\* What step k of lambda r may be.
WiredStep(r, k, s) ==
  /\ IsStep(s) /\ s.do \in Kinds /\ s.label \in Labels
  /\ s.do \in {"phase", "untimed"} => s.what \in Seq(RuleNames)
  /\ s.do = "untimed" => r = "Bootstrap" /\ k = 1
  /\ s.do = "call" => /\ s.what[1] \in Names \ (Mains \cup {"Bootstrap"})
                      /\ s.what[1] = "Cycles" => r = "TieredMain"
                      /\ s.what[1] = "FixedIterations" => r = "FixedMain"
  /\ s.do = "bootstrap" => s.what[1] = "Bootstrap" /\ r = "TieredMain"
  /\ s.do = "half" => r = "Cycles" /\ k = 2
  /\ s.do = "activity" => r = "Activity"

Wired(r) ==
  /\ Routines[r].loop \in {"once", "while", "do", "iterate", "bootstrap", "cycle"}
  /\ Routines[r].loop = "iterate" => r = "FixedIterations"
  /\ Routines[r].loop = "bootstrap" => r = "Bootstrap"
  /\ Len(Routines[r].body) \in Nat
  /\ DOMAIN Routines[r].body = 1..Len(Routines[r].body)
  /\ \A k \in DOMAIN Routines[r].body : WiredStep(r, k, Routines[r].body[k])

LEMMA PhaseWired ==
  ASSUME NEW r, NEW k, NEW rs \in Seq(RuleNames)
  PROVE  WiredStep(r, k, Phase(rs))
BY DEF Phase, Step, WiredStep, IsStep, Kinds, Labels

LEMMA CallWired ==
  ASSUME NEW r, NEW k, NEW t \in Names \ (Mains \cup {"Bootstrap"}),
         t = "Cycles" => r = "TieredMain", t = "FixedIterations" => r = "FixedMain"
  PROVE  WiredStep(r, k, Call(t))
BY DEF Call, Step, WiredStep, IsStep, Kinds, Labels

LEMMA AsWired ==
  ASSUME NEW r, NEW k, NEW s, WiredStep(r, k, s), NEW l \in Labels
  PROVE  WiredStep(r, k, As(l, s))
<1>1. As(l, s) = [do |-> s.do, what |-> s.what, label |-> l, needs |-> s.needs,
                  unless |-> s.unless]
  BY DEF As, WiredStep, IsStep
<1> QED BY <1>1 DEF WiredStep, IsStep

LEMMA IfWired ==
  ASSUME NEW r, NEW k, NEW s, WiredStep(r, k, s), NEW l
  PROVE  WiredStep(r, k, If(l, s))
<1>1. If(l, s) = [do |-> s.do, what |-> s.what, label |-> s.label, needs |-> l,
                  unless |-> s.unless]
  BY DEF If, WiredStep, IsStep
<1> QED BY <1>1 DEF WiredStep, IsStep

LEMMA UnlessWired ==
  ASSUME NEW r, NEW k, NEW s, WiredStep(r, k, s), NEW l
  PROVE  WiredStep(r, k, Unless(l, s))
<1>1. Unless(l, s) = [do |-> s.do, what |-> s.what, label |-> s.label, needs |-> s.needs,
                      unless |-> l]
  BY DEF Unless, WiredStep, IsStep
<1> QED BY <1>1 DEF WiredStep, IsStep

\* A phase of one rule and one of two.
LEMMA SingleWired == \A r, k, q : q \in RuleNames => WiredStep(r, k, Phase(<<q>>))
<1> SUFFICES ASSUME NEW r, NEW k, NEW q \in RuleNames PROVE WiredStep(r, k, Phase(<<q>>))
  OBVIOUS
<1>1. <<q>> \in Seq(RuleNames) OBVIOUS
<1> QED BY <1>1, PhaseWired

LEMMA PairWired ==
  \A r, k, p, q : p \in RuleNames /\ q \in RuleNames => WiredStep(r, k, Phase(<<p, q>>))
<1> SUFFICES ASSUME NEW r, NEW k, NEW p \in RuleNames, NEW q \in RuleNames
             PROVE  WiredStep(r, k, Phase(<<p, q>>))
  OBVIOUS
<1>1. <<p, q>> \in Seq(RuleNames) OBVIOUS
<1> QED BY <1>1, PhaseWired

\* The shapes of step that occur in the lambdas.
LEMMA Shapes ==
  ASSUME NEW r
  PROVE  /\ \A k, l, s : l \in Labels /\ WiredStep(r, k, s) => WiredStep(r, k, As(l, s))
         /\ \A k, l, s : WiredStep(r, k, s) => WiredStep(r, k, If(l, s))
         /\ \A k, q : q \in RuleNames => WiredStep(r, k, Phase(<<q>>))
         /\ \A k, p, q : p \in RuleNames /\ q \in RuleNames => WiredStep(r, k, Phase(<<p, q>>))
         /\ \A k, t : t \in Names \ (Mains \cup {"Bootstrap", "Cycles", "FixedIterations"})
              => WiredStep(r, k, Call(t))
BY AsWired, IfWired, CallWired, SingleWired, PairWired

LEMMA ClosureWired == \A r, k : WiredStep(r, k, Step("closure", <<>>))
BY DEF Step, WiredStep, IsStep, Kinds, Labels

\* The steps that only one lambda has.
LEMMA OneOffs ==
  /\ WiredStep("Bootstrap", 1, Step("untimed", <<"covering_cost_dominance">>))
  /\ WiredStep("Activity", 1, Step("activity", <<>>))
  /\ WiredStep("Cycles", 2, Step("half", <<>>))
  /\ WiredStep("TieredMain", 1, Step("bootstrap", <<"Bootstrap">>))
  /\ WiredStep("TieredMain", 2, Call("Cycles"))
  /\ WiredStep("FixedMain", 1, Call("FixedIterations"))
<1>1. <<"covering_cost_dominance">> \in Seq(RuleNames) BY DEF RuleNames
<1>2. WiredStep("Bootstrap", 1, Step("untimed", <<"covering_cost_dominance">>))
  BY <1>1 DEF Step, WiredStep, IsStep, Kinds, Labels
<1>3. /\ WiredStep("Activity", 1, Step("activity", <<>>))
      /\ WiredStep("Cycles", 2, Step("half", <<>>))
      /\ WiredStep("TieredMain", 1, Step("bootstrap", <<"Bootstrap">>))
  BY DEF Step, WiredStep, IsStep, Kinds, Labels
<1>4. {"Cycles", "FixedIterations"} \subseteq Names \ (Mains \cup {"Bootstrap"})
  BY DEF Names, Mains
<1> QED BY <1>2, <1>3, <1>4, CallWired

LEMMA BootstrapWired == Wired("Bootstrap")
<1> DEFINE Ok(k, s) == WiredStep("Bootstrap", k, s)
           body == <<As("rewrite", Step("untimed", <<"covering_cost_dominance">>)),
                     As("linf", Phase(<<"linf_components">>)),
                     As("rewrite", Unless({"linf"}, Phase(<<"antipodal_components">>))),
                     As("rewrite", Phase(<<"bounded_two_row_projection">>)),
                     As("rewrite", Phase(<<"orphan_mccormick_projection">>)),
                     As("before", Phase(<<"structural_l1">>)),
                     If({"before"}, As("cleanup", Call("Cleanup"))),
                     Phase(<<"empty_rows">>), Phase(<<"singleton_rows">>),
                     Phase(<<"infeasible_redundant_rows">>), Phase(<<"duplicate_rows">>),
                     Call("OneBounds"), Phase(<<"empty_cols">>), Call("EachDual"),
                     Call("EachEq"), Call("OneDualFix"), Call("OneDuplicate"),
                     If({"changed"}, As("after", Phase(<<"structural_l1">>))),
                     If({"after"}, Call("Cleanup"))>>
<1>1. /\ Routines["Bootstrap"].loop = "bootstrap"
      /\ Routines["Bootstrap"].body = body
  BY DEF Routines
<1>2. \A k, l, s : l \in Labels /\ Ok(k, s) => Ok(k, As(l, s)) BY AsWired
<1>3. \A k, l, s : Ok(k, s) => Ok(k, If(l, s)) BY IfWired
<1>4. \A k, l, s : Ok(k, s) => Ok(k, Unless(l, s)) BY UnlessWired
<1>5. \A k, q : q \in RuleNames => Ok(k, Phase(<<q>>)) BY SingleWired
<1>6. \A k, t : t \in Names \ (Mains \cup {"Bootstrap", "Cycles", "FixedIterations"})
        => Ok(k, Call(t))
  BY CallWired
<1>7. Ok(1, Step("untimed", <<"covering_cost_dominance">>)) BY OneOffs
<1> HIDE DEF Ok
<1>8. \A k \in 1..19 : Ok(k, body[k])
  BY <1>2, <1>3, <1>4, <1>5, <1>6, <1>7 DEF Labels, Names, Mains, RuleNames
<1>9. DOMAIN body = 1..19 /\ Len(body) = 19 OBVIOUS
<1> HIDE DEF body
<1>10. \A k \in DOMAIN Routines["Bootstrap"].body :
         WiredStep("Bootstrap", k, Routines["Bootstrap"].body[k])
  BY <1>1, <1>8, <1>9 DEF Ok
<1>11. /\ DOMAIN Routines["Bootstrap"].body = 1..Len(Routines["Bootstrap"].body)
       /\ Len(Routines["Bootstrap"].body) \in Nat
  BY <1>1, <1>9
<1> QED BY <1>1, <1>10, <1>11 DEF Wired

LEMMA AllWired == \A r \in Names : Wired(r)
<1>1. Wired("SingletonRows")
  <2>1. Routines["SingletonRows"] =
          While(<<Phase(<<"singleton_rows">>)>>)
    BY DEF Routines
  <2> QED BY <2>1, Shapes DEF Wired, RuleNames, While
<1>2. Wired("Recirculation")
  <2>1. Routines["Recirculation"] =
          While(<<Phase(FixedBounds), Phase(<<"empty_rows", "singleton_rows">>),
          Phase(<<"empty_cols">>)>>)
    BY DEF Routines
  <2> QED BY <2>1, Shapes DEF Wired, RuleNames, While, FixedBounds
<1>3. Wired("Cleanup")
  <2>1. Routines["Cleanup"] =
          Once(<<Phase(FixedBounds), Phase(<<"dual_fix">>), Call("SingletonRows"),
          Phase(<<"empty_rows">>), Phase(<<"empty_cols">>)>>)
    BY DEF Routines
  <2> QED BY <2>1, Shapes DEF Wired, Names, Mains, RuleNames, Once, FixedBounds
<1>4. Wired("Doubletons")
  <2>1. Routines["Doubletons"] =
          While(<<Phase(<<"doubleton_equations">>)>>)
    BY DEF Routines
  <2> QED BY <2>1, Shapes DEF Wired, RuleNames, While
<1>5. Wired("FastLoop")
  <2>1. Routines["FastLoop"] =
          While(<<Phase(<<"column_singletons_dual">>), Phase(<<"column_singletons_eq">>),
          If({"changed"}, Call("Cleanup"))>>)
    BY DEF Routines
  <2> QED BY SMTT(30), <2>1, Shapes DEF Wired, Names, Mains, RuleNames, While
<1>6. Wired("FastPhase")
  <2>1. Routines["FastPhase"] =
          Once(<<As("closure", Step("closure", <<>>)), Call("FastLoop"), Call("Doubletons"),
          If({"changed"}, Call("Cleanup"))>>)
    BY DEF Routines
  <2>2. WiredStep("FastPhase", 1, As("closure", Step("closure", <<>>)))
    BY ClosureWired, AsWired DEF Labels
  <2>3. \A k : /\ WiredStep("FastPhase", k, Call("FastLoop"))
               /\ WiredStep("FastPhase", k, Call("Doubletons"))
               /\ WiredStep("FastPhase", k, If({"changed"}, Call("Cleanup")))
    BY Shapes DEF Names, Mains
  <2> QED BY <2>1, <2>2, <2>3 DEF Wired, Once
<1>7. Wired("Activity")
  <2>1. Routines["Activity"] =
          Once(<<Step("activity", <<>>), If({"changed"},
          Phase(<<"infeasible_redundant_rows">>))>>)
    BY DEF Routines
  <2>2. WiredStep("Activity", 1, Step("activity", <<>>)) BY OneOffs
  <2>3. WiredStep("Activity", 2, If({"changed"}, Phase(<<"infeasible_redundant_rows">>)))
    BY Shapes DEF RuleNames
  <2> QED BY <2>1, <2>2, <2>3 DEF Wired, Once
<1>8. Wired("MediumPhase")
  <2>1. Routines["MediumPhase"] =
          Once(<<As("prop", Phase(<<"infeasible_redundant_rows">>)), As("prop",
          Call("Activity")), If({"prop"}, Call("Cleanup")), As("dup",
          Phase(<<"duplicate_rows">>)), As("dup", Phase(<<"duplicate_columns">>)), If({"dup"},
          Call("Cleanup"))>>)
    BY DEF Routines
  <2> QED BY <2>1, Shapes DEF Wired, Names, Mains, RuleNames, Once, Labels
<1>9. Wired("FixedRows")
  <2>1. Routines["FixedRows"] =
          Once(<<Phase(<<"empty_rows">>), Phase(<<"singleton_rows">>),
          Phase(<<"infeasible_redundant_rows">>), As("primal", Call("Activity")), If({"primal"},
          Call("Recirculation")), Phase(<<"duplicate_rows">>)>>)
    BY DEF Routines
  <2> QED BY <2>1, Shapes DEF Wired, Names, Mains, RuleNames, Once, Labels
<1>10. Wired("OneFixed")
  <2>1. Routines["OneFixed"] =
          Once(Trigger(<<"infeasible_fixed_variables">>))
    BY DEF Routines
  <2> QED BY <2>1, Shapes DEF Wired, Names, Mains, RuleNames, Once, Trigger, Labels
<1>11. Wired("OneStructural")
  <2>1. Routines["OneStructural"] =
          Once(Trigger(<<"structural_l1">>))
    BY DEF Routines
  <2> QED BY <2>1, Shapes DEF Wired, Names, Mains, RuleNames, Once, Trigger, Labels
<1>12. Wired("OneDualFix")
  <2>1. Routines["OneDualFix"] =
          Once(Trigger(<<"dual_fix">>))
    BY DEF Routines
  <2> QED BY <2>1, Shapes DEF Wired, Names, Mains, RuleNames, Once, Trigger, Labels
<1>13. Wired("OneDuplicate")
  <2>1. Routines["OneDuplicate"] =
          Once(Trigger(<<"duplicate_columns">>))
    BY DEF Routines
  <2> QED BY <2>1, Shapes DEF Wired, Names, Mains, RuleNames, Once, Trigger, Labels
<1>14. Wired("OneBounds")
  <2>1. Routines["OneBounds"] =
          Once(Trigger(FixedBounds))
    BY DEF Routines
  <2> QED BY <2>1, Shapes DEF Wired, Names, Mains, RuleNames, Once, Trigger, Labels, FixedBounds
<1>15. Wired("EachDual")
  <2>1. Routines["EachDual"] =
          DoWhile(Trigger(<<"column_singletons_dual">>))
    BY DEF Routines
  <2> QED BY <2>1, Shapes DEF Wired, Names, Mains, RuleNames, DoWhile, Trigger, Labels
<1>16. Wired("EachEq")
  <2>1. Routines["EachEq"] =
          DoWhile(Trigger(<<"column_singletons_eq">>))
    BY DEF Routines
  <2> QED BY <2>1, Shapes DEF Wired, Names, Mains, RuleNames, DoWhile, Trigger, Labels
<1>17. Wired("EachDoubleton")
  <2>1. Routines["EachDoubleton"] =
          DoWhile(Trigger(<<"doubleton_equations">>))
    BY DEF Routines
  <2> QED BY <2>1, Shapes DEF Wired, Names, Mains, RuleNames, DoWhile, Trigger, Labels
<1>18. Wired("FixedCols")
  <2>1. Routines["FixedCols"] =
          Once(<<Call("OneFixed"), Call("OneStructural"), Phase(<<"empty_cols">>),
          Call("EachDual"), Call("EachEq"), Call("EachDoubleton"), Call("OneDualFix"),
          Call("OneDuplicate")>>)
    BY DEF Routines
  <2> QED BY <2>1, Shapes DEF Wired, Names, Mains, RuleNames, Once
<1>19. Wired("FixedIterations")
  <2>1. Routines["FixedIterations"] =
          [loop |-> "iterate", body |-> <<Call("FixedRows"), Call("FixedCols")>>]
    BY DEF Routines
  <2> QED BY <2>1, Shapes DEF Wired, Names, Mains, RuleNames
<1>20. Wired("Bootstrap")
  BY BootstrapWired
<1>21. Wired("Cycles")
  <2>1. Routines["Cycles"] =
          [loop |-> "cycle", body |-> <<Call("Cleanup"), Step("half", <<>>)>>]
    BY DEF Routines
  <2>2. WiredStep("Cycles", 1, Call("Cleanup")) BY Shapes DEF Names, Mains
  <2>3. WiredStep("Cycles", 2, Step("half", <<>>)) BY OneOffs
  <2> QED BY <2>1, <2>2, <2>3 DEF Wired
<1>22. Wired("TieredMain")
  <2>1. Routines["TieredMain"] =
          Once(<<Step("bootstrap", <<"Bootstrap">>), Call("Cycles"),
          Phase(<<"redundant_bounds">>)>>)
    BY DEF Routines
  <2>2. WiredStep("TieredMain", 1, Step("bootstrap", <<"Bootstrap">>)) BY OneOffs
  <2>3. WiredStep("TieredMain", 2, Call("Cycles")) BY OneOffs
  <2>4. WiredStep("TieredMain", 3, Phase(<<"redundant_bounds">>)) BY SingleWired DEF RuleNames
  <2> QED BY <2>1, <2>2, <2>3, <2>4 DEF Wired, Once
<1>23. Wired("FixedMain")
  <2>1. Routines["FixedMain"] =
          Once(<<Call("FixedIterations"), Phase(<<"redundant_bounds">>)>>)
    BY DEF Routines
  <2>2. WiredStep("FixedMain", 1, Call("FixedIterations")) BY OneOffs
  <2>3. WiredStep("FixedMain", 2, Phase(<<"redundant_bounds">>)) BY SingleWired DEF RuleNames
  <2> QED BY <2>1, <2>2, <2>3 DEF Wired, Once
<1> QED BY <1>1, <1>2, <1>3, <1>4, <1>5, <1>6, <1>7, <1>8, <1>9, <1>10, <1>11, <1>12, <1>13, <1>14, <1>15, <1>16, <1>17, <1>18, <1>19, <1>20, <1>21, <1>22, <1>23 DEF Names

-----------------------------------------------------------------------------
(* Types, and who is on the stack.                                         *)

Frames == [routine : Names, pc : Nat, said : SUBSET Labels, any : BOOLEAN, entered : Nat]
Activities == [rounds : Nat, boundOnly : Nat, limit : Nat, group : BOOLEAN,
               structural : BOOLEAN, any : BOOLEAN]

\* The current step of frame f calls lambda r.
Calls(f, r) ==
  /\ f.pc \in DOMAIN Routine(f).body
  /\ LET s == Routine(f).body[f.pc]
     IN \/ s.do \in {"call", "bootstrap"} /\ r = s.what[1]
        \/ s.do = "half" /\ r \in {"FastPhase", "MediumPhase"}

VarsTyped ==
  /\ rules \in Seq(RuleNames)
  /\ busy \in {"idle", "phase", "closure", "group", "round", "close"}
  /\ planChanged \in BOOLEAN /\ planBad \in BOOLEAN /\ act \in Activities
  /\ terminal \in BOOLEAN /\ statusBad \in BOOLEAN
  /\ expired \in BOOLEAN /\ fastPhase \in BOOLEAN
  /\ iterations \in Nat /\ phaseNnz \in Nat /\ cycleNnz \in Nat
  /\ nnz \in Nat /\ version \in Nat /\ lateCommits \in Nat

\* Every frame but the last waits for the lambda of the next one.
Nested ==
  /\ stack \in Seq(Frames)
  /\ \A i \in 1..(Len(stack) - 1) : Calls(stack[i], stack[i + 1].routine)
  /\ stack # <<>> => stack[1].routine \in Mains

\* The work in hand is that of the current step.
Doing ==
  /\ busy # "idle" => stack # <<>> /\ Top.pc \in DOMAIN Routine(Top).body
  /\ busy = "phase" => Current.do \in {"phase", "untimed"}
  /\ busy = "closure" => Current.do = "closure"
  /\ busy \in {"group", "round", "close"} => Current.do = "activity"

TypeInv == VarsTyped /\ Nested /\ Doing

-----------------------------------------------------------------------------
(* What the moves do to the stack.                                         *)

LEMMA WiredAt ==
  ASSUME NEW f \in Frames, f.pc \in DOMAIN Routine(f).body
  PROVE  WiredStep(f.routine, f.pc, Routine(f).body[f.pc])
BY AllWired DEF Frames, Wired, Routine

\* A called lambda is none of the two the scheduler starts with.
LEMMA CalledIs ==
  ASSUME NEW f \in Frames, NEW r, Calls(f, r)
  PROVE  /\ r \in Names \ Mains
         /\ r \in {"Cycles", "Bootstrap"} => f.routine = "TieredMain"
         /\ r = "FixedIterations" => f.routine = "FixedMain"
<1>1. WiredStep(f.routine, f.pc, Routine(f).body[f.pc]) BY WiredAt DEF Calls
<1> QED BY <1>1 DEF Calls, WiredStep, Names, Mains

LEMMA TopTyped ==
  ASSUME stack \in Seq(Frames), stack # <<>>
  PROVE  Top \in Frames /\ Len(stack) \in Nat /\ Len(stack) > 0
BY DEF Top

\* Only the top frame changes, into g.
Replaced(g) ==
  /\ stack' \in Seq(Frames) /\ stack' # <<>>
  /\ Len(stack') = Len(stack) /\ Top' = g
  /\ \A i \in 1..(Len(stack) - 1) : stack'[i] = stack[i]

LEMMA ReplacedBy ==
  ASSUME stack \in Seq(Frames), stack # <<>>, NEW g \in Frames,
         stack' = [stack EXCEPT ![Len(stack)] = g]
  PROVE  Replaced(g)
BY DEF Replaced, Top

LEMMA AdvancedIs ==
  ASSUME NEW f \in Frames, f.pc \in DOMAIN Routine(f).body, NEW c \in BOOLEAN
  PROVE  /\ Advanced(f, c) \in Frames
         /\ Advanced(f, c).routine = f.routine /\ Advanced(f, c).entered = f.entered
         /\ Advanced(f, c).pc = f.pc + 1
         /\ Advanced(f, c).any = (f.any \/ c)
         /\ Advanced(f, c).said = IF c THEN f.said \cup {Routine(f).body[f.pc].label}
                                       ELSE f.said
<1> DEFINE l == Routine(f).body[f.pc].label
<1>1. l \in Labels BY WiredAt DEF WiredStep
<1>2. Advanced(f, c) = [f EXCEPT !.pc = f.pc + 1,
                                 !.said = IF c THEN f.said \cup {l} ELSE f.said,
                                 !.any = f.any \/ c]
  BY DEF Advanced
<1> HIDE DEF l
<1>3. Advanced(f, c) = [routine |-> f.routine, pc |-> f.pc + 1,
                        said |-> IF c THEN f.said \cup {l} ELSE f.said,
                        any |-> f.any \/ c, entered |-> f.entered]
  BY <1>2 DEF Frames
<1>4. f.pc + 1 \in Nat /\ (f.any \/ c) \in BOOLEAN /\ f.entered \in Nat /\ f.routine \in Names
  BY DEF Frames
<1>5. (IF c THEN f.said \cup {l} ELSE f.said) \in SUBSET Labels BY <1>1 DEF Frames
<1> QED BY <1>3, <1>4, <1>5 DEF Frames, l

LEMMA AdvancedTyped ==
  \A f \in Frames, c \in BOOLEAN :
    f.pc \in DOMAIN Routine(f).body => Advanced(f, c) \in Frames
<1> SUFFICES ASSUME NEW f \in Frames, NEW c \in BOOLEAN, f.pc \in DOMAIN Routine(f).body
             PROVE  Advanced(f, c) \in Frames
  OBVIOUS
<1> DEFINE l == Routine(f).body[f.pc].label
           said == IF c THEN f.said \cup {l} ELSE f.said
<1>1. l \in Labels BY WiredAt DEF WiredStep
<1>2. said \in SUBSET Labels BY <1>1 DEF Frames
<1>3. Advanced(f, c) = [f EXCEPT !.pc = f.pc + 1, !.said = said, !.any = f.any \/ c]
  BY DEF Advanced
<1>4. f.pc + 1 \in Nat /\ (f.any \/ c) \in BOOLEAN BY DEF Frames
<1> HIDE DEF l, said
<1> QED BY <1>2, <1>3, <1>4 DEF Frames

\* What a frame keeps when it advances.
LEMMA AdvancedKeeps ==
  \A f \in Frames, c \in BOOLEAN :
    /\ Advanced(f, c).routine = f.routine /\ Advanced(f, c).entered = f.entered
    /\ Advanced(f, c).pc = f.pc + 1
<1> SUFFICES ASSUME NEW f \in Frames, NEW c \in BOOLEAN
             PROVE  /\ Advanced(f, c).routine = f.routine /\ Advanced(f, c).entered = f.entered
                    /\ Advanced(f, c).pc = f.pc + 1
  OBVIOUS
<1> DEFINE l == Routine(f).body[f.pc].label
           said == IF c THEN f.said \cup {l} ELSE f.said
<1>1. Advanced(f, c) = [f EXCEPT !.pc = f.pc + 1, !.said = said, !.any = f.any \/ c]
  BY DEF Advanced
<1> HIDE DEF l, said
<1> QED BY <1>1 DEF Frames

\* What an advanced frame reports.
LEMMA AdvancedTells ==
  ASSUME NEW f \in Frames, f.pc \in DOMAIN Routine(f).body, NEW c \in BOOLEAN
  PROVE  /\ c => Advanced(f, c).any /\ Advanced(f, c).said # {}
         /\ ~c => Advanced(f, c).any = f.any /\ Advanced(f, c).said = f.said
         /\ f.any => Advanced(f, c).any
<1> DEFINE l == Routine(f).body[f.pc].label
<1>1. f.any \in BOOLEAN BY DEF Frames
<1>2. Advanced(f, c) = [f EXCEPT !.pc = f.pc + 1,
                                 !.said = IF c THEN f.said \cup {l} ELSE f.said,
                                 !.any = f.any \/ c]
  BY DEF Advanced
<1> HIDE DEF l
<1>3. /\ Advanced(f, c).said = IF c THEN f.said \cup {l} ELSE f.said
      /\ Advanced(f, c).any = (f.any \/ c)
  BY <1>2 DEF Frames
<1>4. f.said \cup {l} # {} OBVIOUS
<1> QED BY <1>1, <1>3, <1>4

LEMMA JumpedIs ==
  ASSUME NEW f \in Frames, NEW pc \in Nat
  PROVE  LET g == [f EXCEPT !.pc = pc, !.said = {}]
         IN /\ g \in Frames
            /\ g.routine = f.routine /\ g.entered = f.entered /\ g.any = f.any
            /\ g.pc = pc /\ g.said = {}
BY DEF Frames

\* The top frame advances past its current step, or goes to another.
LEMMA AdvanceMoves ==
  ASSUME stack \in Seq(Frames), stack # <<>>, Top.pc \in DOMAIN Routine(Top).body,
         NEW c \in BOOLEAN, Advance(c)
  PROVE  Replaced(Advanced(Top, c))
BY TopTyped, AdvancedIs, ReplacedBy DEF Advance

LEMMA JumpMoves ==
  ASSUME stack \in Seq(Frames), stack # <<>>, NEW pc \in Nat, Jump(pc)
  PROVE  Replaced([Top EXCEPT !.pc = pc, !.said = {}])
BY TopTyped, JumpedIs, ReplacedBy DEF Jump

\* A lambda returns to its caller, if it has one.
Returned ==
  \/ Len(stack) = 1 /\ stack' = <<>>
  \/ /\ Len(stack) > 1 /\ stack' \in Seq(Frames) /\ stack' # <<>>
     /\ Len(stack') = Len(stack) - 1
     /\ Top' = Advanced(stack[Len(stack) - 1], Top.any)
     /\ \A i \in 1..(Len(stack) - 2) : stack'[i] = stack[i]

LEMMA ReturnMoves ==
  ASSUME Nested, stack # <<>>, Return
  PROVE  Returned
<1>1. CASE Len(stack) = 1 BY <1>1 DEF Return, Returned
<1>2. CASE Len(stack) # 1
  <2> DEFINE n == Len(stack) - 1
             back == Advanced(stack[n], Top.any)
             next == [i \in 1..n |-> IF i = n THEN back ELSE stack[i]]
  <2>1. /\ stack \in Seq(Frames) /\ Top \in Frames
        /\ Len(stack) \in Nat /\ Len(stack) > 0
    BY TopTyped DEF Nested
  <2> HIDE DEF next, back
  <2>2. n \in Nat /\ n >= 1 /\ n + 1 = Len(stack)
    <3>1. \A m \in Nat : m > 0 /\ m # 1 => m - 1 \in Nat /\ m - 1 >= 1 /\ m - 1 + 1 = m OBVIOUS
    <3> QED BY <1>2, <2>1, <3>1
  <2>3. stack' = next BY <1>2 DEF Return, next, back
  <2>4. stack[n] \in Frames /\ Top.any \in BOOLEAN
    <3>1. stack[n] \in Frames BY <2>1, <2>2
    <3>2. Top.any \in BOOLEAN BY <2>1 DEF Frames
    <3> QED BY <3>1, <3>2
  <2>5. stack[n].pc \in DOMAIN Routine(stack[n]).body BY <2>2 DEF Nested, Calls
  <2>6. back \in Frames BY <2>4, <2>5, AdvancedIs DEF back
  <2> HIDE DEF n
  <2>7. \A i \in 1..n : stack[i] \in Frames BY <2>1, <2>2
  <2>8. next \in [1..n -> Frames] BY <2>6, <2>7 DEF next
  <2>9. next \in Seq(Frames) /\ Len(next) = n BY <2>2, <2>8
  <2>10. next[n] = back /\ next # <<>> BY <2>2, <2>9 DEF next
  <2>11. Top' = back BY <2>3, <2>9, <2>10 DEF Top
  <2>12. \A i \in 1..(Len(stack) - 2) : next[i] = stack[i] BY <2>2 DEF next
  <2> QED BY <2>2, <2>3, <2>9, <2>10, <2>11, <2>12 DEF Returned, back, n
<1> QED BY <1>1, <1>2

\* A lambda is entered.
Entered(r) ==
  /\ stack' \in Seq(Frames) /\ stack' # <<>>
  /\ Len(stack') = Len(stack) + 1 /\ Top' = Frame(r)
  /\ \A i \in 1..Len(stack) : stack'[i] = stack[i]

LEMMA FrameIs ==
  ASSUME NEW r \in Names, version \in Nat
  PROVE  /\ Frame(r) \in Frames /\ Frame(r).routine = r /\ Frame(r).pc = 0
         /\ Frame(r).said = {} /\ Frame(r).any = FALSE /\ Frame(r).entered = version
BY DEF Frame, Frames

LEMMA AppendMoves ==
  ASSUME stack \in Seq(Frames), version \in Nat, NEW r \in Names,
         stack' = Append(stack, Frame(r))
  PROVE  Entered(r)
<1>1. Frame(r) \in Frames BY FrameIs
<1> DEFINE g == Frame(r)
<1> HIDE DEF g
<1>2. /\ Append(stack, g) \in Seq(Frames) /\ Len(Append(stack, g)) = Len(stack) + 1
      /\ Append(stack, g)[Len(stack) + 1] = g
      /\ \A i \in 1..Len(stack) : Append(stack, g)[i] = stack[i]
  BY <1>1 DEF g
<1>3. stack' = Append(stack, g) BY DEF g
<1> QED BY <1>2, <1>3 DEF Entered, Top, g

LEMMA NestedReplaced ==
  ASSUME Nested, stack # <<>>, NEW g, Replaced(g), g.routine = Top.routine
  PROVE  Nested'
<1>1. stack \in Seq(Frames) /\ Len(stack) > 0 /\ Len(stack) \in Nat BY TopTyped DEF Nested
<1>2. Len(stack') = Len(stack) /\ stack'[Len(stack)].routine = stack[Len(stack)].routine
  BY DEF Replaced, Top
<1>3. \A i \in 1..Len(stack) : stack'[i].routine = stack[i].routine
  BY <1>1, <1>2 DEF Replaced
<1>4. \A i \in 1..(Len(stack) - 1) : Calls(stack'[i], stack'[i + 1].routine)
  BY <1>1, <1>3 DEF Nested, Replaced
<1>5. stack'[1].routine \in Mains BY <1>1, <1>3 DEF Nested
<1> QED BY <1>2, <1>4, <1>5 DEF Nested, Replaced, Calls, Routine

LEMMA NestedReturned ==
  ASSUME Nested, stack # <<>>, Returned
  PROVE  Nested'
<1>1. stack \in Seq(Frames) /\ Len(stack) > 0 /\ Len(stack) \in Nat BY TopTyped DEF Nested
<1>2. CASE stack' = <<>> BY SMTT(30), <1>2 DEF Nested, Calls, Routine
<1>3. CASE stack' # <<>>
  <2> DEFINE n == Len(stack) - 1
  <2>1. /\ n \in Nat /\ n >= 1 /\ stack' \in Seq(Frames) /\ Len(stack') = n
        /\ stack'[n] = Advanced(stack[n], Top.any)
        /\ \A i \in 1..(n - 1) : stack'[i] = stack[i]
    BY <1>1, <1>3 DEF Returned, Top
  <2>2. stack[n] \in Frames /\ Calls(stack[n], stack[n + 1].routine)
    BY <1>1, <2>1 DEF Nested
  <2>3. stack'[n].routine = stack[n].routine
    <3>1. Top \in Frames BY TopTyped DEF Nested
    <3>2. Top.any \in BOOLEAN BY <3>1 DEF Frames
    <3>3. stack[n].pc \in DOMAIN Routine(stack[n]).body BY <2>2 DEF Calls
    <3>4. Advanced(stack[n], Top.any).routine = stack[n].routine
      BY SMTT(30), <2>2, <3>2, <3>3, AdvancedKeeps
    <3> QED BY <2>1, <3>4
  <2>4. \A i \in 1..n : stack'[i].routine = stack[i].routine BY <2>1, <2>3
  <2>5. \A i \in 1..(n - 1) : Calls(stack'[i], stack'[i + 1].routine)
    BY <1>1, <2>1, <2>4 DEF Nested
  <2>6. stack'[1].routine \in Mains BY <1>1, <2>1, <2>4 DEF Nested
  <2>7. (\A i \in 1..(Len(stack) - 1) : Calls(stack[i], stack[i + 1].routine))'
    BY <2>1, <2>5 DEF Calls, Routine
  <2> QED BY <2>1, <2>6, <2>7 DEF Nested
<1> QED BY <1>2, <1>3

LEMMA NestedEntered ==
  ASSUME Nested, stack # <<>>, version \in Nat, NEW r \in Names, Entered(r), Calls(Top, r)
  PROVE  Nested'
<1> DEFINE n == Len(stack)
<1>1. stack \in Seq(Frames) /\ n > 0 /\ n \in Nat BY TopTyped DEF Nested
<1>2. stack' \in Seq(Frames) /\ Len(stack') = n + 1 /\ \A i \in 1..n : stack'[i] = stack[i]
  BY DEF Entered
<1>3. stack'[n + 1].routine = r BY <1>2, FrameIs DEF Entered, Top
<1>4. \A i \in 1..n : Calls(stack'[i], stack'[i + 1].routine)
  BY <1>1, <1>2, <1>3 DEF Nested, Top
<1>5. stack'[1].routine \in Mains BY <1>1, <1>2 DEF Nested
<1>6. Len(stack') - 1 = n BY <1>1, <1>2
<1> QED BY <1>2, <1>4, <1>5, <1>6 DEF Nested, Calls, Routine

\* The same moves, as steps of a nested stack.
LEMMA NestedAdvance ==
  ASSUME Nested, stack # <<>>, Top.pc \in DOMAIN Routine(Top).body,
         NEW c \in BOOLEAN, Advance(c)
  PROVE  Nested'
<1>1. Top \in Frames BY TopTyped DEF Nested
<1>2. Replaced(Advanced(Top, c)) BY AdvanceMoves DEF Nested
<1>3. Advanced(Top, c).routine = Top.routine BY SMTT(30), <1>1, AdvancedKeeps
<1> QED BY <1>2, <1>3, NestedReplaced

LEMMA NestedJump ==
  ASSUME Nested, stack # <<>>, NEW pc \in Nat, Jump(pc)
  PROVE  Nested'
<1> DEFINE g == [Top EXCEPT !.pc = pc, !.said = {}]
<1>1. Top \in Frames BY TopTyped DEF Nested
<1>2. Replaced(g) BY JumpMoves DEF Nested
<1>3. g.routine = Top.routine BY <1>1, JumpedIs
<1> HIDE DEF g
<1> QED BY <1>2, <1>3, NestedReplaced

LEMMA NestedReturn ==
  ASSUME Nested, stack # <<>>, Return
  PROVE  Nested'
BY ReturnMoves, NestedReturned

\* The lambda a call step enters.
LEMMA CallEnters ==
  ASSUME TypeInv, CallStep
  PROVE  \E r \in Names : /\ Calls(Top, r) /\ Entered(r)
                          /\ Current.do = "half" => r = IF fastPhase THEN "FastPhase"
                                                                     ELSE "MediumPhase"
                          /\ Current.do # "half" => r = Current.what[1]
<1> DEFINE r == IF Current.do # "half" THEN Current.what[1]
                ELSE IF fastPhase THEN "FastPhase" ELSE "MediumPhase"
<1>1. /\ stack # <<>> /\ Top.pc \in DOMAIN Routine(Top).body
      /\ Current.do \in {"call", "bootstrap", "half"}
      /\ stack' = Append(stack, Frame(r))
  BY DEF CallStep, AtStep
<1>2. Top \in Frames BY <1>1, TopTyped DEF TypeInv, Nested
<1>3. Calls(Top, r) BY <1>1 DEF Calls, Current
<1>4. r \in Names BY <1>2, <1>3, CalledIs
<1>5. /\ Current.do = "half" => r = IF fastPhase THEN "FastPhase" ELSE "MediumPhase"
      /\ Current.do # "half" => r = Current.what[1]
  OBVIOUS
<1> HIDE DEF r
<1>6. Entered(r) BY <1>1, <1>4, AppendMoves DEF TypeInv, Nested, VarsTyped
<1> QED BY <1>3, <1>4, <1>5, <1>6

LEMMA NestedCall ==
  ASSUME TypeInv, CallStep
  PROVE  Nested'
<1>1. stack # <<>> BY DEF CallStep, AtStep
<1>2. PICK r \in Names : Calls(Top, r) /\ Entered(r) BY CallEnters
<1> QED BY <1>1, <1>2, NestedEntered DEF TypeInv, VarsTyped

-----------------------------------------------------------------------------
(* Type correctness.                                                       *)

LEMMA TypeInvInit == Init => TypeInv
<1> SUFFICES ASSUME Init PROVE TypeInv OBVIOUS
<1>1. VarsTyped
  <2>1. act \in Activities BY DEF Init, NoActivity, Activities
  <2>2. rules \in Seq(RuleNames) BY DEF Init
  <2>3. nnz \in Nat BY SchedulerAssumption DEF Init
  <2>4. version \in Nat /\ lateCommits \in Nat BY DEF Init
  <2>5. /\ iterations \in Nat /\ phaseNnz \in Nat /\ cycleNnz \in Nat
        /\ terminal \in BOOLEAN /\ statusBad \in BOOLEAN
        /\ expired \in BOOLEAN /\ fastPhase \in BOOLEAN
        /\ planChanged \in BOOLEAN /\ planBad \in BOOLEAN
        /\ busy \in {"idle", "phase", "closure", "group", "round", "close"}
    BY DEF Init
  <2> QED BY <2>1, <2>2, <2>3, <2>4, <2>5 DEF VarsTyped
<1>2. Nested
  <2>1. PICK main \in Schedulers :
          stack = <<[routine |-> main, pc |-> 0, said |-> {}, any |-> FALSE, entered |-> 0]>>
    BY DEF Init
  <2> DEFINE f == [routine |-> main, pc |-> 0, said |-> {}, any |-> FALSE, entered |-> 0]
  <2>2. main \in Mains BY SchedulerAssumption DEF Mains
  <2>3. f \in Frames /\ f.routine = main BY <2>2 DEF Frames, Names, Mains
  <2> HIDE DEF f
  <2>4. stack = <<f>> BY <2>1 DEF f
  <2> QED BY <2>2, <2>3, <2>4 DEF Nested
<1>3. Doing BY DEF Init, Doing
<1> QED BY <1>1, <1>2, <1>3 DEF TypeInv

\* The steps between two phases change nothing but the stack and the loops.
LEMMA ControlTyped ==
  ASSUME TypeInv, EnterPass \/ Skip \/ CallStep \/ EndPass \/ EndIteration \/ EndCycle
  PROVE  VarsTyped' /\ Doing'
<1>1. busy = "idle" /\ busy' = busy
  BY DEF EnterPass, Skip, CallStep, EndPass, EndIteration, EndCycle, planVars, AtStep
<1>2. /\ rules' = rules /\ planChanged' = planChanged /\ planBad' = planBad /\ act' = act
      /\ terminal' = terminal /\ statusBad' = statusBad /\ expired' = expired
      /\ nnz' = nnz /\ version' = version /\ lateCommits' = lateCommits
  BY DEF EnterPass, Skip, CallStep, EndPass, EndIteration, EndCycle, planVars, statusVars, lpVars
<1>3. /\ iterations' \in Nat /\ fastPhase' \in BOOLEAN
      /\ phaseNnz' \in Nat /\ cycleNnz' \in Nat
  <2>1. /\ iterations \in Nat /\ fastPhase \in BOOLEAN /\ phaseNnz \in Nat
        /\ cycleNnz \in Nat /\ nnz \in Nat
    BY DEF TypeInv, VarsTyped
  <2>2. CASE EnterPass \/ Skip \/ EndPass BY <2>1, <2>2 DEF EnterPass, Skip, EndPass, loopVars
  <2>3. CASE CallStep BY <2>1, <2>3 DEF CallStep
  <2>4. CASE EndIteration BY <2>1, <2>4 DEF EndIteration
  <2>5. CASE EndCycle
    <3>1. iterations' = iterations + 1 /\ phaseNnz' = phaseNnz BY <2>5 DEF EndCycle
    <3>2. fastPhase' \in BOOLEAN
      BY <2>1, <2>5 DEF EndCycle, GoodProgress
    <3>3. cycleNnz' \in {cycleNnz, nnz} BY <2>5 DEF EndCycle
    <3> QED BY <2>1, <3>1, <3>2, <3>3
  <2> QED BY <2>2, <2>3, <2>4, <2>5
<1> QED BY <1>1, <1>2, <1>3 DEF TypeInv, VarsTyped, Doing

LEMMA ControlNested ==
  ASSUME TypeInv, EnterPass \/ Skip \/ CallStep \/ EndPass \/ EndIteration \/ EndCycle
  PROVE  Nested'
<1>1. stack # <<>> /\ Nested
  BY DEF EnterPass, Skip, CallStep, EndPass, EndIteration, EndCycle, AtStep, TypeInv
<1>2. CASE Skip BY <1>1, <1>2, NestedAdvance DEF Skip
<1>3. CASE CallStep BY <1>3, NestedCall
<1>4. CASE EnterPass \/ EndPass \/ EndIteration \/ EndCycle
  <2>1. Return \/ Jump(0) \/ Jump(1)
    BY <1>4 DEF EnterPass, EndPass, EndIteration, EndCycle
  <2> QED BY <1>1, <2>1, NestedReturn, NestedJump
<1> QED BY <1>2, <1>3, <1>4

\* A step of a phase, the closure or the activity closure goes on with its
\* work or advances the top frame.
LEMMA WorkMoves ==
  ASSUME TypeInv,
         \/ StartPhase \/ RunRule \/ EndPhase \/ StartClosure \/ EndClosure
         \/ StartActivity \/ OpenGroup \/ Round \/ CloseGroup
  PROVE  /\ stack # <<>> /\ Top.pc \in DOMAIN Routine(Top).body
         /\ \/ stack' = stack /\ busy' # "idle"
            \/ busy' = "idle" /\ \E c \in BOOLEAN : Advance(c)
<1>1. stack # <<>> /\ Top.pc \in DOMAIN Routine(Top).body
  BY DEF StartPhase, RunRule, EndPhase, StartClosure, EndClosure, StartActivity, OpenGroup,
         Round, CloseGroup, AtStep, TypeInv, Doing
<1>2. act.any \in BOOLEAN /\ planChanged \in BOOLEAN /\ planBad \in BOOLEAN
  BY DEF TypeInv, VarsTyped, Activities
<1>3. CASE StartPhase BY <1>3 DEF StartPhase, AtStep, planVars
<1>4. CASE RunRule BY <1>1, <1>4 DEF RunRule
<1>5. CASE EndPhase BY <1>1, <1>2, <1>5 DEF EndPhase
<1>6. CASE StartClosure BY <1>6 DEF StartClosure, AtStep
<1>7. CASE EndClosure BY <1>1, <1>7 DEF EndClosure
<1>8. CASE StartActivity BY <1>8 DEF StartActivity, AtStep
<1>9. CASE OpenGroup BY <1>1, <1>2, <1>9 DEF OpenGroup, Leave
<1>10. CASE Round BY <1>1, <1>10 DEF Round
<1>11. CASE CloseGroup BY <1>1, <1>2, <1>11 DEF CloseGroup, Leave
<1> QED BY <1>1, <1>3, <1>4, <1>5, <1>6, <1>7, <1>8, <1>9, <1>10, <1>11

LEMMA NestedKept ==
  ASSUME Nested, stack' = stack
  PROVE  Nested'
BY DEF Nested, Calls, Routine

LEMMA WorkNested ==
  ASSUME TypeInv,
         \/ StartPhase \/ RunRule \/ EndPhase \/ StartClosure \/ EndClosure
         \/ StartActivity \/ OpenGroup \/ Round \/ CloseGroup
  PROVE  Nested'
<1>1. CASE stack' = stack BY <1>1, NestedKept DEF TypeInv
<1>2. CASE stack' # stack BY <1>2, WorkMoves, NestedAdvance DEF TypeInv
<1> QED BY <1>1, <1>2

\* A commit replaces the working LP by the next version.
LEMMA CommitTyped ==
  ASSUME VarsTyped, Commit
  PROVE  /\ version' = version + 1 /\ version' \in Nat /\ nnz' \in Nat /\ lateCommits' \in Nat
         /\ quiet' = {} /\ clean' = {}
BY SchedulerAssumption DEF VarsTyped, Commit

LEMMA LpTyped ==
  ASSUME VarsTyped,
         Commit \/ (nnz' = nnz /\ version' = version /\ lateCommits' = lateCommits)
  PROVE  version' \in Nat /\ nnz' \in Nat /\ lateCommits' \in Nat
BY CommitTyped DEF VarsTyped

LEMMA WorkTyped ==
  ASSUME TypeInv,
         \/ StartPhase \/ RunRule \/ EndPhase \/ StartClosure \/ EndClosure
         \/ StartActivity \/ OpenGroup \/ Round \/ CloseGroup
  PROVE  VarsTyped'
<1> USE DEF TypeInv
<1>1. /\ iterations' = iterations /\ fastPhase' = fastPhase /\ phaseNnz' = phaseNnz
      /\ cycleNnz' = cycleNnz /\ expired' = expired
  BY DEF StartPhase, RunRule, EndPhase, StartClosure, EndClosure, StartActivity, OpenGroup,
         Round, CloseGroup, loopVars
<1>2. Commit \/ (nnz' = nnz /\ version' = version /\ lateCommits' = lateCommits)
  BY DEF StartPhase, RunRule, EndPhase, StartClosure, EndClosure, StartActivity, OpenGroup,
         Round, CloseGroup, lpVars
<1>3. version' \in Nat /\ nnz' \in Nat /\ lateCommits' \in Nat BY <1>2, LpTyped
<1>4. /\ terminal' \in BOOLEAN /\ statusBad' \in BOOLEAN
      /\ planChanged' \in BOOLEAN /\ planBad' \in BOOLEAN
  BY DEF StartPhase, RunRule, EndPhase, StartClosure, EndClosure, StartActivity, OpenGroup,
         Round, CloseGroup, statusVars, planVars, VarsTyped
<1>5. busy' \in {"idle", "phase", "closure", "group", "round", "close"}
  BY DEF StartPhase, RunRule, EndPhase, StartClosure, EndClosure, StartActivity, OpenGroup,
         Round, CloseGroup, planVars, VarsTyped, Leave
<1>6. rules' \in Seq(RuleNames)
  <2>1. rules \in Seq(RuleNames) BY DEF VarsTyped
  <2>2. CASE StartPhase
    <3>1. stack # <<>> /\ Top.pc \in DOMAIN Routine(Top).body /\ Current.do \in {"phase", "untimed"}
      BY <2>2 DEF StartPhase, AtStep
    <3>2. Current.what \in Seq(RuleNames)
      BY <3>1, TopTyped, WiredAt DEF Nested, WiredStep, Current
    <3> QED BY <2>1, <2>2, <3>2 DEF StartPhase, planVars
  <2>3. CASE RunRule BY <2>1, <2>3 DEF RunRule
  <2>4. CASE ~StartPhase /\ ~RunRule
    BY <2>1, <2>4 DEF EndPhase, StartClosure, EndClosure, StartActivity, OpenGroup, Round,
                     CloseGroup
  <2> QED BY <2>2, <2>3, <2>4
<1>7. act' \in Activities
  <2>1. act \in Activities BY DEF VarsTyped
  <2>2. NoActivity \in Activities BY DEF NoActivity, Activities
  <2>3. CASE OpenGroup
    <3>1. \A limit \in 1..MaxBoundOnly :
            [act EXCEPT !.limit = limit, !.group = FALSE, !.structural = FALSE] \in Activities
      <4> SUFFICES ASSUME NEW limit \in 1..MaxBoundOnly
                   PROVE  [act EXCEPT !.limit = limit, !.group = FALSE, !.structural = FALSE]
                            \in Activities
        OBVIOUS
      <4>1. limit \in Nat BY SchedulerAssumption
      <4>2. [act EXCEPT !.limit = limit] \in Activities BY <2>1, <4>1 DEF Activities
      <4> DEFINE a == [act EXCEPT !.limit = limit]
      <4>3. [act EXCEPT !.limit = limit, !.group = FALSE, !.structural = FALSE]
              = [a EXCEPT !.group = FALSE, !.structural = FALSE]
        OBVIOUS
      <4> HIDE DEF a
      <4>4. [a EXCEPT !.group = FALSE, !.structural = FALSE] \in Activities
        BY <4>2 DEF Activities, a
      <4> QED BY <4>3, <4>4
    <3> QED BY <2>2, <2>3, <3>1 DEF OpenGroup, Leave
  <2>4. CASE Round
    <3> DEFINE ran == [act EXCEPT !.rounds = @ + 1]
               changed == [ran EXCEPT !.group = TRUE, !.any = TRUE]
    <3>1. ran \in Activities BY <2>1 DEF Activities
    <3> HIDE DEF ran
    <3>2. changed \in Activities BY <3>1 DEF Activities
    <3> HIDE DEF changed
    <3>3. [changed EXCEPT !.structural = TRUE, !.boundOnly = 0] \in Activities
      BY <3>2 DEF Activities
    <3>4. [changed EXCEPT !.structural = FALSE, !.boundOnly = @ + 1] \in Activities
      <4>1. changed.boundOnly + 1 \in Nat BY <3>2 DEF Activities
      <4> QED BY <3>2, <4>1 DEF Activities
    <3>5. \/ act' = act \/ act' = ran
          \/ act' = [changed EXCEPT !.structural = TRUE, !.boundOnly = 0]
          \/ act' = [changed EXCEPT !.structural = FALSE, !.boundOnly = @ + 1]
      BY <2>4 DEF Round, ran, changed
    <3> QED BY <2>1, <3>1, <3>3, <3>4, <3>5
  <2>5. CASE ~OpenGroup /\ ~Round
    BY <2>1, <2>2, <2>5 DEF StartPhase, RunRule, EndPhase, StartClosure, EndClosure,
                            StartActivity, CloseGroup, Leave, planVars
  <2> QED BY <2>3, <2>4, <2>5
<1> QED BY <1>1, <1>3, <1>4, <1>5, <1>6, <1>7 DEF VarsTyped

LEMMA CurrentKept ==
  ASSUME stack' = stack
  PROVE  Current' = Current /\ Top' = Top /\ Routine(Top)' = Routine(Top)
BY DEF Current, Top, Routine

LEMMA WorkDoing ==
  ASSUME TypeInv,
         \/ StartPhase \/ RunRule \/ EndPhase \/ StartClosure \/ EndClosure
         \/ StartActivity \/ OpenGroup \/ Round \/ CloseGroup
  PROVE  Doing'
<1>1. stack # <<>> /\ Top.pc \in DOMAIN Routine(Top).body BY WorkMoves
<1>2. CASE busy' = "idle" BY <1>2 DEF Doing
<1>3. CASE busy' # "idle"
  <2>1. stack' = stack BY <1>3, WorkMoves
  <2>2. /\ busy' = "phase" => Current.do \in {"phase", "untimed"}
        /\ busy' = "closure" => Current.do = "closure"
        /\ busy' \in {"group", "round", "close"} => Current.do = "activity"
    BY <1>3 DEF StartPhase, RunRule, EndPhase, StartClosure, EndClosure, StartActivity,
                OpenGroup, Round, CloseGroup, Leave, TypeInv, Doing, AtStep, planVars
  <2> QED BY <1>1, <2>1, <2>2, CurrentKept DEF Doing
<1> QED BY <1>2, <1>3

LEMMA TypeInvStep == TypeInv /\ [Next]_vars => TypeInv'
<1> SUFFICES ASSUME TypeInv, [Next]_vars PROVE TypeInv' OBVIOUS
<1>1. CASE EnterPass \/ Skip \/ CallStep \/ EndPass \/ EndIteration \/ EndCycle
  BY <1>1, ControlTyped, ControlNested DEF TypeInv
<1>2. CASE \/ StartPhase \/ RunRule \/ EndPhase \/ StartClosure \/ EndClosure
           \/ StartActivity \/ OpenGroup \/ Round \/ CloseGroup
  BY <1>2, WorkTyped, WorkNested, WorkDoing DEF TypeInv
<1>3. CASE Expire
  <2>1. Nested' BY <1>3, NestedKept DEF Expire, TypeInv
  <2>2. VarsTyped' BY <1>3 DEF Expire, TypeInv, VarsTyped, planVars, statusVars, loopVars, lpVars
  <2>3. Doing' BY <1>3, CurrentKept DEF Expire, TypeInv, Doing, planVars
  <2> QED BY <2>1, <2>2, <2>3 DEF TypeInv
<1>4. CASE UNCHANGED vars
  <2>1. Nested' BY <1>4, NestedKept DEF vars, TypeInv
  <2>2. VarsTyped'
    BY <1>4 DEF vars, TypeInv, VarsTyped, planVars, statusVars, loopVars, lpVars
  <2>3. Doing' BY <1>4, CurrentKept DEF vars, TypeInv, Doing, planVars
  <2> QED BY <2>1, <2>2, <2>3 DEF TypeInv
<1> QED BY <1>1, <1>2, <1>3, <1>4 DEF Next, Work

\* Type correctness of the scheduler, with the shape of its stack: every
\* frame but the last is at a step that calls the lambda of the next frame,
\* and the work in hand is that of the current step of the last.
THEOREM WellFormed == Spec => []TypeInv
BY TypeInvInit, TypeInvStep, PTL DEF Spec

-----------------------------------------------------------------------------
(* The verdict and the deadline.                                           *)

\* Phases and the closure start only before a verdict.
VerdictInv == busy \in {"phase", "closure"} => ~terminal

LEMMA VerdictInvStep == VerdictInv /\ [Next]_vars => VerdictInv'
<1> SUFFICES ASSUME VerdictInv, [Next]_vars, busy' \in {"phase", "closure"} PROVE ~terminal'
  BY DEF VerdictInv
<1>1. CASE EnterPass \/ Skip \/ CallStep \/ EndPass \/ EndIteration \/ EndCycle
  BY <1>1 DEF EnterPass, Skip, CallStep, EndPass, EndIteration, EndCycle, VerdictInv,
              planVars, statusVars
<1>2. CASE StartPhase
  BY <1>2 DEF StartPhase, PhaseBarred, statusVars, planVars, VerdictInv
<1>3. CASE StartClosure BY <1>3 DEF StartClosure, Stopped, statusVars, VerdictInv
<1>4. CASE RunRule \/ EndPhase \/ EndClosure
  BY <1>4 DEF RunRule, EndPhase, EndClosure, statusVars, VerdictInv
<1>5. CASE StartActivity \/ OpenGroup \/ Round \/ CloseGroup
  BY <1>5 DEF StartActivity, OpenGroup, Round, CloseGroup, Leave, AtStep
<1>6. CASE Expire \/ UNCHANGED vars
  BY <1>6 DEF Expire, vars, planVars, statusVars, VerdictInv
<1> QED BY <1>1, <1>2, <1>3, <1>4, <1>5, <1>6 DEF Next, Work

\* No step takes a verdict back, or commits anything after it.
LEMMA VerdictKept ==
  ASSUME VarsTyped, VerdictInv, [Next]_vars, terminal
  PROVE  version' = version /\ terminal' /\ statusBad' = statusBad
<1>1. busy \notin {"phase", "closure"} BY DEF VerdictInv
<1>2. CASE EnterPass \/ Skip \/ CallStep \/ EndPass \/ EndIteration \/ EndCycle
  BY <1>2 DEF EnterPass, Skip, CallStep, EndPass, EndIteration, EndCycle, statusVars, lpVars
<1>3. CASE StartPhase \/ StartClosure \/ StartActivity \/ OpenGroup
  BY <1>3 DEF StartPhase, StartClosure, StartActivity, OpenGroup, statusVars, lpVars
<1>4. CASE RunRule \/ EndPhase \/ EndClosure
  BY <1>1, <1>4 DEF RunRule, EndPhase, EndClosure
<1>5. CASE Round BY <1>5 DEF Round, Stopped, statusVars
<1>6. CASE CloseGroup BY <1>6 DEF CloseGroup, statusVars, lpVars
<1>7. CASE Expire \/ UNCHANGED vars BY <1>7 DEF Expire, vars, statusVars, lpVars
<1> QED BY <1>2, <1>3, <1>4, <1>5, <1>6, <1>7 DEF Next, Work

\* After infeasibility or unboundedness was found no plan is applied and the
\* verdict is not taken back, for every set of enabled rules, every limit and
\* every deadline.
THEOREM VerdictStands == Spec => VerdictIsFinal
<1>1. Init => VerdictInv BY DEF Init, VerdictInv
<1>2. TypeInv /\ VerdictInv /\ [Next]_vars
        => [terminal => version' = version /\ terminal' /\ statusBad' = statusBad]_vars
  BY VerdictKept DEF TypeInv
<1> QED BY <1>1, <1>2, VerdictInvStep, WellFormed, PTL DEF Spec, VerdictIsFinal

\* The bootstrap has not yet passed its first rewrite, which does not look
\* at the deadline.
AtBootstrap == stack # <<>> /\ Top.routine = "Bootstrap" /\ Top.pc \in {0, 1}

\* What is committed late was begun in time, or is that first rewrite.
LateInv ==
  /\ ~expired => lateCommits = 0
  /\ busy \in {"phase", "closure", "round", "close"} => lateCommits = 0
  /\ AtBootstrap => lateCommits = 0
  /\ lateCommits <= 1

LEMMA LoopOfBootstrap == Routines["Bootstrap"].loop = "bootstrap"
BY DEF Routines

\* A frame that comes back to the top, or passes a step, is past its first.
LEMMA PassedFirst ==
  ASSUME TypeInv, stack # <<>>, stack' # <<>>,
         \/ Return
         \/ Top.pc \in DOMAIN Routine(Top).body /\ \E c \in BOOLEAN : Advance(c)
  PROVE  Top'.pc \in Nat /\ Top'.pc >= 2
<1>1. stack \in Seq(Frames) /\ Top \in Frames /\ Len(stack) \in Nat /\ Len(stack) > 0
  BY TopTyped DEF TypeInv, Nested
<1>2. \A f \in Frames, c \in BOOLEAN :
        f.pc \in DOMAIN Routine(f).body
          => Advanced(f, c).pc \in Nat /\ Advanced(f, c).pc >= 2
  <2> SUFFICES ASSUME NEW f \in Frames, NEW c \in BOOLEAN, f.pc \in DOMAIN Routine(f).body
               PROVE  Advanced(f, c).pc \in Nat /\ Advanced(f, c).pc >= 2
    OBVIOUS
  <2>1. f.pc \in 1..Len(Routine(f).body) BY AllWired DEF Frames, Wired, Routine
  <2>2. Len(Routine(f).body) \in Nat BY AllWired DEF Frames, Wired, Routine
  <2>3. f.pc \in Nat /\ f.pc >= 1 BY <2>1, <2>2
  <2>4. Advanced(f, c).pc = f.pc + 1 BY SMTT(30), AdvancedKeeps
  <2> QED BY <2>3, <2>4
<1>3. CASE Return
  <2>1. /\ Len(stack) > 1 /\ Top' = Advanced(stack[Len(stack) - 1], Top.any)
    BY <1>3, ReturnMoves DEF Returned, TypeInv
  <2> DEFINE f == stack[Len(stack) - 1]
  <2>2. f \in Frames BY <1>1, <2>1
  <2>3. f.pc \in DOMAIN Routine(f).body BY <1>1, <2>1 DEF TypeInv, Nested, Calls
  <2>4. Top.any \in BOOLEAN BY <1>1 DEF Frames
  <2> HIDE DEF f
  <2>5. Top' = Advanced(f, Top.any) BY <2>1 DEF f
  <2> QED BY <1>2, <2>2, <2>3, <2>4, <2>5
<1>4. CASE Top.pc \in DOMAIN Routine(Top).body /\ \E c \in BOOLEAN : Advance(c)
  <2>1. PICK c \in BOOLEAN : Advance(c) BY <1>4
  <2>2. Top' = Advanced(Top, c) BY <1>1, <1>4, <2>1, AdvanceMoves DEF Replaced
  <2> QED BY <1>1, <1>2, <1>4, <2>2
<1> QED BY <1>3, <1>4

LEMMA LateControl ==
  ASSUME TypeInv, LateInv,
         EnterPass \/ Skip \/ CallStep \/ EndPass \/ EndIteration \/ EndCycle
  PROVE  LateInv'
<1>1. stack # <<>> /\ Nested
  BY DEF EnterPass, Skip, CallStep, EndPass, EndIteration, EndCycle, AtStep, TypeInv
<1>2. busy' = "idle" /\ expired' = expired /\ lateCommits' = lateCommits
  BY DEF EnterPass, Skip, CallStep, EndPass, EndIteration, EndCycle, AtStep, planVars, lpVars
<1>3. Top \in Frames BY <1>1, TopTyped DEF Nested
<1>4. ASSUME AtBootstrap' PROVE lateCommits = 0
  <2>1. CASE Skip
    <3>1. Top.pc \in DOMAIN Routine(Top).body /\ \E c \in BOOLEAN : Advance(c)
      BY <2>1 DEF Skip
    <3> QED BY <1>1, <1>4, <3>1, PassedFirst DEF AtBootstrap
  <2>2. CASE Return BY <1>1, <1>4, <2>2, PassedFirst DEF AtBootstrap
  <2>3. CASE CallStep
    <3>1. PICK r \in Names : /\ Calls(Top, r) /\ Entered(r)
                             /\ Current.do = "half" => r = IF fastPhase THEN "FastPhase"
                                                                       ELSE "MediumPhase"
                             /\ Current.do # "half" => r = Current.what[1]
      BY <2>3, CallEnters
    <3>2. r = "Bootstrap" BY <1>4, <3>1, FrameIs DEF AtBootstrap, Entered, TypeInv, VarsTyped
    <3>3. /\ Current.do \in {"call", "bootstrap", "half"} /\ Wanted(Current)
          /\ Top.pc \in DOMAIN Routine(Top).body
      BY <2>3 DEF CallStep, AtStep
    <3>4. WiredStep(Top.routine, Top.pc, Current) BY <1>3, <3>3, WiredAt DEF Current
    <3>5. Current.do = "bootstrap" BY <3>1, <3>2, <3>3, <3>4 DEF WiredStep
    <3> QED BY <3>3, <3>5 DEF Wanted, LateInv
  <2>4. CASE EnterPass /\ Jump(1)
    <3>1. Replaced([Top EXCEPT !.pc = 1, !.said = {}]) BY <1>1, <2>4, JumpMoves DEF Nested
    <3>2. Top'.routine = Top.routine BY <1>3, <3>1, JumpedIs DEF Replaced
    <3>3. Top.pc = 0 BY <2>4 DEF EnterPass
    <3> QED BY <1>1, <1>4, <3>2, <3>3 DEF AtBootstrap, LateInv
  <2>5. CASE (EndPass \/ EndIteration \/ EndCycle) /\ Jump(0)
    <3>1. Replaced([Top EXCEPT !.pc = 0, !.said = {}]) BY <1>1, <2>5, JumpMoves DEF Nested
    <3>2. Top'.routine = Top.routine BY <1>3, <3>1, JumpedIs DEF Replaced
    <3>3. Top.routine = "Bootstrap" BY <1>4, <3>2 DEF AtBootstrap
    <3>4. Routine(Top).loop = "bootstrap" BY <3>3, LoopOfBootstrap DEF Routine
    <3>5. EndIteration BY <2>5, <3>3, <3>4 DEF EndPass, EndCycle
    <3>6. Return BY <3>4, <3>5 DEF EndIteration
    <3> QED BY <2>2, <3>6
  <2> QED BY <1>1, <2>1, <2>2, <2>3, <2>4, <2>5 DEF EnterPass, EndPass, EndIteration, EndCycle
<1> QED BY <1>2, <1>4 DEF LateInv

\* Only a commit can be late.
LEMMA LateCount ==
  ASSUME VarsTyped, lateCommits = 0,
         Commit \/ lateCommits' = lateCommits
  PROVE  lateCommits' <= 1 /\ (~expired => lateCommits' = 0)
BY DEF Commit

LEMMA LateWork ==
  ASSUME TypeInv, LateInv,
         \/ StartPhase \/ RunRule \/ EndPhase \/ StartClosure \/ EndClosure
         \/ StartActivity \/ OpenGroup \/ Round \/ CloseGroup
  PROVE  LateInv'
<1>1. stack # <<>> /\ Top.pc \in DOMAIN Routine(Top).body /\ Top \in Frames
  BY WorkMoves, TopTyped DEF TypeInv, Nested
<1>2. WiredStep(Top.routine, Top.pc, Current) BY <1>1, WiredAt DEF Current
<1>3. expired' = expired
  BY DEF StartPhase, RunRule, EndPhase, StartClosure, EndClosure, StartActivity, OpenGroup,
         Round, CloseGroup
\* The steps that may begin something.
<1>4. CASE StartPhase \/ StartClosure \/ StartActivity \/ OpenGroup
  <2>1. lateCommits' = lateCommits
    BY <1>4 DEF StartPhase, StartClosure, StartActivity, OpenGroup, lpVars
  <2>2. busy' \in {"phase", "closure", "round", "close"} => lateCommits = 0
    <3>1. CASE StartPhase
      <4>1. CASE busy' # "phase" BY <1>4, <3>1, <4>1 DEF StartPhase, AtStep, planVars
      <4>2. CASE busy' = "phase"
        <5>1. ~PhaseBarred(Current) /\ Current.do \in {"phase", "untimed"}
          BY <3>1, <4>2 DEF StartPhase, AtStep, planVars
        <5>2. CASE ~expired BY <5>2 DEF LateInv
        <5>3. CASE expired
          <6>1. Current.do = "untimed" BY <5>1, <5>3 DEF PhaseBarred
          <6> QED BY <1>1, <1>2, <6>1 DEF WiredStep, AtBootstrap, LateInv
        <5> QED BY <5>2, <5>3
      <4> QED BY <3>1, <4>1, <4>2 DEF StartPhase, AtStep, planVars
    <3>2. CASE StartClosure BY <3>2 DEF StartClosure, AtStep, Stopped, LateInv
    <3>3. CASE StartActivity BY <3>3 DEF StartActivity, AtStep
    <3>4. CASE OpenGroup BY <3>4 DEF OpenGroup, Stopped, Leave, LateInv
    <3> QED BY <1>4, <3>1, <3>2, <3>3, <3>4
  <2>3. AtBootstrap' => lateCommits = 0
    <3>1. CASE stack' = stack BY <3>1, CurrentKept DEF AtBootstrap, LateInv
    <3>2. CASE stack' # stack BY <1>1, <3>2, WorkMoves, PassedFirst DEF AtBootstrap
    <3> QED BY <3>1, <3>2
  <2> QED BY <1>3, <2>1, <2>2, <2>3 DEF LateInv
\* The steps of what was begun before the deadline.
<1>5. CASE RunRule \/ Round
  <2>1. /\ lateCommits' = lateCommits /\ lateCommits = 0
    BY <1>5 DEF RunRule, Round, LateInv
  <2> QED BY <1>3, <2>1 DEF LateInv
\* The steps that commit.
<1>6. CASE EndPhase \/ EndClosure \/ CloseGroup
  <2>1. lateCommits = 0 /\ busy' \in {"idle", "group"}
    BY <1>6 DEF EndPhase, EndClosure, CloseGroup, LateInv, Leave
  <2>2. lateCommits' <= 1 /\ (~expired => lateCommits' = 0)
    <3>1. Commit \/ lateCommits' = lateCommits
      BY <1>6 DEF EndPhase, EndClosure, CloseGroup, lpVars
    <3> QED BY <2>1, <3>1, LateCount DEF TypeInv
  <2>3. ~AtBootstrap'
    <3>1. CASE stack' # stack BY <1>1, <3>1, WorkMoves, PassedFirst DEF AtBootstrap
    <3>2. CASE stack' = stack
      <4>1. CloseGroup
        <5>1. Top' = Top BY <3>2, CurrentKept
        <5>2. ASSUME NEW c \in BOOLEAN, Advance(c) PROVE FALSE
          <6>1. Advanced(Top, c).pc = Top.pc + 1 BY SMTT(30), <1>1, AdvancedKeeps
          <6>2. Top' = Advanced(Top, c) BY <1>1, <5>2, AdvanceMoves DEF Replaced, TypeInv, Nested
          <6>3. Top.pc \in Nat BY <1>1 DEF Frames
          <6>4. Advanced(Top, c) = Top BY <5>1, <6>2
          <6>5. Top.pc = Top.pc + 1 BY <6>1, <6>4
          <6> QED BY <6>3, <6>5
        <5>3. planChanged \in BOOLEAN /\ planBad \in BOOLEAN BY DEF TypeInv, VarsTyped
        <5> QED BY <1>6, <5>2, <5>3 DEF EndPhase, EndClosure
      <4>2. Current.do = "activity" BY <4>1 DEF CloseGroup, TypeInv, Doing
      <4>3. Top.routine = "Activity" BY <1>2, <4>2 DEF WiredStep
      <4> QED BY <3>2, <4>3, CurrentKept DEF AtBootstrap
    <3> QED BY <3>1, <3>2
  <2> QED BY <1>3, <2>1, <2>2, <2>3 DEF LateInv
<1> QED BY <1>4, <1>5, <1>6

LEMMA LateInvStep == TypeInv /\ LateInv /\ [Next]_vars => LateInv'
<1> SUFFICES ASSUME TypeInv, LateInv, [Next]_vars PROVE LateInv' OBVIOUS
<1>1. CASE Expire \/ UNCHANGED vars
  <2>1. stack' = stack /\ busy' = busy /\ lateCommits' = lateCommits /\ (expired => expired')
    BY <1>1 DEF Expire, vars, planVars, lpVars
  <2> QED BY <2>1, CurrentKept DEF LateInv, AtBootstrap
<1> QED BY <1>1, LateControl, LateWork DEF Next, Work

\* The plan that was being built when the deadline passed may still be
\* applied, and no other: wherever the deadline falls, at most one commit
\* comes after it.
THEOREM DeadlineStops == Spec => []OneLateCommit
<1>1. Init => LateInv
  <2> SUFFICES ASSUME Init PROVE LateInv OBVIOUS
  <2>1. lateCommits = 0 /\ busy = "idle" BY DEF Init
  <2> QED BY <2>1 DEF LateInv
<1>2. LateInv => OneLateCommit BY DEF LateInv, OneLateCommit
<1> QED BY <1>1, <1>2, LateInvStep, WellFormed, PTL DEF Spec

-----------------------------------------------------------------------------
(* What the lambdas report.                                                *)

\* Every frame knows of the commits since it was entered, its own and those
\* of the frames it called: the frames below the top through the frame they
\* called, the top one itself or through its activity closure.
Reports ==
  /\ \A i \in 1..(Len(stack) - 1) : stack[i].any \/ stack[i].entered = stack[i + 1].entered
  /\ stack # <<>> => Top.any \/ act.any \/ Top.entered = version
  /\ \A i \in 1..Len(stack) : /\ stack[i].entered <= version
                              /\ stack[i].said # {} => stack[i].any

\* Only the activity closure collects a report of its own.
ActInv ==
  /\ busy \notin {"group", "round", "close"} => ~act.any
  /\ act.group => act.any

ReportInv == Reports /\ ActInv

LEMMA ReportsReplaced ==
  ASSUME stack \in Seq(Frames), stack # <<>>, Reports, NEW g \in Frames, Replaced(g),
         g.entered = Top.entered, g.said # {} => g.any,
         version \in Nat, version' \in Nat, version <= version',
         g.any \/ act'.any \/ g.entered = version'
  PROVE  Reports'
<1> DEFINE n == Len(stack)
<1>1. n \in Nat /\ n > 0 /\ Top = stack[n] BY TopTyped DEF Top
<1>2. /\ Len(stack') = n /\ stack'[n] = g /\ Top' = g
      /\ \A i \in 1..(n - 1) : stack'[i] = stack[i]
  BY DEF Replaced, Top
<1>3. \A i \in 1..n : stack'[i].entered = stack[i].entered /\ stack[i].entered \in Nat
  <2>1. \A i \in 1..n : stack[i] \in Frames BY <1>1
  <2>2. \A i \in 1..n : stack[i].entered \in Nat BY <2>1 DEF Frames
  <2> QED BY <1>1, <1>2, <2>2
<1> HIDE DEF n
<1>4. \A i \in 1..(n - 1) : stack'[i].any \/ stack'[i].entered = stack'[i + 1].entered
  BY <1>1, <1>2, <1>3 DEF Reports, n
<1>5. \A i \in 1..n : stack'[i].entered <= version'
  <2>1. \A i \in 1..n : stack[i].entered <= version BY DEF Reports, n
  <2> QED BY <1>3, <2>1
<1>6. \A i \in 1..n : stack'[i].said # {} => stack'[i].any
  BY <1>1, <1>2 DEF Reports, n
<1> QED BY <1>2, <1>4, <1>5, <1>6 DEF Reports

LEMMA ReportsKept ==
  ASSUME stack \in Seq(Frames), Reports, stack' = stack,
         version \in Nat, version' \in Nat, version <= version',
         stack # <<>> => Top.any \/ act'.any \/ Top.entered = version'
  PROVE  Reports'
<1>1. \A i \in 1..Len(stack) : stack[i].entered \in Nat /\ stack[i].entered <= version
  <2>1. \A i \in 1..Len(stack) : stack[i] \in Frames OBVIOUS
  <2> QED BY <2>1 DEF Frames, Reports
<1>2. \A i \in 1..Len(stack) : stack[i].entered <= version' BY <1>1
<1> QED BY <1>2, CurrentKept DEF Reports

LEMMA ReportsReturned ==
  ASSUME Nested, stack # <<>>, Reports, ~act.any, Returned,
         version \in Nat, version' = version
  PROVE  Reports'
<1>1. stack \in Seq(Frames) /\ Len(stack) > 0 /\ Len(stack) \in Nat /\ Top \in Frames
  BY TopTyped DEF Nested
<1>2. CASE stack' = <<>> BY <1>2 DEF Reports
<1>3. CASE stack' # <<>>
  <2>1. PICK n \in Nat : n + 1 = Len(stack) /\ n >= 1
    <3>1. \A m \in Nat : m > 0 /\ m # 1 => m - 1 \in Nat /\ m - 1 + 1 = m /\ m - 1 >= 1 OBVIOUS
    <3> QED BY <1>1, <1>3, <3>1 DEF Returned
  <2>2. n = Len(stack) - 1 /\ n - 1 = Len(stack) - 2 BY <2>1
  <2> DEFINE f == stack[n]
             g == Advanced(f, Top.any)
  <2>3. f \in Frames /\ f.pc \in DOMAIN Routine(f).body
    BY <1>1, <2>1, <2>2 DEF Nested, Calls
  <2>4. Top.any \in BOOLEAN BY <1>1 DEF Frames
  <2> HIDE DEF f
  <2>5. /\ g.entered = f.entered
        /\ Top.any => g.any /\ g.said # {}
        /\ ~Top.any => g.any = f.any /\ g.said = f.said
        /\ f.any => g.any
    <3> DEFINE c == Top.any
    <3> HIDE DEF c
    <3>1. c \in BOOLEAN BY <2>4 DEF c
    <3>2. Advanced(f, c).entered = f.entered BY SMTT(30), <2>3, <3>1, AdvancedKeeps
    <3>3. /\ c => Advanced(f, c).any /\ Advanced(f, c).said # {}
          /\ ~c => Advanced(f, c).any = f.any /\ Advanced(f, c).said = f.said
          /\ f.any => Advanced(f, c).any
      BY <2>3, <3>1, AdvancedTells
    <3> QED BY <3>2, <3>3 DEF c
  <2> HIDE DEF g
  <2>6. /\ Len(stack') = n /\ stack'[n] = g /\ Top' = g
        /\ \A i \in 1..(n - 1) : stack'[i] = stack[i]
    BY <1>1, <1>3, <2>1, <2>2 DEF Returned, Top, f, g
  <2>7. f.any \/ f.entered = Top.entered BY <2>1, <2>2 DEF Reports, Top, f
  <2>8. g.any \/ g.entered = version BY <2>5, <2>7 DEF Reports
  <2>9. f.entered <= version /\ (f.said # {} => f.any) BY <2>1 DEF Reports, f
  <2>10. g.entered <= version /\ (g.said # {} => g.any) BY <2>5, <2>9
  <2>11. \A i \in 1..n : stack'[i].entered = stack[i].entered BY <2>5, <2>6 DEF f
  <2>12. \A i \in 1..(n - 1) : stack'[i].any \/ stack'[i].entered = stack'[i + 1].entered
    BY <2>1, <2>6, <2>11 DEF Reports
  <2>13. \A i \in 1..n : /\ stack'[i].entered <= version
                         /\ stack'[i].said # {} => stack'[i].any
    BY <2>1, <2>6, <2>10 DEF Reports
  <2> QED BY <2>6, <2>8, <2>12, <2>13 DEF Reports
<1> QED BY <1>2, <1>3

LEMMA ReportsEntered ==
  ASSUME stack \in Seq(Frames), stack # <<>>, Reports, ~act.any, NEW r \in Names, Entered(r),
         version \in Nat, version' = version
  PROVE  Reports'
<1> DEFINE n == Len(stack)
<1>1. n \in Nat /\ n > 0 /\ Top = stack[n] BY TopTyped DEF Top
<1>2. /\ Len(stack') = n + 1 /\ stack'[n + 1] = Frame(r) /\ Top' = Frame(r)
      /\ \A i \in 1..n : stack'[i] = stack[i]
  BY DEF Entered, Top
<1>3. /\ Frame(r).entered = version /\ Frame(r).any = FALSE /\ Frame(r).said = {}
  BY FrameIs
<1> DEFINE g == Frame(r)
<1> HIDE DEF n, g
<1>4. \A i \in 1..n : stack'[i].any \/ stack'[i].entered = stack'[i + 1].entered
  <2>1. \A i \in 1..(n - 1) : stack'[i].any \/ stack'[i].entered = stack'[i + 1].entered
    BY <1>1, <1>2 DEF Reports, n
  <2>2. stack'[n].any \/ stack'[n].entered = stack'[n + 1].entered
    BY <1>1, <1>2, <1>3 DEF Reports, g
  <2> QED BY <1>1, <2>1, <2>2
<1>5. \A i \in 1..(n + 1) : /\ stack'[i].entered <= version
                            /\ stack'[i].said # {} => stack'[i].any
  BY <1>1, <1>2, <1>3 DEF Reports, n
<1>6. Len(stack') - 1 = n BY <1>1, <1>2
<1> QED BY <1>2, <1>3, <1>4, <1>5, <1>6 DEF Reports

\* A phase, the closure or the activity closure that commits says so.
LEMMA WorkTells ==
  ASSUME TypeInv, ActInv,
         \/ StartPhase \/ RunRule \/ EndPhase \/ StartClosure \/ EndClosure
         \/ StartActivity \/ OpenGroup \/ Round \/ CloseGroup
  PROVE  \/ /\ stack' = stack /\ (act.any => act'.any)
            /\ version' = version \/ act'.any
         \/ \E c \in BOOLEAN : /\ Advance(c) /\ busy' = "idle" /\ (act.any => c)
                               /\ version' = version \/ c
<1>1. act \in Activities /\ planChanged \in BOOLEAN /\ planBad \in BOOLEAN
  BY DEF TypeInv, VarsTyped
<1>2. act.any \in BOOLEAN BY <1>1 DEF Activities
<1>3. CASE StartPhase BY <1>3 DEF StartPhase, AtStep, ActInv, lpVars, planVars
<1>4. CASE RunRule BY <1>4 DEF RunRule
<1>5. CASE EndPhase
  <2>1. ~act.any BY <1>5 DEF EndPhase, ActInv
  <2>2. CASE planChanged /\ ~planBad BY <1>5, <2>1, <2>2 DEF EndPhase
  <2>3. CASE ~(planChanged /\ ~planBad) BY <1>5, <2>1, <2>3 DEF EndPhase
  <2> QED BY <2>2, <2>3
<1>6. CASE StartClosure BY <1>6 DEF StartClosure, AtStep, ActInv, lpVars
<1>7. CASE EndClosure
  <2>1. ~act.any BY <1>7 DEF EndClosure, ActInv
  <2>2. PICK c, bad \in BOOLEAN : /\ IF c /\ ~bad THEN Commit ELSE UNCHANGED lpVars
                                  /\ Advance(c)
    BY <1>7 DEF EndClosure
  <2>3. busy' = "idle" BY <1>7 DEF EndClosure
  <2>4. version' = version \/ c BY <2>2 DEF lpVars
  <2> QED BY <2>1, <2>2, <2>3, <2>4
<1>8. CASE StartActivity BY <1>8 DEF StartActivity, AtStep, ActInv, lpVars
<1>9. CASE OpenGroup
  <2>1. version' = version BY <1>9 DEF OpenGroup, lpVars
  <2>2. CASE Leave BY <1>2, <2>1, <2>2 DEF Leave
  <2>3. CASE ~Leave
    <3>1. PICK limit : act' = [act EXCEPT !.limit = limit, !.group = FALSE,
                                          !.structural = FALSE]
      BY <1>9, <2>3 DEF OpenGroup
    <3>2. act'.any = act.any BY <1>1, <3>1 DEF Activities
    <3>3. stack' = stack BY <1>9, <2>3 DEF OpenGroup
    <3> QED BY <2>1, <3>2, <3>3
  <2> QED BY <2>2, <2>3
<1>10. CASE Round
  <2>1. version' = version /\ stack' = stack BY <1>10 DEF Round
  <2>2. act.any => act'.any
    <3> DEFINE ran == [act EXCEPT !.rounds = @ + 1]
               changed == [ran EXCEPT !.group = TRUE, !.any = TRUE]
    <3>1. \/ act' = act \/ act' = ran
          \/ act' = [changed EXCEPT !.structural = TRUE, !.boundOnly = 0]
          \/ act' = [changed EXCEPT !.structural = FALSE, !.boundOnly = @ + 1]
      BY <1>10 DEF Round
    <3> QED BY <1>1, <3>1 DEF Activities
  <2> QED BY <2>1, <2>2
<1>11. CASE CloseGroup
  <2>1. version' = version \/ act.any BY <1>11 DEF CloseGroup, ActInv, lpVars
  <2>2. CASE Leave BY <1>2, <2>1, <2>2 DEF Leave
  <2>3. CASE ~Leave BY <1>11, <2>1, <2>3 DEF CloseGroup
  <2> QED BY <2>2, <2>3
<1> QED BY <1>3, <1>4, <1>5, <1>6, <1>7, <1>8, <1>9, <1>10, <1>11

LEMMA VersionGrows ==
  ASSUME VarsTyped, [Next]_vars
  PROVE  version' \in Nat /\ version <= version'
<1>1. version' = version \/ Commit
  BY DEF Next, Work, EnterPass, Skip, CallStep, EndPass, EndIteration, EndCycle, StartPhase,
         RunRule, EndPhase, StartClosure, EndClosure, StartActivity, OpenGroup, Round,
         CloseGroup, Expire, vars, lpVars
<1> QED BY <1>1 DEF VarsTyped, Commit

LEMMA ReportsStep ==
  ASSUME TypeInv, ReportInv, [Next]_vars
  PROVE  Reports'
<1>1. stack \in Seq(Frames) /\ Reports /\ ActInv /\ Nested /\ VarsTyped /\ version \in Nat
  BY DEF TypeInv, Nested, VarsTyped, ReportInv
<1>2. version' \in Nat /\ version <= version' BY <1>1, VersionGrows
<1>3. CASE EnterPass \/ Skip \/ CallStep \/ EndPass \/ EndIteration \/ EndCycle
  <2>1. stack # <<>> /\ busy = "idle" /\ version' = version /\ act' = act
    BY <1>3 DEF EnterPass, Skip, CallStep, EndPass, EndIteration, EndCycle, AtStep, planVars,
                lpVars
  <2>2. ~act.any BY <2>1 DEF ReportInv, ActInv
  <2>3. Top \in Frames BY <2>1, <1>1, TopTyped
  <2>4. Top.any \/ Top.entered = version BY <2>1, <2>2 DEF ReportInv, Reports
  <2>5. ASSUME NEW pc \in Nat, Jump(pc) PROVE Reports'
    <3> DEFINE g == [Top EXCEPT !.pc = pc, !.said = {}]
    <3>1. Replaced(g) BY <1>1, <2>1, <2>5, JumpMoves
    <3>2. g \in Frames /\ g.entered = Top.entered /\ g.any = Top.any /\ g.said = {}
      BY <2>3, JumpedIs
    <3> HIDE DEF g
    <3> QED BY <1>1, <1>2, <2>1, <2>4, <3>1, <3>2, ReportsReplaced
  <2>6. CASE Return BY <1>1, <2>1, <2>2, <2>6, ReturnMoves, ReportsReturned
  <2>7. CASE Skip
    <3> DEFINE g == Advanced(Top, FALSE)
    <3>1. Top.pc \in DOMAIN Routine(Top).body /\ Advance(FALSE) BY <2>7 DEF Skip
    <3>2. Replaced(g) BY <1>1, <2>1, <3>1, AdvanceMoves
    <3>3. g \in Frames /\ g.entered = Top.entered BY <2>3, <3>1, AdvancedIs
    <3>4. g.any = Top.any /\ g.said = Top.said BY <2>3, <3>1, AdvancedTells
    <3>5. Top.said # {} => Top.any BY <1>1, <2>1, TopTyped DEF Reports, Top
    <3> HIDE DEF g
    <3> QED BY <1>1, <1>2, <2>1, <2>4, <3>2, <3>3, <3>4, <3>5, ReportsReplaced
  <2>8. CASE CallStep
    <3>1. PICK r \in Names : Entered(r) BY <2>8, CallEnters
    <3> QED BY <1>1, <2>1, <2>2, <3>1, ReportsEntered
  <2>9. Return \/ Jump(0) \/ Jump(1) \/ Skip \/ CallStep
    BY <1>3 DEF EnterPass, EndPass, EndIteration, EndCycle
  <2> QED BY <2>5, <2>6, <2>7, <2>8, <2>9
<1>4. CASE \/ StartPhase \/ RunRule \/ EndPhase \/ StartClosure \/ EndClosure
           \/ StartActivity \/ OpenGroup \/ Round \/ CloseGroup
  <2>1. stack # <<>> /\ Top.pc \in DOMAIN Routine(Top).body BY <1>4, WorkMoves
  <2>2. Top \in Frames BY <2>1, <1>1, TopTyped
  <2>3. Top.any \/ act.any \/ Top.entered = version BY <2>1 DEF ReportInv, Reports
  <2>4. CASE /\ stack' = stack /\ (act.any => act'.any)
             /\ version' = version \/ act'.any
    BY <1>1, <1>2, <2>3, <2>4, ReportsKept
  <2>5. ASSUME NEW c \in BOOLEAN, Advance(c), act.any => c, version' = version \/ c
        PROVE  Reports'
    <3> DEFINE g == Advanced(Top, c)
    <3>1. Replaced(g) BY <1>1, <2>1, <2>5, AdvanceMoves
    <3>2. g \in Frames /\ g.entered = Top.entered BY <2>1, <2>2, AdvancedIs
    <3>3. /\ c => g.any /\ g.said # {}
          /\ ~c => g.any = Top.any /\ g.said = Top.said
          /\ Top.any => g.any
      BY <2>1, <2>2, AdvancedTells
    <3>4. Top.said # {} => Top.any BY <1>1, <2>1, TopTyped DEF Reports, Top
    <3> HIDE DEF g
    <3>5. g.said # {} => g.any BY <3>3, <3>4
    <3>6. g.any \/ g.entered = version' BY <2>3, <2>5, <3>2, <3>3
    <3> QED BY <1>1, <1>2, <2>1, <3>1, <3>2, <3>5, <3>6, ReportsReplaced
  <2> QED BY <1>1, <1>4, <2>4, <2>5, WorkTells
<1>5. CASE Expire \/ UNCHANGED vars
  <2>1. stack' = stack /\ version' = version /\ act' = act
    BY <1>5 DEF Expire, vars, planVars, lpVars
  <2> QED BY <1>1, <1>2, <2>1, ReportsKept DEF Reports
<1> QED BY <1>3, <1>4, <1>5 DEF Next, Work

LEMMA ActInvStep ==
  ASSUME TypeInv, ActInv, [Next]_vars
  PROVE  ActInv'
<1>1. act \in Activities BY DEF TypeInv, VarsTyped
<1>2. ~NoActivity.any /\ ~NoActivity.group BY DEF NoActivity
<1>3. CASE EnterPass \/ Skip \/ CallStep \/ EndPass \/ EndIteration \/ EndCycle
  BY <1>3 DEF EnterPass, Skip, CallStep, EndPass, EndIteration, EndCycle, planVars, ActInv
<1>4. CASE StartPhase \/ RunRule \/ EndPhase \/ StartClosure \/ EndClosure
  BY <1>4 DEF StartPhase, RunRule, EndPhase, StartClosure, EndClosure, planVars, ActInv, AtStep
<1>5. CASE StartActivity BY <1>2, <1>5 DEF StartActivity, AtStep, ActInv
<1>6. CASE OpenGroup
  <2>1. CASE Leave BY <1>2, <2>1 DEF Leave, ActInv
  <2>2. CASE ~Leave
    <3>1. PICK limit : act' = [act EXCEPT !.limit = limit, !.group = FALSE,
                                          !.structural = FALSE]
      BY <1>6, <2>2 DEF OpenGroup
    <3>2. ~act'.group BY <1>1, <3>1 DEF Activities
    <3>3. busy' = "round" BY <1>6, <2>2 DEF OpenGroup
    <3> QED BY <3>2, <3>3 DEF ActInv
  <2> QED BY <2>1, <2>2
<1>7. CASE Round
  <2> DEFINE ran == [act EXCEPT !.rounds = @ + 1]
             changed == [ran EXCEPT !.group = TRUE, !.any = TRUE]
  <2>1. \/ act' = act \/ act' = ran
        \/ act' = [changed EXCEPT !.structural = TRUE, !.boundOnly = 0]
        \/ act' = [changed EXCEPT !.structural = FALSE, !.boundOnly = @ + 1]
    BY <1>7 DEF Round
  <2>2. act'.group => act'.any BY <1>1, <2>1 DEF Activities, ActInv
  <2>3. busy' \in {"round", "close"} BY <1>7 DEF Round
  <2> QED BY <2>2, <2>3 DEF ActInv
<1>8. CASE CloseGroup
  <2>1. CASE Leave BY <1>2, <2>1 DEF Leave, ActInv
  <2>2. CASE ~Leave BY <1>8, <2>2 DEF CloseGroup, ActInv
  <2> QED BY <2>1, <2>2
<1>9. CASE Expire \/ UNCHANGED vars BY <1>9 DEF Expire, vars, planVars, ActInv
<1> QED BY <1>3, <1>4, <1>5, <1>6, <1>7, <1>8, <1>9 DEF Next, Work

LEMMA ReportInvInit == Init => ReportInv
<1> SUFFICES ASSUME Init PROVE ReportInv OBVIOUS
<1>1. PICK main \in Schedulers :
        stack = <<[routine |-> main, pc |-> 0, said |-> {}, any |-> FALSE, entered |-> 0]>>
  BY DEF Init
<1> DEFINE f == [routine |-> main, pc |-> 0, said |-> {}, any |-> FALSE, entered |-> 0]
<1>2. f.entered = 0 /\ f.said = {} /\ version = 0 BY DEF Init
<1> HIDE DEF f
<1>3. stack = <<f>> BY <1>1 DEF f
<1>4. Len(stack) = 1 /\ stack[1] = f /\ Top = f BY <1>3 DEF Top
<1>5. Reports BY <1>2, <1>4 DEF Reports
<1>6. ActInv BY DEF Init, ActInv, NoActivity
<1> QED BY <1>5, <1>6 DEF ReportInv

LEMMA ReportInvHolds == Spec => []ReportInv
<1>1. TypeInv /\ ReportInv /\ [Next]_vars => ReportInv'
  BY ReportsStep, ActInvStep DEF ReportInv
<1> QED BY <1>1, ReportInvInit, WellFormed, PTL DEF Spec

\* As long as a lambda would return false, neither it nor anything it called
\* has committed since it was entered: no loop ends, and no cleanup is left
\* out, while the LP has changed unreported.
THEOREM FalseIsTrue == Spec => []FalseMeansUnchanged
<1>1. TypeInv /\ ReportInv => FalseMeansUnchanged
  <2> SUFFICES ASSUME TypeInv, ReportInv, NEW i \in DOMAIN stack,
                      ~(stack[i].any \/ (i = Len(stack) /\ act.any))
               PROVE  stack[i].entered = IF i = Len(stack) THEN version ELSE stack[i + 1].entered
    BY DEF FalseMeansUnchanged
  <2>1. stack \in Seq(Frames) /\ i \in 1..Len(stack) /\ Len(stack) \in Nat /\ stack # <<>>
    BY DEF TypeInv, Nested
  <2>2. CASE i = Len(stack) BY <2>1, <2>2 DEF ReportInv, Reports, Top
  <2>3. CASE i # Len(stack)
    <3>1. i \in 1..(Len(stack) - 1) BY <2>1, <2>3
    <3> QED BY <2>3, <3>1 DEF ReportInv, Reports
  <2> QED BY <2>2, <2>3
<1> QED BY <1>1, ReportInvHolds, WellFormed, PTL

-----------------------------------------------------------------------------
(* The halves of a tiered cycle.                                           *)

LEMMA CyclesBody ==
  /\ DOMAIN Routines["Cycles"].body = 1..2
  /\ Routines["Cycles"].body[2].do = "half"
  /\ Routines["Cycles"].body[2].needs = {} /\ Routines["Cycles"].body[2].unless = {}
<1>1. Routines["Cycles"].body = <<Call("Cleanup"), Step("half", <<>>)>> BY DEF Routines
<1>2. DOMAIN <<Call("Cleanup"), Step("half", <<>>)>> = 1..2 OBVIOUS
<1>3. <<Call("Cleanup"), Step("half", <<>>)>>[2] = Step("half", <<>>) OBVIOUS
<1>4. Step("half", <<>>).do = "half" /\ Step("half", <<>>).needs = {}
      /\ Step("half", <<>>).unless = {}
  BY DEF Step
<1> QED BY <1>1, <1>2, <1>3, <1>4

\* The two lambdas the scheduler may start with are at the bottom of the
\* stack, and the loops they call right above them.
LEMMA LoopsSecond ==
  ASSUME Nested, NEW i \in 1..Len(stack)
  PROVE  /\ stack[i].routine \in Mains => i = 1
         /\ stack[i].routine \in {"Cycles", "Bootstrap"} => i = 2 /\ stack[1].routine = "TieredMain"
         /\ stack[i].routine = "FixedIterations" => i = 2 /\ stack[1].routine = "FixedMain"
<1>1. stack \in Seq(Frames) /\ Len(stack) \in Nat BY DEF Nested
<1>2. \A k \in 2..Len(stack) : stack[k - 1] \in Frames /\ Calls(stack[k - 1], stack[k].routine)
  <2> SUFFICES ASSUME NEW k \in 2..Len(stack)
               PROVE  stack[k - 1] \in Frames /\ Calls(stack[k - 1], stack[k].routine)
    OBVIOUS
  <2>1. k - 1 \in 1..(Len(stack) - 1) /\ (k - 1) + 1 = k BY <1>1
  <2>2. stack[k - 1] \in Frames BY <1>1, <2>1
  <2> QED BY <2>1, <2>2 DEF Nested
<1>3. \A k \in 2..Len(stack) : stack[k].routine \notin Mains BY <1>2, CalledIs
<1>4. \A k \in 2..Len(stack) :
        /\ stack[k].routine \in {"Cycles", "Bootstrap"} => stack[k - 1].routine = "TieredMain"
        /\ stack[k].routine = "FixedIterations" => stack[k - 1].routine = "FixedMain"
  BY <1>2, CalledIs
<1>5. CASE i = 1
  <2>1. stack[1].routine \in Mains BY <1>5 DEF Nested
  <2> QED BY <1>5, <2>1 DEF Mains
<1>6. CASE i # 1
  <2>1. i \in 2..Len(stack) BY <1>1, <1>6
  <2>2. i = 2 \/ i - 1 \in 2..Len(stack) BY <1>1, <2>1
  <2>3. i = 2 => i - 1 = 1 OBVIOUS
  <2> QED BY <1>3, <1>4, <2>1, <2>2, <2>3 DEF Mains
<1> QED BY <1>5, <1>6

\* phaseNnz is the size of the LP the last half started on: as long as the
\* half has committed nothing it is the size of the working LP.
HalfInv ==
  /\ /\ Len(stack) > 2 /\ stack[2].routine = "Cycles" /\ stack[2].pc = 2
     /\ stack[3].entered = version
     => nnz = phaseNnz
  /\ stack # <<>> /\ Top.routine = "Cycles" /\ Top.pc = 3 /\ Top.said = {} => nnz = phaseNnz

LEMMA NnzOfVersion ==
  ASSUME VarsTyped, [Next]_vars, ~CallStep
  PROVE  phaseNnz' = phaseNnz /\ (version' = version => nnz' = nnz)
<1>1. phaseNnz' = phaseNnz
  BY DEF Next, Work, EnterPass, Skip, CallStep, EndPass, EndIteration, EndCycle, StartPhase,
         RunRule, EndPhase, StartClosure, EndClosure, StartActivity, OpenGroup, Round,
         CloseGroup, Expire, vars, loopVars
<1>2. Commit \/ nnz' = nnz
  BY DEF Next, Work, EnterPass, Skip, CallStep, EndPass, EndIteration, EndCycle, StartPhase,
         RunRule, EndPhase, StartClosure, EndClosure, StartActivity, OpenGroup, Round,
         CloseGroup, Expire, vars, lpVars
<1>3. Commit => version' # version BY DEF VarsTyped, Commit
<1> QED BY <1>1, <1>2, <1>3

\* The step that runs a half is never skipped, and no other passes it.
LEMMA HalfStays ==
  ASSUME TypeInv, [Next]_vars, stack # <<>>, Top.routine = "Cycles", Top.pc = 2,
         NEW c \in BOOLEAN, Advance(c), Replaced(Advanced(Top, c))
  PROVE  FALSE
<1>1. Current.do = "half" /\ Current.needs = {} /\ Current.unless = {}
  BY CyclesBody DEF Current, Routine
<1>2. Wanted(Current) BY <1>1 DEF Wanted
<1>3. busy = "idle" BY <1>1 DEF TypeInv, Doing, VarsTyped
<1>4. stack' # stack /\ ~(\E pc \in {0, 1} : Jump(pc)) /\ ~Return /\ ~CallStep
  <2>1. Top \in Frames /\ Len(stack) \in Nat /\ stack \in Seq(Frames)
    BY TopTyped DEF TypeInv, Nested
  <2>2. Top'.pc = 3
    <3>1. Top.pc \in DOMAIN Routine(Top).body BY CyclesBody DEF Routine
    <3>2. Advanced(Top, c).pc = Top.pc + 1 BY SMTT(30), <2>1, <3>1, AdvancedKeeps
    <3>3. Advanced(Top, c).pc = 3 BY <3>2
    <3> QED BY <3>3 DEF Replaced
  <2>3. Len(stack') = Len(stack) BY DEF Replaced
  <2>4. stack' # stack BY <2>2, CurrentKept
  <2>5. ASSUME NEW pc \in {0, 1}, Jump(pc) PROVE FALSE
    <3> DEFINE g == [Top EXCEPT !.pc = pc, !.said = {}]
    <3>1. Replaced(g) BY <2>1, <2>5, JumpMoves
    <3>2. g.pc = pc
      <4>1. pc \in Nat OBVIOUS
      <4> QED BY <2>1, <4>1, JumpedIs
    <3> HIDE DEF g
    <3>3. Top'.pc = pc BY <3>1, <3>2 DEF Replaced
    <3> QED BY <2>2, <3>3
  <2>6. ~Return
    <3> SUFFICES ASSUME Return PROVE FALSE OBVIOUS
    <3>1. Returned BY ReturnMoves DEF TypeInv
    <3>2. Len(stack') = Len(stack) - 1 BY <3>1 DEF Returned, Replaced
    <3> QED BY <2>1, <2>3, <3>2
  <2>7. ~CallStep
    <3> SUFFICES ASSUME CallStep PROVE FALSE OBVIOUS
    <3>1. PICK r \in Names : Entered(r) BY CallEnters
    <3> QED BY <2>1, <2>3, <3>1 DEF Entered
  <2> QED BY <2>4, <2>5, <2>6, <2>7
<1>5. ~EnterPass /\ ~EndPass /\ ~EndIteration /\ ~EndCycle
  BY <1>4 DEF EnterPass, EndPass, EndIteration, EndCycle
<1>6. ~Skip BY <1>2 DEF Skip
<1>7. ~StartPhase /\ ~StartClosure /\ ~StartActivity
  BY <1>1 DEF StartPhase, StartClosure, StartActivity, AtStep
<1>8. ~RunRule /\ ~EndPhase /\ ~EndClosure /\ ~OpenGroup /\ ~Round /\ ~CloseGroup
  BY <1>3 DEF RunRule, EndPhase, EndClosure, OpenGroup, Round, CloseGroup
<1>9. ~Expire /\ ~(UNCHANGED vars) BY <1>4 DEF Expire, vars
<1> QED BY <1>4, <1>5, <1>6, <1>7, <1>8, <1>9 DEF Next, Work

LEMMA HalfReplaced ==
  ASSUME Nested, stack # <<>>, HalfInv, Reports, NEW g \in Frames, Replaced(g),
         g.routine = Top.routine, g.entered = Top.entered,
         g.routine = "Cycles" /\ g.pc = 3 => g.said # {},
         version \in Nat, version' \in Nat, version <= version',
         phaseNnz' = phaseNnz, version' = version => nnz' = nnz
  PROVE  HalfInv'
<1> DEFINE n == Len(stack)
<1>1. n \in Nat /\ n > 0 /\ Top = stack[n] /\ stack \in Seq(Frames) BY TopTyped DEF Top, Nested
<1>2. /\ Len(stack') = n /\ stack'[n] = g /\ Top' = g
      /\ \A i \in 1..(n - 1) : stack'[i] = stack[i]
  BY DEF Replaced, Top
<1>3. ASSUME n > 2, stack'[2].routine = "Cycles", stack'[2].pc = 2, stack'[3].entered = version'
      PROVE  nnz' = phaseNnz'
  <2>1. stack'[2] = stack[2] BY <1>1, <1>2, <1>3
  <2>2. stack'[3].entered = stack[3].entered BY <1>1, <1>2, <1>3
  <2>3. stack[3].entered \in Nat
    <3>1. stack[3] \in Frames BY <1>1, <1>3
    <3> QED BY <3>1 DEF Frames
  <2>4. stack[3].entered <= version BY <1>1, <1>3 DEF Reports
  <2>5. stack[3].entered = version' BY <1>3, <2>2
  <2>6. version' = version BY <2>3, <2>4, <2>5
  <2> QED BY <1>3, <2>1, <2>5, <2>6 DEF HalfInv
<1> QED BY <1>2, <1>3 DEF HalfInv

LEMMA HalfKept ==
  ASSUME Nested, HalfInv, Reports, stack' = stack,
         version \in Nat, version' \in Nat, version <= version',
         phaseNnz' = phaseNnz, version' = version => nnz' = nnz,
         version' = version \/ ~(Top.routine = "Cycles" /\ Top.pc = 3)
  PROVE  HalfInv'
<1>1. stack \in Seq(Frames) /\ Len(stack) \in Nat BY DEF Nested
<1>2. ASSUME Len(stack) > 2, stack[3].entered = version' PROVE version' = version
  <2>1. stack[3].entered \in Nat
    <3>1. stack[3] \in Frames BY <1>1, <1>2
    <3> QED BY <3>1 DEF Frames
  <2>2. stack[3].entered <= version BY <1>1, <1>2 DEF Reports
  <2> QED BY <1>2, <2>1, <2>2
<1> QED BY <1>2, CurrentKept DEF HalfInv

LEMMA HalfReturned ==
  ASSUME Nested, stack # <<>>, HalfInv, ReportInv, ~act.any, Returned,
         version' = version, nnz' = nnz, phaseNnz' = phaseNnz
  PROVE  HalfInv'
<1>1. stack \in Seq(Frames) /\ Len(stack) > 0 /\ Len(stack) \in Nat /\ Top \in Frames
  BY TopTyped DEF Nested
<1>2. CASE stack' = <<>> BY <1>2 DEF HalfInv
<1>3. CASE stack' # <<>>
  <2>1. PICK n \in Nat : n + 1 = Len(stack) /\ n >= 1
    <3>1. \A m \in Nat : m > 0 /\ m # 1 => m - 1 \in Nat /\ m - 1 + 1 = m /\ m - 1 >= 1 OBVIOUS
    <3> QED BY <1>1, <1>3, <3>1 DEF Returned
  <2>2. n = Len(stack) - 1 /\ n - 1 = Len(stack) - 2 BY <2>1
  <2> DEFINE f == stack[n]
             c == Top.any
             g == Advanced(f, c)
  <2>3. f \in Frames /\ f.pc \in DOMAIN Routine(f).body
    BY <1>1, <2>1, <2>2 DEF Nested, Calls
  <2>4. c \in BOOLEAN BY <1>1 DEF Frames
  <2> HIDE DEF f, c
  <2>5. g.entered = f.entered /\ g.routine = f.routine /\ g.pc = f.pc + 1
    BY SMTT(30), <2>3, <2>4, AdvancedKeeps
  <2>6. c => g.said # {} BY <2>3, <2>4, AdvancedTells
  <2> HIDE DEF g
  <2>7. /\ Len(stack') = n /\ stack'[n] = g /\ Top' = g
        /\ \A i \in 1..(n - 1) : stack'[i] = stack[i]
    BY <1>1, <1>3, <2>1, <2>2 DEF Returned, Top, f, g, c
  <2>8. ASSUME n > 2, stack'[2].routine = "Cycles", stack'[2].pc = 2, stack'[3].entered = version
        PROVE  nnz = phaseNnz
    <3>1. stack'[2] = stack[2] BY <2>1, <2>7, <2>8
    <3>2. stack'[3].entered = stack[3].entered BY <2>1, <2>5, <2>7, <2>8 DEF f
    <3>3. Len(stack) > 2 BY <2>1, <2>8
    <3> QED BY <2>8, <3>1, <3>2, <3>3 DEF HalfInv
  <2>9. ASSUME g.routine = "Cycles", g.pc = 3, g.said = {} PROVE nnz = phaseNnz
    <3>1. n = 2
      <4>1. n \in 1..Len(stack) BY <2>1
      <4>2. stack[n].routine = "Cycles" BY <2>5, <2>9 DEF f
      <4> QED BY <4>1, <4>2, LoopsSecond
    <3>2. stack[2].routine = "Cycles" /\ stack[2].pc = 2
      <4>1. f.pc \in Nat BY <2>3 DEF Frames
      <4>2. f.pc = 2 BY <2>5, <2>9, <4>1
      <4> QED BY <2>5, <2>9, <3>1, <4>2 DEF f
    <3>3. Len(stack) = 3 /\ Top = stack[3] BY <2>1, <3>1 DEF Top
    <3>4. Top.entered = version BY <1>1, <2>6, <2>9, <3>3 DEF ReportInv, Reports, c
    <3> QED BY <3>2, <3>3, <3>4 DEF HalfInv
  <2> QED BY <2>7, <2>8, <2>9 DEF HalfInv
<1> QED BY <1>2, <1>3

LEMMA HalfCalled ==
  ASSUME TypeInv, HalfInv, CallStep
  PROVE  HalfInv'
<1>1. PICK r \in Names : Calls(Top, r) /\ Entered(r) BY CallEnters
<1>2. stack # <<>> /\ Nested BY DEF CallStep, AtStep, TypeInv
<1> DEFINE n == Len(stack)
<1>3. stack \in Seq(Frames) /\ n > 0 /\ n \in Nat /\ Top = stack[n]
  BY <1>2, TopTyped DEF Nested, Top
<1>4. /\ Len(stack') = n + 1 /\ stack'[n + 1] = Frame(r) /\ Top' = Frame(r)
      /\ \A i \in 1..n : stack'[i] = stack[i]
  BY <1>1 DEF Entered, Top
<1>5. Frame(r).pc = 0 BY FrameIs DEF TypeInv, VarsTyped
<1>6. version' = version /\ nnz' = nnz
      /\ phaseNnz' = IF Current.do = "half" THEN nnz ELSE phaseNnz
  BY DEF CallStep, lpVars
<1>7. Current.do = "half" => Top.routine = "Cycles" /\ Top.pc = 2
  <2>1. Top \in Frames BY <1>2, <1>3, TopTyped
  <2>2. WiredStep(Top.routine, Top.pc, Current) BY <1>1, <2>1, WiredAt DEF Calls, Current
  <2> QED BY <2>2 DEF WiredStep
<1>8. n \in 1..n BY <1>3
<1>9. Top.routine = "Cycles" => n = 2 BY <1>2, <1>3, <1>8, LoopsSecond
<1>10. Top.routine = "Cycles" /\ Top.pc = 2 => Current.do = "half"
  BY CyclesBody DEF Current, Routine
<1> HIDE DEF n
<1>11. ASSUME n + 1 > 2, stack'[2].routine = "Cycles", stack'[2].pc = 2,
              stack'[3].entered = version
       PROVE  nnz = phaseNnz'
  <2>1. stack'[2] = stack[2] BY <1>3, <1>4, <1>11
  <2>2. CASE n = 2 BY <1>3, <1>6, <1>10, <1>11, <2>1, <2>2
  <2>3. CASE n # 2
    <3>1. n > 2 /\ stack'[3] = stack[3] BY <1>3, <1>4, <1>11, <2>3
    <3>2. phaseNnz' = phaseNnz BY <1>6, <1>7, <1>9, <2>3
    <3> QED BY <1>11, <2>1, <3>1, <3>2 DEF HalfInv, n
  <2> QED BY <2>2, <2>3
<1> QED BY <1>4, <1>5, <1>6, <1>11 DEF HalfInv

LEMMA HalfInvStep ==
  ASSUME TypeInv, ReportInv, HalfInv, [Next]_vars
  PROVE  HalfInv'
<1>1. stack \in Seq(Frames) /\ Reports /\ ActInv /\ Nested /\ VarsTyped /\ version \in Nat
  BY DEF TypeInv, Nested, VarsTyped, ReportInv
<1>2. version' \in Nat /\ version <= version' BY <1>1, VersionGrows
<1>3. CASE CallStep BY <1>3, HalfCalled
<1>4. ASSUME ~CallStep, stack # <<>>, Top.pc \in DOMAIN Routine(Top).body,
             NEW c \in BOOLEAN, Advance(c)
      PROVE  HalfInv'
  <2> DEFINE g == Advanced(Top, c)
  <2>1. Top \in Frames BY <1>1, <1>4, TopTyped
  <2>2. Replaced(g) BY <1>1, <1>4, AdvanceMoves
  <2>3. g \in Frames /\ g.routine = Top.routine /\ g.entered = Top.entered /\ g.pc = Top.pc + 1
    <3>1. Top.pc \in DOMAIN Routine(Top).body BY <1>4
    <3>2. g \in Frames BY <2>1, <3>1, AdvancedTyped
    <3>3. g.routine = Top.routine /\ g.entered = Top.entered /\ g.pc = Top.pc + 1
      BY <2>1, AdvancedKeeps
    <3> QED BY <3>2, <3>3
  <2>4. ~(g.routine = "Cycles" /\ g.pc = 3)
    <3>1. Top.pc \in Nat BY <2>1 DEF Frames
    <3>2. ~(Top.routine = "Cycles" /\ Top.pc = 2) BY <1>4, <2>2, HalfStays
    <3> HIDE DEF g
    <3> QED BY <2>3, <3>1, <3>2
  <2> HIDE DEF g
  <2> QED BY <1>1, <1>2, <1>4, <2>2, <2>3, <2>4, NnzOfVersion, HalfReplaced
<1>5. CASE ~CallStep /\ (EnterPass \/ Skip \/ EndPass \/ EndIteration \/ EndCycle)
  <2>1. /\ stack # <<>> /\ busy = "idle" /\ ~CallStep
        /\ version' = version /\ phaseNnz' = phaseNnz /\ nnz' = nnz
    BY <1>5 DEF EnterPass, Skip, EndPass, EndIteration, EndCycle, loopVars, lpVars
  <2>2. ~act.any BY <2>1, <1>1 DEF ActInv
  <2>3. CASE Skip
    <3>1. Top.pc \in DOMAIN Routine(Top).body /\ Advance(FALSE) BY <2>3 DEF Skip
    <3> QED BY <1>3, <1>4, <2>1, <3>1
  <2>4. CASE Return BY <1>1, <2>1, <2>2, <2>4, ReturnMoves, HalfReturned
  <2>5. ASSUME NEW pc \in {0, 1}, Jump(pc) PROVE HalfInv'
    <3> DEFINE g == [Top EXCEPT !.pc = pc, !.said = {}]
    <3>1. Top \in Frames BY <1>1, <2>1, TopTyped
    <3>2. Replaced(g) BY <1>1, <2>1, <2>5, JumpMoves
    <3>3. g \in Frames /\ g.routine = Top.routine /\ g.entered = Top.entered /\ g.pc = pc
      <4>1. pc \in Nat OBVIOUS
      <4> QED BY <3>1, <4>1, JumpedIs
    <3> HIDE DEF g
    <3> QED BY <1>1, <1>2, <2>1, <3>2, <3>3, HalfReplaced
  <2> QED BY <1>5, <2>3, <2>4, <2>5 DEF EnterPass, EndPass, EndIteration, EndCycle
<1>6. CASE \/ StartPhase \/ RunRule \/ EndPhase \/ StartClosure \/ EndClosure
           \/ StartActivity \/ OpenGroup \/ Round \/ CloseGroup
  <2>1. CASE CallStep BY <1>3, <2>1
  <2>2. CASE ~CallStep
    <3>1. stack # <<>> /\ Top.pc \in DOMAIN Routine(Top).body BY <1>6, WorkMoves
    <3>2. CASE stack' = stack
      <4>1. ~(Top.routine = "Cycles" /\ Top.pc = 3) BY <3>1, CyclesBody DEF Routine
      <4> QED BY <1>1, <1>2, <2>2, <3>2, <4>1, NnzOfVersion, HalfKept
    <3>3. CASE stack' # stack BY <1>4, <1>6, <2>2, <3>1, <3>3, WorkMoves
    <3> QED BY <3>2, <3>3
  <2> QED BY <2>1, <2>2
<1>7. CASE Expire \/ UNCHANGED vars
  <2>1. stack' = stack /\ version' = version /\ nnz' = nnz /\ phaseNnz' = phaseNnz
    BY <1>7 DEF Expire, vars, lpVars, loopVars
  <2> QED BY <1>1, <1>2, <2>1, HalfKept
<1> QED BY <1>3, <1>5, <1>6, <1>7 DEF Next, Work

\* A fast cycle that changed nothing is never taken for a productive one:
\* the early exit at the end of a cycle is dead.
THEOREM FastGivesWay == Spec => []FastNeverEnds
<1>1. Init => HalfInv
  <2> SUFFICES ASSUME Init PROVE HalfInv OBVIOUS
  <2>1. PICK main \in Schedulers :
          stack = <<[routine |-> main, pc |-> 0, said |-> {}, any |-> FALSE, entered |-> 0]>>
    BY DEF Init
  <2>2. Len(stack) = 1 /\ Top.pc = 0 BY <2>1 DEF Top
  <2> QED BY <2>2 DEF HalfInv
<1>2. TypeInv /\ HalfInv => FastNeverEnds
  BY DEF TypeInv, VarsTyped, HalfInv, FastNeverEnds, GoodProgress
<1>3. TypeInv /\ ReportInv /\ HalfInv /\ [Next]_vars => HalfInv' BY HalfInvStep
<1> QED BY <1>1, <1>2, <1>3, ReportInvHolds, WellFormed, PTL DEF Spec

-----------------------------------------------------------------------------
(* The rules of a phase and the clean flags.                               *)

LEMMA RangeOfTail ==
  ASSUME NEW s \in Seq(RuleNames), s # <<>>, NEW q \in RangeOf(s)
  PROVE  q = Head(s) \/ q \in RangeOf(Tail(s))
<1>1. PICK i \in 1..Len(s) : s[i] = q BY DEF RangeOf
<1>2. CASE i = 1 BY <1>1, <1>2
<1>3. CASE i # 1
  <2>1. i - 1 \in 1..Len(Tail(s)) /\ Tail(s)[i - 1] = s[i] BY <1>1, <1>3
  <2>2. DOMAIN Tail(s) = 1..Len(Tail(s)) OBVIOUS
  <2> QED BY <1>1, <2>1, <2>2 DEF RangeOf
<1> QED BY <1>2, <1>3

\* In a phase that so far changed and decided nothing, an enabled rule has
\* found nothing on the working LP or has its turn still to come.
PhaseInv ==
  busy = "phase" /\ ~planChanged /\ ~planBad /\ ~expired =>
    \A q \in RangeOf(Current.what) \cap EnabledRules : q \in quiet \/ q \in RangeOf(rules)

LEMMA PhaseInvStep ==
  ASSUME TypeInv, PhaseInv, [Next]_vars
  PROVE  PhaseInv'
<1> SUFFICES ASSUME busy' = "phase", ~planChanged', ~planBad', ~expired',
                    NEW q \in RangeOf(Current.what)' \cap EnabledRules
             PROVE  q \in quiet' \/ q \in RangeOf(rules)'
  BY DEF PhaseInv
<1>1. CASE EnterPass \/ Skip \/ CallStep \/ EndPass \/ EndIteration \/ EndCycle
  BY <1>1 DEF EnterPass, Skip, CallStep, EndPass, EndIteration, EndCycle, planVars, AtStep
<1>2. CASE StartPhase
  <2>1. rules' = Current.what /\ stack' = stack BY <1>2 DEF StartPhase, planVars, AtStep
  <2>2. RangeOf(Current.what)' = RangeOf(Current.what) BY <2>1, CurrentKept DEF RangeOf
  <2>3. q \in RangeOf(rules') BY <2>1, <2>2
  <2> QED BY <2>3 DEF RangeOf
<1>3. CASE RunRule
  <2>1. /\ busy = "phase" /\ rules # <<>> /\ rules' = Tail(rules) /\ stack' = stack
        /\ expired' = expired
    BY <1>3 DEF RunRule
  <2>2. q \in RangeOf(Current.what) \cap EnabledRules
    BY <2>1, CurrentKept DEF RangeOf
  <2>3. ~planChanged /\ ~planBad /\ quiet \subseteq quiet' BY <1>3 DEF RunRule, TypeInv, VarsTyped
  <2>4. q \in quiet \/ q \in RangeOf(rules) BY <2>1, <2>2, <2>3 DEF PhaseInv
  <2>5. CASE q \in quiet BY <2>3, <2>5
  <2>6. CASE q \in RangeOf(rules) /\ q = Head(rules)
    <3>1. q \in EnabledRules /\ ~expired BY <2>1
    <3>2. quiet' = quiet \cup {q} BY <1>3, <2>3, <2>6, <3>1 DEF RunRule, TypeInv, VarsTyped
    <3> QED BY <3>2
  <2>7. CASE q \in RangeOf(rules) /\ q # Head(rules)
    <3>1. rules \in Seq(RuleNames) BY DEF TypeInv, VarsTyped
    <3>2. q \in RangeOf(Tail(rules)) BY <2>1, <2>7, <3>1, RangeOfTail
    <3> QED BY <2>1, <3>2 DEF RangeOf
  <2> QED BY <2>4, <2>5, <2>6, <2>7
<1>4. CASE EndPhase \/ StartClosure \/ EndClosure \/ StartActivity \/ OpenGroup \/ Round
           \/ CloseGroup
  BY <1>4 DEF EndPhase, StartClosure, EndClosure, StartActivity, OpenGroup, Round, CloseGroup,
              Leave, AtStep
<1>5. CASE Expire \/ UNCHANGED vars
  <2>1. /\ stack' = stack /\ busy = "phase" /\ rules' = rules /\ quiet' = quiet
        /\ ~planChanged /\ ~planBad /\ ~expired
    BY <1>5 DEF Expire, vars, planVars, lpVars
  <2>2. q \in RangeOf(Current.what) \cap EnabledRules
    BY <2>1, CurrentKept DEF RangeOf
  <2> QED BY <2>1, <2>2 DEF PhaseInv, RangeOf
<1> QED BY <1>1, <1>2, <1>3, <1>4, <1>5 DEF Next, Work

\* The exit condition of the loops never becomes false again.
LEMMA StoppedStays ==
  ASSUME TypeInv, VerdictInv, [Next]_vars, Stopped
  PROVE  Stopped'
<1>1. terminal => terminal' BY VerdictKept DEF TypeInv
<1>2. expired => expired'
  BY DEF Next, Work, EnterPass, Skip, CallStep, EndPass, EndIteration, EndCycle, StartPhase,
         RunRule, EndPhase, StartClosure, EndClosure, StartActivity, OpenGroup, Round,
         CloseGroup, Expire, vars
<1> QED BY <1>1, <1>2 DEF Stopped

\* A phase that committed nothing has tried its enabled rules.
LEMMA PhaseTried ==
  ASSUME TypeInv, PhaseInv, EndPhase, ~Stopped', ~(planChanged /\ ~planBad)
  PROVE  RangeOf(Current.what) \cap EnabledRules \subseteq quiet
<1>1. ~planBad /\ ~expired /\ busy = "phase" /\ rules = <<>>
  BY DEF EndPhase, Stopped, TypeInv, VarsTyped
<1>2. RangeOf(rules) = {} BY <1>1 DEF RangeOf
<1> QED BY <1>1, <1>2 DEF PhaseInv

LEMMA CleanStep ==
  ASSUME TypeInv, VerdictInv, PhaseInv, CleanMeansQuiet, [Next]_vars
  PROVE  CleanMeansQuiet'
<1> SUFFICES ASSUME ~Stopped' PROVE clean' \subseteq quiet' BY DEF CleanMeansQuiet
<1>1. ~Stopped BY StoppedStays
<1>2. clean \subseteq quiet BY <1>1 DEF CleanMeansQuiet
<1>3. CASE EnterPass \/ Skip \/ CallStep \/ EndPass \/ EndIteration \/ EndCycle
  BY <1>2, <1>3 DEF EnterPass, Skip, CallStep, EndPass, EndIteration, EndCycle, lpVars
<1>4. CASE StartPhase \/ StartClosure \/ StartActivity \/ OpenGroup
  BY <1>2, <1>4 DEF StartPhase, StartClosure, StartActivity, OpenGroup, lpVars
<1>5. CASE RunRule \/ Round BY <1>2, <1>5 DEF RunRule, Round
<1>6. CASE EndClosure \/ CloseGroup
  BY <1>2, <1>6 DEF EndClosure, CloseGroup, Commit, lpVars
<1>7. CASE EndPhase
  <2>1. CASE planChanged /\ ~planBad BY <1>7, <2>1 DEF EndPhase, Commit
  <2>2. CASE ~(planChanged /\ ~planBad)
    <3>1. clean' = clean \cup MarkedClean /\ quiet' = quiet BY <1>7, <2>2 DEF EndPhase
    <3>2. MarkedClean \subseteq RangeOf(Current.what) \cap EnabledRules BY DEF MarkedClean
    <3> QED BY <1>2, <1>7, <2>2, <3>1, <3>2, PhaseTried
  <2> QED BY <2>1, <2>2
<1>8. CASE Expire \/ UNCHANGED vars BY <1>2, <1>8 DEF Expire, vars, lpVars
<1> QED BY <1>3, <1>4, <1>5, <1>6, <1>7, <1>8 DEF Next, Work

LEMMA VerdictInvHolds == Spec => []VerdictInv
<1>1. Init => VerdictInv BY DEF Init, VerdictInv
<1> QED BY <1>1, VerdictInvStep, PTL DEF Spec

LEMMA PhaseInvHolds == Spec => []PhaseInv
<1>1. Init => PhaseInv BY DEF Init, PhaseInv
<1>2. TypeInv /\ PhaseInv /\ [Next]_vars => PhaseInv' BY PhaseInvStep
<1> QED BY <1>1, <1>2, WellFormed, PTL DEF Spec

\* A clean flag skips a column-singleton rule only where the rule would find
\* nothing on the present LP, or where presolve is over anyway.
THEOREM CleanIsRight == Spec => []CleanMeansQuiet
<1>1. Init => CleanMeansQuiet BY DEF Init, CleanMeansQuiet
<1>2. TypeInv /\ VerdictInv /\ PhaseInv /\ CleanMeansQuiet /\ [Next]_vars => CleanMeansQuiet'
  BY CleanStep
<1> QED BY <1>1, <1>2, VerdictInvHolds, PhaseInvHolds, WellFormed, PTL DEF Spec

-----------------------------------------------------------------------------
(* Which rules a lambda has tried when it reports no change.               *)

\* Lambda r does not return without a change before it has tried rule q.
Tries(r, q) ==
  \/ r = "Activity" /\ q = Rule
  \/ r = "OneFixed" /\ q = "infeasible_fixed_variables"
  \/ r = "OneStructural" /\ q = "structural_l1"
  \/ r = "OneDualFix" /\ q = "dual_fix"
  \/ r = "OneDuplicate" /\ q = "duplicate_columns"
  \/ r = "EachDual" /\ q = "column_singletons_dual"
  \/ r = "EachEq" /\ q = "column_singletons_eq"
  \/ r = "EachDoubleton" /\ q = "doubleton_equations"
  \/ r = "FixedRows" /\ q \in {"empty_rows", "singleton_rows", "infeasible_redundant_rows",
                               Rule, "duplicate_rows"}
  \/ r = "FixedCols" /\ q \in {"infeasible_fixed_variables", "structural_l1", "empty_cols",
                               "column_singletons_dual", "column_singletons_eq",
                               "doubleton_equations", "dual_fix", "duplicate_columns"}

StepTries(s, q) ==
  \/ s.do = "phase" /\ q \in RangeOf(s.what)
  \/ s.do = "activity" /\ q = Rule
  \/ s.do = "call" /\ Tries(s.what[1], q)

Always(s) == s.needs = {} /\ s.unless = {}

\* Some step of the lambda that every pass takes tries q.
Reaches(r, q) ==
  \E k \in DOMAIN Routines[r].body :
    Always(Routines[r].body[k]) /\ StepTries(Routines[r].body[k], q)

LEMMA PhaseTries ==
  \A q : /\ Always(Phase(<<q>>)) /\ StepTries(Phase(<<q>>), q)
         /\ \A l : Always(As(l, Phase(<<q>>))) /\ StepTries(As(l, Phase(<<q>>)), q)
<1> SUFFICES ASSUME NEW q
             PROVE  /\ Always(Phase(<<q>>)) /\ StepTries(Phase(<<q>>), q)
                    /\ \A l : Always(As(l, Phase(<<q>>))) /\ StepTries(As(l, Phase(<<q>>)), q)
  OBVIOUS
<1>1. q \in RangeOf(<<q>>) BY DEF RangeOf
<1> QED BY <1>1 DEF Phase, Step, As, Always, StepTries

LEMMA CallTries ==
  \A r, q : Tries(r, q) =>
    /\ Always(Call(r)) /\ StepTries(Call(r), q)
    /\ \A l : Always(As(l, Call(r))) /\ StepTries(As(l, Call(r)), q)
<1> SUFFICES ASSUME NEW r, NEW q, Tries(r, q)
             PROVE  /\ Always(Call(r)) /\ StepTries(Call(r), q)
                    /\ \A l : Always(As(l, Call(r))) /\ StepTries(As(l, Call(r)), q)
  OBVIOUS
<1>1. Call(r) = [do |-> "call", what |-> <<r>>, label |-> "changed", needs |-> {}, unless |-> {}]
  BY DEF Call, Step
<1>2. <<r>>[1] = r OBVIOUS
<1> QED BY <1>1, <1>2 DEF As, Always, StepTries

LEMMA SmallReach ==
  /\ \A q : Tries("Activity", q) => Reaches("Activity", q)
  /\ \A q : Tries("OneFixed", q) => Reaches("OneFixed", q)
  /\ \A q : Tries("OneStructural", q) => Reaches("OneStructural", q)
  /\ \A q : Tries("OneDualFix", q) => Reaches("OneDualFix", q)
  /\ \A q : Tries("OneDuplicate", q) => Reaches("OneDuplicate", q)
  /\ \A q : Tries("EachDual", q) => Reaches("EachDual", q)
  /\ \A q : Tries("EachEq", q) => Reaches("EachEq", q)
  /\ \A q : Tries("EachDoubleton", q) => Reaches("EachDoubleton", q)
<1>1. ASSUME NEW r, NEW b, NEW c, NEW q, Routines[r].body = <<b, c>>, Always(b), StepTries(b, q)
      PROVE  Reaches(r, q)
  <2>1. 1 \in DOMAIN Routines[r].body /\ Routines[r].body[1] = b BY <1>1
  <2> QED BY <1>1, <2>1 DEF Reaches
<1>2. \A q : Tries("Activity", q) => Reaches("Activity", q)
  <2>1. Routines["Activity"].body = <<Step("activity", <<>>),
                                      If({"changed"}, Phase(<<"infeasible_redundant_rows">>))>>
    BY DEF Routines, Once
  <2>2. Always(Step("activity", <<>>)) /\ StepTries(Step("activity", <<>>), Rule)
    BY DEF Always, Step, StepTries
  <2> QED BY <1>1, <2>1, <2>2 DEF Tries
<1>3. ASSUME NEW r, NEW q, Routines[r].body = Trigger(<<q>>) PROVE Reaches(r, q)
  BY <1>1, <1>3, PhaseTries DEF Trigger
<1>4. /\ Routines["OneFixed"].body = Trigger(<<"infeasible_fixed_variables">>)
      /\ Routines["OneStructural"].body = Trigger(<<"structural_l1">>)
      /\ Routines["OneDualFix"].body = Trigger(<<"dual_fix">>)
      /\ Routines["OneDuplicate"].body = Trigger(<<"duplicate_columns">>)
      /\ Routines["EachDual"].body = Trigger(<<"column_singletons_dual">>)
      /\ Routines["EachEq"].body = Trigger(<<"column_singletons_eq">>)
      /\ Routines["EachDoubleton"].body = Trigger(<<"doubleton_equations">>)
  BY DEF Routines, Once, DoWhile
<1>5. \A q : Tries("OneFixed", q) => Reaches("OneFixed", q) BY <1>3, <1>4 DEF Tries
<1>6. \A q : Tries("OneStructural", q) => Reaches("OneStructural", q) BY <1>3, <1>4 DEF Tries
<1>7. \A q : Tries("OneDualFix", q) => Reaches("OneDualFix", q) BY <1>3, <1>4 DEF Tries
<1>8. \A q : Tries("OneDuplicate", q) => Reaches("OneDuplicate", q) BY <1>3, <1>4 DEF Tries
<1>9. \A q : Tries("EachDual", q) => Reaches("EachDual", q) BY <1>3, <1>4 DEF Tries
<1>10. \A q : Tries("EachEq", q) => Reaches("EachEq", q) BY <1>3, <1>4 DEF Tries
<1>11. \A q : Tries("EachDoubleton", q) => Reaches("EachDoubleton", q) BY <1>3, <1>4 DEF Tries
<1> QED BY <1>2, <1>5, <1>6, <1>7, <1>8, <1>9, <1>10, <1>11

LEMMA RowsReach == \A q : Tries("FixedRows", q) => Reaches("FixedRows", q)
<1> SUFFICES ASSUME NEW q, Tries("FixedRows", q) PROVE Reaches("FixedRows", q) OBVIOUS
<1> DEFINE body == <<Phase(<<"empty_rows">>), Phase(<<"singleton_rows">>),
                     Phase(<<"infeasible_redundant_rows">>), As("primal", Call("Activity")),
                     If({"primal"}, Call("Recirculation")), Phase(<<"duplicate_rows">>)>>
<1>1. Routines["FixedRows"].body = body BY DEF Routines, Once
<1>2. /\ DOMAIN body = 1..6
      /\ body[1] = Phase(<<"empty_rows">>) /\ body[2] = Phase(<<"singleton_rows">>)
      /\ body[3] = Phase(<<"infeasible_redundant_rows">>)
      /\ body[4] = As("primal", Call("Activity")) /\ body[6] = Phase(<<"duplicate_rows">>)
  OBVIOUS
<1> HIDE DEF body
<1>3. Tries("Activity", Rule) BY DEF Tries
<1>4. q \in {"empty_rows", "singleton_rows", "infeasible_redundant_rows", Rule, "duplicate_rows"}
  BY DEF Tries
<1>5. \E k \in 1..6 : Always(body[k]) /\ StepTries(body[k], q)
  <2>1. CASE q = "empty_rows" BY <1>2, <2>1, PhaseTries
  <2>2. CASE q = "singleton_rows" BY <1>2, <2>2, PhaseTries
  <2>3. CASE q = "infeasible_redundant_rows" BY <1>2, <2>3, PhaseTries
  <2>4. CASE q = Rule BY <1>2, <1>3, <2>4, CallTries
  <2>5. CASE q = "duplicate_rows" BY <1>2, <2>5, PhaseTries
  <2> QED BY <1>4, <2>1, <2>2, <2>3, <2>4, <2>5
<1> QED BY <1>1, <1>2, <1>5 DEF Reaches

LEMMA ColsReach == \A q : Tries("FixedCols", q) => Reaches("FixedCols", q)
<1> SUFFICES ASSUME NEW q, Tries("FixedCols", q) PROVE Reaches("FixedCols", q) OBVIOUS
<1> DEFINE body == <<Call("OneFixed"), Call("OneStructural"), Phase(<<"empty_cols">>),
                     Call("EachDual"), Call("EachEq"), Call("EachDoubleton"),
                     Call("OneDualFix"), Call("OneDuplicate")>>
<1>1. Routines["FixedCols"].body = body BY DEF Routines, Once
<1>2. /\ DOMAIN body = 1..8
      /\ body[1] = Call("OneFixed") /\ body[2] = Call("OneStructural")
      /\ body[3] = Phase(<<"empty_cols">>) /\ body[4] = Call("EachDual")
      /\ body[5] = Call("EachEq") /\ body[6] = Call("EachDoubleton")
      /\ body[7] = Call("OneDualFix") /\ body[8] = Call("OneDuplicate")
  OBVIOUS
<1> HIDE DEF body
<1>3. \/ q = "empty_cols" \/ Tries("OneFixed", q) \/ Tries("OneStructural", q)
      \/ Tries("EachDual", q) \/ Tries("EachEq", q) \/ Tries("EachDoubleton", q)
      \/ Tries("OneDualFix", q) \/ Tries("OneDuplicate", q)
  BY DEF Tries
<1>4. \E k \in 1..8 : Always(body[k]) /\ StepTries(body[k], q)
  <2>1. CASE q = "empty_cols" BY <1>2, <2>1, PhaseTries
  <2>2. CASE Tries("OneFixed", q) BY <1>2, <2>2, CallTries
  <2>3. CASE Tries("OneStructural", q) BY <1>2, <2>3, CallTries
  <2>4. CASE Tries("EachDual", q) BY <1>2, <2>4, CallTries
  <2>5. CASE Tries("EachEq", q) BY <1>2, <2>5, CallTries
  <2>6. CASE Tries("EachDoubleton", q) BY <1>2, <2>6, CallTries
  <2>7. CASE Tries("OneDualFix", q) BY <1>2, <2>7, CallTries
  <2>8. CASE Tries("OneDuplicate", q) BY <1>2, <2>8, CallTries
  <2> QED BY <1>3, <2>1, <2>2, <2>3, <2>4, <2>5, <2>6, <2>7, <2>8
<1> QED BY <1>1, <1>2, <1>4 DEF Reaches

LEMMA EveryReach == \A r, q : Tries(r, q) => Reaches(r, q)
<1> SUFFICES ASSUME NEW r, NEW q, Tries(r, q) PROVE Reaches(r, q) OBVIOUS
<1>1. r \in {"Activity", "OneFixed", "OneStructural", "OneDualFix", "OneDuplicate", "EachDual",
             "EachEq", "EachDoubleton", "FixedRows", "FixedCols"}
  BY DEF Tries
<1> QED BY <1>1, SmallReach, RowsReach, ColsReach

\* A pass of the fixed scheduler tries every rule.
LEMMA FixedBody ==
  /\ Routines["FixedIterations"].loop = "iterate"
  /\ DOMAIN Routines["FixedIterations"].body = 1..2 /\ Len(Routines["FixedIterations"].body) = 2
  /\ \A q \in GenericRules : Reaches("FixedIterations", q)
  /\ DOMAIN Routines["FixedMain"].body = 1..2
  /\ Routines["FixedMain"].body[1] = Call("FixedIterations")
<1>1. /\ Routines["FixedIterations"].loop = "iterate"
      /\ Routines["FixedIterations"].body = <<Call("FixedRows"), Call("FixedCols")>>
  BY DEF Routines
<1>2. Routines["FixedMain"].body = <<Call("FixedIterations"), Phase(<<"redundant_bounds">>)>>
  BY DEF Routines, Once
<1>3. \A q \in GenericRules : Tries("FixedRows", q) \/ Tries("FixedCols", q)
  BY DEF GenericRules, Tries, Rule
<1>4. ASSUME NEW q \in GenericRules PROVE Reaches("FixedIterations", q)
  <2> DEFINE body == <<Call("FixedRows"), Call("FixedCols")>>
  <2>1. DOMAIN body = 1..2 /\ body[1] = Call("FixedRows") /\ body[2] = Call("FixedCols") OBVIOUS
  <2>2. Routines["FixedIterations"].body = body BY <1>1
  <2> HIDE DEF body
  <2>3. \E k \in 1..2 : Always(body[k]) /\ StepTries(body[k], q) BY <1>3, <2>1, CallTries
  <2> QED BY <2>1, <2>2, <2>3 DEF Reaches
<1> QED BY <1>1, <1>2, <1>4

\* The rules that a pass of frame f has behind it are all in Q.  The fast
\* loop is left out: it passes over rules marked clean.
Tried(f, Q) ==
  f.routine # "FastLoop" =>
    \A k \in DOMAIN Routine(f).body :
      k < f.pc /\ Always(Routine(f).body[k]) =>
        \A q \in EnabledRules : StepTries(Routine(f).body[k], q) => q \in Q

\* As long as a pass has reported no change, and the LP is the one its last
\* call started on, the rules it has behind it found nothing on this LP.
Behind(i, v, Q) ==
  stack[i].said = {} /\ stack[i + 1].entered = v => Tried(stack[i], Q)
Quiets(v, Q) ==
  /\ \A i \in 1..(Len(stack) - 1) : Behind(i, v, Q)
  /\ stack # <<>> /\ Top.said = {} /\ ~act.any => Tried(Top, Q)

\* The activity closure leaves without a change only if its rule found
\* nothing.
RoundsInv ==
  /\ busy \in {"group", "round"} /\ ~act.any => act.rounds = 0
  /\ busy = "close" /\ ~act.any /\ ~Stopped => Rule \in quiet

QuietInv == RoundsInv /\ (~Stopped => Quiets(version, quiet))

\* The iterations of the fixed scheduler.
CountInv ==
  stack # <<>> /\ stack[1].routine = "FixedMain" =>
    /\ iterations <= MaxIters
    /\ Len(stack) > 1 /\ stack[2].pc > 0 => iterations < MaxIters

LEMMA TriedMore ==
  ASSUME NEW f, NEW P, NEW Q, Tried(f, P), P \subseteq Q
  PROVE  Tried(f, Q)
BY DEF Tried

\* A pass that has just begun has nothing behind it.
LEMMA TriedAtStart ==
  ASSUME NEW f \in Frames, f.pc \in {0, 1}, NEW Q
  PROVE  Tried(f, Q)
<1>1. /\ DOMAIN Routine(f).body = 1..Len(Routine(f).body)
      /\ Len(Routine(f).body) \in Nat
  BY AllWired DEF Frames, Wired, Routine
<1>2. \A k \in DOMAIN Routine(f).body : ~(k < f.pc) BY <1>1
<1> QED BY <1>2 DEF Tried

\* A pass that goes on to its next step.
LEMMA TriedNext ==
  ASSUME NEW f \in Frames, NEW g, NEW Q, Tried(f, Q), f.pc \in DOMAIN Routine(f).body,
         g.routine = f.routine, g.pc = f.pc + 1,
         f.routine # "FastLoop" /\ Always(Routine(f).body[f.pc]) =>
           \A q \in EnabledRules : StepTries(Routine(f).body[f.pc], q) => q \in Q
  PROVE  Tried(g, Q)
<1>1. /\ DOMAIN Routine(f).body = 1..Len(Routine(f).body)
      /\ Len(Routine(f).body) \in Nat /\ f.pc \in Nat
  BY AllWired DEF Frames, Wired, Routine
<1>2. \A k \in DOMAIN Routine(f).body : k < f.pc + 1 => k < f.pc \/ k = f.pc BY <1>1
<1>3. Routine(g) = Routine(f) BY DEF Routine
<1> QED BY <1>2, <1>3 DEF Tried

\* A lambda at the end of a pass has tried what it promises to try.
LEMMA TriedAll ==
  ASSUME NEW f \in Frames, NEW Q, Tried(f, Q), f.pc = Len(Routine(f).body) + 1,
         NEW q \in EnabledRules, Reaches(f.routine, q), f.routine # "FastLoop"
  PROVE  q \in Q
<1>1. /\ DOMAIN Routine(f).body = 1..Len(Routine(f).body)
      /\ Len(Routine(f).body) \in Nat
  BY AllWired DEF Frames, Wired, Routine
<1>2. PICK k \in DOMAIN Routine(f).body :
        Always(Routine(f).body[k]) /\ StepTries(Routine(f).body[k], q)
  BY DEF Reaches, Routine
<1>3. k < f.pc BY <1>1
<1> QED BY <1>2, <1>3 DEF Tried

LEMMA QuietGrows ==
  ASSUME VarsTyped, [Next]_vars, version' = version
  PROVE  quiet \subseteq quiet'
<1>1. Commit \/ quiet \subseteq quiet'
  BY DEF Next, Work, EnterPass, Skip, CallStep, EndPass, EndIteration, EndCycle, StartPhase,
         RunRule, EndPhase, StartClosure, EndClosure, StartActivity, OpenGroup, Round,
         CloseGroup, Expire, vars, lpVars
<1>2. Commit => version' # version BY DEF VarsTyped, Commit
<1> QED BY <1>1, <1>2

\* How the moves of the stack treat what the frames have behind them.
LEMMA QuietsReplaced ==
  ASSUME Nested, stack # <<>>, Reports, Quiets(version, quiet), NEW g \in Frames, Replaced(g),
         g.entered = Top.entered, version \in Nat, version' \in Nat, version <= version',
         version' = version => quiet \subseteq quiet',
         g.said = {} /\ ~act'.any => Tried(g, quiet')
  PROVE  Quiets(version, quiet)'
<1> DEFINE n == Len(stack)
<1>1. n \in Nat /\ n > 0 /\ Top = stack[n] /\ stack \in Seq(Frames) BY TopTyped DEF Top, Nested
<1>2. /\ Len(stack') = n /\ stack'[n] = g /\ Top' = g
      /\ \A i \in 1..(n - 1) : stack'[i] = stack[i]
  BY DEF Replaced, Top
<1>3. \A i \in 1..n : /\ stack'[i].entered = stack[i].entered
                      /\ stack[i].entered \in Nat /\ stack[i].entered <= version
  <2>1. \A i \in 1..n : stack[i] \in Frames BY <1>1
  <2>2. \A i \in 1..n : stack[i].entered \in Nat BY <2>1 DEF Frames
  <2> QED BY <1>1, <1>2, <2>2 DEF Reports
<1>4. ASSUME NEW i \in 1..(n - 1), stack'[i].said = {}, stack'[i + 1].entered = version'
      PROVE  Tried(stack'[i], quiet')
  <2>1. i + 1 \in 1..n BY <1>1
  <2>2. stack[i + 1].entered = version' BY <1>3, <1>4, <2>1
  <2>3. version' = version BY <1>3, <2>1, <2>2
  <2>4. stack'[i] = stack[i] /\ stack[i].said = {} BY <1>2, <1>4
  <2>5. Behind(i, version, quiet) BY DEF Quiets
  <2>6. Tried(stack[i], quiet) BY <2>2, <2>3, <2>4, <2>5 DEF Behind
  <2>7. Tried(stack[i], quiet') BY <2>3, <2>6, TriedMore
  <2> QED BY <2>4, <2>7
<1>5. \A i \in 1..(Len(stack') - 1) :
        stack'[i].said = {} /\ stack'[i + 1].entered = version' => Tried(stack'[i], quiet')
  BY <1>2, <1>4
<1>6. Top'.said = {} /\ ~act'.any => Tried(Top', quiet') BY <1>2
<1> QED BY <1>5, <1>6 DEF Quiets, Behind, Tried

LEMMA QuietsEntered ==
  ASSUME Nested, stack # <<>>, Reports, Quiets(version, quiet), ~act.any,
         NEW r \in Names, Entered(r), version \in Nat, version' = version, quiet' = quiet
  PROVE  Quiets(version, quiet)'
<1> DEFINE n == Len(stack)
<1>1. n \in Nat /\ n > 0 /\ Top = stack[n] /\ stack \in Seq(Frames) BY TopTyped DEF Top, Nested
<1>2. /\ Len(stack') = n + 1 /\ stack'[n + 1] = Frame(r) /\ Top' = Frame(r)
      /\ \A i \in 1..n : stack'[i] = stack[i]
  BY DEF Entered, Top
<1>3. Tried(Frame(r), quiet')
  <2>1. Frame(r) \in Frames /\ Frame(r).pc \in {0, 1} BY FrameIs
  <2> QED BY <2>1, TriedAtStart
<1>4. ASSUME NEW i \in 1..n, stack'[i].said = {}, stack'[i + 1].entered = version'
      PROVE  Tried(stack'[i], quiet')
  <2>1. stack'[i] = stack[i] BY <1>2
  <2>2. CASE i = n BY <1>1, <1>4, <2>1, <2>2 DEF Quiets
  <2>3. CASE i # n
    <3>1. i \in 1..(n - 1) /\ i + 1 \in 1..n BY <1>1, <2>3
    <3>2. stack'[i + 1] = stack[i + 1] BY <1>2, <3>1
    <3>3. Behind(i, version, quiet) BY <3>1 DEF Quiets
    <3> QED BY <1>4, <2>1, <3>2, <3>3 DEF Behind
  <2> QED BY <2>2, <2>3
<1>5. Len(stack') - 1 = n BY <1>1, <1>2
<1>6. \A i \in 1..(Len(stack') - 1) :
        stack'[i].said = {} /\ stack'[i + 1].entered = version' => Tried(stack'[i], quiet')
  BY <1>4, <1>5
<1> QED BY <1>2, <1>3, <1>6 DEF Quiets, Behind, Tried

\* A lambda returns: its caller is an advanced frame.
LEMMA QuietsReturned ==
  ASSUME Nested, stack # <<>>, ReportInv, Quiets(version, quiet), ~act.any, Returned,
         version \in Nat, version' = version, quiet' = quiet,
         ~Top.any => \A q \in EnabledRules : Tries(Top.routine, q) => q \in quiet
  PROVE  Quiets(version, quiet)'
<1>1. stack \in Seq(Frames) /\ Len(stack) > 0 /\ Len(stack) \in Nat /\ Top \in Frames
  BY TopTyped DEF Nested
<1>2. CASE stack' = <<>> BY <1>2 DEF Quiets
<1>3. CASE stack' # <<>>
  <2>1. PICK n \in Nat : n + 1 = Len(stack) /\ n >= 1
    <3>1. \A m \in Nat : m > 0 /\ m # 1 => m - 1 \in Nat /\ m - 1 + 1 = m /\ m - 1 >= 1 OBVIOUS
    <3> QED BY <1>1, <1>3, <3>1 DEF Returned
  <2>2. n = Len(stack) - 1 /\ n - 1 = Len(stack) - 2 BY <2>1
  <2> DEFINE f == stack[n]
             c == Top.any
             g == Advanced(f, c)
  <2>3. f \in Frames /\ f.pc \in DOMAIN Routine(f).body
    BY <1>1, <2>1, <2>2 DEF Nested, Calls
  <2>17. Calls(f, Top.routine) BY <1>1, <2>1, <2>2 DEF Nested, Top
  <2>4. c \in BOOLEAN BY <1>1 DEF Frames
  <2>5. Behind(n, version, quiet) BY <2>1, <2>2 DEF Quiets
  <2>6. stack[n + 1] = Top BY <2>1 DEF Top
  <2>7. ~c => Top.entered = version BY <1>1, <2>4 DEF ReportInv, Reports
  <2>8. ~c /\ f.said = {} => Tried(f, quiet) BY <2>5, <2>6, <2>7 DEF Behind
  <2>9. ~c => \A q \in EnabledRules : StepTries(Routine(f).body[f.pc], q) => q \in quiet
    <3> SUFFICES ASSUME ~c, NEW q \in EnabledRules, StepTries(Routine(f).body[f.pc], q)
                 PROVE  q \in quiet
      OBVIOUS
    <3>1. Routine(f).body[f.pc].do \in {"call", "bootstrap", "half"} BY <2>17 DEF Calls
    <3>2. /\ Routine(f).body[f.pc].do = "call"
          /\ Tries(Routine(f).body[f.pc].what[1], q)
      BY <3>1 DEF StepTries
    <3>3. Top.routine = Routine(f).body[f.pc].what[1] BY <2>17, <3>2 DEF Calls
    <3> QED BY <3>2, <3>3
  <2> HIDE DEF f, c
  <2>10. g.routine = f.routine /\ g.entered = f.entered /\ g.pc = f.pc + 1
    BY <2>3, <2>4, AdvancedKeeps
  <2>11. (c => g.said # {}) /\ (~c => g.said = f.said) BY <2>3, <2>4, AdvancedTells
  <2> HIDE DEF g
  <2>12. g.said = {} => Tried(g, quiet) BY <2>3, <2>4, <2>8, <2>9, <2>10, <2>11, TriedNext
  <2>13. /\ Len(stack') = n /\ stack'[n] = g /\ Top' = g
         /\ \A i \in 1..(n - 1) : stack'[i] = stack[i]
    BY <1>1, <1>3, <2>1, <2>2 DEF Returned, Top, f, g, c
  <2>14. ASSUME NEW i \in 1..(n - 1), stack'[i].said = {}, stack'[i + 1].entered = version'
         PROVE  Tried(stack'[i], quiet')
    <3>1. stack'[i] = stack[i] BY <2>13
    <3>2. stack'[i + 1].entered = stack[i + 1].entered
      <4>1. CASE i + 1 = n BY <2>10, <2>13, <4>1 DEF f
      <4>2. CASE i + 1 # n
        <5>1. i + 1 \in 1..(n - 1) BY <2>1, <4>2
        <5> QED BY <2>13, <5>1
      <4> QED BY <4>1, <4>2
    <3>3. i \in 1..(Len(stack) - 1) BY <2>1
    <3>4. Behind(i, version, quiet) BY <3>3 DEF Quiets
    <3> QED BY <2>14, <3>1, <3>2, <3>4 DEF Behind
  <2>15. \A i \in 1..(Len(stack') - 1) :
           stack'[i].said = {} /\ stack'[i + 1].entered = version' => Tried(stack'[i], quiet')
    BY <2>13, <2>14
  <2>16. Top'.said = {} => Tried(Top', quiet') BY <2>12, <2>13
  <2> QED BY <2>15, <2>16 DEF Quiets, Behind, Tried
<1> QED BY <1>2, <1>3

\* The rounds of the activity closure.
LEMMA RoundsStep ==
  ASSUME TypeInv, VerdictInv, ActInv, RoundsInv, [Next]_vars
  PROVE  RoundsInv'
<1>1. act \in Activities BY DEF TypeInv, VarsTyped
<1>2. Stopped => Stopped' BY StoppedStays
<1>3. CASE EnterPass \/ Skip \/ CallStep \/ EndPass \/ EndIteration \/ EndCycle
  BY <1>3 DEF EnterPass, Skip, CallStep, EndPass, EndIteration, EndCycle, planVars, RoundsInv,
              AtStep
<1>4. CASE StartPhase \/ RunRule \/ EndPhase \/ StartClosure \/ EndClosure
  BY <1>4 DEF StartPhase, RunRule, EndPhase, StartClosure, EndClosure, planVars, RoundsInv, AtStep
<1>5. CASE StartActivity
  <2>1. (busy' = busy /\ busy = "idle") \/ (busy' = "group" /\ act' = NoActivity)
    BY <1>5 DEF StartActivity, AtStep
  <2>2. NoActivity.rounds = 0 BY DEF NoActivity
  <2> QED BY <2>1, <2>2 DEF RoundsInv
<1>6. CASE OpenGroup
  <2>1. CASE Leave BY <2>1 DEF Leave, RoundsInv
  <2>2. CASE ~Leave
    <3>1. PICK limit : act' = [act EXCEPT !.limit = limit, !.group = FALSE,
                                          !.structural = FALSE]
      BY <1>6, <2>2 DEF OpenGroup
    <3>2. act'.any = act.any /\ act'.rounds = act.rounds BY <1>1, <3>1 DEF Activities
    <3>3. busy' = "round" /\ busy = "group" BY <1>6, <2>2 DEF OpenGroup
    <3> QED BY <3>2, <3>3 DEF RoundsInv
  <2> QED BY <2>1, <2>2
<1>7. CASE Round
  <2> DEFINE ran == [act EXCEPT !.rounds = @ + 1]
             changed == [ran EXCEPT !.group = TRUE, !.any = TRUE]
  <2>1. busy = "round" /\ busy' \in {"round", "close"} BY <1>7 DEF Round
  <2>2. CASE act.rounds >= MaxRounds \/ Stopped
    <3>1. busy' = "close" /\ act' = act BY <1>7, <2>2 DEF Round
    <3>2. ~act.any => act.rounds = 0 BY <2>1 DEF RoundsInv
    <3>3. ~(0 >= MaxRounds) BY SchedulerAssumption
    <3> QED BY <1>2, <2>2, <3>1, <3>2, <3>3 DEF RoundsInv
  <2>3. CASE ~(act.rounds >= MaxRounds \/ Stopped)
    <3>1. \/ busy' = "close" /\ Rule \in quiet'
          \/ busy' = "close" /\ terminal'
          \/ act' = [changed EXCEPT !.structural = TRUE, !.boundOnly = 0]
          \/ act' = [changed EXCEPT !.structural = FALSE, !.boundOnly = @ + 1]
      BY <1>7, <2>3 DEF Round
    <3>2. [changed EXCEPT !.structural = TRUE, !.boundOnly = 0].any
      BY <1>1 DEF Activities
    <3>3. [changed EXCEPT !.structural = FALSE, !.boundOnly = @ + 1].any
      BY <1>1 DEF Activities
    <3> QED BY <2>1, <3>1, <3>2, <3>3 DEF RoundsInv, Stopped
  <2> QED BY <2>2, <2>3
<1>8. CASE CloseGroup
  <2>1. CASE Leave BY <2>1 DEF Leave, RoundsInv
  <2>2. CASE ~Leave
    <3>1. busy' = "group" /\ act' = act /\ act.group BY <1>8, <2>2 DEF CloseGroup
    <3> QED BY <3>1 DEF RoundsInv, ActInv
  <2> QED BY <2>1, <2>2
<1>9. CASE Expire \/ UNCHANGED vars
  BY <1>2, <1>9 DEF Expire, vars, planVars, statusVars, lpVars, RoundsInv
<1> QED BY <1>3, <1>4, <1>5, <1>6, <1>7, <1>8, <1>9 DEF Next, Work

\* What a step of the fixed scheduler passes without a change it has tried.
LEMMA PassedTried ==
  ASSUME TypeInv, VerdictInv, PhaseInv, RoundsInv, [Next]_vars, ~Stopped, ~Stopped',
         stack # <<>>, Top.pc \in DOMAIN Routine(Top).body, stack' # stack,
         ~(\E c \in BOOLEAN : c /\ Advance(c)), Top.routine # "FastLoop", Always(Current),
         \/ Skip \/ StartPhase \/ RunRule \/ EndPhase \/ StartClosure \/ EndClosure
         \/ StartActivity \/ OpenGroup \/ Round \/ CloseGroup,
         NEW q \in EnabledRules, StepTries(Current, q)
  PROVE  q \in quiet
<1>1. act.any \in BOOLEAN /\ planChanged \in BOOLEAN /\ planBad \in BOOLEAN
  BY DEF TypeInv, VarsTyped, Activities
<1>2. CASE Skip
  <2>1. ~Wanted(Current) BY <1>2 DEF Skip
  <2>2. Current.do = "bootstrap" BY <2>1 DEF Wanted, Always
  <2> QED BY <2>2 DEF StepTries
<1>3. CASE StartPhase BY <1>3 DEF StartPhase, PhaseBarred, Stopped
<1>4. CASE RunRule \/ Round BY <1>4 DEF RunRule, Round
<1>5. CASE EndPhase
  <2>1. ~(planChanged /\ ~planBad)
    <3>1. Advance(planChanged /\ ~planBad) BY <1>5 DEF EndPhase
    <3> QED BY <3>1
  <2>2. RangeOf(Current.what) \cap EnabledRules \subseteq quiet BY <1>5, <2>1, PhaseTried
  <2>3. Current.do \in {"phase", "untimed"} BY <1>5 DEF EndPhase, TypeInv, Doing
  <2> QED BY <2>2, <2>3 DEF StepTries
<1>6. CASE StartClosure BY <1>6 DEF StartClosure, AtStep, StepTries
<1>7. CASE EndClosure
  <2>1. Current.do = "closure" BY <1>7 DEF EndClosure, TypeInv, Doing
  <2> QED BY <2>1 DEF StepTries
<1>8. CASE StartActivity
  <2>1. Current.do = "activity" BY <1>8 DEF StartActivity, AtStep
  <2>2. Rule \notin EnabledRules BY <1>8 DEF StartActivity
  <2> QED BY <2>1, <2>2 DEF StepTries
<1>9. CASE OpenGroup
  <2>1. busy = "group" /\ Advance(act.any) /\ act.rounds >= MaxRounds
    BY <1>9 DEF OpenGroup, Leave
  <2>2. ~act.any BY <1>1, <2>1
  <2>3. act.rounds = 0 BY <2>1, <2>2 DEF RoundsInv
  <2>4. ~(0 >= MaxRounds) BY SchedulerAssumption
  <2> QED BY <2>1, <2>3, <2>4
<1>10. CASE CloseGroup
  <2>1. busy = "close" /\ Advance(act.any) BY <1>10 DEF CloseGroup, Leave
  <2>2. ~act.any BY <1>1, <2>1
  <2>3. Rule \in quiet BY <2>1, <2>2 DEF RoundsInv
  <2>4. Current.do = "activity" BY <2>1 DEF TypeInv, Doing
  <2> QED BY <2>3, <2>4 DEF StepTries
<1> QED BY <1>2, <1>3, <1>4, <1>5, <1>6, <1>7, <1>8, <1>9, <1>10

\* Only lambdas that run one pass, or test at its end, promise to try a rule.
LEMMA TriesAtEnd ==
  ASSUME NEW r, NEW q, Tries(r, q)
  PROVE  r # "FastLoop" /\ Routines[r].loop \in {"once", "do"}
<1>1. /\ Routines["Activity"].loop = "once" /\ Routines["OneFixed"].loop = "once"
      /\ Routines["OneStructural"].loop = "once" /\ Routines["OneDualFix"].loop = "once"
      /\ Routines["OneDuplicate"].loop = "once" /\ Routines["FixedRows"].loop = "once"
      /\ Routines["FixedCols"].loop = "once" /\ Routines["EachDual"].loop = "do"
      /\ Routines["EachEq"].loop = "do" /\ Routines["EachDoubleton"].loop = "do"
  BY DEF Routines, Once, DoWhile
<1> QED BY <1>1 DEF Tries

\* A lambda that returns and reports no change has tried what it promises.
LEMMA ReturnTried ==
  ASSUME TypeInv, ReportInv, stack # <<>>, busy = "idle", Quiets(version, quiet), ~Top.any,
         EndPass \/ Routine(Top).loop \notin {"once", "do"},
         NEW q \in EnabledRules, Tries(Top.routine, q)
  PROVE  q \in quiet
<1>1. /\ Top \in Frames /\ stack \in Seq(Frames) /\ Len(stack) \in Nat /\ Len(stack) > 0
  BY TopTyped DEF TypeInv, Nested
<1>2. Top.said = {} BY <1>1 DEF ReportInv, Reports, Top
<1>3. ~act.any BY DEF ReportInv, ActInv
<1>4. Tried(Top, quiet) BY <1>2, <1>3 DEF Quiets
<1>5. Top.routine # "FastLoop" /\ Routine(Top).loop \in {"once", "do"}
  BY TriesAtEnd DEF Routine
<1>6. Reaches(Top.routine, q) BY EveryReach
<1>7. Top.pc = Len(Routine(Top).body) + 1 BY <1>5 DEF EndPass
<1> QED BY <1>1, <1>4, <1>5, <1>6, <1>7, TriedAll

LEMMA QuietsControl ==
  ASSUME TypeInv, VerdictInv, PhaseInv, ReportInv, RoundsInv, [Next]_vars,
         ~Stopped, ~Stopped', Quiets(version, quiet),
         EnterPass \/ Skip \/ CallStep \/ EndPass \/ EndIteration \/ EndCycle
  PROVE  Quiets(version, quiet)'
<1>1. /\ stack # <<>> /\ busy = "idle" /\ act' = act
      /\ version' = version /\ quiet' = quiet
  BY DEF EnterPass, Skip, CallStep, EndPass, EndIteration, EndCycle, AtStep, planVars, lpVars
<1>2. /\ stack \in Seq(Frames) /\ Nested /\ Top \in Frames /\ version \in Nat /\ Reports
      /\ ~act.any
  BY <1>1, TopTyped DEF TypeInv, Nested, VarsTyped, ReportInv, ActInv
<1>3. CASE Skip
  <2> DEFINE g == Advanced(Top, FALSE)
  <2>1. Top.pc \in DOMAIN Routine(Top).body /\ Advance(FALSE) BY <1>3 DEF Skip
  <2>2. Replaced(g) BY <1>1, <1>2, <2>1, AdvanceMoves
  <2>3. g \in Frames BY <1>2, <2>1, AdvancedIs
  <2>4. g.routine = Top.routine /\ g.entered = Top.entered /\ g.pc = Top.pc + 1
    BY <1>2, <2>1, AdvancedKeeps
  <2>5. g.said = Top.said BY <1>2, <2>1, AdvancedTells
  <2> HIDE DEF g
  <2>6. ASSUME Top.routine # "FastLoop", Always(Current), NEW q \in EnabledRules,
               StepTries(Current, q)
        PROVE  q \in quiet
    <3>1. ~Wanted(Current) BY <1>3 DEF Skip
    <3>2. Current.do = "bootstrap" BY <2>6, <3>1 DEF Wanted, Always
    <3> QED BY <2>6, <3>2 DEF StepTries
  <2>7. Top.said = {} => Tried(Top, quiet) BY <1>1, <1>2 DEF Quiets
  <2>8. g.said = {} => Tried(g, quiet)
    BY <1>2, <2>1, <2>4, <2>5, <2>6, <2>7, TriedNext DEF Current
  <2> QED BY <1>1, <1>2, <2>2, <2>3, <2>4, <2>8, QuietsReplaced
<1>4. CASE CallStep
  <2>1. PICK r \in Names : Entered(r) BY <1>4, CallEnters
  <2> QED BY <1>1, <1>2, <2>1, QuietsEntered
<1>5. ASSUME NEW pc \in {0, 1}, Jump(pc) PROVE Quiets(version, quiet)'
  <2> DEFINE g == [Top EXCEPT !.pc = pc, !.said = {}]
  <2>1. Replaced(g) BY <1>1, <1>2, <1>5, JumpMoves
  <2>2. g \in Frames /\ g.entered = Top.entered /\ g.pc = pc
    <3>1. pc \in Nat OBVIOUS
    <3> QED BY <1>2, <3>1, JumpedIs
  <2> HIDE DEF g
  <2>3. Tried(g, quiet') BY <2>2, TriedAtStart
  <2> QED BY <1>1, <1>2, <2>1, <2>2, <2>3, QuietsReplaced
<1>6. ASSUME Return, EndPass \/ Routine(Top).loop \notin {"once", "do"}
      PROVE  Quiets(version, quiet)'
  <2>1. Returned BY <1>1, <1>2, <1>6, ReturnMoves
  <2>2. ~Top.any => \A q \in EnabledRules : Tries(Top.routine, q) => q \in quiet
    BY <1>1, <1>6, ReturnTried
  <2> QED BY <1>1, <1>2, <2>1, <2>2, QuietsReturned
<1>7. CASE EnterPass
  <2>1. Jump(1) \/ (Return /\ Routine(Top).loop \notin {"once", "do"})
    BY <1>7 DEF EnterPass
  <2> QED BY <1>5, <1>6, <2>1
<1>8. CASE EndPass
  <2>1. Jump(0) \/ Return BY <1>8 DEF EndPass
  <2> QED BY <1>5, <1>6, <1>8, <2>1
<1>9. CASE EndIteration
  <2>1. /\ Jump(0) \/ Return
        /\ Routine(Top).loop \notin {"once", "do"}
    BY <1>9 DEF EndIteration
  <2> QED BY <1>5, <1>6, <2>1
<1>10. CASE EndCycle
  <2>1. Jump(0) \/ Return BY <1>10 DEF EndCycle
  <2>2. Routine(Top).loop = "cycle"
    <3>1. Routines["Cycles"].loop = "cycle" BY DEF Routines
    <3> QED BY <1>10, <3>1 DEF EndCycle, Routine
  <2> QED BY <1>5, <1>6, <2>1, <2>2
<1> QED BY <1>3, <1>4, <1>7, <1>8, <1>9, <1>10

LEMMA QuietsWork ==
  ASSUME TypeInv, VerdictInv, PhaseInv, ReportInv, RoundsInv, [Next]_vars,
         ~Stopped, ~Stopped', Quiets(version, quiet),
         \/ StartPhase \/ RunRule \/ EndPhase \/ StartClosure \/ EndClosure
         \/ StartActivity \/ OpenGroup \/ Round \/ CloseGroup
  PROVE  Quiets(version, quiet)'
<1>1. /\ stack # <<>> /\ Top.pc \in DOMAIN Routine(Top).body BY WorkMoves
<1>2. /\ stack \in Seq(Frames) /\ Nested /\ Top \in Frames /\ version \in Nat /\ Reports
      /\ VarsTyped /\ ActInv
  BY <1>1, TopTyped DEF TypeInv, Nested, VarsTyped, ReportInv
<1>3. version' \in Nat /\ version <= version' BY <1>2, VersionGrows
<1>4. version' = version => quiet \subseteq quiet' BY <1>2, QuietGrows
<1>5. CASE /\ stack' = stack /\ (act.any => act'.any)
           /\ version' = version \/ act'.any
  <2>1. Replaced(Top) BY <1>1, <1>2, <1>5, CurrentKept DEF Replaced
  <2>2. Top.said = {} /\ ~act'.any => Tried(Top, quiet')
    BY <1>1, <1>4, <1>5, TriedMore DEF Quiets
  <2> QED BY <1>1, <1>2, <1>3, <1>4, <2>1, <2>2, QuietsReplaced
<1>6. ASSUME stack' # stack, NEW c \in BOOLEAN, Advance(c), act.any => c,
             version' = version \/ c
      PROVE  Quiets(version, quiet)'
  <2> DEFINE g == Advanced(Top, c)
  <2>1. Replaced(g) BY <1>1, <1>2, <1>6, AdvanceMoves
  <2>2. g \in Frames BY <1>1, <1>2, AdvancedIs
  <2>3. g.routine = Top.routine /\ g.entered = Top.entered /\ g.pc = Top.pc + 1
    BY <1>1, <1>2, AdvancedKeeps
  <2>4. (c => g.said # {}) /\ (~c => g.said = Top.said)
    BY <1>1, <1>2, AdvancedTells
  <2> HIDE DEF g
  <2>5. ASSUME g.said = {} PROVE Tried(g, quiet')
    <3>1. ~c /\ version' = version /\ Top.said = {} /\ ~act.any BY <1>6, <2>4, <2>5
    <3>2. Tried(Top, quiet) BY <1>1, <3>1 DEF Quiets
    <3>3. ~(\E d \in BOOLEAN : d /\ Advance(d))
      <4> SUFFICES ASSUME NEW d \in BOOLEAN, d, Advance(d) PROVE FALSE OBVIOUS
      <4>1. Replaced(Advanced(Top, d)) BY <1>1, <1>2, AdvanceMoves
      <4>2. Advanced(Top, d).said # {} BY <1>1, <1>2, AdvancedTells
      <4>3. Top' = g /\ Top' = Advanced(Top, d) BY <2>1, <4>1 DEF Replaced
      <4> QED BY <2>5, <4>2, <4>3
    <3>4. Top.routine # "FastLoop" /\ Always(Current) =>
            \A q \in EnabledRules : StepTries(Current, q) => q \in quiet
      BY <1>1, <1>6, <3>3, PassedTried
    <3>5. Tried(g, quiet) BY <1>1, <1>2, <2>3, <3>2, <3>4, TriedNext DEF Current
    <3> QED BY <1>4, <3>1, <3>5, TriedMore
  <2> QED BY <1>1, <1>2, <1>3, <1>4, <2>1, <2>2, <2>3, <2>5, QuietsReplaced
<1>7. CASE stack' = stack /\ \E c \in BOOLEAN : Advance(c)
  <2>1. PICK c \in BOOLEAN : Advance(c) BY <1>7
  <2>2. Top' = Advanced(Top, c) BY <1>1, <1>2, <2>1, AdvanceMoves DEF Replaced
  <2>3. Top'.pc = Top.pc + 1 BY <1>1, <1>2, <2>2, AdvancedKeeps
  <2>4. Top' = Top /\ Top.pc \in Nat BY <1>2, <1>7, CurrentKept DEF Frames
  <2>5. \A m \in Nat : m # m + 1 OBVIOUS
  <2> QED BY <2>3, <2>4, <2>5
<1> QED BY <1>2, <1>5, <1>6, <1>7, WorkTells

LEMMA QuietInvStep ==
  ASSUME TypeInv, VerdictInv, PhaseInv, ReportInv, QuietInv, [Next]_vars
  PROVE  QuietInv'
<1>1. RoundsInv' BY RoundsStep DEF QuietInv, ReportInv
<1>2. ASSUME ~Stopped' PROVE Quiets(version, quiet)'
  <2>1. ~Stopped /\ RoundsInv /\ Quiets(version, quiet) BY <1>2, StoppedStays DEF QuietInv
  <2>2. CASE EnterPass \/ Skip \/ CallStep \/ EndPass \/ EndIteration \/ EndCycle
    BY <1>2, <2>1, <2>2, QuietsControl
  <2>3. CASE \/ StartPhase \/ RunRule \/ EndPhase \/ StartClosure \/ EndClosure
             \/ StartActivity \/ OpenGroup \/ Round \/ CloseGroup
    BY <1>2, <2>1, <2>3, QuietsWork
  <2>4. CASE Expire BY <1>2, <2>4 DEF Expire, Stopped
  <2>5. CASE UNCHANGED vars
    <3>1. stack' = stack /\ version' = version /\ quiet' = quiet /\ act' = act
      BY <2>5 DEF vars, planVars, lpVars
    <3>2. Top' = Top BY <3>1 DEF Top
    <3> QED BY <2>1, <3>1, <3>2 DEF Quiets, Behind, Tried
  <2> QED BY <2>2, <2>3, <2>4, <2>5 DEF Next, Work
<1>3. ~Stopped' => Quiets(version, quiet)' BY <1>2
<1> QED BY <1>1, <1>3 DEF QuietInv

-----------------------------------------------------------------------------
(* Where the fixed scheduler stops.                                        *)

LEMMA FixedCalls ==
  ASSUME NEW f \in Frames, f.routine = "FixedMain", NEW r, Calls(f, r)
  PROVE  f.pc = 1 /\ r = "FixedIterations"
<1>1. /\ Routine(f).body = <<Call("FixedIterations"), Phase(<<"redundant_bounds">>)>>
  BY DEF Routine, Routines, Once
<1>2. /\ Call("FixedIterations").what[1] = "FixedIterations"
      /\ Call("FixedIterations").do = "call" /\ Phase(<<"redundant_bounds">>).do = "phase"
  BY DEF Call, Phase, Step
<1>3. /\ <<Call("FixedIterations"), Phase(<<"redundant_bounds">>)>>[1] = Call("FixedIterations")
      /\ <<Call("FixedIterations"), Phase(<<"redundant_bounds">>)>>[2]
           = Phase(<<"redundant_bounds">>)
      /\ DOMAIN <<Call("FixedIterations"), Phase(<<"redundant_bounds">>)>> = 1..2
  OBVIOUS
<1>4. f.pc \in 1..2 BY <1>1, <1>3 DEF Calls
<1>5. f.pc = 1 BY <1>1, <1>2, <1>3, <1>4 DEF Calls
<1> QED BY <1>1, <1>2, <1>3, <1>5 DEF Calls

\* The second frame of the fixed scheduler is its iteration loop.
LEMMA FixedSecond ==
  ASSUME Nested, Len(stack) > 1, stack[1].routine = "FixedMain"
  PROVE  stack[1].pc = 1 /\ stack[2].routine = "FixedIterations"
<1>1. stack \in Seq(Frames) /\ Len(stack) \in Nat BY DEF Nested
<1>2. 1 \in 1..(Len(stack) - 1) /\ stack[1] \in Frames BY <1>1
<1>3. Calls(stack[1], stack[1 + 1].routine) BY <1>2 DEF Nested
<1>4. 1 + 1 = 2 OBVIOUS
<1> QED BY <1>2, <1>3, <1>4, FixedCalls

\* No move of the stack touches the lambda at its bottom.
LEMMA BottomStays ==
  ASSUME TypeInv, [Next]_vars, stack' # <<>>
  PROVE  stack # <<>> /\ stack'[1].routine = stack[1].routine
<1>1. stack \in Seq(Frames) /\ Nested /\ Len(stack) \in Nat BY DEF TypeInv, Nested
<1>11. \A m \in Nat : m > 0 /\ m # 1 => 1 \in 1..(m - 1) /\ m > 1 /\ (m = 2 \/ m > 2) OBVIOUS
<1>2. ASSUME stack # <<>>, NEW g, Replaced(g), g.routine = Top.routine
      PROVE  stack'[1].routine = stack[1].routine
  <2>1. Len(stack) > 0 BY <1>1, <1>2, TopTyped
  <2>2. CASE Len(stack) = 1 BY <1>2, <2>2 DEF Replaced, Top
  <2>3. CASE Len(stack) # 1
    <3>1. 1 \in 1..(Len(stack) - 1) BY <1>1, <1>11, <2>1, <2>3
    <3> QED BY <1>2, <3>1 DEF Replaced
  <2> QED BY <2>2, <2>3
<1>3. ASSUME stack # <<>>, NEW c \in BOOLEAN, Advance(c), Top.pc \in DOMAIN Routine(Top).body
      PROVE  stack'[1].routine = stack[1].routine
  <2> DEFINE g == Advanced(Top, c)
  <2>1. Top \in Frames BY <1>1, <1>3, TopTyped
  <2>2. Replaced(g) BY <1>1, <1>3, AdvanceMoves
  <2>3. g.routine = Top.routine BY <1>3, <2>1, AdvancedKeeps
  <2> HIDE DEF g
  <2> QED BY <1>2, <1>3, <2>2, <2>3
<1>4. ASSUME stack # <<>>, NEW pc \in {0, 1}, Jump(pc)
      PROVE  stack'[1].routine = stack[1].routine
  <2> DEFINE g == [Top EXCEPT !.pc = pc, !.said = {}]
  <2>1. Top \in Frames BY <1>1, <1>4, TopTyped
  <2>2. pc \in Nat OBVIOUS
  <2>3. Replaced(g) BY <1>1, <1>4, <2>2, JumpMoves
  <2>4. g.routine = Top.routine BY <2>1, <2>2, JumpedIs
  <2> HIDE DEF g
  <2> QED BY <1>2, <1>4, <2>3, <2>4
<1>5. ASSUME stack # <<>>, Return PROVE stack'[1].routine = stack[1].routine
  <2>1. Returned /\ Len(stack) > 0 BY <1>1, <1>5, ReturnMoves, TopTyped
  <2>2. CASE Len(stack) = 2
    <3> DEFINE f == stack[1]
               c == Top.any
    <3>1. f \in Frames /\ c \in BOOLEAN
      <4>1. f \in Frames BY <1>1, <2>2
      <4>2. Top \in Frames BY <1>1, <1>5, TopTyped
      <4> QED BY <4>1, <4>2 DEF Frames
    <3>2. f.pc \in DOMAIN Routine(f).body
      <4>1. 1 \in 1..(Len(stack) - 1) BY <2>2
      <4> QED BY <1>1, <4>1 DEF Nested, Calls
    <3> HIDE DEF f, c
    <3>3. Advanced(f, c).routine = f.routine BY <3>1, <3>2, AdvancedKeeps
    <3>4. stack'[1] = Advanced(f, c) BY <1>1, <2>1, <2>2 DEF Returned, Top, f, c
    <3> QED BY <3>3, <3>4 DEF f
  <2>3. CASE Len(stack) > 2
    <3>1. 1 \in 1..(Len(stack) - 2) BY <1>1, <2>3
    <3> QED BY <2>1, <2>3, <3>1 DEF Returned
  <2>4. Len(stack) > 1 BY <2>1 DEF Returned
  <2>5. Len(stack) # 1
    <3>1. \A m \in Nat : m > 1 => m # 1 OBVIOUS
    <3> QED BY <1>1, <2>4, <3>1
  <2> QED BY <1>1, <1>11, <2>1, <2>2, <2>3, <2>5
<1>6. CASE EnterPass \/ EndPass \/ EndIteration \/ EndCycle
  <2>1. stack # <<>> /\ (Return \/ Jump(0) \/ Jump(1))
    BY <1>6 DEF EnterPass, EndPass, EndIteration, EndCycle
  <2> QED BY <1>4, <1>5, <2>1
<1>7. CASE Skip BY <1>3, <1>7 DEF Skip
<1>8. CASE CallStep
  <2>1. stack # <<>> BY <1>8 DEF CallStep, AtStep
  <2>2. PICK r \in Names : Entered(r) BY <1>8, CallEnters
  <2>3. 1 \in 1..Len(stack) BY <1>1, <2>1, TopTyped
  <2> QED BY <2>1, <2>2, <2>3 DEF Entered
<1>9. CASE \/ StartPhase \/ RunRule \/ EndPhase \/ StartClosure \/ EndClosure
           \/ StartActivity \/ OpenGroup \/ Round \/ CloseGroup
  <2>1. stack # <<>> /\ Top.pc \in DOMAIN Routine(Top).body
        /\ (stack' = stack \/ \E c \in BOOLEAN : Advance(c))
    BY <1>9, WorkMoves
  <2> QED BY <1>3, <2>1
<1>10. CASE Expire \/ UNCHANGED vars BY <1>10 DEF Expire, vars
<1> QED BY <1>6, <1>7, <1>8, <1>9, <1>10 DEF Next, Work

\* Only the top frame can be at an iteration's end; the iterations of the
\* fixed scheduler are counted by the second frame alone.
LEMMA CountInvStep ==
  ASSUME TypeInv, CountInv, [Next]_vars
  PROVE  CountInv'
<1> SUFFICES ASSUME stack' # <<>>, stack'[1].routine = "FixedMain"
             PROVE  /\ iterations' <= MaxIters
                    /\ Len(stack') > 1 /\ stack'[2].pc > 0 => iterations' < MaxIters
  BY DEF CountInv
<1> USE SchedulerAssumption
<1>1. /\ stack \in Seq(Frames) /\ Nested /\ iterations \in Nat /\ Len(stack) \in Nat
  BY DEF TypeInv, Nested, VarsTyped
<1>2. ASSUME stack' = stack, iterations' = iterations
      PROVE  /\ iterations' <= MaxIters
             /\ Len(stack') > 1 /\ stack'[2].pc > 0 => iterations' < MaxIters
  BY <1>2 DEF CountInv
<1>3. CASE Expire \/ UNCHANGED vars BY <1>2, <1>3 DEF Expire, vars, loopVars
<1>4. ASSUME stack # <<>>, NEW g \in Frames, Replaced(g), g.routine = Top.routine,
             iterations' = iterations,
             Len(stack) = 2 /\ g.pc > 0 => Top.pc > 0 \/ iterations < MaxIters
      PROVE  /\ iterations' <= MaxIters
             /\ Len(stack') > 1 /\ stack'[2].pc > 0 => iterations' < MaxIters
  <2> DEFINE n == Len(stack)
  <2>1. n \in Nat /\ n > 0 /\ Top = stack[n] BY <1>1, <1>4, TopTyped DEF Top
  <2>2. /\ Len(stack') = n /\ stack'[n] = g
        /\ \A i \in 1..(n - 1) : stack'[i] = stack[i]
    BY <1>4 DEF Replaced, Top
  <2>3. stack[1].routine = "FixedMain" BY <1>4, <2>1, <2>2
  <2>4. iterations <= MaxIters BY <1>4, <2>3 DEF CountInv
  <2>5. ASSUME n > 1, stack'[2].pc > 0 PROVE iterations < MaxIters
    <3>1. CASE n = 2 BY <1>4, <2>1, <2>2, <2>3, <2>5, <3>1 DEF CountInv
    <3>2. CASE n # 2
      <4>1. 2 \in 1..(n - 1) BY <2>1, <2>5, <3>2
      <4>2. stack'[2] = stack[2] BY <2>2, <4>1
      <4> QED BY <1>4, <2>3, <2>5, <4>2 DEF CountInv
    <3> QED BY <3>1, <3>2
  <2> QED BY <1>4, <2>2, <2>4, <2>5
<1>5. ASSUME stack # <<>>, NEW c \in BOOLEAN, Advance(c), Top.pc \in DOMAIN Routine(Top).body,
             iterations' = iterations
      PROVE  /\ iterations' <= MaxIters
             /\ Len(stack') > 1 /\ stack'[2].pc > 0 => iterations' < MaxIters
  <2> DEFINE g == Advanced(Top, c)
  <2>1. Top \in Frames BY <1>1, <1>5, TopTyped
  <2>2. Replaced(g) BY <1>1, <1>5, AdvanceMoves
  <2>3. g \in Frames BY <1>5, <2>1, AdvancedIs
  <2>4. g.routine = Top.routine BY <1>5, <2>1, AdvancedKeeps
  <2>5. Top.pc > 0
    <3>1. Top.pc \in 1..Len(Routine(Top).body) /\ Len(Routine(Top).body) \in Nat
      BY <1>5, <2>1, AllWired DEF Frames, Wired, Routine
    <3> QED BY <3>1
  <2> HIDE DEF g
  <2> QED BY <1>4, <1>5, <2>2, <2>3, <2>4, <2>5
<1>6. ASSUME stack # <<>>, NEW pc \in {0, 1}, Jump(pc), iterations' = iterations,
             pc = 1 /\ Len(stack) = 2 /\ stack[1].routine = "FixedMain" => iterations < MaxIters
      PROVE  /\ iterations' <= MaxIters
             /\ Len(stack') > 1 /\ stack'[2].pc > 0 => iterations' < MaxIters
  <2> DEFINE g == [Top EXCEPT !.pc = pc, !.said = {}]
  <2>1. Top \in Frames BY <1>1, <1>6, TopTyped
  <2>2. Replaced(g) BY <1>1, <1>6, JumpMoves
  <2>3. g \in Frames /\ g.routine = Top.routine /\ g.pc = pc
    <3>1. pc \in Nat OBVIOUS
    <3> QED BY <2>1, <3>1, JumpedIs
  <2> HIDE DEF g
  <2>4. Len(stack) = 2 => stack'[1] = stack[1] BY <2>2 DEF Replaced
  <2>5. Len(stack) = 2 /\ g.pc > 0 => iterations < MaxIters BY <1>6, <2>3, <2>4
  <2> QED BY <1>4, <1>6, <2>2, <2>3, <2>5
<1>7. stack # <<>> /\ stack[1].routine = "FixedMain" /\ iterations <= MaxIters
  BY BottomStays DEF CountInv
<1>8. Len(stack) > 0 /\ Top = stack[Len(stack)] /\ Top \in Frames BY <1>1, <1>7, TopTyped DEF Top
<1>9. ~(Top.routine \in {"Cycles", "Bootstrap"})
  <2>1. Len(stack) \in 1..Len(stack) BY <1>1, <1>8
  <2> QED BY <1>1, <1>7, <1>8, <2>1, LoopsSecond
<1>10. ASSUME Return, Len(stack) # 2 => iterations' = iterations,
              ~EndIteration => iterations' = iterations
       PROVE  /\ iterations' <= MaxIters
              /\ Len(stack') > 1 /\ stack'[2].pc > 0 => iterations' < MaxIters
  <2>1. Returned /\ Len(stack) > 1 /\ Len(stack') = Len(stack) - 1
    BY <1>1, <1>7, <1>10, ReturnMoves DEF Returned
  <2>2. CASE Len(stack) = 2
    <3>1. Len(stack') = 1 BY <2>1, <2>2
    <3>2. iterations' <= MaxIters
      <4>1. CASE iterations' = iterations BY <1>7, <4>1
      <4>2. CASE EndIteration
        <5>1. Top.pc = Len(Routine(Top).body) + 1 /\ iterations' = iterations + 1
          BY <4>2 DEF EndIteration
        <5>2. Top.routine = "FixedIterations" BY <1>1, <1>7, <1>8, <2>1, <2>2, FixedSecond
        <5>3. Top.pc > 0 BY <5>1, <5>2, FixedBody DEF Routine
        <5>4. iterations < MaxIters BY <1>7, <1>8, <2>2, <5>3 DEF CountInv
        <5> QED BY <1>1, <5>1, <5>4
      <4> QED BY <1>10, <4>1, <4>2
    <3> QED BY <3>1, <3>2
  <2>3. CASE Len(stack) > 2
    <3>1. iterations' = iterations
      <4>1. \A m \in Nat : m > 2 => m # 2 OBVIOUS
      <4> QED BY <1>1, <1>10, <2>3, <4>1
    <3>2. stack[2].pc > 0
      <4>1. 2 \in 1..(Len(stack) - 1) /\ stack[2] \in Frames BY <1>1, <2>3
      <4>2. stack[2].pc \in DOMAIN Routine(stack[2]).body BY <1>1, <4>1 DEF Nested, Calls
      <4>3. DOMAIN Routine(stack[2]).body = 1..Len(Routine(stack[2]).body)
        BY <4>1, AllWired DEF Frames, Wired, Routine
      <4>4. Len(Routine(stack[2]).body) \in Nat
        BY <4>1, AllWired DEF Frames, Wired, Routine
      <4> QED BY <4>2, <4>3, <4>4
    <3> QED BY <1>7, <2>3, <3>1, <3>2 DEF CountInv
  <2> QED BY <1>1, <2>1, <2>2, <2>3
<1>11. CASE EnterPass
  <2>1. iterations' = iterations BY <1>11 DEF EnterPass, loopVars
  <2>2. Return \/ (Jump(1) /\ (Routine(Top).loop = "iterate" => IterationsLeft))
    BY <1>11 DEF EnterPass
  <2>3. Len(stack) = 2 => Routine(Top).loop = "iterate"
    BY <1>1, <1>7, <1>8, FixedSecond, FixedBody DEF Routine
  <2>4. CASE Return BY <1>10, <2>1, <2>4
  <2>5. CASE ~Return
    <3>1. Len(stack) = 2 => iterations < MaxIters BY <2>2, <2>3, <2>5 DEF IterationsLeft
    <3> QED BY <1>6, <1>7, <2>1, <2>2, <2>5, <3>1
  <2> QED BY <2>4, <2>5
<1>12. CASE EndPass
  <2>1. iterations' = iterations /\ (Return \/ Jump(0)) BY <1>12 DEF EndPass, loopVars
  <2>2. CASE Return BY <1>10, <2>1, <2>2
  <2>3. CASE Jump(0)
    <3>1. 0 \in {0, 1} /\ 0 # 1 OBVIOUS
    <3> QED BY <1>6, <1>7, <2>1, <2>3, <3>1
  <2> QED BY <2>1, <2>2, <2>3
<1>13. CASE EndIteration
  <2>1. Top.routine \in Names /\ Routine(Top).loop \in {"bootstrap", "iterate"}
    BY <1>8, <1>13 DEF EndIteration, Frames
  <2>2. Top.routine = "FixedIterations" BY <1>9, <2>1, AllWired DEF Wired, Routine
  <2>3. Len(stack) = 2
    <3>1. Len(stack) \in 1..Len(stack) BY <1>1, <1>8
    <3> QED BY <1>1, <1>8, <2>2, <3>1, LoopsSecond
  <2>4. iterations' = iterations + 1 /\ (Return \/ Jump(0)) BY <1>13 DEF EndIteration
  <2>5. CASE Jump(0)
    <3> DEFINE g == [Top EXCEPT !.pc = 0, !.said = {}]
    <3>1. Replaced(g) BY <1>1, <1>7, <2>5, JumpMoves
    <3>2. g.pc = 0 BY <1>8 DEF Frames
    <3> HIDE DEF g
    <3>3. stack'[2].pc = 0 BY <2>3, <3>1, <3>2 DEF Replaced, Top
    <3>4. Top.pc > 0
      <4>1. Top.pc = Len(Routine(Top).body) + 1 BY <1>13 DEF EndIteration
      <4> QED BY <2>2, <4>1, FixedBody DEF Routine
    <3>5. iterations < MaxIters BY <1>7, <1>8, <2>3, <3>4 DEF CountInv
    <3> QED BY <1>1, <2>4, <3>3, <3>5
  <2> QED BY <1>10, <1>13, <2>3, <2>4, <2>5
<1>14. CASE EndCycle BY <1>9, <1>14 DEF EndCycle
<1>15. CASE Skip BY <1>5, <1>15 DEF Skip, loopVars
<1>16. CASE CallStep
  <2>1. PICK r \in Names : Entered(r) BY <1>16, CallEnters
  <2>2. iterations' = iterations BY <1>16 DEF CallStep
  <2>3. CASE Len(stack) = 1
    <3>1. stack'[2] = Frame(r) BY <2>1, <2>3 DEF Entered, Top
    <3>2. Frame(r).pc = 0 BY FrameIs DEF TypeInv, VarsTyped
    <3> QED BY <1>7, <2>2, <3>1, <3>2
  <2>4. CASE Len(stack) > 1
    <3>1. 2 \in 1..Len(stack) BY <1>1, <2>4
    <3>2. stack'[2] = stack[2] BY <2>1, <3>1 DEF Entered
    <3> QED BY <1>7, <2>2, <2>4, <3>2 DEF CountInv
  <2>5. \A m \in Nat : m > 0 => m = 1 \/ m > 1 OBVIOUS
  <2> QED BY <1>1, <1>8, <2>3, <2>4, <2>5
<1>17. CASE \/ StartPhase \/ RunRule \/ EndPhase \/ StartClosure \/ EndClosure
            \/ StartActivity \/ OpenGroup \/ Round \/ CloseGroup
  <2>1. iterations' = iterations
    BY <1>17 DEF StartPhase, RunRule, EndPhase, StartClosure, EndClosure, StartActivity,
                 OpenGroup, Round, CloseGroup, loopVars
  <2>2. Top.pc \in DOMAIN Routine(Top).body
        /\ (stack' = stack \/ \E c \in BOOLEAN : Advance(c))
    BY <1>17, WorkMoves
  <2> QED BY <1>2, <1>5, <1>7, <2>1, <2>2
<1> QED BY <1>3, <1>11, <1>12, <1>13, <1>14, <1>15, <1>16, <1>17 DEF Next, Work

\* Without a verdict and before the deadline the fixed scheduler goes on to
\* its last phase only at the iteration limit, or when every enabled rule
\* found nothing on the present LP.
LEMMA FixpointStep ==
  ASSUME TypeInv, VerdictInv, ReportInv, QuietInv, CountInv, StopsAtFixpoint, [Next]_vars
  PROVE  StopsAtFixpoint'
<1> SUFFICES ASSUME stack' # <<>>, Top'.routine = "FixedMain", Top'.pc = 2, busy' = "idle",
                    ~Stopped', iterations' # MaxIters,
                    NEW q \in GenericRules \cap EnabledRules
             PROVE  q \in quiet'
  BY DEF StopsAtFixpoint
<1>1. ~Stopped /\ Quiets(version, quiet) BY StoppedStays DEF QuietInv
<1>2. /\ stack # <<>> /\ stack \in Seq(Frames) /\ Nested /\ Len(stack) \in Nat
      /\ Len(stack) > 0 /\ Top \in Frames
  BY BottomStays, TopTyped DEF TypeInv, Nested
<1>3. CASE Expire \/ UNCHANGED vars
  <2>1. stack' = stack /\ busy' = busy /\ iterations' = iterations /\ quiet' = quiet
    BY <1>3 DEF Expire, vars, planVars, loopVars, lpVars
  <2>2. Top' = Top BY <2>1, CurrentKept
  <2> QED BY <1>1, <1>2, <2>1, <2>2 DEF StopsAtFixpoint
<1>4. ASSUME NEW pc \in {0, 1}, Jump(pc) PROVE FALSE
  <2> DEFINE g == [Top EXCEPT !.pc = pc, !.said = {}]
  <2>1. pc \in Nat OBVIOUS
  <2>2. Replaced(g) BY <1>2, <1>4, <2>1, JumpMoves
  <2>3. g.pc = pc BY <1>2, <2>1, JumpedIs
  <2> HIDE DEF g
  <2> QED BY <2>2, <2>3 DEF Replaced
<1>5. ASSUME Top.pc \in DOMAIN Routine(Top).body, NEW c \in BOOLEAN, Advance(c)
      PROVE  /\ Current.do = "call" /\ Current.needs = {} /\ Current.unless = {}
             /\ Top.routine = "FixedMain"
  <2>1. Top' = Advanced(Top, c) BY <1>2, <1>5, AdvanceMoves DEF Replaced
  <2>2. Top'.routine = Top.routine /\ Top'.pc = Top.pc + 1
    BY <1>2, <1>5, <2>1, AdvancedKeeps
  <2>3. Top.routine = "FixedMain" /\ Top.pc = 1
    <3>1. Top.pc \in Nat BY <1>2 DEF Frames
    <3> QED BY <2>2, <3>1
  <2>4. Current = Call("FixedIterations") BY <2>3, FixedBody DEF Current, Routine
  <2> QED BY <2>3, <2>4 DEF Call, Step
<1>6. CASE Skip
  <2>1. Top.pc \in DOMAIN Routine(Top).body /\ Advance(FALSE) /\ ~Wanted(Current)
    BY <1>6 DEF Skip
  <2> QED BY <1>5, <2>1 DEF Wanted
<1>7. CASE \/ StartPhase \/ RunRule \/ EndPhase \/ StartClosure \/ EndClosure
           \/ StartActivity \/ OpenGroup \/ Round \/ CloseGroup
  <2>1. Top.pc \in DOMAIN Routine(Top).body /\ \E c \in BOOLEAN : Advance(c)
    BY <1>7, WorkMoves
  <2>2. Current.do = "call" BY <1>5, <2>1
  <2> QED BY <1>7, <2>2 DEF StartPhase, RunRule, EndPhase, StartClosure, EndClosure,
             StartActivity, OpenGroup, Round, CloseGroup, AtStep, TypeInv, Doing
<1>8. CASE CallStep
  <2>1. PICK r \in Names : Entered(r) BY <1>8, CallEnters
  <2>2. Frame(r).pc = 0 BY FrameIs DEF TypeInv, VarsTyped
  <2> QED BY <2>1, <2>2 DEF Entered
<1>9. ASSUME Return
      PROVE  Len(stack) = 2 /\ Top = stack[2] /\ Top.routine = "FixedIterations"
             /\ stack[1].routine = "FixedMain"
  <2>1. Returned /\ Len(stack) > 1 BY <1>2, <1>9, ReturnMoves DEF Returned
  <2>2. PICK n \in Nat : n + 1 = Len(stack) /\ n >= 1
    <3>1. \A m \in Nat : m > 1 => m - 1 \in Nat /\ m - 1 + 1 = m /\ m - 1 >= 1 OBVIOUS
    <3> QED BY <1>2, <2>1, <3>1
  <2> DEFINE f == stack[n]
             c == Top.any
  <2>3. f \in Frames /\ f.pc \in DOMAIN Routine(f).body
    BY <1>2, <2>2 DEF Nested, Calls
  <2>4. c \in BOOLEAN BY <1>2 DEF Frames
  <2>5. n = Len(stack) - 1 BY <2>2
  <2> HIDE DEF f, c
  <2>6. Top' = Advanced(f, c) BY <2>1, <2>5 DEF Returned, f, c
  <2>7. f.routine = "FixedMain" BY <2>3, <2>4, <2>6, AdvancedKeeps
  <2>8. n = 1
    <3>1. n \in 1..Len(stack) BY <2>2
    <3> QED BY <1>2, <2>7, <3>1, LoopsSecond DEF f, Mains
  <2>9. Len(stack) = 2 BY <2>2, <2>8
  <2> QED BY <1>2, <2>1, <2>7, <2>8, <2>9, FixedSecond DEF f, Top
<1>10. CASE EnterPass
  <2>1. Return BY <1>4, <1>10 DEF EnterPass
  <2>2. Len(stack) = 2 /\ Top.routine = "FixedIterations" /\ stack[1].routine = "FixedMain"
    BY <1>9, <2>1
  <2>3. Routine(Top).loop = "iterate" BY <2>2, FixedBody DEF Routine
  <2>4. ~Jump(1) BY <1>4
  <2>5. ~IterationsLeft BY <1>1, <1>10, <2>3, <2>4 DEF EnterPass
  <2>6. iterations <= MaxIters /\ iterations' = iterations /\ iterations \in Nat
    BY <1>2, <1>10, <2>2 DEF CountInv, EnterPass, loopVars, TypeInv, VarsTyped
  <2> QED BY <2>5, <2>6, SchedulerAssumption DEF IterationsLeft
<1>11. CASE EndPass
  <2>1. Return BY <1>4, <1>11 DEF EndPass
  <2>2. Routine(Top).loop = "iterate" BY <1>9, <2>1, FixedBody DEF Routine
  <2> QED BY <1>11, <2>2 DEF EndPass
<1>12. CASE EndCycle
  <2>1. Return BY <1>4, <1>12 DEF EndCycle
  <2> QED BY <1>9, <1>12, <2>1 DEF EndCycle
<1>13. CASE EndIteration
  <2>1. Return BY <1>4, <1>13 DEF EndIteration
  <2>2. Top.routine = "FixedIterations" BY <1>9, <2>1
  <2>3. Routine(Top).loop = "iterate" BY <2>2, FixedBody DEF Routine
  <2>4. Top.said = {} BY <1>4, <1>13, <2>3 DEF EndIteration
  <2>5. ~act.any BY <1>13 DEF EndIteration, ReportInv, ActInv
  <2>6. Tried(Top, quiet) BY <1>1, <1>2, <2>4, <2>5 DEF Quiets
  <2>7. Top.pc = Len(Routine(Top).body) + 1 /\ quiet' = quiet BY <1>13 DEF EndIteration, lpVars
  <2>8. Reaches(Top.routine, q) BY <2>2, FixedBody
  <2> QED BY <1>2, <2>2, <2>6, <2>7, <2>8, TriedAll
<1> QED BY <1>3, <1>6, <1>7, <1>8, <1>10, <1>11, <1>12, <1>13 DEF Next, Work

LEMMA FixpointInit == Init => QuietInv /\ CountInv /\ StopsAtFixpoint
<1> SUFFICES ASSUME Init PROVE QuietInv /\ CountInv /\ StopsAtFixpoint OBVIOUS
<1>1. PICK main \in Schedulers :
        stack = <<[routine |-> main, pc |-> 0, said |-> {}, any |-> FALSE, entered |-> 0]>>
  BY DEF Init
<1>2. Len(stack) = 1 /\ Top.pc = 0 BY <1>1 DEF Top
<1>3. Nested BY TypeInvInit DEF TypeInv
<1>4. Top \in Frames BY <1>1, <1>3, TopTyped DEF Nested
<1>5. Quiets(version, quiet)
  <2>1. Tried(Top, quiet) BY <1>2, <1>4, TriedAtStart
  <2> QED BY <1>2, <2>1 DEF Quiets
<1>6. RoundsInv BY DEF Init, RoundsInv
<1>7. CountInv BY <1>2, SchedulerAssumption DEF Init, CountInv
<1>8. StopsAtFixpoint BY <1>2 DEF StopsAtFixpoint
<1> QED BY <1>5, <1>6, <1>7, <1>8 DEF QuietInv

\* Without a verdict and before the deadline the fixed scheduler stops only
\* at its iteration limit or when no enabled rule finds anything any more:
\* no loop or call of a lambda leaves out a rule that has work to do.
THEOREM StopsWhereNothingIsFound == Spec => []StopsAtFixpoint
<1>1. TypeInv /\ VerdictInv /\ PhaseInv /\ ReportInv /\ QuietInv /\ [Next]_vars => QuietInv'
  BY QuietInvStep
<1>2. TypeInv /\ CountInv /\ [Next]_vars => CountInv' BY CountInvStep
<1>3. TypeInv /\ VerdictInv /\ ReportInv /\ QuietInv /\ CountInv /\ StopsAtFixpoint
        /\ [Next]_vars => StopsAtFixpoint'
  BY FixpointStep
<1> QED BY <1>1, <1>2, <1>3, FixpointInit, VerdictInvHolds, PhaseInvHolds, ReportInvHolds,
           WellFormed, PTL DEF Spec
=============================================================================
