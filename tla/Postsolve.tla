----------------------------- MODULE Postsolve -----------------------------
(***************************************************************************)
(* postsolve_gpu on the record a presolve run left: the primal solution of *)
(* the original LP from that of the reduced one.                           *)
(*                                                                         *)
(* Presolve commits plans (PresolveRecord); once the reduced LP is solved, *)
(* postsolve scatters the solution to the original columns, restores ALL   *)
(* fixed values, and then walks the timeline backwards: it replays the     *)
(* tape records behind a checkpoint from last to first, then expands the   *)
(* checkpoint's payload with GPU kernels whose threads run in any order.   *)
(*                                                                         *)
(* The reference is what each plan means on its own: undo the plans one    *)
(* by one, last first, each in the local column indices it was written in. *)
(* Values are terms, so two values are equal only if they were computed by *)
(* the same entries from the same inputs.                                  *)
(***************************************************************************)
EXTENDS PresolveRecord

VARIABLES
  history,    \* the committed plans, each with the LP columns it spoke of
  phase,      \* what postsolve_gpu is doing
  x,          \* result.x_org
  cp,         \* checkpoints of the timeline not undone yet
  rangeEnd,   \* end of the tape range not replayed yet
  kernel,     \* kernel of the payload that is running
  todo,       \* units (threads) of that kernel that have not run
  cache       \* plus_cache and minus_cache, by unit

postVars == <<phase, x, cp, rangeEnd, kernel, todo, cache>>
allVars == <<vars, history, postVars>>

-----------------------------------------------------------------------------
(* Values.                                                                 *)

Reduced(c) == <<"reduced", c>>
Fixed(c) == <<"fixed", c>>
Zero == <<"zero">>      \* cudaMemset before the scatter

\* The value an assignment of a unit computes from the slots v; name gives
\* the original column of a slot, so that both sides speak of the same terms.
Computed(a, unit, v, name) ==
  <<"computed", name[a.to], {name[w] : w \in Writes(unit)}, {<<name[c], v[c]>> : c \in a.from}>>

\* A thread reads its inputs from v and writes its columns of vec.
RunUnit(vec, unit, v, name) ==
  [i \in DOMAIN vec |-> IF i \in Writes(unit)
                        THEN Computed(CHOOSE a \in unit : a.to = i, unit, v, name)
                        ELSE vec[i]]

OrgName == [c \in OrgCols |-> c]

-----------------------------------------------------------------------------
(* The reference: a plan undone in its own index space.                    *)

\* A kernel reads before any of its threads writes.
RunKernel(vec, units, name) ==
  [i \in DOMAIN vec |->
     IF \E u \in units : i \in Writes(u)
     THEN LET u == CHOOSE w \in units : i \in Writes(w)
          IN Computed(CHOOSE a \in u : a.to = i, u, vec, name)
     ELSE vec[i]]

UndoRecords(vec, records, name) ==
  LET undone[k \in 0..Len(records)] ==
        IF k = 0 THEN vec
        ELSE LET unit == records[Len(records) + 1 - k].unit
             IN RunUnit(undone[k - 1], unit, undone[k - 1], name)
  IN undone[Len(records)]

ExpandPayload(vec, kernels, name) ==
  LET expanded[k \in 0..Len(kernels)] ==
        IF k = 0 THEN vec ELSE RunKernel(expanded[k - 1], kernels[k], name)
  IN expanded[Len(kernels)]

\* From the values of the columns that survive plan h to those of its LP.
UndoPlan(h, after) ==
  LET start == [i \in DOMAIN h.cols |->
                  IF i \in h.plan.keepCol THEN after[h.cols[i]]
                  ELSE IF i \in h.plan.fixed THEN Fixed(h.cols[i]) ELSE Zero]
      undone == ExpandPayload(UndoRecords(start, h.plan.records, h.cols),
                              h.plan.kernels, h.cols)
  IN [c \in RangeOf(h.cols) |-> undone[CHOOSE i \in DOMAIN h.cols : h.cols[i] = c]]

Expected ==
  LET before[k \in 0..Len(history)] ==
        IF k = 0 THEN [c \in RangeOf(lpCols) |-> Reduced(c)]
        ELSE UndoPlan(history[Len(history) + 1 - k], before[k - 1])
  IN before[Len(history)]

-----------------------------------------------------------------------------
PInit ==
  /\ Init
  /\ history = << >>
  /\ phase = "presolve"
  /\ x = [c \in OrgCols |-> Zero]
  /\ cp = 0 /\ rangeEnd = 0 /\ kernel = 0
  /\ todo = {} /\ cache = << >>

Presolve ==
  /\ phase = "presolve"
  /\ \E p \in Plans(Len(lpRows), Len(lpCols)) :
       /\ ApplyPlan(p)
       /\ history' = Append(history, [cols |-> lpCols, plan |-> p])
  /\ UNCHANGED postVars

\* postsolve_gpu validates the record, then scatter_reduced_to_original:
\* slot i of the solver's answer is column lpCols[i]; it is written where the
\* record says slot i belongs.
Scatter ==
  /\ phase = "presolve"
  /\ phase' = IF ValidTimeline THEN "fixed" ELSE "throw"
  /\ x' = [c \in OrgCols |-> IF c \in RangeOf(colRed2org)
                             THEN Reduced(lpCols[CHOOSE i \in DOMAIN colRed2org : colRed2org[i] = c])
                             ELSE Zero]
  /\ UNCHANGED <<vars, history, cp, rangeEnd, kernel, todo, cache>>

\* Mutants of RangeBegin: all records are replayed before the first payload;
\* all payloads are expanded before the first record; the records committed
\* before the first payload are left out.
RangeBeginIgnored(c) == 0
RangeBeginLast(c) == IF c = 0 THEN 0 ELSE Len(tape)
RangeBeginNoHead(c) == IF timeline = << >> THEN 0
                       ELSE IF c = 0 THEN timeline[1].position ELSE timeline[c].position
\* The range from the checkpoint below to rangeEnd is replayed next, or
\* replay_postsolve_tape_range throws.
RangeBegin(c) == IF c = 0 THEN 0 ELSE timeline[c].position
\* Mutant of EnterRange: an empty range is taken for an invalid one.
EnterRangeNonempty(c, end) ==
  phase' = IF RangeBegin(c) < end /\ end <= Len(tape) THEN "replay" ELSE "throw"
EnterRange(c, end) ==
  phase' = IF RangeBegin(c) <= end /\ end <= Len(tape) THEN "replay" ELSE "throw"

\* restore_fixed_values; then the walk over the timeline starts at its end.
RestoreFixed ==
  /\ phase = "fixed"
  /\ x' = [c \in OrgCols |-> IF c \in RangeOf(fixedIdx) THEN Fixed(c) ELSE x[c]]
  /\ cp' = Len(timeline)
  /\ rangeEnd' = Len(tape)
  /\ EnterRange(Len(timeline), Len(tape))
  /\ UNCHANGED <<vars, history, kernel, todo, cache>>

\* One GPU thread replays the range, last record first.
ReplayRecord ==
  /\ phase = "replay" /\ RangeBegin(cp) < rangeEnd
  /\ x' = RunUnit(x, tape[rangeEnd].unit, x, OrgName)
  /\ rangeEnd' = rangeEnd - 1
  /\ UNCHANGED <<vars, history, phase, cp, kernel, todo, cache>>

Payload == payloads[timeline[cp].kind][timeline[cp].payload]

\* The range behind checkpoint cp is replayed: expand its payload.
StartPayload ==
  /\ phase = "replay" /\ rangeEnd = RangeBegin(cp) /\ cp > 0
  /\ phase' = IF timeline[cp].kind = "AntipodalComponent" THEN "cache" ELSE "kernel"
  /\ kernel' = 1
  /\ todo' = Payload[1]
  /\ UNCHANGED <<vars, history, x, cp, rangeEnd, cache>>

\* _kernel_structural_restore_*: a thread reads and writes x_org in place.
StructuralThread(u) ==
  /\ phase = "kernel" /\ u \in todo
  /\ x' = RunUnit(x, u, x, OrgName)
  /\ todo' = todo \ {u}
  /\ UNCHANGED <<vars, history, phase, cp, rangeEnd, kernel, cache>>

\* _kernel_cache_antipodal_root_values.
CacheThread(u) ==
  /\ phase = "cache" /\ u \in todo
  /\ cache' = [w \in DOMAIN cache \cup {u} |->
                 IF w = u THEN [c \in Reads(u) |-> x[c]] ELSE cache[w]]
  /\ todo' = todo \ {u}
  /\ UNCHANGED <<vars, history, phase, x, cp, rangeEnd, kernel>>

CacheDone ==
  /\ phase = "cache" /\ todo = {}
  /\ phase' = "members"
  /\ todo' = Payload[1]
  /\ UNCHANGED <<vars, history, x, cp, rangeEnd, kernel, cache>>

\* _kernel_restore_antipodal_component_members: roots are members too and
\* overwrite the slots the others were restored from.
MemberThread(u) ==
  /\ phase = "members" /\ u \in todo
  /\ x' = RunUnit(x, u, cache[u], OrgName)
  /\ todo' = todo \ {u}
  /\ UNCHANGED <<vars, history, phase, cp, rangeEnd, kernel, cache>>

\* The next kernel of the payload, or the next checkpoint.
NextKernel ==
  /\ phase \in {"kernel", "members"} /\ todo = {}
  /\ cache' = << >>
  /\ IF kernel < Len(Payload)
     THEN /\ kernel' = kernel + 1
          /\ todo' = Payload[kernel + 1]
          /\ UNCHANGED <<phase, cp>>
     ELSE /\ EnterRange(cp - 1, rangeEnd)
          /\ cp' = cp - 1
          /\ kernel' = 0
          /\ UNCHANGED todo
  /\ UNCHANGED <<vars, history, x, rangeEnd>>

Finish ==
  /\ phase = "replay" /\ rangeEnd = RangeBegin(cp) /\ cp = 0
  /\ phase' = "done"
  /\ UNCHANGED <<vars, history, x, cp, rangeEnd, kernel, todo, cache>>

Restore ==
  \/ RestoreFixed \/ ReplayRecord
  \/ StartPayload \/ CacheDone \/ NextKernel \/ Finish
  \/ \E u \in todo : StructuralThread(u) \/ CacheThread(u) \/ MemberThread(u)

PNext == Presolve \/ Scatter \/ Restore

\* The host thread runs postsolve to its end and every kernel finishes.
PSpec == PInit /\ [][PNext]_allVars /\ WF_allVars(Restore)

-----------------------------------------------------------------------------

\* postsolve returns the point every plan promised: whatever plans were
\* committed and however the threads of the recovery kernels interleave, each
\* original column gets the value that undoing the plans one at a time, each
\* in its own index space, gives it.
RecoversSolution == phase = "done" => x = Expected

\* A tape record is replayed only when every checkpoint committed after it is
\* undone, and a payload is expanded only when every record committed after
\* it is replayed.
LastInFirstOut ==
  phase \in {"replay", "kernel", "cache", "members"} =>
    /\ \A i \in 1..cp : timeline[i].position <= rangeEnd
    /\ \A i \in (cp + 1)..Len(timeline) : rangeEnd <= timeline[i].position
    /\ phase # "replay" => rangeEnd = timeline[cp].position

\* Postsolve accepts the record, never meets an invalid replay range, and
\* ends with a point.
PostsolveEnds == phase # "presolve" ~> phase = "done"
=============================================================================
