--------------------------- MODULE PresolveRecord ---------------------------
(***************************************************************************)
(* The record that presolve leaves for postsolve.                          *)
(*                                                                         *)
(* A presolve run commits plans one after the other.  Each plan speaks of  *)
(* the columns and rows of the LP it was made for, by their LOCAL index;   *)
(* apply_plan_to_working_lp compacts that LP, so the next plan speaks of   *)
(* other columns with the same indices.  update_record_from_plan therefore *)
(* renames everything a plan records to the columns and rows of the        *)
(* ORIGINAL LP, with the maps that were valid before the plan, and only    *)
(* then installs the compacted maps.                                       *)
(*                                                                         *)
(* What the record must say in the end, whatever plans were committed, is  *)
(* how to get every original column back: from the reduced solution, from  *)
(* a fixed value, or from an entry of the tape or of the primal-recovery   *)
(* timeline whose own inputs are known by the time it is replayed.         *)
(*                                                                         *)
(* Coefficients, bounds and costs are data here; an entry keeps only the   *)
(* columns it assigns, the columns each assignment reads, and its rows.    *)
(* Indices start at 1 (0 in the code); 0 stands for an absent index (-1).  *)
(***************************************************************************)
EXTENDS Naturals, Sequences, FiniteSets, Ranks

CONSTANTS
  M0, N0,        \* rows and columns of the original LP
  MaxPlans,      \* bound: plans committed in a run
  MaxRecords,    \* bound: tape records of one plan
  MaxSupport     \* bound: columns one substitution reads

ASSUME RecordAssumption ==
  /\ M0 \in Nat /\ N0 \in Nat
  /\ MaxPlans \in Nat /\ MaxRecords \in Nat /\ MaxSupport \in Nat

VARIABLES
  lpRows, lpCols,          \* the working LP: the original row or column in each slot
  rowRed2org, colRed2org,  \* record.row_red2org, record.col_red2org
  m1, n1,                  \* record.m1, record.n1
  fixedIdx,                \* record.fixed_idx, with its values
  tape,                    \* record.tape: renamed records, in the order of commitment
  payloads,                \* structural_primal_recoveries, antipodal_component_recoveries
  timeline,                \* primal_recovery_timeline
  plans                    \* number of plans committed

lpVars == <<lpRows, lpCols>>
recordVars == <<rowRed2org, colRed2org, m1, n1, fixedIdx, tape, payloads, timeline>>
vars == <<lpVars, recordVars, plans>>

OrgCols == 1..N0
OrgRows == 1..M0
RangeOf(s) == {s[i] : i \in DOMAIN s}

Kinds == {"StructuralL1", "AntipodalComponent"}

-----------------------------------------------------------------------------
(* Undo entries.                                                           *)
(*                                                                         *)
(* An assignment gives column "to" a value computed from the columns       *)
(* "from".  A unit is what one GPU thread does: it reads everything its    *)
(* assignments need, then writes.  A tape record is one unit and the rows  *)
(* it names.  A payload is a sequence of kernels, each a set of units.     *)

Assign(to, from) == [to |-> to, from |-> from]

Writes(unit) == {a.to : a \in unit}
Reads(unit) == UNION {a.from : a \in unit}
Touches(unit) == Writes(unit) \cup Reads(unit)
UnitsOf(kernels) == UNION RangeOf(kernels)

\* The columns an entry is the definition of: written from other columns
\* only.  The remaining written slots belong to columns that stay live.
Eliminated(units) == (UNION {Writes(u) : u \in units}) \ (UNION {Reads(u) : u \in units})

\* SubCol, DoubletonEquation, FixedColInf, FmeCol and FixedCol: one column is
\* computed from the columns of its support (none for FixedCol).
Substitution(col, support) == {Assign(col, support)}

\* DuplicateColumn: the merged value in slot "to" is split over both columns.
DuplicateSplit(from, to) == {Assign(from, {to}), Assign(to, {to})}

\* DuplicateRow, EqToIneq, DeletedRow and the bound changes: no primal effect.
RowsOnly == {}

\* StructuralL1PrimalRecoveryStep, in the order restore_structural_primal_step
\* runs its kernels: a split <<t, e>> rewrites two live slots, an outer pair
\* <<bound, free>>, a linked slack <<slack, t>> and a max slack <<slack, ts>>
\* recompute a deleted column.
StructuralPayload(splits, outer, linked, maxSlacks) ==
  << {{Assign(s[1], {s[1], s[2]}), Assign(s[2], {s[1], s[2]})} : s \in splits},
     {{Assign(p[2], {p[1]})} : p \in outer},
     {{Assign(p[1], {p[2]})} : p \in linked},
     {{Assign(p[1], p[2])} : p \in maxSlacks} >>

\* AntipodalComponentPrimalRecoveryStep: column i of the first "pairs" columns
\* is paired with column i + pairs, and both are restored from the slots of
\* the root pair of i; a root pair is restored from its own slots.
AntipodalPayload(root, pairs) ==
  << {{Assign(i, {root[i]}), Assign(i + pairs, {root[i] + pairs})} : i \in 1..pairs} >>

-----------------------------------------------------------------------------
(* Renaming.                                                               *)

\* map_local_col_to_global and map_local_row_to_global: an index outside the
\* map is left as it is.
Rename(map, i) == IF i \in DOMAIN map THEN map[i] ELSE i
RenameAll(map, S) == {Rename(map, i) : i \in S}
\* Mutant of RenameUnit: the columns an assignment reads keep their local index.
RenameUnitTargets(map, unit) == {Assign(Rename(map, a.to), a.from) : a \in unit}
RenameUnit(map, unit) == {Assign(Rename(map, a.to), RenameAll(map, a.from)) : a \in unit}

\* Mutant of GlobalizeRecord: rows keep their local index.
GlobalizeRecordCols(r, rowMap, colMap) ==
  [unit |-> RenameUnit(colMap, r.unit), rows |-> r.rows]
\* append_globalized_postsolve_tape, for one record.  AddedRow and AddedRows
\* are the only types it leaves alone, and no rule records them.
GlobalizeRecord(r, rowMap, colMap) ==
  [unit |-> RenameUnit(colMap, r.unit), rows |-> RenameAll(rowMap, r.rows)]

\* globalize_structural_recovery and globalize_antipodal_recovery.
GlobalizePayload(kernels, colMap) ==
  [i \in DOMAIN kernels |-> {RenameUnit(colMap, u) : u \in kernels[i]}]

-----------------------------------------------------------------------------
(* Compaction: what MapCompaction shows of all three paths.                *)

\* The members of a set of indices in increasing order.
InOrder(S) == [i \in 1..Cardinality(S) |-> CHOOSE j \in S : Rank(S, j) = i]
Compact(map, keep) == [i \in 1..Cardinality(keep) |-> map[InOrder(keep)[i]]]

-----------------------------------------------------------------------------
(* The plans a rule may return for an LP with m rows and n columns.  A plan *)
(* holds tape records or one payload; update_record_from_plan throws when   *)
(* it is given both, or two payloads.                                       *)

NoPayload == << >>

RecordChoices(m, n) ==
  LET units == {Substitution(c, S) : c \in 1..n, S \in SUBSET (1..n)}
                 \cup {DuplicateSplit(a, b) : a \in 1..n, b \in 1..n} \cup {RowsOnly}
  IN [unit : {u \in units : /\ Cardinality(Reads(u)) <= MaxSupport
                            /\ Eliminated({u}) = {} => u = RowsOnly},
      rows : {R \in SUBSET (1..m) : Cardinality(R) <= 1}]

\* A column is eliminated by one record, and a slot is rewritten only by
\* records of columns that are still in the plan's LP.  A record may read a
\* column an earlier record eliminated: the rows of FixedColInf do.
WellOrdered(records) ==
  \A h, i \in DOMAIN records : h < i =>
    Eliminated({records[h].unit}) \cap Writes(records[i].unit) = {}

TapeEliminated(records) == UNION {Eliminated({records[i].unit}) : i \in DOMAIN records}
TapeWrites(records) == UNION {Writes(records[i].unit) : i \in DOMAIN records}

\* The columns a plan deletes have a record, or bounds that coincide, or both.
\* Its rows are any: presolve deletes a row for reasons its record omits.
TapePlans(rows, m, n) ==
  UNION {{[keepRow |-> rows, keepCol |-> (1..n) \ (fixed \cup TapeEliminated(records)),
           fixed |-> fixed, records |-> records,
           kind |-> "none", kernels |-> NoPayload] :
             fixed \in SUBSET ((1..n) \ (TapeWrites(records) \ TapeEliminated(records)))} :
         records \in {r \in UNION {[1..k -> RecordChoices(m, n)] : k \in 0..MaxRecords} :
                        WellOrdered(r)}}

\* The three patterns the structural rule commits: splits alone, splits with
\* the max slacks of a graph block, or splits with outer pairs and linked
\* slacks; the roles of a column are disjoint.
Distinct(S) == {p \in S \X S : p[1] # p[2]}
StructuralPayloads(n) ==
  UNION {LET t == p[1]
             rest == (1..n) \ {p[1], p[2]}
         IN {StructuralPayload({p}, {}, {}, {})}
              \cup {StructuralPayload({p}, {}, {}, {<<s, {t}>>}) : s \in rest}
              \cup {StructuralPayload({p}, {}, {<<s, t>>}, {}) : s \in rest}
              \cup {StructuralPayload({p}, {o}, {}, {}) : o \in Distinct(rest)} :
         p \in Distinct(1..n)}

StructuralPlans(rows, n) ==
  {[keepRow |-> rows, keepCol |-> (1..n) \ Eliminated(UnitsOf(kernels)), fixed |-> {},
    records |-> << >>, kind |-> "StructuralL1", kernels |-> kernels] :
     kernels \in StructuralPayloads(n)}

\* A component's root represents it; the L-infinity rule also deletes a root
\* column whose bounds coincide.
Roots(pairs) == {root \in [1..pairs -> 1..pairs] : \A i \in 1..pairs : root[root[i]] = root[i]}
AntipodalPlans(rows, n) ==
  UNION {LET kernels == AntipodalPayload(root, Cardinality(DOMAIN root))
             elim == Eliminated(UnitsOf(kernels)) IN
           {[keepRow |-> rows, keepCol |-> (1..n) \ (fixed \cup elim), fixed |-> fixed,
             records |-> << >>, kind |-> "AntipodalComponent", kernels |-> kernels] :
              fixed \in SUBSET (Touches(UNION UnitsOf(kernels)) \ elim)} :
         root \in UNION {Roots(p) : p \in {q \in 1..n : 2 * q <= n}}}

Plans(m, n) ==
  UNION {TapePlans(rows, m, n) \cup StructuralPlans(rows, n) \cup AntipodalPlans(rows, n) :
           rows \in SUBSET (1..m)}

-----------------------------------------------------------------------------
\* make_initial_record on the original LP.
Init ==
  /\ lpRows = [i \in 1..M0 |-> i]
  /\ lpCols = [i \in 1..N0 |-> i]
  /\ rowRed2org = [i \in 1..M0 |-> i]
  /\ colRed2org = [i \in 1..N0 |-> i]
  /\ m1 = M0
  /\ n1 = N0
  /\ fixedIdx = << >>
  /\ tape = << >>
  /\ payloads = [kind \in Kinds |-> << >>]
  /\ timeline = << >>
  /\ plans = 0

\* Mutant of AppendFixed: local indices are recorded.
AppendFixedLocal(fixed) ==
  fixedIdx' = fixedIdx \o [i \in 1..Cardinality(fixed) |-> InOrder(fixed)[i]]
\* append_removed_fixed_bound_records: in column order, by original index.
AppendFixed(fixed) ==
  fixedIdx' = fixedIdx \o [i \in 1..Cardinality(fixed) |-> colRed2org[InOrder(fixed)[i]]]

\* Mutant of AppendPayload: payloads of both kinds share one numbering.
AppendPayloadShared(kind, kernels) ==
  IF kernels = NoPayload
  THEN UNCHANGED <<payloads, timeline>>
  ELSE /\ payloads' = [payloads EXCEPT ![kind] =
                         Append(@, GlobalizePayload(kernels, colRed2org))]
       /\ timeline' = Append(timeline, [kind |-> kind,
                                        payload |-> Len(timeline) + 1,
                                        position |-> Len(tape)])
\* The payload of the plan, and its checkpoint at the end of the tape as it
\* is before the plan's own records.
AppendPayload(kind, kernels) ==
  IF kernels = NoPayload
  THEN UNCHANGED <<payloads, timeline>>
  ELSE /\ payloads' = [payloads EXCEPT ![kind] =
                         Append(@, GlobalizePayload(kernels, colRed2org))]
       /\ timeline' = Append(timeline, [kind |-> kind,
                                        payload |-> Len(payloads[kind]) + 1,
                                        position |-> Len(tape)])

AppendTape(records) ==
  tape' = tape \o [i \in DOMAIN records |->
                     GlobalizeRecord(records[i], rowRed2org, colRed2org)]

\* Mutant of InstallMaps: the column map is replaced only when a row was removed.
InstallMapsByRows(keepRow, keepCol) ==
  /\ rowRed2org' = Compact(rowRed2org, keepRow)
  /\ colRed2org' = IF Cardinality(keepRow) < Len(lpRows)
                   THEN Compact(colRed2org, keepCol) ELSE colRed2org
  /\ m1' = Cardinality(keepRow)
  /\ n1' = Cardinality(keepCol)
\* The maps are replaced last, and only when a row or a column was removed.
InstallMaps(keepRow, keepCol) ==
  /\ rowRed2org' = IF Cardinality(keepRow) < Len(lpRows)
                   THEN Compact(rowRed2org, keepRow) ELSE rowRed2org
  /\ colRed2org' = IF Cardinality(keepCol) < Len(lpCols)
                   THEN Compact(colRed2org, keepCol) ELSE colRed2org
  /\ m1' = Cardinality(keepRow)
  /\ n1' = Cardinality(keepCol)

\* apply_plan_to_working_lp with update_record_from_plan.
ApplyPlan(p) ==
  /\ plans < MaxPlans
  /\ AppendFixed(p.fixed)
  /\ AppendPayload(p.kind, p.kernels)
  /\ AppendTape(p.records)
  /\ InstallMaps(p.keepRow, p.keepCol)
  /\ lpRows' = Compact(lpRows, p.keepRow)
  /\ lpCols' = Compact(lpCols, p.keepCol)
  /\ plans' = plans + 1

Next == \E p \in Plans(Len(lpRows), Len(lpCols)) : ApplyPlan(p)

Spec == Init /\ [][Next]_vars

-----------------------------------------------------------------------------
Units == SUBSET [to : OrgCols, from : SUBSET OrgCols]

\* The maps name the original row and column of every slot of the working LP,
\* in increasing order: what every renaming of the next plan relies on.
Increasing(s) == \A i, j \in 1..Len(s) : i < j => s[i] < s[j]
MapsMatchLp ==
  /\ rowRed2org = lpRows /\ Increasing(rowRed2org)
  /\ colRed2org = lpCols /\ Increasing(colRed2org)

\* validate_primal_recovery_timeline: the checkpoints are chronological and
\* inside the tape, each payload has exactly one, and payloads name original
\* columns.  (Offsets and types of the flat tape hold by its construction.)
ValidTimeline ==
  /\ \A i \in 1..Len(timeline) :
       /\ timeline[i].position <= Len(tape)
       /\ i > 1 => timeline[i - 1].position <= timeline[i].position
       /\ timeline[i].payload \in 1..Len(payloads[timeline[i].kind])
  /\ \A kind \in Kinds : \A q \in 1..Len(payloads[kind]) :
       /\ Cardinality({i \in 1..Len(timeline) :
                         timeline[i].kind = kind /\ timeline[i].payload = q}) = 1
       /\ \A u \in UnitsOf(payloads[kind][q]) : Touches(u) \subseteq OrgCols

\* postsolve_gpu accepts every record a presolve run can leave, after any plan.
RecordAccepted == ValidTimeline

\* A new record names rows of the LP it was made for.  The dual replay of
\* its reduction writes the multipliers of exactly these rows.
RowsRenamed ==
  [][\A q \in (Len(tape) + 1)..Len(tape') : tape'[q].rows \subseteq RangeOf(lpRows)]_vars

\* One chronological log: payload i stands right after the tape records its
\* checkpoint counts.  This is the log postsolve undoes from its end.
LogOf(tp, tl, pl) ==
  [q \in 1..(Len(tp) + Len(tl)) |->
     IF \E i \in DOMAIN tl : tl[i].position + i = q
     THEN LET cp == tl[CHOOSE i \in DOMAIN tl : tl[i].position + i = q]
          IN pl[cp.kind][cp.payload]
     ELSE << {tp[q - Cardinality({i \in DOMAIN tl : tl[i].position + i < q})].unit} >>]

Undo == INSTANCE UndoLog WITH
          Cols  <- OrgCols,
          live  <- RangeOf(colRed2org),
          fixed <- RangeOf(fixedIdx),
          log   <- LogOf(tape, timeline, payloads)

\* The record implements the single chronological log of UndoLog: however
\* many plans were committed, in whatever local index space each of them
\* spoke, a recorded entry only speaks of columns that were live then, and
\* every column that left is fixed or has one entry that brings it back.
ImplementsUndoLog == Undo!Spec

=============================================================================
