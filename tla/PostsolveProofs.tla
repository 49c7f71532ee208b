-------------------------- MODULE PostsolveProofs --------------------------
(***************************************************************************)
(* For every LP, every sequence of plans and every bound, of the record    *)
(* that presolve leaves:                                                   *)
(* - its maps name the original row and column of each slot of the working *)
(*   LP, in increasing order;                                              *)
(* - postsolve's validator accepts it: checkpoints are chronological and   *)
(*   inside the tape, one per payload; entries name original columns;      *)
(* - a new tape record names rows of the LP its plan was made for;         *)
(* - tape, timeline and payloads together implement the one chronological  *)
(*   log of UndoLog: every column is live, fixed, or eliminated once.      *)
(* And for every order of the threads of the recovery kernels: postsolve   *)
(* undoes the record last in, first out, and returns the point that        *)
(* undoing the plans one at a time gives.                                  *)
(***************************************************************************)
EXTENDS Postsolve, IndexLemmas, SequenceTheorems

-----------------------------------------------------------------------------
(* The record.                                                             *)

\* The members of a set of indices, in order.
LEMMA InOrderMembers ==
  ASSUME NEW w \in Nat, NEW S \in SUBSET (1..w)
  PROVE  /\ Cardinality(S) \in Nat
         /\ InOrder(S) \in [1..Cardinality(S) -> S]
         /\ \A i, j \in 1..Cardinality(S) : i < j => InOrder(S)[i] < InOrder(S)[j]
         /\ \A i \in 1..Cardinality(S) : Rank(S, InOrder(S)[i]) = i
         /\ \A j \in S : InOrder(S)[Rank(S, j)] = j
<1> DEFINE c == Cardinality(S)
           o == InOrder(S)
<1>1. c \in Nat
  BY RankBounds
<1>2. \A i \in 1..c : o[i] \in S /\ Rank(S, o[i]) = i
  <2> SUFFICES ASSUME NEW i \in 1..c PROVE o[i] \in S /\ Rank(S, o[i]) = i
    OBVIOUS
  <2>1. \E j \in S : Rank(S, j) = i
    BY RankOnto
  <2>2. o[i] = CHOOSE j \in S : Rank(S, j) = i
    BY DEF InOrder
  <2> QED BY <2>1, <2>2
<1>3. o \in [1..c -> S]
  <2>1. o = [i \in 1..c |-> o[i]]
    BY DEF InOrder
  <2> QED BY <1>2, <2>1
<1>4. ASSUME NEW i \in 1..c, NEW j \in 1..c, i < j PROVE o[i] < o[j]
  <2>1. o[i] \in S /\ o[j] \in S /\ Rank(S, o[i]) = i /\ Rank(S, o[j]) = j
    BY <1>2
  <2>2. o[i] < o[j] <=> Rank(S, o[i]) < Rank(S, o[j])
    BY <2>1, RankOrder
  <2> QED BY <1>4, <2>1, <2>2
<1>5. ASSUME NEW j \in S PROVE o[Rank(S, j)] = j
  <2> DEFINE r == Rank(S, j)
  <2>1. r \in 1..c
    BY RankOnto
  <2>2. o[r] \in S /\ Rank(S, o[r]) = r
    BY <1>2, <2>1
  <2>3. ~(o[r] < j) /\ ~(j < o[r])
    <3>1. r \in Int
      BY <2>1
    <3>2. o[r] < j <=> Rank(S, o[r]) < Rank(S, j)
      BY <2>2, RankOrder
    <3>3. j < o[r] <=> Rank(S, j) < Rank(S, o[r])
      BY <2>2, RankOrder
    <3> QED BY <2>2, <3>1, <3>2, <3>3
  <2>4. o[r] \in Int /\ j \in Int
    BY <2>2, Members
  <2> QED BY <2>3, <2>4
<1> QED BY <1>1, <1>2, <1>3, <1>4, <1>5

\* Compaction keeps the order of a map, and all of it when nothing is removed.
LEMMA CompactMap ==
  ASSUME NEW map \in Seq(Nat), NEW keep \in SUBSET (1..Len(map)), Increasing(map)
  PROVE  /\ Compact(map, keep) \in Seq(Nat) /\ Len(Compact(map, keep)) = Cardinality(keep)
         /\ \A i \in 1..Cardinality(keep) : Compact(map, keep)[i] = map[InOrder(keep)[i]]
         /\ Increasing(Compact(map, keep))
         /\ Cardinality(keep) <= Len(map)
         /\ ~(Cardinality(keep) < Len(map)) => Compact(map, keep) = map
<1> DEFINE w == Len(map)
           c == Cardinality(keep)
           o == InOrder(keep)
           t == Compact(map, keep)
<1>1. /\ w \in Nat /\ c \in Nat /\ o \in [1..c -> keep]
      /\ \A i \in 1..w : map[i] \in Nat
  BY LenProperties, ElementOfSeq, InOrderMembers
<1>2. /\ t = [i \in 1..c |-> map[o[i]]]
      /\ \A i \in 1..c : o[i] \in 1..w /\ t[i] \in Nat
  BY <1>1 DEF Compact
<1>3. t \in Seq(Nat) /\ Len(t) = c
  <2> HIDE DEF c, t
  <2>1. t \in [1..c -> Nat]
    BY <1>1, <1>2
  <2> QED BY <1>1, <2>1, SeqDef, LenProperties
<1>4. Increasing(t)
  <2> SUFFICES ASSUME NEW i \in 1..c, NEW j \in 1..c, i < j PROVE t[i] < t[j]
    BY <1>3 DEF Increasing
  <2>1. o[i] < o[j] /\ o[i] \in 1..w /\ o[j] \in 1..w
    BY <1>1, <1>2, InOrderMembers
  <2> QED BY <1>2, <2>1 DEF Increasing
<1>5. c <= w /\ (c = w => keep = 1..w)
  <2>1. IsFiniteSet(1..w) /\ Cardinality(1..w) = w
    <3> HIDE DEF w
    <3>1. 1 \in Int /\ w \in Int /\ w >= 0
      BY <1>1
    <3>2. /\ IsFiniteSet(1..w)
          /\ Cardinality(1..w) = IF 1 > w THEN 0 ELSE w - 1 + 1
      BY <3>1, FS_Interval
    <3> QED BY <3>1, <3>2
  <2>2. /\ Cardinality(keep) <= Cardinality(1..w)
        /\ Cardinality(1..w) = Cardinality(keep) => 1..w = keep
    BY <2>1, FS_Subset
  <2> QED BY <2>1, <2>2
<1>6. ASSUME ~(c < w) PROVE t = map
  <2>1. keep = 1..w
    BY <1>1, <1>5, <1>6
  <2>2. \A j \in 1..w : Rank(keep, j) = j
    <3> SUFFICES ASSUME NEW j \in 1..w PROVE Rank(keep, j) = j
      OBVIOUS
    <3>1. 0 \in 0..w /\ j \in 0..w /\ 0 <= j /\ (0 + 1)..j \subseteq keep
      BY <1>1, <2>1
    <3>2. Rank(keep, j) = Rank(keep, 0) + (j - 0) /\ Rank(keep, 0) = 0
      BY <1>1, <3>1, RankRun, RankBounds
    <3> QED BY <3>2
  <2>3. \A j \in 1..w : o[j] = j
    BY <1>1, <2>1, <2>2, InOrderMembers
  <2>4. \A j \in 1..Len(t) : t[j] = map[j]
    BY <1>1, <1>2, <1>3, <1>5, <1>6, <2>1, <2>3
  <2> QED BY <1>1, <1>3, <1>5, <1>6, <2>4, SeqEqual
<1> QED BY <1>1, <1>2, <1>3, <1>4, <1>5, <1>6

\* A plan keeps rows and columns of the LP it was made for.
LEMMA PlanKeeps ==
  ASSUME NEW m \in Nat, NEW w \in Nat, NEW p \in Plans(m, w)
  PROVE  p.keepRow \in SUBSET (1..m) /\ p.keepCol \in SUBSET (1..w)
<1>1. PICK rows \in SUBSET (1..m) :
        p \in TapePlans(rows, m, w) \cup StructuralPlans(rows, w) \cup AntipodalPlans(rows, w)
  BY DEF Plans
<1>2. CASE p \in TapePlans(rows, m, w)
  <2>1. PICK r, fixed :
          p = [keepRow |-> rows, keepCol |-> (1..w) \ (fixed \cup TapeEliminated(r)),
               fixed |-> fixed, records |-> r, kind |-> "none", kernels |-> NoPayload]
    BY <1>2, Zenon DEF TapePlans
  <2> QED BY <2>1
<1>3. CASE p \in StructuralPlans(rows, w)
  <2>1. PICK kernels :
          p = [keepRow |-> rows, keepCol |-> (1..w) \ Eliminated(UnitsOf(kernels)),
               fixed |-> {}, records |-> << >>, kind |-> "StructuralL1",
               kernels |-> kernels]
    BY <1>3, Zenon DEF StructuralPlans
  <2> QED BY <2>1
<1>4. CASE p \in AntipodalPlans(rows, w)
  <2>1. PICK kernels, elim, fixed :
          p = [keepRow |-> rows, keepCol |-> (1..w) \ (fixed \cup elim), fixed |-> fixed,
               records |-> << >>, kind |-> "AntipodalComponent", kernels |-> kernels]
    BY <1>4, Zenon DEF AntipodalPlans
  <2> QED BY <2>1
<1> QED BY <1>1, <1>2, <1>3, <1>4

MapsInv == /\ lpRows \in Seq(Nat) /\ lpCols \in Seq(Nat)
           /\ MapsMatchLp

\* update_record_from_plan replaces the maps last, with those of the LP that
\* apply_plan_to_working_lp compacts: after any plans, for every LP, they name
\* the original row and column of every slot, in increasing order.
THEOREM RecordMapsMatch == Spec => []MapsMatchLp
<1>1. Init => MapsInv
  <2> SUFFICES ASSUME Init PROVE MapsInv
    OBVIOUS
  <2>1. lpRows \in Seq(Nat) /\ lpCols \in Seq(Nat)
    BY RecordAssumption DEF Init
  <2>2. Increasing(rowRed2org) /\ Increasing(colRed2org)
    BY RecordAssumption DEF Init, Increasing
  <2> QED BY <2>1, <2>2 DEF Init, MapsInv, MapsMatchLp
<1>2. MapsInv /\ [Next]_vars => MapsInv'
  <2> SUFFICES ASSUME MapsInv, [Next]_vars PROVE MapsInv'
    OBVIOUS
  <2>1. CASE Next
    <3>1. PICK p \in Plans(Len(lpRows), Len(lpCols)) : ApplyPlan(p)
      BY <2>1 DEF Next
    <3>2. Len(lpRows) \in Nat /\ Len(lpCols) \in Nat
      BY LenProperties DEF MapsInv
    <3>3. p.keepRow \in SUBSET (1..Len(lpRows)) /\ p.keepCol \in SUBSET (1..Len(lpCols))
      BY <3>2, PlanKeeps
    <3>4. /\ lpRows' = Compact(lpRows, p.keepRow) /\ lpCols' = Compact(lpCols, p.keepCol)
          /\ rowRed2org' = IF Cardinality(p.keepRow) < Len(lpRows)
                           THEN Compact(lpRows, p.keepRow) ELSE lpRows
          /\ colRed2org' = IF Cardinality(p.keepCol) < Len(lpCols)
                           THEN Compact(lpCols, p.keepCol) ELSE lpCols
      BY <3>1 DEF ApplyPlan, InstallMaps, MapsInv, MapsMatchLp
    <3>5. lpRows' \in Seq(Nat) /\ Increasing(lpRows') /\ rowRed2org' = lpRows'
      BY <3>3, <3>4, CompactMap DEF MapsInv, MapsMatchLp
    <3>6. lpCols' \in Seq(Nat) /\ Increasing(lpCols') /\ colRed2org' = lpCols'
      BY <3>3, <3>4, CompactMap DEF MapsInv, MapsMatchLp
    <3> QED BY <3>5, <3>6 DEF MapsInv, MapsMatchLp, Increasing
  <2>2. CASE UNCHANGED vars
    BY <2>2 DEF vars, lpVars, recordVars, MapsInv, MapsMatchLp, Increasing
  <2> QED BY <2>1, <2>2
<1>3. MapsInv => MapsMatchLp
  BY DEF MapsInv
<1> QED BY <1>1, <1>2, <1>3, PTL DEF Spec

-----------------------------------------------------------------------------
(* What a plan may record.                                                 *)

LocalUnits(w) == SUBSET [to : 1..w, from : SUBSET (1..w)]
LocalRecords(m, w) == [unit : LocalUnits(w), rows : SUBSET (1..m)]

\* The units a rule records are over the columns of its LP.
LEMMA ChoicesTyped ==
  ASSUME NEW m \in Nat, NEW w \in Nat
  PROVE  RecordChoices(m, w) \subseteq LocalRecords(m, w)
<1>1. \A c \in 1..w, S \in SUBSET (1..w) : Substitution(c, S) \in LocalUnits(w)
  BY DEF Substitution, Assign, LocalUnits
<1>2. \A a \in 1..w, b \in 1..w : DuplicateSplit(a, b) \in LocalUnits(w)
  BY DEF DuplicateSplit, Assign, LocalUnits
<1>3. RowsOnly \in LocalUnits(w)
  BY DEF RowsOnly, LocalUnits
<1>4. {Substitution(c, S) : c \in 1..w, S \in SUBSET (1..w)}
        \cup {DuplicateSplit(a, b) : a \in 1..w, b \in 1..w} \cup {RowsOnly}
      \subseteq LocalUnits(w)
  BY <1>1, <1>2, <1>3
<1> HIDE DEF LocalUnits
<1> QED BY <1>4 DEF RecordChoices, LocalRecords

\* A plan of tape records.
TapeFacts(p, m, w) ==
  /\ p.records \in Seq(LocalRecords(m, w))
  /\ p.kernels = NoPayload
  /\ WellOrdered(p.records)
  /\ p.fixed \in SUBSET (1..w)
  /\ p.keepCol = (1..w) \ (p.fixed \cup TapeEliminated(p.records))

\* A plan with a payload.
PayloadFacts(p, w) ==
  /\ p.records = << >>
  /\ p.kind \in Kinds
  /\ p.kernels \in Seq(SUBSET LocalUnits(w)) /\ p.kernels # NoPayload
  /\ p.fixed \in SUBSET (1..w)
  /\ p.keepCol = (1..w) \ (p.fixed \cup Eliminated(UnitsOf(p.kernels)))

LEMMA TapePlanFacts ==
  ASSUME NEW m \in Nat, NEW w \in Nat, NEW rows, NEW p \in TapePlans(rows, m, w)
  PROVE  TapeFacts(p, m, w)
<1> DEFINE Lists == {r \in UNION {[1..k -> RecordChoices(m, w)] : k \in 0..MaxRecords} :
                        WellOrdered(r)}
<1>1. PICK r \in Lists :
        \E fixed \in SUBSET ((1..w) \ (TapeWrites(r) \ TapeEliminated(r))) :
          p = [keepRow |-> rows, keepCol |-> (1..w) \ (fixed \cup TapeEliminated(r)),
               fixed |-> fixed, records |-> r, kind |-> "none", kernels |-> NoPayload]
  BY Zenon DEF TapePlans
<1>2. PICK fixed \in SUBSET ((1..w) \ (TapeWrites(r) \ TapeEliminated(r))) :
          p = [keepRow |-> rows, keepCol |-> (1..w) \ (fixed \cup TapeEliminated(r)),
               fixed |-> fixed, records |-> r, kind |-> "none", kernels |-> NoPayload]
  BY <1>1
<1>3. PICK k \in 0..MaxRecords : r \in [1..k -> RecordChoices(m, w)]
  BY <1>1
<1>4. k \in Nat
  BY RecordAssumption
<1>5. r \in [1..k -> LocalRecords(m, w)]
  BY <1>3, ChoicesTyped
<1>6. r \in Seq(LocalRecords(m, w))
  BY <1>4, <1>5, SeqDef
<1>7. WellOrdered(r)
  BY <1>1
<1>8. fixed \in SUBSET (1..w)
  BY <1>2
<1>9. /\ p.records = r /\ p.kernels = NoPayload /\ p.fixed = fixed
      /\ p.keepCol = (1..w) \ (fixed \cup TapeEliminated(r))
  BY <1>2
<1> QED BY <1>6, <1>7, <1>8, <1>9 DEF TapeFacts

\* The kernels of a structural payload are over the columns of its LP.
LEMMA StructuralKernels ==
  ASSUME NEW w \in Nat, NEW kernels \in StructuralPayloads(w)
  PROVE  kernels \in Seq(SUBSET LocalUnits(w)) /\ Len(kernels) = 4
<1>1. PICK p \in Distinct(1..w) :
        kernels \in
          LET t == p[1]
              rest == (1..w) \ {p[1], p[2]}
          IN {StructuralPayload({p}, {}, {}, {})}
              \cup {StructuralPayload({p}, {}, {}, {<<s, {t}>>}) : s \in rest}
              \cup {StructuralPayload({p}, {}, {<<s, t>>}, {}) : s \in rest}
              \cup {StructuralPayload({p}, {o}, {}, {}) : o \in Distinct(rest)}
  BY DEF StructuralPayloads
<1>2. p[1] \in 1..w /\ p[2] \in 1..w
  BY DEF Distinct
<1> DEFINE Split == {{Assign(q[1], {q[1], q[2]}), Assign(q[2], {q[1], q[2]})} : q \in {p}}
           Outer(S) == {{Assign(q[2], {q[1]})} : q \in S}
           Linked(S) == {{Assign(q[1], {q[2]})} : q \in S}
           Slack(S) == {{Assign(q[1], q[2])} : q \in S}
<1>3. Split \in SUBSET LocalUnits(w)
  BY <1>2 DEF Assign, LocalUnits
<1>4. PICK A, B, C :
        /\ kernels = StructuralPayload({p}, A, B, C)
        /\ \A q \in A : q[1] \in 1..w /\ q[2] \in 1..w
        /\ \A q \in B : q[1] \in 1..w /\ q[2] \in 1..w
        /\ \A q \in C : q[1] \in 1..w /\ q[2] \in SUBSET (1..w)
  <2>1. CASE kernels = StructuralPayload({p}, {}, {}, {})
    BY <2>1
  <2>2. CASE \E s \in (1..w) \ {p[1], p[2]} :
               kernels = StructuralPayload({p}, {}, {}, {<<s, {p[1]}>>})
    <3>1. PICK s \in (1..w) \ {p[1], p[2]} :
               kernels = StructuralPayload({p}, {}, {}, {<<s, {p[1]}>>})
      BY <2>2
    <3>2. \A q \in {<<s, {p[1]}>>} : q[1] \in 1..w /\ q[2] \in SUBSET (1..w)
      BY <1>2
    <3> QED BY <3>1, <3>2
  <2>3. CASE \E s \in (1..w) \ {p[1], p[2]} :
               kernels = StructuralPayload({p}, {}, {<<s, p[1]>>}, {})
    <3>1. PICK s \in (1..w) \ {p[1], p[2]} :
               kernels = StructuralPayload({p}, {}, {<<s, p[1]>>}, {})
      BY <2>3
    <3>2. \A q \in {<<s, p[1]>>} : q[1] \in 1..w /\ q[2] \in 1..w
      BY <1>2
    <3> QED BY <3>1, <3>2
  <2>4. CASE \E o \in Distinct((1..w) \ {p[1], p[2]}) :
               kernels = StructuralPayload({p}, {o}, {}, {})
    <3>1. PICK o \in Distinct((1..w) \ {p[1], p[2]}) :
               kernels = StructuralPayload({p}, {o}, {}, {})
      BY <2>4
    <3>2. \A q \in {o} : q[1] \in 1..w /\ q[2] \in 1..w
      BY DEF Distinct
    <3> QED BY <3>1, <3>2
  <2> QED BY <1>1, <2>1, <2>2, <2>3, <2>4
<1>5. Outer(A) \in SUBSET LocalUnits(w) /\ Linked(B) \in SUBSET LocalUnits(w)
  BY <1>4 DEF Assign, LocalUnits
<1>6. Slack(C) \in SUBSET LocalUnits(w)
  BY <1>4 DEF Assign, LocalUnits
<1>7. kernels = <<Split, Outer(A), Linked(B), Slack(C)>>
  BY <1>4 DEF StructuralPayload
<1> HIDE DEF LocalUnits, Split, Outer, Linked, Slack
<1> QED BY <1>3, <1>5, <1>6, <1>7

LEMMA StructuralPlanFacts ==
  ASSUME NEW w \in Nat, NEW rows, NEW p \in StructuralPlans(rows, w)
  PROVE  PayloadFacts(p, w)
<1>1. PICK kernels \in StructuralPayloads(w) :
        p = [keepRow |-> rows, keepCol |-> (1..w) \ Eliminated(UnitsOf(kernels)), fixed |-> {},
             records |-> << >>, kind |-> "StructuralL1", kernels |-> kernels]
  BY Zenon DEF StructuralPlans
<1>2. kernels \in Seq(SUBSET LocalUnits(w)) /\ kernels # NoPayload
  <2>1. Len(NoPayload) = 0
    BY DEF NoPayload
  <2>2. kernels \in Seq(SUBSET LocalUnits(w)) /\ Len(kernels) = 4
    BY StructuralKernels
  <2>3. kernels # NoPayload
    BY <2>1, <2>2
  <2> QED BY <2>2, <2>3
<1>3. /\ p.records = << >> /\ p.kind = "StructuralL1" /\ p.kernels = kernels
      /\ p.fixed = {} /\ p.keepCol = (1..w) \ Eliminated(UnitsOf(kernels))
  BY <1>1
<1> QED BY <1>2, <1>3 DEF PayloadFacts, Kinds

LEMMA AntipodalPlanFacts ==
  ASSUME NEW w \in Nat, NEW rows, NEW p \in AntipodalPlans(rows, w)
  PROVE  PayloadFacts(p, w)
<1>1. PICK root \in UNION {Roots(r) : r \in {q \in 1..w : 2 * q <= w}} :
        p \in LET kernels == AntipodalPayload(root, Cardinality(DOMAIN root))
                  elim == Eliminated(UnitsOf(kernels)) IN
              {[keepRow |-> rows, keepCol |-> (1..w) \ (fixed \cup elim), fixed |-> fixed,
                records |-> << >>, kind |-> "AntipodalComponent", kernels |-> kernels] :
                 fixed \in SUBSET (Touches(UNION UnitsOf(kernels)) \ elim)}
  BY Zenon DEF AntipodalPlans
<1>2. PICK r \in 1..w : 2 * r <= w /\ root \in [1..r -> 1..r]
  BY <1>1 DEF Roots
<1>3. Cardinality(DOMAIN root) = r
  <2>1. r \in Int /\ 1 \in Int /\ ~(1 > r)
    OBVIOUS
  <2>2. Cardinality(1..r) = IF 1 > r THEN 0 ELSE r - 1 + 1
    BY <2>1, FS_Interval
  <2> QED BY <1>2, <2>1, <2>2
<1> DEFINE units == {{Assign(i, {root[i]}), Assign(i + r, {root[i] + r})} : i \in 1..r}
           kernels == <<units>>
           elim == Eliminated(UnitsOf(kernels))
<1>4. AntipodalPayload(root, Cardinality(DOMAIN root)) = kernels
  BY <1>3 DEF AntipodalPayload
<1>5. PICK fixed \in SUBSET (Touches(UNION UnitsOf(kernels)) \ elim) :
        p = [keepRow |-> rows, keepCol |-> (1..w) \ (fixed \cup elim), fixed |-> fixed,
             records |-> << >>, kind |-> "AntipodalComponent", kernels |-> kernels]
  <2> HIDE DEF kernels
  <2> QED BY <1>1, <1>4
<1>6. units \in SUBSET LocalUnits(w)
  <2>1. \A i \in 1..r : i \in 1..w /\ i + r \in 1..w /\ root[i] \in 1..w /\ root[i] + r \in 1..w
    <3> SUFFICES ASSUME NEW i \in 1..r
                 PROVE  /\ i \in 1..w /\ i + r \in 1..w
                        /\ root[i] \in 1..w /\ root[i] + r \in 1..w
      OBVIOUS
    <3>1. root[i] \in 1..r /\ r \in Nat /\ 2 * r <= w /\ r <= w
      BY <1>2
    <3> HIDE DEF units
    <3> QED BY <3>1
  <2>2. \A i \in 1..r : {Assign(i, {root[i]}), Assign(i + r, {root[i] + r})} \in LocalUnits(w)
    BY <2>1 DEF Assign, LocalUnits
  <2> QED BY <2>2
<1>7. kernels \in Seq(SUBSET LocalUnits(w)) /\ kernels # NoPayload
  <2> HIDE DEF units, LocalUnits
  <2> QED BY <1>6 DEF NoPayload
<1>8. UnitsOf(kernels) = units
  <2> HIDE DEF units
  <2> QED BY DEF UnitsOf, RangeOf
<1>9. fixed \in SUBSET (1..w)
  <2>1. Touches(UNION units) \subseteq 1..w
    <3>1. \A a \in UNION units : a.to \in 1..w /\ a.from \subseteq 1..w
      BY <1>6 DEF LocalUnits
    <3> HIDE DEF units
    <3> QED BY <3>1 DEF Touches, Writes, Reads
  <2> HIDE DEF units, kernels, elim
  <2> QED BY <1>5, <1>8, <2>1
<1>10. /\ p.records = << >> /\ p.kind = "AntipodalComponent" /\ p.kernels = kernels
       /\ p.fixed = fixed /\ p.keepCol = (1..w) \ (fixed \cup elim)
  BY <1>5
<1> HIDE DEF kernels
<1> QED BY <1>7, <1>9, <1>10 DEF PayloadFacts, Kinds, elim

\* A plan is one or the other.
LEMMA PlanFacts ==
  ASSUME NEW m \in Nat, NEW w \in Nat, NEW p \in Plans(m, w)
  PROVE  TapeFacts(p, m, w) \/ PayloadFacts(p, w)
BY TapePlanFacts, StructuralPlanFacts, AntipodalPlanFacts DEF Plans

-----------------------------------------------------------------------------
(* Renaming.                                                               *)

\* A unit renamed with a map of the columns of its LP.
LEMMA RenamedUnit ==
  ASSUME NEW w \in Nat, NEW red \in [1..w -> OrgCols], NEW unit \in LocalUnits(w)
  PROVE  /\ RenameUnit(red, unit) \in Units
         /\ Writes(RenameUnit(red, unit)) = {red[i] : i \in Writes(unit)}
         /\ Reads(RenameUnit(red, unit)) = {red[i] : i \in Reads(unit)}
<1> DEFINE renamed == {Assign(red[a.to], {red[i] : i \in a.from}) : a \in unit}
<1>1. \A a \in unit : a.to \in 1..w /\ a.from \subseteq 1..w
  BY DEF LocalUnits
<1>2. \A a \in unit : Rename(red, a.to) = red[a.to]
  BY <1>1 DEF Rename
<1>3. \A a \in unit : RenameAll(red, a.from) = {red[i] : i \in a.from}
  BY <1>1 DEF RenameAll, Rename
<1>4. RenameUnit(red, unit) = renamed
  BY <1>2, <1>3 DEF RenameUnit
<1>5. \A a \in unit : /\ red[a.to] \in OrgCols /\ {red[i] : i \in a.from} \in SUBSET OrgCols
  BY <1>1
<1>6. renamed \in Units
  BY <1>5 DEF Assign, Units
<1> DEFINE image(a) == Assign(red[a.to], {red[i] : i \in a.from})
<1>7. Writes(renamed) = {red[i] : i \in Writes(unit)}
  <2>1. \A a \in unit : image(a).to = red[a.to]
    BY DEF Assign
  <2>2. Writes(renamed) = {image(a).to : a \in unit}
    BY Zenon DEF Writes
  <2>3. {image(a).to : a \in unit} = {red[a.to] : a \in unit}
    <3> HIDE DEF image
    <3> QED BY <2>1
  <2>4. {red[a.to] : a \in unit} = {red[i] : i \in Writes(unit)}
    BY DEF Writes
  <2> QED BY <2>2, <2>3, <2>4
<1>8. Reads(renamed) = {red[i] : i \in Reads(unit)}
  <2>1. \A a \in unit : image(a).from = {red[i] : i \in a.from}
    BY DEF Assign
  <2>2. Reads(renamed) = UNION {image(a).from : a \in unit}
    BY Zenon DEF Reads
  <2>3. ASSUME NEW c
        PROVE  c \in UNION {image(a).from : a \in unit} <=> c \in {red[i] : i \in Reads(unit)}
    <3>1. c \in UNION {image(a).from : a \in unit} <=> \E a \in unit : c \in image(a).from
      <4> HIDE DEF image
      <4> QED OBVIOUS
    <3>2. c \in UNION {image(a).from : a \in unit} <=> \E a \in unit : \E i \in a.from : c = red[i]
      <4> HIDE DEF image
      <4> QED BY <2>1, <3>1
    <3>3. c \in {red[i] : i \in Reads(unit)} <=> \E a \in unit : \E i \in a.from : c = red[i]
      BY DEF Reads
    <3> QED BY <3>2, <3>3
  <2> QED BY <2>2, <2>3
<1> QED BY <1>4, <1>6, <1>7, <1>8

Image(red, S) == {red[i] : i \in S}
OneToOne(red, w) == \A i, j \in 1..w : red[i] = red[j] => i = j
\* The units of "entry" are those of U, renamed.
Renames(red, U, entry) == UnitsOf(entry) = {RenameUnit(red, u) : u \in U}

\* The columns of an undo entry whose units are renamed ones.
LEMMA EntryColumns ==
  ASSUME NEW w \in Nat, NEW red \in [1..w -> OrgCols], OneToOne(red, w),
         NEW U \in SUBSET LocalUnits(w), NEW entry, Renames(red, U, entry)
  PROVE  /\ Undo!Written(entry) \cup Undo!Read(entry) \subseteq Image(red, 1..w)
         /\ Undo!Eliminates(entry) = Image(red, Eliminated(U))
<1> DEFINE W == UNION {Writes(u) : u \in U}
           R == UNION {Reads(u) : u \in U}
<1>1. Undo!Assignments(entry) = UNION UnitsOf(entry)
  BY DEF Undo!Assignments, UnitsOf, RangeOf
<1>2. Undo!Written(entry) = UNION {Writes(RenameUnit(red, u)) : u \in U}
  BY <1>1 DEF Undo!Written, Writes, Renames
<1>3. Undo!Read(entry) = UNION {Reads(RenameUnit(red, u)) : u \in U}
  BY <1>1 DEF Undo!Read, Reads, Renames
<1>4. Undo!Written(entry) = {red[i] : i \in W}
  BY <1>2, RenamedUnit
<1>5. Undo!Read(entry) = {red[i] : i \in R}
  BY <1>3, RenamedUnit
<1>6. W \subseteq 1..w /\ R \subseteq 1..w
  BY DEF LocalUnits, Writes, Reads
<1>7. Undo!Eliminates(entry) = {red[i] : i \in W \ R}
  BY <1>4, <1>5, <1>6 DEF Undo!Eliminates, OneToOne
<1>8. Eliminated(U) = W \ R
  BY DEF Eliminated
<1> QED BY <1>4, <1>5, <1>6, <1>7, <1>8 DEF Image

\* The entry of one tape record.
LEMMA RecordEntry ==
  ASSUME NEW unit
  PROVE  UnitsOf(<< {unit} >>) = {unit}
BY DEF UnitsOf, RangeOf

\* The entry of a payload.
LEMMA PayloadEntry ==
  ASSUME NEW w \in Nat, NEW red \in [1..w -> OrgCols], NEW kernels \in Seq(SUBSET LocalUnits(w))
  PROVE  /\ GlobalizePayload(kernels, red) \in Seq(SUBSET Units)
         /\ UnitsOf(GlobalizePayload(kernels, red)) = {RenameUnit(red, u) : u \in UnitsOf(kernels)}
         /\ UnitsOf(kernels) \in SUBSET LocalUnits(w)
<1> DEFINE g == GlobalizePayload(kernels, red)
           k == Len(kernels)
<1>1. k \in Nat /\ DOMAIN kernels = 1..k /\ \A i \in 1..k : kernels[i] \in SUBSET LocalUnits(w)
  <2> HIDE DEF LocalUnits
  <2> QED BY LenProperties, ElementOfSeq
<1>2. g = [i \in 1..k |-> {RenameUnit(red, u) : u \in kernels[i]}]
  BY <1>1 DEF GlobalizePayload
<1>3. \A i \in 1..k : {RenameUnit(red, u) : u \in kernels[i]} \in SUBSET Units
  <2> HIDE DEF LocalUnits, Units
  <2> QED BY <1>1, RenamedUnit
<1>4. g \in [1..k -> SUBSET Units]
  <2> HIDE DEF Units, g
  <2> QED BY <1>2, <1>3
<1>5. g \in Seq(SUBSET Units)
  <2> HIDE DEF Units, g
  <2> QED BY <1>1, <1>4, SeqDef
<1>6. UnitsOf(g) = UNION {{RenameUnit(red, u) : u \in kernels[i]} : i \in 1..k}
  BY <1>2 DEF UnitsOf, RangeOf
<1>7. UnitsOf(kernels) = UNION {kernels[i] : i \in 1..k}
  BY <1>1 DEF UnitsOf, RangeOf
<1>8. UnitsOf(g) = {RenameUnit(red, u) : u \in UnitsOf(kernels)}
  <2> HIDE DEF g, k
  <2> QED BY <1>6, <1>7
<1>9. UnitsOf(kernels) \in SUBSET LocalUnits(w)
  <2> HIDE DEF LocalUnits, k
  <2> QED BY <1>1, <1>7
<1> QED BY <1>5, <1>8, <1>9

-----------------------------------------------------------------------------
(* The chronological log.                                                  *)

Records == [unit : Units, rows : SUBSET OrgRows]
Checkpoints == [kind : Kinds, payload : Nat, position : Nat]

\* Checkpoints stand in the order of their positions, inside the tape.
Chronological(tl, end) ==
  /\ \A i \in 1..Len(tl) : tl[i].position <= end
  /\ \A i, j \in 1..Len(tl) : i < j => tl[i].position <= tl[j].position

\* The checkpoints that stand before index q of the log, and at it.
Before(tl, q) == {i \in DOMAIN tl : tl[i].position + i < q}
At(tl, q) == {i \in DOMAIN tl : tl[i].position + i = q}

\* An index of the log is that of one checkpoint or of one tape record.
LEMMA LogIndex ==
  ASSUME NEW tl \in Seq(Checkpoints), NEW end \in Nat, Chronological(tl, end),
         NEW q \in 1..(end + Len(tl))
  PROVE  /\ \A i, j \in At(tl, q) : i = j
         /\ Cardinality(Before(tl, q)) \in 0..Len(tl)
         /\ At(tl, q) = {} => q - Cardinality(Before(tl, q)) \in 1..end
<1> DEFINE n == Len(tl)
           S == {i \in DOMAIN tl : tl[i].position + i < q}
           k == Cardinality(S)
<1>1. /\ n \in Nat /\ DOMAIN tl = 1..n
      /\ \A i \in 1..n : tl[i].position \in Nat /\ tl[i].position <= end
      /\ \A i, j \in 1..n : i < j => tl[i].position <= tl[j].position
  <2>1. n \in Nat /\ DOMAIN tl = 1..n
    BY LenProperties
  <2>2. \A i \in 1..n : tl[i] \in Checkpoints
    BY ElementOfSeq
  <2>3. \A i \in 1..n : tl[i].position \in Nat
    BY <2>2 DEF Checkpoints
  <2> QED BY <2>1, <2>3 DEF Chronological
<1> HIDE DEF n
<1>2. S \in SUBSET (1..n) /\ \A j \in S : \A i \in 1..n : i < j => i \in S
  BY <1>1
<1>3. k \in 0..n /\ S = 1..k
  <2> HIDE DEF S
  <2> QED BY <1>1, <1>2, InitialSegment
<1>4. \A i \in 1..n : i \in 1..k <=> tl[i].position + i < q
  BY <1>1, <1>3
<1>5. \A i, j \in 1..n : tl[i].position + i = q /\ tl[j].position + j = q => i = j
  BY <1>1
<1>6. ASSUME \A i \in 1..n : tl[i].position + i # q
      PROVE  q - k \in 1..end
  <2> HIDE DEF k, S
  <2>0. k \in 0..n /\ q \in 1..(end + n) /\ n \in Nat
    BY <1>1, <1>3 DEF n
  <2>1. q - k >= 1
    <3>1. CASE k = 0
      BY <2>0, <3>1
    <3>2. CASE k # 0
      <4>1. k \in 1..n
        BY <2>0, <3>2
      <4>2. tl[k].position + k < q /\ tl[k].position \in Nat
        BY <1>1, <1>4, <4>1
      <4> QED BY <4>1, <4>2
    <3> QED BY <3>1, <3>2
  <2>2. CASE k = n
    BY <1>1, <2>0, <2>1, <2>2
  <2>3. CASE k # n
    <3>1. k + 1 \in 1..n /\ k + 1 \notin 1..k
      BY <2>0, <2>3
    <3>2. /\ ~(tl[k + 1].position + (k + 1) < q) /\ tl[k + 1].position + (k + 1) # q
          /\ tl[k + 1].position \in Nat /\ tl[k + 1].position <= end
      BY <1>1, <1>4, <1>6, <3>1
    <3> QED BY <2>0, <2>1, <3>2
  <2> QED BY <2>2, <2>3
<1>7. k = Cardinality(Before(tl, q))
  BY DEF Before
<1>8. At(tl, q) = {i \in 1..n : tl[i].position + i = q}
  BY <1>1 DEF At
<1> HIDE DEF k, S
<1> QED BY <1>3, <1>5, <1>6, <1>7, <1>8 DEF n

\* The columns of a compacted map are those of the slots that are kept.
LEMMA CompactRange ==
  ASSUME NEW map, NEW w \in Nat, NEW keep \in SUBSET (1..w)
  PROVE  RangeOf(Compact(map, keep)) = {map[j] : j \in keep}
<1> DEFINE c == Cardinality(keep)
           o == InOrder(keep)
<1>1. o \in [1..c -> keep] /\ \A j \in keep : o[Rank(keep, j)] = j
  BY InOrderMembers
<1>2. \A j \in keep : Rank(keep, j) \in 1..c
  BY RankOnto
<1>3. RangeOf(Compact(map, keep)) = {map[o[i]] : i \in 1..c}
  BY DEF RangeOf, Compact
<1> HIDE DEF c, o
<1>4. {map[o[i]] : i \in 1..c} = {map[j] : j \in keep}
  <2>1. \A i \in 1..c : o[i] \in keep
    BY <1>1
  <2>2. \A j \in keep : \E i \in 1..c : j = o[i]
    BY <1>1, <1>2
  <2> QED BY <2>1, <2>2
<1> QED BY <1>3, <1>4

-----------------------------------------------------------------------------
(* The record after any plans.                                             *)

RecordTyped ==
  /\ lpRows \in Seq(OrgRows) /\ lpCols \in Seq(OrgCols)
  /\ tape \in Seq(Records)
  /\ payloads \in [Kinds -> Seq(Seq(SUBSET Units))]
  /\ timeline \in Seq(Checkpoints)
  /\ fixedIdx \in Seq(OrgCols)

\* Every payload has one checkpoint, and every checkpoint a payload.
Numbered ==
  /\ \A i \in 1..Len(timeline) : timeline[i].payload \in 1..Len(payloads[timeline[i].kind])
  /\ \A i, j \in 1..Len(timeline) :
       timeline[i].kind = timeline[j].kind /\ timeline[i].payload = timeline[j].payload => i = j
  /\ \A kind \in Kinds : \A q \in 1..Len(payloads[kind]) :
       \E i \in 1..Len(timeline) : timeline[i].kind = kind /\ timeline[i].payload = q

\* A column with a recorded value has left the LP.
FixedLeft == RangeOf(colRed2org) \cap RangeOf(fixedIdx) = {}

RecordInv ==
  /\ MapsInv
  /\ FixedLeft
  /\ RecordTyped
  /\ Chronological(timeline, Len(tape))
  /\ Numbered

\* What a plan of tape records does to the record.
TapeStep(p) ==
  /\ UNCHANGED <<payloads, timeline>>
  /\ tape' = tape \o [i \in DOMAIN p.records |->
                        GlobalizeRecord(p.records[i], rowRed2org, colRed2org)]

\* What a plan with a payload does to it.
PayloadStep(p) ==
  /\ UNCHANGED tape
  /\ payloads' = [payloads EXCEPT ![p.kind] = Append(@, GlobalizePayload(p.kernels, colRed2org))]
  /\ timeline' = Append(timeline, [kind |-> p.kind, payload |-> Len(payloads[p.kind]) + 1,
                                   position |-> Len(tape)])

\* The maps of a record are injective and onto the columns of the LP.
LEMMA MapFacts ==
  ASSUME RecordInv
  PROVE  /\ Len(lpCols) \in Nat /\ Len(lpRows) \in Nat
         /\ colRed2org = lpCols /\ rowRed2org = lpRows
         /\ colRed2org \in [1..Len(lpCols) -> OrgCols]
         /\ rowRed2org \in [1..Len(lpRows) -> OrgRows]
         /\ \A i, j \in 1..Len(lpCols) : colRed2org[i] = colRed2org[j] => i = j
         /\ RangeOf(colRed2org) = {colRed2org[i] : i \in 1..Len(lpCols)}
<1>1. colRed2org = lpCols /\ rowRed2org = lpRows /\ Increasing(lpCols)
  BY DEF RecordInv, MapsInv, MapsMatchLp
<1>2. lpCols \in Seq(OrgCols) /\ lpRows \in Seq(OrgRows)
  BY DEF RecordInv, RecordTyped
<1>3. /\ Len(lpCols) \in Nat /\ DOMAIN lpCols = 1..Len(lpCols)
      /\ Len(lpRows) \in Nat /\ DOMAIN lpRows = 1..Len(lpRows)
      /\ \A i \in 1..Len(lpCols) : lpCols[i] \in OrgCols
      /\ lpCols \in [1..Len(lpCols) -> OrgCols]
      /\ lpRows \in [1..Len(lpRows) -> OrgRows]
  <2> HIDE DEF OrgCols, OrgRows
  <2> QED BY <1>2, LenProperties, ElementOfSeq
<1>4. \A i \in 1..Len(lpCols) : lpCols[i] \in Int
  BY <1>3 DEF OrgCols
<1>5. \A i, j \in 1..Len(lpCols) : lpCols[i] = lpCols[j] => i = j
  <2> SUFFICES ASSUME NEW i \in 1..Len(lpCols), NEW j \in 1..Len(lpCols), lpCols[i] = lpCols[j]
               PROVE  i = j
    OBVIOUS
  <2>1. ~(i < j) /\ ~(j < i)
    BY <1>1, <1>4 DEF Increasing
  <2> QED BY <1>3, <2>1
<1>6. RangeOf(lpCols) = {lpCols[i] : i \in 1..Len(lpCols)}
  BY <1>3 DEF RangeOf
<1> QED BY <1>1, <1>3, <1>5, <1>6

\* A commit is a step of one kind or the other.
LEMMA StepCases ==
  ASSUME RecordInv, NEW p \in Plans(Len(lpRows), Len(lpCols)), ApplyPlan(p)
  PROVE  \/ TapeFacts(p, Len(lpRows), Len(lpCols)) /\ TapeStep(p)
         \/ PayloadFacts(p, Len(lpCols)) /\ PayloadStep(p)
<1>1. CASE TapeFacts(p, Len(lpRows), Len(lpCols))
  <2>1. p.kernels = NoPayload
    BY <1>1 DEF TapeFacts
  <2>2. UNCHANGED <<payloads, timeline>>
    BY <2>1 DEF ApplyPlan, AppendPayload
  <2>3. TapeStep(p)
    BY <2>2 DEF ApplyPlan, AppendTape, TapeStep
  <2> QED BY <1>1, <2>3
<1>2. CASE PayloadFacts(p, Len(lpCols))
  <2>1. p.records = << >> /\ p.kernels # NoPayload
    BY <1>2 DEF PayloadFacts
  <2>2. tape' = tape
    <3>1. [i \in DOMAIN p.records |-> GlobalizeRecord(p.records[i], rowRed2org, colRed2org)] = << >>
      BY <2>1
    <3>2. tape \in Seq(Records)
      BY DEF RecordInv, RecordTyped
    <3>3. tape \o << >> = tape
      <4> HIDE DEF Units, OrgRows
      <4> QED BY <3>2, ConcatEmptySeq
    <3> QED BY <3>1, <3>3 DEF ApplyPlan, AppendTape
  <2>3. PayloadStep(p)
    BY <2>1, <2>2 DEF ApplyPlan, AppendPayload, PayloadStep
  <2> QED BY <1>2, <2>3
<1>3. Len(lpRows) \in Nat /\ Len(lpCols) \in Nat
  BY MapFacts
<1> QED BY <1>1, <1>2, <1>3, PlanFacts

\* The renamed records of a plan.
LEMMA RenamedRecords ==
  ASSUME RecordInv, NEW p, TapeFacts(p, Len(lpRows), Len(lpCols))
  PROVE  LET new == [i \in DOMAIN p.records |->
                       GlobalizeRecord(p.records[i], rowRed2org, colRed2org)]
         IN /\ new \in Seq(Records)
            /\ Len(new) = Len(p.records) /\ Len(new) \in Nat
            /\ \A i \in 1..Len(new) :
                 /\ p.records[i].unit \in LocalUnits(Len(lpCols))
                 /\ new[i].unit = RenameUnit(colRed2org, p.records[i].unit)
                 /\ new[i].rows \subseteq RangeOf(lpRows)
<1> DEFINE m == Len(lpRows)
           w == Len(lpCols)
           r == p.records
           k == Len(r)
           new == [i \in DOMAIN r |-> GlobalizeRecord(r[i], rowRed2org, colRed2org)]
<1>1. m \in Nat /\ w \in Nat /\ colRed2org \in [1..w -> OrgCols]
      /\ rowRed2org \in [1..m -> OrgRows] /\ rowRed2org = lpRows
  BY MapFacts
<1>2. k \in Nat /\ DOMAIN r = 1..k /\ \A i \in 1..k : r[i] \in LocalRecords(m, w)
  <2>1. r \in Seq(LocalRecords(m, w))
    BY DEF TapeFacts
  <2> HIDE DEF r
  <2> QED BY <2>1, LenProperties, ElementOfSeq
<1>3. \A i \in 1..k : r[i].unit \in LocalUnits(w) /\ r[i].rows \subseteq 1..m
  BY <1>2 DEF LocalRecords
<1>4. new = [i \in 1..k |-> [unit |-> RenameUnit(colRed2org, r[i].unit),
                             rows |-> RenameAll(rowRed2org, r[i].rows)]]
  BY <1>2 DEF GlobalizeRecord
<1>5. \A i \in 1..k : /\ RenameUnit(colRed2org, r[i].unit) \in Units
                      /\ RenameAll(rowRed2org, r[i].rows) \subseteq RangeOf(lpRows)
                      /\ RenameAll(rowRed2org, r[i].rows) \subseteq OrgRows
  <2> SUFFICES ASSUME NEW i \in 1..k
               PROVE  /\ RenameUnit(colRed2org, r[i].unit) \in Units
                      /\ RenameAll(rowRed2org, r[i].rows) \subseteq RangeOf(lpRows)
                      /\ RenameAll(rowRed2org, r[i].rows) \subseteq OrgRows
    OBVIOUS
  <2> HIDE DEF r, k, w, m
  <2>1. RenameUnit(colRed2org, r[i].unit) \in Units
    BY <1>1, <1>3, RenamedUnit
  <2>2. \A j \in r[i].rows : Rename(rowRed2org, j) = rowRed2org[j] /\ j \in 1..m
    BY <1>1, <1>3 DEF Rename
  <2>3. \A j \in 1..m : rowRed2org[j] \in OrgRows /\ rowRed2org[j] \in RangeOf(lpRows)
    BY <1>1 DEF RangeOf
  <2> QED BY <2>1, <2>2, <2>3 DEF RenameAll
<1>6. new \in [1..k -> Records]
  <2> HIDE DEF r, k, Units, OrgRows, new
  <2> QED BY <1>4, <1>5 DEF Records
<1>7. new \in Seq(Records) /\ Len(new) = k
  <2>1. new \in [1..k -> Records] /\ k \in Nat
    BY <1>2, <1>6
  <2> HIDE DEF r, k, new
  <2>2. new \in Seq(Records)
    BY <2>1, SeqDef
  <2>3. Len(new) = k
    BY <2>1, <2>2, LenProperties
  <2> QED BY <2>2, <2>3
<1>8. \A i \in 1..k : /\ new[i].unit = RenameUnit(colRed2org, r[i].unit)
                      /\ new[i].rows \subseteq RangeOf(lpRows)
  <2> HIDE DEF r, k, new
  <2> QED BY <1>4, <1>5
<1> QED BY <1>2, <1>3, <1>7, <1>8

\* The payload of a plan.
LEMMA RenamedPayload ==
  ASSUME RecordInv, NEW p, PayloadFacts(p, Len(lpCols))
  PROVE  LET entry == GlobalizePayload(p.kernels, colRed2org)
             units == UnitsOf(p.kernels)
         IN /\ entry \in Seq(SUBSET Units)
            /\ units \in SUBSET LocalUnits(Len(lpCols))
            /\ UnitsOf(entry) = {RenameUnit(colRed2org, u) : u \in units}
<1> DEFINE w == Len(lpCols)
           kernels == p.kernels
<1>1. w \in Nat /\ colRed2org \in [1..w -> OrgCols]
  BY MapFacts
<1>2. kernels \in Seq(SUBSET LocalUnits(w))
  BY DEF PayloadFacts
<1> HIDE DEF w, kernels, OrgCols, Units, LocalUnits
<1>3. /\ GlobalizePayload(kernels, colRed2org) \in Seq(SUBSET Units)
      /\ UnitsOf(GlobalizePayload(kernels, colRed2org))
           = {RenameUnit(colRed2org, u) : u \in UnitsOf(kernels)}
      /\ UnitsOf(kernels) \in SUBSET LocalUnits(w)
  BY <1>1, <1>2, PayloadEntry
<1> QED BY <1>3 DEF w, kernels

-----------------------------------------------------------------------------
(* How the log grows.                                                      *)

\* The entry of tape record r.
TapeEntry(tp, r) == << {tp[r].unit} >>

\* The entry of a checkpoint.
PayloadEntryOf(pl, ck) == pl[ck.kind][ck.payload]

\* What stands at one index of the log: the entry of a checkpoint, or ...
LEMMA LogAtCheckpoint ==
  ASSUME NEW tp, NEW tl, NEW pl, NEW q \in 1..(Len(tp) + Len(tl)),
         \A i, j \in At(tl, q) : i = j,
         NEW i \in At(tl, q)
  PROVE  LogOf(tp, tl, pl)[q] = PayloadEntryOf(pl, tl[i])
<1> DEFINE here(j) == tl[j].position + j = q
           ck == tl[CHOOSE j \in DOMAIN tl : here(j)]
<1>1. LogOf(tp, tl, pl)[q] = IF \E j \in DOMAIN tl : here(j)
                             THEN PayloadEntryOf(pl, ck)
                             ELSE TapeEntry(tp, q - Cardinality(Before(tl, q)))
  BY DEF LogOf, Before, TapeEntry, PayloadEntryOf
<1>2. At(tl, q) = {j \in DOMAIN tl : here(j)}
  BY DEF At
<1> HIDE DEF here
<1>3. here(CHOOSE j \in DOMAIN tl : here(j)) /\ (CHOOSE j \in DOMAIN tl : here(j)) \in DOMAIN tl
  BY <1>2
<1>4. (CHOOSE j \in DOMAIN tl : here(j)) = i
  BY <1>2, <1>3
<1> QED BY <1>1, <1>2, <1>4

\* ... the one of a tape record.
LEMMA LogAtRecord ==
  ASSUME NEW tp, NEW tl, NEW pl, NEW q \in 1..(Len(tp) + Len(tl)), At(tl, q) = {}
  PROVE  LogOf(tp, tl, pl)[q] = TapeEntry(tp, q - Cardinality(Before(tl, q)))
<1>1. ~ \E i \in DOMAIN tl : tl[i].position + i = q
  BY DEF At
<1> QED BY <1>1 DEF LogOf, Before, TapeEntry

\* Tape records append one entry each, and leave the log as it was.
LEMMA LogAfterTape ==
  ASSUME NEW tp \in Seq(Records), NEW new \in Seq(Records), NEW tl \in Seq(Checkpoints), NEW pl,
         Chronological(tl, Len(tp))
  PROVE  /\ \A q \in 1..(Len(tp) + Len(tl)) : LogOf(tp \o new, tl, pl)[q] = LogOf(tp, tl, pl)[q]
         /\ \A i \in 1..Len(new) :
              LogOf(tp \o new, tl, pl)[Len(tp) + Len(tl) + i] = TapeEntry(new, i)
<1> DEFINE e == Len(tp)
           n == Len(tl)
           k == Len(new)
           long == tp \o new
           before(q) == Cardinality(Before(tl, q))
<1>1. /\ e \in Nat /\ k \in Nat /\ n \in Nat /\ DOMAIN tl = 1..n
      /\ \A i \in 1..n : tl[i].position \in Nat /\ tl[i].position <= e
  <2>1. \A i \in 1..n : tl[i] \in Checkpoints
    BY ElementOfSeq
  <2> QED BY <2>1, LenProperties DEF Checkpoints, Chronological
<1>2. /\ Len(long) = e + k
      /\ \A q \in 1..e : long[q] = tp[q]
      /\ \A i \in 1..k : long[e + i] = new[i]
  <2>1. /\ tp \o new \in Seq(Records) /\ Len(long) = e + k
        /\ \A i \in 1..(e + k) : long[i] = IF i <= e THEN tp[i] ELSE new[i - e]
    BY ConcatProperties
  <2>2. \A i \in 1..k : e + i \in 1..(e + k) /\ ~(e + i <= e) /\ (e + i) - e = i
    BY <1>1
  <2>3. \A q \in 1..e : q \in 1..(e + k) /\ q <= e
    BY <1>1
  <2> HIDE DEF e, k
  <2> QED BY <2>1, <2>2, <2>3
<1> HIDE DEF e, n, k, long
<1>3. Chronological(tl, e) /\ Chronological(tl, e + k)
  <2>1. Chronological(tl, e)
    BY DEF e
  <2> QED BY <1>1, <2>1 DEF Chronological, n
<1>4. ASSUME NEW q \in 1..(e + n) PROVE LogOf(long, tl, pl)[q] = LogOf(tp, tl, pl)[q]
  <2>1. /\ \A i, j \in At(tl, q) : i = j
        /\ At(tl, q) = {} => q - before(q) \in 1..e
    BY <1>1, <1>3, LogIndex DEF n
  <2>2. q \in 1..(Len(long) + Len(tl)) /\ q \in 1..(Len(tp) + Len(tl))
    <3>1. q \in 1..(e + k + n)
      BY <1>1
    <3> QED BY <1>2, <3>1 DEF e, n
  <2>3. CASE At(tl, q) # {}
    <3>1. PICK i \in At(tl, q) : TRUE
      BY <2>3
    <3> QED BY <2>1, <2>2, <3>1, LogAtCheckpoint
  <2>4. CASE At(tl, q) = {}
    <3>1. /\ LogOf(long, tl, pl)[q] = TapeEntry(long, q - before(q))
          /\ LogOf(tp, tl, pl)[q] = TapeEntry(tp, q - before(q))
      BY <2>1, <2>2, <2>4, LogAtRecord
    <3> QED BY <1>2, <2>1, <2>4, <3>1 DEF TapeEntry
  <2> QED BY <2>3, <2>4
<1>5. ASSUME NEW i \in 1..k PROVE LogOf(long, tl, pl)[e + n + i] = TapeEntry(new, i)
  <2> DEFINE q == e + n + i
  <2>1. \A j \in 1..n : tl[j].position + j < q /\ tl[j].position + j # q
    <3> SUFFICES ASSUME NEW j \in 1..n PROVE tl[j].position + j < q /\ tl[j].position + j # q
      OBVIOUS
    <3>1. tl[j].position \in Nat /\ tl[j].position <= e
      BY <1>1
    <3> QED BY <1>1, <3>1
  <2>2. q \in 1..(Len(long) + Len(tl)) /\ q - n = e + i
    <3>1. q \in 1..(e + k + n) /\ q - n = e + i
      BY <1>1
    <3> QED BY <1>2, <3>1 DEF n
  <2>3. long[q - n] = new[i]
    BY <1>2, <2>2
  <2> HIDE DEF q
  <2>4. Before(tl, q) = 1..n /\ At(tl, q) = {}
    BY <1>1, <2>1 DEF Before, At
  <2>5. Cardinality(1..n) = n
    <3>1. 1 \in Int /\ n \in Int
      BY <1>1
    <3>2. Cardinality(1..n) = IF 1 > n THEN 0 ELSE n - 1 + 1
      BY <3>1, FS_Interval
    <3> QED BY <1>1, <3>2
  <2>6. LogOf(long, tl, pl)[q] = TapeEntry(long, q - n)
    BY <2>2, <2>4, <2>5, LogAtRecord
  <2> QED BY <2>3, <2>6 DEF q, TapeEntry
<1> QED BY <1>4, <1>5 DEF e, n, k, long

\* "long" is "tl" with "ck" at its end.
Appended(tl, ck, long) ==
  /\ long \in Seq(Checkpoints) /\ Len(long) = Len(tl) + 1
  /\ \A i \in 1..Len(tl) : long[i] = tl[i]
  /\ long[Len(tl) + 1] = ck

\* A payload keeps the checkpoints chronological, ...
LEMMA PayloadChronological ==
  ASSUME NEW tp \in Seq(Records), NEW tl \in Seq(Checkpoints),
         NEW ck \in Checkpoints, ck.position = Len(tp),
         NEW long, Appended(tl, ck, long),
         Chronological(tl, Len(tp))
  PROVE  /\ Len(tp) \in Nat /\ Len(tl) \in Nat /\ DOMAIN tl = 1..Len(tl)
         /\ \A i \in 1..Len(tl) : tl[i].position \in Nat /\ tl[i].position <= Len(tp)
         /\ long \in Seq(Checkpoints) /\ Len(long) = Len(tl) + 1 /\ DOMAIN long = 1..(Len(tl) + 1)
         /\ \A i \in 1..Len(tl) : long[i] = tl[i]
         /\ long[Len(tl) + 1] = ck
         /\ Chronological(long, Len(tp))
<1> DEFINE e == Len(tp)
           n == Len(tl)
<1>1. /\ e \in Nat /\ n \in Nat /\ DOMAIN tl = 1..n
      /\ \A i \in 1..n : tl[i].position \in Nat /\ tl[i].position <= e
  <2>1. \A i \in 1..n : tl[i] \in Checkpoints
    BY ElementOfSeq
  <2> QED BY <2>1, LenProperties DEF Checkpoints, Chronological
<1>2. /\ long \in Seq(Checkpoints) /\ Len(long) = n + 1 /\ DOMAIN long = 1..(n + 1)
      /\ \A i \in 1..n : long[i] = tl[i]
      /\ long[n + 1] = ck
  BY LenProperties DEF Appended
<1>3. ck.position = e
  OBVIOUS
<1>4. Chronological(tl, e)
  OBVIOUS
<1> HIDE DEF e, n
<1>6. Chronological(long, e)
  <2>1. \A i \in 1..(n + 1) : i \in 1..n \/ i = n + 1
    BY <1>1
  <2>2. \A i \in 1..(n + 1) : long[i].position \in Nat /\ long[i].position <= e
    BY <1>1, <1>2, <1>3, <2>1
  <2>3. ASSUME NEW i \in 1..(n + 1), NEW j \in 1..(n + 1), i < j
        PROVE  long[i].position <= long[j].position
    <3>1. i \in 1..n
      BY <1>1, <2>3
    <3>2. CASE j \in 1..n
      BY <1>2, <1>4, <2>3, <3>1, <3>2 DEF Chronological, n
    <3>3. CASE j = n + 1
      BY <1>1, <1>2, <1>3, <3>1, <3>3
    <3> QED BY <2>1, <3>2, <3>3
  <2> QED BY <1>2, <2>2, <2>3 DEF Chronological
<1> QED BY <1>1, <1>2, <1>6 DEF e, n

\* ... leaves the log as it was, ...
LEMMA PayloadKeepsLog ==
  ASSUME NEW tp \in Seq(Records), NEW tl \in Seq(Checkpoints), NEW pl, NEW pl2,
         NEW ck \in Checkpoints, ck.position = Len(tp),
         NEW long, Appended(tl, ck, long),
         Chronological(tl, Len(tp)),
         \A i \in 1..Len(tl) : PayloadEntryOf(pl2, tl[i]) = PayloadEntryOf(pl, tl[i])
  PROVE  \A q \in 1..(Len(tp) + Len(tl)) : LogOf(tp, long, pl2)[q] = LogOf(tp, tl, pl)[q]
<1> DEFINE e == Len(tp)
           n == Len(tl)
<1>1. /\ e \in Nat /\ n \in Nat /\ DOMAIN tl = 1..n
      /\ \A i \in 1..n : tl[i].position \in Nat /\ tl[i].position <= e
      /\ long \in Seq(Checkpoints) /\ Len(long) = n + 1 /\ DOMAIN long = 1..(n + 1)
      /\ \A i \in 1..n : long[i] = tl[i]
      /\ long[n + 1] = ck
      /\ Chronological(long, e)
  BY PayloadChronological
<1>2. ck.position = e /\ Chronological(tl, e)
  OBVIOUS
<1>3. \A i \in 1..n : PayloadEntryOf(pl2, tl[i]) = PayloadEntryOf(pl, tl[i])
  OBVIOUS
<1> HIDE DEF e, n
<1>4. ASSUME NEW q \in 1..(e + n) PROVE LogOf(tp, long, pl2)[q] = LogOf(tp, tl, pl)[q]
  <2>1. /\ q # e + (n + 1) /\ ~(e + (n + 1) < q)
        /\ \A i \in 1..(n + 1) : i \in 1..n \/ i = n + 1
        /\ \A i \in 1..n : i \in 1..(n + 1)
    BY <1>1
  <2>2. At(long, q) = At(tl, q) /\ Before(long, q) = Before(tl, q)
    BY <1>1, <1>2, <2>1 DEF At, Before
  <2>3. \A i, j \in At(tl, q) : i = j
    BY <1>1, <1>2, LogIndex DEF n
  <2>4. q \in 1..(Len(tp) + Len(tl)) /\ q \in 1..(Len(tp) + Len(long))
    <3>1. q \in 1..(e + (n + 1))
      BY <1>1
    <3> QED BY <1>1, <3>1 DEF e, n
  <2>5. CASE At(tl, q) # {}
    <3>1. PICK i \in At(tl, q) : TRUE
      BY <2>5
    <3>2. i \in 1..n
      BY <1>1 DEF At
    <3>3. /\ LogOf(tp, long, pl2)[q] = PayloadEntryOf(pl2, long[i])
          /\ LogOf(tp, tl, pl)[q] = PayloadEntryOf(pl, tl[i])
      BY <2>2, <2>3, <2>4, <3>1, LogAtCheckpoint
    <3> QED BY <1>1, <1>3, <3>2, <3>3
  <2>6. CASE At(tl, q) = {}
    BY <2>2, <2>4, <2>6, LogAtRecord
  <2> QED BY <2>5, <2>6
<1> QED BY <1>4 DEF e, n

\* ... and appends one entry.
LEMMA PayloadAppends ==
  ASSUME NEW tp \in Seq(Records), NEW tl \in Seq(Checkpoints), NEW pl,
         NEW ck \in Checkpoints, ck.position = Len(tp),
         NEW long, Appended(tl, ck, long),
         Chronological(tl, Len(tp))
  PROVE  LogOf(tp, long, pl)[Len(tp) + Len(tl) + 1] = PayloadEntryOf(pl, ck)
<1> DEFINE e == Len(tp)
           n == Len(tl)
<1>1. /\ e \in Nat /\ n \in Nat /\ DOMAIN tl = 1..n
      /\ \A i \in 1..n : tl[i].position \in Nat /\ tl[i].position <= e
      /\ long \in Seq(Checkpoints) /\ Len(long) = n + 1 /\ DOMAIN long = 1..(n + 1)
      /\ \A i \in 1..n : long[i] = tl[i]
      /\ long[n + 1] = ck
      /\ Chronological(long, e)
  BY PayloadChronological
<1>2. ck.position = e /\ Chronological(tl, e)
  OBVIOUS
<1> HIDE DEF e, n
<1>3. LogOf(tp, long, pl)[e + n + 1] = PayloadEntryOf(pl, ck)
  <2> DEFINE q == e + n + 1
  <2>1. q \in 1..(e + (n + 1)) /\ q = e + (n + 1)
    BY <1>1
  <2> HIDE DEF q
  <2>2. n + 1 \in At(long, q)
    <3>1. n + 1 \in 1..(n + 1)
      BY <1>1
    <3> QED BY <1>1, <1>2, <2>1, <3>1 DEF At
  <2>3. \A i, j \in At(long, q) : i = j
    BY <1>1, <2>1, LogIndex
  <2>4. q \in 1..(Len(tp) + Len(long))
    BY <1>1, <2>1 DEF e
  <2>5. LogOf(tp, long, pl)[q] = PayloadEntryOf(pl, long[n + 1])
    BY <2>2, <2>3, <2>4, LogAtCheckpoint
  <2> QED BY <1>1, <2>5 DEF q
<1> QED BY <1>3 DEF e, n

-----------------------------------------------------------------------------
(* The invariant is kept.                                                  *)

LEMMA RecordInvInit ==
  ASSUME Init
  PROVE  RecordInv
<1>1. MapsInv
  <2>1. lpRows \in Seq(Nat) /\ lpCols \in Seq(Nat)
    BY RecordAssumption DEF Init
  <2>2. Increasing(rowRed2org) /\ Increasing(colRed2org)
    BY RecordAssumption DEF Init, Increasing
  <2> QED BY <2>1, <2>2 DEF Init, MapsInv, MapsMatchLp
<1>2. RecordTyped
  <2>1. lpRows \in Seq(OrgRows) /\ lpCols \in Seq(OrgCols)
    BY RecordAssumption DEF Init, OrgRows, OrgCols
  <2>2. fixedIdx \in Seq(OrgCols) /\ timeline \in Seq(Checkpoints)
    BY EmptySeq DEF Init
  <2>3. tape \in Seq(Records)
    <3> QED BY DEF Init
  <2>4. payloads \in [Kinds -> Seq(Seq(SUBSET Units))]
    <3> DEFINE P == Seq(SUBSET Units)
    <3> HIDE DEF P
    <3>1. << >> \in Seq(P)
      OBVIOUS
    <3>2. payloads \in [Kinds -> Seq(P)]
      BY <3>1 DEF Init
    <3> QED BY <3>2 DEF P
  <2> QED BY <2>1, <2>2, <2>3, <2>4 DEF RecordTyped
<1>3. Len(timeline) = 0 /\ \A kind \in Kinds : Len(payloads[kind]) = 0
  BY DEF Init
<1>5. FixedLeft
  <2>1. RangeOf(<< >>) = {}
    BY DEF RangeOf
  <2> QED BY <2>1 DEF Init, FixedLeft
<1>4. Chronological(timeline, Len(tape)) /\ Numbered
  BY <1>3 DEF Chronological, Numbered
<1> QED BY <1>1, <1>2, <1>4, <1>5 DEF RecordInv

\* The maps are compacted.
LEMMA MapsStep ==
  ASSUME RecordInv, NEW p \in Plans(Len(lpRows), Len(lpCols)), ApplyPlan(p)
  PROVE  /\ MapsInv'
         /\ lpRows' \in Seq(OrgRows) /\ lpCols' \in Seq(OrgCols)
         /\ fixedIdx' \in Seq(OrgCols)
         /\ FixedLeft'
         /\ RangeOf(colRed2org') = {colRed2org[j] : j \in p.keepCol}
         /\ RangeOf(fixedIdx') = RangeOf(fixedIdx) \cup {colRed2org[j] : j \in p.fixed}
<1> DEFINE m == Len(lpRows)
           w == Len(lpCols)
<1>1. /\ m \in Nat /\ w \in Nat /\ colRed2org = lpCols /\ rowRed2org = lpRows
      /\ lpCols \in [1..w -> OrgCols] /\ lpRows \in [1..m -> OrgRows]
  BY MapFacts
<1>2. /\ p.keepRow \in SUBSET (1..m) /\ p.keepCol \in SUBSET (1..w)
      /\ p.fixed \in SUBSET (1..w)
  <2>1. p.fixed \in SUBSET (1..w)
    BY StepCases DEF TapeFacts, PayloadFacts
  <2> HIDE DEF m, w
  <2> QED BY <1>1, <2>1, PlanKeeps DEF m, w
<1>3. MapsInv
  BY DEF RecordInv
<1>4. /\ lpRows' = Compact(lpRows, p.keepRow) /\ lpCols' = Compact(lpCols, p.keepCol)
      /\ rowRed2org' = IF Cardinality(p.keepRow) < m THEN Compact(lpRows, p.keepRow) ELSE lpRows
      /\ colRed2org' = IF Cardinality(p.keepCol) < w THEN Compact(lpCols, p.keepCol) ELSE lpCols
  BY <1>1 DEF ApplyPlan, InstallMaps
<1>5. lpRows' \in Seq(Nat) /\ Increasing(lpRows') /\ rowRed2org' = lpRows'
  BY <1>2, <1>3, <1>4, CompactMap DEF MapsInv, MapsMatchLp
<1>6. lpCols' \in Seq(Nat) /\ Increasing(lpCols') /\ colRed2org' = lpCols'
  BY <1>2, <1>3, <1>4, CompactMap DEF MapsInv, MapsMatchLp
<1>7. MapsInv'
  BY <1>5, <1>6 DEF MapsInv, MapsMatchLp, Increasing
<1>8. ASSUME NEW map, NEW k \in Nat, NEW S \in SUBSET (1..k), NEW T, map \in [1..k -> T]
      PROVE  /\ Compact(map, S) \in Seq(T)
             /\ \A i \in 1..Cardinality(S) : InOrder(S)[i] \in 1..k
             /\ Cardinality(S) \in Nat
  <2>1. Cardinality(S) \in Nat /\ InOrder(S) \in [1..Cardinality(S) -> S]
    BY InOrderMembers
  <2>2. Compact(map, S) \in [1..Cardinality(S) -> T]
    BY <1>8, <2>1 DEF Compact
  <2>3. Compact(map, S) \in Seq(T)
    BY <2>1, <2>2, SeqDef
  <2> QED BY <2>1, <2>3
<1>9. lpRows' \in Seq(OrgRows) /\ lpCols' \in Seq(OrgCols)
  <2> HIDE DEF OrgRows, OrgCols, m, w
  <2> QED BY <1>1, <1>2, <1>4, <1>8
<1>10. RangeOf(colRed2org') = {colRed2org[j] : j \in p.keepCol}
  <2>1. colRed2org' = Compact(colRed2org, p.keepCol)
    BY <1>1, <1>4, <1>6
  <2> DEFINE K == p.keepCol
  <2>2. K \in SUBSET (1..w) /\ w \in Nat
    BY <1>1, <1>2
  <2> HIDE DEF w, K
  <2>3. RangeOf(Compact(colRed2org, K)) = {colRed2org[j] : j \in K}
    BY <2>2, CompactRange
  <2> QED BY <2>1, <2>3 DEF K
<1>11. fixedIdx' = fixedIdx \o Compact(colRed2org, p.fixed)
  BY DEF ApplyPlan, AppendFixed, Compact
<1> DEFINE F == p.fixed
           add == Compact(colRed2org, F)
<1>12. add \in Seq(OrgCols) /\ RangeOf(add) = {colRed2org[j] : j \in F}
  <2>1. F \in SUBSET (1..w) /\ w \in Nat /\ colRed2org \in [1..w -> OrgCols]
    BY <1>1, <1>2
  <2> HIDE DEF OrgCols, m, w, F
  <2>2. add \in Seq(OrgCols)
    BY <1>8, <2>1
  <2>3. RangeOf(add) = {colRed2org[j] : j \in F}
    BY <2>1, CompactRange
  <2> QED BY <2>2, <2>3
<1>13. fixedIdx \in Seq(OrgCols) /\ fixedIdx' = fixedIdx \o add
  BY <1>11 DEF RecordInv, RecordTyped
<1> HIDE DEF add
<1>14. fixedIdx' \in Seq(OrgCols)
  <2> HIDE DEF OrgCols
  <2> QED BY <1>12, <1>13, ConcatProperties
<1>15. RangeOf(fixedIdx') = RangeOf(fixedIdx) \cup {colRed2org[j] : j \in p.fixed}
  <2>1. Range(fixedIdx \o add) = Range(fixedIdx) \cup Range(add)
    <3> HIDE DEF OrgCols
    <3> QED BY <1>12, <1>13, RangeConcatenation
  <2>2. RangeOf(fixedIdx') = RangeOf(fixedIdx) \cup RangeOf(add)
    BY <1>13, <2>1 DEF RangeOf, Range
  <2> QED BY <1>12, <2>2 DEF F
<1>16. FixedLeft'
  <2>1. p.keepCol \cap p.fixed = {}
    BY StepCases DEF TapeFacts, PayloadFacts
  <2>2. {colRed2org[j] : j \in p.keepCol} \cap {colRed2org[j] : j \in p.fixed} = {}
    <3>1. \A i, j \in 1..w : colRed2org[i] = colRed2org[j] => i = j
      BY MapFacts
    <3> QED BY <1>2, <2>1, <3>1
  <2>3. {colRed2org[j] : j \in p.keepCol} \subseteq RangeOf(colRed2org)
    <3>1. DOMAIN colRed2org = 1..w
      BY <1>1
    <3> QED BY <1>2, <3>1 DEF RangeOf
  <2>4. RangeOf(colRed2org) \cap RangeOf(fixedIdx) = {}
    BY DEF RecordInv, FixedLeft
  <2> QED BY <1>10, <1>15, <2>2, <2>3, <2>4 DEF FixedLeft
<1> QED BY <1>7, <1>9, <1>10, <1>14, <1>15, <1>16

\* What a plan of tape records adds.
LEMMA TapeStepAdds ==
  ASSUME RecordInv, NEW p, TapeFacts(p, Len(lpRows), Len(lpCols)), TapeStep(p)
  PROVE  LET k == Len(p.records)
         IN /\ k \in Nat /\ Len(tape') = Len(tape) + k
            /\ UNCHANGED <<payloads, timeline>>
            /\ tape' \in Seq(Records)
            /\ Chronological(timeline, Len(tape'))
            /\ \A q \in (Len(tape) + 1)..Len(tape') : tape'[q].rows \subseteq RangeOf(lpRows)
            /\ \A i \in 1..k : p.records[i].unit \in LocalUnits(Len(lpCols))
            /\ \A q \in 1..(Len(tape) + Len(timeline)) :
                 LogOf(tape', timeline, payloads)[q] = LogOf(tape, timeline, payloads)[q]
            /\ \A i \in 1..k :
                 LogOf(tape', timeline, payloads)[Len(tape) + Len(timeline) + i]
                   = << {RenameUnit(colRed2org, p.records[i].unit)} >>
<1> DEFINE k == Len(p.records)
           e == Len(tape)
           n == Len(timeline)
           new == [i \in DOMAIN p.records |->
                     GlobalizeRecord(p.records[i], rowRed2org, colRed2org)]
<1>1. /\ new \in Seq(Records) /\ Len(new) = k /\ Len(new) \in Nat
      /\ \A i \in 1..Len(new) :
           /\ p.records[i].unit \in LocalUnits(Len(lpCols))
           /\ new[i].unit = RenameUnit(colRed2org, p.records[i].unit)
           /\ new[i].rows \subseteq RangeOf(lpRows)
  BY RenamedRecords
<1>2. /\ tape \in Seq(Records) /\ timeline \in Seq(Checkpoints) /\ Chronological(timeline, e)
  BY DEF RecordInv, RecordTyped
<1>3. tape' = tape \o new /\ UNCHANGED <<payloads, timeline>>
  BY DEF TapeStep
<1> HIDE DEF new
<1>4. /\ \A q \in 1..(e + n) :
           LogOf(tape \o new, timeline, payloads)[q] = LogOf(tape, timeline, payloads)[q]
      /\ \A i \in 1..Len(new) :
           LogOf(tape \o new, timeline, payloads)[e + n + i] = TapeEntry(new, i)
  <2>1. \A q \in 1..(Len(tape) + Len(timeline)) :
          LogOf(tape \o new, timeline, payloads)[q] = LogOf(tape, timeline, payloads)[q]
    BY SMTT(30), <1>1, <1>2, LogAfterTape
  <2>2. \A i \in 1..Len(new) :
          LogOf(tape \o new, timeline, payloads)[Len(tape) + Len(timeline) + i] = TapeEntry(new, i)
    BY <1>1, <1>2, LogAfterTape
  <2> QED BY <2>1, <2>2
<1>5. /\ tape' \in Seq(Records) /\ Len(tape') = e + Len(new)
      /\ \A q \in 1..(e + Len(new)) : tape'[q] = IF q <= e THEN tape[q] ELSE new[q - e]
  <2> DEFINE long == tape \o new
  <2>1. /\ long \in Seq(Records) /\ Len(long) = e + Len(new)
        /\ \A q \in 1..(e + Len(new)) : long[q] = IF q <= e THEN tape[q] ELSE new[q - e]
    BY <1>1, <1>2, ConcatProperties
  <2>2. tape' = long
    BY <1>3
  <2> HIDE DEF long, e
  <2> QED BY <2>1, <2>2
<1>6. e \in Nat
  BY <1>2, LenProperties
<1>7. Chronological(timeline, e + k)
  <2>1. \A i \in 1..Len(timeline) : timeline[i].position \in Nat
    <3>1. \A i \in 1..Len(timeline) : timeline[i] \in Checkpoints
      BY <1>2, ElementOfSeq
    <3> QED BY <3>1 DEF Checkpoints
  <2> HIDE DEF e, k
  <2>2. \A a \in Nat : a <= e => a <= e + k
    BY <1>1, <1>6
  <2> QED BY <1>2, <2>1, <2>2 DEF Chronological
<1>8. \A q \in (e + 1)..(e + Len(new)) : tape'[q].rows \subseteq RangeOf(lpRows)
  <2> SUFFICES ASSUME NEW q \in (e + 1)..(e + Len(new))
               PROVE  tape'[q].rows \subseteq RangeOf(lpRows)
    OBVIOUS
  <2> HIDE DEF e, k
  <2>1. q \in 1..(e + Len(new)) /\ ~(q <= e) /\ q - e \in 1..Len(new)
    BY <1>1, <1>6
  <2>2. tape'[q] = new[q - e] /\ new[q - e].rows \subseteq RangeOf(lpRows)
    BY <1>1, <1>5, <2>1
  <2> QED BY <2>2
<1>9. \A i \in 1..k : LogOf(tape', timeline, payloads)[e + n + i]
                        = << {RenameUnit(colRed2org, p.records[i].unit)} >>
  <2> HIDE DEF e, n, k
  <2> QED BY <1>1, <1>3, <1>4 DEF TapeEntry
<1>10. tape' \in Seq(Records)
  BY <1>5
<1>11. Len(tape') = e + k /\ k \in Nat
  BY <1>1, <1>5
<1> HIDE DEF e, n, k
<1> QED BY <1>1, <1>3, <1>4, <1>7, <1>8, <1>9, <1>10, <1>11 DEF e, n, k

\* What a plan with a payload adds.
LEMMA PayloadStepAdds ==
  ASSUME RecordInv, NEW p, PayloadFacts(p, Len(lpCols)), PayloadStep(p)
  PROVE  LET entry == GlobalizePayload(p.kernels, colRed2org)
         IN /\ tape' = tape
            /\ timeline' \in Seq(Checkpoints) /\ Len(timeline') = Len(timeline) + 1
            /\ payloads' \in [Kinds -> Seq(Seq(SUBSET Units))]
            /\ Chronological(timeline', Len(tape'))
            /\ Numbered'
            /\ \A q \in 1..(Len(tape) + Len(timeline)) :
                 LogOf(tape', timeline', payloads')[q] = LogOf(tape, timeline, payloads)[q]
            /\ LogOf(tape', timeline', payloads')[Len(tape) + Len(timeline) + 1] = entry
<1> DEFINE e == Len(tape)
           n == Len(timeline)
           kind == p.kind
           entry == GlobalizePayload(p.kernels, colRed2org)
           P == Seq(SUBSET Units)
           s == payloads[kind]
           l == Len(s)
           ck == [kind |-> kind, payload |-> l + 1, position |-> e]
<1>1. /\ tape \in Seq(Records) /\ timeline \in Seq(Checkpoints) /\ Chronological(timeline, e)
      /\ payloads \in [Kinds -> Seq(P)] /\ kind \in Kinds /\ entry \in P
  <2>1. entry \in P
    BY RenamedPayload
  <2> QED BY <2>1 DEF RecordInv, RecordTyped, PayloadFacts
<1>2. /\ tape' = tape /\ timeline' = Append(timeline, ck)
      /\ payloads' = [payloads EXCEPT ![kind] = Append(@, entry)]
  BY DEF PayloadStep
<1>3. /\ \A i \in 1..n : timeline[i].payload \in 1..Len(payloads[timeline[i].kind])
      /\ \A i, j \in 1..n : timeline[i].kind = timeline[j].kind
                              /\ timeline[i].payload = timeline[j].payload => i = j
      /\ \A kd \in Kinds : \A q \in 1..Len(payloads[kd]) :
           \E i \in 1..n : timeline[i].kind = kd /\ timeline[i].payload = q
  BY DEF RecordInv, Numbered
<1> HIDE DEF P, kind, entry
<1>4. /\ s \in Seq(P) /\ l \in Nat /\ e \in Nat /\ n \in Nat
      /\ \A i \in 1..n : timeline[i] \in Checkpoints
      /\ \A i \in 1..n : timeline[i].kind \in Kinds
  <2>1. s \in Seq(P) /\ l \in Nat /\ e \in Nat /\ n \in Nat
    BY <1>1, LenProperties
  <2>2. \A i \in 1..n : timeline[i] \in Checkpoints
    BY <1>1, ElementOfSeq
  <2> QED BY <2>1, <2>2 DEF Checkpoints
<1>5. /\ Append(s, entry) \in Seq(P) /\ Len(Append(s, entry)) = l + 1
      /\ \A i \in 1..l : Append(s, entry)[i] = s[i]
      /\ Append(s, entry)[l + 1] = entry
  BY <1>1, <1>4, AppendProperties
<1>6. /\ payloads' \in [Kinds -> Seq(P)]
      /\ payloads'[kind] = Append(s, entry)
      /\ \A kd \in Kinds : kd # kind => payloads'[kd] = payloads[kd]
  <2> DEFINE a == Append(s, entry)
  <2>1. payloads' = [payloads EXCEPT ![kind] = a]
    BY <1>2
  <2> HIDE DEF a, s
  <2> QED BY <1>1, <1>5, <2>1 DEF a
<1>7. ck \in Checkpoints /\ ck.position = e /\ ck.kind = kind /\ ck.payload = l + 1
  BY <1>1, <1>4 DEF Checkpoints
<1> HIDE DEF e, n, s, l, ck
<1>8. ASSUME NEW i \in 1..n
      PROVE  payloads'[timeline[i].kind][timeline[i].payload]
               = payloads[timeline[i].kind][timeline[i].payload]
  <2>1. timeline[i].kind \in Kinds /\ timeline[i].payload \in 1..Len(payloads[timeline[i].kind])
    BY <1>3, <1>4
  <2>2. CASE timeline[i].kind = kind
    BY <1>5, <1>6, <2>1, <2>2 DEF s, l
  <2>3. CASE timeline[i].kind # kind
    BY <1>6, <2>1, <2>3
  <2> QED BY <2>2, <2>3
<1>9. /\ \A q \in 1..(e + n) :
           LogOf(tape, timeline', payloads')[q] = LogOf(tape, timeline, payloads)[q]
      /\ LogOf(tape, timeline', payloads')[e + n + 1] = payloads'[ck.kind][ck.payload]
      /\ Chronological(timeline', e)
  <2> DEFINE pl2 == payloads'
             long == timeline'
  <2>1. \A i \in 1..n : PayloadEntryOf(pl2, timeline[i]) = PayloadEntryOf(payloads, timeline[i])
    BY <1>8 DEF PayloadEntryOf
  <2>2. /\ ck.position = Len(tape) /\ Chronological(timeline, Len(tape))
        /\ Appended(timeline, ck, long) /\ ck \in Checkpoints
        /\ tape \in Seq(Records) /\ timeline \in Seq(Checkpoints)
    BY <1>1, <1>2, <1>7, AppendProperties DEF e, Appended
  <2> HIDE DEF pl2, long
  <2>3. \A q \in 1..(Len(tape) + Len(timeline)) :
          LogOf(tape, long, pl2)[q] = LogOf(tape, timeline, payloads)[q]
    BY <2>1, <2>2, PayloadKeepsLog DEF n
  <2>4. LogOf(tape, long, pl2)[Len(tape) + Len(timeline) + 1]
          = PayloadEntryOf(pl2, ck)
    BY <2>2, PayloadAppends
  <2>5. Chronological(long, Len(tape))
    BY <2>2, PayloadChronological
  <2> QED BY <2>3, <2>4, <2>5 DEF e, n, pl2, long, PayloadEntryOf
<1>10. /\ timeline' \in Seq(Checkpoints) /\ Len(timeline') = n + 1
       /\ \A i \in 1..n : timeline'[i] = timeline[i]
       /\ timeline'[n + 1] = ck
  BY <1>1, <1>2, <1>7, AppendProperties DEF n
<1>11. payloads'[ck.kind][ck.payload] = entry
  BY <1>5, <1>6, <1>7
<1>12. Len(payloads'[kind]) = l + 1 /\ \A kd \in Kinds : kd # kind => payloads'[kd] = payloads[kd]
  BY <1>5, <1>6
<1>13. \A i \in 1..(n + 1) : i \in 1..n \/ i = n + 1
  BY <1>4
<1>14. \A i \in 1..n : timeline[i].kind = kind => timeline[i].payload \in 1..l
  BY <1>3 DEF s, l
<1>15. \A i \in 1..(n + 1) : timeline'[i].payload \in 1..Len(payloads'[timeline'[i].kind])
  <2> SUFFICES ASSUME NEW i \in 1..(n + 1)
               PROVE  timeline'[i].payload \in 1..Len(payloads'[timeline'[i].kind])
    OBVIOUS
  <2>1. CASE i = n + 1
    BY <1>4, <1>7, <1>10, <1>12, <2>1
  <2>2. CASE i \in 1..n /\ timeline[i].kind = kind
    BY <1>4, <1>10, <1>12, <1>14, <2>2
  <2>3. CASE i \in 1..n /\ timeline[i].kind # kind
    BY SMTT(30), <1>3, <1>4, <1>10, <1>12, <2>3
  <2> QED BY <1>13, <2>1, <2>2, <2>3
<1>16. ASSUME NEW i \in 1..(n + 1), NEW j \in 1..(n + 1),
              timeline'[i].kind = timeline'[j].kind, timeline'[i].payload = timeline'[j].payload
       PROVE  i = j
  <2>1. \A h \in 1..n : ~(timeline[h].kind = kind /\ timeline[h].payload = l + 1)
    BY <1>4, <1>14
  <2>2. CASE i \in 1..n /\ j \in 1..n
    BY <1>3, <1>10, <1>16, <2>2
  <2>3. CASE i \in 1..n /\ j = n + 1
    BY <1>7, <1>10, <1>16, <2>1, <2>3
  <2>4. CASE i = n + 1 /\ j \in 1..n
    BY <1>7, <1>10, <1>16, <2>1, <2>4
  <2> QED BY <1>13, <2>2, <2>3, <2>4
<1>17. ASSUME NEW kd \in Kinds, NEW q \in 1..Len(payloads'[kd])
       PROVE  \E i \in 1..(n + 1) : timeline'[i].kind = kd /\ timeline'[i].payload = q
  <2>1. n + 1 \in 1..(n + 1) /\ \A i \in 1..n : i \in 1..(n + 1)
    BY <1>4
  <2>2. CASE q \in 1..Len(payloads[kd])
    <3>1. PICK i \in 1..n : timeline[i].kind = kd /\ timeline[i].payload = q
      BY <1>3, <2>2
    <3> QED BY <1>10, <2>1, <3>1
  <2>3. CASE q \notin 1..Len(payloads[kd])
    <3>1. kd = kind
      BY <1>12, <2>3
    <3>2. q \in 1..(l + 1) /\ q \notin 1..l
      BY <1>12, <2>3, <3>1 DEF s, l
    <3>3. q = l + 1
      BY <1>4, <3>2
    <3> QED BY <1>7, <1>10, <2>1, <3>1, <3>3
  <2> QED BY <2>2, <2>3
<1>18. Numbered'
  BY <1>10, <1>15, <1>16, <1>17 DEF Numbered
<1> QED BY <1>2, <1>6, <1>9, <1>10, <1>11, <1>18 DEF e, n, P, entry

\* A commit keeps the invariant.
LEMMA RecordInvStep ==
  ASSUME RecordInv, NEW p \in Plans(Len(lpRows), Len(lpCols)), ApplyPlan(p)
  PROVE  RecordInv'
<1>1. CASE TapeFacts(p, Len(lpRows), Len(lpCols)) /\ TapeStep(p)
  <2>1. /\ UNCHANGED <<payloads, timeline>> /\ tape' \in Seq(Records)
        /\ Chronological(timeline, Len(tape'))
    BY <1>1, TapeStepAdds
  <2>2. RecordTyped'
    BY <2>1, MapsStep DEF RecordInv, RecordTyped
  <2>3. Numbered'
    BY SMTT(30), <2>1 DEF RecordInv, Numbered
  <2>4. Chronological(timeline', Len(tape'))
    BY <2>1
  <2> QED BY <2>2, <2>3, <2>4, MapsStep DEF RecordInv
<1>2. CASE PayloadFacts(p, Len(lpCols)) /\ PayloadStep(p)
  <2>1. /\ tape' = tape /\ timeline' \in Seq(Checkpoints)
        /\ payloads' \in [Kinds -> Seq(Seq(SUBSET Units))]
        /\ Chronological(timeline', Len(tape')) /\ Numbered'
    BY <1>2, PayloadStepAdds
  <2>2. RecordTyped'
    BY <2>1, MapsStep DEF RecordInv, RecordTyped
  <2> QED BY <2>1, <2>2, MapsStep DEF RecordInv
<1> QED BY <1>1, <1>2, StepCases

\* The invariant reads no other variable.
LEMMA RecordInvStutter ==
  ASSUME RecordInv, UNCHANGED vars
  PROVE  RecordInv'
BY DEF vars, lpVars, recordVars, RecordInv, MapsInv, MapsMatchLp, Increasing, RecordTyped,
       Chronological, Numbered, FixedLeft

\* After any number of commits the record names original columns only, its
\* checkpoints are in order and inside the tape, each payload has exactly one, and
\* what it recorded a value for is no longer live.
THEOREM RecordInvHolds == Spec => []RecordInv
<1>1. Init => RecordInv
  BY RecordInvInit
<1>2. RecordInv /\ [Next]_vars => RecordInv'
  BY RecordInvStep, RecordInvStutter DEF Next
<1> QED BY <1>1, <1>2, PTL DEF Spec

-----------------------------------------------------------------------------
(* What the validator of postsolve checks.                                 *)

LEMMA InvAccepted ==
  ASSUME RecordInv
  PROVE  RecordAccepted
<1>1. /\ timeline \in Seq(Checkpoints) /\ Len(timeline) \in Nat
      /\ payloads \in [Kinds -> Seq(Seq(SUBSET Units))]
  BY LenProperties DEF RecordInv, RecordTyped
<1>2. ASSUME NEW i \in 1..Len(timeline)
      PROVE  /\ timeline[i].position <= Len(tape)
             /\ i > 1 => timeline[i - 1].position <= timeline[i].position
             /\ timeline[i].payload \in 1..Len(payloads[timeline[i].kind])
  <2>1. timeline[i].position <= Len(tape)
    BY DEF RecordInv, Chronological
  <2>2. timeline[i].payload \in 1..Len(payloads[timeline[i].kind])
    BY DEF RecordInv, Numbered
  <2>3. ASSUME i > 1 PROVE timeline[i - 1].position <= timeline[i].position
    <3>1. i - 1 \in 1..Len(timeline) /\ i - 1 < i
      BY <1>1, <2>3
    <3> QED BY <3>1 DEF RecordInv, Chronological
  <2> QED BY <2>1, <2>2, <2>3
<1>3. ASSUME NEW kind \in Kinds, NEW q \in 1..Len(payloads[kind])
      PROVE  Cardinality({i \in 1..Len(timeline) :
                            timeline[i].kind = kind /\ timeline[i].payload = q}) = 1
  <2> DEFINE S == {i \in 1..Len(timeline) : timeline[i].kind = kind /\ timeline[i].payload = q}
  <2>1. PICK i \in 1..Len(timeline) : timeline[i].kind = kind /\ timeline[i].payload = q
    BY DEF RecordInv, Numbered
  <2>2. \A j \in S : j = i
    BY <2>1 DEF RecordInv, Numbered
  <2>3. S = {i}
    BY <2>1, <2>2
  <2> HIDE DEF S
  <2>4. Cardinality(S) = 1
    BY <2>3, FS_Singleton
  <2> QED BY <2>4 DEF S
<1>4. ASSUME NEW kind \in Kinds, NEW q \in 1..Len(payloads[kind]),
             NEW u \in UnitsOf(payloads[kind][q])
      PROVE  Touches(u) \subseteq OrgCols
  <2> DEFINE P == Seq(SUBSET Units)
             s == payloads[kind]
             entry == s[q]
  <2> HIDE DEF P
  <2>1. s \in Seq(P) /\ q \in 1..Len(s)
    BY <1>1, <1>4 DEF P
  <2> HIDE DEF s
  <2>2. entry \in P
    BY <2>1, ElementOfSeq
  <2>3. u \in UnitsOf(entry)
    BY <1>4 DEF s
  <2> HIDE DEF entry
  <2>4. entry \in Seq(SUBSET Units)
    BY <2>2 DEF P
  <2>5. u \in Units
    <3>1. PICK i \in DOMAIN entry : u \in entry[i]
      BY <2>3 DEF UnitsOf, RangeOf
    <3>2. entry[i] \in SUBSET Units
      <4> HIDE DEF Units
      <4> QED BY <2>4, <3>1, LenProperties, ElementOfSeq
    <3> QED BY <3>1, <3>2
  <2>6. \A a \in u : a.to \in OrgCols /\ a.from \subseteq OrgCols
    BY <2>5 DEF Units
  <2> QED BY <2>6 DEF Touches, Writes, Reads
<1> QED BY <1>2, <1>3, <1>4 DEF RecordAccepted, ValidTimeline

\* validate_primal_recovery_timeline accepts the record: its checkpoints are
\* chronological and inside the tape, every payload has exactly one, and every
\* payload names columns of the original LP, whatever plans were committed.
THEOREM RecordIsAccepted == Spec => []RecordAccepted
<1>1. RecordInv => RecordAccepted
  BY InvAccepted
<1> QED BY <1>1, RecordInvHolds, PTL

\* The rows of a new record are rows of the LP it was made for, under their
\* original index: append_globalized_postsolve_tape renames before the maps
\* are replaced.
THEOREM RecordRowsRenamed == Spec => RowsRenamed
<1> DEFINE Renamed == \A q \in (Len(tape) + 1)..Len(tape') : tape'[q].rows \subseteq RangeOf(lpRows)
<1>1. ASSUME RecordInv, [Next]_vars PROVE [Renamed]_vars
  <2>1. CASE UNCHANGED vars
    BY <2>1
  <2>2. CASE Next
    <3>1. PICK p \in Plans(Len(lpRows), Len(lpCols)) : ApplyPlan(p)
      BY <2>2 DEF Next
    <3>2. CASE TapeFacts(p, Len(lpRows), Len(lpCols)) /\ TapeStep(p)
      BY <1>1, <3>2, TapeStepAdds
    <3>3. CASE PayloadFacts(p, Len(lpCols)) /\ PayloadStep(p)
      <4>1. tape' = tape /\ Len(tape) \in Nat
        BY <1>1, <3>3, LenProperties DEF PayloadStep, RecordInv, RecordTyped
      <4> QED BY <4>1
    <3> QED BY <1>1, <3>1, <3>2, <3>3, StepCases
  <2> QED BY <1>1, <2>1, <2>2
<1> HIDE DEF Renamed
<1>2. RecordInv /\ [Next]_vars => [Renamed]_vars
  BY <1>1
<1>3. Spec => [][Renamed]_vars
  BY <1>2, RecordInvHolds, PTL DEF Spec
<1> QED BY <1>3 DEF RowsRenamed, Renamed

-----------------------------------------------------------------------------
(* The record implements UndoLog.                                          *)

Log == LogOf(tape, timeline, payloads)

LEMMA LogTyped ==
  ASSUME RecordInv
  PROVE  /\ Log \in Seq(Undo!Entries) /\ Len(Log) = Len(tape) + Len(timeline)
         /\ Len(tape) \in Nat /\ Len(timeline) \in Nat
<1> DEFINE e == Len(tape)
           n == Len(timeline)
           P == Seq(SUBSET Units)
<1>1. /\ tape \in Seq(Records) /\ timeline \in Seq(Checkpoints) /\ Chronological(timeline, e)
      /\ payloads \in [Kinds -> Seq(P)]
  BY DEF RecordInv, RecordTyped
<1>2. \A i \in 1..n : /\ timeline[i].kind \in Kinds
                      /\ timeline[i].payload \in 1..Len(payloads[timeline[i].kind])
  <2>1. \A i \in 1..n : timeline[i] \in Checkpoints
    BY <1>1, ElementOfSeq
  <2> QED BY <2>1 DEF Checkpoints, RecordInv, Numbered
<1>3. e \in Nat /\ n \in Nat /\ DOMAIN timeline = 1..n
  BY <1>1, LenProperties
<1>4. Undo!Entries = P
  BY DEF Undo!Entries, Units
<1> HIDE DEF e, n
<1>5. ASSUME NEW q \in 1..(e + n) PROVE Log[q] \in P
  <2>1. q \in 1..(Len(tape) + Len(timeline))
    BY DEF e, n
  <2>2. /\ \A i, j \in At(timeline, q) : i = j
        /\ At(timeline, q) = {} => q - Cardinality(Before(timeline, q)) \in 1..e
    BY <1>1, <1>3, LogIndex DEF n
  <2>3. CASE At(timeline, q) # {}
    <3>1. PICK i \in At(timeline, q) : TRUE
      BY <2>3
    <3>2. i \in 1..n
      BY <1>3 DEF At
    <3>3. Log[q] = PayloadEntryOf(payloads, timeline[i])
      BY <2>1, <2>2, <3>1, LogAtCheckpoint DEF Log
    <3>4. payloads[timeline[i].kind] \in Seq(P)
      <4> HIDE DEF P
      <4> QED BY <1>1, <1>2, <3>2
    <3>5. PayloadEntryOf(payloads, timeline[i]) \in P
      <4> DEFINE s == payloads[timeline[i].kind]
                 r == timeline[i].payload
      <4>1. s \in Seq(P) /\ r \in 1..Len(s)
        BY <1>2, <3>2, <3>4
      <4> HIDE DEF s, r, P
      <4>2. s[r] \in P
        BY <4>1, ElementOfSeq
      <4> QED BY <4>2 DEF s, r, PayloadEntryOf
    <3> QED BY <3>3, <3>5
  <2>4. CASE At(timeline, q) = {}
    <3> DEFINE r == q - Cardinality(Before(timeline, q))
    <3>1. Log[q] = TapeEntry(tape, r) /\ r \in 1..Len(tape)
      BY <2>1, <2>2, <2>4, LogAtRecord DEF Log, e
    <3> HIDE DEF r
    <3>2. tape[r] \in Records
      BY <1>1, <3>1, ElementOfSeq
    <3>3. {tape[r].unit} \in SUBSET Units
      BY <3>2 DEF Records
    <3>4. TapeEntry(tape, r) \in P
      <4> HIDE DEF Units
      <4> QED BY <3>3 DEF TapeEntry
    <3> QED BY <3>1, <3>4
  <2> QED BY <2>3, <2>4
<1>6. Log = [q \in 1..(e + n) |-> Log[q]]
  BY DEF Log, LogOf, e, n
<1>7. e + n \in Nat
  BY <1>3
<1> HIDE DEF P
<1>8. Log \in [1..(e + n) -> P]
  BY <1>5, <1>6
<1>9. Log \in Seq(P) /\ Len(Log) = e + n
  <2> DEFINE k == e + n
  <2> HIDE DEF k
  <2>1. Log \in Seq(P)
    BY <1>7, <1>8, SeqDef DEF k
  <2>2. DOMAIN Log = 1..k /\ k \in Nat
    BY <1>7, <1>8 DEF k
  <2>3. Len(Log) = k
    BY <2>1, <2>2, LenProperties
  <2> QED BY <2>1, <2>3 DEF k
<1> QED BY <1>3, <1>4, <1>9 DEF e, n

\* What a commit appends, one entry for each unit set of "news": the entries
\* have the columns of those sets, under the maps before the plan.
LEMMA CommitSuffices ==
  ASSUME RecordInv, NEW p \in Plans(Len(lpRows), Len(lpCols)), ApplyPlan(p), RecordInv',
         NEW news, NEW k \in Nat,
         Len(Log') = Len(Log) + k,
         \A q \in 1..Len(Log) : Log'[q] = Log[q],
         news \in [1..k -> SUBSET LocalUnits(Len(lpCols))],
         \A i \in 1..k : UnitsOf(Log'[Len(Log) + i]) = {RenameUnit(colRed2org, u) : u \in news[i]},
         \A i, j \in 1..k : i # j => Eliminated(news[i]) \cap Eliminated(news[j]) = {},
         p.keepCol = (1..Len(lpCols)) \ (p.fixed \cup UNION {Eliminated(news[i]) : i \in 1..k})
  PROVE  Undo!Commit
<1> DEFINE w == Len(lpCols)
           red == colRed2org
           L == Len(Log)
           elim(i) == Eliminated(news[i])
           All == {red[j] : j \in 1..w}
<1>1. /\ w \in Nat /\ red \in [1..w -> OrgCols]
      /\ \A i, j \in 1..w : red[i] = red[j] => i = j
      /\ RangeOf(red) = All
  BY MapFacts
<1>2. L \in Nat /\ Log' \in Seq(Undo!Entries) /\ Len(Log') = L + k
  <2>1. (RecordInv => Log \in Seq(Undo!Entries))'
    BY LogTyped, PTL
  <2>2. L \in Nat
    BY LogTyped, LenProperties
  <2> QED BY <2>1, <2>2 DEF Undo!Entries
<1>3. p.keepCol \subseteq 1..w /\ p.fixed \subseteq 1..w
  BY StepCases DEF TapeFacts, PayloadFacts
<1>4. /\ RangeOf(colRed2org') = {red[j] : j \in p.keepCol}
      /\ RangeOf(fixedIdx') = RangeOf(fixedIdx) \cup {red[j] : j \in p.fixed}
  BY MapsStep
<1>5. RangeOf(red) \cap RangeOf(fixedIdx) = {}
  BY DEF RecordInv, FixedLeft
<1>6. p.keepCol = (1..w) \ (p.fixed \cup UNION {elim(i) : i \in 1..k})
  OBVIOUS
<1>7. ASSUME NEW i \in 1..k
      PROVE  /\ Undo!Written(Log'[L + i]) \cup Undo!Read(Log'[L + i]) \subseteq All
             /\ Undo!Eliminates(Log'[L + i]) = {red[j] : j \in elim(i)}
             /\ elim(i) \subseteq 1..w
  <2> DEFINE entry == Log'[L + i]
             U == news[i]
  <2>1. U \in SUBSET LocalUnits(w) /\ Renames(red, U, entry)
    BY DEF Renames
  <2> HIDE DEF entry, U, w, red
  <2>4. /\ w \in Nat /\ red \in [1..w -> OrgCols] /\ OneToOne(red, w)
    BY <1>1 DEF OneToOne
  <2>5. Undo!Written(entry) \cup Undo!Read(entry) \subseteq Image(red, 1..w)
    BY <2>1, <2>4, EntryColumns
  <2>6. Undo!Eliminates(entry) = Image(red, Eliminated(U))
    BY <2>1, <2>4, EntryColumns
  <2>2. /\ Undo!Written(entry) \cup Undo!Read(entry) \subseteq All
        /\ Undo!Eliminates(entry) = {red[j] : j \in Eliminated(U)}
    BY <2>5, <2>6 DEF Image
  <2>3. Eliminated(U) \subseteq 1..w
    <3>1. \A u \in U : Writes(u) \subseteq 1..w
      BY <2>1 DEF LocalUnits, Writes
    <3> QED BY <3>1 DEF Eliminated
  <2> QED BY <2>2, <2>3 DEF entry, U
<1>8. \A q \in (L + 1)..(L + k) : q - L \in 1..k /\ L + (q - L) = q
  BY <1>2
<1>9. \A i \in 1..k : L + i \in (L + 1)..(L + k)
  BY <1>2
<1>10. Undo!Fresh = (L + 1)..(L + k)
  BY <1>2 DEF Undo!Fresh, Log
<1> DEFINE new(q) == Log'[q]
<1>11. \A q \in (L + 1)..(L + k) :
         /\ Undo!Written(new(q)) \cup Undo!Read(new(q)) \subseteq All
         /\ Undo!Eliminates(new(q)) = {red[j] : j \in elim(q - L)}
         /\ elim(q - L) \subseteq 1..w
  <2> HIDE DEF L, elim, All, red
  <2> QED BY <1>7, <1>8
<1>12. \A i, j \in 1..k : i # j => elim(i) \cap elim(j) = {}
  OBVIOUS
<1>13. \A q \in 1..L : Log'[q] = Log[q]
  OBVIOUS
<1> DEFINE F == p.fixed
           K == p.keepCol
           was == RangeOf(fixedIdx)
<1> HIDE DEF red, L, elim, w, new, F, K, was
<1>14. {red[j] : j \in K} \subseteq All
  BY <1>3 DEF K
<1>15. ({red[j] : j \in F} \cup was) \ was = {red[j] : j \in F}
  <2>1. \A j \in F : red[j] \in All
    BY <1>3 DEF F
  <2> QED BY <1>1, <1>5, <2>1 DEF was
<1>16. {red[j] : j \in F} \subseteq All \ {red[j] : j \in K}
  BY <1>1, <1>3, <1>6 DEF F, K
<1>17. \A q \in (L + 1)..(L + k) : Undo!Eliminates(new(q)) \cap {red[j] : j \in K} = {}
  <2> SUFFICES ASSUME NEW q \in (L + 1)..(L + k)
               PROVE  Undo!Eliminates(new(q)) \cap {red[j] : j \in K} = {}
    OBVIOUS
  <2>1. elim(q - L) \cap K = {} /\ elim(q - L) \subseteq 1..w /\ K \subseteq 1..w
    BY <1>3, <1>6, <1>8, <1>11 DEF K
  <2> QED BY <1>1, <1>11, <2>1
<1>18. \A q, r \in (L + 1)..(L + k) :
         q # r => Undo!Eliminates(new(q)) \cap Undo!Eliminates(new(r)) = {}
  <2> SUFFICES ASSUME NEW q \in (L + 1)..(L + k), NEW r \in (L + 1)..(L + k), q # r
               PROVE  Undo!Eliminates(new(q)) \cap Undo!Eliminates(new(r)) = {}
    OBVIOUS
  <2>1. q - L # r - L
    BY <1>2
  <2>2. /\ elim(q - L) \cap elim(r - L) = {}
        /\ elim(q - L) \subseteq 1..w /\ elim(r - L) \subseteq 1..w
    BY <1>8, <1>11, <1>12, <2>1
  <2> QED BY <1>1, <1>11, <2>2
<1>19. All \ {red[j] : j \in K}
         \subseteq {red[j] : j \in F} \cup UNION {Undo!Eliminates(new(q)) : q \in (L + 1)..(L + k)}
  <2> SUFFICES ASSUME NEW j \in 1..w, j \notin K, j \notin F
               PROVE  \E q \in (L + 1)..(L + k) : red[j] \in Undo!Eliminates(new(q))
    OBVIOUS
  <2>1. PICK i \in 1..k : j \in elim(i)
    BY <1>6 DEF F, K
  <2>2. L + i \in (L + 1)..(L + k) /\ (L + i) - L = i
    BY <1>2, <1>9
  <2>3. Undo!Eliminates(new(L + i)) = {red[h] : h \in elim(i)}
    BY <1>11, <2>2
  <2> QED BY <2>1, <2>2, <2>3
<1>20. Undo!IsPrefixOf(Log, Log')
  BY <1>2, <1>13 DEF Undo!IsPrefixOf, L
<1>21. /\ RangeOf(colRed2org') = {red[j] : j \in K}
       /\ RangeOf(fixedIdx') = was \cup {red[j] : j \in F}
       /\ RangeOf(colRed2org) = All
  BY <1>1, <1>4 DEF K, F, was, red
<1>22. RangeOf(fixedIdx') \ was = {red[j] : j \in F} /\ was \subseteq RangeOf(fixedIdx')
  BY <1>15, <1>21
<1> HIDE DEF All
<1> QED BY <1>2, <1>10, <1>11, <1>14, <1>16, <1>17, <1>18, <1>19, <1>20, <1>21, <1>22
        DEF Undo!Commit, Log, new, was

\* A plan of tape records commits one entry for each record.
LEMMA TapeCommits ==
  ASSUME RecordInv, NEW p \in Plans(Len(lpRows), Len(lpCols)), ApplyPlan(p), RecordInv',
         TapeFacts(p, Len(lpRows), Len(lpCols)), TapeStep(p)
  PROVE  Undo!Commit
<1> DEFINE w == Len(lpCols)
           r == p.records
           k == Len(r)
           news == [i \in 1..k |-> {r[i].unit}]
<1>1. /\ k \in Nat /\ Len(tape') = Len(tape) + k
      /\ UNCHANGED <<payloads, timeline>>
      /\ \A i \in 1..k : r[i].unit \in LocalUnits(w)
      /\ \A q \in 1..(Len(tape) + Len(timeline)) :
           LogOf(tape', timeline, payloads)[q] = LogOf(tape, timeline, payloads)[q]
      /\ \A i \in 1..k : LogOf(tape', timeline, payloads)[Len(tape) + Len(timeline) + i]
                           = << {RenameUnit(colRed2org, r[i].unit)} >>
  BY TapeStepAdds
<1>2. /\ Len(Log) = Len(tape) + Len(timeline) /\ Len(tape) \in Nat /\ Len(timeline) \in Nat
      /\ Len(Log') = Len(tape') + Len(timeline')
  <2>1. (RecordInv => Len(Log) = Len(tape) + Len(timeline))'
    BY LogTyped, PTL
  <2> QED BY <2>1, LogTyped
<1>3. Log' = LogOf(tape', timeline, payloads)
  BY <1>1 DEF Log
<1> HIDE DEF k
<1>4. Len(Log') = Len(Log) + k
  BY <1>1, <1>2
<1>5. /\ \A q \in 1..Len(Log) : Log'[q] = Log[q]
      /\ \A i \in 1..k : Log'[Len(Log) + i] = << {RenameUnit(colRed2org, r[i].unit)} >>
  BY <1>1, <1>2, <1>3 DEF Log
<1>6. news \in [1..k -> SUBSET LocalUnits(w)]
  <2> HIDE DEF r, w, LocalUnits
  <2> QED BY <1>1
<1> DEFINE unit(i) == r[i].unit
<1> HIDE DEF unit
<1>7. \A i \in 1..k : news[i] = {unit(i)}
  BY DEF unit
<1>8. \A i \in 1..k :
        UnitsOf(Log'[Len(Log) + i]) = {RenameUnit(colRed2org, u) : u \in news[i]}
  <2> SUFFICES ASSUME NEW i \in 1..k
               PROVE  UnitsOf(Log'[Len(Log) + i]) = {RenameUnit(colRed2org, u) : u \in news[i]}
    OBVIOUS
  <2>1. Log'[Len(Log) + i] = << {RenameUnit(colRed2org, unit(i))} >>
    BY <1>5 DEF unit
  <2>2. UnitsOf(Log'[Len(Log) + i]) = {RenameUnit(colRed2org, unit(i))}
    BY <2>1, RecordEntry
  <2> HIDE DEF news
  <2>3. {RenameUnit(colRed2org, u) : u \in news[i]} = {RenameUnit(colRed2org, unit(i))}
    BY <1>7
  <2> QED BY <2>2, <2>3
<1>9. DOMAIN r = 1..k
  <2>1. r \in Seq(LocalRecords(Len(lpRows), w))
    BY DEF TapeFacts
  <2> HIDE DEF r
  <2> QED BY <2>1, LenProperties DEF k
<1>10. \A i, j \in 1..k : i < j => Eliminated({unit(i)}) \cap Writes(unit(j)) = {}
  BY <1>9 DEF TapeFacts, WellOrdered, unit
<1>11. \A j \in 1..k : Eliminated({unit(j)}) \subseteq Writes(unit(j))
  BY DEF Eliminated
<1> HIDE DEF news
<1>12. \A i, j \in 1..k : i # j => Eliminated(news[i]) \cap Eliminated(news[j]) = {}
  <2> SUFFICES ASSUME NEW i \in 1..k, NEW j \in 1..k, i # j
               PROVE  Eliminated({unit(i)}) \cap Eliminated({unit(j)}) = {}
    BY <1>7
  <2>1. CASE i < j
    BY <1>10, <1>11, <2>1
  <2>2. CASE j < i
    BY <1>10, <1>11, <2>2
  <2>3. i < j \/ j < i
    OBVIOUS
  <2> QED BY <2>1, <2>2, <2>3
<1>13. TapeEliminated(r) = UNION {Eliminated(news[i]) : i \in 1..k}
  <2>1. TapeEliminated(r) = UNION {Eliminated({unit(i)}) : i \in 1..k}
    BY <1>9 DEF TapeEliminated, unit
  <2>2. {Eliminated({unit(i)}) : i \in 1..k} = {Eliminated(news[i]) : i \in 1..k}
    BY <1>7
  <2> QED BY <2>1, <2>2
<1>14. p.keepCol = (1..w) \ (p.fixed \cup UNION {Eliminated(news[i]) : i \in 1..k})
  BY <1>13 DEF TapeFacts
<1>15. k \in Nat
  BY <1>1 DEF k
<1> QED BY <1>4, <1>5, <1>6, <1>8, <1>12, <1>14, <1>15, CommitSuffices

\* A plan with a payload commits one entry.
LEMMA PayloadCommits ==
  ASSUME RecordInv, NEW p \in Plans(Len(lpRows), Len(lpCols)), ApplyPlan(p), RecordInv',
         PayloadFacts(p, Len(lpCols)), PayloadStep(p)
  PROVE  Undo!Commit
<1> DEFINE w == Len(lpCols)
           units == UnitsOf(p.kernels)
           entry == GlobalizePayload(p.kernels, colRed2org)
           news == [i \in 1..1 |-> units]
<1>1. /\ tape' = tape /\ Len(timeline') = Len(timeline) + 1
      /\ \A q \in 1..(Len(tape) + Len(timeline)) : Log'[q] = Log[q]
      /\ Log'[Len(tape) + Len(timeline) + 1] = entry
  BY PayloadStepAdds DEF Log
<1>2. /\ Len(Log) = Len(tape) + Len(timeline) /\ Len(tape) \in Nat /\ Len(timeline) \in Nat
      /\ Len(Log') = Len(tape') + Len(timeline')
  <2>1. (RecordInv => Len(Log) = Len(tape) + Len(timeline))'
    BY LogTyped, PTL
  <2> QED BY <2>1, LogTyped
<1>3. /\ units \in SUBSET LocalUnits(w)
      /\ UnitsOf(entry) = {RenameUnit(colRed2org, u) : u \in units}
  BY RenamedPayload
<1>4. p.keepCol = (1..w) \ (p.fixed \cup Eliminated(units))
  BY DEF PayloadFacts
<1> HIDE DEF units, entry
<1>5. Len(Log') = Len(Log) + 1 /\ \A q \in 1..Len(Log) : Log'[q] = Log[q]
  BY <1>1, <1>2
<1>6. news \in [1..1 -> SUBSET LocalUnits(w)] /\ news[1] = units
  <2> HIDE DEF LocalUnits, w
  <2> QED BY <1>3
<1> HIDE DEF news
<1>7. \A i \in 1..1 : i = 1
  OBVIOUS
<1>8. UnitsOf(Log'[Len(Log) + 1]) = {RenameUnit(colRed2org, u) : u \in news[1]}
  BY <1>1, <1>2, <1>3, <1>6
<1>9. \A i \in 1..1 : UnitsOf(Log'[Len(Log) + i]) = {RenameUnit(colRed2org, u) : u \in news[i]}
  BY <1>7, <1>8
<1>10. \A i, j \in 1..1 : i # j => Eliminated(news[i]) \cap Eliminated(news[j]) = {}
  BY <1>7
<1>11. UNION {Eliminated(news[i]) : i \in 1..1} = Eliminated(units)
  BY <1>6, <1>7
<1>12. p.keepCol = (1..w) \ (p.fixed \cup UNION {Eliminated(news[i]) : i \in 1..1})
  BY <1>4, <1>11
<1> QED BY <1>5, <1>6, <1>9, <1>10, <1>12, CommitSuffices

\* The record implements UndoLog: whatever plans are committed, in whatever
\* local index space each of them speaks, its tape and its timeline together
\* are one chronological log whose entries speak of columns that were live
\* then, and every column that leaves is fixed or eliminated by one entry.
THEOREM RecordImplementsUndoLog == Spec => ImplementsUndoLog
<1>1. Init => Undo!Init
  <2> SUFFICES ASSUME Init PROVE Undo!Init
    OBVIOUS
  <2>1. RangeOf(colRed2org) = OrgCols
    BY RecordAssumption DEF Init, RangeOf, OrgCols
  <2>2. RangeOf(fixedIdx) = {}
    BY DEF Init, RangeOf
  <2>3. LogOf(tape, timeline, payloads) = << >>
    <3>1. Log \in Seq(Undo!Entries) /\ Len(Log) = Len(tape) + Len(timeline)
      BY RecordInvInit, LogTyped
    <3>2. Len(tape) = 0 /\ Len(timeline) = 0
      BY DEF Init
    <3>3. Len(Log) = 0
      BY <3>1, <3>2
    <3> QED BY <3>1, <3>3, EmptySeq DEF Log, Undo!Entries
  <2> QED BY <2>1, <2>2, <2>3 DEF Undo!Init
<1>2. RecordInv /\ RecordInv' /\ [Next]_vars => [Undo!Commit]_(Undo!vars)
  <2> SUFFICES ASSUME RecordInv, RecordInv', [Next]_vars
               PROVE  [Undo!Commit]_(Undo!vars)
    OBVIOUS
  <2>1. CASE Next
    <3>1. PICK p \in Plans(Len(lpRows), Len(lpCols)) : ApplyPlan(p)
      BY <2>1 DEF Next
    <3> QED BY <3>1, StepCases, TapeCommits, PayloadCommits
  <2>2. CASE UNCHANGED vars
    <3>1. UNCHANGED <<colRed2org, fixedIdx, tape, timeline, payloads>>
      BY <2>2 DEF vars, recordVars
    <3> QED BY <3>1 DEF Undo!vars
  <2> QED BY <2>1, <2>2
<1> QED BY <1>1, <1>2, RecordInvHolds, PTL DEF Spec, ImplementsUndoLog, Undo!Spec

-----------------------------------------------------------------------------
(* What any log of UndoLog promises, for the columns of the record.        *)

Live == RangeOf(colRed2org)
Stored == RangeOf(fixedIdx)
\* Accounted is inductive once the log is known to be a sequence.
IsLog == Log \in Seq(Undo!Entries)

\* An entry that was in the log before a commit is still there, unchanged;
\* what is new has a position of its own.
LEMMA CommitExtends ==
  ASSUME IsLog, Undo!Commit
  PROVE  /\ Len(Log) \in Nat /\ Len(Log') \in Nat /\ Len(Log) <= Len(Log')
         /\ 1..Len(Log') = (1..Len(Log)) \cup Undo!Fresh
         /\ \A q \in 1..Len(Log) : Log'[q] = Log[q]
BY DEF IsLog, Undo!Commit, Undo!IsPrefixOf, Undo!Fresh, Live, Stored, Log

\* One commit keeps the account balanced.
LEMMA CommitAccounted ==
  ASSUME IsLog, Undo!Accounted, Undo!Commit
  PROVE  Undo!Accounted'
<1> DEFINE Old == UNION {Undo!Eliminates(Log[q]) : q \in 1..Len(Log)}
           New == UNION {Undo!Eliminates(Log'[q]) : q \in Undo!Fresh}
           All == UNION {Undo!Eliminates(Log'[q]) : q \in 1..Len(Log')}
<1>1. All = Old \cup New
  BY CommitExtends
<1>2. \A q \in Undo!Fresh : Undo!Eliminates(Log'[q]) \subseteq Live
  BY DEF Undo!Commit, Undo!Eliminates, Live, Stored, Log
<1>3. OrgCols = Live' \cup Stored' \cup All
  <2>1. OrgCols = Live \cup Stored \cup Old
    BY DEF Undo!Accounted, Live, Stored, Log
  <2>2. Live \subseteq Live' \cup Stored' \cup New
    BY DEF Undo!Commit, Live, Stored, Log
  <2>3. Live' \subseteq Live /\ Stored \subseteq Stored' /\ Stored' \subseteq Live \cup Stored
    BY DEF Undo!Commit, Live, Stored, Log
  <2>4. New \subseteq Live
    BY <1>2
  <2> QED BY <1>1, <2>1, <2>2, <2>3, <2>4
<1>4. Live' \cap Stored' = {}
  BY DEF Undo!Commit, Undo!Accounted, Live, Stored, Log
<1>5. \A q \in 1..Len(Log') : Undo!Eliminates(Log'[q]) \cap Live' = {}
  <2> SUFFICES ASSUME NEW q \in 1..Len(Log')
               PROVE  Undo!Eliminates(Log'[q]) \cap Live' = {}
    OBVIOUS
  <2>1. CASE q \in Undo!Fresh
    BY <2>1 DEF Undo!Commit, Live, Stored, Log
  <2>2. CASE q \in 1..Len(Log)
    <3>1. Undo!Eliminates(Log[q]) \cap Live = {} /\ Log'[q] = Log[q]
      BY <2>2, CommitExtends DEF Undo!Accounted, Live, Stored, Log
    <3> QED BY <3>1 DEF Undo!Commit, Live, Stored, Log
  <2> QED BY <2>1, <2>2, CommitExtends
<1>6. \A q, r \in 1..Len(Log') :
        q # r => Undo!Eliminates(Log'[q]) \cap Undo!Eliminates(Log'[r]) = {}
  <2>1. \A q, r \in 1..Len(Log) :
          q # r => Undo!Eliminates(Log'[q]) \cap Undo!Eliminates(Log'[r]) = {}
    BY CommitExtends DEF Undo!Accounted, Live, Stored, Log
  <2>2. \A q, r \in Undo!Fresh : q # r => Undo!Eliminates(Log'[q]) \cap Undo!Eliminates(Log'[r]) = {}
    BY DEF Undo!Commit, Live, Stored, Log
  <2>3. \A q \in 1..Len(Log), r \in Undo!Fresh :
          Undo!Eliminates(Log'[q]) \cap Undo!Eliminates(Log'[r]) = {}
    <3>1. \A q \in 1..Len(Log) : Undo!Eliminates(Log'[q]) \cap Live = {}
      BY CommitExtends DEF Undo!Accounted, Live, Stored, Log
    <3> QED BY <1>2, <3>1
  <2> QED BY <2>1, <2>2, <2>3, CommitExtends
<1> QED BY <1>3, <1>4, <1>5, <1>6 DEF Undo!Accounted, Live, Stored, Log

\* Every column of the original LP is live or can be brought back, never both,
\* and no column is eliminated by two entries, however many plans
\* apply_plan_to_working_lp commits and whatever they remove.
THEOREM UndoLogAccounted == Undo!Spec => []Undo!Accounted
<1>1. Undo!Init => Undo!Accounted /\ IsLog
  BY DEF Undo!Init, Undo!Accounted, IsLog, Live, Stored, Log
<1>2. Undo!Accounted /\ IsLog /\ [Undo!Commit]_(Undo!vars) => (Undo!Accounted /\ IsLog)'
  <2> SUFFICES ASSUME Undo!Accounted, IsLog, [Undo!Commit]_(Undo!vars)
               PROVE  (Undo!Accounted /\ IsLog)'
    OBVIOUS
  <2>1. CASE Undo!Commit
    BY <2>1, CommitAccounted DEF Undo!Commit, IsLog, Live, Stored, Log
  <2>2. CASE UNCHANGED Undo!vars
    BY <2>2 DEF Undo!vars, Undo!Accounted, IsLog, Live, Stored, Log
  <2> QED BY <2>1, <2>2
<1> QED BY <1>1, <1>2, PTL DEF Undo!Spec

\* After any plans, every column of the original LP is a slot of the reduced
\* LP, has a recorded value, or is eliminated by an entry of the record; no
\* slot is any of the latter, and no two entries eliminate the same column.
THEOREM RecordAccounted == Spec => []Undo!Accounted
BY RecordImplementsUndoLog, UndoLogAccounted DEF ImplementsUndoLog

-----------------------------------------------------------------------------
(* Replays.  The records and kernels of a plan, the entries of a log and   *)
(* the plans of a run are all applied one after the other.                 *)

Apply(what, e, name, y) ==
  IF what = "records" THEN RunUnit(y, e.unit, y, name)
  ELSE IF what = "kernels" THEN RunKernel(y, e, name)
  ELSE IF what = "log" THEN ExpandPayload(y, e, OrgName)
  ELSE UndoPlan(e, y)

LEMMA Applied ==
  ASSUME NEW e, NEW name, NEW y
  PROVE  /\ Apply("records", e, name, y) = RunUnit(y, e.unit, y, name)
         /\ Apply("kernels", e, name, y) = RunKernel(y, e, name)
         /\ Apply("log", e, name, y) = ExpandPayload(y, e, OrgName)
         /\ Apply("plans", e, name, y) = UndoPlan(e, y)
BY DEF Apply

StagesOf(what, s, name, y, n, f) ==
  f = [k \in 0..n |-> IF k = 0 THEN y ELSE Apply(what, s[k], name, f[k - 1])]
Stages(what, s, name, y, n) == CHOOSE f : StagesOf(what, s, name, y, n, f)
\* The first n steps of s, from y.
Run(what, s, name, y, n) == Stages(what, s, name, y, n)[n]

\* The stages of a replay exist.
LEMMA StagesExist ==
  ASSUME NEW what, NEW s, NEW name, NEW y, NEW n \in Nat
  PROVE  StagesOf(what, s, name, y, n, Stages(what, s, name, y, n))
<1> DEFINE Good == {m \in Nat : \E f : StagesOf(what, s, name, y, m, f)}
<1>1. 0 \in Good
  <2> DEFINE f == [k \in 0..0 |-> y]
  <2>1. f = [k \in 0..0 |-> IF k = 0 THEN y ELSE Apply(what, s[k], name, f[k - 1])]
    OBVIOUS
  <2>2. StagesOf(what, s, name, y, 0, f)
    BY <2>1 DEF StagesOf
  <2> QED BY <2>2
<1>2. ASSUME NEW m \in Good
      PROVE  m + 1 \in Good
  <2>1. PICK f : StagesOf(what, s, name, y, m, f)
    OBVIOUS
  <2>2. m \in Nat
    OBVIOUS
  <2> DEFINE g == [k \in 0..(m + 1) |-> IF k = m + 1 THEN Apply(what, s[m + 1], name, f[m]) ELSE f[k]]
  <2>3. ASSUME NEW k \in 0..(m + 1)
        PROVE  g[k] = IF k = 0 THEN y ELSE Apply(what, s[k], name, g[k - 1])
    <3>1. CASE k = m + 1
      <4>1. g[k - 1] = f[m] /\ k # 0
        BY <3>1, <2>2
      <4> QED BY <3>1, <4>1, <2>2
    <3>2. CASE k \in 0..m
      <4>1. g[k] = f[k]
        BY <3>2, <2>2
      <4>2. f[k] = IF k = 0 THEN y ELSE Apply(what, s[k], name, f[k - 1])
        BY <3>2, <2>1 DEF StagesOf
      <4>3. k # 0 => g[k - 1] = f[k - 1]
        BY <3>2, <2>2
      <4> HIDE DEF g
      <4> QED BY <4>1, <4>2, <4>3
    <3> QED BY <3>1, <3>2, <2>2
  <2>4. g = [k \in 0..(m + 1) |-> IF k = 0 THEN y ELSE Apply(what, s[k], name, g[k - 1])]
    <3>1. g = [k \in 0..(m + 1) |-> g[k]]
      OBVIOUS
    <3> HIDE DEF g
    <3> QED BY <3>1, <2>3
  <2>5. StagesOf(what, s, name, y, m + 1, g)
    BY <2>4 DEF StagesOf
  <2> HIDE DEF g
  <2> QED BY <2>2, <2>5
<1>3. Good = Nat
  <2> HIDE DEF Good
  <2>1. Good \in SUBSET Nat
    BY DEF Good
  <2> QED BY <1>1, <1>2, <2>1, NatSetInduction
<1>4. \E f : StagesOf(what, s, name, y, n, f)
  BY <1>3
<1> QED BY <1>4 DEF Stages

\* Two sequences that agree have the same stages.
LEMMA StagesAgree ==
  ASSUME NEW what, NEW s, NEW t, NEW name, NEW y, NEW n \in Nat, NEW m \in Nat, m <= n,
         \A k \in 1..m : s[k] = t[k],
         NEW f, StagesOf(what, s, name, y, n, f),
         NEW g, StagesOf(what, t, name, y, m, g)
  PROVE  \A k \in 0..m : f[k] = g[k]
<1> DEFINE Same == {k \in 0..m : f[k] = g[k]}
<1>1. /\ \A k \in 0..n : f[k] = IF k = 0 THEN y ELSE Apply(what, s[k], name, f[k - 1])
      /\ \A k \in 0..m : g[k] = IF k = 0 THEN y ELSE Apply(what, t[k], name, g[k - 1])
  BY DEF StagesOf
<1>2. 0 \in Same
  BY <1>1
<1>3. ASSUME NEW k \in Same, k < m
      PROVE  k + 1 \in Same
  <2>1. k + 1 \in 1..m /\ k + 1 \in 0..n /\ k + 1 \in 0..m /\ k + 1 # 0 /\ (k + 1) - 1 = k
    BY <1>3
  <2>2. f[k + 1] = Apply(what, s[k + 1], name, f[k])
    BY <1>1, <2>1
  <2>3. g[k + 1] = Apply(what, t[k + 1], name, g[k])
    BY <1>1, <2>1
  <2> QED BY <2>1, <2>2, <2>3
<1>4. Same \in SUBSET (0..m)
  OBVIOUS
<1> HIDE DEF Same
<1>5. Same = 0..m
  BY <1>2, <1>3, <1>4, IntervalInduction
<1> QED BY <1>5 DEF Same

\* What a replay computes, step by step.
LEMMA RunNext ==
  ASSUME NEW what, NEW s, NEW name, NEW y
  PROVE  \A n \in Nat : Run(what, s, name, y, n + 1)
                           = Apply(what, s[n + 1], name, Run(what, s, name, y, n))
<1> SUFFICES ASSUME NEW n \in Nat
             PROVE  Run(what, s, name, y, n + 1)
                      = Apply(what, s[n + 1], name, Run(what, s, name, y, n))
  OBVIOUS
<1> DEFINE f == Stages(what, s, name, y, n + 1)
           g == Stages(what, s, name, y, n)
<1>1. StagesOf(what, s, name, y, n + 1, f) /\ StagesOf(what, s, name, y, n, g)
  BY StagesExist
<1> HIDE DEF f, g
<1>2. \A k \in 0..n : f[k] = g[k]
  BY <1>1, StagesAgree, n <= n + 1
<1>3. f[n] = g[n]
  BY <1>2
<1>4. f[n + 1] = Apply(what, s[n + 1], name, f[n])
  <2>1. n + 1 \in 0..(n + 1) /\ n + 1 # 0 /\ (n + 1) - 1 = n
    OBVIOUS
  <2> QED BY <1>1, <2>1 DEF StagesOf
<1> QED BY <1>3, <1>4 DEF Run, f, g

LEMMA RunSteps ==
  ASSUME NEW what, NEW s, NEW name, NEW y
  PROVE  /\ Run(what, s, name, y, 0) = y
         /\ \A n \in Nat : Run(what, s, name, y, n + 1)
                             = Apply(what, s[n + 1], name, Run(what, s, name, y, n))
<1>1. Run(what, s, name, y, 0) = y
  <2>1. StagesOf(what, s, name, y, 0, Stages(what, s, name, y, 0))
    BY StagesExist
  <2> QED BY <2>1 DEF Run, StagesOf
<1>2. \A n \in Nat : Run(what, s, name, y, n + 1)
                        = Apply(what, s[n + 1], name, Run(what, s, name, y, n))
  BY RunNext
<1> QED BY <1>1, <1>2

\* A replay depends on the steps it takes, and on nothing else of s.
LEMMA RunAgree ==
  ASSUME NEW what, NEW s, NEW t, NEW name, NEW y, NEW n \in Nat,
         \A k \in 1..n : s[k] = t[k]
  PROVE  Run(what, s, name, y, n) = Run(what, t, name, y, n)
<1> DEFINE f == Stages(what, s, name, y, n)
           g == Stages(what, t, name, y, n)
<1>1. StagesOf(what, s, name, y, n, f) /\ StagesOf(what, t, name, y, n, g)
  BY StagesExist
<1> HIDE DEF f, g
<1>2. \A k \in 0..n : f[k] = g[k]
  BY <1>1, StagesAgree
<1>3. f[n] = g[n]
  BY <1>2
<1> QED BY <1>3 DEF Run, f, g

\* A replay may be interrupted after m steps.
LEMMA RunSplit ==
  ASSUME NEW what, NEW s, NEW t, NEW name, NEW y, NEW m \in Nat, NEW n \in Nat,
         \A k \in 1..n : t[k] = s[m + k]
  PROVE  Run(what, s, name, y, m + n) = Run(what, t, name, Run(what, s, name, y, m), n)
<1> DEFINE z == Run(what, s, name, y, m)
           Same == {k \in 0..n : Run(what, s, name, y, m + k) = Run(what, t, name, z, k)}
<1>1. 0 \in Same
  <2>1. Run(what, t, name, z, 0) = z
    BY RunSteps
  <2> QED BY <2>1
<1>2. ASSUME NEW k \in Same, k < n
      PROVE  k + 1 \in Same
  <2>1. k + 1 \in 1..n /\ k + 1 \in 0..n /\ k \in Nat /\ m + k \in Nat
    BY <1>2
  <2>2. Run(what, s, name, y, (m + k) + 1)
          = Apply(what, s[(m + k) + 1], name, Run(what, s, name, y, m + k))
    <3>1. \A j \in Nat : Run(what, s, name, y, j + 1)
                            = Apply(what, s[j + 1], name, Run(what, s, name, y, j))
      <4> HIDE DEF z, Same
      <4> QED BY RunSteps
    <3> QED BY <2>1, <3>1
  <2>3. Run(what, t, name, z, k + 1) = Apply(what, t[k + 1], name, Run(what, t, name, z, k))
    <3> HIDE DEF z, Same
    <3>1. \A j \in Nat : Run(what, t, name, z, j + 1)
                            = Apply(what, t[j + 1], name, Run(what, t, name, z, j))
      BY SMTT(30), RunSteps
    <3> QED BY <2>1, <3>1
  <2>4. t[k + 1] = s[(m + k) + 1] /\ m + (k + 1) = (m + k) + 1
    BY <2>1
  <2> HIDE DEF z
  <2> QED BY <2>1, <2>2, <2>3, <2>4
<1>3. Same \in SUBSET (0..n)
  OBVIOUS
<1>4. Same = 0..n
  <2> HIDE DEF Same
  <2> QED BY <1>1, <1>2, <1>3, IntervalInduction
<1>5. n \in Same
  BY <1>4
<1> QED BY <1>5

\* One step of it.
LEMMA RunOne ==
  ASSUME NEW what, NEW s, NEW name, NEW y
  PROVE  Run(what, s, name, y, 1) = Apply(what, s[1], name, y)
<1>1. Run(what, s, name, y, 0 + 1) = Apply(what, s[0 + 1], name, Run(what, s, name, y, 0))
  BY RunSteps
<1>2. Run(what, s, name, y, 0) = y
  BY RunSteps
<1> QED BY <1>1, <1>2

\* A recursive function with the steps of a replay ends as the replay does.
LEMMA RunIsValue ==
  ASSUME NEW what, NEW s, NEW name, NEW y, NEW n \in Nat,
         NEW f, StagesOf(what, s, name, y, n, f)
  PROVE  f[n] = Run(what, s, name, y, n)
<1> DEFINE g == Stages(what, s, name, y, n)
<1>1. StagesOf(what, s, name, y, n, g)
  BY StagesExist
<1> HIDE DEF g
<1>2. n <= n /\ (\A k \in 1..n : s[k] = s[k]) /\ n \in 0..n
  OBVIOUS
<1>3. \A k \in 0..n : f[k] = g[k]
  BY <1>1, <1>2, StagesAgree
<1> QED BY <1>2, <1>3 DEF Run, g

Backwards(s) == [k \in 1..Len(s) |-> s[Len(s) + 1 - k]]
\* The log undone from its end, and the plans undone from the last.
Replay(log, y) == Run("log", Backwards(log), << >>, y, Len(log))
UndoAll(plans2, y) == Run("plans", Backwards(plans2), << >>, y, Len(plans2))

\* The recursive functions of Postsolve are replays.
LEMMA UndoRecordsRun ==
  ASSUME NEW vec, NEW records, Len(records) \in Nat, NEW name
  PROVE  UndoRecords(vec, records, name)
           = Run("records", Backwards(records), name, vec, Len(records))
<1> DEFINE n == Len(records)
           s == Backwards(records)
           Undone(f) == f = [k \in 0..n |->
                               IF k = 0 THEN vec
                               ELSE LET unit == records[n + 1 - k].unit
                                    IN RunUnit(f[k - 1], unit, f[k - 1], name)]
           undone == CHOOSE f : Undone(f)
<1>1. ASSUME NEW f
      PROVE  Undone(f) <=> StagesOf("records", s, name, vec, n, f)
  <2>1. \A k \in 0..n : k # 0 =>
          Apply("records", s[k], name, f[k - 1])
            = RunUnit(f[k - 1], records[n + 1 - k].unit, f[k - 1], name)
    BY Applied DEF Backwards
  <2> HIDE DEF s
  <2>2. [k \in 0..n |-> IF k = 0 THEN vec ELSE Apply("records", s[k], name, f[k - 1])]
          = [k \in 0..n |-> IF k = 0 THEN vec
                            ELSE RunUnit(f[k - 1], records[n + 1 - k].unit, f[k - 1], name)]
    BY <2>1
  <2> QED BY <2>2, Zenon DEF StagesOf
<1>2. StagesOf("records", s, name, vec, n, Stages("records", s, name, vec, n))
  BY StagesExist
<1>3. Undone(undone)
  <2> HIDE DEF Undone
  <2> QED BY <1>1, <1>2
<1>4. StagesOf("records", s, name, vec, n, undone)
  <2> HIDE DEF Undone
  <2> QED BY <1>1, <1>3
<1>5. UndoRecords(vec, records, name) = undone[n]
  BY DEF UndoRecords
<1> HIDE DEF undone, s
<1>6. undone[n] = Run("records", s, name, vec, n)
  BY <1>4, RunIsValue
<1> QED BY <1>5, <1>6 DEF s

LEMMA ExpandPayloadRun ==
  ASSUME NEW vec, NEW kernels, Len(kernels) \in Nat, NEW name
  PROVE  ExpandPayload(vec, kernels, name) = Run("kernels", kernels, name, vec, Len(kernels))
<1> DEFINE n == Len(kernels)
           Grown(f) == f = [k \in 0..n |-> IF k = 0 THEN vec
                                           ELSE RunKernel(f[k - 1], kernels[k], name)]
           expanded == CHOOSE f : Grown(f)
<1>1. ASSUME NEW f
      PROVE  Grown(f) <=> StagesOf("kernels", kernels, name, vec, n, f)
  <2>1. \A k \in 0..n : Apply("kernels", kernels[k], name, f[k - 1])
                          = RunKernel(f[k - 1], kernels[k], name)
    BY Applied
  <2>2. [k \in 0..n |-> IF k = 0 THEN vec ELSE Apply("kernels", kernels[k], name, f[k - 1])]
          = [k \in 0..n |-> IF k = 0 THEN vec ELSE RunKernel(f[k - 1], kernels[k], name)]
    BY <2>1
  <2> QED BY <2>2, Zenon DEF StagesOf
<1>2. StagesOf("kernels", kernels, name, vec, n, Stages("kernels", kernels, name, vec, n))
  BY StagesExist
<1>3. Grown(expanded)
  <2> HIDE DEF Grown
  <2> QED BY <1>1, <1>2
<1>4. StagesOf("kernels", kernels, name, vec, n, expanded)
  <2> HIDE DEF Grown
  <2> QED BY <1>1, <1>3
<1>5. ExpandPayload(vec, kernels, name) = expanded[n]
  BY DEF ExpandPayload
<1> HIDE DEF expanded
<1>6. expanded[n] = Run("kernels", kernels, name, vec, n)
  BY <1>4, RunIsValue
<1> QED BY <1>5, <1>6

\* The reduced solution, by original column.
Solution == [c \in RangeOf(lpCols) |-> Reduced(c)]

LEMMA ExpectedRun ==
  ASSUME Len(history) \in Nat
  PROVE  Expected = UndoAll(history, Solution)
<1> DEFINE n == Len(history)
           s == Backwards(history)
           Back(f) == f = [k \in 0..n |-> IF k = 0 THEN Solution
                                          ELSE UndoPlan(history[n + 1 - k], f[k - 1])]
           before == CHOOSE f : Back(f)
<1>1. ASSUME NEW f
      PROVE  Back(f) <=> StagesOf("plans", s, << >>, Solution, n, f)
  <2>1. \A k \in 0..n : k # 0 => Apply("plans", s[k], << >>, f[k - 1])
                                   = UndoPlan(history[n + 1 - k], f[k - 1])
    BY Applied DEF Backwards
  <2> HIDE DEF s
  <2>2. [k \in 0..n |-> IF k = 0 THEN Solution ELSE Apply("plans", s[k], << >>, f[k - 1])]
          = [k \in 0..n |-> IF k = 0 THEN Solution ELSE UndoPlan(history[n + 1 - k], f[k - 1])]
    BY <2>1
  <2> QED BY <2>2, Zenon DEF StagesOf
<1>2. StagesOf("plans", s, << >>, Solution, n, Stages("plans", s, << >>, Solution, n))
  BY StagesExist
<1>3. Back(before)
  <2> HIDE DEF Back
  <2> QED BY <1>1, <1>2
<1>4. StagesOf("plans", s, << >>, Solution, n, before)
  <2> HIDE DEF Back
  <2> QED BY <1>1, <1>3
<1>5. Expected = before[n]
  BY DEF Expected, Solution
<1> HIDE DEF before, s
<1>6. before[n] = Run("plans", s, << >>, Solution, n)
  BY <1>4, RunIsValue
<1> QED BY <1>5, <1>6 DEF s, UndoAll

\* A replay from the end begins with the last step.
LEMMA RunBackwards ==
  ASSUME NEW what, NEW s, NEW t, NEW name, NEW y, Len(s) \in Nat, Len(t) = Len(s) + 1,
         \A q \in 1..Len(s) : t[q] = s[q]
  PROVE  Run(what, Backwards(t), name, y, Len(t))
           = Run(what, Backwards(s), name, Apply(what, t[Len(t)], name, y), Len(s))
<1> DEFINE n == Len(s)
           bs == Backwards(s)
           bt == Backwards(t)
<1>1. bt[1] = t[Len(t)]
  BY DEF Backwards
<1>2. \A k \in 1..n : bs[k] = bt[k + 1]
  <2> SUFFICES ASSUME NEW k \in 1..n
               PROVE  bs[k] = bt[k + 1]
    OBVIOUS
  <2>1. n + 1 - k \in 1..n /\ k + 1 \in 1..(n + 1) /\ (n + 1) + 1 - (k + 1) = n + 1 - k
    OBVIOUS
  <2>2. bs[k] = s[n + 1 - k]
    BY DEF Backwards
  <2>3. bt[k + 1] = t[(n + 1) + 1 - (k + 1)]
    BY <2>1 DEF Backwards
  <2> QED BY <2>1, <2>2, <2>3
<1> HIDE DEF bs, bt
<1>3. Run(what, bt, name, y, 1 + n) = Run(what, bs, name, Run(what, bt, name, y, 1), n)
  <2>1. \A k \in 1..n : bs[k] = bt[1 + k]
    BY <1>2
  <2> QED BY <2>1, RunSplit
<1>4. Run(what, bt, name, y, 1) = Apply(what, bt[1], name, y)
  BY RunOne
<1> QED BY <1>1, <1>3, <1>4 DEF bs, bt

\* Undoing a log with one more entry, and a run with one more plan.
LEMMA ReplayLast ==
  ASSUME NEW log, NEW long, NEW y, Len(log) \in Nat, Len(long) = Len(log) + 1,
         \A q \in 1..Len(log) : long[q] = log[q]
  PROVE  Replay(long, y) = Replay(log, ExpandPayload(y, long[Len(long)], OrgName))
<1>1. Apply("log", long[Len(long)], << >>, y) = ExpandPayload(y, long[Len(long)], OrgName)
  BY Applied
<1>2. Run("log", Backwards(long), << >>, y, Len(long))
        = Run("log", Backwards(log), << >>, Apply("log", long[Len(long)], << >>, y), Len(log))
  BY RunBackwards
<1> QED BY <1>1, <1>2 DEF Replay

LEMMA UndoAllLast ==
  ASSUME NEW hist, NEW long, NEW y, Len(hist) \in Nat, Len(long) = Len(hist) + 1,
         \A q \in 1..Len(hist) : long[q] = hist[q]
  PROVE  UndoAll(long, y) = UndoAll(hist, UndoPlan(long[Len(long)], y))
<1>1. Apply("plans", long[Len(long)], << >>, y) = UndoPlan(long[Len(long)], y)
  BY Applied
<1>2. Run("plans", Backwards(long), << >>, y, Len(long))
        = Run("plans", Backwards(hist), << >>, Apply("plans", long[Len(long)], << >>, y), Len(hist))
  BY RunBackwards
<1> QED BY <1>1, <1>2 DEF UndoAll

\* Nothing to undo.
LEMMA ReplayNothing ==
  ASSUME NEW log, NEW y, Len(log) = 0
  PROVE  Replay(log, y) = y
BY RunSteps DEF Replay

LEMMA UndoNothing ==
  ASSUME NEW hist, NEW y, Len(hist) = 0
  PROVE  UndoAll(hist, y) = y
BY RunSteps DEF UndoAll

LEMMA UndoNoRecords ==
  ASSUME NEW vec, NEW name, NEW records, Len(records) = 0
  PROVE  UndoRecords(vec, records, name) = vec
<1>1. UndoRecords(vec, records, name)
        = Run("records", Backwards(records), name, vec, Len(records))
  BY UndoRecordsRun
<1> QED BY <1>1, RunSteps

\* Replaying depends on the entries only.
LEMMA ReplayAgree ==
  ASSUME NEW log, NEW same, NEW y, Len(log) \in Nat, Len(same) = Len(log),
         \A q \in 1..Len(log) : same[q] = log[q]
  PROVE  Replay(same, y) = Replay(log, y)
<1>1. \A k \in 1..Len(log) : Backwards(same)[k] = Backwards(log)[k]
  BY DEF Backwards
<1>2. Run("log", Backwards(same), << >>, y, Len(log)) = Run("log", Backwards(log), << >>, y, Len(log))
  BY <1>1, RunAgree
<1> QED BY <1>2 DEF Replay

\* A log of two parts.
LEMMA ReplayParts ==
  ASSUME NEW log, NEW fresh, NEW long, NEW y, Len(log) \in Nat, Len(fresh) \in Nat,
         Len(long) = Len(log) + Len(fresh),
         \A q \in 1..Len(log) : long[q] = log[q],
         \A q \in 1..Len(fresh) : long[Len(log) + q] = fresh[q]
  PROVE  Replay(long, y) = Replay(log, Replay(fresh, y))
<1> DEFINE m == Len(fresh)
           n == Len(log)
           bl == Backwards(long)
           bf == Backwards(fresh)
           bs == Backwards(log)
<1>1. \A k \in 1..m : bf[k] = bl[k]
  <2> SUFFICES ASSUME NEW k \in 1..m
               PROVE  bf[k] = bl[k]
    OBVIOUS
  <2>1. m + 1 - k \in 1..m /\ k \in 1..(n + m) /\ n + (m + 1 - k) = (n + m) + 1 - k
    OBVIOUS
  <2>2. bf[k] = fresh[m + 1 - k]
    BY DEF Backwards
  <2>3. bl[k] = long[(n + m) + 1 - k]
    BY <2>1 DEF Backwards
  <2> QED BY <2>1, <2>2, <2>3
<1>2. \A k \in 1..n : bs[k] = bl[m + k]
  <2> SUFFICES ASSUME NEW k \in 1..n
               PROVE  bs[k] = bl[m + k]
    OBVIOUS
  <2>1. n + 1 - k \in 1..n /\ m + k \in 1..(n + m) /\ (n + m) + 1 - (m + k) = n + 1 - k
    OBVIOUS
  <2>2. bs[k] = log[n + 1 - k]
    BY DEF Backwards
  <2>3. bl[m + k] = long[(n + m) + 1 - (m + k)]
    BY <2>1 DEF Backwards
  <2> QED BY <2>1, <2>2, <2>3
<1> HIDE DEF bl, bf, bs
<1>3. Run("log", bl, << >>, y, m) = Run("log", bf, << >>, y, m)
  BY <1>1, RunAgree
<1>4. Run("log", bl, << >>, y, m + n) = Run("log", bs, << >>, Run("log", bl, << >>, y, m), n)
  BY <1>2, RunSplit
<1>5. Replay(long, y) = Run("log", bl, << >>, y, m + n) /\ Replay(fresh, y) = Run("log", bf, << >>, y, m)
  BY DEF Replay, bl, bf
<1> QED BY <1>3, <1>4, <1>5 DEF Replay, bs

\* The kernels of a payload, one at a time.
LEMMA ExpandFirst ==
  ASSUME NEW kernels, NEW rest, NEW vec, NEW name, Len(rest) \in Nat,
         Len(kernels) = Len(rest) + 1, \A k \in 1..Len(rest) : rest[k] = kernels[k + 1]
  PROVE  ExpandPayload(vec, kernels, name) = ExpandPayload(RunKernel(vec, kernels[1], name), rest, name)
<1> DEFINE n == Len(rest)
           z == RunKernel(vec, kernels[1], name)
<1>1. ExpandPayload(vec, kernels, name) = Run("kernels", kernels, name, vec, 1 + n)
  <2>1. Len(kernels) \in Nat /\ Len(kernels) = 1 + n
    OBVIOUS
  <2>2. ExpandPayload(vec, kernels, name) = Run("kernels", kernels, name, vec, Len(kernels))
    BY <2>1, ExpandPayloadRun
  <2> QED BY <2>1, <2>2
<1>2. Run("kernels", kernels, name, vec, 1) = z
  <2>1. Run("kernels", kernels, name, vec, 1) = Apply("kernels", kernels[1], name, vec)
    BY RunOne
  <2> QED BY <2>1, Applied
<1>3. \A k \in 1..n : rest[k] = kernels[1 + k]
  OBVIOUS
<1>4. Run("kernels", kernels, name, vec, 1 + n)
        = Run("kernels", rest, name, Run("kernels", kernels, name, vec, 1), n)
  <2> HIDE DEF n, z
  <2>1. n \in Nat
    BY DEF n
  <2> QED BY <1>3, <2>1, RunSplit
<1>5. ExpandPayload(z, rest, name) = Run("kernels", rest, name, z, n)
  BY ExpandPayloadRun
<1> QED BY <1>1, <1>2, <1>4, <1>5

LEMMA ExpandNothing ==
  ASSUME NEW vec, NEW kernels, NEW name, Len(kernels) = 0
  PROVE  ExpandPayload(vec, kernels, name) = vec
<1>1. ExpandPayload(vec, kernels, name) = Run("kernels", kernels, name, vec, Len(kernels))
  BY ExpandPayloadRun
<1> QED BY <1>1, RunSteps

\* A unit that runs on its own is a kernel of one thread.
LEMMA UnitKernel ==
  ASSUME NEW vec, NEW unit, NEW name
  PROVE  RunUnit(vec, unit, vec, name) = RunKernel(vec, {unit}, name)
<1> DEFINE value(u, i) == Computed(CHOOSE a \in u : a.to = i, u, vec, name)
           chosen(i) == CHOOSE w \in {unit} : i \in Writes(w)
           left(i) == IF i \in Writes(unit) THEN value(unit, i) ELSE vec[i]
           right(i) == IF \E u \in {unit} : i \in Writes(u) THEN value(chosen(i), i) ELSE vec[i]
<1>1. RunUnit(vec, unit, vec, name) = [i \in DOMAIN vec |-> left(i)]
  BY Zenon DEF RunUnit
<1>2. RunKernel(vec, {unit}, name) = [i \in DOMAIN vec |-> right(i)]
  BY Zenon DEF RunKernel
<1>3. ASSUME NEW i
      PROVE  left(i) = right(i)
  <2>1. i \in Writes(unit) => chosen(i) = unit
    OBVIOUS
  <2>2. (\E u \in {unit} : i \in Writes(u)) <=> i \in Writes(unit)
    OBVIOUS
  <2> HIDE DEF chosen, value
  <2> QED BY <2>1, <2>2
<1> HIDE DEF left, right
<1> QED BY <1>1, <1>2, <1>3

\* A record of the log is one such kernel.
LEMMA ReplayRecordEntry ==
  ASSUME NEW y, NEW unit
  PROVE  ExpandPayload(y, << {unit} >>, OrgName) = RunUnit(y, unit, y, OrgName)
<1> DEFINE kernels == << {unit} >>
           rest == << >>
<1>1. Len(kernels) = 1 /\ Len(rest) = 0 /\ kernels[1] = {unit}
  OBVIOUS
<1> HIDE DEF kernels, rest
<1>2. ExpandPayload(y, kernels, OrgName) = ExpandPayload(RunKernel(y, kernels[1], OrgName), rest, OrgName)
  <2>1. Len(rest) \in Nat /\ Len(kernels) = Len(rest) + 1
    BY <1>1
  <2>2. \A k \in 1..Len(rest) : rest[k] = kernels[k + 1]
    BY <1>1
  <2> QED BY <2>1, <2>2, ExpandFirst
<1>3. ExpandPayload(RunKernel(y, kernels[1], OrgName), rest, OrgName) = RunKernel(y, kernels[1], OrgName)
  BY <1>1, ExpandNothing
<1> QED BY <1>1, <1>2, <1>3, UnitKernel DEF kernels

LEMMA EntryKernel ==
  ASSUME NEW y, NEW unit
  PROVE  ExpandPayload(y, << {unit} >>, OrgName) = RunKernel(y, {unit}, OrgName)
<1>1. ExpandPayload(y, << {unit} >>, OrgName) = RunUnit(y, unit, y, OrgName)
  BY ReplayRecordEntry
<1>2. RunUnit(y, unit, y, OrgName) = RunKernel(y, {unit}, OrgName)
  BY UnitKernel
<1> QED BY <1>1, <1>2

-----------------------------------------------------------------------------
(* Kernels whose threads do not disagree about a column.                   *)

OneAssignment(unit) == \A a, b \in unit : a.to = b.to => a = b
OneWriter(units) == \A u, v \in units : Writes(u) \cap Writes(v) # {} => u = v
WellMade(units) == OneWriter(units) /\ \A u \in units : OneAssignment(u)

\* What a kernel leaves in a column.
LEMMA KernelLeaves ==
  ASSUME NEW units, WellMade(units), NEW vec, NEW name
  PROVE  /\ DOMAIN RunKernel(vec, units, name) = DOMAIN vec
         /\ RunKernel(vec, units, name)
              = [i \in DOMAIN vec |-> RunKernel(vec, units, name)[i]]
         /\ \A i \in DOMAIN vec : (\A u \in units : i \notin Writes(u))
                                    => RunKernel(vec, units, name)[i] = vec[i]
         /\ \A u \in units : \A a \in u : a.to \in DOMAIN vec
              => RunKernel(vec, units, name)[a.to] = Computed(a, u, vec, name)
<1> DEFINE value(u, i) == Computed(CHOOSE a \in u : a.to = i, u, vec, name)
           chosen(i) == CHOOSE w \in units : i \in Writes(w)
           right(i) == IF \E u \in units : i \in Writes(u) THEN value(chosen(i), i) ELSE vec[i]
<1>1. RunKernel(vec, units, name) = [i \in DOMAIN vec |-> right(i)]
  BY Zenon DEF RunKernel
<1>2. ASSUME NEW i, \A u \in units : i \notin Writes(u)
      PROVE  right(i) = vec[i]
  <2> HIDE DEF value, chosen
  <2> QED BY <1>2
<1>3. ASSUME NEW u \in units, NEW a \in u
      PROVE  right(a.to) = Computed(a, u, vec, name)
  <2>1. a.to \in Writes(u)
    BY DEF Writes
  <2>2. chosen(a.to) = u
    <3>1. \A w \in units : a.to \in Writes(w) => w = u
      <4> SUFFICES ASSUME NEW w \in units, a.to \in Writes(w)
                   PROVE  w = u
        OBVIOUS
      <4>1. Writes(w) \cap Writes(u) # {}
        BY <2>1
      <4> QED BY <4>1 DEF WellMade, OneWriter
    <3> QED BY <2>1, <3>1
  <2>3. (CHOOSE b \in u : b.to = a.to) = a
    <3>1. \A b \in u : b.to = a.to => b = a
      BY DEF WellMade, OneAssignment
    <3> QED BY <3>1
  <2>4. value(u, a.to) = Computed(a, u, vec, name)
    <3> DEFINE ch == CHOOSE b \in u : b.to = a.to
    <3>1. value(u, a.to) = Computed(ch, u, vec, name)
      BY Zenon
    <3>2. ch = a
      BY <2>3
    <3> HIDE DEF ch, value
    <3> QED BY <3>1, <3>2
  <2> HIDE DEF value, chosen
  <2> QED BY <2>1, <2>2, <2>4
<1> HIDE DEF right
<1>4. \A i \in DOMAIN vec : RunKernel(vec, units, name)[i] = right(i)
  BY <1>1
<1>5. DOMAIN RunKernel(vec, units, name) = DOMAIN vec
  BY <1>1
<1>6. RunKernel(vec, units, name) = [i \in DOMAIN vec |-> RunKernel(vec, units, name)[i]]
  BY <1>1, <1>4
<1> QED BY <1>2, <1>3, <1>4, <1>5, <1>6

\* The units a map renames.
Renamed(red, units) == {RenameUnit(red, u) : u \in units}

RenamedAssign(red, a) == Assign(red[a.to], {red[i] : i \in a.from})

\* A unit renamed is its assignments renamed.
LEMMA RenamedAssignments ==
  ASSUME NEW w \in Nat, NEW red \in [1..w -> OrgCols], NEW unit \in LocalUnits(w)
  PROVE  RenameUnit(red, unit) = {RenamedAssign(red, a) : a \in unit}
<1>1. \A a \in unit : a.to \in 1..w /\ a.from \subseteq 1..w
  BY DEF LocalUnits
<1>2. \A a \in unit : Rename(red, a.to) = red[a.to]
  BY <1>1 DEF Rename
<1>3. \A a \in unit : RenameAll(red, a.from) = {red[i] : i \in a.from}
  BY <1>1 DEF RenameAll, Rename
<1> QED BY <1>2, <1>3 DEF RenameUnit, RenamedAssign

\* Renaming by a map that is one to one keeps the threads apart.
LEMMA RenamedWellMade ==
  ASSUME NEW w \in Nat, NEW red \in [1..w -> OrgCols], OneToOne(red, w),
         NEW units \in SUBSET LocalUnits(w), WellMade(units)
  PROVE  WellMade(Renamed(red, units))
<1>1. OneWriter(Renamed(red, units))
  <2> SUFFICES ASSUME NEW u \in units, NEW v \in units, NEW c,
                      c \in Writes(RenameUnit(red, u)), c \in Writes(RenameUnit(red, v))
               PROVE  RenameUnit(red, u) = RenameUnit(red, v)
    <3>1. \A r \in Renamed(red, units) : \E u \in units : r = RenameUnit(red, u)
      BY DEF Renamed
    <3> QED BY <3>1 DEF OneWriter
  <2>1. u \in LocalUnits(w) /\ v \in LocalUnits(w)
    OBVIOUS
  <2>2. PICK i \in Writes(u) : c = red[i]
    BY <2>1, RenamedUnit
  <2>3. PICK j \in Writes(v) : c = red[j]
    BY <2>1, RenamedUnit
  <2>4. i \in 1..w /\ j \in 1..w
    BY <2>1 DEF Writes, LocalUnits
  <2>5. i = j
    BY <2>2, <2>3, <2>4 DEF OneToOne
  <2>6. Writes(u) \cap Writes(v) # {}
    BY <2>5
  <2> QED BY <2>6 DEF WellMade, OneWriter
<1>2. ASSUME NEW u \in units
      PROVE  OneAssignment(RenameUnit(red, u))
  <2>1. u \in LocalUnits(w)
    OBVIOUS
  <2>2. RenameUnit(red, u) = {RenamedAssign(red, a) : a \in u}
    BY <2>1, RenamedAssignments
  <2>3. ASSUME NEW a \in u, NEW b \in u, RenamedAssign(red, a).to = RenamedAssign(red, b).to
        PROVE  a = b
    <3>1. red[a.to] = red[b.to]
      BY <2>3 DEF Assign, RenamedAssign
    <3>2. a.to \in 1..w /\ b.to \in 1..w
      BY <2>1 DEF LocalUnits
    <3>3. a.to = b.to
      BY <3>1, <3>2 DEF OneToOne
    <3> QED BY <3>3 DEF WellMade, OneAssignment
  <2> QED BY <2>2, <2>3 DEF OneAssignment
<1> QED BY <1>1, <1>2 DEF WellMade, Renamed

-----------------------------------------------------------------------------
(* A plan's own indices and the original columns.                          *)

\* The values vec of the slots of an LP, put in their original columns; the
\* other columns have those of base.
Spread(vec, red, base) ==
  [c \in OrgCols |-> IF c \in RangeOf(red)
                     THEN vec[CHOOSE i \in DOMAIN red : red[i] = c] ELSE base[c]]

LEMMA SpreadAt ==
  ASSUME NEW w \in Nat, NEW red \in [1..w -> OrgCols], OneToOne(red, w), NEW vec, NEW base
  PROVE  /\ DOMAIN Spread(vec, red, base) = OrgCols
         /\ \A i \in 1..w : Spread(vec, red, base)[red[i]] = vec[i]
         /\ \A c \in OrgCols : c \notin RangeOf(red) => Spread(vec, red, base)[c] = base[c]
<1>1. ASSUME NEW i \in 1..w
      PROVE  Spread(vec, red, base)[red[i]] = vec[i]
  <2>1. red[i] \in RangeOf(red) /\ red[i] \in OrgCols
    BY DEF RangeOf
  <2>2. (CHOOSE j \in DOMAIN red : red[j] = red[i]) = i
    <3>1. \A j \in DOMAIN red : red[j] = red[i] => j = i
      BY DEF OneToOne
    <3>2. i \in DOMAIN red
      OBVIOUS
    <3> QED BY <3>1, <3>2
  <2> QED BY <2>1, <2>2 DEF Spread
<1> QED BY <1>1 DEF Spread

\* A function of the original columns.
OverOrg(z) == z = [c \in OrgCols |-> z[c]]

\* Two functions of the original columns that agree on the slots of the LP
\* and elsewhere are the same.
LEMMA SpreadIs ==
  ASSUME NEW w \in Nat, NEW red \in [1..w -> OrgCols], OneToOne(red, w), NEW vec, NEW base,
         NEW z, OverOrg(z),
         \A i \in 1..w : z[red[i]] = vec[i],
         \A c \in OrgCols : c \notin RangeOf(red) => z[c] = base[c]
  PROVE  z = Spread(vec, red, base)
<1> DEFINE t == Spread(vec, red, base)
<1>1. t = [c \in OrgCols |-> t[c]]
  BY DEF Spread
<1>2. ASSUME NEW c \in OrgCols
      PROVE  z[c] = t[c]
  <2>1. CASE c \in RangeOf(red)
    <3>1. PICK i \in 1..w : c = red[i]
      BY <2>1 DEF RangeOf
    <3>2. t[red[i]] = vec[i]
      BY SpreadAt
    <3> HIDE DEF t
    <3> QED BY <3>1, <3>2
  <2>2. CASE c \notin RangeOf(red)
    <3>1. t[c] = base[c]
      BY <2>2, SpreadAt
    <3> HIDE DEF t
    <3> QED BY <2>2, <3>1
  <2> QED BY <2>1, <2>2
<1> HIDE DEF t
<1>3. z = t
  BY <1>1, <1>2 DEF OverOrg
<1> QED BY <1>3 DEF t

\* An assignment computes the same term in either space.
LEMMA ComputedRenamed ==
  ASSUME NEW w \in Nat, NEW red \in [1..w -> OrgCols], OneToOne(red, w), NEW vec, NEW base,
         NEW unit \in LocalUnits(w), NEW a \in unit
  PROVE  Computed(RenamedAssign(red, a), RenameUnit(red, unit),
                  Spread(vec, red, base), OrgName)
           = Computed(a, unit, vec, red)
<1> DEFINE z == Spread(vec, red, base)
           b == RenamedAssign(red, a)
           ru == RenameUnit(red, unit)
<1>1. a.to \in 1..w /\ a.from \subseteq 1..w /\ Writes(unit) \subseteq 1..w
  BY DEF LocalUnits, Writes
<1>2. b.to = red[a.to] /\ b.from = {red[i] : i \in a.from}
  BY DEF Assign, RenamedAssign
<1>3. Writes(ru) = {red[i] : i \in Writes(unit)}
  BY RenamedUnit
<1>4. \A c \in OrgCols : OrgName[c] = c
  BY DEF OrgName
<1>5. OrgName[b.to] = red[a.to]
  BY <1>1, <1>2, <1>4
<1>6. {OrgName[c] : c \in Writes(ru)} = {red[i] : i \in Writes(unit)}
  <2>1. \A i \in Writes(unit) : OrgName[red[i]] = red[i]
    BY <1>1, <1>4
  <2> HIDE DEF ru
  <2> QED BY <1>3, <2>1
<1>7. {<<OrgName[c], z[c]>> : c \in b.from} = {<<red[i], vec[i]>> : i \in a.from}
  <2>1. \A i \in a.from : OrgName[red[i]] = red[i] /\ z[red[i]] = vec[i]
    BY <1>1, <1>4, SpreadAt
  <2> HIDE DEF z, b
  <2> QED BY <1>2, <2>1
<1> HIDE DEF z, b, ru
<1>8. Computed(b, ru, z, OrgName) = Computed(a, unit, vec, red)
  BY <1>5, <1>6, <1>7 DEF Computed
<1> QED BY <1>8 DEF z, b, ru

\* A kernel does the same in either space.
LEMMA KernelRenamed ==
  ASSUME NEW w \in Nat, NEW red \in [1..w -> OrgCols], OneToOne(red, w),
         NEW units \in SUBSET LocalUnits(w), WellMade(units),
         NEW vec, DOMAIN vec = 1..w, NEW base
  PROVE  RunKernel(Spread(vec, red, base), Renamed(red, units), OrgName)
           = Spread(RunKernel(vec, units, red), red, base)
<1> DEFINE y == Spread(vec, red, base)
           runits == Renamed(red, units)
           z == RunKernel(y, runits, OrgName)
           local == RunKernel(vec, units, red)
<1>1. WellMade(runits)
  BY RenamedWellMade
<1>2. DOMAIN y = OrgCols
  BY SpreadAt
<1>3. /\ DOMAIN z = OrgCols
      /\ z = [c \in OrgCols |-> z[c]]
      /\ \A c \in OrgCols : (\A r \in runits : c \notin Writes(r)) => z[c] = y[c]
      /\ \A r \in runits : \A b \in r : b.to \in OrgCols => z[b.to] = Computed(b, r, y, OrgName)
  <2> HIDE DEF y, runits
  <2> QED BY <1>1, <1>2, KernelLeaves
<1>4. /\ \A i \in 1..w : (\A u \in units : i \notin Writes(u)) => local[i] = vec[i]
      /\ \A u \in units : \A a \in u : a.to \in 1..w => local[a.to] = Computed(a, u, vec, red)
  BY KernelLeaves
<1>5. \A u \in units : Writes(RenameUnit(red, u)) = {red[i] : i \in Writes(u)} /\ Writes(u) \subseteq 1..w
  <2> SUFFICES ASSUME NEW u \in units
               PROVE  Writes(RenameUnit(red, u)) = {red[i] : i \in Writes(u)} /\ Writes(u) \subseteq 1..w
    OBVIOUS
  <2>1. u \in LocalUnits(w)
    OBVIOUS
  <2> QED BY <2>1, RenamedUnit DEF Writes, LocalUnits
<1>6. ASSUME NEW i \in 1..w
      PROVE  z[red[i]] = local[i]
  <2>1. y[red[i]] = vec[i]
    BY SpreadAt
  <2>2. CASE \A u \in units : i \notin Writes(u)
    <3>1. \A r \in runits : red[i] \notin Writes(r)
      <4> SUFFICES ASSUME NEW u \in units, red[i] \in Writes(RenameUnit(red, u))
                   PROVE  FALSE
        BY DEF Renamed
      <4>1. PICK j \in Writes(u) : red[i] = red[j]
        BY <1>5
      <4>2. i = j
        BY <4>1, <1>5 DEF OneToOne
      <4> QED BY <2>2, <4>2
    <3>2. z[red[i]] = y[red[i]]
      <4> HIDE DEF z, y, runits
      <4> QED BY <1>3, <3>1
    <3> HIDE DEF z, y, local
    <3> QED BY <1>4, <2>1, <2>2, <3>2
  <2>3. ASSUME NEW u \in units, i \in Writes(u)
        PROVE  z[red[i]] = local[i]
    <3>1. PICK a \in u : a.to = i
      BY <2>3 DEF Writes
    <3> DEFINE b == RenamedAssign(red, a)
               r == RenameUnit(red, u)
    <3>2. u \in LocalUnits(w)
      OBVIOUS
    <3>3. b \in r /\ r \in runits /\ b.to = red[i]
      <4>1. r = {RenamedAssign(red, c) : c \in u}
        BY <3>2, RenamedAssignments
      <4>2. b \in r
        <5> HIDE DEF r
        <5> QED BY <4>1
      <4>3. r \in runits
        BY DEF Renamed
      <4>4. b.to = red[i]
        BY <3>1 DEF Assign, RenamedAssign
      <4> QED BY <4>2, <4>3, <4>4
    <3>4. Computed(b, r, y, OrgName) = Computed(a, u, vec, red)
      BY <3>2, ComputedRenamed
    <3>5. z[b.to] = Computed(b, r, y, OrgName)
      <4>1. red[i] \in OrgCols
        OBVIOUS
      <4> HIDE DEF z, y, runits, b, r
      <4> QED BY <1>3, <3>3, <4>1
    <3>6. local[i] = Computed(a, u, vec, red)
      <4> HIDE DEF local
      <4> QED BY <1>4, <3>1
    <3> HIDE DEF z, y, local, b, r, runits
    <3> QED BY <3>3, <3>4, <3>5, <3>6
  <2> QED BY <2>2, <2>3
<1>7. ASSUME NEW c \in OrgCols, c \notin RangeOf(red)
      PROVE  z[c] = base[c]
  <2>1. \A r \in runits : c \notin Writes(r)
    <3> SUFFICES ASSUME NEW u \in units, c \in Writes(RenameUnit(red, u))
                 PROVE  FALSE
      BY DEF Renamed
    <3>1. PICK j \in Writes(u) : c = red[j]
      BY <1>5
    <3>2. j \in 1..w
      BY <1>5
    <3> QED BY <1>7, <3>1, <3>2 DEF RangeOf
  <2>2. y[c] = base[c]
    BY <1>7, SpreadAt
  <2> HIDE DEF z, y, runits
  <2> QED BY <1>3, <2>1, <2>2
<1> HIDE DEF z, local
<1>8. z = Spread(local, red, base)
  <2>1. OverOrg(z)
    BY <1>3 DEF OverOrg
  <2>2. \A c \in OrgCols : c \notin RangeOf(red) => z[c] = base[c]
    BY <1>7
  <2>3. \A i \in 1..w : z[red[i]] = local[i]
    BY <1>6
  <2> QED BY <2>1, <2>2, <2>3, SpreadIs
<1> QED BY <1>8 DEF z, local

\* The tape records of a plan undo the same in either space.
RecordsOver(records, w) ==
  /\ Len(records) \in Nat
  /\ \A i \in 1..Len(records) : /\ records[i].unit \in LocalUnits(w)
                                /\ OneAssignment(records[i].unit)
EntriesOf(fresh, records, red) ==
  /\ Len(fresh) = Len(records)
  /\ \A i \in 1..Len(records) : fresh[i] = << {RenameUnit(red, records[i].unit)} >>

LEMMA RecordsRenamed ==
  ASSUME NEW w \in Nat, NEW red \in [1..w -> OrgCols], OneToOne(red, w),
         NEW records, RecordsOver(records, w),
         NEW fresh, EntriesOf(fresh, records, red),
         NEW vec, DOMAIN vec = 1..w, NEW base
  PROVE  Replay(fresh, Spread(vec, red, base)) = Spread(UndoRecords(vec, records, red), red, base)
<1>0. /\ Len(records) \in Nat /\ Len(fresh) = Len(records)
      /\ \A i \in 1..Len(records) : /\ records[i].unit \in LocalUnits(w)
                                    /\ OneAssignment(records[i].unit)
      /\ \A i \in 1..Len(records) : fresh[i] = << {RenameUnit(red, records[i].unit)} >>
  BY DEF RecordsOver, EntriesOf
<1> DEFINE n == Len(records)
           bl == Backwards(records)
           bg == Backwards(fresh)
           L(k) == Run("records", bl, red, vec, k)
           G(k) == Run("log", bg, << >>, Spread(vec, red, base), k)
           Same == {k \in 0..n : DOMAIN L(k) = 1..w /\ G(k) = Spread(L(k), red, base)}
<1>1. 0 \in Same
  <2>1. L(0) = vec /\ G(0) = Spread(vec, red, base)
    BY RunSteps
  <2> HIDE DEF L, G
  <2> QED BY <2>1
<1>a. \A k \in Nat : L(k + 1) = Apply("records", bl[k + 1], red, L(k))
  <2> HIDE DEF bl, bg, n
  <2> QED BY RunNext
<1>b. \A k \in Nat : G(k + 1) = Apply("log", bg[k + 1], << >>, G(k))
  <2> HIDE DEF bl, bg, n
  <2> QED BY RunNext
<1>2. ASSUME NEW k \in Same, k < n
      PROVE  k + 1 \in Same
  <2> DEFINE unit == records[n - k].unit
             ru == RenameUnit(red, unit)
  <2>1. k \in Nat /\ k + 1 \in 1..n /\ n + 1 - (k + 1) = n - k /\ n - k \in 1..n
    BY <1>0, <1>2
  <2>2. bl[k + 1] = records[n - k] /\ bg[k + 1] = fresh[n - k]
    BY <1>0, <2>1 DEF Backwards
  <2>3. unit \in LocalUnits(w) /\ OneAssignment(unit) /\ fresh[n - k] = << {ru} >>
    BY <1>0, <2>1
  <2>4. L(k + 1) = RunKernel(L(k), {unit}, red)
    <3>1. L(k + 1) = Apply("records", bl[k + 1], red, L(k))
      <4> HIDE DEF bl, L
      <4> QED BY <1>a, <2>1
    <3>2. Apply("records", bl[k + 1], red, L(k)) = RunUnit(L(k), unit, L(k), red)
      <4> HIDE DEF bl, L
      <4> QED BY <2>2, Applied
    <3>3. RunUnit(L(k), unit, L(k), red) = RunKernel(L(k), {unit}, red)
      <4> HIDE DEF L, unit
      <4> QED BY UnitKernel
    <3> QED BY <3>1, <3>2, <3>3
  <2>5. G(k + 1) = RunKernel(G(k), {ru}, OrgName)
    <3>1. G(k + 1) = Apply("log", bg[k + 1], << >>, G(k))
      <4> HIDE DEF bg, G
      <4> QED BY <1>b, <2>1
    <3>2. Apply("log", bg[k + 1], << >>, G(k)) = ExpandPayload(G(k), << {ru} >>, OrgName)
      <4> HIDE DEF bg, G, ru
      <4> QED BY <2>2, <2>3, Applied
    <3>3. ExpandPayload(G(k), << {ru} >>, OrgName) = RunKernel(G(k), {ru}, OrgName)
      <4> HIDE DEF G, ru, bl, bg, L, Same
      <4> QED BY EntryKernel
    <3> QED BY <3>1, <3>2, <3>3
  <2>6. WellMade({unit}) /\ {unit} \in SUBSET LocalUnits(w) /\ Renamed(red, {unit}) = {ru}
    <3> HIDE DEF unit
    <3> QED BY <2>3 DEF WellMade, OneWriter, Renamed
  <2>7. DOMAIN L(k) = 1..w /\ G(k) = Spread(L(k), red, base)
    OBVIOUS
  <2> HIDE DEF L, G, ru, unit
  <2>8. RunKernel(Spread(L(k), red, base), Renamed(red, {unit}), OrgName)
          = Spread(RunKernel(L(k), {unit}, red), red, base)
    BY <2>6, <2>7, KernelRenamed
  <2>9. DOMAIN RunKernel(L(k), {unit}, red) = 1..w
    BY <2>6, <2>7, KernelLeaves
  <2>10. DOMAIN L(k + 1) = 1..w /\ G(k + 1) = Spread(L(k + 1), red, base)
    <3> HIDE DEF Same
    <3> QED BY <2>4, <2>5, <2>6, <2>7, <2>8, <2>9
  <2>11. k + 1 \in 0..n
    BY <1>0, <2>1
  <2> QED BY <2>10, <2>11
<1>3. Same \in SUBSET (0..n)
  OBVIOUS
<1>4. Same = 0..n
  <2> HIDE DEF Same
  <2> QED BY <1>0, <1>1, <1>2, <1>3, IntervalInduction
<1>5. G(n) = Spread(L(n), red, base)
  BY <1>0, <1>4
<1>6. UndoRecords(vec, records, red) = L(n)
  BY <1>0, UndoRecordsRun
<1>7. Replay(fresh, Spread(vec, red, base)) = G(n)
  BY <1>0 DEF Replay
<1> QED BY <1>5, <1>6, <1>7

\* So do the kernels of its payload.
LEMMA KernelsRenamed ==
  ASSUME NEW w \in Nat, NEW red \in [1..w -> OrgCols], OneToOne(red, w),
         NEW kernels, Len(kernels) \in Nat, DOMAIN kernels = 1..Len(kernels),
         \A i \in 1..Len(kernels) : kernels[i] \in SUBSET LocalUnits(w) /\ WellMade(kernels[i]),
         NEW vec, DOMAIN vec = 1..w, NEW base
  PROVE  ExpandPayload(Spread(vec, red, base), GlobalizePayload(kernels, red), OrgName)
           = Spread(ExpandPayload(vec, kernels, red), red, base)
<1> DEFINE n == Len(kernels)
           gk == GlobalizePayload(kernels, red)
           L(k) == Run("kernels", kernels, red, vec, k)
           G(k) == Run("kernels", gk, OrgName, Spread(vec, red, base), k)
           Same == {k \in 0..n : DOMAIN L(k) = 1..w /\ G(k) = Spread(L(k), red, base)}
<1>0. /\ Len(gk) = n
      /\ \A i \in 1..n : gk[i] = Renamed(red, kernels[i])
  <2>1. gk = [i \in 1..n |-> Renamed(red, kernels[i])]
    BY DEF GlobalizePayload, Renamed
  <2> HIDE DEF gk
  <2> QED BY <2>1
<1>1. 0 \in Same
  <2>1. L(0) = vec /\ G(0) = Spread(vec, red, base)
    BY RunSteps
  <2> HIDE DEF L, G
  <2> QED BY <2>1
<1>a. \A k \in Nat : L(k + 1) = Apply("kernels", kernels[k + 1], red, L(k))
  <2> HIDE DEF gk, n
  <2> QED BY RunNext
<1>b. \A k \in Nat : G(k + 1) = Apply("kernels", gk[k + 1], OrgName, G(k))
  <2> HIDE DEF gk, n
  <2> QED BY RunNext
<1>2. ASSUME NEW k \in Same, k < n
      PROVE  k + 1 \in Same
  <2> DEFINE units == kernels[k + 1]
  <2>1. k \in Nat /\ k + 1 \in 1..n
    BY <1>2
  <2>2. units \in SUBSET LocalUnits(w) /\ WellMade(units) /\ gk[k + 1] = Renamed(red, units)
    BY <2>1, <1>0
  <2>3. L(k + 1) = RunKernel(L(k), units, red)
    <3>1. L(k + 1) = Apply("kernels", units, red, L(k))
      <4> HIDE DEF L
      <4> QED BY <1>a, <2>1
    <3> HIDE DEF L
    <3> QED BY <3>1, Applied
  <2>4. G(k + 1) = RunKernel(G(k), Renamed(red, units), OrgName)
    <3>1. G(k + 1) = Apply("kernels", gk[k + 1], OrgName, G(k))
      <4> HIDE DEF gk, G
      <4> QED BY <1>b, <2>1
    <3> HIDE DEF G, gk
    <3> QED BY <3>1, <2>2, Applied
  <2>5. DOMAIN L(k) = 1..w /\ G(k) = Spread(L(k), red, base)
    OBVIOUS
  <2> HIDE DEF L, G, units
  <2>6. RunKernel(Spread(L(k), red, base), Renamed(red, units), OrgName)
          = Spread(RunKernel(L(k), units, red), red, base)
    BY <2>2, <2>5, KernelRenamed
  <2>7. DOMAIN RunKernel(L(k), units, red) = 1..w
    BY <2>2, <2>5, KernelLeaves
  <2> QED BY <2>1, <2>3, <2>4, <2>5, <2>6, <2>7
<1>3. Same \in SUBSET (0..n)
  OBVIOUS
<1>4. Same = 0..n
  <2> HIDE DEF Same
  <2> QED BY <1>1, <1>2, <1>3, IntervalInduction
<1>5. G(n) = Spread(L(n), red, base)
  BY <1>4
<1>6. ExpandPayload(vec, kernels, red) = L(n)
  BY ExpandPayloadRun
<1>7. ExpandPayload(Spread(vec, red, base), gk, OrgName) = G(n)
  <2>1. Len(gk) \in Nat
    BY <1>0
  <2> HIDE DEF gk
  <2> QED BY <1>0, <2>1, ExpandPayloadRun
<1> QED BY <1>5, <1>6, <1>7

-----------------------------------------------------------------------------
(* The kernels of a plan: what their threads may write.                    *)

AtMostOne(S) == \A a, b \in S : a = b

\* The threads of a payload's kernels do not disagree.  A structural kernel,
\* which reads and writes in place, has one thread; the cached kernel of the
\* component rules may have any number.
Shaped(kind, kernels) ==
  /\ Len(kernels) \in Nat \ {0} /\ DOMAIN kernels = 1..Len(kernels)
  /\ \A i \in 1..Len(kernels) : WellMade(kernels[i])
  /\ kind = "StructuralL1" => \A i \in 1..Len(kernels) : AtMostOne(kernels[i])
  /\ kind = "AntipodalComponent" => Len(kernels) = 1

\* A kernel of one thread.
LEMMA OneThread ==
  ASSUME NEW units, AtMostOne(units), \A u \in units : OneAssignment(u)
  PROVE  WellMade(units)
BY DEF WellMade, OneWriter, AtMostOne

LEMMA RecordShaped ==
  ASSUME NEW m \in Nat, NEW w \in Nat, NEW r \in RecordChoices(m, w)
  PROVE  OneAssignment(r.unit)
<1>1. \A c, S : OneAssignment(Substitution(c, S))
  BY DEF OneAssignment, Substitution
<1>2. \A a, b : OneAssignment(DuplicateSplit(a, b))
  BY DEF OneAssignment, DuplicateSplit, Assign
<1>3. OneAssignment(RowsOnly)
  BY DEF OneAssignment, RowsOnly
<1>4. \/ r.unit \in {Substitution(c, S) : c \in 1..w, S \in SUBSET (1..w)}
      \/ r.unit \in {DuplicateSplit(a, b) : a \in 1..w, b \in 1..w}
      \/ r.unit = RowsOnly
  BY DEF RecordChoices
<1> QED BY <1>1, <1>2, <1>3, <1>4

LEMMA TapePlanShaped ==
  ASSUME NEW m \in Nat, NEW w \in Nat, NEW rows, NEW p \in TapePlans(rows, m, w)
  PROVE  \A i \in 1..Len(p.records) : OneAssignment(p.records[i].unit)
<1> DEFINE Lists == {r \in UNION {[1..k -> RecordChoices(m, w)] : k \in 0..MaxRecords} :
                        WellOrdered(r)}
<1>1. PICK r \in Lists :
        \E fixed \in SUBSET ((1..w) \ (TapeWrites(r) \ TapeEliminated(r))) :
          p = [keepRow |-> rows, keepCol |-> (1..w) \ (fixed \cup TapeEliminated(r)),
               fixed |-> fixed, records |-> r, kind |-> "none", kernels |-> NoPayload]
  BY Zenon DEF TapePlans
<1>2. p.records = r
  BY <1>1
<1>3. PICK k \in 0..MaxRecords : r \in [1..k -> RecordChoices(m, w)]
  BY <1>1
<1>4. k \in Nat /\ Len(r) = k
  BY <1>3, RecordAssumption
<1>5. \A i \in 1..k : r[i] \in RecordChoices(m, w)
  BY <1>3
<1> HIDE DEF Lists
<1> QED BY <1>2, <1>4, <1>5, RecordShaped

LEMMA StructuralShaped ==
  ASSUME NEW w \in Nat, NEW kernels \in StructuralPayloads(w)
  PROVE  Shaped("StructuralL1", kernels)
<1>1. PICK p \in Distinct(1..w) :
        kernels \in
          LET t == p[1]
              rest == (1..w) \ {p[1], p[2]}
          IN {StructuralPayload({p}, {}, {}, {})}
              \cup {StructuralPayload({p}, {}, {}, {<<s, {t}>>}) : s \in rest}
              \cup {StructuralPayload({p}, {}, {<<s, t>>}, {}) : s \in rest}
              \cup {StructuralPayload({p}, {o}, {}, {}) : o \in Distinct(rest)}
  BY DEF StructuralPayloads
<1>2. p[1] # p[2]
  BY DEF Distinct
<1> DEFINE Split == {{Assign(q[1], {q[1], q[2]}), Assign(q[2], {q[1], q[2]})} : q \in {p}}
           Outer(S) == {{Assign(q[2], {q[1]})} : q \in S}
           Linked(S) == {{Assign(q[1], {q[2]})} : q \in S}
           Slack(S) == {{Assign(q[1], q[2])} : q \in S}
<1>3. PICK A, B, C : /\ kernels = StructuralPayload({p}, A, B, C)
                     /\ AtMostOne(A) /\ AtMostOne(B) /\ AtMostOne(C)
  <2>1. AtMostOne({}) /\ \A q : AtMostOne({q})
    BY DEF AtMostOne
  <2> QED BY <1>1, <2>1
<1>4. AtMostOne(Split) /\ \A u \in Split : OneAssignment(u)
  <2> DEFINE unit == {Assign(p[1], {p[1], p[2]}), Assign(p[2], {p[1], p[2]})}
  <2>1. \A u \in Split : u = unit
    BY Zenon
  <2>2. OneAssignment(unit)
    <3>1. \A a \in unit : a = Assign(p[1], {p[1], p[2]}) \/ a = Assign(p[2], {p[1], p[2]})
      OBVIOUS
    <3>2. Assign(p[1], {p[1], p[2]}).to = p[1] /\ Assign(p[2], {p[1], p[2]}).to = p[2]
      BY DEF Assign
    <3> HIDE DEF unit
    <3> QED BY <1>2, <3>1, <3>2 DEF OneAssignment
  <2> HIDE DEF Split, unit
  <2> QED BY <2>1, <2>2 DEF AtMostOne
<1>5. AtMostOne(Outer(A)) /\ \A u \in Outer(A) : OneAssignment(u)
  BY <1>3 DEF AtMostOne, OneAssignment
<1>6. AtMostOne(Linked(B)) /\ \A u \in Linked(B) : OneAssignment(u)
  BY <1>3 DEF AtMostOne, OneAssignment
<1>7. AtMostOne(Slack(C)) /\ \A u \in Slack(C) : OneAssignment(u)
  BY <1>3 DEF AtMostOne, OneAssignment
<1>8. kernels = <<Split, Outer(A), Linked(B), Slack(C)>>
  BY <1>3 DEF StructuralPayload
<1> HIDE DEF Split, Outer, Linked, Slack
<1>9. Len(kernels) = 4 /\ DOMAIN kernels = 1..4
  BY <1>8
<1>10. \A i \in 1..4 : AtMostOne(kernels[i]) /\ \A u \in kernels[i] : OneAssignment(u)
  BY <1>4, <1>5, <1>6, <1>7, <1>8
<1>11. \A i \in 1..4 : WellMade(kernels[i])
  BY <1>10, OneThread
<1> QED BY <1>9, <1>10, <1>11 DEF Shaped

LEMMA AntipodalShaped ==
  ASSUME NEW r \in Nat, NEW root
  PROVE  Shaped("AntipodalComponent", AntipodalPayload(root, r))
<1> DEFINE unit(i) == {Assign(i, {root[i]}), Assign(i + r, {root[i] + r})}
           units == {unit(i) : i \in 1..r}
<1>1. AntipodalPayload(root, r) = << units >>
  BY DEF AntipodalPayload
<1>2. \A i \in 1..r : Writes(unit(i)) = {i, i + r}
  BY DEF Writes, Assign
<1>3. \A i \in 1..r : OneAssignment(unit(i))
  <2>1. \A i \in 1..r : i # i + r
    OBVIOUS
  <2> QED BY <2>1 DEF OneAssignment, Assign
<1>4. ASSUME NEW i \in 1..r, NEW j \in 1..r, Writes(unit(i)) \cap Writes(unit(j)) # {}
      PROVE  i = j
  <2>1. {i, i + r} \cap {j, j + r} # {}
    <3> HIDE DEF unit
    <3> QED BY <1>2, <1>4
  <2> QED BY <2>1
<1> HIDE DEF unit
<1>5. WellMade(units)
  <2>1. OneWriter(units)
    BY <1>4 DEF OneWriter
  <2> QED BY <2>1, <1>3 DEF WellMade
<1> HIDE DEF units
<1> QED BY <1>1, <1>5 DEF Shaped

\* Every plan is shaped so.
LEMMA PlanShaped ==
  ASSUME NEW m \in Nat, NEW w \in Nat, NEW p \in Plans(m, w)
  PROVE  \/ p.kernels = NoPayload /\ \A i \in 1..Len(p.records) : OneAssignment(p.records[i].unit)
         \/ Shaped(p.kind, p.kernels)
<1>1. ASSUME NEW rows, p \in TapePlans(rows, m, w)
      PROVE  p.kernels = NoPayload /\ \A i \in 1..Len(p.records) : OneAssignment(p.records[i].unit)
  <2>1. TapeFacts(p, m, w)
    BY <1>1, TapePlanFacts
  <2> QED BY <1>1, <2>1, TapePlanShaped DEF TapeFacts
<1>2. ASSUME NEW rows, p \in StructuralPlans(rows, w)
      PROVE  Shaped(p.kind, p.kernels)
  <2>1. PICK kernels \in StructuralPayloads(w) :
          p = [keepRow |-> rows, keepCol |-> (1..w) \ Eliminated(UnitsOf(kernels)), fixed |-> {},
               records |-> << >>, kind |-> "StructuralL1", kernels |-> kernels]
    BY <1>2, Zenon DEF StructuralPlans
  <2>2. p.kind = "StructuralL1" /\ p.kernels = kernels
    BY <2>1
  <2> QED BY <2>2, StructuralShaped
<1>3. ASSUME NEW rows, p \in AntipodalPlans(rows, w)
      PROVE  Shaped(p.kind, p.kernels)
  <2>1. PICK root \in UNION {Roots(r) : r \in {q \in 1..w : 2 * q <= w}} :
          p \in LET kernels == AntipodalPayload(root, Cardinality(DOMAIN root))
                    elim == Eliminated(UnitsOf(kernels)) IN
                {[keepRow |-> rows, keepCol |-> (1..w) \ (fixed \cup elim), fixed |-> fixed,
                  records |-> << >>, kind |-> "AntipodalComponent", kernels |-> kernels] :
                   fixed \in SUBSET (Touches(UNION UnitsOf(kernels)) \ elim)}
    BY <1>3, Zenon DEF AntipodalPlans
  <2> DEFINE pairs == Cardinality(DOMAIN root)
             payload == AntipodalPayload(root, pairs)
  <2>2. pairs \in Nat
    <3>1. PICK r \in 1..w : root \in [1..r -> 1..r]
      BY <2>1 DEF Roots
    <3>2. DOMAIN root = 1..r /\ r \in Int /\ 1 \in Int /\ ~(1 > r)
      BY <3>1
    <3>3. Cardinality(1..r) = IF 1 > r THEN 0 ELSE r - 1 + 1
      BY <3>2, FS_Interval
    <3> QED BY <3>2, <3>3
  <2> HIDE DEF pairs
  <2>3. p.kind = "AntipodalComponent" /\ p.kernels = payload
    <3> HIDE DEF payload
    <3> QED BY <2>1 DEF payload, pairs
  <2> HIDE DEF payload
  <2>4. Shaped("AntipodalComponent", payload)
    BY <2>2, AntipodalShaped DEF payload
  <2> QED BY <2>3, <2>4
<1> QED BY <1>1, <1>2, <1>3 DEF Plans

-----------------------------------------------------------------------------
(* What is known of the original columns.                                  *)

\* The fixed columns have their value, the live ones that of v, and the
\* columns the log has yet to bring back are cleared.
Known(fx, live, v) ==
  [c \in OrgCols |-> IF c \in fx THEN Fixed(c) ELSE IF c \in live THEN v[c] ELSE Zero]
\* Without the columns of the LP.
Apart(fx) == Known(fx, {}, << >>)

\* The slots a plan leaves to be undone: start in UndoPlan.
StartOf(red, w, keep, gone, v) ==
  [i \in 1..w |-> IF i \in keep THEN v[red[i]]
                  ELSE IF i \in gone THEN Fixed(red[i]) ELSE Zero]

Splits(keep, gone, w) ==
  /\ keep \in SUBSET (1..w) /\ gone \in SUBSET (1..w)
  /\ keep \cap gone = {}

LEMMA KnownStart ==
  ASSUME NEW w \in Nat, NEW red \in [1..w -> OrgCols], OneToOne(red, w),
         NEW keep, NEW gone, Splits(keep, gone, w),
         NEW fx, fx \cap RangeOf(red) = {}, NEW v
  PROVE  Known(fx \cup Image(red, gone), Image(red, keep), v)
           = Spread(StartOf(red, w, keep, gone, v), red, Apart(fx))
<1> DEFINE fx2 == fx \cup Image(red, gone)
           live2 == Image(red, keep)
           z == Known(fx2, live2, v)
           start == StartOf(red, w, keep, gone, v)
<1>1. OverOrg(z)
  BY DEF OverOrg, Known
<1>2. \A c \in OrgCols : z[c] = IF c \in fx2 THEN Fixed(c) ELSE IF c \in live2 THEN v[c] ELSE Zero
  BY DEF Known
<1>3. ASSUME NEW i \in 1..w
      PROVE  z[red[i]] = start[i]
  <2>1. red[i] \in OrgCols /\ red[i] \notin fx
    BY DEF RangeOf
  <2>2. red[i] \in fx2 <=> i \in gone
    BY <2>1 DEF OneToOne, Image, Splits
  <2>3. red[i] \in live2 <=> i \in keep
    BY DEF OneToOne, Image, Splits
  <2>4. start[i] = IF i \in keep THEN v[red[i]]
                   ELSE IF i \in gone THEN Fixed(red[i]) ELSE Zero
    BY DEF StartOf
  <2>5. ~(i \in keep /\ i \in gone)
    BY DEF Splits
  <2> HIDE DEF z, start, fx2, live2
  <2> QED BY <1>2, <2>1, <2>2, <2>3, <2>4, <2>5
<1>4. ASSUME NEW c \in OrgCols, c \notin RangeOf(red)
      PROVE  z[c] = Apart(fx)[c]
  <2>1. c \notin live2 /\ (c \in fx2 <=> c \in fx)
    BY <1>4 DEF RangeOf, Image, Splits
  <2>2. Apart(fx)[c] = IF c \in fx THEN Fixed(c) ELSE Zero
    BY DEF Apart, Known
  <2> HIDE DEF z, fx2, live2
  <2> QED BY <1>2, <2>1, <2>2
<1> HIDE DEF z, start
<1>5. z = Spread(start, red, Apart(fx))
  BY <1>1, <1>3, <1>4, SpreadIs
<1> QED BY <1>5 DEF z, start

\* The values of the columns of an LP, by original column.
Gathered(vec, red) == [c \in RangeOf(red) |-> vec[CHOOSE i \in DOMAIN red : red[i] = c]]

LEMMA KnownEnd ==
  ASSUME NEW w \in Nat, NEW red \in [1..w -> OrgCols], OneToOne(red, w), NEW vec,
         NEW fx, fx \cap RangeOf(red) = {}
  PROVE  Known(fx, RangeOf(red), Gathered(vec, red)) = Spread(vec, red, Apart(fx))
<1> DEFINE value(c) == vec[CHOOSE i \in DOMAIN red : red[i] = c]
<1>1. ASSUME NEW c \in OrgCols
      PROVE  (IF c \in fx THEN Fixed(c) ELSE IF c \in RangeOf(red) THEN Gathered(vec, red)[c] ELSE Zero)
               = IF c \in RangeOf(red) THEN value(c) ELSE Apart(fx)[c]
  <2>1. c \in RangeOf(red) => Gathered(vec, red)[c] = value(c)
    BY DEF Gathered
  <2>2. Apart(fx)[c] = IF c \in fx THEN Fixed(c) ELSE Zero
    BY DEF Apart, Known
  <2>3. ~(c \in fx /\ c \in RangeOf(red))
    OBVIOUS
  <2> HIDE DEF value
  <2> QED BY <2>1, <2>2, <2>3
<1>2. Spread(vec, red, Apart(fx)) = [c \in OrgCols |-> IF c \in RangeOf(red) THEN value(c) ELSE Apart(fx)[c]]
  BY DEF Spread
<1> HIDE DEF value
<1> QED BY <1>1, <1>2 DEF Known

\* What undoing a plan gives, in these terms.
LEMMA UndoPlanIs ==
  ASSUME NEW w \in Nat, NEW red \in [1..w -> OrgCols], NEW plan, NEW v
  PROVE  UndoPlan([cols |-> red, plan |-> plan], v)
           = Gathered(ExpandPayload(UndoRecords(StartOf(red, w, plan.keepCol, plan.fixed, v), plan.records, red),
                                    plan.kernels, red), red)
<1> DEFINE h == [cols |-> red, plan |-> plan]
           start(g) == [i \in DOMAIN g.cols |->
                          IF i \in g.plan.keepCol THEN v[g.cols[i]]
                          ELSE IF i \in g.plan.fixed THEN Fixed(g.cols[i]) ELSE Zero]
           undone(g) == ExpandPayload(UndoRecords(start(g), g.plan.records, g.cols),
                                      g.plan.kernels, g.cols)
<1>1. UndoPlan(h, v) = [c \in RangeOf(h.cols) |-> undone(h)[CHOOSE i \in DOMAIN h.cols : h.cols[i] = c]]
  BY Zenon DEF UndoPlan
<1>2. h.cols = red /\ h.plan = plan
  OBVIOUS
<1> HIDE DEF h
<1>3. start(h) = StartOf(red, w, plan.keepCol, plan.fixed, v)
  BY <1>2 DEF StartOf
<1>4. undone(h) = ExpandPayload(UndoRecords(StartOf(red, w, plan.keepCol, plan.fixed, v), plan.records, red),
                                plan.kernels, red)
  <2> HIDE DEF start
  <2> QED BY <1>2, <1>3
<1>5. UndoPlan(h, v) = Gathered(undone(h), red)
  <2> HIDE DEF undone
  <2> QED BY <1>1, <1>2 DEF Gathered
<1> QED BY <1>4, <1>5 DEF h

-----------------------------------------------------------------------------
(* A plan and the entries it adds to the log undo each other's way.        *)

KnownNow(v) == Known(RangeOf(fixedIdx), RangeOf(lpCols), v)
Committed(p) == [cols |-> lpCols, plan |-> p]

LEMMA LogLength ==
  ASSUME NEW tp, NEW tl, NEW pl, Len(tp) \in Nat, Len(tl) \in Nat
  PROVE  Len(LogOf(tp, tl, pl)) = Len(tp) + Len(tl)
<1> DEFINE n == Len(tp) + Len(tl)
           entry(q) == IF \E i \in DOMAIN tl : tl[i].position + i = q
                       THEN LET c == tl[CHOOSE i \in DOMAIN tl : tl[i].position + i = q]
                            IN pl[c.kind][c.payload]
                       ELSE << {tp[q - Cardinality({i \in DOMAIN tl : tl[i].position + i < q})].unit} >>
<1>1. LogOf(tp, tl, pl) = [q \in 1..n |-> entry(q)]
  BY Zenon DEF LogOf
<1> HIDE DEF entry
<1> QED BY <1>1

\* The start of a plan's undoing, in the LP that presolve has now.
LEMMA KnownStartNow ==
  ASSUME RecordInv, NEW keep, NEW gone, Splits(keep, gone, Len(lpCols)), NEW v
  PROVE  Known(RangeOf(fixedIdx) \cup Image(lpCols, gone), Image(lpCols, keep), v)
           = Spread(StartOf(lpCols, Len(lpCols), keep, gone, v), lpCols, Apart(RangeOf(fixedIdx)))
<1> DEFINE w == Len(lpCols)
           fx == RangeOf(fixedIdx)
<1>1. w \in Nat /\ lpCols \in [1..w -> OrgCols] /\ OneToOne(lpCols, w) /\ colRed2org = lpCols
  BY MapFacts DEF OneToOne
<1>2. fx \cap RangeOf(lpCols) = {}
  BY <1>1 DEF RecordInv, FixedLeft
<1>3. Splits(keep, gone, w)
  OBVIOUS
<1> HIDE DEF w, fx
<1>4. Known(fx \cup Image(lpCols, gone), Image(lpCols, keep), v)
        = Spread(StartOf(lpCols, w, keep, gone, v), lpCols, Apart(fx))
  BY <1>1, <1>2, <1>3, KnownStart
<1> QED BY <1>4 DEF w, fx

\* And the end.
LEMMA KnownEndNow ==
  ASSUME RecordInv, NEW vec
  PROVE  KnownNow(Gathered(vec, lpCols)) = Spread(vec, lpCols, Apart(RangeOf(fixedIdx)))
<1> DEFINE w == Len(lpCols)
           fx == RangeOf(fixedIdx)
<1>1. w \in Nat /\ lpCols \in [1..w -> OrgCols] /\ OneToOne(lpCols, w) /\ colRed2org = lpCols
  BY MapFacts DEF OneToOne
<1>2. fx \cap RangeOf(lpCols) = {}
  BY <1>1 DEF RecordInv, FixedLeft
<1> HIDE DEF w, fx
<1>3. Known(fx, RangeOf(lpCols), Gathered(vec, lpCols)) = Spread(vec, lpCols, Apart(fx))
  BY <1>1, <1>2, KnownEnd
<1> QED BY <1>3 DEF fx, KnownNow

\* It is enough that the new entries undo the plan in its own indices.
LEMMA UndoneSuffices ==
  ASSUME RecordInv, NEW p \in Plans(Len(lpRows), Len(lpCols)), ApplyPlan(p),
         p.keepCol \cap p.fixed = {}, p.fixed \in SUBSET (1..Len(lpCols)),
         NEW v, NEW fresh, Len(fresh) \in Nat, Len(Log) \in Nat,
         Len(Log') = Len(Log) + Len(fresh),
         \A q \in 1..Len(Log) : Log'[q] = Log[q],
         \A q \in 1..Len(fresh) : Log'[Len(Log) + q] = fresh[q],
         LET start == StartOf(lpCols, Len(lpCols), p.keepCol, p.fixed, v)
             base == Apart(RangeOf(fixedIdx))
         IN Replay(fresh, Spread(start, lpCols, base))
              = Spread(ExpandPayload(UndoRecords(start, p.records, lpCols), p.kernels, lpCols),
                       lpCols, base)
  PROVE  Replay(Log', KnownNow(v)') = Replay(Log, KnownNow(UndoPlan(Committed(p), v)))
<1> DEFINE w == Len(lpCols)
           start == StartOf(lpCols, w, p.keepCol, p.fixed, v)
           base == Apart(RangeOf(fixedIdx))
           undone == ExpandPayload(UndoRecords(start, p.records, lpCols), p.kernels, lpCols)
           fx == RangeOf(fixedIdx)
<1>1. /\ w \in Nat /\ lpCols \in [1..w -> OrgCols] /\ OneToOne(lpCols, w)
      /\ colRed2org = lpCols
  BY MapFacts DEF OneToOne
<1>2. fx \cap RangeOf(lpCols) = {}
  BY <1>1 DEF RecordInv, FixedLeft
<1>3. p.keepCol \in SUBSET (1..w)
  <2>1. Len(lpRows) \in Nat
    BY MapFacts
  <2> QED BY <1>1, <2>1, PlanKeeps
<1>4. /\ RangeOf(fixedIdx') = fx \cup Image(lpCols, p.fixed)
      /\ RangeOf(lpCols') = Image(lpCols, p.keepCol)
  <2>1. /\ RangeOf(colRed2org') = {colRed2org[j] : j \in p.keepCol}
        /\ RangeOf(fixedIdx') = RangeOf(fixedIdx) \cup {colRed2org[j] : j \in p.fixed}
        /\ MapsInv'
    BY MapsStep
  <2>2. colRed2org' = lpCols'
    BY <2>1 DEF MapsInv, MapsMatchLp
  <2> QED BY <1>1, <2>1, <2>2 DEF Image
<1>5. KnownNow(v)' = Spread(start, lpCols, base)
  <2>1. Known(fx \cup Image(lpCols, p.fixed), Image(lpCols, p.keepCol), v)
          = Spread(start, lpCols, base)
    <3>1. Splits(p.keepCol, p.fixed, w)
      BY <1>3 DEF Splits
    <3> QED BY <3>1, KnownStartNow
  <2>2. KnownNow(v)' = Known(RangeOf(fixedIdx'), RangeOf(lpCols'), v)
    BY DEF KnownNow
  <2> QED BY <1>4, <2>1, <2>2
<1>6. KnownNow(UndoPlan(Committed(p), v)) = Spread(undone, lpCols, base)
  <2>1. UndoPlan(Committed(p), v) = Gathered(undone, lpCols)
    BY <1>1, UndoPlanIs DEF Committed
  <2> HIDE DEF undone
  <2>2. KnownNow(Gathered(undone, lpCols)) = Spread(undone, lpCols, base)
    BY KnownEndNow
  <2> QED BY <2>1, <2>2
<1>7. Replay(Log', KnownNow(v)') = Replay(Log, Replay(fresh, KnownNow(v)'))
  <2> HIDE DEF Log, Replay
  <2> QED BY ReplayParts
<1> HIDE DEF start, base, undone
<1>8. Replay(fresh, Spread(start, lpCols, base)) = Spread(undone, lpCols, base)
  BY DEF start, base, undone
<1> QED BY <1>5, <1>6, <1>7, <1>8

LEMMA TapeUndone ==
  ASSUME RecordInv, NEW p \in Plans(Len(lpRows), Len(lpCols)), ApplyPlan(p),
         TapeFacts(p, Len(lpRows), Len(lpCols)), TapeStep(p),
         \A i \in 1..Len(p.records) : OneAssignment(p.records[i].unit),
         NEW v
  PROVE  Replay(Log', KnownNow(v)') = Replay(Log, KnownNow(UndoPlan(Committed(p), v)))
<1> DEFINE w == Len(lpCols)
           k == Len(p.records)
           fresh == [i \in 1..k |-> << {RenameUnit(lpCols, p.records[i].unit)} >>]
           start == StartOf(lpCols, w, p.keepCol, p.fixed, v)
           base == Apart(RangeOf(fixedIdx))
<1>1. /\ w \in Nat /\ lpCols \in [1..w -> OrgCols] /\ OneToOne(lpCols, w)
      /\ colRed2org = lpCols
  BY MapFacts DEF OneToOne
<1>2. /\ p.kernels = NoPayload /\ p.keepCol \cap p.fixed = {} /\ p.fixed \in SUBSET (1..w)
  BY DEF TapeFacts
<1>3. /\ k \in Nat /\ Len(tape') = Len(tape) + k
      /\ UNCHANGED <<payloads, timeline>>
      /\ \A i \in 1..k : p.records[i].unit \in LocalUnits(w)
      /\ \A q \in 1..(Len(tape) + Len(timeline)) :
           LogOf(tape', timeline, payloads)[q] = LogOf(tape, timeline, payloads)[q]
      /\ \A i \in 1..k :
           LogOf(tape', timeline, payloads)[Len(tape) + Len(timeline) + i]
             = << {RenameUnit(colRed2org, p.records[i].unit)} >>
  BY TapeStepAdds
<1>4. Len(Log) = Len(tape) + Len(timeline) /\ Len(tape) \in Nat /\ Len(timeline) \in Nat
  BY LogTyped
<1>5. Log' = LogOf(tape', timeline, payloads)
  BY <1>3 DEF Log
<1>6. Len(Log') = Len(Log) + k
  <2>1. Len(tape') \in Nat
    BY <1>3, <1>4
  <2>2. Len(LogOf(tape', timeline, payloads)) = Len(tape') + Len(timeline)
    BY <2>1, <1>4, LogLength
  <2>3. Len(Log') = Len(tape') + Len(timeline)
    BY <1>5, <2>2
  <2>4. Len(tape') + Len(timeline) = (Len(tape) + Len(timeline)) + k
    <3> HIDE DEF k
    <3> QED BY <1>3, <1>4
  <2> QED BY <1>4, <2>3, <2>4
<1>7. Len(fresh) = k /\ \A i \in 1..k : fresh[i] = << {RenameUnit(lpCols, p.records[i].unit)} >>
  BY <1>3
<1> HIDE DEF fresh
<1>8. /\ \A q \in 1..Len(Log) : Log'[q] = Log[q]
      /\ \A q \in 1..k : Log'[Len(Log) + q] = fresh[q]
  <2>1. \A q \in 1..Len(Log) : Log'[q] = Log[q]
    BY <1>3, <1>4, <1>5 DEF Log
  <2>2. \A q \in 1..k : Log'[Len(Log) + q] = fresh[q]
    BY <1>1, <1>3, <1>4, <1>5, <1>7
  <2> QED BY <2>1, <2>2
<1>9. DOMAIN start = 1..w
  BY DEF StartOf
<1>10. Replay(fresh, Spread(start, lpCols, base)) = Spread(UndoRecords(start, p.records, lpCols), lpCols, base)
  <2> DEFINE records == p.records
  <2>1. RecordsOver(records, w)
    BY <1>3 DEF RecordsOver
  <2>2. EntriesOf(fresh, records, lpCols)
    BY <1>7 DEF EntriesOf
  <2> HIDE DEF start, base, w, records
  <2>3. Replay(fresh, Spread(start, lpCols, base)) = Spread(UndoRecords(start, records, lpCols), lpCols, base)
    BY <1>1, <1>9, <2>1, <2>2, RecordsRenamed
  <2> QED BY <2>3 DEF records
<1>11. ExpandPayload(UndoRecords(start, p.records, lpCols), p.kernels, lpCols)
         = UndoRecords(start, p.records, lpCols)
  <2>1. Len(p.kernels) = 0
    BY <1>2 DEF NoPayload
  <2> QED BY <2>1, ExpandNothing
<1>12. Replay(fresh, Spread(start, lpCols, base))
         = Spread(ExpandPayload(UndoRecords(start, p.records, lpCols), p.kernels, lpCols), lpCols, base)
  BY <1>10, <1>11
<1>13. Len(fresh) \in Nat /\ Len(Log) \in Nat /\ Len(Log') = Len(Log) + Len(fresh)
  BY <1>3, <1>4, <1>6, <1>7
<1>14. \A q \in 1..Len(fresh) : Log'[Len(Log) + q] = fresh[q]
  BY <1>7, <1>8
<1> QED BY <1>2, <1>8, <1>12, <1>13, <1>14, UndoneSuffices

LEMMA PayloadUndone ==
  ASSUME RecordInv, NEW p \in Plans(Len(lpRows), Len(lpCols)), ApplyPlan(p),
         PayloadFacts(p, Len(lpCols)), PayloadStep(p), Shaped(p.kind, p.kernels),
         NEW v
  PROVE  Replay(Log', KnownNow(v)') = Replay(Log, KnownNow(UndoPlan(Committed(p), v)))
<1> DEFINE w == Len(lpCols)
           entry == GlobalizePayload(p.kernels, lpCols)
           fresh == << entry >>
           start == StartOf(lpCols, w, p.keepCol, p.fixed, v)
           base == Apart(RangeOf(fixedIdx))
<1>1. /\ w \in Nat /\ lpCols \in [1..w -> OrgCols] /\ OneToOne(lpCols, w)
      /\ colRed2org = lpCols
  BY MapFacts DEF OneToOne
<1>2. /\ p.records = << >> /\ p.keepCol \cap p.fixed = {} /\ p.fixed \in SUBSET (1..w)
      /\ p.kernels \in Seq(SUBSET LocalUnits(w))
  BY DEF PayloadFacts
<1>3. /\ tape' = tape /\ Len(timeline') = Len(timeline) + 1
      /\ \A q \in 1..(Len(tape) + Len(timeline)) :
           LogOf(tape', timeline', payloads')[q] = LogOf(tape, timeline, payloads)[q]
      /\ LogOf(tape', timeline', payloads')[Len(tape) + Len(timeline) + 1] = entry
  BY <1>1, PayloadStepAdds
<1>4. Len(Log) = Len(tape) + Len(timeline) /\ Len(tape) \in Nat /\ Len(timeline) \in Nat
  BY LogTyped
<1>5. Log' = LogOf(tape', timeline', payloads')
  BY DEF Log
<1>6. Len(Log') = Len(Log) + 1
  <2>1. Len(tape') \in Nat /\ Len(timeline') \in Nat
    BY <1>3, <1>4
  <2>2. Len(LogOf(tape', timeline', payloads')) = Len(tape') + Len(timeline')
    BY <2>1, LogLength
  <2> QED BY <1>3, <1>4, <1>5, <2>2
<1> HIDE DEF entry
<1>7. Len(fresh) = 1 /\ fresh[1] = entry
  OBVIOUS
<1> HIDE DEF fresh
<1>8. /\ \A q \in 1..Len(Log) : Log'[q] = Log[q]
      /\ \A q \in 1..1 : Log'[Len(Log) + q] = fresh[q]
  <2>1. \A q \in 1..Len(Log) : Log'[q] = Log[q]
    BY <1>3, <1>4, <1>5 DEF Log
  <2>2. Log'[Len(Log) + 1] = fresh[1]
    BY <1>3, <1>4, <1>5, <1>7
  <2> QED BY <2>1, <2>2
<1>9. DOMAIN start = 1..w
  BY DEF StartOf
<1>10. ExpandPayload(Spread(start, lpCols, base), entry, OrgName)
         = Spread(ExpandPayload(start, p.kernels, lpCols), lpCols, base)
  <2>1. /\ Len(p.kernels) \in Nat /\ DOMAIN p.kernels = 1..Len(p.kernels)
        /\ \A i \in 1..Len(p.kernels) : WellMade(p.kernels[i])
    BY DEF Shaped
  <2>2. \A i \in 1..Len(p.kernels) : p.kernels[i] \in SUBSET LocalUnits(w)
    <3> HIDE DEF w
    <3> QED BY <1>2, <2>1, ElementOfSeq
  <2>3. \A i \in 1..Len(p.kernels) : p.kernels[i] \in SUBSET LocalUnits(w) /\ WellMade(p.kernels[i])
    BY <2>1, <2>2
  <2> HIDE DEF start, base, w
  <2> QED BY <1>1, <1>9, <2>1, <2>3, KernelsRenamed DEF entry
<1>11. UndoRecords(start, p.records, lpCols) = start
  <2>1. Len(p.records) = 0
    BY <1>2
  <2> QED BY <2>1, UndoNoRecords
<1>12. Replay(fresh, Spread(start, lpCols, base)) = ExpandPayload(Spread(start, lpCols, base), entry, OrgName)
  <2> DEFINE y == Spread(start, lpCols, base)
  <2>1. Len(<< >>) = 0 /\ Len(fresh) = Len(<< >>) + 1 /\ \A q \in 1..Len(<< >>) : fresh[q] = << >>[q]
    BY <1>7
  <2> HIDE DEF y
  <2>2. Replay(fresh, y) = Replay(<< >>, ExpandPayload(y, fresh[Len(fresh)], OrgName))
    BY <2>1, ReplayLast
  <2>3. Replay(<< >>, ExpandPayload(y, entry, OrgName)) = ExpandPayload(y, entry, OrgName)
    BY <2>1, ReplayNothing
  <2>4. Replay(fresh, y) = ExpandPayload(y, entry, OrgName)
    BY <1>7, <2>2, <2>3
  <2> QED BY <2>4 DEF y
<1>13. Replay(fresh, Spread(start, lpCols, base))
         = Spread(ExpandPayload(UndoRecords(start, p.records, lpCols), p.kernels, lpCols), lpCols, base)
  BY <1>10, <1>11, <1>12
<1>14. Len(fresh) \in Nat /\ Len(Log) \in Nat /\ Len(Log') = Len(Log) + Len(fresh)
  BY <1>4, <1>6, <1>7
<1>15. \A q \in 1..Len(fresh) : Log'[Len(Log) + q] = fresh[q]
  BY <1>7, <1>8
<1> QED BY <1>2, <1>8, <1>13, <1>14, <1>15, UndoneSuffices

\* Replaying the log after a commit is replaying the log before it from
\* where undoing the plan ends.
LEMMA CommitUndone ==
  ASSUME RecordInv, NEW p \in Plans(Len(lpRows), Len(lpCols)), ApplyPlan(p), NEW v
  PROVE  Replay(Log', KnownNow(v)') = Replay(Log, KnownNow(UndoPlan(Committed(p), v)))
<1>1. Len(lpRows) \in Nat /\ Len(lpCols) \in Nat
  BY MapFacts
<1>2. \/ p.kernels = NoPayload /\ \A i \in 1..Len(p.records) : OneAssignment(p.records[i].unit)
      \/ Shaped(p.kind, p.kernels)
  BY <1>1, PlanShaped
<1>3. Shaped(p.kind, p.kernels) => p.kernels # NoPayload
  <2>1. Len(NoPayload) = 0
    BY DEF NoPayload
  <2> QED BY <2>1 DEF Shaped
<1>4. ASSUME TapeFacts(p, Len(lpRows), Len(lpCols)), TapeStep(p)
      PROVE  Replay(Log', KnownNow(v)') = Replay(Log, KnownNow(UndoPlan(Committed(p), v)))
  <2>1. p.kernels = NoPayload
    BY <1>4 DEF TapeFacts
  <2> QED BY <1>2, <1>3, <1>4, <2>1, TapeUndone
<1>5. ASSUME PayloadFacts(p, Len(lpCols)), PayloadStep(p)
      PROVE  Replay(Log', KnownNow(v)') = Replay(Log, KnownNow(UndoPlan(Committed(p), v)))
  <2>1. p.kernels # NoPayload
    BY <1>5 DEF PayloadFacts
  <2> QED BY <1>2, <1>5, <2>1, PayloadUndone
<1> QED BY <1>4, <1>5, StepCases

-----------------------------------------------------------------------------
(* What presolve keeps true of the record and of the plans it came from.   *)

PayloadsShaped ==
  \A kind \in Kinds : \A q \in 1..Len(payloads[kind]) : Shaped(kind, payloads[kind][q])

Committals == [cols : Seq(OrgCols), plan : UNION {Plans(m, n) : m \in Nat, n \in Nat}]

\* Values of the columns of the LP, and of no other.
OverLive(v) == v = [c \in RangeOf(lpCols) |-> v[c]]

\* The log undoes what the plans did.
HistoryInv ==
  /\ history \in Seq(Committals)
  /\ \A v : OverLive(v) => UndoAll(history, v) = Replay(Log, KnownNow(v))

PresolveInv == RecordInv /\ PayloadsShaped /\ HistoryInv

\* A payload keeps its shape when it is renamed.
LEMMA RenamedShaped ==
  ASSUME NEW w \in Nat, NEW red \in [1..w -> OrgCols], OneToOne(red, w),
         NEW kind, NEW kernels \in Seq(SUBSET LocalUnits(w)), Shaped(kind, kernels)
  PROVE  Shaped(kind, GlobalizePayload(kernels, red))
<1> DEFINE entry == GlobalizePayload(kernels, red)
           n == Len(kernels)
<1>1. n \in Nat \ {0} /\ DOMAIN kernels = 1..n /\ \A i \in 1..n : WellMade(kernels[i])
  BY DEF Shaped
<1>2. entry = [i \in 1..n |-> Renamed(red, kernels[i])]
  BY <1>1 DEF GlobalizePayload, Renamed
<1> HIDE DEF entry, n
<1>3. Len(entry) = n /\ DOMAIN entry = 1..n /\ \A i \in 1..n : entry[i] = Renamed(red, kernels[i])
  BY <1>1, <1>2
<1>4. ASSUME NEW i \in 1..n
      PROVE  WellMade(entry[i])
  <2>1. kernels[i] \in SUBSET LocalUnits(w)
    BY ElementOfSeq DEF n
  <2>2. WellMade(Renamed(red, kernels[i]))
    BY <1>1, <2>1, RenamedWellMade
  <2> QED BY <1>3, <2>2
<1>5. ASSUME NEW i \in 1..n, AtMostOne(kernels[i])
      PROVE  AtMostOne(entry[i])
  <2>1. AtMostOne(Renamed(red, kernels[i]))
    BY <1>5 DEF AtMostOne, Renamed
  <2> QED BY <1>3, <2>1
<1>6. kind = "StructuralL1" => \A i \in 1..n : AtMostOne(entry[i])
  BY <1>5 DEF Shaped, n
<1>7. kind = "AntipodalComponent" => n = 1
  BY DEF Shaped, n
<1> QED BY <1>1, <1>3, <1>4, <1>6, <1>7 DEF Shaped, entry

LEMMA ShapedStep ==
  ASSUME RecordInv, PayloadsShaped, NEW p \in Plans(Len(lpRows), Len(lpCols)), ApplyPlan(p)
  PROVE  PayloadsShaped'
<1>1. CASE TapeFacts(p, Len(lpRows), Len(lpCols)) /\ TapeStep(p)
  <2>1. payloads' = payloads
    BY <1>1 DEF TapeStep
  <2> QED BY <2>1 DEF PayloadsShaped
<1>2. CASE PayloadFacts(p, Len(lpCols)) /\ PayloadStep(p)
  <2> DEFINE entry == GlobalizePayload(p.kernels, colRed2org)
             s == payloads[p.kind]
  <2>1. p.kind \in Kinds /\ p.kernels \in Seq(SUBSET LocalUnits(Len(lpCols))) /\ p.kernels # NoPayload
    BY <1>2 DEF PayloadFacts
  <2>2. Shaped(p.kind, p.kernels)
    <3>1. Len(lpRows) \in Nat /\ Len(lpCols) \in Nat
      BY MapFacts
    <3> QED BY <2>1, <3>1, PlanShaped
  <2>3. /\ Len(lpCols) \in Nat /\ colRed2org \in [1..Len(lpCols) -> OrgCols]
        /\ OneToOne(colRed2org, Len(lpCols))
    BY MapFacts DEF OneToOne
  <2>4. Shaped(p.kind, entry)
    <3> DEFINE w == Len(lpCols)
               kernels == p.kernels
               kind == p.kind
    <3>1. w \in Nat /\ colRed2org \in [1..w -> OrgCols] /\ OneToOne(colRed2org, w)
          /\ kernels \in Seq(SUBSET LocalUnits(w)) /\ Shaped(kind, kernels)
      BY <2>1, <2>2, <2>3
    <3> HIDE DEF w, kernels, kind
    <3>2. Shaped(kind, GlobalizePayload(kernels, colRed2org))
      BY <3>1, RenamedShaped
    <3> QED BY <3>2 DEF kernels, kind
  <2>5. payloads \in [Kinds -> Seq(Seq(SUBSET Units))] /\ entry \in Seq(SUBSET Units)
    BY <1>2, RenamedPayload DEF RecordInv, RecordTyped
  <2>6. payloads' = [payloads EXCEPT ![p.kind] = Append(@, entry)]
    BY <1>2 DEF PayloadStep
  <2> HIDE DEF entry
  <2>7. s \in Seq(Seq(SUBSET Units))
    BY <2>1, <2>5
  <2>8. ASSUME NEW kind \in Kinds, NEW q \in 1..Len(payloads'[kind])
        PROVE  Shaped(kind, payloads'[kind][q])
    <3>1. CASE kind # p.kind
      <4>1. payloads'[kind] = payloads[kind]
        BY <2>5, <2>6, <3>1
      <4> QED BY <2>8, <4>1 DEF PayloadsShaped
    <3>2. CASE kind = p.kind
      <4>1. payloads'[kind] = Append(s, entry)
        BY <2>1, <2>5, <2>6, <3>2
      <4>2. /\ Len(Append(s, entry)) = Len(s) + 1 /\ Len(s) \in Nat
            /\ \A i \in 1..Len(s) : Append(s, entry)[i] = s[i]
            /\ Append(s, entry)[Len(s) + 1] = entry
        <5> HIDE DEF s, Units
        <5> QED BY <2>5, <2>7, AppendProperties, LenProperties
      <4>3. q = Len(s) + 1 \/ q \in 1..Len(s)
        BY <2>8, <4>1, <4>2
      <4>4. \A i \in 1..Len(s) : Shaped(kind, s[i])
        BY <2>1, <3>2 DEF PayloadsShaped
      <4> HIDE DEF s
      <4> QED BY <2>4, <3>2, <4>1, <4>2, <4>3, <4>4
    <3> QED BY <3>1, <3>2
  <2> QED BY <2>8 DEF PayloadsShaped
<1> QED BY <1>1, <1>2, StepCases

\* A plan joins the history: the log still undoes what the plans did.
LEMMA HistoryStep ==
  ASSUME RecordInv, HistoryInv, NEW p \in Plans(Len(lpRows), Len(lpCols)), ApplyPlan(p),
         history' = Append(history, [cols |-> lpCols, plan |-> p])
  PROVE  HistoryInv'
<1>1. /\ Len(lpRows) \in Nat /\ Len(lpCols) \in Nat /\ lpCols \in Seq(OrgCols)
      /\ lpCols \in [1..Len(lpCols) -> OrgCols]
  BY MapFacts DEF RecordInv, RecordTyped
<1>2. Committed(p) \in Committals
  BY <1>1 DEF Committals, Committed
<1>3. history \in Seq(Committals) /\ history' = Append(history, Committed(p))
  BY DEF HistoryInv, Committed
<1>4. /\ history' \in Seq(Committals) /\ Len(history) \in Nat /\ Len(history') = Len(history) + 1
      /\ \A q \in 1..Len(history) : history'[q] = history[q]
      /\ history'[Len(history')] = Committed(p)
  <2> DEFINE S == Committals
             e == Committed(p)
  <2>1. history \in Seq(S) /\ e \in S /\ history' = Append(history, e)
    BY <1>2, <1>3
  <2> HIDE DEF S, e
  <2>2. /\ history' \in Seq(S) /\ Len(history) \in Nat /\ Len(history') = Len(history) + 1
        /\ \A q \in 1..Len(history) : history'[q] = history[q]
        /\ history'[Len(history) + 1] = e
    BY <2>1, AppendProperties, LenProperties
  <2> QED BY <2>2 DEF S, e
<1>5. ASSUME NEW v
      PROVE  UndoAll(history', v) = Replay(Log', KnownNow(v)')
  <2> DEFINE before == UndoPlan(Committed(p), v)
  <2>1. UndoAll(history', v) = UndoAll(history, UndoPlan(history'[Len(history')], v))
    <3> DEFINE long == history'
    <3>1. /\ Len(history) \in Nat /\ Len(long) = Len(history) + 1
          /\ \A q \in 1..Len(history) : long[q] = history[q]
      BY <1>4
    <3> HIDE DEF long, before
    <3>2. UndoAll(long, v) = UndoAll(history, UndoPlan(long[Len(long)], v))
      BY <3>1, UndoAllLast
    <3> QED BY <3>2 DEF long
  <2>2. OverLive(before)
    <3>1. UndoPlan([cols |-> lpCols, plan |-> p], v)
            = Gathered(ExpandPayload(UndoRecords(StartOf(lpCols, Len(lpCols), p.keepCol, p.fixed, v),
                                                 p.records, lpCols), p.kernels, lpCols), lpCols)
      BY <1>1, UndoPlanIs
    <3>2. \E vec : before = Gathered(vec, lpCols)
      BY <3>1 DEF Committed
    <3> HIDE DEF before
    <3> QED BY <3>2 DEF OverLive, Gathered
  <2> HIDE DEF before
  <2>3. UndoAll(history, before) = Replay(Log, KnownNow(before))
    BY <2>2 DEF HistoryInv
  <2>4. Replay(Log', KnownNow(v)') = Replay(Log, KnownNow(UndoPlan(Committed(p), v)))
    BY CommitUndone
  <2> QED BY <1>4, <2>1, <2>3, <2>4 DEF before
<1>6. (\A v : OverLive(v) => UndoAll(history, v) = Replay(Log, KnownNow(v)))'
  BY <1>5
<1> QED BY <1>4, <1>6 DEF HistoryInv

LEMMA HistoryInit ==
  ASSUME Init, history = << >>
  PROVE  HistoryInv
<1>1. history \in Seq(Committals) /\ Len(history) = 0
  OBVIOUS
<1>2. Len(Log) = 0
  <2>1. Len(tape) = 0 /\ Len(timeline) = 0
    BY DEF Init
  <2>2. Len(LogOf(tape, timeline, payloads)) = Len(tape) + Len(timeline)
    BY <2>1, LogLength
  <2> QED BY <2>1, <2>2 DEF Log
<1>3. RangeOf(fixedIdx) = {} /\ RangeOf(lpCols) = OrgCols
  BY DEF Init, RangeOf, OrgCols
<1>4. ASSUME NEW v, OverLive(v)
      PROVE  UndoAll(history, v) = Replay(Log, KnownNow(v))
  <2>1. KnownNow(v) = v
    BY <1>3, <1>4 DEF KnownNow, Known, OverLive
  <2>2. UndoAll(history, v) = v
    BY <1>1, UndoNothing
  <2>3. Replay(Log, KnownNow(v)) = KnownNow(v)
    BY <1>2, ReplayNothing
  <2> QED BY <2>1, <2>2, <2>3
<1> QED BY <1>1, <1>4 DEF HistoryInv

LEMMA PresolveInvInit ==
  ASSUME PInit
  PROVE  PresolveInv
<1>1. Init /\ history = << >>
  BY DEF PInit
<1>2. PayloadsShaped
  <2>1. \A kind \in Kinds : Len(payloads[kind]) = 0
    BY <1>1 DEF Init
  <2> QED BY <2>1 DEF PayloadsShaped
<1> QED BY <1>1, <1>2, RecordInvInit, HistoryInit DEF PresolveInv

LEMMA PresolveInvStutter ==
  ASSUME PresolveInv, UNCHANGED <<vars, history>>
  PROVE  PresolveInv'
<1>1. UNCHANGED vars /\ history' = history
  OBVIOUS
<1>2. /\ payloads' = payloads /\ lpCols' = lpCols /\ fixedIdx' = fixedIdx
      /\ tape' = tape /\ timeline' = timeline
  BY DEF vars, lpVars, recordVars
<1>3. RecordInv'
  BY <1>1, RecordInvStutter DEF PresolveInv
<1>4. PayloadsShaped'
  BY <1>2 DEF PresolveInv, PayloadsShaped
<1>5. Log' = Log /\ \A v : KnownNow(v)' = KnownNow(v) /\ (OverLive(v)' <=> OverLive(v))
  BY <1>2 DEF Log, KnownNow, OverLive
<1>6. \A v : OverLive(v) => UndoAll(history, v) = Replay(Log, KnownNow(v))
  BY DEF PresolveInv, HistoryInv
<1>7. ASSUME NEW v, OverLive(v)'
      PROVE  UndoAll(history', v) = Replay(Log', KnownNow(v)')
  <2>1. UndoAll(history, v) = Replay(Log, KnownNow(v))
    BY <1>5, <1>6, <1>7
  <2> QED BY <1>1, <1>5, <2>1
<1>8. HistoryInv'
  <2>1. (history \in Seq(Committals))'
    BY <1>1 DEF PresolveInv, HistoryInv
  <2>2. (\A v : OverLive(v) => UndoAll(history, v) = Replay(Log, KnownNow(v)))'
    BY <1>7
  <2> QED BY <2>1, <2>2 DEF HistoryInv
<1> QED BY <1>3, <1>4, <1>8 DEF PresolveInv

LEMMA PresolveInvStep ==
  ASSUME PresolveInv, [PNext]_allVars
  PROVE  PresolveInv'
<1>1. CASE Presolve
  <2>1. PICK p \in Plans(Len(lpRows), Len(lpCols)) :
          ApplyPlan(p) /\ history' = Append(history, [cols |-> lpCols, plan |-> p])
    BY <1>1 DEF Presolve
  <2>2. RecordInv'
    BY <2>1, RecordInvStep DEF PresolveInv
  <2>3. PayloadsShaped'
    BY <2>1, ShapedStep DEF PresolveInv
  <2>4. HistoryInv'
    BY <2>1, HistoryStep DEF PresolveInv
  <2> QED BY <2>2, <2>3, <2>4 DEF PresolveInv
<1>2. CASE Scatter
  <2>1. UNCHANGED <<vars, history>>
    BY <1>2 DEF Scatter
  <2> QED BY <2>1, PresolveInvStutter
<1>3. CASE Restore
  <2>1. UNCHANGED <<vars, history>>
    BY <1>3 DEF Restore, RestoreFixed, ReplayRecord, StartPayload, CacheDone, NextKernel, Finish,
                StructuralThread, CacheThread, MemberThread
  <2> QED BY <2>1, PresolveInvStutter
<1>4. CASE UNCHANGED allVars
  <2>1. UNCHANGED <<vars, history>>
    BY <1>4 DEF allVars
  <2> QED BY <2>1, PresolveInvStutter
<1> QED BY <1>1, <1>2, <1>3, <1>4 DEF PNext

-----------------------------------------------------------------------------
(* The entries of the log, as the walk over the timeline meets them.       *)

Rest(log, k) == [q \in 1..k |-> log[q]]

\* Undoing the entry at the end of what is left.
LEMMA RestLast ==
  ASSUME NEW log, NEW k \in Nat, NEW y
  PROVE  Replay(Rest(log, k + 1), y) = Replay(Rest(log, k), ExpandPayload(y, log[k + 1], OrgName))
<1> DEFINE short == Rest(log, k)
           long == Rest(log, k + 1)
<1>1. /\ Len(short) = k /\ Len(long) = k + 1
      /\ \A q \in 1..k : long[q] = short[q]
      /\ long[k + 1] = log[k + 1]
  BY DEF Rest
<1> HIDE DEF short, long
<1>2. Replay(long, y) = Replay(short, ExpandPayload(y, long[Len(long)], OrgName))
  BY <1>1, ReplayLast
<1> QED BY <1>1, <1>2 DEF short, long

LEMMA RestAll ==
  ASSUME NEW log, NEW y, Len(log) \in Nat
  PROVE  Replay(Rest(log, Len(log)), y) = Replay(log, y)
<1> DEFINE same == Rest(log, Len(log))
<1>1. Len(same) = Len(log) /\ \A q \in 1..Len(log) : same[q] = log[q]
  BY DEF Rest
<1> HIDE DEF same
<1>2. Replay(same, y) = Replay(log, y)
  BY <1>1, ReplayAgree
<1> QED BY <1>2 DEF same

LEMMA RestNone ==
  ASSUME NEW log, NEW y
  PROVE  Replay(Rest(log, 0), y) = y
<1>1. Len(Rest(log, 0)) = 0
  BY DEF Rest
<1> QED BY <1>1, ReplayNothing

\* The positions of the timeline.
LEMMA Positions ==
  ASSUME RecordInv
  PROVE  /\ Len(tape) \in Nat /\ Len(timeline) \in Nat /\ DOMAIN timeline = 1..Len(timeline)
         /\ \A i \in 1..Len(timeline) : /\ timeline[i].kind \in Kinds
                                        /\ timeline[i].position \in Nat
                                        /\ timeline[i].position <= Len(tape)
                                        /\ timeline[i].payload \in 1..Len(payloads[timeline[i].kind])
         /\ \A i, j \in 1..Len(timeline) : i < j => timeline[i].position <= timeline[j].position
<1>1. timeline \in Seq(Checkpoints) /\ Chronological(timeline, Len(tape)) /\ Numbered
  BY DEF RecordInv, RecordTyped
<1>2. Len(timeline) \in Nat /\ DOMAIN timeline = 1..Len(timeline)
  BY <1>1, LenProperties
<1>3. \A i \in 1..Len(timeline) : timeline[i].kind \in Kinds /\ timeline[i].position \in Nat
  <2>1. \A i \in 1..Len(timeline) : timeline[i] \in Checkpoints
    BY <1>1, ElementOfSeq
  <2> QED BY <2>1 DEF Checkpoints
<1>4. Len(tape) \in Nat
  BY LogTyped
<1> QED BY <1>1, <1>2, <1>3, <1>4 DEF Chronological, Numbered

\* Behind a checkpoint stands its payload.
LEMMA PayloadEntryAt ==
  ASSUME RecordInv, PayloadsShaped, NEW c \in 1..Len(timeline)
  PROVE  LET entry == payloads[timeline[c].kind][timeline[c].payload]
         IN /\ timeline[c].position + c \in 1..(Len(tape) + Len(timeline))
            /\ Log[timeline[c].position + c] = entry
            /\ Shaped(timeline[c].kind, entry)
<1> DEFINE q == timeline[c].position + c
           n == Len(timeline)
<1>1. /\ Len(tape) \in Nat /\ n \in Nat /\ DOMAIN timeline = 1..n
      /\ timeline[c].position \in Nat /\ timeline[c].position <= Len(tape)
      /\ timeline[c].kind \in Kinds
      /\ timeline[c].payload \in 1..Len(payloads[timeline[c].kind])
  BY Positions
<1>2. q \in 1..(Len(tape) + n)
  BY <1>1
<1>3. timeline \in Seq(Checkpoints) /\ Chronological(timeline, Len(tape))
  BY DEF RecordInv, RecordTyped
<1>4. \A i, j \in At(timeline, q) : i = j
  <2> HIDE DEF q, n
  <2>1. q \in 1..(Len(tape) + Len(timeline))
    BY <1>2 DEF n
  <2> QED BY <1>1, <1>3, <2>1, LogIndex
<1>5. c \in At(timeline, q)
  BY <1>1 DEF At
<1>6. LogOf(tape, timeline, payloads)[q] = PayloadEntryOf(payloads, timeline[c])
  <2> HIDE DEF q, n
  <2>1. q \in 1..(Len(tape) + Len(timeline))
    BY <1>2 DEF n
  <2> QED BY <1>4, <1>5, <2>1, LogAtCheckpoint
<1>7. Shaped(timeline[c].kind, payloads[timeline[c].kind][timeline[c].payload])
  BY <1>1 DEF PayloadsShaped
<1> QED BY <1>2, <1>6, <1>7 DEF Log, PayloadEntryOf

\* Between two checkpoints stand the records of the range.
LEMMA RecordEntryAt ==
  ASSUME RecordInv, NEW c \in 0..Len(timeline), NEW r \in 1..Len(tape),
         c > 0 => timeline[c].position < r,
         c < Len(timeline) => r <= timeline[c + 1].position
  PROVE  c + r \in 1..(Len(tape) + Len(timeline)) /\ Log[c + r] = << {tape[r].unit} >>
<1> DEFINE q == c + r
           n == Len(timeline)
<1>1. /\ Len(tape) \in Nat /\ n \in Nat /\ DOMAIN timeline = 1..n
      /\ \A i \in 1..n : timeline[i].position \in Nat
      /\ \A i, j \in 1..n : i < j => timeline[i].position <= timeline[j].position
  BY Positions
<1>2. q \in 1..(Len(tape) + n) /\ c \in Nat /\ r \in Nat
  BY <1>1
<1>3. ASSUME NEW i \in 1..n, i <= c
      PROVE  timeline[i].position + i < q
  <2>1. c \in 1..n /\ timeline[c].position < r
    BY <1>1, <1>2, <1>3
  <2>2. timeline[i].position <= timeline[c].position
    BY <1>1, <1>3, <2>1
  <2> QED BY <1>1, <1>2, <1>3, <2>1, <2>2
<1>4. ASSUME NEW i \in 1..n, i > c
      PROVE  timeline[i].position + i > q
  <2>1. c + 1 \in 1..n /\ r <= timeline[c + 1].position
    BY <1>1, <1>2, <1>4
  <2>2. timeline[c + 1].position <= timeline[i].position
    BY <1>1, <1>2, <1>4, <2>1
  <2> QED BY <1>1, <1>2, <1>4, <2>1, <2>2
<1>5. At(timeline, q) = {}
  <2> SUFFICES ASSUME NEW i \in 1..n, timeline[i].position + i = q
               PROVE  FALSE
    BY <1>1 DEF At
  <2>1. i <= c \/ i > c
    BY <1>1, <1>2
  <2> HIDE DEF q
  <2>2. q \in Nat /\ timeline[i].position + i \in Nat
    BY <1>1, <1>2
  <2> QED BY <1>3, <1>4, <2>1, <2>2
<1>6. Before(timeline, q) = 1..c
  <2>1. \A i \in 1..n : timeline[i].position + i < q <=> i <= c
    <3> SUFFICES ASSUME NEW i \in 1..n
                 PROVE  timeline[i].position + i < q <=> i <= c
      OBVIOUS
    <3>1. i <= c \/ i > c
      BY <1>1, <1>2
    <3>2. q \in Nat /\ timeline[i].position + i \in Nat
      BY <1>1, <1>2
    <3> HIDE DEF q
    <3> QED BY <1>3, <1>4, <3>1, <3>2
  <2>2. \A i : i \in 1..c <=> i \in 1..n /\ i <= c
    BY <1>1, <1>2
  <2> HIDE DEF q
  <2> QED BY <1>1, <2>1, <2>2 DEF Before
<1>7. Cardinality(1..c) = c
  BY <1>2, FS_Interval
<1>8. q - c = r
  BY <1>2
<1>9. LogOf(tape, timeline, payloads)[q] = TapeEntry(tape, q - Cardinality(Before(timeline, q)))
  <2> HIDE DEF q, n
  <2>1. q \in 1..(Len(tape) + Len(timeline))
    BY <1>2 DEF n
  <2> QED BY <1>5, <2>1, LogAtRecord
<1> HIDE DEF q
<1>10. Log[q] = TapeEntry(tape, r)
  BY <1>6, <1>7, <1>8, <1>9 DEF Log
<1> QED BY <1>2, <1>10 DEF q, TapeEntry

-----------------------------------------------------------------------------
(* The threads of a kernel, one at a time.                                 *)

KernelsFrom(kernels, k) == [i \in 1..(Len(kernels) + 1 - k) |-> kernels[k + i - 1]]

\* What a kernel writes whose threads read the cache.
RunCached(vec, units, values) ==
  [i \in DOMAIN vec |->
     IF \E u \in units : i \in Writes(u)
     THEN LET u == CHOOSE w \in units : i \in Writes(w)
          IN Computed(CHOOSE a \in u : a.to = i, u, values[u], OrgName)
     ELSE vec[i]]

\* A payload from its next kernel on.
LEMMA KernelsNext ==
  ASSUME NEW kernels, Len(kernels) \in Nat, NEW k \in Nat, k < Len(kernels), NEW y
  PROVE  ExpandPayload(y, KernelsFrom(kernels, k + 1), OrgName)
           = ExpandPayload(RunKernel(y, kernels[k + 1], OrgName), KernelsFrom(kernels, k + 2), OrgName)
<1> DEFINE long == KernelsFrom(kernels, k + 1)
           rest == KernelsFrom(kernels, k + 2)
<1>1. Len(long) = Len(kernels) - k /\ Len(rest) = Len(kernels) - (k + 1)
  <2>1. Len(kernels) + 1 - (k + 1) = Len(kernels) - k /\ Len(kernels) - k \in Nat
    OBVIOUS
  <2>2. Len(kernels) + 1 - (k + 2) = Len(kernels) - (k + 1) /\ Len(kernels) - (k + 1) \in Nat
    OBVIOUS
  <2> QED BY <2>1, <2>2 DEF KernelsFrom
<1>2. long[1] = kernels[k + 1]
  <2>1. 1 \in 1..(Len(kernels) + 1 - (k + 1)) /\ k + 1 + 1 - 1 = k + 1
    OBVIOUS
  <2> QED BY <2>1 DEF KernelsFrom
<1>3. \A i \in 1..Len(rest) : rest[i] = long[i + 1]
  <2> SUFFICES ASSUME NEW i \in 1..(Len(kernels) - (k + 1))
               PROVE  rest[i] = long[i + 1]
    BY <1>1
  <2>1. i \in 1..(Len(kernels) + 1 - (k + 2)) /\ i + 1 \in 1..(Len(kernels) + 1 - (k + 1))
    OBVIOUS
  <2>2. (k + 2) + i - 1 = (k + 1) + (i + 1) - 1
    OBVIOUS
  <2> QED BY <2>1, <2>2 DEF KernelsFrom
<1>4. Len(rest) \in Nat /\ Len(long) = Len(rest) + 1
  BY <1>1
<1> HIDE DEF long, rest
<1>5. ExpandPayload(y, long, OrgName) = ExpandPayload(RunKernel(y, long[1], OrgName), rest, OrgName)
  BY <1>3, <1>4, ExpandFirst
<1> QED BY <1>2, <1>5 DEF long, rest

LEMMA KernelsAll ==
  ASSUME NEW kernels, Len(kernels) \in Nat \ {0}, NEW y
  PROVE  ExpandPayload(y, kernels, OrgName)
           = ExpandPayload(RunKernel(y, kernels[1], OrgName), KernelsFrom(kernels, 2), OrgName)
<1> DEFINE rest == KernelsFrom(kernels, 2)
<1>1. Len(rest) = Len(kernels) - 1 /\ \A i \in 1..(Len(kernels) - 1) : rest[i] = kernels[i + 1]
  <2>1. Len(kernels) + 1 - 2 = Len(kernels) - 1 /\ Len(kernels) - 1 \in Nat
    OBVIOUS
  <2>2. \A i \in 1..(Len(kernels) - 1) : 2 + i - 1 = i + 1
    OBVIOUS
  <2> QED BY <2>1, <2>2 DEF KernelsFrom
<1>2. Len(rest) \in Nat /\ Len(kernels) = Len(rest) + 1
  BY <1>1
<1> HIDE DEF rest
<1> QED BY <1>1, <1>2, ExpandFirst DEF rest

LEMMA KernelsDone ==
  ASSUME NEW kernels, Len(kernels) \in Nat, NEW y
  PROVE  ExpandPayload(y, KernelsFrom(kernels, Len(kernels) + 1), OrgName) = y
<1>1. Len(KernelsFrom(kernels, Len(kernels) + 1)) = 0
  <2>1. Len(kernels) + 1 - (Len(kernels) + 1) = 0
    OBVIOUS
  <2> QED BY <2>1 DEF KernelsFrom
<1> QED BY <1>1, ExpandNothing

\* A thread leaves a function of the original columns.
LEMMA ThreadOverOrg ==
  ASSUME NEW vec, OverOrg(vec), NEW unit, NEW v
  PROVE  OverOrg(RunUnit(vec, unit, v, OrgName))
<1> DEFINE value(i) == IF i \in Writes(unit)
                       THEN Computed(CHOOSE a \in unit : a.to = i, unit, v, OrgName) ELSE vec[i]
<1>1. RunUnit(vec, unit, v, OrgName) = [i \in DOMAIN vec |-> value(i)]
  BY Zenon DEF RunUnit
<1>2. DOMAIN vec = OrgCols
  BY DEF OverOrg
<1> HIDE DEF value
<1> QED BY <1>1, <1>2 DEF OverOrg

\* A kernel none of whose threads is left to run.
LEMMA NoThreads ==
  ASSUME NEW vec, OverOrg(vec), NEW values
  PROVE  RunKernel(vec, {}, OrgName) = vec /\ RunCached(vec, {}, values) = vec
BY DEF RunKernel, RunCached, OverOrg

\* One of the threads that read the cache.
LEMMA CachedThread ==
  ASSUME NEW units, OneWriter(units), NEW u \in units, NEW vec, NEW values
  PROVE  RunCached(RunUnit(vec, u, values[u], OrgName), units \ {u}, values)
           = RunCached(vec, units, values)
<1> DEFINE after == RunUnit(vec, u, values[u], OrgName)
           value(w, i) == Computed(CHOOSE a \in w : a.to = i, w, values[w], OrgName)
           one(i) == CHOOSE w \in units \ {u} : i \in Writes(w)
           all(i) == CHOOSE w \in units : i \in Writes(w)
           left(i) == IF \E w \in units \ {u} : i \in Writes(w) THEN value(one(i), i) ELSE after[i]
           right(i) == IF \E w \in units : i \in Writes(w) THEN value(all(i), i) ELSE vec[i]
<1>1. DOMAIN after = DOMAIN vec
      /\ \A i \in DOMAIN vec : after[i] = IF i \in Writes(u) THEN value(u, i) ELSE vec[i]
  BY DEF RunUnit
<1>2. RunCached(after, units \ {u}, values) = [i \in DOMAIN after |-> left(i)]
  BY Zenon DEF RunCached
<1>3. RunCached(vec, units, values) = [i \in DOMAIN vec |-> right(i)]
  BY Zenon DEF RunCached
<1>4. ASSUME NEW i \in DOMAIN vec
      PROVE  left(i) = right(i)
  <2>1. CASE i \in Writes(u)
    <3>1. ~ \E w \in units \ {u} : i \in Writes(w)
      BY <2>1 DEF OneWriter
    <3>2. all(i) = u
      BY <2>1 DEF OneWriter
    <3> HIDE DEF after, value, all, one
    <3> QED BY <1>1, <2>1, <3>1, <3>2
  <2>2. CASE i \notin Writes(u)
    <3>1. (\E w \in units \ {u} : i \in Writes(w)) <=> (\E w \in units : i \in Writes(w))
      BY <2>2
    <3>2. ASSUME \E w \in units : i \in Writes(w)
          PROVE  one(i) = all(i)
      <4>1. \A w \in units \ {u} : i \in Writes(w) <=> w \in units /\ i \in Writes(w)
        OBVIOUS
      <4>2. PICK w \in units \ {u} : i \in Writes(w)
        BY <3>1, <3>2
      <4>3. one(i) \in units \ {u} /\ i \in Writes(one(i))
        BY <4>2
      <4>4. all(i) \in units /\ i \in Writes(all(i))
        BY <3>2
      <4> HIDE DEF one, all
      <4> QED BY <4>3, <4>4 DEF OneWriter
    <3> HIDE DEF after, value, all, one
    <3> QED BY <1>1, <2>2, <3>1, <3>2
  <2> QED BY <2>1, <2>2
<1> HIDE DEF left, right, after
<1>5. RunCached(after, units \ {u}, values) = RunCached(vec, units, values)
  BY <1>1, <1>2, <1>3, <1>4
<1> QED BY <1>5 DEF after

\* Reading the cache is reading what was there when it was filled.
LEMMA CacheFilled ==
  ASSUME NEW units, NEW vec, NEW values,
         \A u \in units : values[u] = [c \in Reads(u) |-> vec[c]]
  PROVE  RunCached(vec, units, values) = RunKernel(vec, units, OrgName)
<1> DEFINE one(i) == CHOOSE w \in units : i \in Writes(w)
           pick(w, i) == CHOOSE a \in w : a.to = i
           left(i) == IF \E w \in units : i \in Writes(w)
                      THEN Computed(pick(one(i), i), one(i), values[one(i)], OrgName) ELSE vec[i]
           right(i) == IF \E w \in units : i \in Writes(w)
                       THEN Computed(pick(one(i), i), one(i), vec, OrgName) ELSE vec[i]
<1>1. RunCached(vec, units, values) = [i \in DOMAIN vec |-> left(i)]
  BY Zenon DEF RunCached
<1>2. RunKernel(vec, units, OrgName) = [i \in DOMAIN vec |-> right(i)]
  BY Zenon DEF RunKernel
<1>3. ASSUME NEW u \in units, NEW a \in u
      PROVE  Computed(a, u, values[u], OrgName) = Computed(a, u, vec, OrgName)
  <2>1. \A c \in a.from : values[u][c] = vec[c]
    <3>1. \A c \in a.from : c \in Reads(u)
      BY DEF Reads
    <3>2. values[u] = [c \in Reads(u) |-> vec[c]]
      OBVIOUS
    <3>3. \A c \in Reads(u) : values[u][c] = vec[c]
      BY <3>2
    <3> QED BY <3>1, <3>3
  <2>2. {<<OrgName[c], values[u][c]>> : c \in a.from} = {<<OrgName[c], vec[c]>> : c \in a.from}
    BY <2>1
  <2> QED BY <2>2 DEF Computed
<1>4. ASSUME NEW i
      PROVE  left(i) = right(i)
  <2>1. ASSUME \E w \in units : i \in Writes(w)
        PROVE  one(i) \in units /\ i \in Writes(one(i))
    BY <2>1
  <2>2. ASSUME \E w \in units : i \in Writes(w)
        PROVE  pick(one(i), i) \in one(i)
    <3>1. \E a \in one(i) : a.to = i
      <4> HIDE DEF one
      <4> QED BY <2>1, <2>2 DEF Writes
    <3> HIDE DEF one
    <3> QED BY <3>1
  <2> HIDE DEF one, pick
  <2> QED BY <1>3, <2>1, <2>2
<1> HIDE DEF left, right
<1> QED BY <1>1, <1>2, <1>4

-----------------------------------------------------------------------------
(* The walk over the timeline.                                             *)

\* What the log makes of the solution of the reduced LP.
Final == Replay(Log, KnownNow(Solution))
Scattered == [c \in OrgCols |-> IF c \in RangeOf(lpCols) THEN Reduced(c) ELSE Zero]

\* From y, the kernels of the payload after the running one and the log
\* behind its checkpoint are still to be undone.
Pending(y) == Replay(Rest(Log, cp - 1 + rangeEnd),
                     ExpandPayload(y, KernelsFrom(Payload, kernel + 1), OrgName))

InRange ==
  /\ cp \in 0..Len(timeline) /\ rangeEnd \in 0..Len(tape)
  /\ RangeBegin(cp) <= rangeEnd
  /\ cp < Len(timeline) => rangeEnd <= timeline[cp + 1].position
AtPayload ==
  /\ cp \in 1..Len(timeline) /\ rangeEnd = timeline[cp].position
  /\ kernel \in 1..Len(Payload)
AtComponent == AtPayload /\ timeline[cp].kind = "AntipodalComponent" /\ kernel = 1

ReplayInv == /\ InRange /\ OverOrg(x)
             /\ Replay(Rest(Log, cp + rangeEnd), x) = Final
KernelInv == /\ AtPayload /\ OverOrg(x)
             /\ timeline[cp].kind # "AntipodalComponent"
             /\ todo \in SUBSET Payload[kernel]
             /\ Pending(RunKernel(x, todo, OrgName)) = Final
CacheInv == /\ AtComponent /\ OverOrg(x)
            /\ todo \in SUBSET Payload[1]
            /\ \A u \in Payload[1] \ todo :
                 u \in DOMAIN cache /\ cache[u] = [c \in Reads(u) |-> x[c]]
            /\ Pending(RunKernel(x, Payload[1], OrgName)) = Final
MembersInv == /\ AtComponent /\ OverOrg(x)
              /\ todo \in SUBSET Payload[1]
              /\ Pending(RunCached(x, todo, cache)) = Final

\* In every phase, what is left to be undone makes of x the point the whole
\* log makes of the solution.
WalkInv ==
  /\ phase \in {"presolve", "fixed", "replay", "kernel", "cache", "members", "done"}
  /\ phase = "fixed" => x = Scattered
  /\ phase = "replay" => ReplayInv
  /\ phase = "kernel" => KernelInv
  /\ phase = "cache" => CacheInv
  /\ phase = "members" => MembersInv
  /\ phase = "done" => x = Final

\* Postsolve reads the record and never changes it.
LEMMA RecordKept ==
  ASSUME UNCHANGED <<vars, history>>
  PROVE  /\ tape' = tape /\ timeline' = timeline /\ payloads' = payloads
         /\ lpCols' = lpCols /\ fixedIdx' = fixedIdx
         /\ Log' = Log /\ Final' = Final /\ Scattered' = Scattered
<1>1. /\ tape' = tape /\ timeline' = timeline /\ payloads' = payloads
      /\ lpCols' = lpCols /\ fixedIdx' = fixedIdx
  BY DEF vars, lpVars, recordVars
<1>2. Log' = Log
  BY <1>1 DEF Log
<1>3. KnownNow(Solution)' = KnownNow(Solution)
  BY <1>1 DEF KnownNow, Solution
<1>4. Scattered' = Scattered
  BY <1>1 DEF Scattered
<1> QED BY <1>1, <1>2, <1>3, <1>4 DEF Final

LEMMA ScatterStep ==
  ASSUME PresolveInv, Scatter
  PROVE  phase' = "fixed" /\ x' = Scattered'
<1>1. ValidTimeline
  BY InvAccepted DEF PresolveInv, RecordAccepted
<1>2. colRed2org = lpCols
  BY MapFacts DEF PresolveInv
<1>3. UNCHANGED <<vars, history>>
  BY DEF Scatter
<1>4. x' = [c \in OrgCols |-> IF c \in RangeOf(lpCols)
                              THEN Reduced(lpCols[CHOOSE i \in DOMAIN lpCols : lpCols[i] = c])
                              ELSE Zero]
  BY <1>2 DEF Scatter
<1>5. \A c \in RangeOf(lpCols) : lpCols[CHOOSE i \in DOMAIN lpCols : lpCols[i] = c] = c
  BY DEF RangeOf
<1>6. x' = Scattered
  BY <1>4, <1>5 DEF Scattered
<1> QED BY <1>1, <1>3, <1>6, RecordKept DEF Scatter

LEMMA RestoreFixedStep ==
  ASSUME PresolveInv, RestoreFixed, x = Scattered
  PROVE  phase' = "replay" /\ ReplayInv'
<1>1. UNCHANGED <<vars, history>>
  BY DEF RestoreFixed
<1>2. RecordInv
  BY DEF PresolveInv
<1>3. /\ Len(tape) \in Nat /\ Len(timeline) \in Nat
      /\ \A i \in 1..Len(timeline) : timeline[i].position \in Nat /\ timeline[i].position <= Len(tape)
  BY <1>2, Positions
<1>4. RangeBegin(Len(timeline)) <= Len(tape)
  BY <1>3 DEF RangeBegin
<1>5. phase' = "replay"
  BY <1>3, <1>4 DEF RestoreFixed, EnterRange
<1>6. x' = KnownNow(Solution)
  <2>1. x' = [c \in OrgCols |-> IF c \in RangeOf(fixedIdx) THEN Fixed(c) ELSE x[c]]
    BY DEF RestoreFixed
  <2>2. \A c \in OrgCols : x[c] = IF c \in RangeOf(lpCols) THEN Solution[c] ELSE Zero
    BY DEF Scattered, Solution
  <2>3. KnownNow(Solution)
          = [c \in OrgCols |-> IF c \in RangeOf(fixedIdx) THEN Fixed(c)
                               ELSE IF c \in RangeOf(lpCols) THEN Solution[c] ELSE Zero]
    BY DEF KnownNow, Known
  <2> QED BY <2>1, <2>2, <2>3
<1>7. OverOrg(x')
  BY <1>6 DEF OverOrg, KnownNow, Known
<1>8. cp' = Len(timeline) /\ rangeEnd' = Len(tape)
  BY DEF RestoreFixed
<1>9. tape' = tape /\ timeline' = timeline /\ Log' = Log /\ Final' = Final
  BY <1>1, RecordKept
<1>10. InRange'
  BY <1>3, <1>4, <1>8, <1>9 DEF InRange, RangeBegin
<1>11. Len(Log) = cp' + rangeEnd' /\ Len(Log) \in Nat
  <2>1. Len(Log) = Len(tape) + Len(timeline)
    BY <1>2, LogTyped
  <2> QED BY <1>3, <1>8, <2>1
<1>12. Replay(Rest(Log, Len(Log)), KnownNow(Solution)) = Final
  BY <1>11, RestAll DEF Final
<1>13. (Replay(Rest(Log, cp + rangeEnd), x) = Final)'
  BY <1>6, <1>9, <1>11, <1>12
<1> QED BY <1>5, <1>7, <1>10, <1>13 DEF ReplayInv

LEMMA ReplayRecordStep ==
  ASSUME PresolveInv, ReplayInv, ReplayRecord
  PROVE  ReplayInv'
<1>1. UNCHANGED <<vars, history>>
  BY DEF ReplayRecord
<1>2. RecordInv
  BY DEF PresolveInv
<1>3. /\ Len(tape) \in Nat /\ Len(timeline) \in Nat
      /\ \A i \in 1..Len(timeline) : timeline[i].position \in Nat
  BY <1>2, Positions
<1>4. /\ cp \in 0..Len(timeline) /\ rangeEnd \in 0..Len(tape)
      /\ cp < Len(timeline) => rangeEnd <= timeline[cp + 1].position
      /\ RangeBegin(cp) < rangeEnd
      /\ OverOrg(x) /\ Replay(Rest(Log, cp + rangeEnd), x) = Final
  BY DEF ReplayInv, InRange, ReplayRecord
<1>5. RangeBegin(cp) \in Nat /\ (cp > 0 => timeline[cp].position < rangeEnd)
  BY <1>3, <1>4 DEF RangeBegin
<1>6. rangeEnd \in 1..Len(tape)
  BY <1>3, <1>4, <1>5
<1>7. /\ cp' = cp /\ rangeEnd' = rangeEnd - 1
      /\ x' = RunUnit(x, tape[rangeEnd].unit, x, OrgName)
  BY DEF ReplayRecord
<1>8. Log[cp + rangeEnd] = << {tape[rangeEnd].unit} >>
  BY <1>2, <1>4, <1>5, <1>6, RecordEntryAt
<1>9. Replay(Rest(Log, cp + rangeEnd), x) = Replay(Rest(Log, cp' + rangeEnd'), x')
  <2> DEFINE k == cp + rangeEnd - 1
             unit == tape[rangeEnd].unit
  <2>1. k \in Nat /\ k + 1 = cp + rangeEnd /\ cp' + rangeEnd' = k
    BY <1>3, <1>4, <1>6, <1>7
  <2>2. Log[k + 1] = << {unit} >> /\ x' = RunUnit(x, unit, x, OrgName)
    BY <1>7, <1>8, <2>1
  <2> HIDE DEF k, unit
  <2>3. Replay(Rest(Log, k + 1), x) = Replay(Rest(Log, k), ExpandPayload(x, Log[k + 1], OrgName))
    BY <2>1, RestLast
  <2>4. ExpandPayload(x, << {unit} >>, OrgName) = RunUnit(x, unit, x, OrgName)
    BY ReplayRecordEntry
  <2> QED BY <2>1, <2>2, <2>3, <2>4
<1>10. OverOrg(x')
  BY <1>4, <1>7, ThreadOverOrg
<1>11. tape' = tape /\ timeline' = timeline /\ Log' = Log /\ Final' = Final
  BY <1>1, RecordKept
<1>12. RangeBegin(cp)' = RangeBegin(cp)
  BY <1>7, <1>11 DEF RangeBegin
<1>13. InRange'
  BY <1>3, <1>4, <1>5, <1>6, <1>7, <1>11, <1>12 DEF InRange
<1> QED BY <1>4, <1>9, <1>10, <1>11, <1>13 DEF ReplayInv


\* The payload behind the checkpoint the walk has reached.
LEMMA PayloadNow ==
  ASSUME PresolveInv, cp \in 1..Len(timeline)
  PROVE  /\ Len(tape) \in Nat /\ Len(timeline) \in Nat
         /\ timeline[cp].position \in 0..Len(tape) /\ timeline[cp].kind \in Kinds
         /\ Log[timeline[cp].position + cp] = Payload
         /\ Shaped(timeline[cp].kind, Payload)
         /\ Len(Payload) \in Nat \ {0}
         /\ \A i \in 1..Len(Payload) : WellMade(Payload[i])
         /\ timeline[cp].kind = "AntipodalComponent" => Len(Payload) = 1
         /\ timeline[cp].kind # "AntipodalComponent" =>
              \A i \in 1..Len(Payload) : AtMostOne(Payload[i])
<1>1. RecordInv /\ PayloadsShaped
  BY DEF PresolveInv
<1>2. /\ Len(tape) \in Nat /\ Len(timeline) \in Nat
      /\ timeline[cp].position \in 0..Len(tape) /\ timeline[cp].kind \in Kinds
  BY <1>1, Positions
<1>3. /\ Log[timeline[cp].position + cp] = payloads[timeline[cp].kind][timeline[cp].payload]
      /\ Shaped(timeline[cp].kind, payloads[timeline[cp].kind][timeline[cp].payload])
  BY <1>1, PayloadEntryAt
<1>4. /\ Log[timeline[cp].position + cp] = Payload
      /\ Shaped(timeline[cp].kind, Payload)
  BY <1>3 DEF Payload
<1>5. timeline[cp].kind # "AntipodalComponent" => timeline[cp].kind = "StructuralL1"
  BY <1>2 DEF Kinds
<1> HIDE DEF Payload
<1> QED BY <1>2, <1>4, <1>5 DEF Shaped

LEMMA PayloadKept ==
  ASSUME UNCHANGED <<vars, history>>, UNCHANGED cp
  PROVE  Payload' = Payload
BY RecordKept DEF Payload

LEMMA StartPayloadStep ==
  ASSUME PresolveInv, ReplayInv, StartPayload
  PROVE  \/ phase' = "kernel" /\ KernelInv'
         \/ phase' = "cache" /\ CacheInv'
<1>1. UNCHANGED <<vars, history>> /\ UNCHANGED <<x, cp, rangeEnd, cache>>
  BY DEF StartPayload
<1>2. /\ tape' = tape /\ timeline' = timeline /\ Log' = Log /\ Final' = Final
      /\ Payload' = Payload
  BY <1>1, RecordKept, PayloadKept
<1>3. /\ cp \in 1..Len(timeline) /\ rangeEnd = timeline[cp].position
      /\ OverOrg(x) /\ Replay(Rest(Log, cp + rangeEnd), x) = Final
  <2>1. Len(timeline) \in Nat
    BY Positions DEF PresolveInv
  <2>2. cp \in 1..Len(timeline)
    BY <2>1 DEF ReplayInv, InRange, StartPayload
  <2>3. rangeEnd = timeline[cp].position
    BY <2>2 DEF StartPayload, RangeBegin
  <2> QED BY <2>2, <2>3 DEF ReplayInv
<1>4. /\ Len(tape) \in Nat /\ Len(timeline) \in Nat /\ rangeEnd \in 0..Len(tape)
      /\ Log[rangeEnd + cp] = Payload /\ Len(Payload) \in Nat \ {0}
      /\ timeline[cp].kind = "AntipodalComponent" => Len(Payload) = 1
  BY <1>3, PayloadNow
<1>5. kernel' = 1 /\ todo' = Payload[1]
  BY DEF StartPayload
<1>6. Replay(Rest(Log, cp - 1 + rangeEnd),
             ExpandPayload(RunKernel(x, Payload[1], OrgName), KernelsFrom(Payload, 2), OrgName)) = Final
  <2> DEFINE k == cp - 1 + rangeEnd
  <2>1. k \in Nat /\ k + 1 = cp + rangeEnd /\ k + 1 = rangeEnd + cp
    BY <1>3, <1>4
  <2> HIDE DEF k, Payload
  <2>2. Replay(Rest(Log, k + 1), x) = Replay(Rest(Log, k), ExpandPayload(x, Log[k + 1], OrgName))
    BY <2>1, RestLast
  <2>3. Log[k + 1] = Payload
    BY <1>4, <2>1
  <2>4. ExpandPayload(x, Payload, OrgName)
          = ExpandPayload(RunKernel(x, Payload[1], OrgName), KernelsFrom(Payload, 2), OrgName)
    BY <1>4, KernelsAll
  <2>5. Replay(Rest(Log, k), ExpandPayload(x, Payload, OrgName)) = Final
    BY <1>3, <2>1, <2>2, <2>3
  <2> QED BY <2>4, <2>5 DEF k
<1>7. kernel' + 1 = 2
  BY <1>5
<1>8. Pending(RunKernel(x, Payload[1], OrgName))' = Final'
  <2>1. Pending(RunKernel(x, Payload[1], OrgName))'
          = Replay(Rest(Log', cp' - 1 + rangeEnd'),
                   ExpandPayload(RunKernel(x', Payload'[1], OrgName),
                                 KernelsFrom(Payload', kernel' + 1), OrgName))
    BY DEF Pending
  <2> HIDE DEF Payload
  <2> QED BY <1>1, <1>2, <1>6, <1>7, <2>1
<1>9. AtPayload'
  <2> HIDE DEF Payload
  <2> QED BY <1>1, <1>2, <1>3, <1>4, <1>5 DEF AtPayload
<1>10. CASE timeline[cp].kind = "AntipodalComponent"
  <2>1. phase' = "cache"
    BY <1>10 DEF StartPayload
  <2>2. AtComponent'
    BY <1>1, <1>2, <1>5, <1>9, <1>10 DEF AtComponent
  <2>3. todo' \in SUBSET Payload'[1] /\ Payload'[1] \ todo' = {}
    BY <1>2, <1>5
  <2>4. (\A u \in Payload[1] \ todo : u \in DOMAIN cache /\ cache[u] = [c \in Reads(u) |-> x[c]])'
    <3> HIDE DEF Payload
    <3> QED BY <2>3
  <2>5. CacheInv'
    <3> HIDE DEF Payload
    <3> QED BY <1>1, <1>3, <1>8, <2>2, <2>3, <2>4 DEF CacheInv
  <2> QED BY <2>1, <2>5
<1>11. CASE timeline[cp].kind # "AntipodalComponent"
  <2>1. phase' = "kernel"
    BY <1>11 DEF StartPayload
  <2>2. todo' \in SUBSET Payload'[kernel'] /\ todo' = Payload'[1]
    BY <1>2, <1>5
  <2>3. Pending(RunKernel(x, todo, OrgName))' = Final'
    <3>1. Pending(RunKernel(x, todo, OrgName))'
            = Replay(Rest(Log', cp' - 1 + rangeEnd'),
                     ExpandPayload(RunKernel(x', todo', OrgName),
                                   KernelsFrom(Payload', kernel' + 1), OrgName))
      BY DEF Pending
    <3>2. Pending(RunKernel(x, Payload[1], OrgName))'
            = Replay(Rest(Log', cp' - 1 + rangeEnd'),
                     ExpandPayload(RunKernel(x', Payload'[1], OrgName),
                                   KernelsFrom(Payload', kernel' + 1), OrgName))
      BY DEF Pending
    <3> HIDE DEF Payload
    <3> QED BY <1>8, <2>2, <3>1, <3>2
  <2>4. timeline'[cp'].kind # "AntipodalComponent"
    BY <1>1, <1>2, <1>11
  <2>5. KernelInv'
    <3> HIDE DEF Payload
    <3> QED BY <1>1, <1>3, <1>9, <2>2, <2>3, <2>4 DEF KernelInv
  <2> QED BY <2>1, <2>5
<1> QED BY <1>10, <1>11

LEMMA StructuralThreadStep ==
  ASSUME PresolveInv, KernelInv, NEW u \in todo, StructuralThread(u)
  PROVE  KernelInv'
<1>1. UNCHANGED <<vars, history>> /\ UNCHANGED <<cp, rangeEnd, kernel>>
  BY DEF StructuralThread
<1>2. timeline' = timeline /\ Log' = Log /\ Final' = Final /\ Payload' = Payload
  BY <1>1, RecordKept, PayloadKept
<1>3. x' = RunUnit(x, u, x, OrgName) /\ todo' = todo \ {u}
  BY DEF StructuralThread
<1>4. /\ cp \in 1..Len(timeline) /\ kernel \in 1..Len(Payload)
      /\ timeline[cp].kind # "AntipodalComponent"
      /\ todo \in SUBSET Payload[kernel] /\ OverOrg(x)
      /\ Pending(RunKernel(x, todo, OrgName)) = Final
  BY DEF KernelInv, AtPayload
<1>5. AtMostOne(Payload[kernel])
  BY <1>4, PayloadNow
<1>6. todo = {u} /\ todo' = {}
  BY <1>3, <1>4, <1>5 DEF AtMostOne
<1>7. OverOrg(x')
  BY <1>3, <1>4, ThreadOverOrg
<1>8. RunKernel(x', todo', OrgName) = RunKernel(x, todo, OrgName)
  <2>1. RunUnit(x, u, x, OrgName) = RunKernel(x, {u}, OrgName)
    BY UnitKernel
  <2>2. RunKernel(x', {}, OrgName) = x'
    BY <1>7, NoThreads
  <2> QED BY <1>3, <1>6, <2>1, <2>2
<1>9. Pending(RunKernel(x, todo, OrgName))' = Final'
  <2>1. Pending(RunKernel(x, todo, OrgName))'
          = Replay(Rest(Log', cp' - 1 + rangeEnd'),
                   ExpandPayload(RunKernel(x', todo', OrgName),
                                 KernelsFrom(Payload', kernel' + 1), OrgName))
    BY DEF Pending
  <2>2. Pending(RunKernel(x, todo, OrgName))
          = Replay(Rest(Log, cp - 1 + rangeEnd),
                   ExpandPayload(RunKernel(x, todo, OrgName),
                                 KernelsFrom(Payload, kernel + 1), OrgName))
    BY DEF Pending
  <2> HIDE DEF Payload
  <2> QED BY <1>1, <1>2, <1>4, <1>8, <2>1, <2>2
<1>10. AtPayload'
  <2>1. AtPayload
    BY DEF KernelInv
  <2> HIDE DEF Payload
  <2> QED BY <1>1, <1>2, <2>1 DEF AtPayload
<1>11. todo' \in SUBSET Payload'[kernel']
  BY <1>6
<1> HIDE DEF Payload
<1> QED BY <1>1, <1>2, <1>4, <1>7, <1>9, <1>10, <1>11 DEF KernelInv

LEMMA CacheThreadStep ==
  ASSUME PresolveInv, CacheInv, NEW u \in todo, CacheThread(u)
  PROVE  CacheInv'
<1>1. UNCHANGED <<vars, history>> /\ UNCHANGED <<x, cp, rangeEnd, kernel>>
  BY DEF CacheThread
<1>2. timeline' = timeline /\ Log' = Log /\ Final' = Final /\ Payload' = Payload
  BY <1>1, RecordKept, PayloadKept
<1>3. /\ todo' = todo \ {u}
      /\ cache' = [w \in DOMAIN cache \cup {u} |->
                     IF w = u THEN [c \in Reads(u) |-> x[c]] ELSE cache[w]]
  BY DEF CacheThread
<1>4. /\ AtComponent /\ OverOrg(x) /\ todo \in SUBSET Payload[1]
      /\ \A w \in Payload[1] \ todo :
           w \in DOMAIN cache /\ cache[w] = [c \in Reads(w) |-> x[c]]
      /\ Pending(RunKernel(x, Payload[1], OrgName)) = Final
  BY DEF CacheInv
<1> HIDE DEF Payload
<1>5. AtComponent'
  BY <1>1, <1>2, <1>4 DEF AtComponent, AtPayload
<1>6. Pending(RunKernel(x, Payload[1], OrgName))' = Final'
  <2>1. Pending(RunKernel(x, Payload[1], OrgName))'
          = Replay(Rest(Log', cp' - 1 + rangeEnd'),
                   ExpandPayload(RunKernel(x', Payload'[1], OrgName),
                                 KernelsFrom(Payload', kernel' + 1), OrgName))
    BY DEF Pending
  <2>2. Pending(RunKernel(x, Payload[1], OrgName))
          = Replay(Rest(Log, cp - 1 + rangeEnd),
                   ExpandPayload(RunKernel(x, Payload[1], OrgName),
                                 KernelsFrom(Payload, kernel + 1), OrgName))
    BY DEF Pending
  <2> QED BY <1>1, <1>2, <1>4, <2>1, <2>2
<1>7. ASSUME NEW w \in Payload[1] \ todo'
      PROVE  w \in DOMAIN cache' /\ cache'[w] = [c \in Reads(w) |-> x[c]]
  <2>1. w = u \/ w \in Payload[1] \ todo
    BY <1>3, <1>7
  <2>2. CASE w = u
    BY <1>3, <2>2
  <2>3. CASE w # u
    <3>1. w \in DOMAIN cache /\ cache[w] = [c \in Reads(w) |-> x[c]]
      BY <1>4, <2>1, <2>3
    <3>2. w \in DOMAIN cache' /\ cache'[w] = cache[w]
      BY <1>3, <2>3, <3>1
    <3> QED BY <3>1, <3>2
  <2> QED BY <2>2, <2>3
<1>8. (\A w \in Payload[1] \ todo :
         w \in DOMAIN cache /\ cache[w] = [c \in Reads(w) |-> x[c]])'
  BY <1>1, <1>2, <1>7
<1>9. todo' \in SUBSET Payload'[1]
  BY <1>2, <1>3, <1>4
<1> QED BY <1>1, <1>4, <1>5, <1>6, <1>8, <1>9 DEF CacheInv


LEMMA CacheDoneStep ==
  ASSUME PresolveInv, CacheInv, CacheDone
  PROVE  phase' = "members" /\ MembersInv'
<1>1. /\ UNCHANGED <<vars, history>> /\ UNCHANGED <<x, cp, rangeEnd, kernel, cache>>
      /\ todo = {} /\ todo' = Payload[1] /\ phase' = "members"
  BY DEF CacheDone
<1>2. timeline' = timeline /\ Log' = Log /\ Final' = Final /\ Payload' = Payload
  BY <1>1, RecordKept, PayloadKept
<1> HIDE DEF Payload
<1>3. /\ AtComponent /\ OverOrg(x)
      /\ \A w \in Payload[1] : cache[w] = [c \in Reads(w) |-> x[c]]
      /\ Pending(RunKernel(x, Payload[1], OrgName)) = Final
  BY <1>1 DEF CacheInv
<1>4. RunCached(x, Payload[1], cache) = RunKernel(x, Payload[1], OrgName)
  <2> DEFINE units == Payload[1]
  <2>1. \A w \in units : cache[w] = [c \in Reads(w) |-> x[c]]
    BY <1>3
  <2> HIDE DEF units
  <2>2. RunCached(x, units, cache) = RunKernel(x, units, OrgName)
    BY <2>1, CacheFilled
  <2> QED BY <2>2 DEF units
<1>5. AtComponent'
  BY <1>1, <1>2, <1>3 DEF AtComponent, AtPayload
<1>6. Pending(RunCached(x, todo, cache))' = Final'
  <2>1. Pending(RunCached(x, todo, cache))'
          = Replay(Rest(Log', cp' - 1 + rangeEnd'),
                   ExpandPayload(RunCached(x', todo', cache'),
                                 KernelsFrom(Payload', kernel' + 1), OrgName))
    BY DEF Pending
  <2>2. Pending(RunKernel(x, Payload[1], OrgName))
          = Replay(Rest(Log, cp - 1 + rangeEnd),
                   ExpandPayload(RunKernel(x, Payload[1], OrgName),
                                 KernelsFrom(Payload, kernel + 1), OrgName))
    BY DEF Pending
  <2> QED BY <1>1, <1>2, <1>3, <1>4, <2>1, <2>2
<1>7. todo' \in SUBSET Payload'[1]
  BY <1>1, <1>2
<1> QED BY <1>1, <1>3, <1>5, <1>6, <1>7 DEF MembersInv

LEMMA MemberThreadStep ==
  ASSUME PresolveInv, MembersInv, NEW u \in todo, MemberThread(u)
  PROVE  MembersInv'
<1>1. /\ UNCHANGED <<vars, history>> /\ UNCHANGED <<cp, rangeEnd, kernel, cache>>
      /\ todo' = todo \ {u} /\ x' = RunUnit(x, u, cache[u], OrgName)
  BY DEF MemberThread
<1>2. timeline' = timeline /\ Log' = Log /\ Final' = Final /\ Payload' = Payload
  BY <1>1, RecordKept, PayloadKept
<1>3. /\ AtComponent /\ OverOrg(x) /\ todo \in SUBSET Payload[1]
      /\ Pending(RunCached(x, todo, cache)) = Final
  BY DEF MembersInv
<1>4. OneWriter(todo)
  <2>1. cp \in 1..Len(timeline) /\ 1 \in 1..Len(Payload)
    <3> HIDE DEF Payload
    <3> QED BY <1>3 DEF AtComponent, AtPayload
  <2>2. WellMade(Payload[1])
    BY <2>1, PayloadNow
  <2> HIDE DEF Payload
  <2> QED BY <1>3, <2>2 DEF WellMade, OneWriter
<1> HIDE DEF Payload
<1>5. RunCached(x', todo', cache') = RunCached(x, todo, cache)
  <2>1. RunCached(RunUnit(x, u, cache[u], OrgName), todo \ {u}, cache) = RunCached(x, todo, cache)
    <3> DEFINE units == todo
               vec == x
               values == cache
    <3>1. OneWriter(units) /\ u \in units
      BY <1>4
    <3> HIDE DEF units, vec, values
    <3>2. RunCached(RunUnit(vec, u, values[u], OrgName), units \ {u}, values)
            = RunCached(vec, units, values)
      BY SMTT(30), <3>1, CachedThread
    <3> QED BY <3>2 DEF units, vec, values
  <2> QED BY <1>1, <2>1
<1>6. AtComponent'
  BY <1>1, <1>2, <1>3 DEF AtComponent, AtPayload
<1>7. Pending(RunCached(x, todo, cache))' = Final'
  <2>1. Pending(RunCached(x, todo, cache))'
          = Replay(Rest(Log', cp' - 1 + rangeEnd'),
                   ExpandPayload(RunCached(x', todo', cache'),
                                 KernelsFrom(Payload', kernel' + 1), OrgName))
    BY DEF Pending
  <2>2. Pending(RunCached(x, todo, cache))
          = Replay(Rest(Log, cp - 1 + rangeEnd),
                   ExpandPayload(RunCached(x, todo, cache),
                                 KernelsFrom(Payload, kernel + 1), OrgName))
    BY DEF Pending
  <2> QED BY <1>1, <1>2, <1>3, <1>5, <2>1, <2>2
<1>8. OverOrg(x')
  BY <1>1, <1>3, ThreadOverOrg
<1>9. todo' \in SUBSET Payload'[1]
  BY <1>1, <1>2, <1>3
<1> QED BY <1>6, <1>7, <1>8, <1>9 DEF MembersInv

\* The next checkpoint, when the payload is expanded.
LEMMA LeavePayload ==
  ASSUME PresolveInv, AtPayload, OverOrg(x), kernel = Len(Payload), Pending(x) = Final,
         UNCHANGED <<vars, history>>, UNCHANGED <<x, rangeEnd>>,
         EnterRange(cp - 1, rangeEnd), cp' = cp - 1
  PROVE  phase' = "replay" /\ ReplayInv'
<1>1. timeline' = timeline /\ tape' = tape /\ Log' = Log /\ Final' = Final
  BY RecordKept
<1>2. cp \in 1..Len(timeline) /\ rangeEnd = timeline[cp].position
  BY DEF AtPayload
<1>3. /\ Len(tape) \in Nat /\ Len(timeline) \in Nat /\ Len(Payload) \in Nat
      /\ rangeEnd \in 0..Len(tape)
  BY <1>2, PayloadNow
<1>4. RangeBegin(cp - 1) <= rangeEnd
  <2>1. /\ \A i \in 1..Len(timeline) : timeline[i].position \in Nat
        /\ \A i, j \in 1..Len(timeline) : i < j => timeline[i].position <= timeline[j].position
    BY Positions DEF PresolveInv
  <2>2. CASE cp = 1
    BY <1>3, <2>2 DEF RangeBegin
  <2>3. CASE cp # 1
    <3>1. cp - 1 \in 1..Len(timeline) /\ cp - 1 < cp /\ cp - 1 # 0
      BY <1>2, <1>3, <2>3
    <3> QED BY <1>2, <2>1, <3>1 DEF RangeBegin
  <2> QED BY <2>2, <2>3
<1>5. phase' = "replay"
  BY <1>3, <1>4 DEF EnterRange
<1>6. InRange'
  <2>1. cp - 1 \in 0..Len(timeline) /\ (cp - 1) + 1 = cp
    BY <1>2, <1>3
  <2>2. RangeBegin(cp)' = RangeBegin(cp - 1)
    BY <1>1 DEF RangeBegin
  <2>3. rangeEnd <= timeline[cp].position
    BY <1>2, <1>3
  <2> QED BY <1>1, <1>3, <1>4, <2>1, <2>2, <2>3 DEF InRange
<1>7. Replay(Rest(Log, cp - 1 + rangeEnd), x) = Final
  <2>1. ExpandPayload(x, KernelsFrom(Payload, kernel + 1), OrgName) = x
    <3> HIDE DEF Payload
    <3> QED BY <1>3, KernelsDone
  <2> QED BY <2>1 DEF Pending
<1>8. (Replay(Rest(Log, cp + rangeEnd), x) = Final)'
  BY <1>1, <1>7
<1> QED BY <1>5, <1>6, <1>8 DEF ReplayInv

LEMMA NextKernelStep ==
  ASSUME PresolveInv, NextKernel,
         phase = "kernel" => KernelInv, phase = "members" => MembersInv
  PROVE  \/ phase' = "kernel" /\ KernelInv'
         \/ phase' = "replay" /\ ReplayInv'
<1>1. /\ UNCHANGED <<vars, history>> /\ UNCHANGED <<x, rangeEnd>>
      /\ todo = {} /\ phase \in {"kernel", "members"}
  BY DEF NextKernel
<1>2. AtPayload /\ OverOrg(x) /\ Pending(x) = Final
  <2>1. CASE phase = "kernel"
    <3>1. AtPayload /\ OverOrg(x) /\ Pending(RunKernel(x, todo, OrgName)) = Final
      BY <2>1 DEF KernelInv
    <3>2. RunKernel(x, todo, OrgName) = x
      BY <1>1, <3>1, NoThreads
    <3> QED BY <3>1, <3>2
  <2>2. CASE phase = "members"
    <3>1. AtComponent /\ OverOrg(x) /\ Pending(RunCached(x, todo, cache)) = Final
      BY <2>2 DEF MembersInv
    <3>2. RunCached(x, todo, cache) = x
      BY <1>1, <3>1, NoThreads
    <3> QED BY <3>1, <3>2 DEF AtComponent
  <2> QED BY <1>1, <2>1, <2>2
<1>3. cp \in 1..Len(timeline) /\ kernel \in 1..Len(Payload)
  BY <1>2 DEF AtPayload
<1>4. Len(Payload) \in Nat /\ (timeline[cp].kind = "AntipodalComponent" => Len(Payload) = 1)
  BY <1>3, PayloadNow
<1>5. CASE kernel < Len(Payload)
  <2>1. UNCHANGED <<phase, cp>> /\ kernel' = kernel + 1 /\ todo' = Payload[kernel + 1]
    BY <1>5 DEF NextKernel
  <2>2. timeline' = timeline /\ Log' = Log /\ Final' = Final /\ Payload' = Payload
    BY <1>1, <2>1, RecordKept, PayloadKept
  <2> HIDE DEF Payload
  <2>3. phase = "kernel" /\ timeline[cp].kind # "AntipodalComponent"
    <3>1. kernel = 1 /\ Len(Payload) = 1 => ~(kernel < Len(Payload))
      OBVIOUS
    <3>2. phase # "members"
      BY <1>4, <1>5, <3>1 DEF MembersInv, AtComponent
    <3>3. phase = "kernel"
      BY <1>1, <3>2
    <3> QED BY <3>3 DEF KernelInv
  <2>4. kernel \in Nat /\ kernel + 1 \in 1..Len(Payload)
    BY <1>3, <1>4, <1>5
  <2>5. AtPayload'
    BY <1>1, <1>2, <2>1, <2>2, <2>4 DEF AtPayload
  <2>6. ExpandPayload(x, KernelsFrom(Payload, kernel + 1), OrgName)
          = ExpandPayload(RunKernel(x, Payload[kernel + 1], OrgName),
                          KernelsFrom(Payload, kernel + 2), OrgName)
    BY <1>4, <1>5, <2>4, KernelsNext
  <2>7. Pending(RunKernel(x, todo, OrgName))' = Final'
    <3>1. Pending(RunKernel(x, todo, OrgName))'
            = Replay(Rest(Log', cp' - 1 + rangeEnd'),
                     ExpandPayload(RunKernel(x', todo', OrgName),
                                   KernelsFrom(Payload', kernel' + 1), OrgName))
      BY DEF Pending
    <3>2. Pending(x) = Replay(Rest(Log, cp - 1 + rangeEnd),
                              ExpandPayload(x, KernelsFrom(Payload, kernel + 1), OrgName))
      BY DEF Pending
    <3>3. kernel' + 1 = kernel + 2
      BY <2>1, <2>4
    <3> QED BY <1>1, <1>2, <2>1, <2>2, <2>6, <3>1, <3>2, <3>3
  <2>8. todo' \in SUBSET Payload'[kernel']
    BY <2>1, <2>2
  <2>9. phase' = "kernel" /\ timeline'[cp'].kind # "AntipodalComponent"
    BY <2>1, <2>2, <2>3
  <2> QED BY <1>1, <1>2, <2>5, <2>7, <2>8, <2>9 DEF KernelInv
<1>6. CASE ~(kernel < Len(Payload))
  <2>1. kernel = Len(Payload)
    <3> HIDE DEF Payload
    <3> QED BY <1>3, <1>4, <1>6
  <2>2. EnterRange(cp - 1, rangeEnd) /\ cp' = cp - 1
    BY <1>6 DEF NextKernel
  <2> QED BY <1>1, <1>2, <2>1, <2>2, LeavePayload
<1> QED BY <1>5, <1>6

LEMMA FinishStep ==
  ASSUME PresolveInv, ReplayInv, Finish
  PROVE  phase' = "done" /\ x' = Final'
<1>1. UNCHANGED <<vars, history>> /\ UNCHANGED <<x, cp, rangeEnd>> /\ phase' = "done" /\ cp = 0
  BY DEF Finish
<1>2. rangeEnd = 0
  BY <1>1 DEF Finish, RangeBegin
<1>3. Replay(Rest(Log, 0), x) = Final
  BY <1>1, <1>2 DEF ReplayInv
<1>4. x = Final
  BY <1>3, RestNone
<1> QED BY <1>1, <1>4, RecordKept
-----------------------------------------------------------------------------
(* The theorems.                                                           *)

LEMMA WalkInvStutter ==
  ASSUME WalkInv, UNCHANGED allVars
  PROVE  WalkInv'
<1>1. UNCHANGED <<vars, history>> /\ UNCHANGED postVars
  BY DEF allVars
<1>2. UNCHANGED <<phase, x, cp, rangeEnd, kernel, todo, cache>>
  BY <1>1 DEF postVars
<1>3. /\ tape' = tape /\ timeline' = timeline /\ Log' = Log /\ Final' = Final
      /\ Scattered' = Scattered /\ Payload' = Payload
  BY <1>1, <1>2, RecordKept, PayloadKept
<1> HIDE DEF Payload, Log, Final, Scattered
<1>4. ReplayInv => ReplayInv'
  BY <1>2, <1>3 DEF ReplayInv, InRange, RangeBegin
<1>5. AtPayload => AtPayload'
  BY <1>2, <1>3 DEF AtPayload
<1>6. KernelInv => KernelInv'
  BY <1>2, <1>3, <1>5 DEF KernelInv, Pending
<1>7. CacheInv => CacheInv'
  BY <1>2, <1>3, <1>5 DEF CacheInv, AtComponent, Pending
<1>8. MembersInv => MembersInv'
  BY <1>2, <1>3, <1>5 DEF MembersInv, AtComponent, Pending
<1> QED BY <1>2, <1>3, <1>4, <1>6, <1>7, <1>8 DEF WalkInv

LEMMA WalkInvStep ==
  ASSUME PresolveInv, WalkInv, [PNext]_allVars
  PROVE  WalkInv'
<1>1. CASE Presolve
  <2>1. phase' = "presolve"
    BY <1>1 DEF Presolve, postVars
  <2> QED BY <2>1 DEF WalkInv
<1>2. CASE Scatter
  <2>1. phase' = "fixed" /\ x' = Scattered'
    BY <1>2, ScatterStep
  <2> QED BY <2>1 DEF WalkInv
<1>3. CASE RestoreFixed
  <2>1. x = Scattered
    BY <1>3 DEF RestoreFixed, WalkInv
  <2>2. phase' = "replay" /\ ReplayInv'
    BY <1>3, <2>1, RestoreFixedStep
  <2> QED BY <2>2 DEF WalkInv
<1>4. CASE ReplayRecord
  <2>1. phase = "replay" /\ phase' = "replay"
    BY <1>4 DEF ReplayRecord
  <2>2. ReplayInv'
    BY <1>4, <2>1, ReplayRecordStep DEF WalkInv
  <2> QED BY <2>1, <2>2 DEF WalkInv
<1>5. CASE StartPayload
  <2>1. phase = "replay"
    BY <1>5 DEF StartPayload
  <2>2. \/ phase' = "kernel" /\ KernelInv'
        \/ phase' = "cache" /\ CacheInv'
    BY <1>5, <2>1, StartPayloadStep DEF WalkInv
  <2> QED BY <2>2 DEF WalkInv
<1>6. CASE CacheDone
  <2>1. phase = "cache"
    BY <1>6 DEF CacheDone
  <2>2. phase' = "members" /\ MembersInv'
    BY <1>6, <2>1, CacheDoneStep DEF WalkInv
  <2> QED BY <2>2 DEF WalkInv
<1>7. CASE NextKernel
  <2>1. \/ phase' = "kernel" /\ KernelInv'
        \/ phase' = "replay" /\ ReplayInv'
    BY <1>7, NextKernelStep DEF WalkInv
  <2> QED BY <2>1 DEF WalkInv
<1>8. CASE Finish
  <2>1. phase = "replay"
    BY <1>8 DEF Finish
  <2>2. phase' = "done" /\ x' = Final'
    BY <1>8, <2>1, FinishStep DEF WalkInv
  <2> QED BY <2>2 DEF WalkInv
<1>9. ASSUME NEW u \in todo, StructuralThread(u)
      PROVE  WalkInv'
  <2>1. phase = "kernel" /\ phase' = "kernel"
    BY <1>9 DEF StructuralThread
  <2>2. KernelInv'
    BY <1>9, <2>1, StructuralThreadStep DEF WalkInv
  <2> QED BY <2>1, <2>2 DEF WalkInv
<1>10. ASSUME NEW u \in todo, CacheThread(u)
       PROVE  WalkInv'
  <2>1. phase = "cache" /\ phase' = "cache"
    BY <1>10 DEF CacheThread
  <2>2. CacheInv'
    BY <1>10, <2>1, CacheThreadStep DEF WalkInv
  <2> QED BY <2>1, <2>2 DEF WalkInv
<1>11. ASSUME NEW u \in todo, MemberThread(u)
       PROVE  WalkInv'
  <2>1. phase = "members" /\ phase' = "members"
    BY <1>11 DEF MemberThread
  <2>2. MembersInv'
    BY <1>11, <2>1, MemberThreadStep DEF WalkInv
  <2> QED BY <2>1, <2>2 DEF WalkInv
<1>12. CASE UNCHANGED allVars
  BY <1>12, WalkInvStutter
<1> QED BY <1>1, <1>2, <1>3, <1>4, <1>5, <1>6, <1>7, <1>8, <1>9, <1>10, <1>11, <1>12
        DEF PNext, Restore

\* The record is written by presolve alone: what holds of every run of
\* PresolveRecord holds while postsolve reads it.
THEOREM PostsolveKeepsRecord == PSpec => Spec
<1>1. PInit => Init
  BY DEF PInit
<1>2. [PNext]_allVars => [Next]_vars
  <2> SUFFICES ASSUME [PNext]_allVars
               PROVE  [Next]_vars
    OBVIOUS
  <2>1. CASE Presolve
    BY <2>1 DEF Presolve, Next
  <2>2. CASE Scatter
    BY <2>2 DEF Scatter
  <2>3. CASE Restore
    BY <2>3 DEF Restore, RestoreFixed, ReplayRecord, StartPayload, CacheDone, NextKernel, Finish,
                StructuralThread, CacheThread, MemberThread
  <2>4. CASE UNCHANGED allVars
    BY <2>4 DEF allVars
  <2> QED BY <2>1, <2>2, <2>3, <2>4 DEF PNext
<1> QED BY <1>1, <1>2, PTL DEF PSpec, Spec

\* Presolve and postsolve keep both invariants.  In particular postsolve
\* never throws: "throw" is not a phase of WalkInv.
THEOREM PostsolveInvHolds == PSpec => [](PresolveInv /\ WalkInv)
<1>1. PInit => PresolveInv /\ WalkInv
  <2>1. PInit => WalkInv
    BY DEF PInit, WalkInv
  <2> QED BY <2>1, PresolveInvInit
<1>2. PresolveInv /\ WalkInv /\ [PNext]_allVars => (PresolveInv /\ WalkInv)'
  <2> SUFFICES ASSUME PresolveInv, WalkInv, [PNext]_allVars
               PROVE  PresolveInv' /\ WalkInv'
    OBVIOUS
  <2> QED BY PresolveInvStep, WalkInvStep
<1> QED BY <1>1, <1>2, PTL DEF PSpec

\* What the log makes of the solution is what undoing the plans makes of it.
LEMMA FinalExpected ==
  ASSUME PresolveInv
  PROVE  Final = Expected
<1>1. /\ history \in Seq(Committals)
      /\ \A v : OverLive(v) => UndoAll(history, v) = Replay(Log, KnownNow(v))
  BY DEF PresolveInv, HistoryInv
<1>2. Len(history) \in Nat
  BY <1>1, LenProperties
<1>3. OverLive(Solution)
  BY DEF OverLive, Solution
<1>4. UndoAll(history, Solution) = Replay(Log, KnownNow(Solution))
  BY <1>1, <1>3
<1> QED BY <1>2, <1>4, ExpectedRun DEF Final

\* postsolve returns the point that undoing the plans one at a time, each in
\* its own index space, gives: whatever LP, whatever plans, and whatever order
\* the threads of the recovery kernels run in.
THEOREM PostsolveRecovers == PSpec => []RecoversSolution
<1>1. PresolveInv /\ WalkInv => RecoversSolution
  BY FinalExpected DEF WalkInv, RecoversSolution
<1> QED BY <1>1, PostsolveInvHolds, PTL

\* Postsolve undoes the record last in, first out: no record before every
\* later checkpoint is undone, no payload before every later record is.
THEOREM PostsolveInOrder == PSpec => []LastInFirstOut
<1>1. ASSUME PresolveInv, WalkInv
      PROVE  LastInFirstOut
  <2>1. /\ Len(tape) \in Nat /\ Len(timeline) \in Nat
        /\ \A i \in 1..Len(timeline) : timeline[i].position \in Nat
        /\ \A i, j \in 1..Len(timeline) : i < j => timeline[i].position <= timeline[j].position
    BY <1>1, Positions DEF PresolveInv
  <2>2. CASE phase = "replay"
    <3>1. /\ cp \in 0..Len(timeline) /\ rangeEnd \in 0..Len(tape)
          /\ RangeBegin(cp) <= rangeEnd
          /\ cp < Len(timeline) => rangeEnd <= timeline[cp + 1].position
      BY <1>1, <2>2 DEF WalkInv, ReplayInv, InRange
    <3>2. ASSUME NEW i \in 1..cp
          PROVE  timeline[i].position <= rangeEnd
      <4>1. cp \in 1..Len(timeline) /\ i \in 1..Len(timeline)
        BY <2>1, <3>1
      <4>2. timeline[cp].position <= rangeEnd
        BY <2>1, <3>1, <4>1 DEF RangeBegin
      <4>3. timeline[i].position <= timeline[cp].position
        BY <2>1, <4>1
      <4> QED BY <2>1, <3>1, <4>1, <4>2, <4>3
    <3>3. ASSUME NEW i \in (cp + 1)..Len(timeline)
          PROVE  rangeEnd <= timeline[i].position
      <4>1. cp + 1 \in 1..Len(timeline) /\ i \in 1..Len(timeline)
        BY <2>1, <3>1
      <4>2. rangeEnd <= timeline[cp + 1].position
        BY <2>1, <3>1, <4>1
      <4>3. timeline[cp + 1].position <= timeline[i].position
        BY <2>1, <4>1
      <4> QED BY <2>1, <3>1, <4>1, <4>2, <4>3
    <3> QED BY <2>2, <3>2, <3>3 DEF LastInFirstOut
  <2>3. CASE phase \in {"kernel", "cache", "members"}
    <3>1. cp \in 1..Len(timeline) /\ rangeEnd = timeline[cp].position
      BY <1>1, <2>3 DEF WalkInv, KernelInv, CacheInv, MembersInv, AtComponent, AtPayload
    <3>2. ASSUME NEW i \in 1..cp
          PROVE  timeline[i].position <= rangeEnd
      <4>1. i \in 1..Len(timeline) /\ (i = cp \/ i < cp)
        BY <2>1, <3>1
      <4> QED BY <2>1, <3>1, <4>1
    <3>3. ASSUME NEW i \in (cp + 1)..Len(timeline)
          PROVE  rangeEnd <= timeline[i].position
      <4>1. i \in 1..Len(timeline) /\ cp < i
        BY <2>1, <3>1
      <4> QED BY <2>1, <3>1, <4>1
    <3> QED BY <3>1, <3>2, <3>3 DEF LastInFirstOut
  <2> QED BY <2>2, <2>3 DEF LastInFirstOut
<1>2. PresolveInv /\ WalkInv => LastInFirstOut
  BY <1>1
<1> QED BY <1>2, PostsolveInvHolds, PTL
=============================================================================
