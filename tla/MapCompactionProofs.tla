------------------------ MODULE MapCompactionProofs ------------------------
(***************************************************************************)
(* For every number of columns, every mask, every path and every order of  *)
(* the threads: the new col_red2org matches the compacted LP, the host     *)
(* never throws, and the fixed columns are recorded exactly once.          *)
(*                                                                         *)
(* The inductive invariant says of every loop and kernel which slots it    *)
(* has filled so far, by the columns whose turn is over; that the slots of *)
(* the kept columns are all the slots there are follows from IndexLemmas.   *)
(***************************************************************************)
EXTENDS MapCompaction, IndexLemmas, SequenceTheorems

\* What the plan and the old record are; no step changes it.
Static ==
  /\ n \in Nat
  /\ red \in Seq(Nat)
  /\ \A j \in 1..n : red[j] \in Originals
  /\ \A i, j \in 1..n : i < j => red[i] < red[j]
  /\ keep \in [1..n -> BOOLEAN]
  /\ path = "identity" => n = N0

\* s holds the original column of every column of J, in its new slot.
Filled(s, J) == \A j \in J : s[Prefix(j)] = red[j]
Slots(s) == s \in Seq(Nat) /\ Len(s) = NewCount
Waiting(kernel) == IF pc = kernel THEN todo ELSE {}

Gathered == Slots(lpIds) /\ Filled(lpIds, Kept \ Waiting("gather"))

HostStart == pc \in {"gather", "pack"} => k = 1 /\ rangeBegin = 1 /\ next = << >>

DenseInv ==
  pc = "dense" =>
    /\ k \in 1..(n + 1)
    /\ next \in Seq(Nat) /\ Len(next) = Prefix(k - 1)
    /\ Filled(next, {j \in Kept : j < k})

PackInv ==
  pc \in {"pack", "sparse"} =>
    /\ packed \in Seq(Nat) /\ Len(packed) = RemovedCount
    /\ \A j \in Removed \ Waiting("pack") : packed[RemovedScan(j)] = j

SparseInv ==
  pc = "sparse" =>
    /\ k \in 1..(RemovedCount + 1) /\ rangeBegin \in 1..(n + 1)
    /\ k - 1 = RemovedScan(rangeBegin - 1)
    /\ next \in Seq(Nat) /\ Len(next) = Prefix(rangeBegin - 1)
    /\ Filled(next, {j \in Kept : j < rangeBegin})

IdentityInv ==
  pc = "identity" => /\ path = "identity"
                     /\ Slots(next) /\ Filled(next, Kept \ todo)

AtEnd == {"fixed", "packFixed", "append", "done"}
ResultInv == pc \in AtEnd => Slots(next) /\ Filled(next, Kept)

IInv == /\ Static
        /\ pc \in {"gather", "dense", "pack", "sparse", "identity"} \cup AtEnd
        /\ todo \subseteq 1..n
        /\ Gathered /\ HostStart /\ DenseInv /\ PackInv /\ SparseInv
        /\ IdentityInv /\ ResultInv

-----------------------------------------------------------------------------
\* The scans of the two masks: how many slots there are, which slot a column
\* gets, and that each slot belongs to one column.
LEMMA Scans ==
  ASSUME Static
  PROVE  /\ Kept \in SUBSET (1..n) /\ Removed \in SUBSET (1..n)
         /\ NewCount = Cardinality(Kept) /\ NewCount \in Nat
         /\ RemovedCount = Cardinality(Removed) /\ RemovedCount \in Nat
         /\ NewCount + RemovedCount = n
         /\ \A j \in Kept : Prefix(j) \in 1..NewCount
         /\ \A j \in Removed : RemovedScan(j) \in 1..RemovedCount
         /\ \A r \in 1..NewCount : \E j \in Kept : Prefix(j) = r
         /\ \A r \in 1..RemovedCount : \E j \in Removed : RemovedScan(j) = r
<1>1. Kept \in SUBSET (1..n) /\ Removed \in SUBSET (1..n) /\ n \in Nat
  BY DEF Static, Kept, Removed
<1>2. NewCount = Cardinality(Kept) /\ NewCount \in Nat
  BY <1>1, RankBounds DEF NewCount, Prefix
<1>3. Rank(Removed, n) = Cardinality(Removed) /\ Cardinality(Removed) \in Nat
  BY <1>1, RankBounds
<1>4. NewCount + Rank(Removed, n) = n
  BY <1>1, RankComplement DEF NewCount, Prefix, Removed
<1>5. RemovedCount = Cardinality(Removed) /\ RemovedCount \in Nat /\ NewCount + RemovedCount = n
  BY <1>1, <1>2, <1>3, <1>4 DEF RemovedCount
<1>6. /\ \A j \in Kept : Prefix(j) \in 1..NewCount
      /\ \A r \in 1..NewCount : \E j \in Kept : Prefix(j) = r
  BY <1>1, <1>2, RankOnto DEF Prefix
<1>7. /\ \A j \in Removed : RemovedScan(j) \in 1..RemovedCount
      /\ \A r \in 1..RemovedCount : \E j \in Removed : RemovedScan(j) = r
  BY <1>1, <1>5, RankOnto DEF RemovedScan
<1> QED BY <1>1, <1>2, <1>5, <1>6, <1>7

\* Both scans, entry by entry.
LEMMA ScanStep ==
  ASSUME Static
  PROVE  /\ \A j \in 0..n : Prefix(j) \in Nat /\ RemovedScan(j) \in Nat
         /\ \A j \in 1..n :
              Prefix(j) = IF j \in Kept THEN Prefix(j - 1) + 1 ELSE Prefix(j - 1)
         /\ \A i, j \in 0..n : i <= j => /\ Prefix(i) <= Prefix(j)
                                       /\ RemovedScan(i) <= RemovedScan(j)
         /\ \A i \in 0..n : \A j \in Removed : i < j => RemovedScan(i) < RemovedScan(j)
<1>1. Kept \in SUBSET (1..n) /\ Removed \in SUBSET (1..n) /\ n \in Nat
  BY Scans DEF Static
<1>2. \A j \in 0..n : Prefix(j) \in Nat /\ RemovedScan(j) \in Nat
  BY <1>1, RankBounds DEF Prefix, RemovedScan
<1>3. \A j \in 1..n :
        Prefix(j) = IF j \in Kept THEN Prefix(j - 1) + 1 ELSE Prefix(j - 1)
  BY <1>1, RankStep DEF Prefix
<1>4. \A i, j \in 0..n : i <= j => Prefix(i) <= Prefix(j) /\ RemovedScan(i) <= RemovedScan(j)
  BY <1>1, RankMonotone DEF Prefix, RemovedScan
<1>5. \A i \in 0..n : \A j \in Removed : i < j => RemovedScan(i) < RemovedScan(j)
  <2> SUFFICES ASSUME NEW i \in 0..n, NEW j \in Removed, i < j
               PROVE  RemovedScan(i) < RemovedScan(j)
    OBVIOUS
  <2>1. j \in 0..n /\ i <= j
    BY <1>1
  <2> QED BY <1>1, <2>1, RankMonotone DEF RemovedScan
<1> QED BY <1>2, <1>3, <1>4, <1>5

\* Slots keep the order of the columns.
LEMMA SlotOrder ==
  ASSUME Static
  PROVE  /\ \A i, j \in Kept : i < j <=> Prefix(i) < Prefix(j)
         /\ \A i, j \in Removed : i < j <=> RemovedScan(i) < RemovedScan(j)
         /\ \A i, j \in Kept : Prefix(i) = Prefix(j) => i = j
         /\ \A i, j \in Removed : RemovedScan(i) = RemovedScan(j) => i = j
<1>1. Kept \in SUBSET (1..n) /\ Removed \in SUBSET (1..n) /\ n \in Nat
  BY Scans DEF Static
<1>2. \A i, j \in Kept : i < j <=> Prefix(i) < Prefix(j)
  BY <1>1, RankOrder DEF Prefix
<1>3. \A i, j \in Removed : i < j <=> RemovedScan(i) < RemovedScan(j)
  BY <1>1, RankOrder DEF RemovedScan
<1>4. \A j \in Kept : Prefix(j) \in Int /\ j \in Int
  BY <1>1, Scans
<1>5. \A j \in Removed : RemovedScan(j) \in Int /\ j \in Int
  BY <1>1, Scans
<1>6. \A i, j \in Kept : Prefix(i) = Prefix(j) => i = j
  BY <1>2, <1>4
<1>7. \A i, j \in Removed : RemovedScan(i) = RemovedScan(j) => i = j
  BY <1>3, <1>5
<1> QED BY <1>2, <1>3, <1>6, <1>7

\* A full set of slots has one possible content, and it is a map.
LEMMA FilledIsMap ==
  ASSUME Static, NEW s, Slots(s), Filled(s, Kept)
  PROVE  /\ IsMap(s)
         /\ \A t : Slots(t) /\ Filled(t, Kept) => t = s
<1>1. \A r \in 1..Len(s) : \E j \in Kept : Prefix(j) = r /\ s[r] = red[j]
  BY Scans DEF Slots, Filled
<1>2. \A j \in Kept : red[j] \in Originals /\ j \in 1..n
  BY Scans DEF Static
<1>3. s \in Seq(Originals)
  <2>1. \A r \in 1..Len(s) : s[r] \in Originals
    BY <1>1, <1>2
  <2>2. s \in Seq(Nat) /\ Len(s) \in Nat /\ DOMAIN s = 1..Len(s)
    BY LenProperties DEF Slots
  <2>3. s \in [1..Len(s) -> Originals]
    BY <2>1, <2>2, LenProperties
  <2> QED BY <2>2, <2>3, SeqDef
<1>4. ASSUME NEW a \in 1..Len(s), NEW b \in 1..Len(s), a < b PROVE s[a] < s[b]
  <2>1. PICK i \in Kept : Prefix(i) = a /\ s[a] = red[i]
    BY <1>1
  <2>2. PICK j \in Kept : Prefix(j) = b /\ s[b] = red[j]
    BY <1>1
  <2>3. i < j
    BY <1>4, <2>1, <2>2, SlotOrder
  <2> QED BY <1>2, <2>1, <2>2, <2>3 DEF Static
<1>5. ASSUME NEW t, Slots(t), Filled(t, Kept) PROVE t = s
  <2>1. \A r \in 1..Len(s) : t[r] = s[r]
    BY <1>1, <1>5 DEF Filled
  <2> QED BY <1>5, <2>1, SeqEqual DEF Slots
<1> QED BY <1>3, <1>4, <1>5 DEF IsMap

\* A write to the slot of a kept column adds that column and disturbs no other.
LEMMA FillSlot ==
  ASSUME Static, NEW s, Slots(s), NEW j \in Kept, NEW J \in SUBSET Kept, Filled(s, J)
  PROVE  /\ Slots([s EXCEPT ![Prefix(j)] = red[j]])
         /\ Filled([s EXCEPT ![Prefix(j)] = red[j]], J \cup {j})
<1> DEFINE t == [s EXCEPT ![Prefix(j)] = red[j]]
<1>1. Prefix(j) \in 1..Len(s) /\ red[j] \in Nat
  BY Scans, ElementOfSeq DEF Slots, Static, n
<1>2. /\ t \in Seq(Nat) /\ Len(t) = Len(s)
      /\ \A r \in 1..Len(s) : t[r] = IF r = Prefix(j) THEN red[j] ELSE s[r]
  BY <1>1, ExceptSeq DEF Slots
<1>3. \A i \in J \cup {j} : Prefix(i) \in 1..Len(s)
  BY Scans DEF Slots
<1>4. \A i \in J \cup {j} : t[Prefix(i)] = red[i]
  BY <1>2, <1>3, SlotOrder DEF Filled
<1> QED BY <1>2, <1>4 DEF Slots, Filled

\* When nothing was removed before, the map is the identity.
LEMMA IdentityMap ==
  ASSUME Static, n = N0
  PROVE  \A j \in 1..n : red[j] = j
<1> SUFFICES ASSUME NEW j \in 1..n PROVE red[j] = j
  OBVIOUS
<1>1. /\ n \in Nat
      /\ \A i \in 1..n : red[i] \in 1..n
      /\ \A i, h \in 1..n : i < h => red[i] < red[h]
  BY DEF Static, Originals
<1>2. j <= red[j]
  <2> DEFINE f == [i \in 1..j |-> red[i]]
  <2>1. \A i \in 1..j : red[i] \in 1..red[j]
    BY <1>1
  <2>2. \A i, h \in 1..j : red[i] = red[h] => i = h
    BY <1>1
  <2>3. f \in Injection(1..j, 1..red[j])
    BY <2>1, <2>2, Fun_IsInj
  <2>4. /\ IsFiniteSet(1..red[j]) /\ Cardinality(1..red[j]) = red[j]
        /\ Cardinality(1..j) = j
    BY <1>1, FS_Interval
  <2> QED BY <2>3, <2>4, FS_Injection
<1>3. red[j] <= j
  <2> DEFINE f == [i \in j..n |-> red[i]]
  <2>1. \A i \in j..n : red[i] \in red[j]..n
    BY <1>1
  <2>2. \A i, h \in j..n : red[i] = red[h] => i = h
    BY <1>1
  <2>3. f \in Injection(j..n, red[j]..n)
    BY <2>1, <2>2, Fun_IsInj
  <2>4. /\ IsFiniteSet(red[j]..n) /\ Cardinality(red[j]..n) = n - red[j] + 1
        /\ Cardinality(j..n) = n - j + 1
    BY <1>1, FS_Interval
  <2>5. n - j + 1 <= n - red[j] + 1
    BY <2>3, <2>4, FS_Injection
  <2> QED BY <1>1, <2>5
<1> QED BY <1>1, <1>2, <1>3

-----------------------------------------------------------------------------
\* No step changes what the scans are taken of.
LEMMA Rigid ==
  ASSUME Static, red' = red, keep' = keep, path' = path
  PROVE  /\ Static' /\ n' = n /\ Kept' = Kept /\ Removed' = Removed
         /\ NewCount' = NewCount /\ RemovedCount' = RemovedCount
         /\ \A j : Prefix(j)' = Prefix(j) /\ RemovedScan(j)' = RemovedScan(j)
<1>1. n' = n
  BY DEF n
<1>2. Kept' = Kept /\ Removed' = Removed
  BY <1>1 DEF Kept, Removed
<1>3. \A j : Prefix(j)' = Prefix(j) /\ RemovedScan(j)' = RemovedScan(j)
  BY <1>2 DEF Prefix, RemovedScan
<1>4. NewCount' = NewCount /\ RemovedCount' = RemovedCount
  BY <1>1, <1>3 DEF NewCount, RemovedCount
<1> QED BY <1>1, <1>2, <1>3, <1>4 DEF Static

\* So a set of slots that is not written keeps its content.
LEMMA FilledRigid ==
  ASSUME Static, red' = red, keep' = keep, path' = path
  PROVE  \A s, J : (Filled(s, J)' <=> Filled(s, J)) /\ (Slots(s)' <=> Slots(s))
BY Rigid DEF Filled, Slots

\* A buffer that no thread has written.
LEMMA FreshSlots ==
  ASSUME NEW m \in Nat
  PROVE  LET s == [i \in 1..m |-> Garbage] IN s \in Seq(Nat) /\ Len(s) = m
BY DEF Garbage

LEMMA InitIInv ==
  ASSUME Init PROVE IInv
<1> USE N0Assumption
<1>1. Static
  <2>1. PICK w \in 0..N0 : red \in [1..w -> Originals] /\ IsMap(red)
    BY DEF Init, Maps
  <2>2. red \in Seq(Originals) /\ Originals \subseteq Nat
    BY <2>1 DEF IsMap, Originals
  <2>3. n \in Nat /\ \A j \in 1..n : red[j] \in Originals
    BY <2>2, LenProperties, ElementOfSeq DEF n
  <2>4. red \in Seq(Nat)
    BY <2>2, SeqMonotonic
  <2> QED BY <2>1, <2>3, <2>4 DEF Static, Init, IsMap, n, IdentityAllowed
<1>2. Gathered
  <2>1. Slots(lpIds)
    BY <1>1, Scans, FreshSlots DEF Init, Slots
  <2>2. Kept \ Waiting("gather") = {}
    BY <1>1, Scans DEF Init, Waiting, n
  <2> QED BY <2>1, <2>2 DEF Gathered, Filled
<1> QED BY <1>1, <1>2 DEF Init, IInv, HostStart, DenseInv, PackInv, SparseInv,
                          IdentityInv, ResultInv, n, AtEnd

\* A gather thread fills the slot of its column, if the column is kept.
LEMMA GatherStep ==
  ASSUME IInv, NEW j \in todo, GatherThread(j) PROVE IInv'
<1>1. /\ Static /\ pc = "gather" /\ pc' = pc /\ todo' = todo \ {j} /\ j \in 1..n
      /\ red' = red /\ keep' = keep /\ path' = path
  BY DEF IInv, GatherThread
<1>2. Slots(lpIds) /\ Filled(lpIds, Kept \ todo)
  BY <1>1 DEF IInv, Gathered, Waiting
<1>3. Slots(lpIds') /\ Filled(lpIds', Kept \ todo')
  <2>1. CASE j \in Kept
    <3>1. OldToNew(j) = Prefix(j) /\ OldToNew(j) # 0
      BY <1>1, <2>1, Scans DEF OldToNew, Kept
    <3>2. lpIds' = [lpIds EXCEPT ![Prefix(j)] = red[j]]
      BY <3>1 DEF GatherThread
    <3>3. Slots(lpIds') /\ Filled(lpIds', (Kept \ todo) \cup {j})
      BY <1>1, <1>2, <2>1, <3>2, FillSlot
    <3> QED BY <1>1, <3>3 DEF Filled
  <2>2. CASE j \notin Kept
    <3>1. OldToNew(j) = 0
      BY <1>1, <2>2 DEF OldToNew, Kept, Static
    <3>2. lpIds' = lpIds /\ Kept \ todo' = Kept \ todo
      BY <1>1, <2>2, <3>1 DEF GatherThread
    <3> QED BY <1>2, <3>2
  <2> QED BY <2>1, <2>2
<1>4. Gathered'
  <2>1. Kept' = Kept /\ Waiting("gather")' = todo'
    BY <1>1, Rigid DEF Waiting
  <2> QED BY <1>1, <1>3, <2>1, FilledRigid DEF Gathered
<1>5. Static' /\ todo' \subseteq 1..n' /\ HostStart'
  BY <1>1, Rigid DEF IInv, HostStart, GatherThread
<1> QED BY <1>1, <1>4, <1>5 DEF IInv, DenseInv, PackInv, SparseInv, IdentityInv, ResultInv, AtEnd

\* With nothing to remove, every column keeps its index.
LEMMA NothingRemoved ==
  ASSUME Static, RemovedCount = 0
  PROVE  Slots(red) /\ Filled(red, Kept)
<1>1. Kept = 1..n /\ NewCount = n /\ n \in Nat
  <2>1. Removed = {}
    BY Scans, RankBounds, FS_EmptySet DEF Static
  <2>2. Kept = 1..n
    BY <2>1, Scans DEF Removed
  <2>3. NewCount \in Nat /\ NewCount + 0 = n /\ n \in Nat
    BY Scans DEF Static
  <2> QED BY <2>2, <2>3
<1>2. \A j \in 1..n : Prefix(j) = j
  <2> SUFFICES ASSUME NEW j \in 1..n PROVE Prefix(j) = j
    OBVIOUS
  <2>1. Rank(Kept, 0) = 0
    BY <1>1, RankBounds
  <2>2. Rank(Kept, j) = Rank(Kept, 0) + (j - 0)
    <3>1. 0 \in 0..n /\ j \in 0..n /\ 0 <= j /\ (0 + 1)..j \subseteq Kept
      BY <1>1
    <3>2. Kept \in SUBSET (1..n)
      BY <1>1
    <3> QED BY <1>1, <3>1, <3>2, RankRun
  <2> QED BY <2>1, <2>2 DEF Prefix
<1> QED BY <1>1, <1>2 DEF Slots, Filled, Static, n

\* The map is left alone, or the loop or kernel of the path starts.
LEMMA StartStep ==
  ASSUME IInv, StartRecord PROVE IInv'
<1>1. /\ Static /\ pc = "gather" /\ todo = {} /\ lpIds' = lpIds
      /\ red' = red /\ keep' = keep /\ path' = path
      /\ k = 1 /\ rangeBegin = 1 /\ next = << >> /\ k' = k /\ rangeBegin' = rangeBegin
      /\ Slots(lpIds) /\ Filled(lpIds, Kept) /\ n \in Nat
  BY DEF IInv, StartRecord, Gathered, HostStart, Waiting, Static
<1>2. /\ Static' /\ n' = n /\ Kept' = Kept /\ Removed' = Removed
      /\ NewCount' = NewCount /\ RemovedCount' = RemovedCount
      /\ \A j : Prefix(j)' = Prefix(j) /\ RemovedScan(j)' = RemovedScan(j)
  BY <1>1, Rigid
<1>3. pc' # "gather" => Gathered'
  <2>1. pc' # "gather" => Waiting("gather")' = {}
    BY DEF Waiting
  <2> QED BY <1>1, <1>2, <2>1, FilledRigid DEF Gathered
<1>4. CASE RemovedCount = 0
  <2>1. pc' = "done" /\ next' = red /\ todo' = {}
    BY <1>1, <1>4 DEF StartRecord
  <2>2. Slots(next)' /\ Filled(next, Kept)'
    BY <1>1, <1>2, <1>4, <2>1, NothingRemoved, FilledRigid DEF Slots, Filled
  <2> QED BY <1>2, <1>3, <2>1, <2>2
          DEF IInv, HostStart, DenseInv, PackInv, SparseInv, IdentityInv, ResultInv, AtEnd
<1>5. CASE RemovedCount # 0 /\ path = "dense"
  <2>1. pc' = "dense" /\ next' = << >> /\ todo' = {}
    BY <1>1, <1>5 DEF StartRecord
  <2>2. DenseInv'
    <3>1. Prefix(1 - 1) = 0
      BY <1>1, Scans, RankBounds DEF Prefix
    <3>2. {j \in Kept : j < 1} = {}
      BY <1>1, Scans
    <3> QED BY <1>1, <1>2, <2>1, <3>1, <3>2, EmptySeq DEF DenseInv, Filled
  <2> QED BY <1>2, <1>3, <2>1, <2>2
          DEF IInv, HostStart, PackInv, SparseInv, IdentityInv, ResultInv, AtEnd
<1>6. CASE RemovedCount # 0 /\ path = "sparse"
  <2>1. /\ pc' = "pack" /\ next' = next /\ todo' = 1..n
        /\ packed' = [i \in 1..RemovedCount |-> Garbage]
    BY <1>1, <1>6 DEF StartRecord
  <2>2. PackInv'
    <3>1. packed' \in Seq(Nat) /\ Len(packed') = RemovedCount
      BY <1>1, <2>1, Scans, FreshSlots
    <3>2. Removed' \ Waiting("pack")' = {}
      BY <1>1, <1>2, <2>1, Scans DEF Waiting
    <3> QED BY <1>2, <3>1, <3>2 DEF PackInv
  <2> QED BY <1>1, <1>2, <1>3, <2>1, <2>2
          DEF IInv, HostStart, DenseInv, SparseInv, IdentityInv, ResultInv, AtEnd
<1>7. CASE RemovedCount # 0 /\ path = "identity"
  <2>1. /\ pc' = "identity" /\ todo' = 1..n
        /\ next' = [i \in 1..NewCount |-> Garbage]
    BY <1>1, <1>7 DEF StartRecord
  <2>2. IdentityInv'
    <3>1. Slots(next')
      BY <1>1, <2>1, Scans, FreshSlots DEF Slots
    <3>2. Kept' \ todo' = {}
      BY <1>1, <1>2, <2>1, Scans
    <3> QED BY <1>1, <1>2, <1>7, <3>1, <3>2, FilledRigid DEF IdentityInv, Filled
  <2> QED BY <1>2, <1>3, <2>1, <2>2
          DEF IInv, HostStart, DenseInv, PackInv, SparseInv, ResultInv, AtEnd
<1> QED BY <1>1, <1>4, <1>5, <1>6, <1>7 DEF StartRecord

\* The dense loop appends a kept column to the slots below its own.
LEMMA DenseLoop ==
  ASSUME IInv, DenseStep PROVE IInv'
<1>1. /\ Static /\ pc = "dense" /\ pc' = pc /\ k \in 1..n /\ k' = k + 1 /\ n \in Nat
      /\ red' = red /\ keep' = keep /\ path' = path /\ lpIds' = lpIds /\ todo' = todo
      /\ next \in Seq(Nat) /\ Len(next) = Prefix(k - 1)
      /\ Filled(next, {j \in Kept : j < k})
  BY DEF IInv, DenseStep, DenseInv, Static
<1>2. /\ Static' /\ n' = n /\ Kept' = Kept /\ NewCount' = NewCount
      /\ \A j : Prefix(j)' = Prefix(j)
  BY <1>1, Rigid
<1>3. /\ Kept \in SUBSET (1..n) /\ k - 1 \in 0..n /\ k \in 0..n
      /\ Prefix(k) = IF k \in Kept THEN Prefix(k - 1) + 1 ELSE Prefix(k - 1)
      /\ Prefix(k - 1) \in Nat
  <2>1. Kept \in SUBSET (1..n)
    BY <1>1, Scans
  <2>2. k - 1 \in 0..n /\ k \in 0..n
    BY <1>1
  <2>3. Prefix(k) = IF k \in Kept THEN Prefix(k - 1) + 1 ELSE Prefix(k - 1)
    BY <1>1, ScanStep
  <2>4. Prefix(k - 1) \in Nat
    BY <1>1, <2>2, ScanStep
  <2> QED BY <2>1, <2>2, <2>3, <2>4
<1>4. /\ next' \in Seq(Nat) /\ Len(next') = Prefix(k)
      /\ Filled(next', {j \in Kept : j < k + 1})
  <2>1. CASE k \in Kept
    <3>1. next' = Append(next, red[k]) /\ red[k] \in Nat
      BY <1>1, <2>1, ElementOfSeq DEF DenseStep, Kept, Static, n
    <3>2. /\ next' \in Seq(Nat) /\ Len(next') = Len(next) + 1
          /\ \A r \in 1..Len(next) : next'[r] = next[r]
          /\ next'[Len(next) + 1] = red[k]
      BY <1>1, <3>1, AppendProperties
    <3>3. \A j \in Kept : j < k + 1 => j = k \/ (j < k /\ Prefix(j) \in 1..Len(next))
      <4> SUFFICES ASSUME NEW j \in Kept, j < k PROVE Prefix(j) \in 1..Len(next)
        BY <1>1, <1>3
      <4>1. Prefix(j) < Prefix(k) /\ Prefix(j) \in 1..NewCount
        BY <1>1, <2>1, Scans, SlotOrder
      <4> QED BY <1>1, <1>3, <2>1, <4>1
    <3> QED BY <1>1, <1>3, <2>1, <3>2, <3>3 DEF Filled
  <2>2. CASE k \notin Kept
    <3>1. next' = next
      BY <1>1, <2>2 DEF DenseStep, Kept
    <3>2. \A j \in Kept : j < k + 1 => j < k
      BY <1>1, <1>3, <2>2
    <3> QED BY <1>1, <1>3, <2>2, <3>1, <3>2 DEF Filled
  <2> QED BY <2>1, <2>2
<1>5. DenseInv'
  <2>1. k' \in 1..(n' + 1) /\ k' - 1 = k
    BY <1>1, <1>2
  <2> QED BY <1>1, <1>2, <1>4, <2>1 DEF DenseInv, Filled
<1>6. Gathered'
  BY <1>1, <1>2, FilledRigid DEF IInv, Gathered, Waiting
<1> QED BY <1>1, <1>2, <1>5, <1>6
        DEF IInv, HostStart, PackInv, SparseInv, IdentityInv, ResultInv, AtEnd

\* The dense loop met as many kept columns as the scan counted.
LEMMA DenseFinish ==
  ASSUME IInv, DenseEnd PROVE IInv'
<1>1. /\ Static /\ pc = "dense" /\ k = n + 1 /\ n \in Nat
      /\ red' = red /\ keep' = keep /\ path' = path /\ lpIds' = lpIds /\ todo' = todo
      /\ next' = next /\ next \in Seq(Nat) /\ Len(next) = Prefix(k - 1)
      /\ Filled(next, {j \in Kept : j < k})
  BY DEF IInv, DenseEnd, DenseInv, Static
<1>2. k - 1 = n /\ Len(next) = NewCount
  BY <1>1 DEF NewCount
<1>3. pc' = "fixed"
  BY <1>2 DEF DenseEnd
<1>4. {j \in Kept : j < k} = Kept
  <2>1. \A j \in Kept : j < k
    BY <1>1, Scans
  <2> QED BY <2>1
<1>5. ResultInv' /\ Gathered'
  <2>1. Slots(next) /\ Filled(next, Kept) /\ Kept' = Kept
    BY <1>1, <1>2, <1>4, Rigid DEF Slots
  <2> QED BY <1>1, <1>3, <2>1, FilledRigid DEF ResultInv, IInv, Gathered, Waiting, AtEnd
<1> QED BY <1>1, <1>3, <1>5, Rigid
        DEF IInv, HostStart, DenseInv, PackInv, SparseInv, IdentityInv, AtEnd

\* A pack thread writes its column to the slot the scan of the removed gives it.
LEMMA PackStep ==
  ASSUME IInv, NEW j \in todo, PackThread(j) PROVE IInv'
<1>1. /\ Static /\ pc = "pack" /\ pc' = pc /\ todo' = todo \ {j} /\ j \in 1..n /\ n \in Nat
      /\ red' = red /\ keep' = keep /\ path' = path /\ lpIds' = lpIds
      /\ packed \in Seq(Nat) /\ Len(packed) = RemovedCount
      /\ \A i \in Removed \ todo : packed[RemovedScan(i)] = i
  BY DEF IInv, PackThread, PackInv, Waiting, Static
<1>2. /\ Static' /\ n' = n /\ Kept' = Kept /\ Removed' = Removed
      /\ RemovedCount' = RemovedCount /\ \A i : RemovedScan(i)' = RemovedScan(i)
  BY <1>1, Rigid
<1>3. /\ packed' \in Seq(Nat) /\ Len(packed') = RemovedCount
      /\ \A i \in Removed \ todo' : packed'[RemovedScan(i)] = i
  <2>1. CASE j \in Removed
    <3>1. packed' = [packed EXCEPT ![RemovedScan(j)] = j]
      BY <1>1, <2>1 DEF PackThread, Removed, Kept
    <3>2. RemovedScan(j) \in 1..Len(packed) /\ j \in Nat
      BY <1>1, <2>1, Scans
    <3>3. /\ packed' \in Seq(Nat) /\ Len(packed') = Len(packed)
          /\ \A r \in 1..Len(packed) : packed'[r] = IF r = RemovedScan(j) THEN j ELSE packed[r]
      BY <1>1, <3>1, <3>2, ExceptSeq
    <3>4. \A i \in Removed : RemovedScan(i) \in 1..Len(packed)
      BY <1>1, Scans
    <3> QED BY <1>1, <3>3, <3>4, <2>1, SlotOrder
  <2>2. CASE j \notin Removed
    <3>1. packed' = packed /\ Removed \ todo' = Removed \ todo
      BY <1>1, <2>2 DEF PackThread, Removed, Kept
    <3> QED BY <1>1, <3>1
  <2> QED BY <2>1, <2>2
<1>4. PackInv'
  <2>1. Waiting("pack")' = todo'
    BY <1>1 DEF Waiting
  <2> QED BY <1>2, <1>3, <2>1 DEF PackInv
<1>5. Gathered'
  <2>1. Waiting("gather") = {} /\ Waiting("gather")' = {}
    BY <1>1 DEF Waiting
  <2> QED BY <1>1, <1>2, <2>1, FilledRigid DEF IInv, Gathered
<1>6. todo' \subseteq 1..n' /\ HostStart'
  BY <1>1, <1>2 DEF IInv, HostStart, PackThread
<1> QED BY <1>1, <1>2, <1>4, <1>5, <1>6
        DEF IInv, DenseInv, SparseInv, IdentityInv, ResultInv, AtEnd

\* All removed columns are packed; the copying of ranges starts.
LEMMA PackFinish ==
  ASSUME IInv, PackDone PROVE IInv'
<1>1. /\ Static /\ pc = "pack" /\ pc' = "sparse" /\ todo = {} /\ todo' = todo /\ n \in Nat
      /\ red' = red /\ keep' = keep /\ path' = path /\ lpIds' = lpIds /\ packed' = packed
      /\ k' = 1 /\ rangeBegin' = 1 /\ next' = << >>
  BY DEF IInv, PackDone, HostStart, Static
<1>2. /\ Static' /\ n' = n /\ Kept' = Kept /\ Removed' = Removed /\ RemovedCount' = RemovedCount
      /\ \A j : Prefix(j)' = Prefix(j) /\ RemovedScan(j)' = RemovedScan(j)
  BY <1>1, Rigid
<1>3. PackInv' /\ Gathered'
  <2>1. /\ Waiting("pack") = {} /\ Waiting("pack")' = {}
        /\ Waiting("gather") = {} /\ Waiting("gather")' = {}
    BY <1>1 DEF Waiting
  <2> QED BY <1>1, <1>2, <2>1, FilledRigid DEF IInv, PackInv, Gathered
<1>4. SparseInv'
  <2>1. Prefix(1 - 1) = 0 /\ RemovedScan(1 - 1) = 0 /\ RemovedCount \in Nat
    BY <1>1, Scans, RankBounds DEF Prefix, RemovedScan
  <2>2. {j \in Kept : j < 1} = {}
    BY <1>1, Scans
  <2> QED BY <1>1, <1>2, <2>1, <2>2, EmptySeq DEF SparseInv, Filled
<1> QED BY <1>1, <1>2, <1>3, <1>4 DEF IInv, HostStart, DenseInv, IdentityInv, ResultInv, AtEnd

\* A range of a sequence of numbers: its type, length and elements.
LEMMA RangeOfNumbers ==
  ASSUME NEW q, NEW lo \in Int, NEW hi \in Int, \A i \in lo..hi : q[i] \in Nat
  PROVE  /\ SubSeq(q, lo, hi) \in Seq(Nat)
         /\ Len(SubSeq(q, lo, hi)) = IF lo <= hi THEN hi - lo + 1 ELSE 0
         /\ \A i \in 1..(hi - lo + 1) : SubSeq(q, lo, hi)[i] = q[lo + i - 1]
BY SubSeqProperties, SMTT(60)

\* Copying a range of kept columns behind the slots of the columns before it.
LEMMA CopyRange ==
  ASSUME Static, NEW s \in Seq(Nat), NEW a \in 1..(n + 1), NEW b \in (a - 1)..n,
         a..b \subseteq Kept, Len(s) = Prefix(a - 1), Filled(s, {j \in Kept : j < a})
  PROVE  /\ s \o SubSeq(red, a, b) \in Seq(Nat)
         /\ Len(s \o SubSeq(red, a, b)) = Prefix(b)
         /\ Filled(s \o SubSeq(red, a, b), {j \in Kept : j <= b})
<1> DEFINE u == SubSeq(red, a, b)
           t == s \o u
<1>1. /\ n \in Nat /\ red \in Seq(Nat) /\ Len(red) = n /\ Kept \in SUBSET (1..n)
      /\ a - 1 \in 0..n /\ b \in 0..n /\ Prefix(a - 1) \in Nat
  BY Scans, ScanStep DEF Static, n
<1>2. u \in Seq(Nat) /\ Len(u) = b - a + 1 /\ \A i \in 1..(b - a + 1) : u[i] = red[a + i - 1]
  <2>1. \A i \in a..b : red[i] \in Nat
    BY <1>1, ElementOfSeq
  <2>2. a \in Int /\ b \in Int
    BY <1>1
  <2>3. /\ SubSeq(red, a, b) \in Seq(Nat)
        /\ Len(SubSeq(red, a, b)) = IF a <= b THEN b - a + 1 ELSE 0
        /\ \A i \in 1..(b - a + 1) : SubSeq(red, a, b)[i] = red[a + i - 1]
    BY <2>1, <2>2, RangeOfNumbers
  <2> QED BY <1>1, <2>3
<1>3. /\ t \in Seq(Nat) /\ Len(t) = Len(s) + Len(u)
      /\ \A i \in 1..(Len(s) + Len(u)) : t[i] = IF i <= Len(s) THEN s[i] ELSE u[i - Len(s)]
  BY <1>2, ConcatProperties
<1> HIDE DEF u, t
<1>4. \A h \in (a - 1)..b : Prefix(h) = Prefix(a - 1) + (h - (a - 1))
  <2> SUFFICES ASSUME NEW h \in (a - 1)..b PROVE Prefix(h) = Prefix(a - 1) + (h - (a - 1))
    OBVIOUS
  <2>1. h \in 0..n /\ a - 1 <= h /\ ((a - 1) + 1)..h \subseteq Kept
    BY <1>1
  <2> QED BY <1>1, <2>1, RankRun DEF Prefix
<1>5. Len(t) = Prefix(b)
  BY <1>1, <1>2, <1>3, <1>4
<1>6. ASSUME NEW j \in Kept, j <= b PROVE t[Prefix(j)] = red[j]
  <2>1. j \in 1..n /\ Prefix(j) \in Nat /\ 1 <= Prefix(j) /\ Prefix(j) <= Prefix(b)
    BY <1>1, <1>6, Scans, ScanStep
  <2>2. CASE j < a
    <3>0. j \in 0..n /\ a - 1 \in 0..n /\ j <= a - 1
      BY <1>1, <2>1, <2>2
    <3>1. Prefix(j) <= Prefix(a - 1)
      BY <3>0, ScanStep
    <3>2. t[Prefix(j)] = s[Prefix(j)]
      BY <1>1, <1>2, <1>3, <1>5, <2>1, <3>1
    <3> QED BY <2>2, <3>2 DEF Filled
  <2>3. CASE a <= j
    <3>0. /\ a \in Int /\ b \in Int /\ j \in Int
          /\ Len(s) \in Nat /\ Len(u) = b - a + 1 /\ j \in (a - 1)..b
      <4>1. a \in Int /\ b \in Int /\ j \in Int
        BY <1>1, <2>1
      <4> QED BY <1>1, <1>2, <1>6, <2>3, <4>1
    <3>1. Prefix(j) = Len(s) + (j - a + 1)
      <4>1. Prefix(j) = Len(s) + (j - (a - 1))
        BY <1>4, <3>0
      <4> QED BY <3>0, <4>1
    <3>2. j - a + 1 \in 1..(b - a + 1)
      BY <1>6, <2>3, <3>0
    <3>3. /\ Prefix(j) \in 1..(Len(s) + Len(u)) /\ ~(Prefix(j) <= Len(s))
          /\ Prefix(j) - Len(s) = j - a + 1
      BY <3>0, <3>1, <3>2
    <3>4. t[Prefix(j)] = u[j - a + 1]
      BY <1>3, <3>3
    <3>5. u[j - a + 1] = red[a + (j - a + 1) - 1] /\ a + (j - a + 1) - 1 = j
      BY <1>2, <2>1, <3>2
    <3> QED BY <3>4, <3>5
  <2>4. j < a \/ a <= j
    BY <2>1
  <2> QED BY <2>2, <2>3, <2>4
<1> QED BY <1>3, <1>5, <1>6 DEF Filled, u, t

\* One pass of the sparse loop copies the kept columns up to the next removed
\* one; it never meets the guard that would skip a removed column.
LEMMA SparseLoop ==
  ASSUME IInv, SparseStep PROVE IInv'
<1>1. /\ Static /\ pc = "sparse" /\ pc' = pc /\ k' = k + 1 /\ n \in Nat
      /\ red' = red /\ keep' = keep /\ path' = path /\ lpIds' = lpIds /\ todo' = todo
      /\ packed' = packed /\ Len(packed) = RemovedCount
      /\ k \in 1..(RemovedCount + 1) /\ rangeBegin \in 1..(n + 1) /\ RemovedCount \in Nat
      /\ k - 1 = RemovedScan(rangeBegin - 1)
      /\ next \in Seq(Nat) /\ Len(next) = Prefix(rangeBegin - 1)
      /\ Filled(next, {j \in Kept : j < rangeBegin})
      /\ \A j \in Removed : packed[RemovedScan(j)] = j
  BY Scans DEF IInv, SparseStep, SparseInv, PackInv, Waiting, Static
<1>2. /\ Static' /\ n' = n /\ Kept' = Kept /\ Removed' = Removed
      /\ RemovedCount' = RemovedCount
      /\ \A j : Prefix(j)' = Prefix(j) /\ RemovedScan(j)' = RemovedScan(j)
  BY <1>1, Rigid
<1>3. k \in 1..RemovedCount
  BY <1>1 DEF SparseStep
<1>4. PICK c \in Removed : RemovedScan(c) = k
  BY <1>1, <1>3, Scans
<1>5. packed[k] = c /\ c \in 1..n /\ c - 1 \in 0..n /\ rangeBegin - 1 \in 0..n
  BY <1>1, <1>4, Scans
<1>6. rangeBegin <= c
  <2> SUFFICES ASSUME c <= rangeBegin - 1 PROVE FALSE
    BY <1>1, <1>5
  <2>1. RemovedScan(c) <= RemovedScan(rangeBegin - 1)
    BY <1>1, <1>5, ScanStep
  <2> QED BY <1>1, <1>4, <2>1
<1>7. rangeBegin..(c - 1) \subseteq Kept
  <2> SUFFICES ASSUME NEW h \in rangeBegin..(c - 1), h \in Removed PROVE FALSE
    BY <1>1, <1>5 DEF Removed
  <2>1. rangeBegin - 1 < h /\ h < c /\ h \in Int
    BY <1>1, <1>5
  <2>2. RemovedScan(rangeBegin - 1) < RemovedScan(h)
    BY <1>1, <1>5, <2>1, ScanStep
  <2>3. RemovedScan(h) < RemovedScan(c) /\ RemovedScan(h) \in 1..RemovedCount
    BY <1>1, <1>4, <2>1, Scans, SlotOrder
  <2> QED BY <1>1, <1>4, <2>2, <2>3
<1>8. next' = next \o SubSeq(red, rangeBegin, c - 1) /\ rangeBegin' = c + 1
  <2>1. ~(packed[k] < rangeBegin \/ packed[k] > n)
    BY <1>1, <1>5, <1>6
  <2> QED BY <1>5, <2>1 DEF SparseStep
<1>9. /\ next' \in Seq(Nat) /\ Len(next') = Prefix(c - 1)
      /\ Filled(next', {j \in Kept : j <= c - 1})
  <2>1. c - 1 \in (rangeBegin - 1)..n
    BY <1>1, <1>5, <1>6
  <2> QED BY <1>1, <1>7, <1>8, <2>1, CopyRange
<1>10. SparseInv'
  <2>1. k' \in 1..(RemovedCount' + 1) /\ rangeBegin' \in 1..(n' + 1)
    BY <1>1, <1>2, <1>3, <1>5, <1>8
  <2>2. k' - 1 = k /\ rangeBegin' - 1 = c
    BY <1>1, <1>5, <1>8
  <2>3. c \notin Kept /\ Prefix(c) = Prefix(c - 1)
    <3>1. c \notin Kept
      BY <1>4 DEF Removed
    <3>2. Prefix(c) = IF c \in Kept THEN Prefix(c - 1) + 1 ELSE Prefix(c - 1)
      BY <1>1, <1>5, ScanStep
    <3> QED BY <3>1, <3>2
  <2>4. \A j \in Kept : j < c + 1 => j <= c - 1
    BY <1>1, <1>5, <2>3, Scans
  <2>5. Filled(next', {j \in Kept : j < rangeBegin'})
    BY <1>8, <1>9, <2>4 DEF Filled
  <2>6. Filled(next, {j \in Kept : j < rangeBegin})'
    BY <1>1, <1>2, <2>5 DEF Filled
  <2>7. (k - 1 = RemovedScan(rangeBegin - 1))' /\ (Len(next) = Prefix(rangeBegin - 1))'
    BY <1>2, <1>4, <1>9, <2>2, <2>3
  <2> QED BY <1>9, <2>1, <2>6, <2>7 DEF SparseInv
<1>11. PackInv' /\ Gathered'
  <2>1. /\ Waiting("pack") = {} /\ Waiting("pack")' = {}
        /\ Waiting("gather") = {} /\ Waiting("gather")' = {}
    BY <1>1 DEF Waiting
  <2> QED BY <1>1, <1>2, <2>1, FilledRigid DEF IInv, PackInv, Gathered
<1> QED BY <1>1, <1>2, <1>10, <1>11
        DEF IInv, HostStart, DenseInv, IdentityInv, ResultInv, AtEnd

\* Behind the last removed column only kept ones are left.
LEMMA SparseFinish ==
  ASSUME IInv, SparseEnd PROVE IInv'
<1>1. /\ Static /\ pc = "sparse" /\ pc' = "fixed" /\ n \in Nat
      /\ red' = red /\ keep' = keep /\ path' = path /\ lpIds' = lpIds /\ todo' = todo
      /\ k > RemovedCount /\ k \in 1..(RemovedCount + 1) /\ RemovedCount \in Nat
      /\ rangeBegin \in 1..(n + 1) /\ k - 1 = RemovedScan(rangeBegin - 1)
      /\ next \in Seq(Nat) /\ Len(next) = Prefix(rangeBegin - 1)
      /\ Filled(next, {j \in Kept : j < rangeBegin})
      /\ next' = next \o SubSeq(red, rangeBegin, n)
  BY Scans DEF IInv, SparseEnd, SparseInv, PackInv, Static
<1>2. rangeBegin..n \subseteq Kept
  <2> SUFFICES ASSUME NEW h \in rangeBegin..n, h \in Removed PROVE FALSE
    BY <1>1 DEF Removed
  <2>1. rangeBegin - 1 < h /\ rangeBegin - 1 \in 0..n
    BY <1>1
  <2>2. RemovedScan(rangeBegin - 1) < RemovedScan(h) /\ RemovedScan(h) \in 1..RemovedCount
    BY <1>1, <2>1, Scans, ScanStep
  <2> QED BY <1>1, <2>2
<1>3. /\ next' \in Seq(Nat) /\ Len(next') = Prefix(n)
      /\ Filled(next', {j \in Kept : j <= n})
  <2>1. n \in (rangeBegin - 1)..n
    BY <1>1
  <2> QED BY <1>1, <1>2, <2>1, CopyRange
<1>4. Slots(next') /\ Filled(next', Kept)
  <2>1. \A j \in Kept : j <= n
    BY <1>1, Scans
  <2> QED BY <1>3, <2>1 DEF Slots, Filled, NewCount
<1>5. ResultInv' /\ Gathered'
  <2>1. Kept' = Kept /\ Waiting("gather") = {} /\ Waiting("gather")' = {}
    BY <1>1, Rigid DEF Waiting
  <2> QED BY <1>1, <1>4, <2>1, FilledRigid DEF ResultInv, IInv, Gathered, AtEnd
<1> QED BY <1>1, <1>5, Rigid
        DEF IInv, HostStart, DenseInv, PackInv, SparseInv, IdentityInv, AtEnd

\* A thread of the identity kernel writes its own index, which is the original
\* column because nothing was removed before.
LEMMA IdentityStep ==
  ASSUME IInv, NEW j \in todo, IdentityThread(j) PROVE IInv'
<1>1. /\ Static /\ pc = "identity" /\ pc' = pc /\ todo' = todo \ {j} /\ j \in 1..n
      /\ red' = red /\ keep' = keep /\ path' = path /\ lpIds' = lpIds
      /\ path = "identity" /\ n = N0
      /\ Slots(next) /\ Filled(next, Kept \ todo)
  BY DEF IInv, IdentityThread, IdentityInv, Static
<1>2. Slots(next') /\ Filled(next', Kept \ todo')
  <2>1. CASE j \in Kept
    <3>1. OldToNew(j) = Prefix(j) /\ OldToNew(j) # 0
      BY <1>1, <2>1, Scans DEF OldToNew, Kept
    <3>2. red[j] = j
      BY <1>1, IdentityMap
    <3>3. next' = [next EXCEPT ![Prefix(j)] = red[j]]
      BY <3>1, <3>2 DEF IdentityThread
    <3>4. Slots(next') /\ Filled(next', (Kept \ todo) \cup {j})
      BY <1>1, <2>1, <3>3, FillSlot
    <3> QED BY <1>1, <3>4 DEF Filled
  <2>2. CASE j \notin Kept
    <3>1. OldToNew(j) = 0
      BY <1>1, <2>2 DEF OldToNew, Kept, Static
    <3>2. next' = next /\ Kept \ todo' = Kept \ todo
      BY <1>1, <2>2, <3>1 DEF IdentityThread
    <3> QED BY <1>1, <3>2
  <2> QED BY <2>1, <2>2
<1>3. IdentityInv' /\ Gathered'
  <2>1. Kept' = Kept /\ Waiting("gather") = {} /\ Waiting("gather")' = {}
    BY <1>1, Rigid DEF Waiting
  <2> QED BY <1>1, <1>2, <2>1, FilledRigid DEF IdentityInv, IInv, Gathered
<1> QED BY <1>1, <1>3, Rigid
        DEF IInv, HostStart, DenseInv, PackInv, SparseInv, ResultInv, AtEnd

\* The identity kernel has run.
LEMMA IdentityFinish ==
  ASSUME IInv, IdentityDone PROVE IInv'
<1>1. /\ Static /\ pc = "identity" /\ pc' = "fixed" /\ todo = {} /\ todo' = todo
      /\ red' = red /\ keep' = keep /\ path' = path /\ lpIds' = lpIds /\ next' = next
      /\ Slots(next) /\ Filled(next, Kept \ todo)
  BY DEF IInv, IdentityDone, IdentityInv
<1>2. Kept \ todo = Kept /\ Kept' = Kept /\ Waiting("gather") = {} /\ Waiting("gather")' = {}
  BY <1>1, Rigid DEF Waiting
<1>3. ResultInv' /\ Gathered'
  BY <1>1, <1>2, FilledRigid DEF ResultInv, IInv, Gathered, AtEnd
<1> QED BY <1>1, <1>3, Rigid
        DEF IInv, HostStart, DenseInv, PackInv, SparseInv, IdentityInv, AtEnd

\* Recording the fixed values touches no map, and neither does a stutter.
Records == \/ RecordFixed \/ PackFixedDone \/ AppendStep \/ AppendEnd
           \/ \E j \in todo : PackFixedThread(j)

LEMMA RecordStep ==
  ASSUME IInv, Records PROVE IInv'
<1>1. /\ Static /\ pc \in AtEnd /\ pc' \in AtEnd /\ todo' \subseteq 1..n
      /\ red' = red /\ keep' = keep /\ path' = path /\ lpIds' = lpIds /\ next' = next
      /\ Slots(next) /\ Filled(next, Kept)
  BY DEF IInv, Records, RecordFixed, PackFixedDone, AppendStep, AppendEnd, PackFixedThread,
         ResultInv, AtEnd
<1>2. Kept' = Kept /\ Waiting("gather") = {} /\ Waiting("gather")' = {}
  BY <1>1, Rigid DEF Waiting, AtEnd
<1>3. ResultInv' /\ Gathered'
  BY <1>1, <1>2, FilledRigid DEF ResultInv, IInv, Gathered, AtEnd
<1>4. Static' /\ n' = n
  BY <1>1, Rigid
<1> QED BY <1>1, <1>3, <1>4
        DEF IInv, HostStart, DenseInv, PackInv, SparseInv, IdentityInv, AtEnd

LEMMA Stutter ==
  ASSUME IInv, UNCHANGED vars PROVE IInv'
<1>1. /\ Static /\ red' = red /\ keep' = keep /\ path' = path /\ pc' = pc /\ todo' = todo
      /\ lpIds' = lpIds /\ packed' = packed /\ k' = k /\ rangeBegin' = rangeBegin /\ next' = next
  BY DEF IInv, vars
<1>2. Gathered'
  BY <1>1, Rigid, FilledRigid DEF IInv, Gathered, Waiting
<1>3. DenseInv' /\ SparseInv'
  BY <1>1, Rigid DEF IInv, DenseInv, SparseInv, Filled
<1>4. PackInv'
  BY <1>1, Rigid DEF IInv, PackInv, Waiting
<1>5. IdentityInv' /\ ResultInv'
  BY <1>1, Rigid, FilledRigid DEF IInv, IdentityInv, ResultInv, AtEnd
<1> QED BY <1>1, <1>2, <1>3, <1>4, <1>5, Rigid DEF IInv, HostStart

-----------------------------------------------------------------------------
LEMMA InvariantStep == IInv /\ [Next]_vars => IInv'
<1> SUFFICES ASSUME IInv, [Next]_vars PROVE IInv'
  OBVIOUS
<1>1. ASSUME NEW j \in todo, GatherThread(j) \/ PackThread(j) \/ IdentityThread(j)
      PROVE  IInv'
  BY <1>1, GatherStep, PackStep, IdentityStep
<1>2. CASE StartRecord
  BY <1>2, StartStep
<1>3. CASE DenseStep \/ DenseEnd
  BY <1>3, DenseLoop, DenseFinish
<1>4. CASE PackDone
  BY <1>4, PackFinish
<1>5. CASE SparseStep \/ SparseEnd
  BY <1>5, SparseLoop, SparseFinish
<1>6. CASE IdentityDone \/ Records
  BY <1>6, IdentityFinish, RecordStep
<1>7. CASE UNCHANGED vars
  BY <1>7, Stutter
<1> QED BY <1>1, <1>2, <1>3, <1>4, <1>5, <1>6, <1>7 DEF Next, Records

\* Which slots every loop and kernel of update_record_from_plan has filled.
THEOREM CompactionInvariant == Spec => []IInv
BY InitIInv, InvariantStep, PTL DEF Spec

\* For every LP, mask and thread order, and on each of the three paths, the
\* col_red2org that update_record_from_plan installs names the original
\* column of every slot of the compacted LP, and is strictly increasing.
THEOREM CompactionMatches == Spec => []MapMatchesLp
<1>1. IInv => MapMatchesLp
  <2> SUFFICES ASSUME IInv, pc = "done" PROVE next = lpIds /\ IsMap(next)
    BY DEF MapMatchesLp
  <2>1. Waiting("gather") = {}
    BY DEF Waiting
  <2>2. /\ Static /\ Slots(next) /\ Filled(next, Kept)
        /\ Slots(lpIds) /\ Filled(lpIds, Kept)
    BY <2>1 DEF IInv, ResultInv, Gathered, AtEnd
  <2> QED BY <2>2, FilledIsMap
<1> QED BY <1>1, CompactionInvariant, PTL

\* "column mapping compaction count mismatch" is never thrown.
THEOREM CompactionNeverThrows == Spec => []NeverThrows
<1>1. IInv => NeverThrows
  BY DEF IInv, NeverThrows, AtEnd
<1> QED BY <1>1, CompactionInvariant, PTL

-----------------------------------------------------------------------------
(* The fixed values.                                                       *)

\* s lists the members of S by rank.
Packs(s, S) == /\ s \in Seq(Nat) /\ Len(s) = Rank(S, n)
               /\ \A j \in S : s[Rank(S, j)] = j
\* What the last host loop walks.
Listed == IF path = "sparse" THEN Removed ELSE FixedCols

\* Each program point belongs to one path.
PathInv ==
  /\ pc = "dense" => path = "dense"
  /\ pc \in {"pack", "sparse"} => path = "sparse"
  /\ pc = "identity" => path = "identity"
  /\ pc = "packFixed" => path # "sparse"
  /\ path \in Paths
  /\ coincide \subseteq 1..n

\* The identity kernel counts the fixed columns its threads have met.
SeenInv ==
  /\ fixedSeen \in Nat
  /\ pc = "identity" => (fixedSeen = 0 <=> FixedCols \subseteq todo)
  /\ pc = "gather" => fixedSeen = 0
  /\ path = "identity" /\ pc = "fixed" => (fixedSeen = 0 <=> FixedCols = {})

\* What the packing kernels have listed.
ListInv ==
  /\ path = "sparse" /\ pc \in {"fixed", "append"} => Packs(packed, Removed)
  /\ pc = "packFixed" => /\ k = 1 /\ packed \in Seq(Nat) /\ Len(packed) = FixedCount
                         /\ \A j \in FixedCols \ todo : packed[FixedScan(j)] = j
  /\ path # "sparse" /\ pc = "append" => Packs(packed, FixedCols)

\* The plan's fixed columns among those of J, in increasing order.
Recorded(s, J) ==
  /\ s \in Seq(Nat)
  /\ \A i, j \in 1..Len(s) : i < j => s[i] < s[j]
  /\ \A i \in 1..Len(s) : \E j \in FixedCols \cap J : s[i] = red[j]
  /\ \A j \in FixedCols \cap J : \E i \in 1..Len(s) : s[i] = red[j]

AppendInv ==
  /\ pc \notin {"append", "done"} => fixedIdx = << >>
  /\ pc = "append" => /\ k \in 1..(Rank(Listed, n) + 1)
                      /\ Recorded(fixedIdx, {j \in Listed : Rank(Listed, j) < k})
  /\ pc = "done" /\ RemovedCount > 0 => Recorded(fixedIdx, 1..n)

FixedInv == IInv /\ PathInv /\ SeenInv /\ ListInv /\ AppendInv

\* What no step changes.
LEMMA Unchanged ==
  ASSUME FixedInv, [Next]_vars
  PROVE  /\ red' = red /\ keep' = keep /\ path' = path /\ coincide' = coincide
         /\ n' = n /\ Removed' = Removed /\ FixedCols' = FixedCols /\ Listed' = Listed
         /\ RemovedCount' = RemovedCount
         /\ Static /\ IInv'
<1>1. red' = red /\ keep' = keep /\ path' = path /\ coincide' = coincide
  BY DEF Next, GatherThread, PackThread, IdentityThread, PackFixedThread, StartRecord, DenseStep,
         DenseEnd, PackDone, SparseStep, SparseEnd, IdentityDone, RecordFixed, PackFixedDone,
         AppendStep, AppendEnd, vars
<1>2. Static /\ IInv'
  BY InvariantStep DEF FixedInv, IInv
<1>3. n' = n /\ Removed' = Removed /\ RemovedCount' = RemovedCount
  BY <1>1, <1>2, Rigid
<1>4. FixedCols' = FixedCols
  BY <1>1, <1>3 DEF FixedCols, IsCoinciding
<1>5. Listed' = Listed
  BY <1>1, <1>3, <1>4 DEF Listed
<1> QED BY <1>1, <1>2, <1>3, <1>4, <1>5

\* The sets that are listed, and the ranks their members get.
LEMMA ListedRanks ==
  ASSUME Static, NEW S \in SUBSET (1..n)
  PROVE  /\ Rank(S, n) \in Nat
         /\ \A j \in S : Rank(S, j) \in 1..Rank(S, n)
         /\ \A r \in 1..Rank(S, n) : \E j \in S : Rank(S, j) = r
         /\ \A i, j \in S : i < j <=> Rank(S, i) < Rank(S, j)
         /\ \A i, j \in S : Rank(S, i) = Rank(S, j) => i = j
         /\ Rank(S, n) = 0 => S = {}
<1>0. n \in Nat
  BY DEF Static
<1>1. Rank(S, n) = Cardinality(S) /\ Rank(S, n) \in Nat
  BY <1>0, RankBounds
<1>2. /\ \A j \in S : Rank(S, j) \in 1..Rank(S, n)
      /\ \A r \in 1..Rank(S, n) : \E j \in S : Rank(S, j) = r
  BY <1>0, <1>1, RankOnto
<1>3. \A i, j \in S : i < j <=> Rank(S, i) < Rank(S, j)
  BY <1>0, RankOrder
<1>4. \A i, j \in S : Rank(S, i) = Rank(S, j) => i = j
  <2> SUFFICES ASSUME NEW i \in S, NEW j \in S, Rank(S, i) = Rank(S, j), i # j PROVE FALSE
    OBVIOUS
  <2>1. i \in Int /\ j \in Int
    BY <1>0
  <2>2. i < j \/ j < i
    BY <2>1
  <2>3. Rank(S, i) \in Int /\ Rank(S, j) \in Int
    BY <1>1, <1>2
  <2> QED BY <1>3, <2>2, <2>3
<1>5. Rank(S, n) = 0 => S = {}
  BY <1>1, <1>2
<1> QED BY <1>1, <1>2, <1>3, <1>4, <1>5

\* Before the first entry of a list nothing has been visited.
LEMMA FirstListed ==
  ASSUME Static, NEW S \in SUBSET (1..n)
  PROVE  {j \in S : Rank(S, j) < 1} = {} /\ 1 \in 1..(Rank(S, n) + 1)
<1>1. Rank(S, n) \in Nat
  BY ListedRanks
<1>2. \A j \in S : Rank(S, j) \in 1..Rank(S, n)
  BY ListedRanks
<1>3. \A j \in S : ~(Rank(S, j) < 1)
  BY <1>1, <1>2
<1>4. 1 \in 1..(Rank(S, n) + 1)
  BY <1>1
<1>5. {j \in S : Rank(S, j) < 1} = {}
  BY <1>3
<1> QED BY <1>4, <1>5

LEMMA ListedSets ==
  ASSUME Static
  PROVE  /\ FixedCols \in SUBSET (1..n) /\ Removed \in SUBSET (1..n) /\ FixedCols \subseteq Removed
         /\ Listed \in SUBSET (1..n) /\ FixedCols \subseteq Listed
BY Scans DEF FixedCols, Listed

LEMMA NothingRecorded ==
  ASSUME NEW J, FixedCols \cap J = {}
  PROVE  Recorded(<< >>, J)
BY EmptySeq DEF Recorded

\* A step of the maps' kernels and loops.
LEMMA FixedEarly ==
  ASSUME FixedInv, [Next]_vars, Next, ~Records PROVE FixedInv'
<1>1. /\ red' = red /\ path' = path /\ coincide' = coincide /\ n' = n /\ Removed' = Removed
      /\ FixedCols' = FixedCols /\ RemovedCount' = RemovedCount /\ Static /\ IInv' /\ IInv
  BY Unchanged DEF FixedInv
<1>2. /\ fixedIdx' = fixedIdx /\ pc \notin AtEnd
  BY DEF Next, Records, GatherThread, PackThread, IdentityThread, StartRecord, DenseStep, DenseEnd,
         PackDone, SparseStep, SparseEnd, IdentityDone, AtEnd
<1>3. fixedIdx' = << >>
  BY <1>2 DEF FixedInv, AppendInv, AtEnd
<1>4. CASE \E j \in todo : GatherThread(j)
  <2>1. pc' = "gather" /\ fixedSeen' = fixedSeen /\ pc = "gather"
    BY <1>4 DEF GatherThread
  <2> QED BY <1>1, <1>3, <2>1 DEF FixedInv, PathInv, SeenInv, ListInv, AppendInv
<1>5. CASE \E j \in todo : PackThread(j)
  <2>1. pc' = "pack" /\ fixedSeen' = fixedSeen /\ pc = "pack"
    BY <1>5 DEF PackThread
  <2> QED BY <1>1, <1>3, <2>1 DEF FixedInv, PathInv, SeenInv, ListInv, AppendInv
<1>6. CASE \E j \in todo : IdentityThread(j)
  <2>1. PICK j \in todo : IdentityThread(j)
    BY <1>6
  <2>2. /\ pc' = "identity" /\ pc = "identity" /\ todo' = todo \ {j} /\ j \in 1..n
        /\ fixedSeen' = IF OldToNew(j) = 0 /\ IsCoinciding(j) THEN fixedSeen + 1 ELSE fixedSeen
        /\ fixedSeen \in Nat /\ (fixedSeen = 0 <=> FixedCols \subseteq todo)
    BY <1>1, <2>1 DEF IdentityThread, FixedInv, SeenInv, IInv
  <2>3. OldToNew(j) = 0 <=> j \in Removed
    BY <1>1, <2>2, Scans DEF OldToNew, Kept, Removed, Static
  <2>4. OldToNew(j) = 0 /\ IsCoinciding(j) <=> j \in FixedCols
    BY <2>3 DEF FixedCols
  <2>5. fixedSeen' \in Nat /\ (fixedSeen' = 0 <=> FixedCols \subseteq todo')
    <3>1. CASE j \in FixedCols
      <4>1. fixedSeen' = fixedSeen + 1
        BY <2>2, <2>4, <3>1
      <4> QED BY <2>2, <3>1, <4>1
    <3>2. CASE j \notin FixedCols
      <4>1. fixedSeen' = fixedSeen
        BY <2>2, <2>4, <3>2
      <4> QED BY <2>2, <3>2, <4>1
    <3> QED BY <3>1, <3>2
  <2> QED BY <1>1, <1>3, <2>2, <2>5 DEF FixedInv, PathInv, SeenInv, ListInv, AppendInv
<1>7. CASE StartRecord
  <2>1. /\ pc = "gather" /\ fixedSeen' = fixedSeen /\ fixedSeen = 0
        /\ \/ pc' = "done" /\ RemovedCount = 0
           \/ pc' = "dense" /\ path = "dense"
           \/ pc' = "pack" /\ path = "sparse"
           \/ pc' = "identity" /\ path = "identity" /\ todo' = 1..n
    BY <1>7 DEF StartRecord, FixedInv, SeenInv
  <2>2. pc' = "identity" => FixedCols \subseteq todo'
    BY <1>1, <2>1, ListedSets
  <2>3. PathInv'
    BY <1>1, <2>1 DEF FixedInv, PathInv
  <2>4. SeenInv'
    BY <1>1, <2>1, <2>2 DEF SeenInv
  <2>5. ListInv'
    BY <2>1 DEF ListInv
  <2>6. ~(pc' = "done" /\ RemovedCount' > 0) /\ pc' # "append"
    BY <1>1, <2>1
  <2>7. AppendInv'
    BY <1>3, <2>6 DEF AppendInv
  <2> QED BY <1>1, <2>3, <2>4, <2>5, <2>7 DEF FixedInv
<1>8. CASE DenseStep \/ DenseEnd
  <2>1. /\ pc = "dense" /\ fixedSeen' = fixedSeen /\ path = "dense"
        /\ pc' \in {"dense", "fixed", "throw"}
    BY <1>8 DEF DenseStep, DenseEnd, FixedInv, PathInv
  <2> QED BY <1>1, <1>3, <2>1 DEF FixedInv, PathInv, SeenInv, ListInv, AppendInv
<1>9. CASE PackDone \/ SparseStep
  <2>1. /\ pc \in {"pack", "sparse"} /\ fixedSeen' = fixedSeen /\ pc' = "sparse"
    BY <1>9 DEF PackDone, SparseStep
  <2> QED BY <1>1, <1>3, <2>1 DEF FixedInv, PathInv, SeenInv, ListInv, AppendInv
<1>10. CASE SparseEnd
  <2>1. /\ pc = "sparse" /\ fixedSeen' = fixedSeen /\ pc' = "fixed" /\ packed' = packed
        /\ path = "sparse"
    BY <1>10 DEF SparseEnd, FixedInv, PathInv
  <2>2. Packs(packed, Removed)
    <3>1. /\ packed \in Seq(Nat) /\ Len(packed) = RemovedCount
          /\ \A j \in Removed : packed[RemovedScan(j)] = j
      BY <1>1, <2>1 DEF IInv, PackInv, Waiting
    <3>2. RemovedCount = Rank(Removed, n)
      <4>1. n \in Nat
        BY <1>1 DEF Static
      <4>2. Rank(Removed, n) = Cardinality(Removed)
        BY <1>1, <4>1, Scans, RankBounds
      <4> QED BY <1>1, <4>2, Scans
    <3> QED BY <3>1, <3>2 DEF Packs, RemovedScan
  <2>3. Packs(packed, Removed)'
    BY <1>1, <2>1, <2>2 DEF Packs
  <2> QED BY <1>1, <1>3, <2>1, <2>3 DEF FixedInv, PathInv, SeenInv, ListInv, AppendInv
<1>11. CASE IdentityDone
  <2>1. /\ pc = "identity" /\ fixedSeen' = fixedSeen /\ pc' = "fixed" /\ todo = {}
        /\ path = "identity" /\ fixedSeen \in Nat /\ (fixedSeen = 0 <=> FixedCols \subseteq todo)
    BY <1>11 DEF IdentityDone, FixedInv, PathInv, SeenInv
  <2> QED BY <1>1, <1>3, <2>1 DEF FixedInv, PathInv, SeenInv, ListInv, AppendInv
<1> QED BY <1>4, <1>5, <1>6, <1>7, <1>8, <1>9, <1>10, <1>11 DEF Next, Records

\* How the recording of the fixed values starts.
LEMMA FixedStarts ==
  ASSUME FixedInv, [Next]_vars, RecordFixed PROVE FixedInv'
<1>1. /\ red' = red /\ path' = path /\ coincide' = coincide /\ n' = n /\ Removed' = Removed
      /\ FixedCols' = FixedCols /\ RemovedCount' = RemovedCount /\ Listed' = Listed
      /\ Static /\ IInv' /\ IInv
  BY Unchanged DEF FixedInv
<1>2. /\ pc = "fixed" /\ k' = 1 /\ fixedIdx' = fixedIdx /\ fixedIdx = << >>
      /\ fixedSeen' = fixedSeen /\ fixedSeen \in Nat
      /\ path = "identity" => (fixedSeen = 0 <=> FixedCols = {})
      /\ path = "sparse" => Packs(packed, Removed)
  BY DEF RecordFixed, FixedInv, AppendInv, SeenInv, ListInv
<1>3. FixedCols \in SUBSET (1..n) /\ Listed \in SUBSET (1..n)
  BY <1>1, ListedSets
<1>4. CASE path = "sparse" /\ pc' = "append" /\ packed' = packed
  <2>1. Packs(packed, Removed)'
    BY <1>1, <1>2, <1>4 DEF Packs
  <2>2. {j \in Listed : Rank(Listed, j) < 1} = {} /\ 1 \in 1..(Rank(Listed, n) + 1)
    BY <1>1, <1>3, FirstListed
  <2>3. Recorded(<< >>, {j \in Listed : Rank(Listed, j) < 1})
    BY <2>2, NothingRecorded
  <2>4. AppendInv'
    BY <1>1, <1>2, <1>4, <2>2, <2>3 DEF AppendInv, Recorded
  <2>5. PathInv' /\ SeenInv' /\ ListInv'
    BY <1>1, <1>2, <1>4, <2>1 DEF FixedInv, PathInv, SeenInv, ListInv
  <2> QED BY <1>1, <2>4, <2>5 DEF FixedInv
<1>5. CASE /\ path # "sparse" /\ pc' = "done"
           /\ FixedCount = 0 \/ (path = "identity" /\ fixedSeen = 0)
  <2>1. FixedCols = {}
    BY <1>1, <1>2, <1>3, <1>5, ListedRanks DEF FixedCount, FixedScan
  <2>2. Recorded(<< >>, 1..n)
    BY <2>1, NothingRecorded
  <2>3. AppendInv'
    BY <1>1, <1>2, <1>5, <2>2 DEF AppendInv, Recorded
  <2>4. PathInv' /\ SeenInv' /\ ListInv'
    BY <1>1, <1>2, <1>5 DEF FixedInv, PathInv, SeenInv, ListInv
  <2> QED BY <1>1, <2>3, <2>4 DEF FixedInv
<1>6. CASE /\ path # "sparse" /\ pc' = "packFixed" /\ todo' = 1..n
           /\ packed' = [i \in 1..FixedCount |-> Garbage]
  <2>1. packed' \in Seq(Nat) /\ Len(packed') = FixedCount
    BY <1>1, <1>3, <1>6, ListedRanks, FreshSlots DEF FixedCount, FixedScan
  <2>2. FixedCols \ todo' = {}
    BY <1>3, <1>6
  <2>3. FixedCount' = FixedCount
    BY <1>1 DEF FixedCount, FixedScan
  <2>4. ListInv'
    BY <1>1, <1>2, <1>6, <2>1, <2>2, <2>3 DEF ListInv
  <2>5. PathInv' /\ SeenInv' /\ AppendInv'
    BY <1>1, <1>2, <1>6 DEF FixedInv, PathInv, SeenInv, AppendInv
  <2> QED BY <1>1, <2>4, <2>5 DEF FixedInv
<1> QED BY <1>4, <1>5, <1>6 DEF RecordFixed

\* The packing kernel of the fixed columns.
LEMMA FixedPacks ==
  ASSUME FixedInv, [Next]_vars, PackFixedDone \/ \E j \in todo : PackFixedThread(j)
  PROVE  FixedInv'
<1>1. /\ red' = red /\ path' = path /\ coincide' = coincide /\ n' = n /\ Removed' = Removed
      /\ FixedCols' = FixedCols /\ RemovedCount' = RemovedCount /\ Listed' = Listed
      /\ Static /\ IInv' /\ IInv
  BY Unchanged DEF FixedInv
<1>2. /\ pc = "packFixed" /\ k' = k /\ k = 1 /\ fixedIdx' = fixedIdx /\ fixedIdx = << >>
      /\ fixedSeen' = fixedSeen /\ fixedSeen \in Nat /\ path # "sparse"
      /\ packed \in Seq(Nat) /\ Len(packed) = FixedCount
      /\ \A j \in FixedCols \ todo : packed[FixedScan(j)] = j
  BY DEF PackFixedDone, PackFixedThread, FixedInv, AppendInv, SeenInv, ListInv, PathInv
<1>3. FixedCols \in SUBSET (1..n) /\ Listed = FixedCols
  BY <1>1, <1>2, ListedSets DEF Listed
<1>4. FixedCount' = FixedCount /\ \A j : FixedScan(j)' = FixedScan(j)
  BY <1>1 DEF FixedCount, FixedScan
<1>5. CASE PackFixedDone
  <2>1. todo = {} /\ packed' = packed /\ pc' = "append"
    BY <1>5 DEF PackFixedDone
  <2>2. Packs(packed, FixedCols)
    BY <1>2, <2>1 DEF Packs, FixedCount, FixedScan
  <2>3. Packs(packed, FixedCols)'
    BY <1>1, <2>1, <2>2 DEF Packs
  <2>4. {j \in Listed : Rank(Listed, j) < 1} = {} /\ 1 \in 1..(Rank(Listed, n) + 1)
    BY <1>1, <1>3, FirstListed
  <2>5. Recorded(<< >>, {j \in Listed : Rank(Listed, j) < 1})
    BY <2>4, NothingRecorded
  <2>6. AppendInv'
    BY <1>1, <1>2, <2>1, <2>4, <2>5 DEF AppendInv, Recorded
  <2>7. PathInv' /\ SeenInv' /\ ListInv'
    BY <1>1, <1>2, <2>1, <2>3 DEF FixedInv, PathInv, SeenInv, ListInv
  <2> QED BY <1>1, <2>6, <2>7 DEF FixedInv
<1>6. CASE \E j \in todo : PackFixedThread(j)
  <2>1. PICK j \in todo : PackFixedThread(j)
    BY <1>6
  <2>2. /\ pc' = "packFixed" /\ todo' = todo \ {j} /\ j \in 1..n
        /\ packed' = IF j \in FixedCols THEN [packed EXCEPT ![FixedScan(j)] = j] ELSE packed
    BY <1>1, <1>2, <2>1 DEF PackFixedThread, IInv
  <2>3. /\ packed' \in Seq(Nat) /\ Len(packed') = FixedCount
        /\ \A i \in FixedCols \ todo' : packed'[FixedScan(i)] = i
    <3>1. CASE j \in FixedCols
      <4>1. FixedScan(j) \in 1..Len(packed) /\ \A i \in FixedCols : FixedScan(i) = FixedScan(j) => i = j
        BY <1>1, <1>2, <1>3, <3>1, ListedRanks DEF FixedScan, FixedCount
      <4>2. /\ packed' \in Seq(Nat) /\ Len(packed') = Len(packed)
            /\ \A r \in 1..Len(packed) : packed'[r] = IF r = FixedScan(j) THEN j ELSE packed[r]
        <5>1. packed' = [packed EXCEPT ![FixedScan(j)] = j] /\ j \in Nat
          BY <2>2, <3>1
        <5> QED BY <1>2, <4>1, <5>1
      <4>3. \A i \in FixedCols : FixedScan(i) \in 1..Len(packed)
        BY <1>1, <1>2, <1>3, ListedRanks DEF FixedScan, FixedCount
      <4>4. \A i \in FixedCols \ todo' : i = j \/ i \in FixedCols \ todo
        BY <2>2
      <4> QED BY <1>2, <4>1, <4>2, <4>3, <4>4
    <3>2. CASE j \notin FixedCols
      BY <1>2, <2>2, <3>2
    <3> QED BY <3>1, <3>2
  <2>4. ListInv'
    BY <1>1, <1>2, <1>4, <2>2, <2>3 DEF ListInv
  <2>5. PathInv' /\ SeenInv' /\ AppendInv'
    BY <1>1, <1>2, <2>2 DEF FixedInv, PathInv, SeenInv, AppendInv
  <2> QED BY <1>1, <2>4, <2>5 DEF FixedInv
<1> QED BY <1>5, <1>6

\* One more fixed column, larger than those recorded so far.
LEMMA RecordOne ==
  ASSUME Static, NEW s, NEW J \in SUBSET (1..n), Recorded(s, J), NEW c \in FixedCols,
         \A j \in FixedCols \cap J : j < c
  PROVE  Recorded(Append(s, red[c]), J \cup {c})
<1>0. FixedCols \in SUBSET (1..n) /\ n \in Nat /\ red[c] \in Nat
  BY ListedSets DEF Static, Originals
<1> DEFINE t == Append(s, red[c])
<1>1. /\ s \in Seq(Nat) /\ Len(s) \in Nat
      /\ \A i, j \in 1..Len(s) : i < j => s[i] < s[j]
      /\ \A i \in 1..Len(s) : \E j \in FixedCols \cap J : s[i] = red[j]
      /\ \A j \in FixedCols \cap J : \E i \in 1..Len(s) : s[i] = red[j]
  BY DEF Recorded
<1>2. /\ t \in Seq(Nat) /\ Len(t) = Len(s) + 1 /\ t[Len(s) + 1] = red[c]
      /\ \A i \in 1..Len(s) : t[i] = s[i] /\ s[i] \in Nat
  BY <1>0, <1>1
<1>3. \A i \in 1..Len(t) : i \in 1..Len(s) \/ i = Len(s) + 1
  BY <1>1, <1>2
<1>4. \A i \in 1..Len(s) : s[i] < red[c]
  <2> SUFFICES ASSUME NEW i \in 1..Len(s) PROVE s[i] < red[c]
    OBVIOUS
  <2>1. PICK j \in FixedCols \cap J : s[i] = red[j]
    BY <1>1
  <2>2. j \in 1..n /\ c \in 1..n /\ j < c
    BY <1>0
  <2> QED BY <2>1, <2>2 DEF Static
<1> HIDE DEF t
<1>5. \A i, j \in 1..Len(t) : i < j => t[i] < t[j]
  <2> SUFFICES ASSUME NEW i \in 1..Len(t), NEW j \in 1..Len(t), i < j PROVE t[i] < t[j]
    OBVIOUS
  <2>1. i \in 1..Len(s)
    BY <1>1, <1>2
  <2>2. CASE j \in 1..Len(s)
    BY <1>1, <1>2, <2>1, <2>2
  <2>3. CASE j = Len(s) + 1
    BY <1>2, <1>4, <2>1, <2>3
  <2> QED BY <1>3, <2>2, <2>3
<1>6. ASSUME NEW i \in 1..Len(t) PROVE \E j \in FixedCols \cap (J \cup {c}) : t[i] = red[j]
  <2>1. CASE i \in 1..Len(s)
    <3>1. PICK j \in FixedCols \cap J : s[i] = red[j]
      BY <1>1, <2>1
    <3>2. t[i] = red[j] /\ j \in FixedCols \cap (J \cup {c})
      BY <1>2, <2>1, <3>1
    <3> QED BY <3>2
  <2>2. CASE i = Len(s) + 1
    BY <1>2, <2>2
  <2> QED BY <1>3, <2>1, <2>2
<1>7. ASSUME NEW j \in FixedCols \cap (J \cup {c}) PROVE \E i \in 1..Len(t) : t[i] = red[j]
  <2>1. CASE j \in J
    BY <1>1, <1>2, <2>1
  <2>2. CASE j = c
    BY <1>1, <1>2, <2>2
  <2> QED BY <2>1, <2>2
<1> QED BY <1>2, <1>5, <1>6, <1>7 DEF Recorded, t

\* The last host loop.
LEMMA FixedAppends ==
  ASSUME FixedInv, [Next]_vars, AppendStep \/ AppendEnd
  PROVE  FixedInv'
<1>1. /\ red' = red /\ path' = path /\ coincide' = coincide /\ n' = n /\ Removed' = Removed
      /\ FixedCols' = FixedCols /\ RemovedCount' = RemovedCount /\ Listed' = Listed
      /\ Static /\ IInv' /\ IInv /\ n \in Nat
  BY Unchanged DEF FixedInv, Static
<1> DEFINE J(r) == {j \in Listed : Rank(Listed, j) < r}
<1>2. /\ pc = "append" /\ packed' = packed /\ fixedSeen' = fixedSeen /\ fixedSeen \in Nat
      /\ Packs(packed, Listed) /\ k \in 1..(Rank(Listed, n) + 1)
      /\ Recorded(fixedIdx, J(k))
  BY DEF AppendStep, AppendEnd, FixedInv, AppendInv, SeenInv, ListInv, Listed
<1>3. /\ Listed \in SUBSET (1..n) /\ FixedCols \subseteq Listed
      /\ FixedCols \subseteq Removed
  BY <1>1, ListedSets
<1>4. /\ Rank(Listed, n) \in Nat /\ \A j \in Listed : Rank(Listed, j) \in 1..Rank(Listed, n)
      /\ \A r \in 1..Rank(Listed, n) : \E j \in Listed : Rank(Listed, j) = r
      /\ \A i, j \in Listed : i < j <=> Rank(Listed, i) < Rank(Listed, j)
      /\ \A i, j \in Listed : Rank(Listed, i) = Rank(Listed, j) => i = j
  BY <1>1, <1>3, ListedRanks
<1>5. Len(packed) = Rank(Listed, n)
  BY <1>2 DEF Packs
<1>6. CASE AppendStep
  <2>1. /\ pc' = "append" /\ k \in 1..Rank(Listed, n) /\ k' = k + 1
        /\ fixedIdx' = IF packed[k] \in 1..n /\ (path = "sparse" => IsCoinciding(packed[k]))
                       THEN Append(fixedIdx, red[packed[k]]) ELSE fixedIdx
    BY <1>2, <1>5, <1>6 DEF AppendStep
  <2>2. PICK c \in Listed : Rank(Listed, c) = k
    BY <1>4, <2>1
  <2>3. packed[k] = c /\ c \in 1..n
    BY <1>2, <1>3, <2>2 DEF Packs
  <2>4. (path = "sparse" => IsCoinciding(c)) <=> c \in FixedCols
    BY <2>2 DEF Listed, FixedCols
  <2>5. J(k + 1) = J(k) \cup {c} /\ c \notin J(k)
    <3>1. \A j \in Listed : Rank(Listed, j) < k + 1 <=> Rank(Listed, j) < k \/ j = c
      BY <1>4, <2>1, <2>2
    <3> QED BY <2>1, <2>2, <3>1
  <2>6. Recorded(fixedIdx', J(k + 1))
    <3>1. CASE c \in FixedCols
      <4>1. \A j \in FixedCols \cap J(k) : j < c
        BY <1>4, <2>2
      <4>2. fixedIdx' = Append(fixedIdx, red[c])
        BY <2>1, <2>3, <2>4, <3>1
      <4>3. J(k) \in SUBSET (1..n)
        BY <1>3
      <4> HIDE DEF J
      <4> QED BY <1>1, <1>2, <2>5, <3>1, <4>1, <4>2, <4>3, RecordOne
    <3>2. CASE c \notin FixedCols
      <4>1. fixedIdx' = fixedIdx /\ FixedCols \cap J(k + 1) = FixedCols \cap J(k)
        BY <2>1, <2>3, <2>4, <2>5, <3>2
      <4> HIDE DEF J
      <4> QED BY <1>2, <4>1 DEF Recorded
    <3> QED BY <3>1, <3>2
  <2>7. AppendInv'
    <3>1. k' \in 1..(Rank(Listed, n) + 1)
      BY <1>4, <2>1
    <3>2. Recorded(fixedIdx, {j \in Listed : Rank(Listed, j) < k})'
      <4>1. {j \in Listed' : Rank(Listed', j) < k'} = J(k + 1)
        BY <1>1, <2>1
      <4> HIDE DEF J
      <4> QED BY <1>1, <2>6, <4>1 DEF Recorded
    <3> QED BY <1>1, <2>1, <3>1, <3>2 DEF AppendInv
  <2>8. PathInv' /\ SeenInv' /\ ListInv'
    <3>1. Packs(packed, Removed)' <=> Packs(packed, Removed)
      BY <1>1, <1>2 DEF Packs
    <3>2. Packs(packed, FixedCols)' <=> Packs(packed, FixedCols)
      BY <1>1, <1>2 DEF Packs
    <3> QED BY <1>1, <1>2, <2>1, <3>1, <3>2 DEF FixedInv, PathInv, SeenInv, ListInv
  <2> QED BY <1>1, <2>7, <2>8 DEF FixedInv
<1>7. CASE AppendEnd
  <2>1. pc' = "done" /\ fixedIdx' = fixedIdx /\ k > Rank(Listed, n)
    BY <1>5, <1>7 DEF AppendEnd
  <2>2. FixedCols \cap (1..n) = FixedCols \cap J(k)
    <3>1. \A j \in Listed : Rank(Listed, j) < k
      <4>1. k \in Int /\ Rank(Listed, n) \in Int
        BY <1>2, <1>4
      <4>2. \A j \in Listed : Rank(Listed, j) \in Int /\ Rank(Listed, j) <= Rank(Listed, n)
        BY <1>4
      <4> QED BY <2>1, <4>1, <4>2
    <3> QED BY <1>3, <3>1
  <2>3. Recorded(fixedIdx, 1..n)
    <3> HIDE DEF J
    <3> QED BY <1>2, <2>2 DEF Recorded
  <2>4. Recorded(fixedIdx, 1..n)'
    BY <1>1, <2>1, <2>3 DEF Recorded
  <2>5. PathInv' /\ SeenInv' /\ ListInv' /\ AppendInv'
    BY <1>1, <1>2, <2>1, <2>4 DEF FixedInv, PathInv, SeenInv, ListInv, AppendInv
  <2> QED BY <1>1, <2>5 DEF FixedInv
<1> QED BY <1>6, <1>7

LEMMA FixedInit == Init => FixedInv
<1> SUFFICES ASSUME Init PROVE FixedInv
  OBVIOUS
<1>1. IInv /\ pc = "gather" /\ fixedSeen = 0 /\ fixedIdx = << >> /\ path \in Paths
      /\ coincide \subseteq 1..n
  BY InitIInv DEF Init, n
<1> QED BY <1>1 DEF FixedInv, PathInv, SeenInv, ListInv, AppendInv

LEMMA FixedNext == FixedInv /\ [Next]_vars => FixedInv'
<1> SUFFICES ASSUME FixedInv, [Next]_vars PROVE FixedInv'
  OBVIOUS
<1>1. CASE Next /\ ~Records
  BY <1>1, FixedEarly
<1>2. CASE Records
  BY <1>2, FixedStarts, FixedPacks, FixedAppends DEF Records
<1>3. CASE UNCHANGED vars
  <2>1. /\ red' = red /\ path' = path /\ coincide' = coincide /\ n' = n /\ Removed' = Removed
        /\ FixedCols' = FixedCols /\ RemovedCount' = RemovedCount /\ Listed' = Listed /\ IInv'
        /\ pc' = pc /\ todo' = todo /\ packed' = packed /\ k' = k /\ fixedIdx' = fixedIdx
        /\ fixedSeen' = fixedSeen /\ FixedCount' = FixedCount
        /\ \A j : FixedScan(j)' = FixedScan(j)
    BY <1>3, Unchanged DEF vars, FixedCount, FixedScan
  <2>2. PathInv' /\ SeenInv'
    BY <2>1 DEF FixedInv, PathInv, SeenInv
  <2>3. ListInv'
    BY <2>1 DEF FixedInv, ListInv, Packs
  <2>4. AppendInv'
    BY <2>1 DEF FixedInv, AppendInv, Recorded
  <2> QED BY <2>1, <2>2, <2>3, <2>4 DEF FixedInv
<1> QED BY <1>1, <1>2, <1>3

\* For every LP, mask, path and thread order, the plan records exactly the
\* removed columns whose bounds coincide, each once.
THEOREM CompactionRecordsFixed == Spec => []FixedExactlyOnce
<1>1. FixedInv => FixedExactlyOnce
  <2> SUFFICES ASSUME FixedInv, pc = "done", RemovedCount > 0
               PROVE  /\ \A c \in Originals :
                           (\E i \in 1..Len(fixedIdx) : fixedIdx[i] = c)
                             <=> (\E j \in coincide : ~keep[j] /\ red[j] = c)
                      /\ \A i, j \in 1..Len(fixedIdx) : fixedIdx[i] = fixedIdx[j] => i = j
    BY DEF FixedExactlyOnce
  <2>1. /\ fixedIdx \in Seq(Nat)
        /\ \A i, j \in 1..Len(fixedIdx) : i < j => fixedIdx[i] < fixedIdx[j]
        /\ \A i \in 1..Len(fixedIdx) : \E j \in FixedCols \cap (1..n) : fixedIdx[i] = red[j]
        /\ \A j \in FixedCols \cap (1..n) : \E i \in 1..Len(fixedIdx) : fixedIdx[i] = red[j]
    BY DEF FixedInv, AppendInv, Recorded
  <2>2. Static /\ coincide \subseteq 1..n
    BY DEF FixedInv, IInv, PathInv
  <2>3. \A j : j \in FixedCols \cap (1..n) <=> j \in coincide /\ ~keep[j]
    BY <2>2 DEF FixedCols, IsCoinciding, Removed, Kept
  <2>4. ASSUME NEW i \in 1..Len(fixedIdx), NEW j \in 1..Len(fixedIdx), fixedIdx[i] = fixedIdx[j]
        PROVE  i = j
    <3>1. fixedIdx \in Seq(Nat)
      BY <2>1
    <3>2. Len(fixedIdx) \in Nat
      BY <3>1
    <3>3. fixedIdx[i] \in Nat /\ fixedIdx[j] \in Nat
      BY <3>1
    <3>4. i < j => fixedIdx[i] < fixedIdx[j]
      BY <2>1
    <3>5. j < i => fixedIdx[j] < fixedIdx[i]
      BY <2>1
    <3>6. ~(fixedIdx[i] < fixedIdx[j]) /\ ~(fixedIdx[j] < fixedIdx[i])
      BY <2>4, <3>3
    <3>7. i \in Nat /\ j \in Nat
      BY <3>2
    <3> QED BY <3>4, <3>5, <3>6, <3>7
  <2>5. \A c \in Originals :
           (\E i \in 1..Len(fixedIdx) : fixedIdx[i] = c)
             <=> (\E j \in coincide : ~keep[j] /\ red[j] = c)
    BY <2>1, <2>3
  <2> QED BY <2>4, <2>5
<1> QED BY <1>1, FixedInit, FixedNext, PTL DEF Spec
=============================================================================
