--------------------------- MODULE MapCompaction ---------------------------
(***************************************************************************)
(* One compaction of the working LP's columns, step by step (rows go       *)
(* through the same code with no fixed values).                            *)
(*                                                                         *)
(* apply_plan_to_working_lp turns keep_col_mask into old_to_new with a     *)
(* prefix scan, lets one GPU thread per old column move that column's      *)
(* entry of c, l and u, and then update_record_from_plan builds the new    *)
(* col_red2org on a path of its own: a dense host loop, a sparse host      *)
(* loop that copies the ranges between removed columns, or a GPU kernel    *)
(* that assumes that no column was ever removed before.  The module says   *)
(* what every interleaving of the threads and every path must agree on:    *)
(* column j of the compacted LP is the original column col_red2org[j].     *)
(*                                                                         *)
(* Indices start at 1 here and at 0 in the code.                           *)
(***************************************************************************)
EXTENDS Naturals, Sequences, FiniteSets, Ranks

CONSTANT N0    \* number of columns of the original LP

ASSUME N0Assumption == N0 \in Nat

VARIABLES
  red,         \* record.col_red2org before the plan is applied
  keep,        \* plan.keep_col_mask
  coincide,    \* columns whose finite plan bounds differ by at most 1e-9
  path,        \* how update_record_from_plan builds the next map
  pc,          \* kernel or loop that is running
  todo,        \* threads of the running kernel that have not run yet
  lpIds,       \* c, l, u of the compacted LP, as the original column of each slot
  packed,      \* local indices of the removed columns (sparse path), or of those
               \* with coinciding bounds (other paths)
  k,           \* counter of the running host loop
  rangeBegin,  \* first column not copied yet (sparse path)
  next,        \* next_col_red2org
  fixedSeen,   \* removed columns the identity kernel found to have such bounds
  fixedIdx     \* what this plan appends to record.fixed_idx

vars == <<red, keep, coincide, path, pc, todo, lpIds, packed, k, rangeBegin,
          next, fixedSeen, fixedIdx>>

Originals == 1..N0
Paths == {"dense", "sparse", "identity"}
Garbage == 0   \* a slot of a fresh cudaMalloc that no thread has written

n == Len(red)

\* A map is a strictly increasing sequence of original columns: removal
\* never reorders what it keeps.
IsMap(s) == /\ s \in Seq(Originals)
            /\ \A i, j \in 1..Len(s) : i < j => s[i] < s[j]

Maps == UNION {{s \in [1..w -> Originals] : IsMap(s)} : w \in 0..N0}

\* inclusive_scan_i32 over the mask, then _kernel_old_to_new_from_prefix.
Kept == {j \in 1..n : keep[j]}
Removed == (1..n) \ Kept
Prefix(j) == Rank(Kept, j)
OldToNew(j) == IF keep[j] THEN Prefix(j) ELSE 0
\* Mutant of NewCount: the last entry of an exclusive scan.
NewCountExclusive == Prefix(n - 1)
NewCount == Prefix(n)
RemovedScan(j) == Rank(Removed, j)
RemovedCount == n - NewCount

\* Mutant of IdentityAllowed: no test that nothing was removed before.
IdentityAnywhere == NewCount > 0
\* identity_gpu_col_update, without its size thresholds.
IdentityAllowed == Len(red) = N0 /\ NewCount > 0

Init ==
  /\ red \in Maps
  /\ keep \in [1..Len(red) -> BOOLEAN]
  /\ coincide \in SUBSET (1..Len(red))
  /\ path \in Paths
  /\ path = "identity" => IdentityAllowed
  /\ pc = "gather"
  /\ todo = 1..Len(red)
  /\ lpIds = [i \in 1..NewCount |-> Garbage]
  /\ packed = <<>>
  /\ k = 1
  /\ rangeBegin = 1
  /\ next = <<>>
  /\ fixedSeen = 0
  /\ fixedIdx = <<>>

\* Mutant of IsCoinciding: every removed column is taken for fixed.
IsCoincidingAlways(c) == TRUE
IsCoinciding(c) == c \in coincide

-----------------------------------------------------------------------------
(* compact_vector: one thread per old column, in any order.                *)

GatherThread(j) ==
  /\ pc = "gather" /\ j \in todo
  /\ todo' = todo \ {j}
  /\ lpIds' = IF OldToNew(j) # 0 THEN [lpIds EXCEPT ![OldToNew(j)] = red[j]] ELSE lpIds
  /\ UNCHANGED <<red, keep, coincide, path, pc, packed, k, rangeBegin, next, fixedSeen, fixedIdx>>

(* The vectors are compacted; update_record_from_plan starts.  Without a   *)
(* removed column it leaves col_red2org alone.                             *)
StartRecord ==
  /\ pc = "gather" /\ todo = {}
  /\ IF RemovedCount = 0
     THEN /\ pc' = "done"
          /\ next' = red
          /\ UNCHANGED <<todo, packed>>
     ELSE \/ /\ path = "dense"
             /\ pc' = "dense"
             /\ UNCHANGED <<todo, packed, next>>
          \/ /\ path = "sparse"
             /\ pc' = "pack"
             /\ todo' = 1..n
             /\ packed' = [i \in 1..RemovedCount |-> Garbage]
             /\ UNCHANGED next
          \/ /\ path = "identity"
             /\ pc' = "identity"
             /\ todo' = 1..n
             /\ next' = [i \in 1..NewCount |-> Garbage]
             /\ UNCHANGED packed
  /\ UNCHANGED <<red, keep, coincide, path, lpIds, k, rangeBegin, fixedSeen, fixedIdx>>

-----------------------------------------------------------------------------
(* The dense path: a host loop over all old columns that throws when it    *)
(* did not meet as many kept columns as the scan counted.                  *)

DenseStep ==
  /\ pc = "dense" /\ k <= n
  /\ next' = IF keep[k] THEN Append(next, red[k]) ELSE next
  /\ k' = k + 1
  /\ UNCHANGED <<red, keep, coincide, path, pc, todo, lpIds, packed, rangeBegin, fixedSeen, fixedIdx>>

DenseEnd ==
  /\ pc = "dense" /\ k > n
  /\ pc' = IF Len(next) = NewCount THEN "fixed" ELSE "throw"
  /\ UNCHANGED <<red, keep, coincide, path, todo, lpIds, packed, k, rangeBegin, next, fixedSeen, fixedIdx>>

-----------------------------------------------------------------------------
(* The sparse path: pack the removed columns on the GPU, then copy the     *)
(* ranges between them on the host.                                        *)

PackThread(j) ==
  /\ pc = "pack" /\ j \in todo
  /\ todo' = todo \ {j}
  /\ packed' = IF keep[j] THEN packed ELSE [packed EXCEPT ![RemovedScan(j)] = j]
  /\ UNCHANGED <<red, keep, coincide, path, pc, lpIds, k, rangeBegin, next, fixedSeen, fixedIdx>>

PackDone ==
  /\ pc = "pack" /\ todo = {}
  /\ pc' = "sparse"
  /\ UNCHANGED <<red, keep, coincide, path, todo, lpIds, packed, k, rangeBegin, next, fixedSeen, fixedIdx>>

SparseStep ==
  /\ pc = "sparse" /\ k <= Len(packed)
  /\ IF packed[k] < rangeBegin \/ packed[k] > n
     THEN UNCHANGED <<next, rangeBegin>>
     ELSE /\ next' = next \o SubSeq(red, rangeBegin, packed[k] - 1)
          /\ rangeBegin' = packed[k] + 1
  /\ k' = k + 1
  /\ UNCHANGED <<red, keep, coincide, path, pc, todo, lpIds, packed, fixedSeen, fixedIdx>>

SparseEnd ==
  /\ pc = "sparse" /\ k > Len(packed)
  /\ next' = next \o SubSeq(red, rangeBegin, n)
  /\ pc' = "fixed"
  /\ UNCHANGED <<red, keep, coincide, path, todo, lpIds, packed, k, rangeBegin, fixedSeen, fixedIdx>>

-----------------------------------------------------------------------------
(* The identity path: the kernel writes the LOCAL index of a kept column   *)
(* as its original index, which is right only while nothing was removed.   *)
(* It also counts the removed columns whose bounds coincide (atomicAdd).   *)

IdentityThread(j) ==
  /\ pc = "identity" /\ j \in todo
  /\ todo' = todo \ {j}
  /\ next' = IF OldToNew(j) # 0 THEN [next EXCEPT ![OldToNew(j)] = j] ELSE next
  /\ fixedSeen' = IF OldToNew(j) = 0 /\ IsCoinciding(j) THEN fixedSeen + 1 ELSE fixedSeen
  /\ UNCHANGED <<red, keep, coincide, path, pc, lpIds, packed, k, rangeBegin, fixedIdx>>

IdentityDone ==
  /\ pc = "identity" /\ todo = {}
  /\ pc' = "fixed"
  /\ UNCHANGED <<red, keep, coincide, path, todo, lpIds, packed, k, rangeBegin, next, fixedSeen, fixedIdx>>

-----------------------------------------------------------------------------
(* The fixed values of the removed columns whose bounds coincide.  The     *)
(* sparse path walks the packed removed columns on the host and tests the  *)
(* bounds of each; the others count and pack the columns on the GPU, by a  *)
(* scan, and walk the result.  The identity path leaves that out when its  *)
(* kernel has seen no such column.                                         *)

FixedCols == {j \in Removed : IsCoinciding(j)}
FixedScan(j) == Rank(FixedCols, j)
FixedCount == FixedScan(n)

RecordFixed ==
  /\ pc = "fixed"
  /\ \/ /\ path = "sparse"
        /\ pc' = "append"
        /\ UNCHANGED <<todo, packed>>
     \/ /\ path # "sparse"
        /\ FixedCount = 0 \/ (path = "identity" /\ fixedSeen = 0)
        /\ pc' = "done"
        /\ UNCHANGED <<todo, packed>>
     \/ /\ path # "sparse"
        /\ FixedCount > 0 /\ (path = "identity" => fixedSeen > 0)
        /\ pc' = "packFixed"
        /\ todo' = 1..n
        /\ packed' = [i \in 1..FixedCount |-> Garbage]
  /\ k' = 1
  /\ UNCHANGED <<red, keep, coincide, path, lpIds, rangeBegin, next, fixedSeen, fixedIdx>>

PackFixedThread(j) ==
  /\ pc = "packFixed" /\ j \in todo
  /\ todo' = todo \ {j}
  /\ packed' = IF j \in FixedCols THEN [packed EXCEPT ![FixedScan(j)] = j] ELSE packed
  /\ UNCHANGED <<red, keep, coincide, path, pc, lpIds, k, rangeBegin, next, fixedSeen, fixedIdx>>

PackFixedDone ==
  /\ pc = "packFixed" /\ todo = {}
  /\ pc' = "append"
  /\ UNCHANGED <<red, keep, coincide, path, todo, lpIds, packed, k, rangeBegin, next, fixedSeen, fixedIdx>>

AppendStep ==
  /\ pc = "append" /\ k <= Len(packed)
  /\ fixedIdx' = IF packed[k] \in 1..n /\ (path = "sparse" => IsCoinciding(packed[k]))
                 THEN Append(fixedIdx, red[packed[k]]) ELSE fixedIdx
  /\ k' = k + 1
  /\ UNCHANGED <<red, keep, coincide, path, pc, todo, lpIds, packed, rangeBegin, next, fixedSeen>>

AppendEnd ==
  /\ pc = "append" /\ k > Len(packed)
  /\ pc' = "done"
  /\ UNCHANGED <<red, keep, coincide, path, todo, lpIds, packed, k, rangeBegin, next, fixedSeen, fixedIdx>>

Next ==
  \/ \E j \in todo :
       GatherThread(j) \/ PackThread(j) \/ IdentityThread(j) \/ PackFixedThread(j)
  \/ StartRecord \/ DenseStep \/ DenseEnd
  \/ PackDone \/ SparseStep \/ SparseEnd
  \/ IdentityDone \/ RecordFixed \/ PackFixedDone
  \/ AppendStep \/ AppendEnd

\* Every launched kernel finishes and the host loops run to their end.
Spec == Init /\ [][Next]_vars /\ WF_vars(Next)

-----------------------------------------------------------------------------

\* The record and the LP agree: whatever path built it and whatever order
\* the threads ran in, the new col_red2org names for every column of the
\* compacted LP the original column whose entries were moved there, and it
\* is again a strictly increasing map.
MapMatchesLp == pc = "done" => next = lpIds /\ IsMap(next)

\* "column mapping compaction count mismatch" is never thrown.
NeverThrows == pc # "throw"

\* The plan records the fixed value of exactly the removed columns whose
\* bounds coincide, each once: a column left out would come back as 0 from
\* postsolve, one too many would overwrite a solved value.
FixedExactlyOnce ==
  (pc = "done" /\ RemovedCount > 0) =>
    /\ \A c \in Originals :
         (\E i \in 1..Len(fixedIdx) : fixedIdx[i] = c)
           <=> (\E j \in coincide : ~keep[j] /\ red[j] = c)
    /\ \A i, j \in 1..Len(fixedIdx) : fixedIdx[i] = fixedIdx[j] => i = j
=============================================================================
