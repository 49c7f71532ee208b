------------------------- MODULE DoubletonMatching -------------------------
(***************************************************************************)
(* The matching rounds of a doubleton batch                                *)
(* (rule_doubleton_equations.cu, apply_rule_doubleton_equations_batch_once).*)
(*                                                                         *)
(* Each round launches three kernels: one resets col_owner, one has every   *)
(* active row claim its two columns with an atomicMin, one has every row    *)
(* that owns both its columns take them.  A row is a thread; its loads,     *)
(* atomics and stores interleave with those of the other rows.  In the      *)
(* selecting kernel blocked_col is read beside the stores of other rows.    *)
(***************************************************************************)
EXTENDS Matching

CONSTANTS
  M, N,              \* rows and columns
  MatchingRounds,    \* DOUBLETON_EQUATION_BATCH_MATCHING_ROUNDS
  Candidates         \* the pairs [elim, keep] a row may have

ASSUME MatchingAssumption ==
  /\ M \in Nat /\ N \in Nat /\ MatchingRounds \in Nat
  /\ Candidates \subseteq [elim : 1..N, keep : 1..N]

Rows == 1..M
Cols == 1..N
NoOwner == M + 1    \* INT_MAX

VARIABLES
  pair,        \* candidate_elim_col, candidate_keep_col
  round,       \* matching rounds begun
  kernel,      \* "reset", "claim", "select" or "done"
  owner,       \* col_owner
  active,      \* active_mask, as a set
  selected,    \* selected_mask, as a set
  blocked,     \* blocked_col, as a set
  pc           \* where the thread of each row is in the running kernel

vars == <<pair, round, kernel, owner, active, selected, blocked, pc>>

Init ==
  /\ pair \in [Rows -> Candidates]
  /\ active \in SUBSET Rows    \* acceptable_mask
  /\ round = 0
  /\ kernel = IF MatchingRounds = 0 THEN "done" ELSE "reset"
  /\ owner = [j \in Cols |-> NoOwner]
  /\ selected = {} /\ blocked = {}
  /\ pc = [i \in Rows |-> "start"]

Elim(i) == pair[i].elim
Keep(i) == pair[i].keep
Goto(i, label) == pc' = [pc EXCEPT ![i] = label]

\* Mutant of Reset: the owners of the last round stay.
ResetNothing ==
  /\ kernel = "reset"
  /\ kernel' = "claim" /\ round' = round + 1
  /\ UNCHANGED <<pair, owner, active, selected, blocked, pc>>
Reset ==
  /\ kernel = "reset"
  /\ owner' = [j \in Cols |-> NoOwner]
  /\ kernel' = "claim" /\ round' = round + 1
  /\ UNCHANGED <<pair, active, selected, blocked, pc>>

\* _kernel_claim_doubleton_equations_batch_columns, by the thread of row i.
ClaimCheck(i) ==
  /\ kernel = "claim" /\ pc[i] = "start"
  /\ Goto(i, IF i \in active /\ ColsOf(pair[i]) \cap blocked = {} THEN "claimKeep" ELSE "end")
  /\ UNCHANGED <<pair, round, kernel, owner, active, selected, blocked>>
\* Mutant of Claim: the last row to come owns the column.
ClaimByStore(i, from, col, to) ==
  /\ pc[i] = from
  /\ owner' = [owner EXCEPT ![col] = i]
  /\ Goto(i, to)
  /\ UNCHANGED <<pair, round, kernel, active, selected, blocked>>
Claim(i, from, col, to) ==
  /\ pc[i] = from
  /\ owner' = [owner EXCEPT ![col] = IF i < @ THEN i ELSE @]
  /\ Goto(i, to)
  /\ UNCHANGED <<pair, round, kernel, active, selected, blocked>>
ClaimKeep(i) == Claim(i, "claimKeep", Keep(i), "claimElim")
ClaimElim(i) == Claim(i, "claimElim", Elim(i), "end")

\* _kernel_select_doubleton_equations_batch_rows, by the thread of row i.
LoadKeep(i) ==
  /\ kernel = "select" /\ pc[i] = "start"
  /\ Goto(i, IF i \in active /\ Keep(i) \notin blocked THEN "loadElim" ELSE "end")
  /\ UNCHANGED <<pair, round, kernel, owner, active, selected, blocked>>
\* Mutant of OwnsBoth: one column is enough.
OwnsKeep(i) == owner[Keep(i)] = i
OwnsBoth(i) == owner[Keep(i)] = i /\ owner[Elim(i)] = i
LoadElim(i) ==
  /\ pc[i] = "loadElim"
  /\ Goto(i, IF Elim(i) \notin blocked /\ OwnsBoth(i) THEN "select" ELSE "end")
  /\ UNCHANGED <<pair, round, kernel, owner, active, selected, blocked>>
Select(i) ==
  /\ pc[i] = "select"
  /\ selected' = selected \cup {i}
  /\ active' = active \ {i}
  /\ Goto(i, "blockKeep")
  /\ UNCHANGED <<pair, round, kernel, owner, blocked>>
Block(i, from, col, to) ==
  /\ pc[i] = from
  /\ blocked' = blocked \cup {col}
  /\ Goto(i, to)
  /\ UNCHANGED <<pair, round, kernel, owner, active, selected>>
BlockKeep(i) == Block(i, "blockKeep", Keep(i), "blockElim")
BlockElim(i) == Block(i, "blockElim", Elim(i), "end")

MoreRounds == round < MatchingRounds
\* The next kernel of the stream starts when every thread of this one ended.
NextKernel ==
  /\ kernel \in {"claim", "select"}
  /\ \A i \in Rows : pc[i] = "end"
  /\ kernel' = IF kernel = "claim" THEN "select"
               ELSE IF MoreRounds THEN "reset" ELSE "done"
  /\ pc' = [i \in Rows |-> "start"]
  /\ UNCHANGED <<pair, round, owner, active, selected, blocked>>

Step(i) ==
  \/ ClaimCheck(i) \/ ClaimKeep(i) \/ ClaimElim(i)
  \/ LoadKeep(i) \/ LoadElim(i) \/ Select(i) \/ BlockKeep(i) \/ BlockElim(i)
Done == kernel = "done" /\ UNCHANGED vars
Next == Reset \/ (\E i \in Rows : Step(i)) \/ NextKernel \/ Done

Spec == Init /\ [][Next]_vars
-----------------------------------------------------------------------------
(* Properties.                                                             *)

\* Every variable has its type.
TypeOK ==
  /\ pair \in [Rows -> [elim : Cols, keep : Cols]]
  /\ round \in 0..MatchingRounds
  /\ kernel \in {"reset", "claim", "select", "done"}
  /\ owner \in [Cols -> 1..NoOwner]
  /\ active \subseteq Rows /\ selected \subseteq Rows /\ blocked \subseteq Cols
  /\ pc \in [Rows -> {"start", "claimKeep", "claimElim", "loadElim", "select",
                      "blockKeep", "blockElim", "end"}]

\* The rows that passed their last check, or have been taken.
Taking == selected \cup {i \in Rows : pc[i] = "select"}

\* No two pivots share a column, at any moment: the batch rewrites the bounds
\* and costs of all pivots in place and in parallel, which is right only
\* because each column belongs to one of them.
PivotsDisjoint ==
  \A i, j \in Taking : i # j => ColsOf(pair[i]) \cap ColsOf(pair[j]) = {}

\* The acceptable rows the kernels were launched with.
Launched == active \cup selected
\* The schedule leaves no trace: the threads take the rows Matched names, in
\* whatever order they run and whatever they see of blocked_col.
TakesTheMatching ==
  kernel = "done" => selected = Matched([i \in Launched |-> pair[i]], round)

\* A free row loses a round only to a smaller one that takes its column: with
\* no more rows than rounds every row left over meets a pivot.
LeavesNoFreeRow ==
  kernel = "done" /\ M <= MatchingRounds =>
    \A i \in active : \E j \in selected : ColsOf(pair[i]) \cap ColsOf(pair[j]) # {}
=============================================================================
