------------------------------ MODULE Matching ------------------------------
(***************************************************************************)
(* The pivots of a doubleton batch, as functions of the candidates: a row   *)
(* wins a round when it is the smallest free row of both its columns, and   *)
(* the columns of a winner are blocked from then on.                       *)
(***************************************************************************)
EXTENDS Integers, FiniteSets

\* The columns of a pair [elim, keep].
ColsOf(pair) == {pair.elim, pair.keep}
Blocked(pairs, taken) == UNION {ColsOf(pairs[i]) : i \in taken}
Free(pairs, taken) == {i \in DOMAIN pairs \ taken : ColsOf(pairs[i]) \cap Blocked(pairs, taken) = {}}
Winners(pairs, taken) ==
  {i \in Free(pairs, taken) : \A j \in Free(pairs, taken) :
     ColsOf(pairs[i]) \cap ColsOf(pairs[j]) # {} => i <= j}

\* The rows taken after so many rounds.
Matched(pairs, rounds) ==
  LET taken[r \in 0..rounds] ==
        IF r = 0 THEN {} ELSE taken[r - 1] \cup Winners(pairs, taken[r - 1])
  IN taken[rounds]
=============================================================================
