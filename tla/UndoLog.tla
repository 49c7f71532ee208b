------------------------------ MODULE UndoLog ------------------------------
(***************************************************************************)
(* What the presolve record promises, with one name space and one log.     *)
(*                                                                         *)
(* Presolve shrinks a set of live columns.  Whatever stops being live is   *)
(* either fixed or eliminated by an entry that is appended to a log, and   *)
(* an entry speaks only of columns that were live when its plan was        *)
(* committed.  Undoing the log from its end therefore always finds the     *)
(* inputs of an entry already restored.  PresolveRecord, with its local    *)
(* indices, its renaming maps, its flat tape and its separate timeline of  *)
(* payloads, is checked to implement this module.                          *)
(*                                                                         *)
(* An entry is a sequence of kernels, a kernel a set of units, a unit a    *)
(* set of assignments [to, from]: see PresolveRecord.                      *)
(***************************************************************************)
EXTENDS Naturals, Sequences

CONSTANT Cols    \* the columns of the original LP

VARIABLES
  live,     \* columns of the working LP
  fixed,    \* columns with a recorded value
  log       \* undo entries, oldest first

vars == <<live, fixed, log>>

Entries == Seq(SUBSET SUBSET [to : Cols, from : SUBSET Cols])

Assignments(entry) == UNION UNION {entry[i] : i \in DOMAIN entry}
Written(entry) == {a.to : a \in Assignments(entry)}
Read(entry) == UNION {a.from : a \in Assignments(entry)}
Eliminates(entry) == Written(entry) \ Read(entry)

IsPrefixOf(s, t) == Len(s) <= Len(t) /\ \A q \in 1..Len(s) : s[q] = t[q]
Fresh == (Len(log) + 1)..Len(log')

Init == /\ live = Cols
        /\ fixed = {}
        /\ log = << >>

\* One plan is committed: columns leave, and the record says how each one
\* that leaves is to come back.
Commit ==
  /\ live' \subseteq live
  /\ fixed \subseteq fixed'
  /\ fixed' \ fixed \subseteq live \ live'
  /\ log' \in Seq(Entries)
  /\ IsPrefixOf(log, log')
  /\ \A q \in Fresh : Written(log'[q]) \cup Read(log'[q]) \subseteq live
  /\ \A q \in Fresh : Eliminates(log'[q]) \cap live' = {}
  /\ \A q, r \in Fresh : q # r => Eliminates(log'[q]) \cap Eliminates(log'[r]) = {}
  /\ live \ live' \subseteq (fixed' \ fixed) \cup UNION {Eliminates(log'[q]) : q \in Fresh}

Spec == Init /\ [][Commit]_vars

-----------------------------------------------------------------------------
\* Every column is live or can be brought back, never both, and no column
\* is eliminated by two entries.
Accounted ==
  /\ Cols = live \cup fixed \cup UNION {Eliminates(log[q]) : q \in 1..Len(log)}
  /\ live \cap fixed = {}
  /\ \A q \in 1..Len(log) : Eliminates(log[q]) \cap live = {}
  /\ \A q, r \in 1..Len(log) : q # r => Eliminates(log[q]) \cap Eliminates(log[r]) = {}
=============================================================================
