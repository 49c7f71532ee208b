---------------------- MODULE DoubletonMatchingProofs ----------------------
(***************************************************************************)
(* For every number of rows, columns and rounds, all candidate pairs and    *)
(* every interleaving of the threads: no two pivots share a column, the    *)
(* threads take the rows that Matched names, and with as many rounds as    *)
(* rows they leave no free row over.                                       *)
(***************************************************************************)
EXTENDS DoubletonMatching, IndexLemmas

\* Where the threads are in each kernel.
LaunchPcs ==
  /\ kernel = "reset" => round < MatchingRounds
  /\ kernel \in {"reset", "done"} => \A i \in Rows : pc[i] = "start"
  /\ kernel = "claim" => \A i \in Rows : pc[i] \in {"start", "claimKeep", "claimElim", "end"}
  /\ kernel = "select" => \A i \in Rows : pc[i] \notin {"claimKeep", "claimElim"}

\* A row claims columns nobody has blocked.
ClaimsFree(i) == pc[i] \in {"claimKeep", "claimElim"} => ColsOf(pair[i]) \cap blocked = {}

\* A pivot of an earlier round: its columns are blocked, and nobody owns them.
Settled(i) ==
  /\ ColsOf(pair[i]) \subseteq blocked
  /\ kernel \in {"claim", "select"} => \A j \in ColsOf(pair[i]) : owner[j] = NoOwner
\* A pivot of this round owns its columns until the kernel ends.
Owning(i) == kernel = "select" /\ OwnsBoth(i)

\* The stores of a pivot, in order.
Stored(i) ==
  \/ pc[i] = "blockKeep"
  \/ pc[i] = "blockElim" /\ Keep(i) \in blocked
  \/ ColsOf(pair[i]) \subseteq blocked

RowInv(i) ==
  /\ ClaimsFree(i)
  /\ pc[i] = "select" => Owning(i)
  /\ i \in selected => (Settled(i) \/ Owning(i)) /\ Stored(i)

IInv == TypeOK /\ LaunchPcs /\ (\A i \in Rows : RowInv(i)) /\ PivotsDisjoint

-----------------------------------------------------------------------------
LEMMA InitIInv == Init => IInv
<1> SUFFICES ASSUME Init PROVE IInv
  OBVIOUS
<1>1. TypeOK
  BY MatchingAssumption DEF Init, TypeOK, NoOwner, Rows, Cols
<1>2. LaunchPcs
  BY MatchingAssumption DEF Init, LaunchPcs
<1>3. \A i \in Rows : RowInv(i)
  BY DEF Init, RowInv, ClaimsFree
<1>4. PivotsDisjoint
  BY DEF Init, PivotsDisjoint, Taking
<1> QED BY <1>1, <1>2, <1>3, <1>4 DEF IInv

\* The columns of a row.
LEMMA PairColumns ==
  ASSUME TypeOK, NEW i \in Rows
  PROVE  Elim(i) \in Cols /\ Keep(i) \in Cols /\ ColsOf(pair[i]) = {Elim(i), Keep(i)}
BY DEF TypeOK, Elim, Keep, ColsOf

\* Two rows that own both their columns share none; nor does a row that owns
\* its columns share one with a pivot of an earlier round.
LEMMA OwnersDisjoint ==
  ASSUME TypeOK, NEW i \in Rows, NEW j \in Rows, i # j, Owning(i), Owning(j) \/ Settled(j)
  PROVE  ColsOf(pair[i]) \cap ColsOf(pair[j]) = {}
<1>1. \A c \in ColsOf(pair[i]) : owner[c] = i
  BY PairColumns DEF Owning, OwnsBoth
<1>2. CASE Owning(j)
  <2>1. \A c \in ColsOf(pair[j]) : owner[c] = j
    BY <1>2, PairColumns DEF Owning, OwnsBoth
  <2> QED BY <1>1, <2>1
<1>3. CASE Settled(j)
  <2>1. \A c \in ColsOf(pair[j]) : owner[c] = NoOwner
    BY <1>3 DEF Settled, Owning
  <2>2. i # NoOwner
    BY MatchingAssumption DEF Rows, NoOwner
  <2> QED BY <1>1, <2>1, <2>2
<1> QED BY <1>2, <1>3

\* A step that changes neither the pivots nor the rows that passed their checks.
LEMMA SameTaking ==
  ASSUME PivotsDisjoint, pair' = pair, Taking' \subseteq Taking
  PROVE  PivotsDisjoint'
BY DEF PivotsDisjoint

-----------------------------------------------------------------------------
LEMMA ResetStep == IInv /\ Reset => IInv'
<1> SUFFICES ASSUME IInv, Reset PROVE IInv'
  OBVIOUS
<1> USE DEF IInv
<1>1. MatchingRounds \in Nat /\ M \in Nat
  BY MatchingAssumption
<1>2. /\ kernel = "reset" /\ kernel' = "claim" /\ round' = round + 1
      /\ owner' = [j \in Cols |-> NoOwner]
      /\ UNCHANGED <<pair, active, selected, blocked, pc>>
      /\ \A i \in Rows : pc[i] = "start"
  BY DEF Reset, LaunchPcs
<1>3. TypeOK'
  BY <1>1, <1>2 DEF TypeOK, LaunchPcs, NoOwner, Rows
<1>4. LaunchPcs'
  BY <1>2 DEF LaunchPcs
<1>5. ASSUME NEW i \in Rows PROVE RowInv(i)'
  <2>1. i \in selected => ColsOf(pair[i]) \subseteq blocked
    BY <1>2, <1>5 DEF RowInv, Stored
  <2>2. ColsOf(pair[i]) \subseteq Cols
    BY <1>5, PairColumns
  <2> QED BY <1>2, <1>5, <2>1, <2>2 DEF RowInv, ClaimsFree, Settled, Stored, ColsOf
<1>6. PivotsDisjoint'
  BY <1>2, SameTaking DEF Taking
<1> QED BY <1>3, <1>4, <1>5, <1>6

LEMMA ClaimCheckStep == ASSUME IInv, NEW i \in Rows, ClaimCheck(i) PROVE IInv'
<1> USE DEF IInv
<1>1. /\ kernel = "claim" /\ pc[i] = "start"
      /\ pc' = [pc EXCEPT ![i] = IF i \in active /\ ColsOf(pair[i]) \cap blocked = {}
                                THEN "claimKeep" ELSE "end"]
      /\ UNCHANGED <<pair, round, kernel, owner, active, selected, blocked>>
  BY DEF ClaimCheck, Goto
<1>2. TypeOK'
  BY <1>1 DEF TypeOK
<1>3. LaunchPcs'
  BY <1>1, <1>2 DEF LaunchPcs, TypeOK
<1>4. ASSUME NEW j \in Rows PROVE RowInv(j)'
  <2>1. RowInv(j)
    BY <1>4
  <2>2. Settled(j) => Settled(j)'
    BY <1>1 DEF Settled
  <2> QED BY <1>1, <2>1, <2>2
      DEF TypeOK, RowInv, ClaimsFree, Owning, Stored, Keep
<1>5. PivotsDisjoint'
  BY <1>1, SameTaking DEF Taking, TypeOK
<1> QED BY <1>2, <1>3, <1>4, <1>5

\* A claim: the column is not one of an earlier pivot.
LEMMA ClaimStep ==
  ASSUME IInv, NEW i \in Rows,
         \/ ClaimKeep(i)
         \/ ClaimElim(i)
  PROVE  IInv'
<1> USE DEF IInv
<1>1. PICK col \in ColsOf(pair[i]), to \in {"claimElim", "end"} :
        /\ pc[i] \in {"claimKeep", "claimElim"}
        /\ owner' = [owner EXCEPT ![col] = IF i < @ THEN i ELSE @]
        /\ pc' = [pc EXCEPT ![i] = to]
        /\ UNCHANGED <<pair, round, kernel, active, selected, blocked>>
  BY PairColumns DEF ClaimKeep, ClaimElim, Claim, Goto
<1>2. kernel = "claim"
  BY <1>1 DEF LaunchPcs, TypeOK
<1>3. col \in Cols /\ col \notin blocked /\ ColsOf(pair[i]) \cap blocked = {}
  BY <1>1, PairColumns DEF RowInv, ClaimsFree
<1>4. TypeOK'
  <2>1. /\ owner \in [Cols -> 1..NoOwner] /\ i \in 1..NoOwner
        /\ owner' = [owner EXCEPT ![col] = IF i < owner[col] THEN i ELSE owner[col]]
    BY <1>1, MatchingAssumption DEF TypeOK, Rows, NoOwner
  <2>2. (IF i < owner[col] THEN i ELSE owner[col]) \in 1..NoOwner
    BY <1>3, <2>1
  <2>3. owner' \in [Cols -> 1..NoOwner]
    BY <2>1, <2>2
  <2> QED BY <1>1, <2>3 DEF TypeOK
<1>5. LaunchPcs'
  BY <1>1, <1>2, <1>4 DEF LaunchPcs, TypeOK
<1>6. ASSUME NEW j \in Rows PROVE RowInv(j)'
  <2>1. RowInv(j) /\ ~Owning(j) /\ (j = i => pc[j] # "select" /\ pc'[j] # "select")
    BY <1>1, <1>2, <1>6 DEF Owning, TypeOK
  <2>2. Settled(j) => Settled(j)'
    <3>1. SUFFICES ASSUME Settled(j), NEW c \in ColsOf(pair[j]) PROVE owner'[c] = owner[c]
      BY <1>1, <1>2 DEF Settled
    <3>2. c # col
      BY <1>3, <3>1 DEF Settled
    <3>3. c \in Cols
      BY <1>6, PairColumns
    <3> QED BY <1>1, <3>2, <3>3 DEF TypeOK
  <2>3. pc[j] # "select" /\ pc'[j] # "select"
    BY <1>1, <2>1 DEF RowInv, TypeOK
  <2>4. j \in selected => ColsOf(pair[j]) \subseteq blocked
    BY <1>2, <2>1 DEF RowInv, Settled
  <2> QED BY <1>1, <1>3, <2>1, <2>2, <2>3, <2>4
      DEF TypeOK, RowInv, ClaimsFree, Stored
<1>7. PivotsDisjoint'
  BY <1>1, SameTaking DEF Taking, TypeOK
<1> QED BY <1>4, <1>5, <1>6, <1>7

LEMMA LoadKeepStep == ASSUME IInv, NEW i \in Rows, LoadKeep(i) PROVE IInv'
<1> USE DEF IInv
<1>1. /\ kernel = "select" /\ pc[i] = "start"
      /\ pc' = [pc EXCEPT ![i] = IF i \in active /\ Keep(i) \notin blocked
                                THEN "loadElim" ELSE "end"]
      /\ UNCHANGED <<pair, round, kernel, owner, active, selected, blocked>>
  BY DEF LoadKeep, Goto
<1>2. TypeOK'
  BY <1>1 DEF TypeOK
<1>3. LaunchPcs'
  BY <1>1, <1>2 DEF LaunchPcs, TypeOK
<1>4. ASSUME NEW j \in Rows PROVE RowInv(j)'
  <2>1. RowInv(j)
    BY <1>4
  <2>2. (Settled(j) => Settled(j)') /\ (Owning(j) => Owning(j)')
    BY <1>1 DEF Settled, Owning, OwnsBoth, Elim, Keep
  <2> QED BY <1>1, <2>1, <2>2 DEF TypeOK, RowInv, ClaimsFree, Stored, Keep
<1>5. PivotsDisjoint'
  BY <1>1, SameTaking DEF Taking, TypeOK
<1> QED BY <1>2, <1>3, <1>4, <1>5

\* The one step after which there is a new pivot.
LEMMA LoadElimStep == ASSUME IInv, NEW i \in Rows, LoadElim(i) PROVE IInv'
<1> USE DEF IInv
<1>1. /\ pc[i] = "loadElim"
      /\ pc' = [pc EXCEPT ![i] = IF Elim(i) \notin blocked /\ OwnsBoth(i)
                                THEN "select" ELSE "end"]
      /\ UNCHANGED <<pair, round, kernel, owner, active, selected, blocked>>
  BY DEF LoadElim, Goto
<1>2. kernel = "select"
  BY <1>1 DEF LaunchPcs, TypeOK
<1>3. TypeOK'
  BY <1>1 DEF TypeOK
<1>4. LaunchPcs'
  BY <1>1, <1>2, <1>3 DEF LaunchPcs, TypeOK
<1>5. ASSUME NEW j \in Rows PROVE RowInv(j)'
  <2>1. RowInv(j)
    BY <1>5
  <2>2. (Settled(j) => Settled(j)') /\ (Owning(j) => Owning(j)')
    BY <1>1 DEF Settled, Owning, OwnsBoth, Elim, Keep
  <2>3. pc'[j] = "select" => Owning(j)
    BY <1>1, <1>2, <2>1 DEF RowInv, Owning, TypeOK
  <2> QED BY <1>1, <2>1, <2>2, <2>3 DEF TypeOK, RowInv, ClaimsFree, Stored, Keep
<1>6. PivotsDisjoint'
  <2>1. CASE pc'[i] # "select"
    BY <1>1, <2>1, SameTaking DEF Taking, TypeOK
  <2>2. CASE pc'[i] = "select"
    <3>1. Owning(i)
      BY <1>1, <1>2, <2>2 DEF Owning, TypeOK
    <3>2. Taking' \subseteq Taking \cup {i}
      BY <1>1 DEF Taking, TypeOK
    <3>3. ASSUME NEW j \in Taking, j # i
          PROVE  ColsOf(pair[i]) \cap ColsOf(pair[j]) = {}
      <4>1. j \in Rows
        BY <3>3 DEF Taking, TypeOK
      <4>2. Owning(j) \/ Settled(j)
        BY <3>3, <4>1 DEF Taking, RowInv
      <4> QED BY <3>1, <3>3, <4>1, <4>2, OwnersDisjoint
    <3> QED BY <1>1, <3>2, <3>3 DEF PivotsDisjoint
  <2> QED BY <2>1, <2>2
<1> QED BY <1>3, <1>4, <1>5, <1>6

LEMMA SelectStep == ASSUME IInv, NEW i \in Rows, Select(i) PROVE IInv'
<1> USE DEF IInv
<1>1. /\ pc[i] = "select" /\ pc' = [pc EXCEPT ![i] = "blockKeep"]
      /\ selected' = selected \cup {i} /\ active' = active \ {i}
      /\ UNCHANGED <<pair, round, kernel, owner, blocked>>
  BY DEF Select, Goto
<1>2. kernel = "select" /\ Owning(i)
  BY <1>1 DEF RowInv, Owning
<1>3. TypeOK'
  BY <1>1 DEF TypeOK
<1>4. LaunchPcs'
  BY <1>1, <1>2, <1>3 DEF LaunchPcs, TypeOK
<1>5. ASSUME NEW j \in Rows PROVE RowInv(j)'
  <2>1. RowInv(j)
    BY <1>5
  <2>2. (Settled(j) => Settled(j)') /\ (Owning(j) => Owning(j)')
    BY <1>1 DEF Settled, Owning, OwnsBoth, Elim, Keep
  <2> QED BY <1>1, <1>2, <2>1, <2>2 DEF TypeOK, RowInv, ClaimsFree, Stored, Keep
<1>6. PivotsDisjoint'
  BY <1>1, SameTaking DEF Taking, TypeOK
<1> QED BY <1>3, <1>4, <1>5, <1>6

LEMMA BlockStep ==
  ASSUME IInv, NEW i \in Rows,
         \/ BlockKeep(i)
         \/ BlockElim(i)
  PROVE  IInv'
<1> USE DEF IInv
<1>1. /\ \/ pc[i] = "blockKeep" /\ pc' = [pc EXCEPT ![i] = "blockElim"]
            /\ blocked' = blocked \cup {Keep(i)}
         \/ pc[i] = "blockElim" /\ pc' = [pc EXCEPT ![i] = "end"]
            /\ blocked' = blocked \cup {Elim(i)}
      /\ UNCHANGED <<pair, round, kernel, owner, active, selected>>
  BY DEF BlockKeep, BlockElim, Block, Goto
<1>2. kernel = "select"
  BY <1>1 DEF LaunchPcs, TypeOK
<1>3. Elim(i) \in Cols /\ Keep(i) \in Cols /\ ColsOf(pair[i]) = {Elim(i), Keep(i)}
  BY PairColumns
<1>4. TypeOK'
  BY <1>1, <1>3 DEF TypeOK
<1>5. LaunchPcs'
  BY <1>1, <1>2, <1>4 DEF LaunchPcs, TypeOK
<1>6. ASSUME NEW j \in Rows PROVE RowInv(j)'
  <2>1. RowInv(j) /\ blocked \subseteq blocked'
    BY <1>1, <1>6
  <2>2. (Settled(j) => Settled(j)') /\ (Owning(j) => Owning(j)')
    BY <1>1, <2>1 DEF Settled, Owning, OwnsBoth, Elim, Keep
  <2>3. j \in selected => Stored(j)'
    <3>1. CASE j = i
      BY <1>1, <1>3, <2>1, <3>1 DEF TypeOK, RowInv, Stored, Keep
    <3>2. CASE j # i
      BY <1>1, <2>1, <3>2 DEF TypeOK, RowInv, Stored, Keep
    <3> QED BY <3>1, <3>2
  <2>4. ClaimsFree(j)' /\ (pc'[j] = "select" => pc[j] = "select")
    BY <1>1, <1>2, <1>5 DEF TypeOK, LaunchPcs, ClaimsFree
  <2> QED BY <1>1, <2>1, <2>2, <2>3, <2>4 DEF RowInv
<1>7. PivotsDisjoint'
  BY <1>1, SameTaking DEF Taking, TypeOK
<1> QED BY <1>4, <1>5, <1>6, <1>7

LEMMA NextKernelStep == IInv /\ NextKernel => IInv'
<1> SUFFICES ASSUME IInv, NextKernel PROVE IInv'
  OBVIOUS
<1> USE DEF IInv
<1>1. /\ kernel \in {"claim", "select"} /\ \A i \in Rows : pc[i] = "end"
      /\ kernel' = IF kernel = "claim" THEN "select"
                   ELSE IF round < MatchingRounds THEN "reset" ELSE "done"
      /\ pc' = [i \in Rows |-> "start"]
      /\ UNCHANGED <<pair, round, owner, active, selected, blocked>>
  BY DEF NextKernel, MoreRounds
<1>2. TypeOK'
  BY <1>1 DEF TypeOK
<1>3. LaunchPcs'
  BY <1>1 DEF LaunchPcs
<1>4. ASSUME NEW i \in Rows PROVE RowInv(i)'
  <2>1. i \in selected => Settled(i) \/ Owning(i)
    BY <1>4 DEF RowInv
  <2>2. i \in selected => ColsOf(pair[i]) \subseteq blocked
    BY <1>1, <1>4 DEF RowInv, Stored
  <2>3. kernel = "claim" => ~Owning(i)
    BY DEF Owning
  <2> QED BY <1>1, <1>4, <2>1, <2>2, <2>3 DEF RowInv, ClaimsFree, Settled, Stored
<1>5. PivotsDisjoint'
  BY <1>1, SameTaking DEF Taking
<1> QED BY <1>2, <1>3, <1>4, <1>5

-----------------------------------------------------------------------------
LEMMA StepIInv == IInv /\ [Next]_vars => IInv'
<1> SUFFICES ASSUME IInv, [Next]_vars PROVE IInv'
  OBVIOUS
<1>1. CASE Reset
  BY <1>1, ResetStep
<1>2. ASSUME NEW i \in Rows, Step(i) PROVE IInv'
  BY <1>2, ClaimCheckStep, ClaimStep, LoadKeepStep, LoadElimStep, SelectStep, BlockStep DEF Step
<1>3. CASE NextKernel
  BY <1>3, NextKernelStep
<1>4. CASE UNCHANGED vars
  <2>1. TypeOK' /\ LaunchPcs' /\ PivotsDisjoint'
    BY <1>4 DEF vars, IInv, TypeOK, LaunchPcs, PivotsDisjoint, Taking, Elim, Keep
  <2>2. ASSUME NEW i \in Rows PROVE RowInv(i)'
    BY <1>4 DEF vars, IInv, RowInv, ClaimsFree, Settled, Owning, OwnsBoth, Stored, Taking,
                Elim, Keep
  <2> QED BY <2>1, <2>2 DEF IInv
<1> QED BY <1>1, <1>2, <1>3, <1>4 DEF Next, Done

\* Every thread of every kernel stays inside its arrays: owners are rows or
\* none, blocked columns are columns.
THEOREM MatchingTyped == Spec => []TypeOK
<1>1. IInv => TypeOK
  BY DEF IInv
<1> QED BY <1>1, InitIInv, StepIInv, PTL DEF Spec

\* Whatever the candidates and the interleaving, no column belongs to two
\* pivots of a batch, at any moment of the matching rounds.
THEOREM MatchingDisjoint == Spec => []PivotsDisjoint
<1>1. IInv => PivotsDisjoint
  BY DEF IInv
<1> QED BY <1>1, InitIInv, StepIInv, PTL DEF Spec

-----------------------------------------------------------------------------
(* A round with a free row takes one.                                      *)

\* The smallest free row wins, so a round that takes nothing leaves nothing free.
LEMMA SomeoneWins ==
  ASSUME NEW pairs, NEW taken, DOMAIN pairs \subseteq Nat, Free(pairs, taken) # {}
  PROVE  Winners(pairs, taken) # {}
<1>1. Free(pairs, taken) \in SUBSET Nat
  BY DEF Free
<1>2. PICK i \in Free(pairs, taken) : \A j \in Free(pairs, taken) : i <= j
  BY <1>1, LeastMember
<1> QED BY <1>2 DEF Winners

\* With as many rounds as rows, no row is left free.
LEMMA NothingLeft ==
  ASSUME NEW pairs, NEW m \in Nat, NEW n \in Nat, DOMAIN pairs \subseteq 1..m, m <= n
  PROVE  Free(pairs, Matched(pairs, n)) = {}
<1> DEFINE taken(r) == Matched(pairs, r)
           Good == {r \in Nat : Free(pairs, taken(r)) = {} \/ r <= Cardinality(taken(r))}
<1>0. IsFiniteSet(DOMAIN pairs) /\ Cardinality(DOMAIN pairs) <= m
      /\ Cardinality(DOMAIN pairs) \in Nat
  <2>1. IsFiniteSet(1..m) /\ Cardinality(1..m) = m
    BY FS_Interval
  <2> QED BY <2>1, FS_Subset, FS_CardinalityType
<1>1. \A r \in Nat : IsFiniteSet(taken(r)) /\ Cardinality(taken(r)) \in Nat
  BY <1>0, MatchedTyped, FS_Subset, FS_CardinalityType
<1>2. 0 \in Good
  BY <1>1
<1>3. ASSUME NEW r \in Good PROVE r + 1 \in Good
  <2>0. r \in Nat
    OBVIOUS
  <2>1. taken(r + 1) = taken(r) \cup Winners(pairs, taken(r))
    BY <2>0, MatchedRounds
  <2>2. CASE Free(pairs, taken(r)) = {}
    <3>1. taken(r + 1) = taken(r)
      BY <2>1, <2>2 DEF Winners
    <3> QED BY <2>0, <2>2, <3>1
  <2>3. CASE Free(pairs, taken(r)) # {}
    <3>1. r <= Cardinality(taken(r))
      BY <2>3
    <3>2. PICK i \in Winners(pairs, taken(r)) : TRUE
      <4>1. DOMAIN pairs \subseteq Nat
        OBVIOUS
      <4> QED BY <2>3, <4>1, SomeoneWins
    <3>3. i \notin taken(r) /\ taken(r) \cup {i} \subseteq taken(r + 1)
      BY <2>1, <3>2 DEF Winners, Free
    <3> HIDE DEF taken
    <3>4. Cardinality(taken(r) \cup {i}) = Cardinality(taken(r)) + 1
      BY <1>1, <2>0, <3>3, FS_AddElement
    <3>5. Cardinality(taken(r) \cup {i}) <= Cardinality(taken(r + 1))
      <4>1. r + 1 \in Nat
        BY <2>0
      <4> QED BY <1>1, <3>3, <4>1, FS_Subset
    <3>6. Cardinality(taken(r + 1)) \in Nat /\ Cardinality(taken(r)) \in Nat
      BY <1>1, <2>0
    <3> QED BY <2>0, <3>1, <3>4, <3>5, <3>6
  <2> QED BY <2>2, <2>3
<1>4. Good = Nat
  <2>1. Good \in SUBSET Nat
    OBVIOUS
  <2> HIDE DEF Good
  <2> QED BY <1>2, <1>3, <2>1, NatSetInduction
<1>5. CASE n <= Cardinality(taken(n))
  <2>1. taken(n) \subseteq DOMAIN pairs
    BY MatchedTyped
  <2>2. Cardinality(taken(n)) = Cardinality(DOMAIN pairs)
    <3>1. Cardinality(taken(n)) <= Cardinality(DOMAIN pairs)
      <4> HIDE DEF taken
      <4> QED BY <1>0, <2>1, FS_Subset
    <3>2. Cardinality(taken(n)) \in Nat
      BY <1>1
    <3> HIDE DEF taken
    <3> QED BY <1>0, <1>5, <3>1, <3>2
  <2>3. taken(n) = DOMAIN pairs
    <3> HIDE DEF taken
    <3> QED BY <1>0, <2>1, <2>2, FS_Subset
  <2> QED BY <2>3 DEF Free
<1> QED BY <1>4, <1>5

-----------------------------------------------------------------------------
(* The schedule leaves no trace.                                           *)

\* The candidates of the launch, the rounds that have ended, what they took.
Pairs == [i \in Launched |-> pair[i]]
Ended == IF kernel \in {"claim", "select"} THEN round - 1 ELSE round
Earlier == Matched(Pairs, Ended)
Open == Free(Pairs, Earlier)
Won == Winners(Pairs, Earlier)

\* A row is active until it is taken, and all rounds are played.
ActiveInv ==
  /\ active \cap selected = {}
  /\ \A i \in Rows : pc[i] \in {"claimKeep", "claimElim", "loadElim", "select"} => i \in active
  /\ \A i \in Rows : pc[i] \in {"blockKeep", "blockElim"} => i \in selected
  /\ round \in Nat /\ (kernel \in {"claim", "select"} => round >= 1)
  /\ kernel = "done" => round = MatchingRounds

\* Every claim so far is seen: the owner of a column is a free row of it, and
\* no larger than any row that has claimed it.
Claimed(i) ==
  IF kernel = "select" \/ (kernel = "claim" /\ pc[i] = "end") THEN ColsOf(pair[i])
  ELSE IF kernel = "claim" /\ pc[i] = "claimElim" THEN {Keep(i)} ELSE {}
OwnerInv ==
  kernel \in {"claim", "select"} =>
    /\ \A c \in Cols : owner[c] # NoOwner => owner[c] \in Open /\ c \in ColsOf(pair[owner[c]])
    /\ \A i \in Open : \A c \in Claimed(i) : owner[c] <= i

\* What is taken so far: between two rounds and while rows claim, the rows of
\* the rounds that have ended; while rows are selected, also the winners whose
\* threads have come that far.
TakenInv ==
  /\ kernel # "select" => selected = Earlier /\ blocked = Blocked(Pairs, selected)
  /\ kernel = "claim" => \A i \in Rows : pc[i] \in {"claimKeep", "claimElim"} => i \in Open
  /\ kernel = "select" =>
       /\ Earlier \subseteq selected /\ selected \subseteq Earlier \cup Won
       /\ Blocked(Pairs, Earlier) \subseteq blocked /\ blocked \subseteq Blocked(Pairs, selected)
       /\ \A i \in Rows : pc[i] = "select" => i \in Won
       /\ \A i \in Won : i \in selected \/ pc[i] \in {"start", "loadElim", "select"}

MatchInv == IInv /\ ActiveInv /\ OwnerInv /\ TakenInv

\* What the launch and the rounds that have ended are made of.
LEMMA RoundFacts ==
  ASSUME IInv, ActiveInv
  PROVE  /\ Launched \subseteq Rows /\ DOMAIN Pairs = Launched
         /\ \A i \in Launched : Pairs[i] = pair[i]
         /\ Ended \in Nat /\ Earlier \subseteq Launched
         /\ Open = {i \in Launched \ Earlier : ColsOf(pair[i]) \cap Blocked(Pairs, Earlier) = {}}
         /\ Won = {i \in Open : \A j \in Open :
                     ColsOf(pair[i]) \cap ColsOf(pair[j]) # {} => i <= j}
<1>1. /\ Launched \subseteq Rows /\ DOMAIN Pairs = Launched
      /\ \A i \in Launched : Pairs[i] = pair[i]
  BY DEF IInv, TypeOK, Launched, Pairs
<1>2. Ended \in Nat
  BY DEF ActiveInv, Ended
<1>3. Earlier \subseteq Launched
  BY <1>1, <1>2, MatchedTyped DEF Earlier
<1>4. Open = {i \in Launched \ Earlier : ColsOf(pair[i]) \cap Blocked(Pairs, Earlier) = {}}
  BY <1>1 DEF Open, Free
<1>5. Won = {i \in Open : \A j \in Open : ColsOf(pair[i]) \cap ColsOf(pair[j]) # {} => i <= j}
  BY <1>1, <1>4 DEF Won, Winners, Open
<1> QED BY <1>1, <1>2, <1>3, <1>4, <1>5

LEMMA BlockedBy ==
  ASSUME IInv, ActiveInv, NEW S \in SUBSET Launched, NEW c
  PROVE  c \in Blocked(Pairs, S) <=> \E i \in S : c \in ColsOf(pair[i])
BY RoundFacts DEF Blocked

\* Two winners of a round share no column.
LEMMA WinnersDisjoint ==
  ASSUME IInv, ActiveInv, NEW i \in Won, NEW j \in Won, i # j
  PROVE  ColsOf(pair[i]) \cap ColsOf(pair[j]) = {}
<1>1. i \in Open /\ j \in Open /\ i \in Int /\ j \in Int
  BY RoundFacts DEF Rows
<1> QED BY <1>1, RoundFacts

\* After the claims, the winners of the round are the rows that own both columns.
LEMMA WinnersOwn ==
  ASSUME MatchInv, kernel = "select", NEW i \in Rows
  PROVE  i \in Won <=> OwnsBoth(i)
<1>1. /\ ColsOf(pair[i]) = {Elim(i), Keep(i)} /\ Elim(i) \in Cols /\ Keep(i) \in Cols
      /\ i \in Int /\ i < NoOwner
  BY PairColumns, MatchingAssumption DEF MatchInv, IInv, Rows, NoOwner
<1>2. /\ \A c \in Cols : owner[c] # NoOwner => owner[c] \in Open /\ c \in ColsOf(pair[owner[c]])
      /\ \A j \in Open : \A c \in ColsOf(pair[j]) : owner[c] <= j
      /\ \A c \in Cols : owner[c] \in Int
  BY MatchingAssumption DEF MatchInv, OwnerInv, Claimed, IInv, TypeOK, NoOwner
<1>3. ASSUME OwnsBoth(i) PROVE i \in Won
  <2>1. i \in Open
    BY <1>1, <1>2, <1>3 DEF OwnsBoth
  <2>2. ASSUME NEW j \in Open, ColsOf(pair[i]) \cap ColsOf(pair[j]) # {} PROVE i <= j
    <3>1. PICK c \in ColsOf(pair[i]) : c \in ColsOf(pair[j])
      BY <2>2
    <3>2. owner[c] = i
      BY <1>1, <1>3, <3>1 DEF OwnsBoth
    <3> QED BY <1>2, <2>2, <3>1, <3>2
  <2> QED BY <2>1, <2>2, RoundFacts DEF MatchInv
<1>4. ASSUME i \in Won PROVE OwnsBoth(i)
  <2>0. i \in Open
    BY <1>4, RoundFacts DEF MatchInv
  <2>1. ASSUME NEW c \in ColsOf(pair[i]) PROVE owner[c] = i
    <3>1. owner[c] <= i /\ c \in Cols
      BY <1>1, <1>2, <2>0, <2>1
    <3>2. owner[c] # NoOwner
      BY <1>1, <1>2, <3>1
    <3>3. owner[c] \in Open /\ c \in ColsOf(pair[owner[c]])
      BY <1>2, <3>1, <3>2
    <3>4. i <= owner[c]
      <4>1. ColsOf(pair[i]) \cap ColsOf(pair[owner[c]]) # {}
        BY <2>1, <3>3
      <4> QED BY <1>4, <3>3, <4>1, RoundFacts DEF MatchInv
    <3> QED BY <1>1, <1>2, <3>1, <3>4
  <2> QED BY <1>1, <2>1 DEF OwnsBoth
<1> QED BY <1>3, <1>4

\* While winners are selected, nobody else blocks the columns of one of them.
LEMMA WinnerIsFree ==
  ASSUME MatchInv, kernel = "select", NEW i \in Won, i \notin selected
  PROVE  i \in active /\ ColsOf(pair[i]) \cap blocked = {}
<1>1. i \in Open /\ i \in Launched /\ i \in active
  BY RoundFacts DEF MatchInv, Launched
<1>2. ASSUME NEW c \in ColsOf(pair[i]), c \in blocked PROVE FALSE
  <2>1. c \in Blocked(Pairs, selected) /\ selected \subseteq Earlier \cup Won
    BY <1>2 DEF MatchInv, TakenInv
  <2>2. PICK j \in selected : c \in ColsOf(pair[j])
    BY <2>1, BlockedBy DEF MatchInv, Launched
  <2>3. CASE j \in Earlier
    BY <1>1, <1>2, <2>2, <2>3, RoundFacts, BlockedBy DEF MatchInv
  <2>4. CASE j \in Won
    BY <1>2, <2>2, <2>4, WinnersDisjoint DEF MatchInv
  <2> QED BY <2>1, <2>3, <2>4
<1> QED BY <1>1, <1>2

\* A step that moves no row in or out of the launch and ends no round.
LEMMA SameRound ==
  ASSUME pair' = pair, Launched' = Launched, Ended' = Ended
  PROVE  Pairs' = Pairs /\ Earlier' = Earlier /\ Open' = Open /\ Won' = Won
<1>1. Pairs' = Pairs
  BY DEF Pairs
<1>2. Earlier' = Earlier
  BY <1>1 DEF Earlier
<1> QED BY <1>1, <1>2 DEF Open, Won

\* The columns a row has claimed, in the state after a step that moves thread i.
LEMMA SameClaimed ==
  ASSUME NEW i \in Rows, NEW label, NEW j \in Rows, j # i, TypeOK,
         pair' = pair, kernel' = kernel, pc' = [pc EXCEPT ![i] = label]
  PROVE  Claimed(j)' = Claimed(j)
BY DEF TypeOK, Claimed, Keep

LEMMA InitMatch == Init => MatchInv
<1> SUFFICES ASSUME Init PROVE MatchInv
  OBVIOUS
<1>1. /\ IInv /\ round = 0 /\ kernel \in {"reset", "done"} /\ selected = {} /\ blocked = {}
      /\ active \in SUBSET Rows /\ \A i \in Rows : pc[i] = "start"
      /\ kernel = "done" => MatchingRounds = 0
  BY InitIInv, MatchingAssumption DEF Init
<1>2. ActiveInv
  BY <1>1 DEF ActiveInv
<1>3. Earlier = {}
  BY <1>1, MatchedRounds DEF Earlier, Ended
<1>4. Blocked(Pairs, {}) = {}
  BY DEF Blocked
<1> QED BY <1>1, <1>2, <1>3, <1>4 DEF MatchInv, OwnerInv, TakenInv

LEMMA ResetMatch == ASSUME MatchInv, Reset PROVE MatchInv'
<1>1. /\ kernel = "reset" /\ kernel' = "claim" /\ round' = round + 1 /\ round \in Nat
      /\ owner' = [j \in Cols |-> NoOwner]
      /\ pair' = pair /\ active' = active /\ selected' = selected /\ blocked' = blocked /\ pc' = pc
      /\ \A i \in Rows : pc[i] = "start"
  BY DEF Reset, MatchInv, IInv, LaunchPcs, ActiveInv
<1>2. IInv'
  BY ResetStep DEF MatchInv
<1>3. Launched' = Launched /\ Ended' = Ended
  BY <1>1 DEF Launched, Ended
<1>4. Pairs' = Pairs /\ Earlier' = Earlier /\ Open' = Open /\ Won' = Won
  BY <1>1, <1>3, SameRound
<1>5. ActiveInv'
  BY <1>1 DEF MatchInv, ActiveInv
<1>6. OwnerInv'
  <2>1. \A i \in Rows : Claimed(i)' = {}
    BY <1>1 DEF Claimed
  <2>2. Open \subseteq Rows
    BY RoundFacts DEF MatchInv
  <2> QED BY <1>1, <1>4, <2>1, <2>2 DEF OwnerInv
<1>7. TakenInv'
  BY <1>1, <1>4 DEF MatchInv, TakenInv
<1> QED BY <1>2, <1>5, <1>6, <1>7 DEF MatchInv

LEMMA ClaimCheckMatch == ASSUME MatchInv, NEW i \in Rows, ClaimCheck(i) PROVE MatchInv'
<1> DEFINE ok == i \in active /\ ColsOf(pair[i]) \cap blocked = {}
<1>1. /\ kernel = "claim" /\ kernel' = kernel /\ pc[i] = "start" /\ round' = round
      /\ pc' = [pc EXCEPT ![i] = IF ok THEN "claimKeep" ELSE "end"]
      /\ pair' = pair /\ owner' = owner /\ active' = active /\ selected' = selected
      /\ blocked' = blocked
  BY DEF ClaimCheck, Goto
<1>2. IInv'
  BY ClaimCheckStep DEF MatchInv
<1>3. Launched' = Launched /\ Ended' = Ended
  BY <1>1 DEF Launched, Ended
<1>4. Pairs' = Pairs /\ Earlier' = Earlier /\ Open' = Open /\ Won' = Won
  BY <1>1, <1>3, SameRound
<1>t. TypeOK
  BY DEF MatchInv, IInv
<1>5. i \in Open <=> ok
  <2>1. selected = Earlier /\ blocked = Blocked(Pairs, Earlier) /\ active \cap selected = {}
    BY <1>1 DEF MatchInv, TakenInv, ActiveInv
  <2> QED BY <2>1, RoundFacts DEF MatchInv, Launched
<1> HIDE DEF ok
<1>6. ActiveInv'
  <2>1. ok => i \in active
    BY DEF ok
  <2> QED BY <1>1, <1>t, <2>1 DEF MatchInv, ActiveInv, TypeOK
<1>7. OwnerInv'
  <2>1. ASSUME NEW j \in Open, NEW c \in Claimed(j)' PROVE owner[c] <= j
    <3>1. j \in Rows
      BY RoundFacts DEF MatchInv
    <3>2. CASE j = i
      BY <1>1, <1>5, <1>t, <2>1, <3>2 DEF Claimed, TypeOK
    <3>3. CASE j # i
      <4>1. Claimed(j)' = Claimed(j)
        BY <1>1, <1>t, <3>1, <3>3, SameClaimed
      <4> QED BY <1>1, <2>1, <4>1 DEF MatchInv, OwnerInv
    <3> QED BY <3>2, <3>3
  <2> QED BY <1>1, <1>4, <2>1 DEF MatchInv, OwnerInv
<1>8. TakenInv'
  BY <1>1, <1>4, <1>5, <1>t DEF MatchInv, TakenInv, TypeOK
<1> QED BY <1>2, <1>6, <1>7, <1>8 DEF MatchInv

LEMMA ClaimMatch ==
  ASSUME MatchInv, NEW i \in Rows,
         \/ ClaimKeep(i)
         \/ ClaimElim(i)
  PROVE  MatchInv'
<1>t. TypeOK /\ Elim(i) \in Cols /\ Keep(i) \in Cols /\ ColsOf(pair[i]) = {Elim(i), Keep(i)}
  BY PairColumns DEF MatchInv, IInv
<1>1. PICK col \in ColsOf(pair[i]), to \in {"claimElim", "end"} :
        /\ \/ pc[i] = "claimKeep" /\ to = "claimElim" /\ col = Keep(i)
           \/ pc[i] = "claimElim" /\ to = "end" /\ col = Elim(i)
        /\ owner' = [owner EXCEPT ![col] = IF i < @ THEN i ELSE @]
        /\ pc' = [pc EXCEPT ![i] = to]
        /\ pair' = pair /\ round' = round /\ kernel' = kernel /\ active' = active
        /\ selected' = selected /\ blocked' = blocked
  BY <1>t DEF ClaimKeep, ClaimElim, Claim, Goto
<1>2. IInv' /\ kernel = "claim"
  BY <1>1, ClaimStep DEF MatchInv, IInv, LaunchPcs, TypeOK
<1>3. Launched' = Launched /\ Ended' = Ended
  BY <1>1 DEF Launched, Ended
<1>4. Pairs' = Pairs /\ Earlier' = Earlier /\ Open' = Open /\ Won' = Won
  BY <1>1, <1>3, SameRound
<1>5. i \in Open
  BY <1>1, <1>2 DEF MatchInv, TakenInv
<1>6. ActiveInv'
  BY <1>1, <1>t DEF MatchInv, ActiveInv, TypeOK
<1>7. /\ \A c \in Cols : owner'[c] = IF c = col /\ i < owner[c] THEN i ELSE owner[c]
      /\ \A c \in Cols : owner[c] \in Int
      /\ i \in Int
  <2>1. owner \in [Cols -> 1..NoOwner] /\ col \in Cols
    BY <1>1, <1>t DEF TypeOK
  <2>2. NoOwner \in Int
    BY MatchingAssumption DEF NoOwner
  <2> QED BY <1>1, <2>1, <2>2 DEF Rows
<1>8. OwnerInv'
  <2>1. ASSUME NEW c \in Cols, owner'[c] # NoOwner
        PROVE  owner'[c] \in Open /\ c \in ColsOf(pair[owner'[c]])
    BY <1>1, <1>2, <1>5, <1>7, <2>1 DEF MatchInv, OwnerInv
  <2>2. ASSUME NEW j \in Open, NEW c \in Claimed(j)' PROVE owner'[c] <= j
    <3>1. j \in Rows /\ j \in Int
      BY RoundFacts DEF MatchInv, Rows
    <3>2. c \in ColsOf(pair[j]) /\ c \in Cols
      BY <1>1, <1>t, <2>2, <3>1, PairColumns DEF Claimed, Keep
    <3>3. CASE j = i
      <4>1. c = col \/ c \in Claimed(i)
        BY <1>1, <1>2, <1>t, <2>2, <3>3 DEF Claimed, Keep, TypeOK
      <4> QED BY <1>2, <1>5, <1>7, <3>2, <3>3, <4>1 DEF MatchInv, OwnerInv
    <3>4. CASE j # i
      <4>1. Claimed(j)' = Claimed(j)
        BY <1>1, <1>t, <3>1, <3>4, SameClaimed
      <4>2. owner[c] <= j
        BY <1>2, <2>2, <4>1 DEF MatchInv, OwnerInv
      <4> QED BY <1>7, <3>1, <3>2, <4>2
    <3> QED BY <3>3, <3>4
  <2> QED BY <1>1, <1>4, <2>1, <2>2 DEF OwnerInv
<1>9. TakenInv'
  BY <1>1, <1>2, <1>4, <1>5, <1>t DEF MatchInv, TakenInv, TypeOK
<1> QED BY <1>2, <1>6, <1>8, <1>9 DEF MatchInv

\* A load of the selecting kernel: it goes on exactly when the row may win.
LEMMA LoadMatch ==
  ASSUME MatchInv, NEW i \in Rows, NEW label \in {"loadElim", "select", "end"},
         IInv', kernel = "select", pc[i] \in {"start", "loadElim"},
         pc' = [pc EXCEPT ![i] = label],
         pair' = pair, round' = round, kernel' = kernel, owner' = owner, active' = active,
         selected' = selected, blocked' = blocked,
         label # "end" => i \in active,
         label = "select" => i \in Won,
         i \in Won => i \in selected \/ label # "end"
  PROVE  MatchInv'
<1>1. TypeOK
  BY DEF MatchInv, IInv
<1>2. Launched' = Launched /\ Ended' = Ended
  BY DEF Launched, Ended
<1>3. Pairs' = Pairs /\ Earlier' = Earlier /\ Open' = Open /\ Won' = Won
  BY <1>2, SameRound
<1>4. ActiveInv'
  BY <1>1 DEF MatchInv, ActiveInv, TypeOK
<1>5. OwnerInv'
  <2>1. \A j \in Rows : Claimed(j)' = Claimed(j)
    BY DEF Claimed
  <2>2. Open \subseteq Rows
    BY RoundFacts DEF MatchInv
  <2> QED BY <1>3, <2>1, <2>2 DEF MatchInv, OwnerInv
<1>6. TakenInv'
  <2>1. \A j \in Rows : pc'[j] = IF j = i THEN label ELSE pc[j]
    BY <1>1 DEF TypeOK
  <2>2. Won \subseteq Rows
    BY RoundFacts DEF MatchInv
  <2> QED BY <1>3, <2>1, <2>2 DEF MatchInv, TakenInv
<1> QED BY <1>4, <1>5, <1>6 DEF MatchInv

LEMMA LoadKeepMatch == ASSUME MatchInv, NEW i \in Rows, LoadKeep(i) PROVE MatchInv'
<1> DEFINE label == IF i \in active /\ Keep(i) \notin blocked THEN "loadElim" ELSE "end"
<1>1. /\ kernel = "select" /\ pc[i] = "start" /\ pc' = [pc EXCEPT ![i] = label]
      /\ pair' = pair /\ round' = round /\ kernel' = kernel /\ owner' = owner
      /\ active' = active /\ selected' = selected /\ blocked' = blocked
  BY DEF LoadKeep, Goto
<1>2. IInv'
  BY LoadKeepStep DEF MatchInv
<1>3. i \in Won => i \in selected \/ label # "end"
  BY <1>1, WinnerIsFree, PairColumns DEF MatchInv, IInv
<1>4. label \in {"loadElim", "select", "end"} /\ (label # "end" => i \in active)
      /\ label # "select"
  OBVIOUS
<1> HIDE DEF label
<1> QED BY <1>1, <1>2, <1>3, <1>4, LoadMatch

LEMMA LoadElimMatch == ASSUME MatchInv, NEW i \in Rows, LoadElim(i) PROVE MatchInv'
<1> DEFINE label == IF Elim(i) \notin blocked /\ OwnsBoth(i) THEN "select" ELSE "end"
<1>1. /\ pc[i] = "loadElim" /\ pc' = [pc EXCEPT ![i] = label]
      /\ pair' = pair /\ round' = round /\ kernel' = kernel /\ owner' = owner
      /\ active' = active /\ selected' = selected /\ blocked' = blocked
  BY DEF LoadElim, Goto
<1>2. IInv' /\ kernel = "select" /\ i \in active
  BY <1>1, LoadElimStep DEF MatchInv, IInv, LaunchPcs, TypeOK, ActiveInv
<1>3. (i \in Won => i \in selected \/ label # "end") /\ (label = "select" => i \in Won)
  BY <1>2, WinnerIsFree, WinnersOwn, PairColumns DEF MatchInv, IInv
<1>4. label \in {"loadElim", "select", "end"}
  OBVIOUS
<1> HIDE DEF label
<1> QED BY <1>1, <1>2, <1>3, <1>4, LoadMatch

LEMMA SelectMatch == ASSUME MatchInv, NEW i \in Rows, Select(i) PROVE MatchInv'
<1>1. /\ pc[i] = "select" /\ pc' = [pc EXCEPT ![i] = "blockKeep"]
      /\ selected' = selected \cup {i} /\ active' = active \ {i}
      /\ pair' = pair /\ round' = round /\ kernel' = kernel /\ owner' = owner
      /\ blocked' = blocked
  BY DEF Select, Goto
<1>2. IInv' /\ kernel = "select" /\ i \in active /\ TypeOK /\ i \in Won
  <2>1. kernel = "select"
    BY <1>1 DEF MatchInv, IInv, RowInv, Owning
  <2> QED BY <1>1, <2>1, SelectStep DEF MatchInv, IInv, ActiveInv, TakenInv
<1>3. Launched' = Launched /\ Ended' = Ended
  BY <1>1, <1>2 DEF Launched, Ended
<1>4. Pairs' = Pairs /\ Earlier' = Earlier /\ Open' = Open /\ Won' = Won
  BY <1>1, <1>3, SameRound
<1>5. \A j \in Rows : pc'[j] = IF j = i THEN "blockKeep" ELSE pc[j]
  BY <1>1, <1>2 DEF TypeOK
<1>6. ActiveInv'
  BY <1>1, <1>2, <1>5 DEF MatchInv, ActiveInv
<1>7. OwnerInv'
  <2>1. \A j \in Rows : Claimed(j)' = Claimed(j)
    BY <1>1, <1>2 DEF Claimed
  <2>2. Open \subseteq Rows
    BY RoundFacts DEF MatchInv
  <2> QED BY <1>1, <1>4, <2>1, <2>2 DEF MatchInv, OwnerInv
<1>8. TakenInv'
  <2>1. Won \subseteq Rows
    BY RoundFacts DEF MatchInv
  <2>2. Blocked(Pairs, selected) \subseteq Blocked(Pairs, selected')
    BY <1>1 DEF Blocked
  <2> QED BY <1>1, <1>2, <1>4, <1>5, <2>1, <2>2 DEF MatchInv, TakenInv
<1> QED BY <1>2, <1>6, <1>7, <1>8 DEF MatchInv

LEMMA BlockMatch ==
  ASSUME MatchInv, NEW i \in Rows,
         \/ BlockKeep(i)
         \/ BlockElim(i)
  PROVE  MatchInv'
<1>t. TypeOK /\ ColsOf(pair[i]) = {Elim(i), Keep(i)}
  BY PairColumns DEF MatchInv, IInv
<1>1. PICK col \in ColsOf(pair[i]), to \in {"blockElim", "end"} :
        /\ pc[i] \in {"blockKeep", "blockElim"} /\ pc' = [pc EXCEPT ![i] = to]
        /\ blocked' = blocked \cup {col}
        /\ pair' = pair /\ round' = round /\ kernel' = kernel /\ owner' = owner
        /\ active' = active /\ selected' = selected
  BY <1>t DEF BlockKeep, BlockElim, Block, Goto
<1>2. IInv' /\ kernel = "select" /\ i \in selected
  BY <1>1, BlockStep DEF MatchInv, IInv, LaunchPcs, TypeOK, ActiveInv
<1>3. Launched' = Launched /\ Ended' = Ended
  BY <1>1 DEF Launched, Ended
<1>4. Pairs' = Pairs /\ Earlier' = Earlier /\ Open' = Open /\ Won' = Won
  BY <1>1, <1>3, SameRound
<1>5. \A j \in Rows : pc'[j] = IF j = i THEN to ELSE pc[j]
  BY <1>1, <1>t DEF TypeOK
<1>6. ActiveInv'
  BY <1>1, <1>2, <1>5 DEF MatchInv, ActiveInv
<1>7. OwnerInv'
  <2>1. \A j \in Rows : Claimed(j)' = Claimed(j)
    BY <1>1, <1>2 DEF Claimed
  <2>2. Open \subseteq Rows
    BY RoundFacts DEF MatchInv
  <2> QED BY <1>1, <1>4, <2>1, <2>2 DEF MatchInv, OwnerInv
<1>8. TakenInv'
  <2>1. Won \subseteq Rows
    BY RoundFacts DEF MatchInv
  <2>2. col \in Blocked(Pairs, selected)
    BY <1>1, <1>2, BlockedBy DEF MatchInv, Launched
  <2> QED BY <1>1, <1>2, <1>4, <1>5, <2>1, <2>2 DEF MatchInv, TakenInv
<1> QED BY <1>2, <1>6, <1>7, <1>8 DEF MatchInv

\* The end of the claims, and the end of a round: every winner has been taken.
LEMMA NextKernelMatch == ASSUME MatchInv, NextKernel PROVE MatchInv'
<1>1. /\ kernel \in {"claim", "select"} /\ \A i \in Rows : pc[i] = "end"
      /\ kernel' = IF kernel = "claim" THEN "select"
                   ELSE IF round < MatchingRounds THEN "reset" ELSE "done"
      /\ \A i \in Rows : pc'[i] = "start"
      /\ pair' = pair /\ round' = round /\ owner' = owner /\ active' = active
      /\ selected' = selected /\ blocked' = blocked
  BY DEF NextKernel, MoreRounds
<1>2. IInv'
  BY NextKernelStep DEF MatchInv
<1>3. /\ Launched' = Launched /\ Pairs' = Pairs /\ Launched \subseteq Rows
      /\ Open \subseteq Rows /\ Won \subseteq Rows /\ round \in Nat /\ round >= 1
      /\ round \in 0..MatchingRounds /\ MatchingRounds \in Nat
  BY <1>1, RoundFacts, MatchingAssumption
     DEF Launched, Pairs, MatchInv, ActiveInv, IInv, TypeOK
<1>4. ActiveInv'
  BY <1>1, <1>3 DEF MatchInv, ActiveInv
<1>5. CASE kernel = "claim"
  <2>1. Ended' = Ended
    BY <1>1, <1>5 DEF Ended
  <2>2. Earlier' = Earlier /\ Open' = Open /\ Won' = Won
    BY <1>1, <1>3, <2>1, SameRound
  <2>3. OwnerInv'
    <3>1. \A i \in Rows : Claimed(i)' = Claimed(i)
      BY <1>1, <1>5 DEF Claimed
    <3> QED BY <1>1, <1>3, <1>5, <2>2, <3>1 DEF MatchInv, OwnerInv
  <2>4. TakenInv'
    BY <1>1, <1>3, <1>5, <2>2 DEF MatchInv, TakenInv
  <2> QED BY <1>2, <1>4, <2>3, <2>4 DEF MatchInv
<1>6. CASE kernel = "select"
  <2>0. kernel' \in {"reset", "done"}
    BY <1>1, <1>6
  <2>1. Ended' = Ended + 1 /\ Ended \in Nat
    BY <1>1, <1>3, <1>6, <2>0 DEF Ended
  <2>2. selected = Earlier \cup Won
    BY <1>1, <1>3, <1>6 DEF MatchInv, TakenInv
  <2>3. Earlier' = Earlier \cup Won
    BY <1>3, <2>1, MatchedRounds DEF Earlier, Won
  <2>4. blocked = Blocked(Pairs, selected)
    <3>1. ASSUME NEW i \in selected PROVE ColsOf(pair[i]) \subseteq blocked
      BY <1>1, <3>1 DEF MatchInv, IInv, TypeOK, RowInv, Stored
    <3>2. ASSUME NEW c \in Blocked(Pairs, selected) PROVE c \in blocked
      BY <3>1, <3>2, BlockedBy DEF MatchInv, Launched
    <3> QED BY <1>6, <3>2 DEF MatchInv, TakenInv
  <2>5. TakenInv'
    BY <1>1, <1>3, <2>0, <2>2, <2>3, <2>4 DEF TakenInv
  <2>6. OwnerInv'
    BY <2>0 DEF OwnerInv
  <2> QED BY <1>2, <1>4, <2>5, <2>6 DEF MatchInv
<1> QED BY <1>1, <1>5, <1>6

LEMMA StutterMatch == ASSUME MatchInv, UNCHANGED vars PROVE MatchInv'
<1>1. /\ pair' = pair /\ round' = round /\ kernel' = kernel /\ owner' = owner
      /\ active' = active /\ selected' = selected /\ blocked' = blocked /\ pc' = pc
  BY DEF vars
<1>2. IInv'
  BY StepIInv DEF MatchInv
<1>3. Launched' = Launched /\ Ended' = Ended
  BY <1>1 DEF Launched, Ended
<1>4. Pairs' = Pairs /\ Earlier' = Earlier /\ Open' = Open /\ Won' = Won
  BY <1>1, <1>3, SameRound
<1>5. \A i : Claimed(i)' = Claimed(i)
  BY <1>1 DEF Claimed, Keep
<1>6. ActiveInv' /\ OwnerInv' /\ TakenInv'
  BY <1>1, <1>4, <1>5 DEF MatchInv, ActiveInv, OwnerInv, TakenInv
<1> QED BY <1>2, <1>6 DEF MatchInv

\* What the rows own, block and take at each point of a round.
THEOREM MatchingInvariant == Spec => []MatchInv
<1>1. MatchInv /\ [Next]_vars => MatchInv'
  <2> SUFFICES ASSUME MatchInv, [Next]_vars PROVE MatchInv'
    OBVIOUS
  <2>1. CASE Reset
    BY <2>1, ResetMatch
  <2>2. ASSUME NEW i \in Rows, Step(i) PROVE MatchInv'
    BY <2>2, ClaimCheckMatch, ClaimMatch, LoadKeepMatch, LoadElimMatch, SelectMatch,
       BlockMatch DEF Step
  <2>3. CASE NextKernel
    BY <2>3, NextKernelMatch
  <2>4. CASE UNCHANGED vars
    BY <2>4, StutterMatch
  <2> QED BY <2>1, <2>2, <2>3, <2>4 DEF Next, Done
<1> QED BY <1>1, InitMatch, PTL DEF Spec

\* Whatever the candidates and the interleaving, the threads take the rows that
\* Matched names: the smallest free row of both its columns, round by round.
THEOREM MatchingDetermined == Spec => []TakesTheMatching
<1>1. MatchInv => TakesTheMatching
  BY DEF MatchInv, TakenInv, TakesTheMatching, Earlier, Ended, Pairs
<1> QED BY <1>1, MatchingInvariant, PTL

\* With at least as many rounds as rows, a row is left over only when it shares
\* a column with a pivot.
THEOREM MatchingMaximal == Spec => []LeavesNoFreeRow
<1>1. MatchInv => LeavesNoFreeRow
  <2> SUFFICES ASSUME MatchInv, kernel = "done", M <= MatchingRounds, NEW i \in active
               PROVE  \E j \in selected : ColsOf(pair[i]) \cap ColsOf(pair[j]) # {}
    BY DEF LeavesNoFreeRow
  <2>1. Ended = MatchingRounds /\ selected = Earlier /\ active \cap selected = {}
    BY DEF MatchInv, ActiveInv, TakenInv, Ended
  <2>2. Open = {}
    <3>1. DOMAIN Pairs \subseteq 1..M
      BY RoundFacts DEF MatchInv, Rows
    <3> QED BY <2>1, <3>1, NothingLeft, MatchingAssumption DEF Open, Earlier
  <2>3. PICK c \in ColsOf(pair[i]) : c \in Blocked(Pairs, selected)
    BY <2>1, <2>2, RoundFacts DEF MatchInv, Launched
  <2>4. \E j \in selected : c \in ColsOf(pair[j])
    BY <2>3, BlockedBy DEF MatchInv, Launched
  <2> QED BY <2>4
<1> QED BY <1>1, MatchingInvariant, PTL
=============================================================================
