--------------------------- MODULE PairComponents ---------------------------
(***************************************************************************)
(* The two component rules of the bootstrap: rule_linf_components.cu and,  *)
(* when that one leaves the LP alone, rule_antipodal_components.cu.        *)
(*                                                                         *)
(* Both need an LP whose columns come in pairs p, p + k that every row     *)
(* uses with opposite coefficients.  A row x_p - x_{p+k} = x_q - x_{q+k}   *)
(* joins two pairs, a component of joined pairs becomes the one pair of    *)
(* its root, and postsolve copies the root back to the members.  The       *)
(* union-find itself is ComponentForest, whose RootsAreComponents says     *)
(* which parent it leaves: Root below.                                     *)
(*                                                                         *)
(* Rows are rewritten up to a nonzero factor (the code divides an equality *)
(* of the Linf rule by its first coefficient and weighs an epigraph row by *)
(* the square root of the component's size), and overflow is out of reach. *)
(***************************************************************************)
EXTENDS SmallLp

\* A sequence of families [pairs, pairKinds, tail, tailKinds, height, rowKinds]:
\* the LPs the rules may be given have some pairs, then some columns that are
\* no pair's, and rows of the given kinds.
CONSTANT Families

CONSTANTS
  MaxTail,         \* params.linf_max_tail_cols
  MaxTerms,        \* params.*_max_quotient_terms_per_row
  MinPairs,        \* params.*_min_pairs
  MinGainPercent   \* params.*_min_potential_gain and *_min_actual_gain

ASSUME PairsAssumption ==
  /\ \A q \in DOMAIN Families :
       LET f == Families[q]
       IN /\ f.pairs \in Nat \ {0} /\ f.tail \in Nat /\ 2 * f.pairs + f.tail <= N
          /\ f.height \in 0..M
  /\ {MaxTail, MaxTerms, MinPairs, MinGainPercent} \subseteq Nat

VARIABLES
  lp,     \* current.lp
  plan,   \* the plan of the rule that ran last
  stage   \* which rule comes next, or what came of them

vars == <<lp, plan, stage>>

-----------------------------------------------------------------------------
(* What a row looks like when the first 2 k columns are pairs.             *)

LpRows == DOMAIN lp.AL
LpCols == DOMAIN lp.c
Width == Cardinality(LpCols)
IsFeasible(x) == Satisfies(lp, LpRows, LpCols, x)
CostOf(x) == Activity(lp.c, x, LpCols)

Support(i) == {j \in LpCols : lp.a[i][j] # 0}
PlusCols(k, i) == Support(i) \cap 1..k
ValidSides(i) == lp.AL[i] <= lp.AU[i] /\ lp.AL[i] # Inf /\ lp.AU[i] # -Inf
\* Exactly opposite coefficients, and not too many.
IsPairRow(k, i) ==
  /\ PlusCols(k, i) # {} /\ Cardinality(PlusCols(k, i)) <= Min({MaxTerms, 6})
  /\ Support(i) = PlusCols(k, i) \cup {p + k : p \in PlusCols(k, i)}
  /\ \A p \in PlusCols(k, i) : lp.a[i][p + k] = -lp.a[i][p]

PairShift(k, p) == lp.l[p] - lp.l[p + k]
\* A row that says two pairs have the same difference; it merges them if their
\* lower bounds have the same difference too, and spoils the rule if not.
SaysEqual(k, i) ==
  /\ Cardinality(PlusCols(k, i)) = 2
  /\ lp.AL[i] = 0 /\ lp.AU[i] = 0
  /\ Sum(LAMBDA p : lp.a[i][p], PlusCols(k, i)) = 0
\* Mutant of MergesOrNot: the lower bounds are not compared.
MergesAnyway(k, i) == SaysEqual(k, i) => Cardinality(PlusCols(k, i)) = 2
MergesOrNot(k, i) ==
  SaysEqual(k, i) =>
    \A p, q \in PlusCols(k, i) : PairShift(k, p) = PairShift(k, q)
MergeRows(k) == {i \in LpRows : IsPairRow(k, i) /\ SaysEqual(k, i)}

ValidBounds(j) == IsFinite(lp.l[j]) /\ lp.l[j] <= lp.u[j]

\* Mutant of Component: only the pairs that share a row with it.
ComponentNear(k, p) ==
  {p} \cup UNION {PlusCols(k, i) : i \in {h \in MergeRows(k) : p \in PlusCols(k, h)}}
Component(k, p) ==
  LET grow(S) == S \cup UNION {PlusCols(k, i) : i \in {h \in MergeRows(k) : PlusCols(k, h) \cap S # {}}}
      grown[n \in 0..k] == IF n = 0 THEN {p} ELSE grow(grown[n - 1])
  IN grown[k]
\* The root of a pair is the smallest pair of its component.
Root(k, p) == Min(Component(k, p))
IsRoot(k, p) == Root(k, p) = p
Roots(k) == {p \in 1..k : IsRoot(k, p)}

\* The gates: enough merge rows, and enough pairs that may be and are saved.
Worthwhile(k) ==
  /\ Cardinality(MergeRows(k)) >= Max({1, MinPairs})
  /\ 100 * Min({Cardinality(MergeRows(k)), k - 1}) >= MinGainPercent * k
  /\ 100 * (k - Cardinality(Roots(k))) >= MinGainPercent * k

-----------------------------------------------------------------------------
(* The quotient of an ordinary row: its coefficients are added up per      *)
(* component, and terms that cancel are dropped.                           *)

\* Mutant of QuotientRow: the terms of the members are dropped.
QuotientRowOfRoots(k, i) ==
  [j \in LpCols |->
     IF j \in Roots(k) THEN lp.a[i][j]
     ELSE IF j \in k + 1..2 * k /\ j - k \in Roots(k) THEN -lp.a[i][j - k] ELSE 0]
QuotientRow(k, i) ==
  [j \in LpCols |->
     LET total(r) == Sum(LAMBDA p : IF p \in Component(k, r) THEN lp.a[i][p] ELSE 0, 1..k)
     IN IF j \in Roots(k) THEN total(j)
        ELSE IF j \in k + 1..2 * k /\ j - k \in Roots(k) THEN -total(j - k)
        ELSE 0]
RowShift(k, i) == Sum(LAMBDA p : lp.a[i][p] * PairShift(k, p), 1..k)
IsEmptyRow(coef) == \A j \in LpCols : coef[j] = 0

\* Root and lower bound per column of a pair, for postsolve.
Recovery(k, lower) ==
  [root |-> [j \in 1..2 * k |-> IF j <= k THEN Root(k, j) ELSE k + Root(k, j - k)],
   lower |-> lower]
NoRecovery == [root |-> << >>, lower |-> << >>]
Unchanged ==
  [a |-> lp.a, keepRow |-> LpRows, keepCol |-> LpCols, c |-> lp.c, l |-> lp.l, u |-> lp.u,
   AL |-> lp.AL, AU |-> lp.AU, delta |-> 0, recovery |-> NoRecovery, verdict |-> "none"]

\* The least of f over the component of the pair of column j, on j's side.
LeastOf(k, f, j) ==
  IF j <= k THEN Min({f[p] : p \in Component(k, j)})
  ELSE Min({f[p + k] : p \in Component(k, j - k)})

-----------------------------------------------------------------------------
(* rule_antipodal_components.cu: all columns are pairs, with one positive  *)
(* cost per pair.                                                          *)

AntipodalPair(k, p) ==
  /\ lp.c[p] > 0 /\ lp.c[p] = lp.c[p + k]
  /\ ValidBounds(p) /\ ValidBounds(p + k)
AntipodalApplies ==
  LET k == Width \div 2
  IN /\ Width = 2 * k
     /\ \A p \in 1..k : AntipodalPair(k, p) /\ \E i \in LpRows : p \in Support(i)
     /\ \A i \in LpRows : ValidSides(i) /\ IsPairRow(k, i) /\ MergesOrNot(k, i)
     /\ Worthwhile(k)

\* Mutant of PairCap: the root's own bounds stand for its component.
PairCapOfRoot(k, j) == Minus(lp.u[j], lp.l[j])
PairCap(k, j) == LeastOf(k, [h \in LpCols |-> Minus(lp.u[h], lp.l[h])], j)
\* Mutant of ComponentRho: the members' costs are not added.
ComponentRhoOfRoot(k, r) == lp.c[r]
ComponentRho(k, r) ==
  Sum(LAMBDA p : IF p \in Component(k, r) THEN lp.c[p] ELSE 0, 1..k)

ShiftedSide(k, side, i) == Minus(side, RowShift(k, i))

\* The root slots hold what is above the lower bounds.
RootSlots(k) == Roots(k) \cup {r + k : r \in Roots(k)}
AntipodalMatrix(k) == [i \in LpRows |-> QuotientRow(k, i)]
\* The ordinary rows whose terms all cancel, and those that cannot hold then.
AntipodalEmpty(k) == {i \in LpRows \ MergeRows(k) : IsEmptyRow(QuotientRow(k, i))}
AntipodalImpossible(k) ==
  {i \in AntipodalEmpty(k) : ShiftedSide(k, lp.AL[i], i) > 0 \/ ShiftedSide(k, lp.AU[i], i) < 0}

AntipodalPlan ==
  LET k == Width \div 2
      slots == RootSlots(k)
  IN IF AntipodalImpossible(k) # {}
     THEN [Unchanged EXCEPT !.verdict = "infeasible"]
     ELSE [a |-> AntipodalMatrix(k),
           keepRow |-> LpRows \ (MergeRows(k) \cup AntipodalEmpty(k)),
           keepCol |-> slots,
           c |-> [j \in LpCols |-> IF j \in slots
                    THEN ComponentRho(k, IF j <= k THEN j ELSE j - k) ELSE lp.c[j]],
           l |-> [j \in LpCols |-> IF j \in slots THEN 0 ELSE lp.l[j]],
           u |-> [j \in LpCols |-> IF j \in slots THEN PairCap(k, j) ELSE lp.u[j]],
           AL |-> [i \in LpRows |-> ShiftedSide(k, lp.AL[i], i)],
           AU |-> [i \in LpRows |-> ShiftedSide(k, lp.AU[i], i)],
           delta |-> Sum(LAMBDA p : lp.c[p] * (lp.l[p] + lp.l[p + k]), 1..k),
           recovery |-> Recovery(k, lp.l),
           verdict |-> "none"]

-----------------------------------------------------------------------------
(* rule_linf_components.cu: pairs without cost, each bounded by one        *)
(* epigraph row -g x_p - g x_{p+k} + h t >= b, and columns t with a cost.  *)

\* infer_linf_layout: the tail is the suffix of columns with a cost.
TailLengths ==
  {t \in 1..Min({MaxTail, 8, Width - 1}) :
     /\ \A j \in Width - t + 1..Width : lp.c[j] > 0
     /\ lp.c[Width - t] = 0
     /\ (Width - t) % 2 = 0 /\ (Width - t) \div 2 >= Max({1, MinPairs})}
LinfPairs == (Width - Min(TailLengths)) \div 2

\* A row with three entries is the epigraph row of pair p.
EpigraphOf(k, i, p) ==
  /\ \E t \in 2 * k + 1..Width : Support(i) = {p, p + k, t} /\ lp.a[i][t] > 0
  /\ lp.a[i][p] < 0 /\ lp.a[i][p + k] = lp.a[i][p]
  /\ IsFinite(lp.AL[i]) /\ lp.AU[i] = Inf
EpigraphRows(k, p) == {i \in LpRows : EpigraphOf(k, i, p)}
EpigraphRow(k, p) == CHOOSE i \in EpigraphRows(k, p) : TRUE

\* Members and root agree on bounds and epigraph row.
SameEpigraph(k, p, r) ==
  LET i == EpigraphRow(k, p)
      h == EpigraphRow(k, r)
  IN /\ lp.l[p] = lp.l[r] /\ lp.l[p + k] = lp.l[r + k]
     /\ lp.a[i][p] = lp.a[h][r]
     /\ \A t \in 2 * k + 1..Width : lp.a[i][t] = lp.a[h][t]
     /\ lp.AL[i] = lp.AL[h]
Agree(k) ==
  \A p \in 1..k : SameEpigraph(k, p, Root(k, p))

\* Mutant of ComponentUpper: the root's bound stands for its component.
ComponentUpperOfRoot(k, j) == lp.u[j]
ComponentUpper(k, j) == LeastOf(k, lp.u, j)
LinfRowsOk(k) ==
  /\ \A i \in LpRows :
       /\ ValidSides(i)
       /\ IF Cardinality(Support(i)) = 3 THEN \E p \in 1..k : EpigraphOf(k, i, p)
          ELSE IsPairRow(k, i) /\ MergesOrNot(k, i)
  /\ \A p \in 1..k : Cardinality(EpigraphRows(k, p)) = 1
LinfColumnsOk(k) ==
  /\ \A p \in 1..k : /\ lp.c[p] = 0 /\ lp.c[p + k] = 0
                     /\ ValidBounds(p) /\ ValidBounds(p + k)
  /\ \A t \in 2 * k + 1..Width : lp.l[t] <= lp.u[t] /\ lp.l[t] # Inf /\ lp.u[t] # -Inf
\* The probe, of which all but the degree is verified again.
LinfProbe(k) == \A p \in 1..k : Cardinality({i \in LpRows : p \in Support(i)}) >= 2
LinfCapsOk(k) == \A j \in RootSlots(k) : ComponentUpper(k, j) >= lp.l[j]
LinfApplies ==
  /\ TailLengths # {}
  /\ LET k == LinfPairs
     IN LinfProbe(k) /\ LinfColumnsOk(k) /\ LinfRowsOk(k) /\ Worthwhile(k) /\ Agree(k) /\ LinfCapsOk(k)

\* The columns stay in their own coordinates, and a root with equal bounds is
\* dropped like its members.
LinfKept(k) == {j \in RootSlots(k) : ComponentUpper(k, j) > lp.l[j]} \cup 2 * k + 1..Width
Epigraphs(k, pairs) == UNION {EpigraphRows(k, p) : p \in pairs}
LinfMatrix(k) ==
  [i \in LpRows |-> IF i \in Epigraphs(k, 1..k) THEN lp.a[i] ELSE QuotientRow(k, i)]
\* Ordinary rows whose terms cancel; one root's epigraph row stands for all.
LinfEmpty(k) ==
  {i \in LpRows \ (MergeRows(k) \cup Epigraphs(k, 1..k)) : IsEmptyRow(QuotientRow(k, i))}
LinfDropped(k) == MergeRows(k) \cup Epigraphs(k, 1..k \ Roots(k)) \cup LinfEmpty(k)

LinfPlan ==
  LET k == LinfPairs
  IN IF \E i \in LinfEmpty(k) : lp.AL[i] > 0 \/ lp.AU[i] < 0
     THEN [Unchanged EXCEPT !.verdict = "infeasible"]
     ELSE [Unchanged EXCEPT
            !.a = LinfMatrix(k),
            !.keepRow = LpRows \ LinfDropped(k),
            !.keepCol = LinfKept(k),
            !.u = [j \in LpCols |-> IF j \in RootSlots(k) THEN ComponentUpper(k, j) ELSE @[j]],
            !.recovery = Recovery(k, [j \in 1..2 * k |-> 0])]

-----------------------------------------------------------------------------
Init ==
  /\ \E q \in DOMAIN Families :
       LET f == Families[q]
       IN \E pair \in [1..f.pairs -> f.pairKinds], tail \in [1..f.tail -> f.tailKinds],
             row \in [1..f.height -> f.rowKinds] :
            LET column == [j \in 1..2 * f.pairs + f.tail |->
                             IF j <= f.pairs THEN pair[j].plus
                             ELSE IF j <= 2 * f.pairs THEN pair[j - f.pairs].minus
                             ELSE tail[j - 2 * f.pairs]]
            IN lp = [a |-> [i \in 1..f.height |-> row[i].coef],
                     c |-> [j \in DOMAIN column |-> column[j].c],
                     l |-> [j \in DOMAIN column |-> column[j].l],
                     u |-> [j \in DOMAIN column |-> column[j].u],
                     AL |-> [i \in 1..f.height |-> row[i].AL],
                     AU |-> [i \in 1..f.height |-> row[i].AU]]
  /\ plan = Unchanged
  /\ stage = "linf"

Outcome(p, name) == IF p.verdict = "none" THEN name ELSE "terminal"

\* analyze_linf_components and, on an accepted LP, build and commit.
LinfPhase ==
  /\ stage = "linf"
  /\ IF LinfApplies
     THEN plan' = LinfPlan /\ stage' = Outcome(plan', "linfApplied")
     ELSE UNCHANGED plan /\ stage' = "antipodal"
  /\ UNCHANGED lp
\* The same of the antipodal rule, only when the first changed nothing.
AntipodalPhase ==
  /\ stage = "antipodal"
  /\ IF AntipodalApplies
     THEN plan' = AntipodalPlan /\ stage' = Outcome(plan', "antipodalApplied")
     ELSE UNCHANGED plan /\ stage' = "unchanged"
  /\ UNCHANGED lp
\* time_exceeded() before a phase.
Expire ==
  /\ stage \in {"linf", "antipodal"}
  /\ stage' = "unchanged"
  /\ UNCHANGED <<lp, plan>>

Next == LinfPhase \/ AntipodalPhase \/ Expire
Spec == Init /\ [][Next]_vars
-----------------------------------------------------------------------------
(* Properties.                                                             *)

Applied == stage \in {"linfApplied", "antipodalApplied"}
\* Bound: points are looked for in -1..Box.
SmallPoints == [LpCols -> -1..Box]
ReducedPoints ==
  {z \in SmallPoints : /\ \A j \in LpCols \ plan.keepCol : z[j] = 0
                       /\ Satisfies(plan, plan.keepRow, plan.keepCol, z)}
\* What postsolve returns for z: the kept columns, the removed columns with
\* equal bounds, then all pairs from the cached values of their roots.
Recovered(z) ==
  LET base == [j \in LpCols |-> IF j \in plan.keepCol THEN z[j]
                              ELSE IF plan.l[j] = plan.u[j] THEN plan.l[j] ELSE 0]
  IN [j \in LpCols |-> IF j \in DOMAIN plan.recovery.root
                     THEN plan.recovery.lower[j] + base[plan.recovery.root[j]] ELSE base[j]]

\* "Exact primal recovery": copying each root to its members, on top of their
\* own lower bounds, gives a point of the LP for every point of the quotient,
\* and it costs what the quotient says it costs.
RecoversFeasible ==
  Applied => \A z \in ReducedPoints :
    /\ IsFeasible(Recovered(z))
    /\ CostOf(Recovered(z)) = Activity(plan.c, z, plan.keepCol) + plan.delta

\* No better optimum is lost.  A point whose members differ has no image of its
\* own: the quotient only has one that costs no more, because each pair may go
\* down together without changing any difference.  An LP called infeasible has
\* no point.
NoBetterOptimumLost ==
  /\ Applied => \A x \in SmallPoints : IsFeasible(x) =>
       \E z \in ReducedPoints :
         Activity(plan.c, z, plan.keepCol) + plan.delta <= CostOf(x)
  /\ stage = "terminal" => \A x \in SmallPoints : ~IsFeasible(x)
=============================================================================
