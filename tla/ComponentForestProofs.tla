----------------------- MODULE ComponentForestProofs -----------------------
(***************************************************************************)
(* For every number of pairs and edges, every interleaving of the threads  *)
(* and every stale load: the parent forest of ComponentForest descends,    *)
(* its trees are only ever merged along an edge, and after both kernels    *)
(* every pair stores the smallest pair of its component.                   *)
(*                                                                         *)
(* The first half needs only the order of the indices (IInv).  The second  *)
(* relates every thread to the trees (ForestInv): what a cell ever held    *)
(* lies in its tree, so a stale load can lead a search astray only within  *)
(* the tree it is in, and a swap succeeds only on a value that is current. *)
(***************************************************************************)
EXTENDS ComponentForest, IndexLemmas

\* What the thread of index t may believe.  A value it loaded is one its cell
\* held, and in the compress kernel it only walks down from its own pair.
Descending(t, th) ==
  /\ th \in Locals
  /\ th.pc \in {"loadNext", "halve"} => th.next <= th.current
  /\ th.pc = "halve" => th.grand <= th.next
  /\ kernel = "compress" => t \in Pairs /\ th.current <= t
  /\ th.pc = "store" => kernel = "compress" /\ th.rootU <= t
  /\ th.pc = "hook" => kernel = "union"

IInv ==
  /\ TypeOK
  /\ \A v \in Pairs : parent[v] \in held[v]
  /\ \A v \in Pairs : \A w \in held[v] : w <= v
  /\ kernel # "done" => \A t \in Threads : Descending(t, thread[t])

\* The smaller and the larger of two numbers.
LEMMA Extremes ==
  ASSUME NEW a \in Int, NEW b \in Int
  PROVE  /\ Max({a, b}) \in {a, b} /\ \A y \in {a, b} : Max({a, b}) >= y
         /\ Min({a, b}) \in {a, b} /\ \A y \in {a, b} : Min({a, b}) =< y
         /\ Min({a, b}) <= Max({a, b})
<1>1. \E x \in {a, b} : \A y \in {a, b} : x >= y
  BY SMT
<1>2. \E x \in {a, b} : \A y \in {a, b} : x =< y
  BY SMT
<1>3. Max({a, b}) \in {a, b} /\ \A y \in {a, b} : Max({a, b}) >= y
  BY <1>1 DEF Max
<1>4. Min({a, b}) \in {a, b} /\ \A y \in {a, b} : Min({a, b}) =< y
  BY <1>2 DEF Min
<1> QED BY <1>3, <1>4

\* A write of a value no larger than its cell keeps the forest.
LEMMA WriteDescends ==
  ASSUME IInv, NEW v \in Pairs, NEW value \in Pairs, value <= v, Write(v, value)
  PROVE  /\ parent' \in [Pairs -> Pairs] /\ held' \in [Pairs -> SUBSET Pairs]
         /\ \A x \in Pairs : parent'[x] \in held'[x]
         /\ \A x \in Pairs : \A w \in held'[x] : w <= x
<1>1. /\ parent \in [Pairs -> Pairs] /\ held \in [Pairs -> SUBSET Pairs]
      /\ \A x \in Pairs : parent[x] \in held[x]
      /\ \A x \in Pairs : \A w \in held[x] : w <= x
  BY DEF IInv, TypeOK
<1>2. /\ parent' = [parent EXCEPT ![v] = value]
      /\ \A x \in Pairs : held'[x] = IF x = v THEN held[v] \cup {value} ELSE held[x]
      /\ held' \in [Pairs -> SUBSET Pairs]
  BY <1>1 DEF Write
<1> QED BY <1>1, <1>2

\* The same of a compare-and-swap, whatever it finds.
LEMMA SwapDescends ==
  ASSUME IInv, NEW v \in Pairs, NEW expected, NEW value \in Pairs, value <= v,
         CompareAndSwap(v, expected, value)
  PROVE  /\ parent' \in [Pairs -> Pairs] /\ held' \in [Pairs -> SUBSET Pairs]
         /\ \A x \in Pairs : parent'[x] \in held'[x]
         /\ \A x \in Pairs : \A w \in held'[x] : w <= x
<1>1. CASE parent[v] = expected
  BY <1>1, WriteDescends DEF CompareAndSwap
<1>2. CASE parent[v] # expected
  BY <1>2 DEF CompareAndSwap, IInv, TypeOK
<1> QED BY <1>1, <1>2

\* A loaded value is no larger than its cell.
LEMMA LoadDescends ==
  ASSUME IInv, NEW v \in Pairs, NEW w \in held[v]
  PROVE  w \in Pairs /\ w <= v
BY DEF IInv, TypeOK

\* A search that ends leaves the thread descending.
LEMMA FoundDescends ==
  ASSUME IInv, NEW t \in Threads, NEW th \in Locals, NEW root \in Pairs,
         kernel = "compress" => t \in Pairs /\ root <= t /\ th.current <= t,
         kernel # "done"
  PROVE  Descending(t, Found(t, th, root))
<1> PairCount \in Nat /\ edge \in [EdgeRows -> Pairs \X Pairs]
  BY ForestAssumption DEF IInv, TypeOK
<1>1. CASE kernel = "compress"
  BY <1>1 DEF Found, Descending, Locals
<1>2. CASE kernel # "compress" /\ th.from = "u"
  <2>1. t \in EdgeRows
    BY <1>2 DEF Threads
  <2>2. edge[t][2] \in Pairs
    BY <2>1
  <2> QED BY <1>2, <2>2 DEF Found, Descending, Locals, Searching, Pairs
<1>3. CASE kernel # "compress" /\ th.from # "u"
  <2>1. kernel = "union"
    BY <1>3 DEF IInv, TypeOK
  <2> QED BY <1>3, <2>1 DEF Found, Descending, Locals
<1> QED BY <1>1, <1>2, <1>3

\* What is left to show of a step of one thread.
LEMMA OneThreadSteps ==
  ASSUME IInv, kernel # "done", NEW t \in Threads, NEW th,
         thread' = [thread EXCEPT ![t] = th], Descending(t, th),
         UNCHANGED <<edge, kernel>>,
         parent' \in [Pairs -> Pairs] /\ held' \in [Pairs -> SUBSET Pairs],
         \A x \in Pairs : parent'[x] \in held'[x],
         \A x \in Pairs : \A w \in held'[x] : w <= x
  PROVE  IInv'
<1>1. Threads' = Threads
  BY DEF Threads
<1>2. thread' \in [Threads -> Locals]
  BY DEF IInv, TypeOK, Descending
<1>3. \A s \in Threads : Descending(s, thread'[s])
  BY DEF IInv, TypeOK
<1>5. TypeOK'
  BY <1>1, <1>2 DEF IInv, TypeOK
<1>6. (\A s \in Threads : Descending(s, thread[s]))'
  BY <1>1, <1>3 DEF Descending
<1> QED BY <1>5, <1>6 DEF IInv

\* The facts about the stepping thread that every action starts from.
LEMMA ThreadFacts ==
  ASSUME IInv, kernel # "done", NEW t \in Threads
  PROVE  /\ Descending(t, thread[t]) /\ thread[t] \in Locals
         /\ thread[t].current \in Pairs /\ thread[t].next \in Pairs
         /\ thread[t].grand \in Pairs
         /\ thread[t].rootU \in Pairs /\ thread[t].rootV \in Pairs
BY DEF IInv, Descending, Locals

\* A step that writes nothing but its own locals.
LEMMA LocalStep ==
  ASSUME IInv, kernel # "done", NEW t \in Threads, NEW th,
         thread' = [thread EXCEPT ![t] = th], Descending(t, th),
         UNCHANGED <<edge, kernel, parent, held>>
  PROVE  IInv'
<1>1. /\ parent' \in [Pairs -> Pairs] /\ held' \in [Pairs -> SUBSET Pairs]
      /\ \A x \in Pairs : parent'[x] \in held'[x]
      /\ \A x \in Pairs : \A w \in held'[x] : w <= x
  BY DEF IInv, TypeOK
<1>2. UNCHANGED <<edge, kernel>>
  OBVIOUS
<1> QED BY <1>1, <1>2, OneThreadSteps

\* Each action of a thread keeps the invariant.
LEMMA StepKeeps ==
  ASSUME IInv, kernel # "done", NEW t \in Threads, Step(t)
  PROVE  IInv'
<1> DEFINE th == thread[t]
<1>0. /\ Descending(t, th) /\ th \in Locals
      /\ th.current \in Pairs /\ th.next \in Pairs /\ th.grand \in Pairs
      /\ th.rootU \in Pairs /\ th.rootV \in Pairs
  BY ThreadFacts DEF th
<1>i. \A x \in Pairs : x \in Int
  BY ForestAssumption DEF Pairs
<1>j. /\ th.current \in Int /\ th.next \in Int /\ th.grand \in Int
      /\ th.rootU \in Int /\ th.rootV \in Int
  BY <1>0, <1>i
<1> HIDE DEF th
<1>1. CASE LoadParent(t)
  <2>1. PICK v \in held[th.current] :
          thread' = [thread EXCEPT ![t] = [th EXCEPT !.pc = "loadNext", !.next = v]]
    BY <1>1 DEF LoadParent, th
  <2>2. v \in Pairs /\ v <= th.current
    BY <1>0, LoadDescends
  <2>3. Descending(t, [th EXCEPT !.pc = "loadNext", !.next = v])
    BY <1>0, <2>2 DEF Descending, Locals
  <2> QED BY <1>1, <2>1, <2>3, LocalStep DEF LoadParent
<1>2. CASE LoadGrandparent(t)
  <2>1. PICK v \in held[th.next] :
          thread' = [thread EXCEPT ![t] =
            IF v = th.next /\ th.current = th.next THEN Found(t, th, th.next)
            ELSE [th EXCEPT !.pc = "halve", !.grand = v]]
    BY <1>2 DEF LoadGrandparent, th
  <2>2. v \in Pairs /\ v <= th.next /\ th.pc = "loadNext" /\ th.next <= th.current
    BY <1>0, <1>2, LoadDescends DEF LoadGrandparent, th, Descending
  <2>3. CASE v = th.next /\ th.current = th.next
    <3>1. kernel = "compress" => t \in Pairs /\ th.next <= t /\ th.current <= t
      BY <1>0, <2>3 DEF Descending
    <3>2. Descending(t, Found(t, th, th.next))
      BY <1>0, <3>1, FoundDescends
    <3> QED BY <1>2, <2>1, <2>3, <3>2, LocalStep DEF LoadGrandparent
  <2>4. CASE ~(v = th.next /\ th.current = th.next)
    <3>1. Descending(t, [th EXCEPT !.pc = "halve", !.grand = v])
      BY <1>0, <2>2 DEF Descending, Locals
    <3> QED BY <1>2, <2>1, <2>4, <3>1, LocalStep DEF LoadGrandparent
  <2> QED BY <2>3, <2>4
<1>3. CASE Halve(t)
  <2>1. /\ th.pc = "halve" /\ CompareAndSwap(th.current, th.next, th.grand)
        /\ thread' = [thread EXCEPT ![t] =
             IF th.next = th.grand THEN Found(t, th, th.next)
             ELSE [th EXCEPT !.pc = "load", !.current = th.grand]]
        /\ UNCHANGED <<edge, kernel>>
    BY <1>3 DEF Halve, th
  <2>2. th.next <= th.current /\ th.grand <= th.next
    BY <1>0, <2>1 DEF Descending
  <2>3. th.grand <= th.current
    BY <1>j, <2>2
  <2>4. /\ parent' \in [Pairs -> Pairs] /\ held' \in [Pairs -> SUBSET Pairs]
        /\ \A x \in Pairs : parent'[x] \in held'[x]
        /\ \A x \in Pairs : \A w \in held'[x] : w <= x
    BY <1>0, <2>1, <2>3, SwapDescends
  <2>5. kernel = "compress" => t \in Pairs /\ th.current <= t /\ th.next <= t /\ th.grand <= t
    <3> SUFFICES ASSUME kernel = "compress"
                 PROVE  t \in Pairs /\ th.current <= t /\ th.next <= t /\ th.grand <= t
      OBVIOUS
    <3>1. t \in Pairs /\ th.current <= t
      BY <1>0 DEF Descending
    <3>2. t \in Int
      BY <3>1, <1>i
    <3> QED BY <1>j, <2>2, <2>3, <3>1, <3>2
  <2>6. CASE th.next = th.grand
    <3>1. Descending(t, Found(t, th, th.next))
      BY <1>0, <2>5, FoundDescends
    <3> QED BY <2>1, <2>4, <2>6, <3>1, OneThreadSteps
  <2>7. CASE th.next # th.grand
    <3>1. Descending(t, [th EXCEPT !.pc = "load", !.current = th.grand])
      BY <1>0, <2>5 DEF Descending, Locals
    <3> QED BY <2>1, <2>4, <2>7, <3>1, OneThreadSteps
  <2> QED BY <2>6, <2>7
<1>4. CASE Hook(t)
  <2>1. High(t) \in Pairs /\ Low(t) \in Pairs /\ Low(t) <= High(t)
    <3>1. High(t) = Max({th.rootU, th.rootV}) /\ Low(t) = Min({th.rootU, th.rootV})
      BY DEF High, Low, th
    <3> QED BY <1>0, <1>j, <3>1, Extremes
  <2>2. /\ parent' \in [Pairs -> Pairs] /\ held' \in [Pairs -> SUBSET Pairs]
        /\ \A x \in Pairs : parent'[x] \in held'[x]
        /\ \A x \in Pairs : \A w \in held'[x] : w <= x
    BY <1>4, <2>1, SwapDescends DEF Hook
  <2>3. /\ th.pc = "hook" /\ UNCHANGED <<edge, kernel>>
        /\ thread' = [thread EXCEPT ![t] = IF parent[High(t)] = High(t)
             THEN [th EXCEPT !.pc = "end"] ELSE Searching(edge[t][1], "u", edge[t][1])]
    BY <1>4 DEF Hook, th
  <2>4. Descending(t, [th EXCEPT !.pc = "end"])
    BY <1>0 DEF Descending, Locals
  <2>5. kernel # "compress"
    BY <1>0, <2>3 DEF Descending, IInv
  <2>6. edge[t][1] \in Pairs
    BY <2>5 DEF Threads, IInv, TypeOK
  <2>7. Descending(t, Searching(edge[t][1], "u", edge[t][1]))
    BY <1>0, <2>5, <2>6 DEF Descending, Searching, Locals
  <2>8. CASE parent[High(t)] = High(t)
    BY <2>2, <2>3, <2>4, <2>8, OneThreadSteps
  <2>9. CASE parent[High(t)] # High(t)
    BY <2>2, <2>3, <2>7, <2>9, OneThreadSteps
  <2> QED BY <2>8, <2>9
<1>5. CASE StoreRoot(t)
  <2>1. /\ th.pc = "store" /\ Write(t, th.rootU) /\ UNCHANGED <<edge, kernel>>
        /\ thread' = [thread EXCEPT ![t] = [th EXCEPT !.pc = "end"]]
    BY <1>5 DEF StoreRoot, th
  <2>2. t \in Pairs /\ th.rootU <= t
    BY <1>0, <2>1 DEF Descending
  <2>3. /\ parent' \in [Pairs -> Pairs] /\ held' \in [Pairs -> SUBSET Pairs]
        /\ \A x \in Pairs : parent'[x] \in held'[x]
        /\ \A x \in Pairs : \A w \in held'[x] : w <= x
    BY <1>0, <2>1, <2>2, WriteDescends
  <2>4. Descending(t, [th EXCEPT !.pc = "end"])
    BY <1>0 DEF Descending, Locals
  <2> QED BY <2>1, <2>3, <2>4, OneThreadSteps
<1> QED BY <1>1, <1>2, <1>3, <1>4, <1>5 DEF Step

\* A kernel boundary keeps it too.
LEMMA NextKernelKeeps ==
  ASSUME IInv, NextKernel
  PROVE  IInv'
<1> PairCount \in Nat /\ Pairs \subseteq Nat
  BY ForestAssumption DEF Pairs
<1>1. /\ parent' \in [Pairs -> Pairs] /\ held' \in [Pairs -> SUBSET Pairs]
      /\ \A v \in Pairs : held'[v] = {parent'[v]} /\ parent'[v] <= v
      /\ edge' \in [EdgeRows -> Pairs \X Pairs]
  BY DEF NextKernel, IInv, TypeOK
<1>2. CASE kernel = "union"
  <2>1. kernel' = "compress" /\ Threads' = Pairs
        /\ thread' = [v \in Pairs |-> Searching(v, "u", v)]
    BY <1>2 DEF NextKernel, Threads
  <2>2. \A v \in Pairs : thread'[v] \in Locals
    BY <2>1 DEF Searching, Locals
  <2>3. thread' \in [Pairs -> Locals]
    BY <2>1, <2>2
  <2>4. \A v \in Pairs : v <= v
    OBVIOUS
  <2>5. \A v \in Pairs : thread'[v].pc = "load" /\ thread'[v].current = v
    BY <2>1 DEF Searching
  <2>6. (\A v \in Threads : Descending(v, thread[v]))'
    BY <2>1, <2>2, <2>4, <2>5 DEF Descending
  <2> QED BY <1>1, <2>1, <2>3, <2>6 DEF IInv, TypeOK
<1>3. CASE kernel # "union"
  <2>1. kernel' = "done"
    BY <1>3 DEF NextKernel
  <2> QED BY <1>1, <2>1 DEF IInv, TypeOK
<1> QED BY <1>2, <1>3

\* Caches that catch up only rule out values.
LEMMA PublishKeeps ==
  ASSUME IInv, NEW u \in Pairs, Publish(u)
  PROVE  IInv'
<1>1. /\ parent' = parent /\ edge' = edge /\ kernel' = kernel /\ thread' = thread
      /\ held' = [held EXCEPT ![u] = {parent[u]}]
  BY DEF Publish
<1>2. /\ parent \in [Pairs -> Pairs] /\ held \in [Pairs -> SUBSET Pairs]
      /\ \A x \in Pairs : parent[x] \in held[x]
      /\ \A x \in Pairs : \A w \in held[x] : w <= x
  BY DEF IInv, TypeOK
<1>3. /\ held' \in [Pairs -> SUBSET Pairs]
      /\ \A x \in Pairs : held'[x] \subseteq held[x] /\ parent[x] \in held'[x]
  BY <1>1, <1>2
<1>4. Threads' = Threads
  BY <1>1 DEF Threads
<1>5. TypeOK'
  BY <1>1, <1>3, <1>4 DEF IInv, TypeOK
<1>6. (kernel # "done" => \A t \in Threads : Descending(t, thread[t]))'
  BY <1>1, <1>4 DEF IInv, Descending
<1> QED BY <1>1, <1>2, <1>3, <1>5, <1>6 DEF IInv

LEMMA InitHolds == Init => IInv
<1> SUFFICES ASSUME Init PROVE IInv
  OBVIOUS
<1> PairCount \in Nat /\ Pairs \subseteq Nat
  BY ForestAssumption DEF Pairs
<1>1. edge \in [EdgeRows -> Pairs \X Pairs] /\ kernel = "union" /\ Threads = EdgeRows
  BY DEF Init, Threads
<1>2. \A t \in EdgeRows : thread[t] \in Locals
  BY <1>1 DEF Init, Searching, Locals
<1>3. thread \in [EdgeRows -> Locals]
  BY <1>2 DEF Init
<1>4. \A t \in EdgeRows : Descending(t, thread[t])
  BY <1>1, <1>2 DEF Init, Descending, Searching
<1> QED BY <1>1, <1>3, <1>4 DEF Init, IInv, TypeOK

LEMMA NextKeeps == IInv /\ [Next]_vars => IInv'
<1> SUFFICES ASSUME IInv, [Next]_vars PROVE IInv'
  OBVIOUS
<1>1. CASE kernel # "done" /\ \E t \in Threads : Step(t)
  BY <1>1, StepKeeps
<1>2. CASE NextKernel
  BY <1>2, NextKernelKeeps
<1>3. CASE \E v \in Pairs : Publish(v)
  BY <1>3, PublishKeeps
<1>4. CASE UNCHANGED vars
  BY <1>4 DEF vars, IInv, TypeOK, Threads, Descending
<1> QED BY <1>1, <1>2, <1>3, <1>4 DEF Next, Done

\* Every variable of the union-find keeps its type.
THEOREM ForestTyped == Spec => []TypeOK
<1>1. IInv => TypeOK
  BY DEF IInv
<1> QED BY <1>1, InitHolds, NextKeeps, PTL DEF Spec

\* _find_component_root_compress may walk without an iteration cap: for every
\* graph, schedule and stale load, no parent is above its child.
THEOREM ForestAlwaysDescends == Spec => []ForestDescends
<1>1. IInv => ForestDescends
  BY DEF IInv, ForestDescends
<1> QED BY <1>1, InitHolds, NextKeeps, PTL DEF Spec

-----------------------------------------------------------------------------
(* Roots.  Climb(p, v) is RootOf(v) in the forest p.                       *)

Climb(p, v) ==
  LET up[n \in 0..PairCount] == IF n = 0 THEN v ELSE p[up[n - 1]]
  IN up[PairCount]
Ups(p, v, f) == f = [n \in 0..PairCount |-> IF n = 0 THEN v ELSE p[f[n - 1]]]
Up(p, v) == CHOOSE f : Ups(p, v, f)
\* A root is its own parent; in a forest no parent is above its child.
IsRoot(p, v) == p[v] = v
Forest(p) == p \in [Pairs -> Pairs] /\ \A v \in Pairs : p[v] <= v

LEMMA ClimbIs == ASSUME NEW p, NEW v PROVE Climb(p, v) = Up(p, v)[PairCount]
BY DEF Climb, Up, Ups

LEMMA UpExists ==
  ASSUME NEW p \in [Pairs -> Pairs], NEW v \in Pairs
  PROVE  /\ Up(p, v)[0] = v
         /\ \A n \in 0..PairCount : Up(p, v)[n] \in Pairs
         /\ \A n \in 0..PairCount : n < PairCount => Up(p, v)[n + 1] = p[Up(p, v)[n]]
<1> PairCount \in Nat
  BY ForestAssumption
<1>1. PICK f : Iterates(Pairs, p, v, PairCount, f)
  BY IteratesExist
<1>2. /\ f \in [0..PairCount -> Pairs]
      /\ \A n \in 0..PairCount : f[n] = IF n = 0 THEN v ELSE p[f[n - 1]]
  BY <1>1 DEF Iterates
<1>3. Ups(p, v, f)
  BY <1>2 DEF Ups
<1>4. Ups(p, v, Up(p, v))
  BY <1>3 DEF Up
<1> DEFINE g == Up(p, v)
<1>5. /\ \A n \in 0..PairCount : g[n] = IF n = 0 THEN v ELSE p[g[n - 1]]
  BY <1>4 DEF Ups
<1> HIDE DEF g
<1>6. \A n \in 0..PairCount : n < PairCount =>
         n + 1 \in 0..PairCount /\ n + 1 # 0 /\ (n + 1) - 1 = n
  OBVIOUS
<1>7. g[0] = v /\ f[0] = v
  BY <1>2, <1>5
<1>8. /\ \A n \in 0..PairCount : n < PairCount => g[n + 1] = p[g[n]]
      /\ \A n \in 0..PairCount : n < PairCount => f[n + 1] = p[f[n]]
  BY <1>2, <1>5, <1>6
<1>9. \A n \in 0..PairCount : f[n] = g[n]
  BY <1>7, <1>8, IteratesAgree
<1> QED BY <1>2, <1>7, <1>8, <1>9 DEF g

\* Climbing ends at a root, which lies below everything on the way.
LEMMA ClimbRoot ==
  ASSUME NEW p, Forest(p), NEW v \in Pairs
  PROVE  /\ Climb(p, v) \in Pairs /\ Climb(p, v) <= v
         /\ p[Climb(p, v)] = Climb(p, v)
<1> DEFINE f == Up(p, v)
           Good == {n \in 0..PairCount : f[n] <= v /\ (p[f[n]] = f[n] \/ f[n] <= v - n)}
<1>0. PairCount \in Nat /\ Pairs \subseteq Nat /\ v <= PairCount
      /\ p \in [Pairs -> Pairs] /\ \A w \in Pairs : p[w] <= w
  BY ForestAssumption DEF Pairs, Forest
<1>1. /\ f[0] = v /\ \A n \in 0..PairCount : f[n] \in Pairs
      /\ \A n \in 0..PairCount : n < PairCount => f[n + 1] = p[f[n]]
  BY <1>0, UpExists
<1> HIDE DEF f
<1>2. Good \in SUBSET (0..PairCount) /\ 0 \in Good
  BY <1>0, <1>1
<1>3. ASSUME NEW n \in Good, n < PairCount PROVE n + 1 \in Good
  <2>1. /\ n \in 0..PairCount /\ f[n] \in Pairs /\ f[n] <= v
        /\ p[f[n]] = f[n] \/ f[n] <= v - n
        /\ f[n + 1] = p[f[n]] /\ p[f[n]] <= f[n] /\ p[f[n]] \in Pairs
    BY <1>0, <1>1, <1>3
  <2> HIDE DEF Good
  <2>2. f[n] \in Nat /\ p[f[n]] \in Nat /\ n \in Nat /\ v \in Nat
    <3>1. \A w \in Pairs : w \in Nat
      BY <1>0
    <3> QED BY <2>1, <3>1
  <2> USE DEF Good
  <2>3. CASE p[f[n]] = f[n]
    BY <1>0, <2>1, <2>2, <2>3, <1>3
  <2>4. CASE p[f[n]] # f[n]
    <3>1. f[n + 1] <= v - (n + 1) /\ f[n + 1] <= v
      BY <2>1, <2>2, <2>4
    <3> QED BY <1>0, <1>3, <2>1, <3>1
  <2> QED BY <2>3, <2>4
<1>4. Good = 0..PairCount
  <2> HIDE DEF Good
  <2> QED BY <1>0, <1>2, <1>3, IntervalInduction
<1>5. PairCount \in Good /\ f[PairCount] \in Pairs
  BY <1>0, <1>1, <1>4
<1>6. p[f[PairCount]] = f[PairCount] /\ f[PairCount] <= v
  <2>1. f[PairCount] \in Nat /\ f[PairCount] >= 1 /\ v \in Nat
    BY <1>0, <1>5 DEF Pairs
  <2> QED BY <1>0, <1>5, <2>1
<1> QED BY <1>5, <1>6, ClimbIs DEF f

\* The equation of RootOf.
ClimbsRightly(p) ==
  \A v \in Pairs : Climb(p, v) = IF IsRoot(p, v) THEN v ELSE Climb(p, p[v])
LEMMA ClimbStep == ASSUME NEW p, Forest(p) PROVE ClimbsRightly(p)
<1> SUFFICES ASSUME NEW v \in Pairs
             PROVE  Climb(p, v) = IF p[v] = v THEN v ELSE Climb(p, p[v])
  BY DEF IsRoot, ClimbsRightly
<1> DEFINE f == Up(p, v)
           g == Up(p, p[v])
<1>0. PairCount \in Nat /\ p \in [Pairs -> Pairs] /\ p[v] \in Pairs
  BY ForestAssumption DEF Forest
<1>1. /\ f[0] = v /\ \A n \in 0..PairCount : n < PairCount => f[n + 1] = p[f[n]]
      /\ g[0] = p[v] /\ \A n \in 0..PairCount : n < PairCount => g[n + 1] = p[g[n]]
      /\ \A n \in 0..PairCount : f[n] \in Pairs
  BY <1>0, UpExists
<1>2. Climb(p, v) = f[PairCount] /\ Climb(p, p[v]) = g[PairCount]
  BY ClimbIs
<1> HIDE DEF f, g
<1>3. CASE p[v] = v
  <2> DEFINE h == [n \in 0..PairCount |-> v]
  <2>1. h[0] = v /\ \A n \in 0..PairCount : n < PairCount => h[n + 1] = v /\ h[n] = v
    BY <1>0
  <2>2. h[PairCount] = v
    BY <1>0
  <2> HIDE DEF h
  <2>3. \A n \in 0..PairCount : n < PairCount /\ f[n] = h[n] => f[n + 1] = h[n + 1]
    BY <1>1, <1>3, <2>1
  <2>4. \A n \in 0..PairCount : f[n] = h[n]
    BY <1>0, <1>1, <2>1, <2>3, IteratesAgree
  <2> QED BY <1>0, <1>2, <1>3, <2>2, <2>4
<1>4. CASE p[v] # v
  <2> DEFINE h == [n \in 0..PairCount |-> p[f[n]]]
  <2>1. \A n \in 0..PairCount : h[n] = p[f[n]]
    OBVIOUS
  <2> HIDE DEF h
  <2>2. g[0] = h[0]
    BY <1>0, <1>1, <2>1
  <2>3. ASSUME NEW n \in 0..PairCount, n < PairCount, g[n] = h[n] PROVE g[n + 1] = h[n + 1]
    <3>1. n + 1 \in 0..PairCount
      BY <1>0, <2>3
    <3>2. h[n + 1] = p[p[f[n]]] /\ g[n + 1] = p[p[f[n]]]
      BY <1>1, <2>1, <2>3, <3>1
    <3> QED BY <3>2
  <2>4. \A n \in 0..PairCount : g[n] = h[n]
    BY <1>0, <2>2, <2>3, IteratesAgree
  <2>5. g[PairCount] = p[f[PairCount]]
    BY <1>0, <2>1, <2>4
  <2>6. p[f[PairCount]] = f[PairCount]
    BY <1>2, ClimbRoot
  <2> QED BY <1>2, <1>4, <2>5, <2>6
<1> QED BY <1>3, <1>4

\* A cell that points somewhere else in its own tree moves no root.
LEMMA RedirectKeeps ==
  ASSUME NEW p, Forest(p), NEW c \in Pairs, NEW g \in Pairs, p[c] # c, g < c,
         Climb(p, g) = Climb(p, c), NEW q \in [Pairs -> Pairs],
         q[c] = g, \A v \in Pairs : v # c => q[v] = p[v]
  PROVE  Forest(q) /\ \A v \in Pairs : Climb(q, v) = Climb(p, v)
<1> DEFINE Moved == {v \in Pairs : Climb(q, v) # Climb(p, v)}
<1>0. Pairs \subseteq Nat
  BY ForestAssumption DEF Pairs
<1>1. /\ Forest(q) /\ q[c] = g /\ \A v \in Pairs : v # c => q[v] = p[v]
      /\ \A v \in Pairs : p[v] \in Pairs /\ p[v] <= v
  BY <1>0 DEF Forest
<1>2. SUFFICES ASSUME Moved # {} PROVE FALSE
  BY <1>1
<1>3. PICK v : v \in Moved /\ \A w \in Moved : v <= w
  <2>1. Moved \in SUBSET Nat
    BY <1>0
  <2> HIDE DEF Moved
  <2> QED BY <1>2, <2>1, LeastMember
<1>4. v \in Pairs /\ Climb(q, v) # Climb(p, v) /\ \A w \in Pairs : w < v => Climb(q, w) = Climb(p, w)
  <2>1. v \in Pairs /\ Climb(q, v) # Climb(p, v)
    BY <1>3
  <2>2. ASSUME NEW w \in Pairs, w < v, Climb(q, w) # Climb(p, w) PROVE FALSE
    <3>1. w \in Moved /\ w \in Nat /\ v \in Nat
      BY <1>0, <2>1, <2>2
    <3>2. v <= w
      BY <1>3, <3>1
    <3> QED BY <2>2, <3>1, <3>2
  <2> QED BY <2>1, <2>2
<1> HIDE DEF Moved
<1>5. CASE v = c
  <2>1. Climb(q, v) = Climb(q, g)
    <3>1. q[v] = g /\ g # v
      BY <1>0, <1>1, <1>5
    <3> QED BY <1>1, <1>4, <3>1, ClimbStep DEF ClimbsRightly, IsRoot
  <2> QED BY <1>4, <1>5, <2>1
<1>6. CASE v # c /\ p[v] = v
  <2>1. IsRoot(q, v) /\ IsRoot(p, v)
    BY <1>1, <1>4, <1>6 DEF IsRoot
  <2>2. Climb(q, v) = v
    BY <1>1, <1>4, <2>1, ClimbStep DEF ClimbsRightly, IsRoot
  <2>3. Climb(p, v) = v
    BY <1>4, <2>1, ClimbStep DEF ClimbsRightly, IsRoot
  <2> QED BY <1>4, <2>2, <2>3
<1>7. CASE v # c /\ p[v] # v
  <2>1. p[v] \in Pairs /\ p[v] < v /\ q[v] = p[v]
    <3>1. p[v] \in Pairs /\ p[v] <= v /\ q[v] = p[v] /\ p[v] # v
      BY <1>1, <1>4, <1>7
    <3>2. p[v] \in Nat /\ v \in Nat
      BY <1>0, <3>1, <1>4
    <3> QED BY <3>1, <3>2
  <2>2. Climb(q, v) = Climb(q, p[v]) /\ Climb(p, v) = Climb(p, p[v])
    <3>1. q[v] # v
      BY <1>7, <2>1
    <3>2. Climb(q, v) = Climb(q, q[v])
      BY <1>1, <1>4, <3>1, ClimbStep DEF ClimbsRightly, IsRoot
    <3>3. Climb(p, v) = Climb(p, p[v])
      BY <1>4, <1>7, ClimbStep DEF ClimbsRightly, IsRoot
    <3> QED BY <2>1, <3>2, <3>3
  <2> QED BY <1>4, <2>1, <2>2
<1> QED BY <1>5, <1>6, <1>7

\* A root hung below a smaller vertex gives its whole tree the root of that.
LEMMA HangMoves ==
  ASSUME NEW p, Forest(p), NEW h \in Pairs, NEW l \in Pairs, p[h] = h, l < h,
         NEW q \in [Pairs -> Pairs],
         q[h] = l, \A v \in Pairs : v # h => q[v] = p[v]
  PROVE  /\ Forest(q)
         /\ \A v \in Pairs : Climb(q, v) = IF Climb(p, v) = h THEN Climb(p, l) ELSE Climb(p, v)
         /\ Climb(p, l) # h
<1> DEFINE To(v) == IF Climb(p, v) = h THEN Climb(p, l) ELSE Climb(p, v)
           Wrong == {v \in Pairs : Climb(q, v) # To(v)}
<1>0. Pairs \subseteq Nat
  BY ForestAssumption DEF Pairs
<1>1. /\ Forest(q) /\ q[h] = l /\ \A v \in Pairs : v # h => q[v] = p[v]
      /\ \A v \in Pairs : p[v] \in Pairs /\ p[v] <= v
  BY <1>0 DEF Forest
<1>2. Climb(p, h) = h /\ Climb(p, l) # h
  <2>1. Climb(p, l) <= l /\ Climb(p, l) \in Nat
    BY <1>0, ClimbRoot
  <2>2. Climb(p, h) = h
    <3>1. IsRoot(p, h)
      BY DEF IsRoot
    <3> QED BY <3>1, ClimbStep DEF ClimbsRightly, IsRoot
  <2>3. l \in Nat /\ h \in Nat
    BY <1>0
  <2> QED BY <2>1, <2>2, <2>3
<1>3. SUFFICES ASSUME ~\A v \in Pairs : Climb(q, v) = To(v) PROVE FALSE
  <2> HIDE DEF Wrong
  <2> QED BY <1>1, <1>2
<1>4. PICK v : v \in Wrong /\ \A w \in Wrong : v <= w
  <2>1. Wrong \in SUBSET Nat /\ Wrong # {}
    BY <1>0, <1>3
  <2> HIDE DEF Wrong
  <2> QED BY <2>1, LeastMember
<1>5. v \in Pairs /\ Climb(q, v) # To(v) /\ \A w \in Pairs : w < v => Climb(q, w) = To(w)
  <2>1. v \in Pairs /\ Climb(q, v) # To(v)
    BY <1>4
  <2>2. ASSUME NEW w \in Pairs, w < v, Climb(q, w) # To(w) PROVE FALSE
    <3>1. w \in Wrong /\ w \in Nat /\ v \in Nat
      BY <1>0, <2>1, <2>2
    <3>2. v <= w
      BY <1>4, <3>1
    <3> QED BY <2>2, <3>1, <3>2
  <2> QED BY <2>1, <2>2
<1> HIDE DEF Wrong
<1>6. CASE v = h
  <2>1. Climb(q, v) = Climb(q, l)
    <3>1. q[v] = l /\ l # v
      BY <1>0, <1>1, <1>6
    <3> QED BY <1>1, <1>5, <3>1, ClimbStep DEF ClimbsRightly, IsRoot
  <2>2. Climb(q, l) = To(l)
    BY <1>5, <1>6
  <2> QED BY <1>2, <1>5, <1>6, <2>1, <2>2
<1>7. CASE v # h /\ p[v] = v
  <2>1. IsRoot(q, v) /\ IsRoot(p, v)
    BY <1>1, <1>5, <1>7 DEF IsRoot
  <2>2. Climb(q, v) = v
    BY <1>1, <1>5, <2>1, ClimbStep DEF ClimbsRightly, IsRoot
  <2>3. Climb(p, v) = v
    BY <1>5, <2>1, ClimbStep DEF ClimbsRightly, IsRoot
  <2> QED BY <1>5, <1>7, <2>2, <2>3
<1>8. CASE v # h /\ p[v] # v
  <2>1. p[v] \in Pairs /\ p[v] < v /\ q[v] = p[v]
    <3>1. p[v] \in Pairs /\ p[v] <= v /\ q[v] = p[v] /\ p[v] # v
      BY <1>1, <1>5, <1>8
    <3>2. p[v] \in Nat /\ v \in Nat
      BY <1>0, <3>1, <1>5
    <3> QED BY <3>1, <3>2
  <2>2. Climb(q, v) = Climb(q, p[v]) /\ Climb(p, v) = Climb(p, p[v])
    <3>1. q[v] # v
      BY <1>8, <2>1
    <3>2. Climb(q, v) = Climb(q, q[v])
      BY <1>1, <1>5, <3>1, ClimbStep DEF ClimbsRightly, IsRoot
    <3>3. Climb(p, v) = Climb(p, p[v])
      BY <1>5, <1>8, ClimbStep DEF ClimbsRightly, IsRoot
    <3> QED BY <2>1, <3>2, <3>3
  <2> QED BY <1>5, <2>1, <2>2
<1> QED BY <1>6, <1>7, <1>8

-----------------------------------------------------------------------------
(* What the two kernels compute.                                           *)

\* Two pairs in the same tree of p.
Same(p, a, b) == Climb(p, a) = Climb(p, b)

\* A cell only ever held pairs of its own tree; a root held nothing but itself;
\* in the compress kernel, where no root is hooked, the converse holds too.
Cells(k, p, h) ==
  /\ \A v \in Pairs : IsRoot(p, v) => h[v] = {v}
  /\ \A v \in Pairs : \A w \in h[v] : Same(p, w, v)
  /\ k = "compress" => \A v \in Pairs : v \in h[v] => IsRoot(p, v)

\* A search stays in the tree of the pair it started from, home.  When it sees
\* a cell that points at itself and yet a smaller grandparent, the cell has
\* been hooked in between.
Walks(p, home, th) ==
  /\ th.pc \in {"load", "loadNext", "halve"} => Same(p, th.current, home)
  /\ th.pc \in {"loadNext", "halve"} => Same(p, th.next, home)
  /\ th.pc = "halve" => /\ Same(p, th.grand, home)
                        /\ ~(th.next = th.current /\ th.grand = th.next)
                        /\ th.next = th.current => ~IsRoot(p, th.current)

\* The thread of an edge holds a pair of the tree of each end it has searched,
\* and has put both ends in one tree when it ends.
Joins(p, e, th) ==
  /\ th.pc \in {"load", "loadNext", "halve"} /\ th.from = "v" => Same(p, th.rootU, e[1])
  /\ th.pc = "hook" => /\ Same(p, th.rootU, e[1]) /\ Same(p, th.rootV, e[2])
                       /\ th.rootU # th.rootV
  /\ th.pc = "end" => Same(p, e[1], e[2])

\* The thread of a pair in the compress kernel finds the root and stores it.
Flattens(p, t, th) ==
  /\ th.pc = "halve" => (th.grand = th.next <=> IsRoot(p, th.next))
  /\ th.pc = "store" => th.rootU = Climb(p, t)
  /\ th.pc = "end" => p[t] = Climb(p, t)

Home(k, e, t, th) == IF k = "compress" THEN t ELSE IF th.from = "u" THEN e[t][1] ELSE e[t][2]
ThreadInv(k, e, p, t, th) ==
  /\ Walks(p, Home(k, e, t, th), th)
  /\ k = "union" => Joins(p, e[t], th)
  /\ k = "compress" => Flattens(p, t, th)

\* Closed sets contain both ends of an edge or neither.
Closed(e, S) == \A t \in EdgeRows : e[t][1] \in S <=> e[t][2] \in S
\* Trees are no larger than components, and, after the first kernel, no smaller.
Trees(k, e, p) ==
  /\ \A S \in SUBSET Pairs : Closed(e, S) => \A v \in Pairs : v \in S <=> Climb(p, v) \in S
  /\ k # "union" => \A t \in EdgeRows : Same(p, e[t][1], e[t][2])
  /\ k = "done" => \A v \in Pairs : p[v] = Climb(p, v)

ForestInv ==
  /\ IInv
  /\ Cells(kernel, parent, held)
  /\ kernel # "done" => \A t \in Threads : ThreadInv(kernel, edge, parent, t, thread[t])
  /\ Trees(kernel, edge, parent)

\* What a write may do to the forest: trees are only merged, no new root
\* appears, and in the compress kernel no root changes and a cell that already
\* holds its root keeps it.
Evolves(k, p, q) ==
  /\ Forest(p) /\ Forest(q)
  /\ \A a, b \in Pairs : Same(p, a, b) => Same(q, a, b)
  /\ \A v \in Pairs : IsRoot(q, v) => IsRoot(p, v)
  /\ k = "compress" => \A v \in Pairs :
       /\ Climb(q, v) = Climb(p, v)
       /\ IsRoot(p, v) => IsRoot(q, v)
       /\ p[v] = Climb(p, v) => q[v] = Climb(p, v)

\* A write that moves no pair to another tree.
Unmoved(p, q) == \A v \in Pairs : Climb(q, v) = Climb(p, v)

LEMMA NoWrite == ASSUME NEW k, NEW p, Forest(p) PROVE Evolves(k, p, p) /\ Unmoved(p, p)
BY DEF Evolves, Unmoved

LEMMA ForestNow == ASSUME IInv PROVE Forest(parent)
BY DEF IInv, TypeOK, Forest

\* The ends of the edges, and the pair a thread searches from.
LEMMA Homes ==
  ASSUME IInv, kernel # "done", NEW t \in Threads, NEW th
  PROVE  /\ kernel = "compress" => t \in Pairs
         /\ kernel = "union" => t \in EdgeRows /\ edge[t][1] \in Pairs /\ edge[t][2] \in Pairs
         /\ kernel \in {"union", "compress"}
         /\ Home(kernel, edge, t, th) \in Pairs
BY DEF IInv, TypeOK, Threads, Home

\* A write by one thread leaves what the others believe.
LEMMA ThreadKept ==
  ASSUME NEW k \in {"union", "compress"}, NEW e, NEW t, NEW th \in Locals, NEW p, NEW q,
         Evolves(k, p, q), ThreadInv(k, e, p, t, th), Home(k, e, t, th) \in Pairs,
         k = "compress" => t \in Pairs,
         k = "union" => e[t][1] \in Pairs /\ e[t][2] \in Pairs
  PROVE  ThreadInv(k, e, q, t, th)
<1> DEFINE home == Home(k, e, t, th)
<1>1. /\ \A a, b \in Pairs : Same(p, a, b) => Same(q, a, b)
      /\ \A v \in Pairs : IsRoot(q, v) => IsRoot(p, v)
  BY DEF Evolves
<1>2. /\ th.current \in Pairs /\ th.next \in Pairs /\ th.grand \in Pairs
      /\ th.rootU \in Pairs /\ th.rootV \in Pairs /\ home \in Pairs
  BY DEF Locals
<1>3. Walks(p, home, th) /\ (k = "union" => Joins(p, e[t], th))
      /\ (k = "compress" => Flattens(p, t, th))
  BY DEF ThreadInv
<1> HIDE DEF home
<1>4. Walks(q, home, th)
  BY <1>1, <1>2, <1>3 DEF Walks
<1>5. k = "union" => Joins(q, e[t], th)
  BY <1>1, <1>2, <1>3 DEF Joins
<1>6. k = "compress" => Flattens(q, t, th)
  <2> SUFFICES ASSUME k = "compress" PROVE Flattens(q, t, th)
    OBVIOUS
  <2>1. \A v \in Pairs : /\ Climb(q, v) = Climb(p, v)
                         /\ IsRoot(p, v) => IsRoot(q, v)
                         /\ p[v] = Climb(p, v) => q[v] = Climb(p, v)
    BY DEF Evolves
  <2>2. Flattens(p, t, th) /\ t \in Pairs
    BY <1>3
  <2> QED BY <1>1, <1>2, <2>1, <2>2 DEF Flattens
<1> QED BY <1>4, <1>5, <1>6 DEF ThreadInv, home

\* What is left to show of a step of one thread.
LEMMA ThreadMoves ==
  ASSUME ForestInv, IInv', kernel # "done", NEW t \in Threads, NEW th,
         thread' = [thread EXCEPT ![t] = th], edge' = edge, kernel' = kernel,
         Evolves(kernel, parent, parent'), Cells(kernel, parent', held'),
         Trees(kernel, edge, parent'), ThreadInv(kernel, edge, parent', t, th)
  PROVE  ForestInv'
<1>1. Threads' = Threads /\ IInv
  BY DEF Threads, ForestInv
<1>2. ASSUME NEW s \in Threads PROVE ThreadInv(kernel, edge, parent', s, thread'[s])
  <2>0. thread \in [Threads -> Locals]
    BY <1>1 DEF IInv, TypeOK
  <2>1. CASE s = t
    BY <2>0, <2>1
  <2>2. CASE s # t
    <3>1. thread'[s] = thread[s] /\ thread[s] \in Locals
      BY <2>0, <2>2
    <3>2. ThreadInv(kernel, edge, parent, s, thread[s])
      BY DEF ForestInv
    <3>3. /\ kernel = "compress" => s \in Pairs
          /\ kernel = "union" => edge[s][1] \in Pairs /\ edge[s][2] \in Pairs
          /\ kernel \in {"union", "compress"}
          /\ Home(kernel, edge, s, thread[s]) \in Pairs
      BY <1>1, Homes
    <3>4. ThreadInv(kernel, edge, parent', s, thread[s])
      BY <3>1, <3>2, <3>3, ThreadKept
    <3> QED BY <3>1, <3>4
  <2> QED BY <2>1, <2>2
<1>3. (\A s \in Threads : ThreadInv(kernel, edge, parent, s, thread[s]))'
  BY <1>1, <1>2
<1> QED BY <1>3 DEF ForestInv

LEMMA LocalMoves ==
  ASSUME ForestInv, IInv', kernel # "done", NEW t \in Threads, NEW th,
         thread' = [thread EXCEPT ![t] = th],
         edge' = edge, kernel' = kernel, parent' = parent, held' = held,
         ThreadInv(kernel, edge, parent, t, th)
  PROVE  ForestInv'
<1>1. Evolves(kernel, parent, parent')
  BY ForestNow, NoWrite DEF ForestInv
<1>2. /\ Cells(kernel, parent', held') /\ Trees(kernel, edge, parent')
      /\ ThreadInv(kernel, edge, parent', t, th)
  BY DEF ForestInv
<1> QED BY <1>1, <1>2, ThreadMoves

\* A root is where its own climb ends.
LEMMA RootsClimb ==
  ASSUME NEW p, Forest(p)
  PROVE  /\ \A v \in Pairs : IsRoot(p, v) <=> Climb(p, v) = v
         /\ \A v \in Pairs : Climb(p, v) \in Pairs /\ Same(p, Climb(p, v), v)
<1>1. \A v \in Pairs : IsRoot(p, v) => Climb(p, v) = v
  BY ClimbStep DEF ClimbsRightly
<1>2. ASSUME NEW v \in Pairs PROVE Climb(p, v) \in Pairs /\ IsRoot(p, Climb(p, v))
  BY ClimbRoot DEF IsRoot
<1>3. \A v \in Pairs : Climb(p, v) = v => IsRoot(p, v)
  <2> SUFFICES ASSUME NEW v \in Pairs, Climb(p, v) = v PROVE IsRoot(p, v)
    OBVIOUS
  <2>1. IsRoot(p, Climb(p, v))
    BY <1>2
  <2> QED BY <2>1
<1>4. \A v \in Pairs : Same(p, Climb(p, v), v)
  BY <1>1, <1>2 DEF Same
<1> QED BY <1>1, <1>2, <1>3, <1>4

\* A cell that is pointed elsewhere in its tree, by a halving or by the store
\* of its root.
LEMMA WithinTree ==
  ASSUME ForestInv, kernel # "done", NEW c \in Pairs, NEW g \in Pairs,
         ~IsRoot(parent, c), g < c, Same(parent, g, c),
         kernel = "compress" /\ parent[c] = Climb(parent, c) => g = Climb(parent, c),
         Write(c, g)
  PROVE  /\ Evolves(kernel, parent, parent') /\ Cells(kernel, parent', held')
         /\ Trees(kernel, edge, parent') /\ Unmoved(parent, parent')
<1>1. /\ Forest(parent) /\ parent \in [Pairs -> Pairs] /\ held \in [Pairs -> SUBSET Pairs]
      /\ Cells(kernel, parent, held) /\ Trees(kernel, edge, parent)
  BY ForestNow DEF ForestInv, IInv, TypeOK
<1>2. /\ parent' \in [Pairs -> Pairs] /\ parent'[c] = g
      /\ \A v \in Pairs : v # c => parent'[v] = parent[v]
      /\ held'[c] = held[c] \cup {g} /\ \A v \in Pairs : v # c => held'[v] = held[v]
  BY <1>1 DEF Write
<1> DEFINE q == parent'
<1>3. Forest(q) /\ \A v \in Pairs : Climb(q, v) = Climb(parent, v)
  BY <1>1, <1>2, RedirectKeeps DEF IsRoot, Same
<1>4. \A v \in Pairs : IsRoot(q, v) <=> IsRoot(parent, v)
  BY <1>1, <1>3, RootsClimb
<1>5. \A a, b \in Pairs : Same(q, a, b) <=> Same(parent, a, b)
  BY <1>3 DEF Same
<1>6. \A v \in Pairs : parent[v] = Climb(parent, v) /\ kernel = "compress"
        => q[v] = Climb(parent, v)
  BY <1>2
<1>7. Evolves(kernel, parent, q)
  BY <1>1, <1>3, <1>4, <1>5, <1>6 DEF Evolves
<1>8. Cells(kernel, q, held')
  <2>1. \A v \in Pairs : IsRoot(q, v) => held'[v] = {v}
    BY <1>1, <1>2, <1>4 DEF Cells
  <2>2. ASSUME NEW v \in Pairs, NEW w \in held'[v] PROVE Same(q, w, v)
    <3>1. w \in held[v] \/ (v = c /\ w = g)
      BY <1>2, <2>2
    <3> QED BY <1>1, <1>5, <3>1 DEF Cells
  <2>3. ASSUME kernel = "compress", NEW v \in Pairs, v \in held'[v] PROVE IsRoot(q, v)
    <3>1. v \in held[v]
      BY <1>2, <2>3, ForestAssumption DEF Pairs
    <3> QED BY <1>1, <1>4, <2>3, <3>1 DEF Cells
  <2> HIDE DEF q
  <2> QED BY <2>1, <2>2, <2>3 DEF Cells
<1>9. Trees(kernel, edge, q)
  <2>1. ASSUME kernel # "union", NEW t \in EdgeRows PROVE Same(q, edge[t][1], edge[t][2])
    <3>1. edge[t][1] \in Pairs /\ edge[t][2] \in Pairs
      BY DEF ForestInv, IInv, TypeOK
    <3> QED BY <1>1, <1>5, <2>1, <3>1 DEF Trees
  <2>2. ASSUME NEW S \in SUBSET Pairs, Closed(edge, S), NEW v \in Pairs
        PROVE  v \in S <=> Climb(q, v) \in S
    BY <1>1, <1>3, <2>2 DEF Trees
  <2> HIDE DEF q
  <2> QED BY <2>1, <2>2 DEF Trees
<1> QED BY <1>3, <1>7, <1>8, <1>9 DEF Unmoved

\* A hook: the tree of the larger root hangs below the smaller one, and some
\* edge joins the two trees.
LEMMA Hooked ==
  ASSUME ForestInv, kernel = "union", NEW h \in Pairs, NEW l \in Pairs,
         IsRoot(parent, h), l < h, Write(h, l),
         NEW t \in EdgeRows,
         \/ Same(parent, edge[t][1], h) /\ Same(parent, edge[t][2], l)
         \/ Same(parent, edge[t][1], l) /\ Same(parent, edge[t][2], h)
  PROVE  /\ Evolves(kernel, parent, parent') /\ Cells(kernel, parent', held')
         /\ Trees(kernel, edge, parent')
         /\ Same(parent', edge[t][1], edge[t][2])
         /\ Climb(parent, l) # h
         /\ \A v \in Pairs : Climb(parent', v)
              = IF Climb(parent, v) = h THEN Climb(parent, l) ELSE Climb(parent, v)
<1>1. /\ Forest(parent) /\ parent \in [Pairs -> Pairs] /\ held \in [Pairs -> SUBSET Pairs]
      /\ Cells(kernel, parent, held) /\ Trees(kernel, edge, parent)
      /\ edge[t][1] \in Pairs /\ edge[t][2] \in Pairs
  BY ForestNow DEF ForestInv, IInv, TypeOK
<1>2. /\ parent' \in [Pairs -> Pairs] /\ parent'[h] = l
      /\ \A v \in Pairs : v # h => parent'[v] = parent[v]
      /\ held'[h] = held[h] \cup {l} /\ \A v \in Pairs : v # h => held'[v] = held[v]
  BY <1>1 DEF Write
<1> DEFINE q == parent'
<1>3. /\ Forest(q) /\ Climb(parent, l) # h
      /\ \A v \in Pairs : Climb(q, v)
           = IF Climb(parent, v) = h THEN Climb(parent, l) ELSE Climb(parent, v)
  BY <1>1, <1>2, HangMoves DEF IsRoot
<1>h. Climb(parent, h) = h
  BY <1>1, RootsClimb
<1> HIDE DEF q
<1>4. \A a, b \in Pairs : Same(parent, a, b) => Same(q, a, b)
  BY <1>3 DEF Same
<1>5. \A v \in Pairs : IsRoot(q, v) => IsRoot(parent, v)
  <2> SUFFICES ASSUME NEW v \in Pairs, v # h, IsRoot(q, v) PROVE IsRoot(parent, v)
    OBVIOUS
  <2> QED BY <1>2 DEF IsRoot, q
<1>6. Evolves(kernel, parent, q)
  BY <1>1, <1>3, <1>4, <1>5 DEF Evolves
<1>7. Same(q, l, h)
  BY <1>3, <1>h DEF Same
<1>8. Cells(kernel, q, held')
  <2>1. \A v \in Pairs : IsRoot(q, v) => held'[v] = {v}
    <3>1. ~IsRoot(q, h)
      BY <1>2, ForestAssumption DEF IsRoot, q, Pairs
    <3> QED BY <1>1, <1>2, <1>5, <3>1 DEF Cells
  <2>2. ASSUME NEW v \in Pairs, NEW w \in held'[v] PROVE Same(q, w, v)
    <3>1. (w \in held[v] /\ w \in Pairs) \/ (v = h /\ w = l)
      BY <1>1, <1>2, <2>2
    <3> QED BY <1>1, <1>4, <1>7, <3>1 DEF Cells
  <2> QED BY <2>1, <2>2 DEF Cells
<1>9. Same(q, edge[t][1], edge[t][2])
  <2>1. \/ Same(q, edge[t][1], h) /\ Same(q, edge[t][2], l)
        \/ Same(q, edge[t][1], l) /\ Same(q, edge[t][2], h)
    BY <1>1, <1>4
  <2> QED BY <1>7, <2>1 DEF Same
<1>10. Trees(kernel, edge, q)
  <2>1. ASSUME NEW S \in SUBSET Pairs, Closed(edge, S), NEW v \in Pairs
        PROVE  v \in S <=> Climb(q, v) \in S
    <3>1. \A w \in Pairs : w \in S <=> Climb(parent, w) \in S
      BY <1>1, <2>1 DEF Trees
    <3>2. edge[t][1] \in S <=> edge[t][2] \in S
      BY <2>1 DEF Closed
    <3>3. h \in S <=> Climb(parent, l) \in S
      BY <1>1, <1>h, <3>1, <3>2 DEF Same
    <3> QED BY <1>3, <3>1, <3>3
  <2> QED BY <2>1 DEF Trees
<1> QED BY <1>3, <1>6, <1>8, <1>9, <1>10 DEF q

\* A search that ends in the tree it started from.
EndsRight(p, t, th, root) ==
  /\ kernel \in {"union", "compress"} /\ th \in Locals
  /\ Same(p, root, Home(kernel, edge, t, th))
  /\ kernel = "union" /\ th.from = "v" => Same(p, th.rootU, edge[t][1])
  /\ kernel = "compress" => t \in Pairs /\ IsRoot(p, root) /\ Forest(p)

LEMMA FoundRight ==
  ASSUME NEW p, NEW t, NEW th, NEW root \in Pairs, EndsRight(p, t, th, root)
  PROVE  ThreadInv(kernel, edge, p, t, Found(t, th, root))
<1> /\ kernel \in {"union", "compress"} /\ th \in Locals
    /\ Same(p, root, Home(kernel, edge, t, th))
    /\ kernel = "union" /\ th.from = "v" => Same(p, th.rootU, edge[t][1])
    /\ kernel = "compress" => t \in Pairs /\ IsRoot(p, root) /\ Forest(p)
  BY DEF EndsRight
<1> DEFINE new == Found(t, th, root)
<1>1. CASE kernel = "compress"
  <2>1. new.pc = "store" /\ new.rootU = root
    BY <1>1 DEF Found, Locals
  <2>2. root = Climb(p, t)
    <3>1. Same(p, root, t)
      BY <1>1 DEF Home
    <3> QED BY <1>1, <3>1, RootsClimb DEF Same
  <2> HIDE DEF new
  <2>3. Walks(p, Home(kernel, edge, t, new), new) /\ Flattens(p, t, new)
    BY <2>1, <2>2 DEF Walks, Flattens
  <2> QED BY <1>1, <2>3 DEF ThreadInv, new
<1>2. CASE kernel = "union" /\ th.from = "u"
  <2>1. /\ new.pc = "load" /\ new.from = "v" /\ new.current = edge[t][2] /\ new.rootU = root
    BY <1>2 DEF Found, Searching
  <2>2. Same(p, root, edge[t][1])
    BY <1>2 DEF Home
  <2> HIDE DEF new
  <2>3. Walks(p, Home(kernel, edge, t, new), new) /\ Joins(p, edge[t], new)
    BY <1>2, <2>1, <2>2 DEF Walks, Joins, Home, Same
  <2> QED BY <1>2, <2>3 DEF ThreadInv, new
<1>3. CASE kernel = "union" /\ th.from = "v"
  <2>1. /\ new.pc = IF root = th.rootU THEN "end" ELSE "hook"
        /\ new.rootV = root /\ new.rootU = th.rootU
    BY <1>3 DEF Found, Locals
  <2>2. Same(p, root, edge[t][2]) /\ Same(p, th.rootU, edge[t][1])
    BY <1>3 DEF Home
  <2> HIDE DEF new
  <2>3. Walks(p, Home(kernel, edge, t, new), new) /\ Joins(p, edge[t], new)
    BY <2>1, <2>2 DEF Walks, Joins, Same
  <2> QED BY <1>3, <2>3 DEF ThreadInv, new
<1> QED BY <1>1, <1>2, <1>3 DEF Locals

\* What every action of a thread starts from.
LEMMA ThreadKnows ==
  ASSUME ForestInv, kernel # "done", NEW t \in Threads, NEW th, th = thread[t]
  PROVE  /\ IInv /\ Forest(parent) /\ Cells(kernel, parent, held) /\ Trees(kernel, edge, parent)
         /\ th \in Locals /\ th.current \in Pairs /\ th.next \in Pairs /\ th.grand \in Pairs
         /\ th.rootU \in Pairs /\ th.rootV \in Pairs
         /\ Home(kernel, edge, t, th) \in Pairs /\ kernel \in {"union", "compress"}
         /\ kernel = "compress" => t \in Pairs /\ Flattens(parent, t, th)
         /\ kernel = "union" => /\ t \in EdgeRows /\ edge[t][1] \in Pairs /\ edge[t][2] \in Pairs
                                /\ Joins(parent, edge[t], th)
         /\ Walks(parent, Home(kernel, edge, t, th), th)
         /\ ThreadInv(kernel, edge, parent, t, th) /\ Descending(t, th)
<1>1. IInv /\ Cells(kernel, parent, held) /\ Trees(kernel, edge, parent)
      /\ ThreadInv(kernel, edge, parent, t, th)
  BY DEF ForestInv
<1>2. Forest(parent)
  BY <1>1, ForestNow
<1>3. th \in Locals /\ Descending(t, th)
  BY <1>1, ThreadFacts
<1>4. /\ th.current \in Pairs /\ th.next \in Pairs /\ th.grand \in Pairs
      /\ th.rootU \in Pairs /\ th.rootV \in Pairs
  BY <1>3 DEF Locals
<1>5. /\ kernel = "compress" => t \in Pairs
      /\ kernel = "union" => t \in EdgeRows /\ edge[t][1] \in Pairs /\ edge[t][2] \in Pairs
      /\ kernel \in {"union", "compress"}
      /\ Home(kernel, edge, t, th) \in Pairs
  BY <1>1, Homes
<1>6. /\ Walks(parent, Home(kernel, edge, t, th), th)
      /\ kernel = "union" => Joins(parent, edge[t], th)
      /\ kernel = "compress" => Flattens(parent, t, th)
  BY <1>1 DEF ThreadInv
<1> QED BY <1>1, <1>2, <1>3, <1>4, <1>5, <1>6

LEMMA LoadParentKeeps ==
  ASSUME ForestInv, kernel # "done", NEW t \in Threads, LoadParent(t), IInv'
  PROVE  ForestInv'
<1> DEFINE th == thread[t]
           home == Home(kernel, edge, t, th)
<1>0. /\ Cells(kernel, parent, held) /\ th \in Locals /\ th.current \in Pairs
      /\ kernel \in {"union", "compress"}
      /\ kernel = "union" => Joins(parent, edge[t], th)
      /\ Walks(parent, home, th)
  BY ThreadKnows
<1>1. /\ th.pc = "load" /\ UNCHANGED <<edge, kernel, parent, held>>
      /\ \E v \in held[th.current] :
           thread' = [thread EXCEPT ![t] = [th EXCEPT !.pc = "loadNext", !.next = v]]
  BY DEF LoadParent
<1>2. PICK v \in held[th.current] :
        thread' = [thread EXCEPT ![t] = [th EXCEPT !.pc = "loadNext", !.next = v]]
  BY <1>1
<1> DEFINE new == [th EXCEPT !.pc = "loadNext", !.next = v]
<1>3. /\ new.pc = "loadNext" /\ new.next = v /\ new.current = th.current
      /\ new.from = th.from /\ new.rootU = th.rootU
  BY <1>0 DEF Locals
<1>4. Same(parent, v, th.current) /\ Same(parent, th.current, home)
  BY <1>0, <1>1 DEF Cells, Walks
<1>5. Same(parent, v, home)
  BY <1>4 DEF Same
<1>6. Home(kernel, edge, t, new) = home
  BY <1>3 DEF Home
<1> HIDE DEF new, home, th
<1>7. Walks(parent, home, new) /\ (kernel = "union" => Joins(parent, edge[t], new))
  BY <1>0, <1>1, <1>3, <1>4, <1>5 DEF Walks, Joins
<1>8. kernel = "compress" => Flattens(parent, t, new)
  BY <1>3 DEF Flattens
<1>9. ThreadInv(kernel, edge, parent, t, new)
  BY <1>6, <1>7, <1>8 DEF ThreadInv
<1>10. thread' = [thread EXCEPT ![t] = new]
  BY <1>2 DEF new
<1> QED BY <1>1, <1>9, <1>10, LocalMoves

LEMMA LoadGrandparentKeeps ==
  ASSUME ForestInv, kernel # "done", NEW t \in Threads, LoadGrandparent(t), IInv'
  PROVE  ForestInv'
<1> DEFINE th == thread[t]
           home == Home(kernel, edge, t, th)
<1>0. /\ Cells(kernel, parent, held) /\ th \in Locals /\ th.current \in Pairs /\ th.next \in Pairs
      /\ kernel \in {"union", "compress"} /\ Forest(parent)
      /\ kernel = "union" => Joins(parent, edge[t], th)
      /\ kernel = "compress" => t \in Pairs
      /\ Walks(parent, home, th)
  BY ThreadKnows
<1>1. /\ th.pc = "loadNext" /\ UNCHANGED <<edge, kernel, parent, held>>
      /\ \E v \in held[th.next] : thread' = [thread EXCEPT ![t] =
           IF v = th.next /\ th.current = th.next THEN Found(t, th, th.next)
           ELSE [th EXCEPT !.pc = "halve", !.grand = v]]
  BY DEF LoadGrandparent
<1>2. PICK v \in held[th.next] : thread' = [thread EXCEPT ![t] =
        IF v = th.next /\ th.current = th.next THEN Found(t, th, th.next)
        ELSE [th EXCEPT !.pc = "halve", !.grand = v]]
  BY <1>1
<1>3. Same(parent, v, th.next) /\ Same(parent, th.next, home) /\ Same(parent, th.current, home)
  BY <1>0, <1>1 DEF Cells, Walks
<1>4. /\ IsRoot(parent, th.next) => v = th.next
      /\ kernel = "compress" /\ v = th.next => IsRoot(parent, th.next)
  BY <1>0 DEF Cells
<1>5. CASE v = th.next /\ th.current = th.next
  <2>1. kernel = "union" /\ th.from = "v" => Same(parent, th.rootU, edge[t][1])
    BY <1>0, <1>1 DEF Joins
  <2>2. kernel = "compress" => t \in Pairs /\ IsRoot(parent, th.next) /\ Forest(parent)
    BY <1>0, <1>4, <1>5
  <2>3. EndsRight(parent, t, th, th.next)
    BY <1>0, <1>3, <2>1, <2>2 DEF EndsRight
  <2>4. ThreadInv(kernel, edge, parent, t, Found(t, th, th.next))
    BY <1>0, <2>3, FoundRight
  <2> QED BY <1>1, <1>2, <1>5, <2>4, LocalMoves
<1>6. CASE ~(v = th.next /\ th.current = th.next)
  <2> DEFINE new == [th EXCEPT !.pc = "halve", !.grand = v]
  <2>1. /\ new.pc = "halve" /\ new.next = th.next /\ new.current = th.current /\ new.grand = v
        /\ new.from = th.from /\ new.rootU = th.rootU
    BY <1>0 DEF Locals
  <2>2. Same(parent, v, home)
    BY <1>3 DEF Same
  <2>3. Home(kernel, edge, t, new) = home
    BY <2>1 DEF Home
  <2>4. thread' = [thread EXCEPT ![t] = new]
    BY <1>2, <1>6
  <2> HIDE DEF new, home, th
  <2>5. Walks(parent, home, new) /\ (kernel = "union" => Joins(parent, edge[t], new))
    BY <1>0, <1>1, <1>3, <1>4, <1>6, <2>1, <2>2 DEF Walks, Joins
  <2>6. kernel = "compress" => Flattens(parent, t, new)
    BY <1>4, <2>1 DEF Flattens
  <2>7. ThreadInv(kernel, edge, parent, t, new)
    BY <2>3, <2>5, <2>6 DEF ThreadInv
  <2> QED BY <1>1, <2>4, <2>7, LocalMoves
<1> QED BY <1>5, <1>6

\* The swap of a halving moves a cell within its tree or writes nothing.
LEMMA HalveMoves ==
  ASSUME ForestInv, kernel # "done", NEW t \in Threads, NEW th, th = thread[t],
         th.pc = "halve", CompareAndSwap(th.current, th.next, th.grand)
  PROVE  /\ Evolves(kernel, parent, parent') /\ Cells(kernel, parent', held')
         /\ Trees(kernel, edge, parent') /\ Unmoved(parent, parent')
<1>0. /\ Forest(parent) /\ Cells(kernel, parent, held) /\ Trees(kernel, edge, parent)
      /\ th.current \in Pairs /\ th.next \in Pairs /\ th.grand \in Pairs
      /\ Descending(t, th) /\ Walks(parent, Home(kernel, edge, t, th), th)
      /\ kernel = "compress" => t \in Pairs /\ Flattens(parent, t, th)
  BY ThreadKnows
<1>1. CASE parent[th.current] = th.next
  <2>1. ~IsRoot(parent, th.current)
    BY <1>0, <1>1 DEF Walks, IsRoot
  <2>2. Same(parent, th.grand, th.current)
    BY <1>0 DEF Walks, Same
  <2>3. th.grand < th.current
    <3>1. th.next <= th.current /\ th.grand <= th.next
      BY <1>0 DEF Descending
    <3>2. ~(th.next = th.current /\ th.grand = th.next)
      BY <1>0 DEF Walks
    <3>3. th.current \in Int /\ th.next \in Int /\ th.grand \in Int
      BY <1>0, ForestAssumption DEF Pairs
    <3> QED BY <3>1, <3>2, <3>3
  <2>4. ASSUME kernel = "compress", parent[th.current] = Climb(parent, th.current)
        PROVE  th.grand = Climb(parent, th.current)
    <3>1. IsRoot(parent, th.next)
      BY <1>0, <1>1, <2>4, ClimbRoot DEF IsRoot
    <3> QED BY <1>0, <1>1, <2>4, <3>1 DEF Flattens
  <2>5. Write(th.current, th.grand)
    BY <1>1 DEF CompareAndSwap
  <2> QED BY <1>0, <2>1, <2>2, <2>3, <2>4, <2>5, WithinTree
<1>2. CASE parent[th.current] # th.next
  <2>1. parent' = parent /\ held' = held
    BY <1>2 DEF CompareAndSwap
  <2> QED BY <1>0, <2>1, NoWrite
<1> QED BY <1>1, <1>2

LEMMA HalveKeeps ==
  ASSUME ForestInv, kernel # "done", NEW t \in Threads, Halve(t), IInv'
  PROVE  ForestInv'
<1> DEFINE th == thread[t]
           home == Home(kernel, edge, t, th)
<1>0. /\ th \in Locals /\ th.next \in Pairs /\ th.grand \in Pairs /\ home \in Pairs
      /\ kernel \in {"union", "compress"}
      /\ kernel = "compress" => t \in Pairs
      /\ kernel = "union" => edge[t][1] \in Pairs /\ edge[t][2] \in Pairs
      /\ ThreadInv(kernel, edge, parent, t, th)
  BY ThreadKnows
<1>1. /\ th.pc = "halve" /\ edge' = edge /\ kernel' = kernel
      /\ CompareAndSwap(th.current, th.next, th.grand)
      /\ thread' = [thread EXCEPT ![t] = IF th.next = th.grand THEN Found(t, th, th.next)
           ELSE [th EXCEPT !.pc = "load", !.current = th.grand]]
  BY DEF Halve
<1>2. /\ Evolves(kernel, parent, parent') /\ Cells(kernel, parent', held')
      /\ Trees(kernel, edge, parent')
  BY <1>1, HalveMoves
<1>3. ThreadInv(kernel, edge, parent', t, th)
  BY <1>0, <1>2, ThreadKept
<1>4. /\ Walks(parent', home, th) /\ Forest(parent')
      /\ kernel = "union" => Joins(parent', edge[t], th)
      /\ kernel = "compress" => Flattens(parent', t, th)
  BY <1>2, <1>3 DEF ThreadInv, Evolves
<1>5. CASE th.next = th.grand
  <2>1. kernel = "union" /\ th.from = "v" => Same(parent', th.rootU, edge[t][1])
    BY <1>1, <1>4 DEF Joins
  <2>2. kernel = "compress" => t \in Pairs /\ IsRoot(parent', th.next) /\ Forest(parent')
    BY <1>0, <1>1, <1>4, <1>5 DEF Flattens
  <2>3. Same(parent', th.next, home)
    BY <1>1, <1>4 DEF Walks
  <2>4. EndsRight(parent', t, th, th.next)
    BY <1>0, <2>1, <2>2, <2>3 DEF EndsRight
  <2>5. ThreadInv(kernel, edge, parent', t, Found(t, th, th.next))
    BY <1>0, <2>4, FoundRight
  <2> QED BY <1>1, <1>2, <1>5, <2>5, ThreadMoves
<1>6. CASE th.next # th.grand
  <2> DEFINE new == [th EXCEPT !.pc = "load", !.current = th.grand]
  <2>1. /\ new.pc = "load" /\ new.current = th.grand
        /\ new.from = th.from /\ new.rootU = th.rootU
    BY <1>0 DEF Locals
  <2>2. Home(kernel, edge, t, new) = home
    BY <2>1 DEF Home
  <2>3. thread' = [thread EXCEPT ![t] = new]
    BY <1>1, <1>6
  <2> HIDE DEF new, home, th
  <2>4. Walks(parent', home, new) /\ (kernel = "union" => Joins(parent', edge[t], new))
    BY <1>1, <1>4, <2>1 DEF Walks, Joins
  <2>5. kernel = "compress" => Flattens(parent', t, new)
    BY <2>1 DEF Flattens
  <2>6. ThreadInv(kernel, edge, parent', t, new)
    BY <2>2, <2>4, <2>5 DEF ThreadInv
  <2> QED BY <1>1, <1>2, <2>3, <2>6, ThreadMoves
<1> QED BY <1>5, <1>6

\* The two roots of a hook, and the edge that relates them.
LEMMA HookFacts ==
  ASSUME ForestInv, kernel # "done", NEW t \in Threads, Hook(t)
  PROVE  /\ kernel = "union" /\ t \in EdgeRows
         /\ High(t) \in Pairs /\ Low(t) \in Pairs /\ Low(t) < High(t)
         /\ \/ Same(parent, edge[t][1], High(t)) /\ Same(parent, edge[t][2], Low(t))
            \/ Same(parent, edge[t][1], Low(t)) /\ Same(parent, edge[t][2], High(t))
<1> DEFINE th == thread[t]
<1>0. /\ th.rootU \in Pairs /\ th.rootV \in Pairs /\ Descending(t, th)
      /\ kernel = "union" => t \in EdgeRows /\ Joins(parent, edge[t], th)
  BY ThreadKnows
<1>1. th.pc = "hook"
  BY DEF Hook
<1>2. kernel = "union"
  BY <1>0, <1>1 DEF Descending
<1>3. /\ Same(parent, th.rootU, edge[t][1]) /\ Same(parent, th.rootV, edge[t][2])
      /\ th.rootU # th.rootV
  BY <1>0, <1>1, <1>2 DEF Joins
<1>4. th.rootU \in Int /\ th.rootV \in Int
  BY <1>0, ForestAssumption DEF Pairs
<1>5. High(t) = Max({th.rootU, th.rootV}) /\ Low(t) = Min({th.rootU, th.rootV})
  BY DEF High, Low
<1> HIDE DEF th
<1>6. \/ High(t) = th.rootU /\ Low(t) = th.rootV
      \/ High(t) = th.rootV /\ Low(t) = th.rootU
  <2>1. /\ Max({th.rootU, th.rootV}) \in {th.rootU, th.rootV}
        /\ Min({th.rootU, th.rootV}) \in {th.rootU, th.rootV}
        /\ \A y \in {th.rootU, th.rootV} : Max({th.rootU, th.rootV}) >= y
        /\ \A y \in {th.rootU, th.rootV} : Min({th.rootU, th.rootV}) =< y
    BY <1>4, Extremes
  <2> QED BY <1>3, <1>4, <1>5, <2>1
<1>7. Low(t) <= High(t)
  BY <1>4, <1>5, Extremes
<1>8. Low(t) < High(t)
  BY <1>3, <1>4, <1>6, <1>7
<1> QED BY <1>0, <1>2, <1>3, <1>6, <1>8 DEF Same

LEMMA HookKeeps ==
  ASSUME ForestInv, kernel # "done", NEW t \in Threads, Hook(t), IInv'
  PROVE  ForestInv'
<1> DEFINE th == thread[t]
           again == Searching(edge[t][1], "u", edge[t][1])
           ended == [th EXCEPT !.pc = "end"]
<1>0. /\ kernel = "union" /\ t \in EdgeRows
      /\ High(t) \in Pairs /\ Low(t) \in Pairs /\ Low(t) < High(t)
      /\ \/ Same(parent, edge[t][1], High(t)) /\ Same(parent, edge[t][2], Low(t))
         \/ Same(parent, edge[t][1], Low(t)) /\ Same(parent, edge[t][2], High(t))
  BY HookFacts
<1>1. /\ CompareAndSwap(High(t), High(t), Low(t)) /\ edge' = edge /\ kernel' = kernel
      /\ thread' = [thread EXCEPT ![t] = IF parent[High(t)] = High(t) THEN ended ELSE again]
  BY DEF Hook
<1>2. th \in Locals
  BY ThreadKnows
<1>3. CASE parent[High(t)] = High(t)
  <2>1. Write(High(t), Low(t)) /\ IsRoot(parent, High(t))
    BY <1>1, <1>3 DEF CompareAndSwap, IsRoot
  <2> DEFINE h == High(t)
             l == Low(t)
  <2>2. /\ h \in Pairs /\ l \in Pairs /\ IsRoot(parent, h) /\ l < h /\ Write(h, l)
        /\ \/ Same(parent, edge[t][1], h) /\ Same(parent, edge[t][2], l)
           \/ Same(parent, edge[t][1], l) /\ Same(parent, edge[t][2], h)
    BY <1>0, <2>1
  <2> HIDE DEF h, l
  <2>3. /\ Evolves(kernel, parent, parent') /\ Cells(kernel, parent', held')
        /\ Trees(kernel, edge, parent')
        /\ Same(parent', edge[t][1], edge[t][2])
    BY <1>0, <2>2, Hooked
  <2>4. ended.pc = "end"
    BY <1>2 DEF Locals
  <2>5. thread' = [thread EXCEPT ![t] = ended]
    BY <1>1, <1>3
  <2> HIDE DEF ended
  <2>6. ThreadInv(kernel, edge, parent', t, ended)
    BY <1>0, <2>3, <2>4 DEF ThreadInv, Walks, Joins
  <2> QED BY <1>1, <2>3, <2>5, <2>6, ThreadMoves
<1>4. CASE parent[High(t)] # High(t)
  <2>1. /\ parent' = parent /\ held' = held /\ thread' = [thread EXCEPT ![t] = again]
    BY <1>1, <1>4 DEF CompareAndSwap
  <2>2. again.pc = "load" /\ again.from = "u" /\ again.current = edge[t][1]
    BY DEF Searching
  <2> HIDE DEF again
  <2>3. ThreadInv(kernel, edge, parent, t, again)
    BY <1>0, <2>2 DEF ThreadInv, Walks, Joins, Home, Same
  <2> QED BY <1>1, <2>1, <2>3, LocalMoves
<1> QED BY <1>3, <1>4

\* The store of a root moves no pair, whether or not the pair is a root itself.
LEMMA StoreMoves ==
  ASSUME ForestInv, kernel # "done", NEW t \in Threads, NEW th, th = thread[t],
         th.pc = "store", Write(t, th.rootU)
  PROVE  /\ kernel = "compress" /\ t \in Pairs /\ th.rootU = Climb(parent, t)
         /\ Evolves(kernel, parent, parent') /\ Cells(kernel, parent', held')
         /\ Trees(kernel, edge, parent') /\ Unmoved(parent, parent')
<1>0. /\ th \in Locals /\ th.rootU \in Pairs /\ Descending(t, th)
      /\ Forest(parent) /\ Cells(kernel, parent, held) /\ Trees(kernel, edge, parent)
      /\ kernel = "compress" => t \in Pairs /\ Flattens(parent, t, th)
      /\ IInv
  BY ThreadKnows
<1>2. kernel = "compress" /\ th.rootU <= t
  BY <1>0 DEF Descending
<1>3. t \in Pairs /\ th.rootU = Climb(parent, t)
  BY <1>0, <1>2 DEF Flattens
<1>4. CASE IsRoot(parent, t)
  <2>1. th.rootU = t /\ held[t] = {t} /\ parent[t] = t
    BY <1>0, <1>3, <1>4, RootsClimb DEF Cells, IsRoot
  <2>2. parent \in [Pairs -> Pairs] /\ held \in [Pairs -> SUBSET Pairs]
    BY <1>0 DEF IInv, TypeOK
  <2>3. /\ parent' = [parent EXCEPT ![t] = t] /\ held' = [held EXCEPT ![t] = {t} \cup {t}]
    BY <2>1 DEF Write
  <2>4. parent' = parent /\ held' = held
    BY <1>3, <2>1, <2>2, <2>3
  <2> QED BY <1>0, <1>2, <1>3, <2>4, NoWrite
<1>5. CASE ~IsRoot(parent, t)
  <2>1. th.rootU # t
    BY <1>0, <1>3, <1>5, RootsClimb
  <2>2. th.rootU < t
    BY <1>0, <1>2, <1>3, <2>1, ForestAssumption DEF Pairs
  <2>3. Same(parent, th.rootU, t)
    BY <1>0, <1>3, RootsClimb
  <2> QED BY <1>0, <1>2, <1>3, <1>5, <2>2, <2>3, WithinTree
<1> QED BY <1>4, <1>5

LEMMA StoreRootKeeps ==
  ASSUME ForestInv, kernel # "done", NEW t \in Threads, StoreRoot(t), IInv'
  PROVE  ForestInv'
<1> DEFINE th == thread[t]
           ended == [th EXCEPT !.pc = "end"]
<1>0. th \in Locals /\ IInv
  BY ThreadKnows
<1>1. /\ th.pc = "store" /\ Write(t, th.rootU) /\ edge' = edge /\ kernel' = kernel
      /\ thread' = [thread EXCEPT ![t] = ended]
  BY DEF StoreRoot
<1>2. /\ kernel = "compress" /\ t \in Pairs /\ th.rootU = Climb(parent, t)
      /\ Evolves(kernel, parent, parent') /\ Cells(kernel, parent', held')
      /\ Trees(kernel, edge, parent')
  BY <1>1, StoreMoves
<1>3. parent'[t] = Climb(parent', t)
  <2>1. parent'[t] = th.rootU
    BY <1>0, <1>1, <1>2 DEF Write, IInv, TypeOK
  <2>2. Climb(parent', t) = Climb(parent, t)
    BY <1>2 DEF Evolves
  <2> QED BY <1>2, <2>1, <2>2
<1>4. ended.pc = "end"
  BY <1>0 DEF Locals
<1> HIDE DEF ended
<1>5. ThreadInv(kernel, edge, parent', t, ended)
  BY <1>2, <1>3, <1>4 DEF ThreadInv, Walks, Flattens
<1> QED BY <1>1, <1>2, <1>5, ThreadMoves

LEMMA StepMoves ==
  ASSUME ForestInv, kernel # "done", NEW t \in Threads, Step(t)
  PROVE  ForestInv'
<1>1. IInv'
  BY StepKeeps DEF ForestInv
<1> QED BY <1>1, LoadParentKeeps, LoadGrandparentKeeps, HalveKeeps, HookKeeps, StoreRootKeeps
           DEF Step


LEMMA NextKernelMoves ==
  ASSUME ForestInv, NextKernel
  PROVE  ForestInv'
<1>1. IInv /\ IInv' /\ Forest(parent) /\ Trees(kernel, edge, parent)
  BY NextKernelKeeps, ForestNow DEF ForestInv
<1>2. /\ parent' = parent /\ edge' = edge /\ held' = [v \in Pairs |-> {parent[v]}]
      /\ kernel # "done" /\ \A t \in Threads : thread[t].pc = "end"
      /\ \A t \in Threads : ThreadInv(kernel, edge, parent, t, thread[t])
  BY DEF NextKernel, ForestInv
<1>3. \A t \in EdgeRows : edge[t][1] \in Pairs /\ edge[t][2] \in Pairs
  BY <1>1 DEF IInv, TypeOK
<1>4. \A v \in Pairs : parent[v] \in Pairs /\ Same(parent, parent[v], v)
  BY <1>1, ClimbStep DEF Forest, ClimbsRightly, IsRoot, Same
<1>5. Cells(kernel', parent', held')
  <2>1. \A v \in Pairs : held'[v] = {parent[v]}
    BY <1>2
  <2> QED BY <1>2, <1>4, <2>1 DEF Cells, IsRoot
<1>6. CASE kernel = "union"
  <2>1. kernel' = "compress" /\ Threads' = Pairs /\ Threads = EdgeRows
        /\ thread' = [v \in Pairs |-> Searching(v, "u", v)]
    BY <1>6 DEF NextKernel, Threads
  <2>2. \A t \in EdgeRows : Same(parent, edge[t][1], edge[t][2])
    BY <1>2, <1>6, <2>1 DEF ThreadInv, Joins
  <2>3. Trees(kernel', edge', parent')
    BY <1>1, <1>2, <2>1, <2>2 DEF Trees
  <2>4. ASSUME NEW v \in Pairs PROVE ThreadInv(kernel', edge', parent', v, thread'[v])
    <3>1. thread'[v].pc = "load" /\ thread'[v].current = v
      BY <2>1 DEF Searching
    <3> QED BY <2>1, <3>1 DEF ThreadInv, Walks, Flattens, Home, Same
  <2> QED BY <1>1, <1>5, <2>1, <2>3, <2>4 DEF ForestInv
<1>7. CASE kernel # "union"
  <2>1. kernel = "compress" /\ kernel' = "done" /\ Threads = Pairs
    BY <1>1, <1>2, <1>7 DEF NextKernel, IInv, TypeOK, Threads
  <2>2. \A v \in Pairs : parent[v] = Climb(parent, v)
    BY <1>2, <2>1 DEF ThreadInv, Flattens
  <2>3. Trees(kernel', edge', parent')
    BY <1>1, <1>2, <2>1, <2>2 DEF Trees
  <2> QED BY <1>1, <1>5, <2>1, <2>3 DEF ForestInv
<1> QED BY <1>6, <1>7

LEMMA PublishMoves ==
  ASSUME ForestInv, NEW u \in Pairs, Publish(u)
  PROVE  ForestInv'
<1>1. IInv /\ IInv' /\ Forest(parent) /\ Trees(kernel, edge, parent) /\ Cells(kernel, parent, held)
      /\ held \in [Pairs -> SUBSET Pairs]
  BY PublishKeeps, ForestNow DEF ForestInv, IInv, TypeOK
<1>2. /\ parent' = parent /\ edge' = edge /\ kernel' = kernel /\ thread' = thread
      /\ held' = [held EXCEPT ![u] = {parent[u]}] /\ Threads' = Threads
  BY DEF Publish, Threads
<1>3. \A v \in Pairs : held'[v] = {parent[v]} \/ held'[v] = held[v]
  BY <1>1, <1>2
<1>4. Cells(kernel, parent, held')
  <2>1. \A v \in Pairs : parent[v] \in Pairs /\ Same(parent, parent[v], v)
    BY <1>1, ClimbStep DEF Forest, ClimbsRightly, IsRoot, Same
  <2> QED BY <1>1, <1>3, <2>1 DEF Cells, IsRoot
<1> QED BY <1>1, <1>2, <1>4 DEF ForestInv

LEMMA ForestInit == Init => ForestInv
<1> SUFFICES ASSUME Init PROVE ForestInv
  OBVIOUS
<1>1. IInv /\ Forest(parent)
  BY InitHolds, ForestNow
<1>2. /\ kernel = "union" /\ Threads = EdgeRows /\ \A v \in Pairs : IsRoot(parent, v)
      /\ held = [v \in Pairs |-> {v}]
      /\ \A t \in EdgeRows : /\ thread[t].pc = "load" /\ thread[t].from = "u"
                             /\ thread[t].current = edge[t][1]
  BY DEF Init, Threads, IsRoot, Searching
<1>3. \A v \in Pairs : Climb(parent, v) = v
  BY <1>1, <1>2, RootsClimb
<1>4. Cells(kernel, parent, held)
  BY <1>2 DEF Cells, Same
<1>5. Trees(kernel, edge, parent)
  BY <1>2, <1>3 DEF Trees
<1>6. \A t \in Threads : ThreadInv(kernel, edge, parent, t, thread[t])
  BY <1>2 DEF ThreadInv, Walks, Joins, Home, Same
<1> QED BY <1>1, <1>4, <1>5, <1>6 DEF ForestInv

LEMMA ForestNext == ForestInv /\ [Next]_vars => ForestInv'
<1> SUFFICES ASSUME ForestInv, [Next]_vars PROVE ForestInv'
  OBVIOUS
<1>1. CASE kernel # "done" /\ \E t \in Threads : Step(t)
  BY <1>1, StepMoves
<1>2. CASE NextKernel
  BY <1>2, NextKernelMoves
<1>3. CASE \E v \in Pairs : Publish(v)
  BY <1>3, PublishMoves
<1>4. CASE UNCHANGED vars
  <2>1. IInv'
    BY <1>4, NextKeeps DEF ForestInv
  <2>2. Threads' = Threads
    BY <1>4 DEF vars, Threads
  <2> QED BY <1>4, <2>1, <2>2 DEF vars, ForestInv
<1> QED BY <1>1, <1>2, <1>3, <1>4 DEF Next, Done

\* What the threads, the cells and the forest keep of one another under every
\* interleaving and every stale load of the two kernels.
THEOREM ForestInvariant == Spec => []ForestInv
BY ForestInit, ForestNext, PTL DEF Spec

-----------------------------------------------------------------------------
(* The roots after both kernels are the smallest pairs of the components.  *)

Grows(v, f) == f = [n \in 0..PairCount |-> IF n = 0 THEN {v} ELSE Neighbours(f[n - 1])]
Growth(v) == CHOOSE f : Grows(v, f)

LEMMA ComponentIs == ASSUME NEW v PROVE Component(v) = Growth(v)[PairCount]
BY DEF Component, Growth, Grows

\* Neighbours adds both ends of every edge that touches the set, and no more.
LEMMA NeighboursAre ==
  ASSUME TypeOK, NEW S \in SUBSET Pairs
  PROVE  /\ Neighbours(S) \in SUBSET Pairs /\ S \subseteq Neighbours(S)
         /\ \A t \in EdgeRows : edge[t][1] \in S \/ edge[t][2] \in S
              => edge[t][1] \in Neighbours(S) /\ edge[t][2] \in Neighbours(S)
         /\ \A w \in Neighbours(S) : \/ w \in S
                                     \/ \E t \in EdgeRows : /\ w \in {edge[t][1], edge[t][2]}
                                                            /\ edge[t][1] \in S \/ edge[t][2] \in S
<1> DEFINE Touch == {r \in EdgeRows : {edge[r][1], edge[r][2]} \cap S # {}}
           Ends == {{edge[t][1], edge[t][2]} : t \in Touch}
<1>1. Neighbours(S) = S \cup UNION Ends
  BY DEF Neighbours
<1>2. \A t \in EdgeRows : edge[t][1] \in Pairs /\ edge[t][2] \in Pairs
  BY DEF TypeOK
<1>3. \A t \in EdgeRows : t \in Touch <=> edge[t][1] \in S \/ edge[t][2] \in S
  OBVIOUS
<1>4. \A x : x \in Ends <=> \E t \in Touch : x = {edge[t][1], edge[t][2]}
  OBVIOUS
<1>5. Touch \subseteq EdgeRows
  OBVIOUS
<1> HIDE DEF Touch, Ends
<1>6. \A w : w \in UNION Ends <=> \E t \in Touch : w \in {edge[t][1], edge[t][2]}
  <2>1. \A w : w \in UNION Ends <=> \E x \in Ends : w \in x
    OBVIOUS
  <2>2. ASSUME NEW w, NEW x \in Ends, w \in x
        PROVE  \E t \in Touch : w \in {edge[t][1], edge[t][2]}
    <3>1. PICK t \in Touch : x = {edge[t][1], edge[t][2]}
      BY <1>4
    <3> QED BY <2>2, <3>1
  <2>3. ASSUME NEW w, NEW t \in Touch, w \in {edge[t][1], edge[t][2]}
        PROVE  \E x \in Ends : w \in x
    <3>1. {edge[t][1], edge[t][2]} \in Ends
      BY <1>4
    <3> QED BY <2>3, <3>1
  <2> QED BY <2>1, <2>2, <2>3
<1> QED BY <1>1, <1>2, <1>3, <1>5, <1>6

LEMMA GrowthExists ==
  ASSUME TypeOK, NEW v \in Pairs
  PROVE  /\ Growth(v)[0] = {v}
         /\ \A n \in 0..PairCount : Growth(v)[n] \in SUBSET Pairs
         /\ \A n \in 0..PairCount : n < PairCount => Growth(v)[n + 1] = Neighbours(Growth(v)[n])
<1> DEFINE D == SUBSET Pairs
           step == [S \in D |-> Neighbours(S)]
           y == {v}
<1>0. PairCount \in Nat /\ y \in D
  BY ForestAssumption
<1>1. step \in [D -> D] /\ \A S \in D : step[S] = Neighbours(S)
  BY NeighboursAre
<1> HIDE DEF step, D, y
<1>2. PICK f : Iterates(D, step, y, PairCount, f)
  BY <1>0, <1>1, IteratesExist
<1>3. /\ f \in [0..PairCount -> D]
      /\ \A n \in 0..PairCount : f[n] = IF n = 0 THEN y ELSE step[f[n - 1]]
  BY <1>2 DEF Iterates
<1>4. \A n \in 0..PairCount : n # 0 => n - 1 \in 0..PairCount
  BY <1>0
<1>5. \A n \in 0..PairCount : f[n] = IF n = 0 THEN {v} ELSE Neighbours(f[n - 1])
  BY <1>1, <1>3, <1>4 DEF y
<1>6. Grows(v, f)
  BY <1>3, <1>5 DEF Grows
<1>7. Grows(v, Growth(v))
  BY <1>6 DEF Growth
<1>8. Growth(v) = [n \in 0..PairCount |-> IF n = 0 THEN {v} ELSE Neighbours(Growth(v)[n - 1])]
  BY <1>7 DEF Grows
<1> DEFINE g == Growth(v)
<1>9. \A n \in 0..PairCount : g[n] = IF n = 0 THEN {v} ELSE Neighbours(g[n - 1])
  BY <1>8
<1> HIDE DEF g
<1>10. g[0] = {v}
  BY <1>0, <1>9
<1>11. \A n \in 0..PairCount : n < PairCount => g[n + 1] = Neighbours(g[n])
  <2> SUFFICES ASSUME NEW n \in 0..PairCount, n < PairCount PROVE g[n + 1] = Neighbours(g[n])
    OBVIOUS
  <2>1. n + 1 \in 0..PairCount /\ n + 1 # 0 /\ (n + 1) - 1 = n
    BY <1>0
  <2> QED BY <1>9, <2>1
<1>12. \A n \in 0..PairCount : g[n] \in SUBSET Pairs
  <2> DEFINE Good == {n \in 0..PairCount : g[n] \in SUBSET Pairs}
  <2>1. Good \in SUBSET (0..PairCount) /\ 0 \in Good
    BY <1>0, <1>10
  <2>2. ASSUME NEW n \in Good, n < PairCount PROVE n + 1 \in Good
    <3>1. n + 1 \in 0..PairCount /\ n \in 0..PairCount /\ g[n] \in SUBSET Pairs
      BY <1>0, <2>2
    <3> QED BY <1>11, <2>2, <3>1, NeighboursAre
  <2> HIDE DEF Good
  <2>3. Good = 0..PairCount
    BY <1>0, <2>1, <2>2, IntervalInduction
  <2> QED BY <2>3 DEF Good
<1> QED BY <1>10, <1>11, <1>12 DEF g

\* PairCount rounds reach the whole component: a round that adds nothing is a
\* fixed point, and no more than PairCount rounds add a pair.
LEMMA ComponentClosed ==
  ASSUME TypeOK, NEW v \in Pairs
  PROVE  Component(v) \in SUBSET Pairs /\ Closed(edge, Component(v))
<1> DEFINE g == Growth(v)
           Good == {n \in 0..PairCount : Neighbours(g[n]) = g[n] \/ Cardinality(g[n]) >= n + 1}
<1>0. PairCount \in Nat /\ IsFiniteSet(Pairs) /\ Cardinality(Pairs) = PairCount
  BY ForestAssumption, FS_Interval DEF Pairs
<1>1. /\ g[0] = {v} /\ \A n \in 0..PairCount : g[n] \in SUBSET Pairs
      /\ \A n \in 0..PairCount : n < PairCount => g[n + 1] = Neighbours(g[n])
  BY GrowthExists
<1> HIDE DEF g
<1>2. Good \in SUBSET (0..PairCount) /\ 0 \in Good
  <2>1. Cardinality({v}) = 1
    BY FS_Singleton
  <2> QED BY <1>0, <1>1, <2>1
<1>3. ASSUME NEW n \in Good, n < PairCount PROVE n + 1 \in Good
  <2>1. /\ n \in 0..PairCount /\ n + 1 \in 0..PairCount
        /\ g[n] \in SUBSET Pairs /\ g[n + 1] \in SUBSET Pairs /\ g[n + 1] = Neighbours(g[n])
    BY <1>0, <1>1, <1>3
  <2>2. CASE Neighbours(g[n]) = g[n]
    BY <2>1, <2>2
  <2>3. CASE Neighbours(g[n]) # g[n] /\ Cardinality(g[n]) >= n + 1
    <3>1. g[n] \in SUBSET g[n + 1] /\ g[n] # g[n + 1]
      BY <2>1, <2>3, NeighboursAre
    <3>2. IsFiniteSet(g[n + 1]) /\ IsFiniteSet(g[n])
      BY <1>0, <2>1, FS_Subset
    <3>3. Cardinality(g[n]) \in Nat /\ Cardinality(g[n + 1]) \in Nat
      BY <3>2, FS_CardinalityType
    <3>4. Cardinality(g[n]) <= Cardinality(g[n + 1]) /\ Cardinality(g[n]) # Cardinality(g[n + 1])
      BY <3>1, <3>2, FS_Subset
    <3>5. Cardinality(g[n + 1]) >= (n + 1) + 1
      BY <2>1, <2>3, <3>3, <3>4
    <3> QED BY <2>1, <3>5
  <2> QED BY <2>2, <2>3
<1> HIDE DEF Good
<1>4. Good = 0..PairCount
  BY <1>0, <1>2, <1>3, IntervalInduction
<1>5. Neighbours(g[PairCount]) = g[PairCount]
  <2>1. PairCount \in Good
    BY <1>0, <1>4
  <2>2. Neighbours(g[PairCount]) = g[PairCount] \/ Cardinality(g[PairCount]) >= PairCount + 1
    BY <2>1 DEF Good
  <2>3. PairCount \in 0..PairCount
    BY <1>0
  <2>4. g[PairCount] \in SUBSET Pairs
    BY <1>1, <2>3
  <2>5. IsFiniteSet(g[PairCount]) /\ Cardinality(g[PairCount]) <= PairCount
    BY <1>0, <2>4, FS_Subset
  <2>6. Cardinality(g[PairCount]) \in Nat
    BY <2>5, FS_CardinalityType
  <2> QED BY <1>0, <2>2, <2>5, <2>6
<1>6. g[PairCount] \in SUBSET Pairs
  BY <1>0, <1>1
<1>7. Closed(edge, g[PairCount])
  BY <1>5, <1>6, NeighboursAre DEF Closed
<1> QED BY <1>6, <1>7, ComponentIs DEF g

\* Once every edge lies within a tree, a component does too.
LEMMA ComponentInTree ==
  ASSUME TypeOK, NEW v \in Pairs,
         \A t \in EdgeRows : Same(parent, edge[t][1], edge[t][2])
  PROVE  v \in Component(v) /\ \A w \in Component(v) : Same(parent, w, v)
<1> DEFINE g == Growth(v)
           Good == {n \in 0..PairCount : v \in g[n] /\ \A w \in g[n] : Same(parent, w, v)}
<1>0. PairCount \in Nat
  BY ForestAssumption
<1>1. /\ g[0] = {v} /\ \A n \in 0..PairCount : g[n] \in SUBSET Pairs
      /\ \A n \in 0..PairCount : n < PairCount => g[n + 1] = Neighbours(g[n])
  BY GrowthExists
<1> HIDE DEF g
<1>2. Good \in SUBSET (0..PairCount) /\ 0 \in Good
  BY <1>0, <1>1 DEF Same
<1>3. ASSUME NEW n \in Good, n < PairCount PROVE n + 1 \in Good
  <2>1. /\ n \in 0..PairCount /\ n + 1 \in 0..PairCount
        /\ g[n] \in SUBSET Pairs /\ g[n + 1] = Neighbours(g[n])
        /\ v \in g[n] /\ \A w \in g[n] : Same(parent, w, v)
    BY <1>0, <1>1, <1>3
  <2>2. v \in g[n + 1]
    BY <2>1, NeighboursAre
  <2>3. ASSUME NEW w \in g[n + 1] PROVE Same(parent, w, v)
    <3>1. CASE w \in g[n]
      BY <2>1, <3>1
    <3>2. CASE \E t \in EdgeRows : /\ w \in {edge[t][1], edge[t][2]}
                                   /\ edge[t][1] \in g[n] \/ edge[t][2] \in g[n]
      <4>1. PICK t \in EdgeRows : /\ w \in {edge[t][1], edge[t][2]}
                                  /\ edge[t][1] \in g[n] \/ edge[t][2] \in g[n]
        BY <3>2
      <4>2. Same(parent, edge[t][1], v) \/ Same(parent, edge[t][2], v)
        BY <2>1, <4>1
      <4>3. Same(parent, edge[t][1], edge[t][2])
        OBVIOUS
      <4> QED BY <4>1, <4>2, <4>3 DEF Same
    <3> QED BY <2>1, <2>3, <3>1, <3>2, NeighboursAre
  <2> QED BY <2>1, <2>2, <2>3
<1> HIDE DEF Good
<1>4. Good = 0..PairCount
  BY <1>0, <1>2, <1>3, IntervalInduction
<1>5. PairCount \in Good
  BY <1>0, <1>4
<1>6. v \in g[PairCount] /\ \A w \in g[PairCount] : Same(parent, w, v)
  BY <1>5 DEF Good
<1> QED BY <1>6, ComponentIs DEF g

\* _kernel_verify_antipodal_components accepts what the two kernels built: for
\* every graph, schedule and stale load, every pair stores the smallest pair of
\* its component.
THEOREM RootsFound == Spec => []RootsAreComponents
<1>1. ForestInv => RootsAreComponents
  <2> SUFFICES ASSUME ForestInv, kernel = "done", NEW v \in Pairs
               PROVE  parent[v] = Min(Component(v))
    BY DEF RootsAreComponents
  <2>1. TypeOK /\ Trees(kernel, edge, parent) /\ Forest(parent)
    BY ForestNow DEF ForestInv, IInv
  <2>2. /\ \A t \in EdgeRows : Same(parent, edge[t][1], edge[t][2])
        /\ parent[v] = Climb(parent, v)
    BY <2>1 DEF Trees
  <2>3. /\ v \in Component(v) /\ \A w \in Component(v) : Same(parent, w, v)
        /\ Component(v) \in SUBSET Pairs /\ Closed(edge, Component(v))
    BY <2>1, <2>2, ComponentInTree, ComponentClosed
  <2>4. Climb(parent, v) \in Component(v)
    BY <2>1, <2>3 DEF Trees
  <2>5. \A w \in Component(v) : Climb(parent, v) <= w
    BY <2>1, <2>3, ClimbRoot DEF Same
  <2>6. Component(v) \subseteq Int
    BY <2>3, ForestAssumption DEF Pairs
  <2> DEFINE C == Component(v)
             r == Climb(parent, v)
  <2>7. r \in C /\ (\A w \in C : r <= w) /\ C \subseteq Int
    BY <2>4, <2>5, <2>6
  <2> HIDE DEF C, r
  <2>8. Min(C) \in C /\ \A w \in C : Min(C) =< w
    BY <2>7 DEF Min
  <2>9. Min(C) = r
    <3>1. Min(C) \in Int /\ r \in Int
      BY <2>7, <2>8
    <3>2. Min(C) <= r /\ r <= Min(C)
      BY <2>7, <2>8
    <3> QED BY <3>1, <3>2
  <2> QED BY <2>2, <2>9 DEF C, r
<1> QED BY <1>1, ForestInvariant, PTL

-----------------------------------------------------------------------------
(* The partition into trees only ever merges two blocks.                   *)

Tree(p, v) == {w \in Pairs : Same(p, w, v)}
BlocksOf(p) ==
  LET rooted == {<<v, Climb(p, v)>> : v \in Pairs}
  IN {{q[1] : q \in {s \in rooted : s[2] = r[2]}} : r \in rooted}

LEMMA BlocksNow == Blocks = BlocksOf(parent) /\ Blocks' = BlocksOf(parent')
BY DEF Blocks, RootOf, BlocksOf, Climb

\* The blocks are the trees.
LEMMA BlocksAre ==
  ASSUME NEW p
  PROVE  /\ \A v \in Pairs : Tree(p, v) \in BlocksOf(p)
         /\ \A B \in BlocksOf(p) : \E v \in Pairs : B = Tree(p, v)
<1> DEFINE rooted == {<<v, Climb(p, v)>> : v \in Pairs}
           Block(r) == {q[1] : q \in {s \in rooted : s[2] = r[2]}}
<1>1. \A r : r \in rooted <=> \E v \in Pairs : r = <<v, Climb(p, v)>>
  OBVIOUS
<1>2. ASSUME NEW v \in Pairs, NEW r, r = <<v, Climb(p, v)>>
      PROVE  Block(r) = Tree(p, v)
  <2>1. r[2] = Climb(p, v)
    BY <1>2
  <2>2. ASSUME NEW w \in Block(r) PROVE w \in Tree(p, v)
    <3>1. PICK q \in rooted : q[2] = r[2] /\ w = q[1]
      BY <2>2
    <3>2. PICK x \in Pairs : q = <<x, Climb(p, x)>>
      BY <1>1, <3>1
    <3> QED BY <2>1, <3>1, <3>2 DEF Tree, Same
  <2>3. ASSUME NEW w \in Tree(p, v) PROVE w \in Block(r)
    <3>1. w \in Pairs /\ Climb(p, w) = Climb(p, v)
      BY <2>3 DEF Tree, Same
    <3> DEFINE q == <<w, Climb(p, w)>>
    <3>2. q \in rooted /\ q[2] = r[2] /\ w = q[1]
      BY <1>1, <2>1, <3>1
    <3> HIDE DEF q
    <3> QED BY <3>2
  <2> HIDE DEF Block
  <2> QED BY <2>2, <2>3
<1>3. BlocksOf(p) = {Block(r) : r \in rooted}
  BY DEF BlocksOf
<1> HIDE DEF Block, rooted
<1>4. ASSUME NEW v \in Pairs PROVE Tree(p, v) \in BlocksOf(p)
  <2> DEFINE r == <<v, Climb(p, v)>>
  <2>1. r \in rooted /\ Block(r) = Tree(p, v)
    BY <1>1, <1>2
  <2> QED BY <1>3, <2>1
<1>5. ASSUME NEW B \in BlocksOf(p) PROVE \E v \in Pairs : B = Tree(p, v)
  <2>1. PICK r \in rooted : B = Block(r)
    BY <1>3, <1>5
  <2>2. PICK v \in Pairs : r = <<v, Climb(p, v)>>
    BY <1>1, <2>1
  <2> QED BY <1>2, <2>1, <2>2
<1> QED BY <1>4, <1>5

\* Trees that no pair left or joined make the same partition.
LEMMA BlocksStay ==
  ASSUME NEW p, NEW q, Unmoved(p, q)
  PROVE  BlocksOf(q) = BlocksOf(p)
<1>1. \A v \in Pairs : Tree(q, v) = Tree(p, v)
  BY DEF Unmoved, Tree, Same
<1>2. \A B \in BlocksOf(q) : B \in BlocksOf(p)
  BY <1>1, BlocksAre
<1>3. \A B \in BlocksOf(p) : B \in BlocksOf(q)
  BY <1>1, BlocksAre
<1> QED BY <1>2, <1>3

\* A root hung below another tree merges the two blocks.
LEMMA BlocksMerge ==
  ASSUME NEW p, NEW q, NEW h \in Pairs, NEW l \in Pairs, Climb(p, h) = h, Climb(p, l) # h,
         \A v \in Pairs : Climb(q, v) = IF Climb(p, v) = h THEN Climb(p, l) ELSE Climb(p, v)
  PROVE  /\ Tree(p, h) # Tree(p, l)
         /\ BlocksOf(q) = (BlocksOf(p) \ {Tree(p, h), Tree(p, l)}) \cup {Tree(p, h) \cup Tree(p, l)}
<1> DEFINE B == Tree(p, h)
           C == Tree(p, l)
<1>1. \A v \in Pairs : /\ v \in B <=> Climb(p, v) = h
                       /\ v \in C <=> Climb(p, v) = Climb(p, l)
                       /\ v \in Tree(p, v)
  BY DEF Tree, Same
<1>2. h \in B /\ l \notin B /\ l \in C /\ B \subseteq Pairs /\ C \subseteq Pairs
  BY DEF Tree, Same
<1>3. ASSUME NEW v \in Pairs PROVE Tree(q, v) = IF v \in B \/ v \in C THEN B \cup C ELSE Tree(p, v)
  <2>1. CASE v \in B \/ v \in C
    <3>1. Climb(q, v) = Climb(p, l)
      BY <1>1, <2>1
    <3>2. \A w \in Pairs : Climb(q, w) = Climb(p, l) <=> w \in B \/ w \in C
      BY <1>1
    <3> HIDE DEF B, C
    <3> QED BY <1>2, <2>1, <3>1, <3>2 DEF Tree, Same
  <2>2. CASE ~(v \in B \/ v \in C)
    <3>1. Climb(q, v) = Climb(p, v) /\ Climb(p, v) # h /\ Climb(p, v) # Climb(p, l)
      BY <1>1, <2>2
    <3>2. \A w \in Pairs : Climb(q, w) = Climb(q, v) <=> Climb(p, w) = Climb(p, v)
      BY <3>1
    <3> HIDE DEF B, C
    <3> QED BY <2>2, <3>2 DEF Tree, Same
  <2> QED BY <2>1, <2>2
<1>4. ASSUME NEW v \in Pairs PROVE /\ v \in B => Tree(p, v) = B
                                   /\ v \in C => Tree(p, v) = C
  BY <1>1 DEF Tree, Same
<1> HIDE DEF B, C
<1>5. \A X \in BlocksOf(q) : X \in (BlocksOf(p) \ {B, C}) \cup {B \cup C}
  <2> SUFFICES ASSUME NEW v \in Pairs, ~(v \in B \/ v \in C)
               PROVE  Tree(p, v) \in BlocksOf(p) \ {B, C}
    BY <1>3, BlocksAre
  <2> QED BY <1>1, BlocksAre
<1>6. B \cup C \in BlocksOf(q)
  BY <1>2, <1>3, BlocksAre
<1>7. \A X \in BlocksOf(p) \ {B, C} : X \in BlocksOf(q)
  <2> SUFFICES ASSUME NEW X \in BlocksOf(p), X # B, X # C PROVE X \in BlocksOf(q)
    OBVIOUS
  <2>1. PICK v \in Pairs : X = Tree(p, v)
    BY BlocksAre
  <2>2. ~(v \in B \/ v \in C)
    BY <1>4, <2>1
  <2>3. Tree(q, v) = X
    BY <1>3, <2>1, <2>2
  <2> QED BY <2>3, BlocksAre
<1>8. B # C
  BY <1>2
<1>9. BlocksOf(q) = (BlocksOf(p) \ {B, C}) \cup {B \cup C}
  BY <1>5, <1>6, <1>7
<1> QED BY <1>8, <1>9 DEF B, C

\* What a step of a thread does to the partition.
LEMMA HookMerges ==
  ASSUME ForestInv, kernel # "done", NEW t \in Threads, Hook(t)
  PROVE  Unmoved(parent, parent') \/ M!Next
<1>0. /\ kernel = "union" /\ t \in EdgeRows
      /\ High(t) \in Pairs /\ Low(t) \in Pairs /\ Low(t) < High(t)
      /\ \/ Same(parent, edge[t][1], High(t)) /\ Same(parent, edge[t][2], Low(t))
         \/ Same(parent, edge[t][1], Low(t)) /\ Same(parent, edge[t][2], High(t))
  BY HookFacts
<1>1. CompareAndSwap(High(t), High(t), Low(t)) /\ edge' = edge
  BY DEF Hook
<1>2. CASE parent[High(t)] # High(t)
  BY <1>1, <1>2 DEF CompareAndSwap, Unmoved
<1>3. CASE parent[High(t)] = High(t)
  <2> DEFINE h == High(t)
             l == Low(t)
  <2>1. /\ h \in Pairs /\ l \in Pairs /\ IsRoot(parent, h) /\ l < h /\ Write(h, l)
        /\ \/ Same(parent, edge[t][1], h) /\ Same(parent, edge[t][2], l)
           \/ Same(parent, edge[t][1], l) /\ Same(parent, edge[t][2], h)
    BY <1>0, <1>1, <1>3 DEF CompareAndSwap, IsRoot
  <2> HIDE DEF h, l
  <2>2. /\ Climb(parent, l) # h
        /\ \A v \in Pairs : Climb(parent', v)
             = IF Climb(parent, v) = h THEN Climb(parent, l) ELSE Climb(parent, v)
    BY <1>0, <2>1, Hooked
  <2>3. Climb(parent, h) = h /\ IInv
    BY <2>1, ForestNow, RootsClimb DEF ForestInv
  <2> DEFINE B == Tree(parent, h)
             C == Tree(parent, l)
  <2>4. B # C /\ BlocksOf(parent') = (BlocksOf(parent) \ {B, C}) \cup {B \cup C}
    BY <2>1, <2>2, <2>3, BlocksMerge
  <2>5. B \in BlocksOf(parent) /\ C \in BlocksOf(parent)
    BY <2>1, BlocksAre
  <2>6. edge[t] \in {edge[s] : s \in EdgeRows} /\ edge[t][1] \in Pairs /\ edge[t][2] \in Pairs
    BY <1>0, <2>3 DEF IInv, TypeOK
  <2>7. {edge[t][1], edge[t][2]} \cap B # {} /\ {edge[t][1], edge[t][2]} \cap C # {}
    BY <2>1, <2>6 DEF Tree
  <2>8. {edge'[s] : s \in EdgeRows} = {edge[s] : s \in EdgeRows}
    BY <1>1
  <2> HIDE DEF B, C
  <2>9. /\ \E e \in {edge[s] : s \in EdgeRows} : {e[1], e[2]} \cap B # {} /\ {e[1], e[2]} \cap C # {}
        /\ Blocks' = (Blocks \ {B, C}) \cup {B \cup C}
    BY <2>4, <2>6, <2>7, BlocksNow
  <2>10. M!Merge(B, C)
    BY <2>4, <2>8, <2>9 DEF M!Merge
  <2> QED BY <2>5, <2>10, BlocksNow DEF M!Next
<1> QED BY <1>2, <1>3

LEMMA StepMerges ==
  ASSUME ForestInv, kernel # "done", NEW t \in Threads, Step(t)
  PROVE  Unmoved(parent, parent') \/ M!Next
<1>1. CASE LoadParent(t) \/ LoadGrandparent(t)
  BY <1>1 DEF LoadParent, LoadGrandparent, Unmoved
<1>2. CASE Halve(t)
  BY <1>2, HalveMoves DEF Halve
<1>3. CASE Hook(t)
  BY <1>3, HookMerges
<1>4. CASE StoreRoot(t)
  BY <1>4, StoreMoves DEF StoreRoot
<1> QED BY <1>1, <1>2, <1>3, <1>4 DEF Step

LEMMA MergesInit == Init => M!Init
<1> SUFFICES ASSUME Init PROVE Blocks = {{v} : v \in Pairs}
  BY DEF M!Init
<1>1. \A v \in Pairs : Climb(parent, v) = v
  <2>1. Forest(parent) /\ \A v \in Pairs : IsRoot(parent, v)
    BY InitHolds, ForestNow DEF Init, IsRoot
  <2> QED BY <2>1, RootsClimb
<1>2. \A v \in Pairs : Tree(parent, v) = {v}
  BY <1>1 DEF Tree, Same
<1>3. \A B \in BlocksOf(parent) : B \in {{v} : v \in Pairs}
  BY <1>2, BlocksAre
<1>4. \A B \in {{v} : v \in Pairs} : B \in BlocksOf(parent)
  <2> SUFFICES ASSUME NEW v \in Pairs PROVE {v} \in BlocksOf(parent)
    OBVIOUS
  <2>1. Tree(parent, v) \in BlocksOf(parent)
    BY BlocksAre
  <2> QED BY <1>2, <2>1
<1> QED BY <1>3, <1>4, BlocksNow

LEMMA MergesNext == ForestInv /\ [Next]_vars => [M!Next]_M!vars
<1> SUFFICES ASSUME ForestInv, [Next]_vars PROVE M!Next \/ UNCHANGED M!vars
  OBVIOUS
<1>1. edge' = edge
  BY DEF Next, Step, LoadParent, LoadGrandparent, Halve, Hook, StoreRoot, NextKernel, Publish,
         Done, vars
<1>2. Unmoved(parent, parent') \/ M!Next
  <2>1. CASE kernel # "done" /\ \E t \in Threads : Step(t)
    BY <2>1, StepMerges
  <2>2. CASE parent' = parent
    BY <2>2 DEF Unmoved
  <2> QED BY <2>1, <2>2 DEF Next, NextKernel, Publish, Done, vars
<1>3. Unmoved(parent, parent') => Blocks' = Blocks
  BY BlocksStay, BlocksNow
<1>4. {edge'[t] : t \in EdgeRows} = {edge[t] : t \in EdgeRows}
  BY <1>1
<1> QED BY <1>2, <1>3, <1>4 DEF M!vars

\* Seen as a partition of the pairs, the two kernels implement Merging: every
\* load, halving, lost swap and store leaves the partition alone, and a
\* successful hook merges two blocks that an edge joins.
THEOREM ForestMerges == Spec => OnlyMerges
<1>1. Init => M!Init
  BY MergesInit
<1>2. ForestInv /\ [Next]_vars => [M!Next]_M!vars
  BY MergesNext
<1> QED BY <1>1, <1>2, ForestInvariant, PTL DEF Spec, OnlyMerges, M!Spec
=============================================================================
