-------------------------- MODULE ComponentForest --------------------------
(***************************************************************************)
(* The concurrent union-find of the two component rules                    *)
(* (rule_antipodal_components.cu and, with the same code,                  *)
(* rule_linf_components.cu).                                               *)
(*                                                                         *)
(* One kernel runs a thread per row; the thread of a merge row joins the   *)
(* two pairs of its edge by hooking the larger root under the smaller with *)
(* a compare-and-swap, and every search halves the path it walks.  The     *)
(* next kernel runs a thread per pair and stores the root it finds.  Every *)
(* load, compare-and-swap and store of parent[] is a step of its own.      *)
(*                                                                         *)
(* The loads are plain loads beside other threads' atomics, so the build   *)
(* may return a value the cell held before, until the last write has       *)
(* reached every cache.  A kernel boundary makes all writes visible.       *)
(***************************************************************************)
EXTENDS Integers, FiniteSets, FiniteSetsExt

CONSTANTS
  PairCount,    \* pair_count
  EdgeCount     \* rows with an edge (the others return at once)

ASSUME ForestAssumption == PairCount \in Nat /\ EdgeCount \in Nat

Pairs == 1..PairCount
EdgeRows == 1..EdgeCount

VARIABLES
  edge,      \* edge_by_row, unpacked: <<lower pair, higher pair>>
  kernel,    \* "union", "compress" or "done"
  parent,    \* analysis.parent
  held,      \* the values a load of each cell of parent may see
  thread     \* the locals of every thread of the running kernel

vars == <<edge, kernel, parent, held, thread>>

\* A thread about to search from vertex; from is which end of its edge that is.
Searching(vertex, from, root) ==
  [pc |-> "load", from |-> from, current |-> vertex, next |-> vertex,
   grand |-> vertex, rootU |-> root, rootV |-> root]

Init ==
  /\ edge \in [EdgeRows -> {e \in Pairs \X Pairs : e[1] < e[2]}]
  /\ kernel = "union"
  /\ parent = [v \in Pairs |-> v]
  /\ held = [v \in Pairs |-> {v}]
  /\ thread = [t \in EdgeRows |-> Searching(edge[t][1], "u", edge[t][1])]

Threads == IF kernel = "compress" THEN Pairs ELSE EdgeRows

Write(v, value) ==
  /\ parent' = [parent EXCEPT ![v] = value]
  /\ held' = [held EXCEPT ![v] = @ \cup {value}]
\* atomicCAS(parent + v, expected, value), which always sees the last value.
CompareAndSwap(v, expected, value) ==
  IF parent[v] = expected THEN Write(v, value) ELSE UNCHANGED <<parent, held>>

\* A thread th whose search ended at root.
Found(t, th, root) ==
  IF kernel = "compress" THEN [th EXCEPT !.pc = "store", !.rootU = root]
  ELSE IF th.from = "u" THEN Searching(edge[t][2], "v", root)
  ELSE [th EXCEPT !.pc = IF root = th.rootU THEN "end" ELSE "hook", !.rootV = root]

LoadParent(t) ==
  /\ thread[t].pc = "load"
  /\ \E v \in held[thread[t].current] :
       thread' = [thread EXCEPT ![t].pc = "loadNext", ![t].next = v]
  /\ UNCHANGED <<edge, kernel, parent, held>>

\* The load of the grandparent, and the return when current is a root.
LoadGrandparent(t) ==
  /\ thread[t].pc = "loadNext"
  /\ \E v \in held[thread[t].next] :
       thread' = [thread EXCEPT ![t] =
         IF v = @.next /\ @.current = @.next THEN Found(t, @, @.next)
         ELSE [@ EXCEPT !.pc = "halve", !.grand = v]]
  /\ UNCHANGED <<edge, kernel, parent, held>>

Halve(t) ==
  LET th == thread[t]
  IN /\ th.pc = "halve"
     /\ CompareAndSwap(th.current, th.next, th.grand)
     /\ thread' = [thread EXCEPT ![t] =
          IF th.next = th.grand THEN Found(t, th, th.next)
          ELSE [th EXCEPT !.pc = "load", !.current = th.grand]]
     /\ UNCHANGED <<edge, kernel>>

High(t) == Max({thread[t].rootU, thread[t].rootV})
Low(t) == Min({thread[t].rootU, thread[t].rootV})

\* Mutant of Hook: the smaller root goes under the larger.
HookUnderHigh(t) ==
  /\ thread[t].pc = "hook"
  /\ CompareAndSwap(Low(t), Low(t), High(t))
  /\ thread' = [thread EXCEPT ![t] = IF parent[Low(t)] = Low(t)
       THEN [@ EXCEPT !.pc = "end"] ELSE Searching(edge[t][1], "u", edge[t][1])]
  /\ UNCHANGED <<edge, kernel>>
\* Mutant of Hook: the thread ends whether or not the swap succeeded.
HookOnce(t) ==
  /\ thread[t].pc = "hook"
  /\ CompareAndSwap(High(t), High(t), Low(t))
  /\ thread' = [thread EXCEPT ![t].pc = "end"]
  /\ UNCHANGED <<edge, kernel>>
\* Mutant of Hook: a plain store where the swap is.
HookByStore(t) ==
  /\ thread[t].pc = "hook"
  /\ Write(High(t), Low(t))
  /\ thread' = [thread EXCEPT ![t].pc = "end"]
  /\ UNCHANGED <<edge, kernel>>
\* Mutant of Hook: a failed swap is tried again with the same roots.
HookAgain(t) ==
  /\ thread[t].pc = "hook"
  /\ CompareAndSwap(High(t), High(t), Low(t))
  /\ thread' = [thread EXCEPT ![t].pc = IF parent[High(t)] = High(t) THEN "end" ELSE "hook"]
  /\ UNCHANGED <<edge, kernel>>
Hook(t) ==
  /\ thread[t].pc = "hook"
  /\ CompareAndSwap(High(t), High(t), Low(t))
  /\ thread' = [thread EXCEPT ![t] = IF parent[High(t)] = High(t)
       THEN [@ EXCEPT !.pc = "end"] ELSE Searching(edge[t][1], "u", edge[t][1])]
  /\ UNCHANGED <<edge, kernel>>

\* _kernel_compress_components: the plain store of the root.
StoreRoot(t) ==
  /\ thread[t].pc = "store"
  /\ Write(t, thread[t].rootU)
  /\ thread' = [thread EXCEPT ![t].pc = "end"]
  /\ UNCHANGED <<edge, kernel>>

\* The next kernel of the stream starts when every thread of this one ended.
NextKernel ==
  /\ kernel # "done"
  /\ \A t \in Threads : thread[t].pc = "end"
  /\ kernel' = IF kernel = "union" THEN "compress" ELSE "done"
  /\ held' = [v \in Pairs |-> {parent[v]}]
  /\ thread' = IF kernel = "union" THEN [v \in Pairs |-> Searching(v, "u", v)] ELSE << >>
  /\ UNCHANGED <<edge, parent>>

\* The last write of a cell has reached every cache.
Publish(v) ==
  /\ kernel # "done" /\ held[v] # {parent[v]}
  /\ held' = [held EXCEPT ![v] = {parent[v]}]
  /\ UNCHANGED <<edge, kernel, parent, thread>>

Step(t) ==
  \/ LoadParent(t) \/ LoadGrandparent(t) \/ Halve(t) \/ Hook(t) \/ StoreRoot(t)

Done == kernel = "done" /\ UNCHANGED vars

Next ==
  \/ kernel # "done" /\ \E t \in Threads : Step(t)
  \/ \E v \in Pairs : Publish(v)
  \/ NextKernel
  \/ Done

Spec == Init /\ [][Next]_vars

\* Every resident thread makes progress, a write is visible to all at last, and
\* a kernel that ended is followed by the next one of the stream.
Fairness ==
  /\ \A t \in 1..(PairCount + EdgeCount) :
       WF_vars(kernel # "done" /\ t \in Threads /\ Step(t))
  /\ \A v \in Pairs : WF_vars(Publish(v))
  /\ WF_vars(NextKernel)
LiveSpec == Spec /\ Fairness

-----------------------------------------------------------------------------
(* Properties.                                                             *)

Locals ==
  [pc : {"load", "loadNext", "halve", "hook", "store", "end"}, from : {"u", "v"},
   current : Pairs, next : Pairs, grand : Pairs, rootU : Pairs, rootV : Pairs]

\* Every variable has its type.
TypeOK ==
  /\ edge \in [EdgeRows -> Pairs \X Pairs]
  /\ kernel \in {"union", "compress", "done"}
  /\ parent \in [Pairs -> Pairs]
  /\ held \in [Pairs -> SUBSET Pairs]
  /\ kernel # "done" => thread \in [Threads -> Locals]

\* "Hooks strictly decrease root indices, so the forest is acyclic"
\* (rule_antipodal_components.cu:262): whatever threads interleave and however
\* stale their loads, no parent is above its child.
ForestDescends == \A v \in Pairs : parent[v] <= v

\* The pairs reachable from a set of pairs along the edges.
Neighbours(S) ==
  S \cup UNION {{edge[t][1], edge[t][2]} :
                  t \in {r \in EdgeRows : {edge[r][1], edge[r][2]} \cap S # {}}}
Component(v) ==
  LET grown[n \in 0..PairCount] == IF n = 0 THEN {v} ELSE Neighbours(grown[n - 1])
  IN grown[PairCount]

\* The schedule leaves no trace: after both kernels every pair stores the
\* smallest pair of its component, so _kernel_verify_antipodal_components never
\* rejects and the root count is the number of components.
RootsAreComponents ==
  kernel = "done" => \A v \in Pairs : parent[v] = Min(Component(v))

\* The root of a pair, following parent.
RootOf(v) ==
  LET up[n \in 0..PairCount] == IF n = 0 THEN v ELSE parent[up[n - 1]]
  IN up[PairCount]
Blocks ==
  LET rooted == {<<v, RootOf(v)>> : v \in Pairs}
  IN {{q[1] : q \in {s \in rooted : s[2] = p[2]}} : p \in rooted}
M == INSTANCE Merging WITH
  Vertices <- Pairs, edges <- {edge[t] : t \in EdgeRows}, blocks <- Blocks

\* Seen as a partition, the forest only ever merges two blocks that an edge
\* joins: no halving, lost swap or store splits a component or joins two that
\* no row relates.
OnlyMerges == M!Spec

\* "No iteration cap is needed, even for long parent chains"
\* (rule_antipodal_components.cu:263): both loops end.
Finishes == <>(kernel = "done")
=============================================================================
