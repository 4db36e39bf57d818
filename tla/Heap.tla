-------------------------------- MODULE Heap --------------------------------
(***************************************************************************)
(* The binomial heaps of include/heap.h, in which load.c and stdump.c sort *)
(* the events of a schedule.  An operation is one action; the loops inside *)
(* are rounds on the store the operation works on.                         *)
(*                                                                         *)
(* A list of nodes linked by next (roots, or the children of a node) is a  *)
(* sequence; parent and degree are the fields of struct heap_node.  A node *)
(* is a place that holds an item (its value), and may change the item it   *)
(* holds: ref says in which node an item is, for items that were given a   *)
(* reference (heap_node_init_ref).                                         *)
(***************************************************************************)
EXTENDS Naturals, Sequences, SequencesExt, FiniteSets

CONSTANTS
    Nodes,         \* the nodes; initially each holds the item of its own name
    Heaps,         \* the heaps
    Prios,         \* priorities, a lower number is a higher priority
    WithRef,       \* items with a reference to their node
    NULL

\* UINT_MAX: larger than any degree.
NOT_IN_HEAP == 2147483647

ASSUME HeapAssumption ==
    /\ IsFiniteSet(Nodes) /\ Cardinality(Nodes) < NOT_IN_HEAP
    /\ NULL \notin Nodes /\ Prios \subseteq Nat /\ WithRef \subseteq Nodes

VARIABLES
    store,         \* the fields of the heaps and of the nodes
    prio,          \* the priority of an item
    result         \* the item the last operation returned, or NULL

vars == <<store, prio, result>>

Init ==
    /\ store = [roots  |-> [h \in Heaps |-> <<>>], min |-> [h \in Heaps |-> NULL],
                child  |-> [n \in Nodes |-> <<>>], parent |-> [n \in Nodes |-> NULL],
                degree |-> [n \in Nodes |-> NOT_IN_HEAP],
                value  |-> [n \in Nodes |-> n], ref |-> [i \in Nodes |-> i]]
    /\ prio \in [Nodes -> Prios] /\ result = NULL

higher_prio(s, a, b) == prio[s.value[a]] < prio[s.value[b]]

heap_node_in_heap(n) == store.degree[n] # NOT_IN_HEAP

-----------------------------------------------------------------------------
(* The loops.  Each operator returns what the loop leaves behind.          *)

\* What n rounds make of start.  A round that finds its loop at an end changes
\* nothing, and n is a number of rounds after which the loop has come to its end.
Rounds(Round(_), start, n) ==
    LET r[i \in Nat] == IF i = 0 THEN start ELSE Round(r[i - 1]) IN r[n]

\* __heap_link: child becomes the first child of root.
Link(s, root, child) ==
    [s EXCEPT !.parent[child] = root, !.child[root] = <<child>> \o @, !.degree[root] = @ + 1]

\* __heap_merge: two lists of roots in the order of their degrees.
MergeRound(s, m) ==
    IF m.a = <<>> \/ m.b = <<>> THEN m
    ELSE IF s.degree[Head(m.a)] < s.degree[Head(m.b)]
         THEN [out |-> Append(m.out, Head(m.a)), a |-> Tail(m.a), b |-> m.b]
         ELSE [out |-> Append(m.out, Head(m.b)), a |-> m.a, b |-> Tail(m.b)]

Merge(s, a, b) ==
    LET m == Rounds(LAMBDA x : MergeRound(s, x), [out |-> <<>>, a |-> a, b |-> b],
                    Len(a) + Len(b))
    IN  m.out \o m.a \o m.b

\* Mutant: three trees of one degree are not told from two.
AdvancesIfDifferent(s, q, k) == s.degree[q[k]] # s.degree[q[k + 1]]

\* The loop of __heap_union leaves the root at k alone: the next one differs in
\* degree, or is the second of three that agree.
Advances(s, q, k) ==
    \/ s.degree[q[k]] # s.degree[q[k + 1]]
    \/ k + 2 <= Len(q) /\ s.degree[q[k + 2]] = s.degree[q[k]]

\* The loop of __heap_union over the merged list u.q, at position u.k.
UnionRound(u) ==
    IF u.k >= Len(u.q) THEN u
    ELSE IF Advances(u.s, u.q, u.k) THEN [u EXCEPT !.k = @ + 1]
    ELSE IF higher_prio(u.s, u.q[u.k], u.q[u.k + 1])
         THEN [u EXCEPT !.s = Link(@, u.q[u.k], u.q[u.k + 1]), !.q = RemoveAt(@, u.k + 1)]
         ELSE [u EXCEPT !.s = Link(@, u.q[u.k + 1], u.q[u.k]), !.q = RemoveAt(@, u.k)]

Consolidate(s, h, q) ==
    LET u == Rounds(UnionRound, [s |-> s, q |-> q, k |-> 1], Len(q))
    IN  [u.s EXCEPT !.roots[h] = u.q]

\* __heap_union: the list q2 is merged into the roots of h.
Unite(s, h, q2) ==
    IF q2 = <<>> THEN s
    ELSE IF s.roots[h] = <<>> THEN [s EXCEPT !.roots[h] = q2]
    ELSE Consolidate(s, h, Merge(s, s.roots[h], q2))

\* __heap_reverse: the children of n no longer have a parent.
Orphans(s, n) ==
    [s EXCEPT !.parent = [m \in Nodes |-> IF m \in ToSet(s.child[n]) THEN NULL ELSE @[m]]]

\* The root at position k leaves the list, and its children become roots.
RemoveRoot(s, h, k) ==
    LET n == s.roots[h][k]
    IN  Unite(Orphans([s EXCEPT !.roots[h] = RemoveAt(@, k)], n), h, Reverse(s.child[n]))

\* Mutant: the first root is taken for the lowest.
LowestFirst(s, h) == 1

\* __heap_min: the first root that none has a higher priority than.
Lowest(s, h) ==
    LET q == s.roots[h]
    IN  CHOOSE k \in DOMAIN q : /\ \A j \in DOMAIN q : ~higher_prio(s, q[j], q[k])
                                /\ \A j \in 1 .. (k - 1) : higher_prio(s, q[k], q[j])

\* heap_peek, and the first half of heap_take: the lowest root is cached.
Cache(s, h) ==
    IF s.min[h] # NULL \/ s.roots[h] = <<>> THEN s
    ELSE LET k == Lowest(s, h)
         IN  [RemoveRoot(s, h, k) EXCEPT !.min[h] = s.roots[h][k]]

\* The fields that insertion sets.
Reset(s, n) == [s EXCEPT !.child[n] = <<>>, !.parent[n] = NULL, !.degree[n] = 0]

\* The node comes before the cached one.
Overtakes(s, h, n) == s.min[h] # NULL /\ higher_prio(s, n, s.min[h])

\* heap_insert: the node takes the place of the cached one if its priority is
\* higher.
Add(s, h, n) ==
    IF Overtakes(s, h, n)
    THEN [Unite(Reset(Reset(s, n), s.min[h]), h, <<s.min[h]>>) EXCEPT !.min[h] = n]
    ELSE Unite(Reset(s, n), h, <<n>>)

\* A node leaves the heaps.  The code sets its degree only; the other fields are
\* not read before insertion sets them, so the model clears them at once.
Leave(s, n) == [Reset(s, n) EXCEPT !.degree[n] = NOT_IN_HEAP]

\* __uncache_min
Uncache(s, h) ==
    IF s.min[h] = NULL THEN s ELSE Add([s EXCEPT !.min[h] = NULL], h, s.min[h])

\* Mutant: only the item that moves up has its reference updated.
SwapOneRef(s, n, p) ==
    LET up == s.value[n]   down == s.value[p]
    IN  [s EXCEPT !.value[n] = down, !.value[p] = up, !.ref[up] = p]

\* Node n and its parent p exchange their items.  The reference of an item without
\* one is NULL, and there is nothing to update.
Swap(s, n, p) ==
    LET up == s.value[n]   down == s.value[p]
    IN  [s EXCEPT !.value[n] = down, !.value[p] = up,
                  !.ref = [i \in Nodes |-> IF i = up THEN p
                                           ELSE IF i = down /\ i \in WithRef THEN n ELSE @[i]]]

\* The loop of heap_decrease: the item in b.n goes up as long as its priority in pr
\* is higher than that of the parent's item.
BubbleRound(b, pr) ==
    LET p == b.s.parent[b.n]
    IN  IF p # NULL /\ pr[b.s.value[b.n]] < pr[b.s.value[p]]
        THEN [s |-> Swap(b.s, b.n, p), n |-> p] ELSE b

\* The loop of heap_delete: the item in b.n goes to the root.
RootRound(b) ==
    LET p == b.s.parent[b.n]
    IN  IF p # NULL THEN [s |-> Swap(b.s, b.n, p), n |-> p] ELSE b

\* No path is longer than there are nodes.
Bubble(Round(_), s, n) == Rounds(Round, [s |-> s, n |-> n], Cardinality(Nodes))

-----------------------------------------------------------------------------
(* The operations.  A caller inserts only nodes that are in no heap, and   *)
(* names a heap that holds the node it deletes.                            *)

\* The nodes that the lists of children lead to from the roots.
InTrees(h)  ==
    Rounds(LAMBDA S : UNION {{n} \cup ToSet(store.child[n]) : n \in S},
           ToSet(store.roots[h]), Cardinality(Nodes))
Held(h)     == InTrees(h) \cup ({store.min[h]} \ {NULL})
Contents(h) == {store.value[n] : n \in Held(h)}
ItemOf(n)   == IF n = NULL THEN NULL ELSE store.value[n]

heap_insert(h) ==
    /\ \E n \in Nodes : ~heap_node_in_heap(n) /\ store' = Add(store, h, n)
    /\ result' = NULL /\ UNCHANGED prio

heap_union(target, addition) ==
    LET s == Uncache(Uncache(store, target), addition)
    IN  /\ store' = [Unite(s, target, s.roots[addition]) EXCEPT !.roots[addition] = <<>>]
        /\ result' = NULL /\ UNCHANGED prio

heap_peek(h) ==
    /\ store' = Cache(store, h) /\ result' = ItemOf(store'.min[h])
    /\ UNCHANGED prio

heap_take(h) ==
    LET s == Cache(store, h)
        n == s.min[h]
    IN  /\ store' = IF n = NULL THEN s
                    ELSE Leave([s EXCEPT !.min[h] = NULL], n)
        /\ result' = ItemOf(n) /\ UNCHANGED prio

\* The caller raises the priority of an item and has its node moved.  The code does
\* not compare it with a cached minimum: the model's caller, as no program of the
\* repository calls it, only does so when nothing is cached or the item itself is.
heap_decrease(h) ==
    /\ \E i \in Contents(h) \cap WithRef, p \in Prios :
         /\ p < prio[i] /\ prio' = [prio EXCEPT ![i] = p]
         /\ store.min[h] \in {NULL, store.ref[i]}
         /\ store' = IF store.min[h] = store.ref[i] THEN store
                     ELSE Bubble(LAMBDA b : BubbleRound(b, prio'), store, store.ref[i]).s
    /\ result' = NULL

DeleteNode(s, h, n) ==
    IF s.min[h] = n THEN Leave([s EXCEPT !.min[h] = NULL], n)
    ELSE LET b == Bubble(RootRound, s, n)
             k == CHOOSE k \in DOMAIN b.s.roots[h] : b.s.roots[h][k] = b.n
         IN  Leave(RemoveRoot(b.s, h, k), b.n)

heap_delete(h) ==
    /\ \E i \in Contents(h) \cap WithRef : store' = DeleteNode(store, h, store.ref[i])
    /\ result' = NULL /\ UNCHANGED prio

Next ==
    \/ \E h \in Heaps : heap_insert(h) \/ heap_peek(h) \/ heap_take(h) \/ heap_decrease(h)
                          \/ heap_delete(h)
    \/ \E t, a \in Heaps : t # a /\ heap_union(t, a)

Spec == Init /\ [][Next]_vars

-----------------------------------------------------------------------------
(***************************************************************************)
(* The shape the cost of the operations depends on: every node of degree d *)
(* has the children of degrees d-1 to 0 in this order, the roots have      *)
(* growing degrees, no node is in two places, the parent of a child is its *)
(* parent, and exactly the nodes in no heap say so.                        *)
(***************************************************************************)
Binomial(n) ==
    LET c == store.child[n]
    IN  /\ Len(c) = store.degree[n]
        /\ \A k \in DOMAIN c : store.degree[c[k]] = Len(c) - k /\ store.parent[c[k]] = n

BinomialTrees ==
    /\ \A h \in Heaps :
         LET q == store.roots[h]
         IN  /\ \A k \in DOMAIN q : store.parent[q[k]] = NULL
             /\ \A k \in 1 .. (Len(q) - 1) : store.degree[q[k]] < store.degree[q[k + 1]]
             /\ store.min[h] \notin InTrees(h)
    /\ \A n \in UNION {InTrees(h) : h \in Heaps} : Binomial(n)
    /\ \A g, h \in Heaps : g # h => Held(g) \cap Held(h) = {}
    /\ \A n \in Nodes : heap_node_in_heap(n) <=> \E h \in Heaps : n \in Held(h)

(***************************************************************************)
(* No node has a higher priority than its parent.                          *)
(***************************************************************************)
HeapOrdered ==
    \A n \in UNION {InTrees(h) : h \in Heaps} :
      \A k \in DOMAIN store.child[n] : ~higher_prio(store, store.child[n][k], n)

(***************************************************************************)
(* "We cache the minimum of the heap. This speeds up repeated peek         *)
(* operations." (include/heap.h:48): the cached node, which a peek returns,*)
(* is one of the highest priority.                                         *)
(***************************************************************************)
MinimumCached ==
    \A h \in Heaps : store.min[h] # NULL =>
      \A n \in InTrees(h) : ~higher_prio(store, n, store.min[h])

(***************************************************************************)
(* All three hold however often items are inserted, heaps united, minima   *)
(* cached, taken and deleted, and items moved (include/heap.h:193-377).    *)
(***************************************************************************)
WellFormed == BinomialTrees /\ HeapOrdered /\ MinimumCached

(***************************************************************************)
(* A reference leads to the node that holds the item, and no two nodes     *)
(* hold the same item, however often nodes have exchanged them.            *)
(***************************************************************************)
RefsFollow ==
    /\ \A i \in WithRef : store.value[store.ref[i]] = i
    /\ {store.value[n] : n \in Nodes} = Nodes

(***************************************************************************)
(* A heap is a priority queue of the items in its nodes, whatever happens  *)
(* inside it and wherever it keeps its minimum.                            *)
(***************************************************************************)
Queue == INSTANCE PriorityQueue
           WITH Items <- Nodes, queue <- [h \in Heaps |-> Contents(h)]

IsPriorityQueue == Queue!Spec
=============================================================================
