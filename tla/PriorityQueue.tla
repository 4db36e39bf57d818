--------------------------- MODULE PriorityQueue ---------------------------
(***************************************************************************)
(* What include/heap.h promises: sets of items with priorities, from which *)
(* an item of the highest priority (the lowest number) can be taken.       *)
(* Among items of one priority any may be next.                            *)
(***************************************************************************)
EXTENDS Naturals

CONSTANTS Items, Heaps, Prios, NULL

VARIABLES
    queue,      \* the items of every heap
    prio,       \* their priorities
    result      \* what the last operation returned, or NULL

vars == <<queue, prio, result>>

Queued == UNION {queue[h] : h \in Heaps}

First(items) == {i \in items : \A j \in items : prio[i] <= prio[j]}

Init ==
    /\ queue = [h \in Heaps |-> {}] /\ prio \in [Items -> Prios] /\ result = NULL

Insert(h) ==
    /\ result' = NULL /\ UNCHANGED prio
    /\ \E i \in Items \ Queued : queue' = [queue EXCEPT ![h] = @ \cup {i}]

Union(target, addition) ==
    /\ result' = NULL /\ UNCHANGED prio
    /\ queue' = [queue EXCEPT ![target] = @ \cup queue[addition], ![addition] = {}]

ReturnsFirst(h) ==
    IF queue[h] = {} THEN result' = NULL ELSE result' \in First(queue[h])

Peek(h) == UNCHANGED <<prio, queue>> /\ ReturnsFirst(h)

Take(h) ==
    /\ UNCHANGED prio /\ ReturnsFirst(h)
    /\ queue' = [queue EXCEPT ![h] = @ \ {result'}]

Decrease(h) ==
    /\ result' = NULL /\ UNCHANGED queue
    /\ \E i \in queue[h], p \in Prios : p < prio[i] /\ prio' = [prio EXCEPT ![i] = p]

Delete(h) ==
    /\ result' = NULL /\ UNCHANGED prio
    /\ \E i \in queue[h] : queue' = [queue EXCEPT ![h] = @ \ {i}]

Next ==
    \/ \E h \in Heaps : Insert(h) \/ Peek(h) \/ Take(h) \/ Decrease(h) \/ Delete(h)
    \/ \E t, a \in Heaps : t # a /\ Union(t, a)

Spec == Init /\ [][Next]_vars
=============================================================================
