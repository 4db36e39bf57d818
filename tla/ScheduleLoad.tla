---------------------------- MODULE ScheduleLoad ----------------------------
(***************************************************************************)
(* What st_job_stats and stdump have in common (src/load.c, src/eheap.c,   *)
(* src/util.c, include/sched_trace.h): every file of a schedule trace is   *)
(* mapped and its records are inserted into a heap, the heaps are united,  *)
(* and the records are taken out again, the earliest first.                *)
(*                                                                         *)
(* A heap is the set of its records: Heap shows that include/heap.h        *)
(* implements PriorityQueue, and LoadIsPriorityQueue that this module      *)
(* relies on no more than that.                                            *)
(***************************************************************************)
EXTENDS ScheduleTrace, FiniteSets

VARIABLES
    file, next, \* load: the file being read and the next record of it
    h, h2,      \* the heap of what is loaded, and that of the file being read
    hn,         \* what heap_take returned last, or None
    count       \* how many records were loaded

loadVars == <<command, files, pc, file, next, h, h2, hn, count>>

-----------------------------------------------------------------------------
\* Mutant: the latest record comes first.
earlier_backwards(a, b) == event_time(b) < event_time(a)

\* Mutant: records without a time are not ordered by PID.
earlier_by_time(a, b) == event_time(a) < event_time(b)

earlier_event(a, b) ==
    IF event_time(a) = 0 /\ event_time(b) = 0
    THEN a.pid < b.pid
    ELSE event_time(a) < event_time(b)

-----------------------------------------------------------------------------
LoadInit ==
    /\ TraceInit /\ file = 1 /\ next = 1 /\ count = 0
    /\ h = {} /\ h2 = {} /\ hn = None

\* map_trace succeeds: the file will be inserted into a heap of its own.
MapTrace ==
    /\ pc = "open" /\ file <= Len(files) /\ files[file].readable
    /\ pc' = "fill" /\ next' = 1 /\ h2' = {}
    /\ UNCHANGED <<command, files, file, h, hn, count>>

\* It does not, or there is no file: load returns NULL and the program ends.
CannotLoad ==
    /\ pc = "open"
    /\ files = <<>> \/ (file <= Len(files) /\ ~files[file].readable)
    /\ pc' = "failed"
    /\ UNCHANGED <<command, files, file, next, h, h2, hn, count>>

InsertEvent ==
    /\ pc = "fill" /\ next <= Len(files[file].recs)
    /\ h2' = h2 \cup {<<file, next>>} /\ next' = next + 1
    /\ UNCHANGED <<command, files, pc, file, h, hn, count>>

\* Mutant: the heap of the last file replaces the others.
UniteHeapsReplacing ==
    /\ pc = "fill" /\ next > Len(files[file].recs)
    /\ h' = h2 /\ h2' = {}
    /\ count' = count + Len(files[file].recs)
    /\ pc' = "open" /\ file' = file + 1
    /\ UNCHANGED <<command, files, next, hn>>

\* The heap of the first file becomes h itself, which is empty until then.
UniteHeaps ==
    /\ pc = "fill" /\ next > Len(files[file].recs)
    /\ h' = h \cup h2 /\ h2' = {}
    /\ count' = count + Len(files[file].recs)
    /\ pc' = "open" /\ file' = file + 1
    /\ UNCHANGED <<command, files, next, hn>>

Loaded ==
    /\ pc = "open" /\ files # <<>> /\ file > Len(files)
    /\ pc' = "run"
    /\ UNCHANGED <<command, files, file, next, h, h2, hn, count>>

Load == MapTrace \/ CannotLoad \/ InsertEvent \/ UniteHeaps \/ Loaded

-----------------------------------------------------------------------------
(* heap_take, as the loops of both programs use it; they set pc.           *)
Earliest(heap) == {r \in heap : \A q \in heap : ~earlier_event(Rec(q), Rec(r))}

Take(r) ==
    /\ r \in Earliest(h) /\ h' = h \ {r} /\ hn' = r
    /\ UNCHANGED <<command, files, file, next, h2, count>>

Drained ==
    /\ h = {} /\ hn' = None
    /\ UNCHANGED <<command, files, file, next, h, h2, count>>

\* The records inserted so far.
Inserted == {r \in Refs : r[1] < file \/ (pc = "fill" /\ r[1] = file /\ r[2] < next)}

\* No record comes before one that is earlier.
InOrder(list) ==
    \A i, j \in DOMAIN list : i < j => ~earlier_event(Rec(list[j]), Rec(list[i]))

-----------------------------------------------------------------------------
(* What the heaps promise: records without a time come first, by PID, then *)
(* the others by time.                                                     *)
Priority(rec) == IF event_time(rec) = 0 THEN rec.pid ELSE MaxPid + event_time(rec)

AnyRef == (1 .. MaxFiles) \X (1 .. MaxRecords)

PQ == INSTANCE PriorityQueue WITH
          Items  <- AnyRef,
          Heaps  <- {"h", "h2"},
          Prios  <- 0 .. MaxPid + MaxTime,
          NULL   <- None,
          queue  <- [name \in {"h", "h2"} |-> IF name = "h" THEN h ELSE h2],
          prio   <- [r \in AnyRef |-> IF r \in Refs THEN Priority(Rec(r)) ELSE 0],
          result <- hn

\* Loading inserts and unites, the programs take, and what they are given is in
\* each case a record that no other one precedes: the order of earlier_event
\* (src/eheap.c:6), which mixes times and PIDs, is that of one number, as the heap
\* needs it to be.
LoadIsPriorityQueue == PQ!Spec
=============================================================================
