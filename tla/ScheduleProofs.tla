--------------------------- MODULE ScheduleProofs ---------------------------
(***************************************************************************)
(* What holds of the loading of schedule traces for every trace: all that  *)
(* st_job_stats and stdump do to the heaps is what a priority queue does,  *)
(* and the heap they take records from holds every record of every file.   *)
(*                                                                         *)
(* And of stdump and st-draw for every trace and every number of files:    *)
(* the one prints every record once, in the order of time, or the release; *)
(* the other draws once everything that belongs in the interval.           *)
(***************************************************************************)
EXTENDS StDump, StDraw, FiniteSetTheorems, FunctionTheorems, TLAPS

-----------------------------------------------------------------------------
(* What a program that uses this module may do: load, take records in      *)
(* "run", and leave the heaps alone afterwards.                            *)
Loading == pc \in {"open", "fill"}

Took == pc = "run" /\ ~Loading' /\ (Drained \/ \E r \in Earliest(h) : Take(r))

Later ==
    /\ ~Loading /\ ~Loading' /\ pc' # "run"
    /\ UNCHANGED <<command, files, file, next, h, h2, hn, count>>

LoadNext == Load \/ Took \/ Later

LoadSpec == LoadInit /\ [][LoadNext]_loadVars

-----------------------------------------------------------------------------
(* Records.                                                                *)
LEMMA RefsAre ==
    \A r : r \in Refs <=> /\ r = <<r[1], r[2]>> /\ r[1] \in DOMAIN files
                          /\ r[2] \in DOMAIN files[r[1]].recs
  BY DEF Refs

LEMMA RefPosition ==
    ASSUME files \in Seq(File), NEW r \in Refs
    PROVE  /\ r[1] \in Nat \ {0} /\ r[2] \in Nat \ {0}
           /\ r[1] <= Len(files) /\ r[2] <= Len(files[r[1]].recs)
<1>1. r[1] \in DOMAIN files /\ r[2] \in DOMAIN files[r[1]].recs
  BY RefsAre
<1>2. files[r[1]] \in File /\ r[1] \in Nat \ {0} /\ r[1] <= Len(files)
  BY <1>1
<1>3. files[r[1]].recs \in Seq(Record)
  BY <1>2 DEF File
<1>4. QED
  BY <1>1, <1>2, <1>3

LEMMA RecType ==
    ASSUME files \in Seq(File), NEW r \in Refs
    PROVE  Rec(r) \in Record
<1>1. r[1] \in DOMAIN files /\ r[2] \in DOMAIN files[r[1]].recs
  BY RefsAre
<1>2. files[r[1]] \in File
  BY <1>1
<1>3. files[r[1]].recs \in Seq(Record)
  BY <1>2 DEF File
<1>4. QED
  BY <1>1, <1>3 DEF Rec

LEMMA RecordTime ==
    ASSUME NEW rec \in Record
    PROVE  event_time(rec) \in Nat /\ event_time(rec) <= MaxTime
  BY ScheduleAssumption DEF Record, event_time

LEMMA TimeType ==
    ASSUME files \in Seq(File), NEW r \in Refs
    PROVE  event_time(Rec(r)) \in Nat /\ event_time(Rec(r)) <= MaxTime
  BY RecType, RecordTime

-----------------------------------------------------------------------------
(* The order of the records is that of one number.                         *)
LEMMA PriorityType ==
    ASSUME NEW rec \in Record
    PROVE  Priority(rec) \in 0 .. MaxPid + MaxTime
  BY RecordTime, ScheduleAssumption DEF Priority, Record

\* Times and PIDs never compare equal across the two kinds of records: a PID is at
\* most MaxPid, and every time that is not zero comes after that.
LEMMA EarlierIsLower ==
    ASSUME NEW a \in Record, NEW b \in Record
    PROVE  earlier_event(a, b) <=> Priority(a) < Priority(b)
<1>1. /\ event_time(a) \in Nat /\ event_time(b) \in Nat
      /\ a.pid \in 0 .. MaxPid /\ b.pid \in 0 .. MaxPid /\ MaxPid \in Nat
  BY RecordTime, ScheduleAssumption DEF Record
<1>2. QED
  BY <1>1 DEF earlier_event, Priority

LEMMA NotEarlierIsTransitive ==
    ASSUME NEW a \in Record, NEW b \in Record, NEW c \in Record,
           ~earlier_event(b, a), ~earlier_event(c, b)
    PROVE  ~earlier_event(c, a)
<1>1. /\ Priority(a) \in Int /\ Priority(b) \in Int /\ Priority(c) \in Int
  BY PriorityType, ScheduleAssumption
<1>2. QED
  BY <1>1, EarlierIsLower

-----------------------------------------------------------------------------
(* The inductive invariant of the heaps.                                   *)
FileRefs(f) == {r \in Refs : r[1] = f}

Before(f) == {r \in Refs : r[1] < f}

\* No command line exceeds the bounds.
Bounded ==
    /\ files \in Seq(File) /\ Len(files) <= MaxFiles
    /\ \A f \in DOMAIN files : Len(files[f].recs) <= MaxRecords

\* While the files are read, the heaps are what has been inserted so far; from then on
\* h loses what is taken out.
HeapInv ==
    /\ Bounded /\ file \in Nat \ {0} /\ next \in Nat \ {0}
    /\ count = Cardinality(Before(file)) /\ IsFiniteSet(Before(file))
    /\ h \subseteq Before(file)
    /\ Loading => hn = None /\ h = Before(file)
    /\ pc = "fill" => file \in DOMAIN files /\ h2 = {r \in FileRefs(file) : r[2] < next}
    /\ pc # "fill" => h2 = {}
    /\ pc = "run" => file > Len(files)

LEMMA BoundedPosition ==
    ASSUME Bounded, NEW r \in Refs
    PROVE  r \in AnyRef
<1>1. /\ r = <<r[1], r[2]>> /\ r[1] \in DOMAIN files
      /\ r[1] \in Nat \ {0} /\ r[2] \in Nat \ {0}
      /\ r[1] <= Len(files) /\ r[2] <= Len(files[r[1]].recs)
  BY RefsAre, RefPosition DEF Bounded
<1>2. files[r[1]].recs \in Seq(Record)
  <2>1. files[r[1]] \in File
    BY <1>1 DEF Bounded
  <2>2. QED
    BY <2>1 DEF File
<1>3. r[1] <= MaxFiles /\ r[2] <= MaxRecords
  BY <1>1, <1>2, ScheduleAssumption DEF Bounded
<1>4. QED
  <2>1. r[1] \in 1 .. MaxFiles /\ r[2] \in 1 .. MaxRecords
    BY <1>1, <1>3, ScheduleAssumption
  <2>2. QED
    BY <1>1, <2>1 DEF AnyRef

LEMMA IntervalSize ==
    ASSUME NEW n \in Nat
    PROVE  IsFiniteSet(1 .. n) /\ Cardinality(1 .. n) = n
  BY FS_Interval

\* A file has as many references as it has records.
LEMMA FileSize ==
    ASSUME Bounded, NEW f \in DOMAIN files
    PROVE  /\ IsFiniteSet(FileRefs(f)) /\ Cardinality(FileRefs(f)) = Len(files[f].recs)
<1> DEFINE n == Len(files[f].recs)
           ref == [i \in 1 .. n |-> <<f, i>>]
<1>1. n \in Nat /\ DOMAIN files[f].recs = 1 .. n
  BY DEF Bounded, File
<1>2. \A r : r \in FileRefs(f) <=> \E i \in 1 .. n : r = <<f, i>>
  BY <1>1, RefsAre DEF FileRefs
<1>3. ref \in Bijection(1 .. n, FileRefs(f))
  <2>1. \A i \in 1 .. n : ref[i] = <<f, i>> /\ ref[i] \in FileRefs(f)
    BY <1>2
  <2>2. \A i, j \in 1 .. n : ref[i] = ref[j] => i = j
    BY <2>1
  <2>3. \A r \in FileRefs(f) : \E i \in 1 .. n : ref[i] = r
    BY <1>2, <2>1
  <2>4. ref \in [1 .. n -> FileRefs(f)]
    BY <2>1
  <2>5. QED
    BY <2>2, <2>3, <2>4 DEF Bijection, Injection, Surjection, IsInjective
<1>4. IsFiniteSet(1 .. n) /\ Cardinality(1 .. n) = n
  BY <1>1, IntervalSize
<1>5. ExistsBijection(1 .. n, FileRefs(f))
  BY <1>3 DEF ExistsBijection
<1>6. QED
  BY <1>4, <1>5, FS_Bijection

LEMMA OneFileMore ==
    ASSUME Bounded, NEW f \in DOMAIN files, IsFiniteSet(Before(f))
    PROVE  /\ Before(f + 1) = Before(f) \cup FileRefs(f)
           /\ IsFiniteSet(Before(f + 1))
           /\ Cardinality(Before(f + 1)) = Cardinality(Before(f)) + Len(files[f].recs)
<1>1. f \in Nat /\ \A r \in Refs : r[1] \in Nat
  BY RefPosition DEF Bounded
<1>2. /\ Before(f + 1) = Before(f) \cup FileRefs(f)
      /\ Before(f) \cap FileRefs(f) = {}
  BY <1>1 DEF Before, FileRefs
<1>3. IsFiniteSet(FileRefs(f)) /\ Cardinality(FileRefs(f)) = Len(files[f].recs)
  BY FileSize
<1>4. /\ IsFiniteSet(Before(f) \cup FileRefs(f))
      /\ Cardinality(Before(f) \cup FileRefs(f)) =
           Cardinality(Before(f)) + Cardinality(FileRefs(f))
             - Cardinality(Before(f) \cap FileRefs(f))
  BY <1>3, FS_Union
<1>5. Cardinality(Before(f) \cap FileRefs(f)) = 0
  BY <1>2, FS_EmptySet
<1>6. Cardinality(Before(f)) \in Nat /\ Len(files[f].recs) \in Nat
  BY <1>3, FS_CardinalityType
<1>7. IsFiniteSet(Before(f + 1))
  BY <1>2, <1>4
<1>8. Cardinality(Before(f + 1)) = Cardinality(Before(f) \cup FileRefs(f))
  BY <1>2
<1> HIDE DEF Before, FileRefs
<1>9. QED
  BY <1>2, <1>3, <1>4, <1>5, <1>6, <1>7, <1>8
-----------------------------------------------------------------------------
\* The steps that leave the heaps alone.
LEMMA SameFiles ==
    ASSUME files' = files
    PROVE  /\ Refs' = Refs /\ (\A r : Rec(r)' = Rec(r))
           /\ (\A f : FileRefs(f)' = FileRefs(f) /\ Before(f)' = Before(f))
           /\ (Bounded => Bounded')
  BY DEF Refs, Rec, FileRefs, Before, Bounded

LEMMA NextRecord ==
    ASSUME HeapInv, InsertEvent
    PROVE  <<file, next>> \in FileRefs(file)
<1>1. file \in DOMAIN files /\ next \in Nat \ {0} /\ next <= Len(files[file].recs)
  BY DEF HeapInv, InsertEvent
<1>2. files[file] \in File
  BY <1>1 DEF HeapInv, Bounded
<1>3. next \in DOMAIN files[file].recs
  BY <1>1, <1>2 DEF File
<1>4. QED
  BY <1>1, <1>3, RefsAre DEF FileRefs

LEMMA LoadStepKeeps ==
    ASSUME HeapInv, Load
    PROVE  HeapInv'
<1>0. files' = files
  BY DEF Load, MapTrace, CannotLoad, InsertEvent, UniteHeaps, Loaded
<1>1. /\ Bounded' /\ Bounded /\ Refs' = Refs
      /\ \A f : FileRefs(f)' = FileRefs(f) /\ Before(f)' = Before(f)
  BY <1>0, SameFiles DEF HeapInv
<1>2. (IsFiniteSet(Before(file)))' <=> IsFiniteSet(Before(file'))
  BY <1>0 DEF Before, Refs
<1>3. (Cardinality(Before(file)))' = Cardinality(Before(file'))
  BY <1>0 DEF Before, Refs
<1>4. CASE MapTrace
  <2>1. {r \in FileRefs(file) : r[2] < 1} = {}
    BY <1>1, RefPosition DEF FileRefs, Bounded
  <2>2. file \in DOMAIN files
    BY <1>4 DEF MapTrace, HeapInv, Bounded
  <2>3. QED
    BY <1>0, <1>1, <1>2, <1>3, <1>4, <2>1, <2>2 DEF HeapInv, MapTrace, Loading, Before, FileRefs
<1>5. CASE CannotLoad
  BY <1>0, <1>1, <1>2, <1>3, <1>5 DEF HeapInv, CannotLoad, Loading, Before, FileRefs
<1>6. CASE InsertEvent
  <2>1. \A r \in FileRefs(file) : r[2] \in Nat /\ r = <<file, r[2]>>
    BY <1>1, RefPosition, RefsAre DEF FileRefs, Bounded
  <2>2. <<file, next>> \in FileRefs(file)
    BY <1>6, NextRecord
  <2>3. h2' = {r \in FileRefs(file) : r[2] < next + 1}
    BY <1>6, <2>1, <2>2 DEF InsertEvent, HeapInv
  <2>4. QED
    BY <1>0, <1>1, <1>2, <1>3, <1>6, <2>3 DEF HeapInv, InsertEvent, Loading, Before, FileRefs
<1>7. CASE UniteHeaps
  <2>1. h2 = FileRefs(file)
    BY <1>1, <1>7, RefPosition DEF UniteHeaps, HeapInv, FileRefs, Bounded
  <2>2. file \in DOMAIN files /\ IsFiniteSet(Before(file)) /\ count = Cardinality(Before(file))
        /\ h = Before(file) /\ hn = None
    BY <1>7 DEF HeapInv, UniteHeaps, Loading
  <2>3. /\ Before(file + 1) = Before(file) \cup FileRefs(file)
        /\ IsFiniteSet(Before(file + 1))
        /\ Cardinality(Before(file + 1)) = Cardinality(Before(file)) + Len(files[file].recs)
    BY <1>1, <2>2, OneFileMore
  <2>4. h' = Before(file') /\ count' = Cardinality(Before(file')) /\ IsFiniteSet(Before(file'))
    BY <1>7, <2>1, <2>2, <2>3 DEF UniteHeaps
  <2>5. QED
    BY <1>0, <1>1, <1>2, <1>3, <1>7, <2>2, <2>4 DEF HeapInv, UniteHeaps, Loading, Before, FileRefs
<1>8. CASE Loaded
  BY <1>0, <1>1, <1>2, <1>3, <1>8 DEF HeapInv, Loaded, Loading, Before, FileRefs
<1>9. QED
  BY <1>4, <1>5, <1>6, <1>7, <1>8 DEF Load

LEMMA HeapInvInit == LoadInit => HeapInv
<1>1. SUFFICES ASSUME LoadInit PROVE HeapInv
  OBVIOUS
<1>2. Bounded
  BY <1>1, ScheduleAssumption DEF LoadInit, TraceInit, Bounded
<1>3. Before(1) = {}
  BY <1>2, RefPosition DEF Before, Bounded
<1>4. QED
  BY <1>1, <1>2, <1>3, FS_EmptySet DEF LoadInit, TraceInit, HeapInv, Loading

LEMMA HeapInvNext == HeapInv /\ [LoadNext]_loadVars => HeapInv'
<1>1. SUFFICES ASSUME HeapInv, [LoadNext]_loadVars PROVE HeapInv'
  OBVIOUS
<1>2. CASE Load
  BY <1>1, <1>2, LoadStepKeeps
<1>3. CASE Took \/ Later \/ UNCHANGED loadVars
  <2>1. /\ files' = files /\ file' = file /\ next' = next /\ count' = count /\ h2' = h2
        /\ h' \subseteq h
    BY <1>3 DEF Took, Drained, Take, Later, loadVars
  <2>2. /\ Bounded' /\ Before(file)' = Before(file) /\ FileRefs(file)' = FileRefs(file)
    BY <1>1, <2>1, SameFiles DEF HeapInv, Before, FileRefs, Refs
  <2>3. (IsFiniteSet(Before(file)))' <=> IsFiniteSet(Before(file))
    BY <2>1 DEF Before, Refs
  <2>4. (Cardinality(Before(file)))' = Cardinality(Before(file))
    BY <2>1 DEF Before, Refs
  <2>5. \/ pc' = pc /\ h' = h /\ hn' = hn
        \/ ~Loading /\ ~Loading' /\ (pc' = "run" => pc = "run")
    BY <1>3 DEF Took, Later, Loading, loadVars
  <2>6. QED
    BY <1>1, <2>1, <2>2, <2>3, <2>4, <2>5 DEF HeapInv, Loading, Before, FileRefs
<1>4. QED
  BY <1>1, <1>2, <1>3 DEF LoadNext

\* The heap that the records are taken from begins with every record of every file.
LEMMA HeapInvariant == LoadSpec => []HeapInv
  BY HeapInvInit, HeapInvNext, PTL DEF LoadSpec

-----------------------------------------------------------------------------
(* The refinement, step by step.                                           *)
LEMMA QueueInit == LoadInit => PQ!Init
<1>1. SUFFICES ASSUME LoadInit PROVE PQ!Init
  OBVIOUS
<1>2. Bounded
  BY <1>1, HeapInvInit DEF HeapInv
<1>3. \A r \in Refs : Priority(Rec(r)) \in 0 .. MaxPid + MaxTime
  BY <1>2, RecType, PriorityType DEF Bounded
<1>4. QED
  BY <1>1, <1>3, ScheduleAssumption DEF LoadInit, PQ!Init

LEMMA QueueTake ==
    ASSUME HeapInv, pc = "run", NEW r \in Earliest(h), Take(r)
    PROVE  PQ!Take("h")
<1>1. r \in h /\ h' = h \ {r} /\ hn' = r /\ h2' = h2 /\ files' = files
      /\ h \subseteq Refs /\ Bounded
  BY DEF Take, Earliest, HeapInv, Before
<1>2. \A q \in h : Priority(Rec(r)) <= Priority(Rec(q))
  <2>1. SUFFICES ASSUME NEW q \in h PROVE Priority(Rec(r)) <= Priority(Rec(q))
    OBVIOUS
  <2>2. Rec(r) \in Record /\ Rec(q) \in Record /\ ~earlier_event(Rec(q), Rec(r))
    BY <1>1, RecType DEF Earliest, Bounded
  <2>3. Priority(Rec(r)) \in Int /\ Priority(Rec(q)) \in Int
    BY <2>2, PriorityType, ScheduleAssumption
  <2>4. QED
    BY <2>2, <2>3, EarlierIsLower
<1>3. h \subseteq AnyRef /\ Refs' = Refs /\ \A q : Rec(q)' = Rec(q)
  BY <1>1, BoundedPosition, SameFiles
<1>4. \A q : Priority(Rec(q))' = Priority(Rec(q))
  BY <1>3 DEF Priority, event_time
<1>5. QED
  BY <1>1, <1>2, <1>3, <1>4 DEF PQ!Take, PQ!ReturnsFirst, PQ!First

LEMMA QueueInsert ==
    ASSUME HeapInv, InsertEvent
    PROVE  PQ!Insert("h2")
<1>1. /\ h' = h /\ h2' = h2 \cup {<<file, next>>} /\ hn' = hn /\ hn = None /\ files' = files
      /\ h = Before(file) /\ h2 = {r \in FileRefs(file) : r[2] < next}
      /\ Bounded /\ file \in Nat /\ next \in Nat
  BY DEF InsertEvent, HeapInv, Loading
<1>2. <<file, next>> \notin h \cup h2
  BY <1>1 DEF Before, FileRefs
<1>3. <<file, next>> \in Refs
  BY NextRecord DEF FileRefs
<1>4. <<file, next>> \in AnyRef
  BY <1>1, <1>3, BoundedPosition
<1>5. Refs' = Refs /\ \A q : Rec(q)' = Rec(q)
  BY <1>1, SameFiles
<1>6. \A q : Priority(Rec(q))' = Priority(Rec(q))
  BY <1>5 DEF Priority, event_time
<1>7. <<file, next>> \in AnyRef \ PQ!Queued
  BY <1>2, <1>4 DEF PQ!Queued
<1>8. QED
  BY <1>1, <1>5, <1>6, <1>7 DEF PQ!Insert

LEMMA QueueUnion ==
    ASSUME HeapInv, UniteHeaps
    PROVE  PQ!Union("h", "h2")
<1>1. /\ h' = h \cup h2 /\ h2' = {} /\ hn' = hn /\ hn = None /\ files' = files
  BY DEF UniteHeaps, HeapInv, Loading
<1>2. Refs' = Refs /\ \A q : Rec(q)' = Rec(q)
  BY <1>1, SameFiles
<1>3. \A q : Priority(Rec(q))' = Priority(Rec(q))
  BY <1>2 DEF Priority, event_time
<1>4. QED
  BY <1>1, <1>2, <1>3 DEF PQ!Union

LEMMA QueueDrained ==
    ASSUME HeapInv, pc = "run", Drained
    PROVE  PQ!Take("h")
<1>1. h = {} /\ h' = {} /\ hn' = None /\ h2' = h2 /\ files' = files
  BY DEF Drained
<1>2. Refs' = Refs /\ \A q : Rec(q)' = Rec(q)
  BY <1>1, SameFiles
<1>3. \A q : Priority(Rec(q))' = Priority(Rec(q))
  BY <1>2 DEF Priority, event_time
<1>4. QED
  BY <1>1, <1>2, <1>3 DEF PQ!Take, PQ!ReturnsFirst

LEMMA QueueStays ==
    ASSUME HeapInv, UNCHANGED <<files, h, hn>>, h2' = h2
    PROVE  UNCHANGED PQ!vars
<1>1. Refs' = Refs /\ \A q : Rec(q)' = Rec(q)
  BY SameFiles
<1>2. \A q : Priority(Rec(q))' = Priority(Rec(q))
  BY <1>1 DEF Priority, event_time
<1>3. QED
  BY <1>1, <1>2 DEF PQ!vars

LEMMA QueueNext == HeapInv /\ [LoadNext]_loadVars => [PQ!Next]_(PQ!vars)
<1>1. SUFFICES ASSUME HeapInv, [LoadNext]_loadVars PROVE PQ!Next \/ UNCHANGED PQ!vars
  OBVIOUS
<1>2. CASE InsertEvent
  BY <1>1, <1>2, QueueInsert DEF PQ!Next
<1>3. CASE UniteHeaps
  BY <1>1, <1>3, QueueUnion DEF PQ!Next
<1>4. CASE MapTrace \/ CannotLoad \/ Loaded
  <2>1. UNCHANGED <<files, h, hn>> /\ h2' = h2
    BY <1>1, <1>4 DEF MapTrace, CannotLoad, Loaded, HeapInv
  <2>2. QED
    BY <1>1, <2>1, QueueStays
<1>5. CASE Took
  BY <1>1, <1>5, QueueTake, QueueDrained DEF Took, PQ!Next
<1>6. CASE Later \/ UNCHANGED loadVars
  <2>1. UNCHANGED <<files, h, hn>> /\ h2' = h2
    BY <1>6 DEF Later, loadVars
  <2>2. QED
    BY <1>1, <2>1, QueueStays
<1>7. QED
  BY <1>1, <1>2, <1>3, <1>4, <1>5, <1>6 DEF LoadNext, Load

\* Whatever the traces hold, loading them and taking the records out is what a priority
\* queue does (src/load.c:46-67, src/eheap.c:6): earlier_event orders records as a number
\* does, and no record is inserted while it is in a heap.
THEOREM LoadImplementsQueue == LoadSpec => LoadIsPriorityQueue
<1>1. LoadSpec => [][PQ!Next]_(PQ!vars)
  BY HeapInvariant, QueueNext, PTL DEF LoadSpec
<1>2. LoadSpec => PQ!Init
  BY QueueInit DEF LoadSpec
<1>3. QED
  BY <1>1, <1>2 DEF LoadIsPriorityQueue, PQ!Spec

-----------------------------------------------------------------------------
\* The list s holds every member of S once, and nothing else.
Lists(s, S) ==
    /\ s \in Seq(S)
    /\ \A x \in S : \E i \in DOMAIN s : s[i] = x
    /\ \A i, j \in DOMAIN s : s[i] = s[j] => i = j

LEMMA ListsNothing == Lists(<<>>, {})
  BY DEF Lists

LEMMA ListsOneMore ==
    ASSUME NEW S, NEW s, Lists(s, S), NEW x, x \notin S
    PROVE  Lists(Append(s, x), S \cup {x})
<1>1. s \in Seq(S) /\ Len(s) \in Nat /\ DOMAIN s = 1 .. Len(s)
  BY DEF Lists
<1>2. s \in Seq(S \cup {x}) /\ Append(s, x) \in Seq(S \cup {x})
  BY <1>1
<1>3. /\ DOMAIN Append(s, x) = 1 .. Len(s) + 1 /\ Append(s, x)[Len(s) + 1] = x
      /\ \A i \in DOMAIN s : Append(s, x)[i] = s[i] /\ s[i] \in S
  BY <1>1
<1>4. \A y \in S \cup {x} : \E i \in DOMAIN Append(s, x) : Append(s, x)[i] = y
  <2>1. SUFFICES ASSUME NEW y \in S \cup {x}
                 PROVE  \E i \in DOMAIN Append(s, x) : Append(s, x)[i] = y
    OBVIOUS
  <2>2. CASE y = x
    <3>1. Len(s) + 1 \in DOMAIN Append(s, x)
      BY <1>1, <1>3
    <3>2. QED
      BY <1>3, <2>2, <3>1
  <2>3. CASE y # x
    <3>1. PICK i \in DOMAIN s : s[i] = y
      BY <2>1, <2>3 DEF Lists
    <3>2. i \in DOMAIN Append(s, x)
      BY <1>1, <1>3
    <3>3. QED
      BY <1>3, <3>1, <3>2
  <2>4. QED
    BY <2>2, <2>3
<1>5. \A i, j \in DOMAIN Append(s, x) : Append(s, x)[i] = Append(s, x)[j] => i = j
  <2>1. SUFFICES ASSUME NEW i \in DOMAIN Append(s, x), NEW j \in DOMAIN Append(s, x),
                        Append(s, x)[i] = Append(s, x)[j]
                 PROVE  i = j
    OBVIOUS
  <2>2. (i \in DOMAIN s \/ i = Len(s) + 1) /\ (j \in DOMAIN s \/ j = Len(s) + 1)
    BY <1>1, <1>3
  <2>3. QED
    BY <1>3, <2>1, <2>2 DEF Lists
<1>6. QED
  BY <1>2, <1>4, <1>5 DEF Lists

LEMMA ListsSize ==
    ASSUME NEW S, NEW s, Lists(s, S)
    PROVE  IsFiniteSet(S) /\ Len(s) = Cardinality(S) /\ ToSet(s) = S
<1>1. s \in [1 .. Len(s) -> S] /\ Len(s) \in Nat /\ DOMAIN s = 1 .. Len(s)
  BY DEF Lists
<1>2. s \in Bijection(1 .. Len(s), S)
  BY <1>1 DEF Lists, Bijection, Injection, Surjection, IsInjective
<1>3. IsFiniteSet(1 .. Len(s)) /\ Cardinality(1 .. Len(s)) = Len(s)
  BY <1>1, IntervalSize
<1>4. ExistsBijection(1 .. Len(s), S)
  BY <1>2 DEF ExistsBijection
<1>5. ToSet(s) = S
  BY <1>1 DEF Lists, ToSet
<1>6. QED
  BY <1>3, <1>4, <1>5, FS_Bijection

-----------------------------------------------------------------------------
(* The inductive invariant: what is not in the heap any more is what has   *)
(* been looked at, and the variables say what was seen of it.              *)
Gone == Refs \ h

PrintedTwice == \E i, j \in DOMAIN printed : i # j /\ printed[i] = printed[j]

\* printed lists what is gone, once and in order.
PrintedGone ==
    /\ printed \in Seq(Refs) /\ ~PrintedTwice /\ InOrder(printed)
    /\ \A r \in Gone : \E i \in DOMAIN printed : printed[i] = r
    /\ \A i \in DOMAIN printed : printed[i] \in Gone

LeftIsLater == \A q \in Gone, r \in h : ~earlier_event(Rec(r), Rec(q))

FirstIsFirst ==
    IF first = None THEN \A q \in Gone : event_time(Rec(q)) = 0
    ELSE /\ first \in Gone /\ event_time(Rec(first)) # 0
         /\ \A q \in Gone : event_time(Rec(q)) = 0
                             \/ event_time(Rec(first)) <= event_time(Rec(q))

Dumped ==
    IF command.find_release
    THEN printed = <<>> /\ find_release /\ released = <<>> /\ Gone \cap Releases = {}
    ELSE PrintedGone /\ ~find_release /\ released = <<>>

\* Nothing is printed while the files are read.
Untouched ==
    /\ first = None /\ printed = <<>> /\ released = <<>>
    /\ find_release = command.find_release

DumpInv ==
    /\ HeapInv
    /\ pc \in {"open", "fill", "run", "done", "failed"}
    /\ pc \in {"open", "fill", "failed"} => Untouched
    /\ pc = "run" => LeftIsLater /\ FirstIsFirst /\ Dumped
    /\ pc = "done" => file > Len(files) /\ DumpExact
    /\ pc # "done" => InOrder(printed)

-----------------------------------------------------------------------------
(* stdump uses the heaps as LoadSpec says.                                 *)
LEMMA DumpLoads == [StDumpNext]_stDumpVars => [LoadNext]_loadVars
<1>1. DumpEnds \/ (\E r \in Earliest(h) : DumpEvent(r) \/ DumpPasses(r) \/ DumpRelease(r)) => Took
  BY DEF DumpEnds, DumpEvent, DumpPasses, DumpRelease, DumpTake, Took, Loading
<1>2. QED
  BY <1>1 DEF StDumpNext, LoadNext, stDumpVars

LEMMA DumpHeapInv == HeapInv /\ [StDumpNext]_stDumpVars => HeapInv'
  BY DumpLoads, HeapInvNext

LEMMA AllLoaded == HeapInv /\ file > Len(files) => Before(file) = Refs
  BY RefPosition DEF HeapInv, Before, Bounded

-----------------------------------------------------------------------------
\* A list that holds every record once has as many entries as there are records.
LEMMA PrintedSize ==
    ASSUME PrintedGone, h = {}
    PROVE  IsFiniteSet(Refs) /\ Len(printed) = Cardinality(Refs)
<1>1. Lists(printed, Refs)
  BY DEF PrintedGone, PrintedTwice, Gone, Lists
<1>2. QED
  BY <1>1, ListsSize

-----------------------------------------------------------------------------
LEMMA DumpInvInit == StDumpInit => DumpInv
  BY HeapInvInit DEF StDumpInit, LoadInit, TraceInit, DumpInit, DumpInv, Untouched, InOrder

LEMMA DumpLoadStep ==
    ASSUME DumpInv, Load, UNCHANGED dumpVars
    PROVE  DumpInv'
<1>1. HeapInv' /\ HeapInv
  BY LoadStepKeeps DEF DumpInv
<1>2. files' = files /\ command' = command /\ Untouched' /\ Untouched
      /\ Refs' = Refs /\ \A r : Rec(r)' = Rec(r)
  BY SameFiles DEF Load, MapTrace, CannotLoad, InsertEvent, UniteHeaps, Loaded, DumpInv,
                   Untouched, dumpVars
<1>3. InOrder(printed)'
  BY <1>2 DEF Untouched, InOrder
<1>4. pc' \in {"open", "fill", "run", "failed"}
  BY DEF Load, MapTrace, CannotLoad, InsertEvent, UniteHeaps, Loaded
<1>5. ASSUME pc' = "run" PROVE LeftIsLater' /\ FirstIsFirst' /\ Dumped'
  <2>1. pc = "open" /\ h' = h /\ h = Before(file) /\ file > Len(files)
    BY <1>1, <1>5 DEF Load, MapTrace, CannotLoad, InsertEvent, UniteHeaps, Loaded, HeapInv,
                      Loading, Bounded
  <2>2. Gone' = {}
    BY <1>1, <1>2, <2>1, AllLoaded DEF Gone
  <2>3. LeftIsLater' /\ FirstIsFirst'
    BY <1>2, <2>2 DEF LeftIsLater, FirstIsFirst, Untouched
  <2>4. Dumped'
    BY <1>2, <2>2 DEF Dumped, Untouched, PrintedGone, PrintedTwice, InOrder
  <2>5. QED
    BY <2>3, <2>4
<1>6. QED
  BY <1>1, <1>2, <1>3, <1>4, <1>5 DEF DumpInv

\* What any step that takes a record does.
LEMMA DumpTakes ==
    ASSUME DumpInv, NEW r \in Earliest(h), DumpTake(r)
    PROVE  /\ files' = files /\ command' = command /\ Refs' = Refs /\ \A q : Rec(q)' = Rec(q)
           /\ r \in Refs /\ r \notin Gone /\ h' = h \ {r} /\ Gone' = Gone \cup {r}
           /\ pc = "run" /\ file > Len(files) /\ file' = file /\ count' = count
           /\ LeftIsLater' /\ FirstIsFirst'
           /\ \A q \in Gone : ~earlier_event(Rec(r), Rec(q))
<1>1. /\ files' = files /\ command' = command /\ h' = h \ {r} /\ r \in h /\ pc = "run"
      /\ file' = file /\ count' = count
  BY DEF DumpTake, Take, Earliest
<1>2. /\ Refs' = Refs /\ (\A q : Rec(q)' = Rec(q)) /\ h \subseteq Refs /\ file > Len(files)
      /\ files \in Seq(File)
  BY <1>1, SameFiles DEF DumpInv, HeapInv, Before, Bounded
<1>3. r \in Refs /\ r \notin Gone /\ Gone' = Gone \cup {r}
  BY <1>1, <1>2 DEF Gone
<1>4. LeftIsLater'
  BY <1>1, <1>2, <1>3 DEF DumpInv, LeftIsLater, Earliest, earlier_event, event_time
<1>5. FirstIsFirst'
  <2>1. \A q \in Gone \cup {r} : event_time(Rec(q)) \in Nat
    BY <1>2, <1>3, TimeType DEF Gone
  <2>2. \A q \in Gone : ~earlier_event(Rec(r), Rec(q))
    BY <1>1 DEF DumpInv, LeftIsLater
  <2>3. \A q : event_time(Rec(q))' = event_time(Rec(q))
    BY <1>2 DEF event_time
  <2>4. FirstIsFirst /\ first' = IF first = None /\ event_time(Rec(r)) # 0 THEN r ELSE first
    BY <1>1 DEF DumpInv, DumpTake
  <2>5. r # None
    BY <1>3, RefsAre DEF None
  <2>6. CASE first = None /\ event_time(Rec(r)) # 0
    <3>1. first' = r /\ \A q \in Gone : event_time(Rec(q)) = 0
      BY <2>4, <2>6 DEF FirstIsFirst
    <3>2. QED
      BY <1>2, <1>3, <2>1, <2>3, <2>5, <2>6, <3>1 DEF FirstIsFirst
  <2>7. CASE first = None /\ event_time(Rec(r)) = 0
    BY <1>2, <1>3, <2>3, <2>4, <2>7 DEF FirstIsFirst
  <2>8. CASE first # None
    <3>1. first' = first /\ first \in Gone /\ event_time(Rec(first)) # 0
      BY <2>4, <2>8 DEF FirstIsFirst
    <3>2. event_time(Rec(r)) = 0 \/ event_time(Rec(first)) <= event_time(Rec(r))
      BY <2>1, <2>2, <3>1 DEF earlier_event
    <3>3. QED
      BY <1>2, <1>3, <2>3, <2>4, <2>8, <3>1, <3>2 DEF FirstIsFirst
  <2>9. QED
    BY <2>6, <2>7, <2>8
<1>6. QED
  BY <1>1, <1>2, <1>3, <1>4, <1>5 DEF DumpInv, LeftIsLater

LEMMA DumpEventStep ==
    ASSUME DumpInv, NEW r \in Earliest(h), DumpEvent(r)
    PROVE  DumpInv'
<1>1. /\ files' = files /\ command' = command /\ Refs' = Refs /\ (\A q : Rec(q)' = Rec(q))
      /\ r \in Refs /\ r \notin Gone /\ Gone' = Gone \cup {r} /\ pc = "run"
      /\ LeftIsLater' /\ FirstIsFirst' /\ \A q \in Gone : ~earlier_event(Rec(r), Rec(q))
  BY DumpTakes DEF DumpEvent
<1>2. /\ pc' = "run" /\ printed' = Append(printed, r) /\ find_release' = find_release
      /\ released' = released /\ ~find_release /\ HeapInv'
  BY <1>1, DumpHeapInv DEF DumpEvent, StDumpNext, DumpInv
<1>3. ~command.find_release /\ PrintedGone /\ released = <<>>
  BY <1>1, <1>2 DEF DumpInv, Dumped
<1>4. /\ printed' \in Seq(Refs) /\ Len(printed) \in Nat
      /\ DOMAIN printed = 1 .. Len(printed) /\ DOMAIN printed' = 1 .. Len(printed) + 1
      /\ printed'[Len(printed) + 1] = r /\ \A i \in DOMAIN printed : printed'[i] = printed[i]
  BY <1>1, <1>2, <1>3 DEF PrintedGone
<1>5. InOrder(printed')
  BY <1>1, <1>3, <1>4 DEF PrintedGone, InOrder
<1>6. InOrder(printed)'
  BY <1>1, <1>5 DEF InOrder, earlier_event
<1>7. ~PrintedTwice'
  <2>1. SUFFICES ASSUME NEW i \in DOMAIN printed', NEW j \in DOMAIN printed', i # j
                 PROVE  printed'[i] # printed'[j]
    BY DEF PrintedTwice
  <2>2. \A k \in DOMAIN printed : printed'[k] \in Gone
    BY <1>3, <1>4 DEF PrintedGone
  <2>3. CASE i \in DOMAIN printed /\ j \in DOMAIN printed
    BY <1>3, <1>4, <2>1, <2>3 DEF PrintedGone, PrintedTwice
  <2>4. CASE i \notin DOMAIN printed \/ j \notin DOMAIN printed
    BY <1>1, <1>4, <2>1, <2>2, <2>4
  <2>5. QED
    BY <2>3, <2>4
<1>8. \A q \in Gone' : \E i \in DOMAIN printed' : printed'[i] = q
  BY <1>1, <1>3, <1>4 DEF PrintedGone
<1>9. \A i \in DOMAIN printed' : printed'[i] \in Gone'
  BY <1>1, <1>3, <1>4 DEF PrintedGone
<1>10. PrintedGone'
  BY <1>1, <1>4, <1>6, <1>7, <1>8, <1>9 DEF PrintedGone
<1>11. QED
  BY <1>1, <1>2, <1>3, <1>6, <1>10 DEF DumpInv, Dumped

LEMMA DumpPassesStep ==
    ASSUME DumpInv, NEW r \in Earliest(h), DumpPasses(r)
    PROVE  DumpInv'
<1>1. /\ files' = files /\ command' = command /\ Refs' = Refs /\ (\A q : Rec(q)' = Rec(q))
      /\ Gone' = Gone \cup {r} /\ pc = "run" /\ LeftIsLater' /\ FirstIsFirst'
  BY DumpTakes DEF DumpPasses
<1>2. /\ pc' = "run" /\ printed' = printed /\ find_release' = find_release
      /\ released' = released /\ find_release /\ HeapInv'
  BY <1>1, DumpHeapInv DEF DumpPasses, StDumpNext, DumpInv
<1>3. command.find_release /\ printed = <<>> /\ released = <<>> /\ Gone \cap Releases = {}
  BY <1>1, <1>2 DEF DumpInv, Dumped
<1>4. (Gone \cap Releases)' = {}
  BY <1>1, <1>3 DEF Releases, DumpPasses
<1>5. InOrder(printed)'
  BY <1>2, <1>3 DEF InOrder
<1>6. QED
  BY <1>1, <1>2, <1>3, <1>4, <1>5 DEF DumpInv, Dumped

\* The release that is found is the earliest: what is left in the heap is not earlier.
LEMMA DumpReleaseStep ==
    ASSUME DumpInv, NEW r \in Earliest(h), DumpRelease(r)
    PROVE  DumpInv'
<1>1. /\ files' = files /\ command' = command /\ Refs' = Refs /\ (\A q : Rec(q)' = Rec(q))
      /\ r \in Refs /\ r \in h /\ Gone' = Gone \cup {r} /\ pc = "run"
      /\ file > Len(files) /\ file' = file /\ count' = count
  BY DumpTakes DEF DumpRelease, Earliest
<1>2. /\ pc' = "done" /\ printed' = printed /\ released' = <<Rec(r).raw1>>
      /\ find_release /\ Rec(r).type = "ST_SYS_RELEASE" /\ HeapInv' /\ HeapInv
  BY <1>1, DumpHeapInv DEF DumpRelease, StDumpNext, DumpInv
<1>3. command.find_release /\ printed = <<>> /\ Gone \cap Releases = {}
  BY <1>1, <1>2 DEF DumpInv, Dumped
<1>4. r \in Releases /\ Releases \subseteq h
  BY <1>1, <1>2, <1>3 DEF Releases, Gone
<1>5. \A q \in Releases : Rec(r).raw0 <= Rec(q).raw0
  <2>1. SUFFICES ASSUME NEW q \in Releases PROVE Rec(r).raw0 <= Rec(q).raw0
    OBVIOUS
  <2>2. ~earlier_event(Rec(q), Rec(r)) /\ q \in Refs
    BY <1>4 DEF Earliest, Releases
  <2>3. event_time(Rec(q)) \in Nat /\ event_time(Rec(r)) \in Nat
    BY <1>1, <1>2, <2>2, TimeType DEF HeapInv, Bounded
  <2>4. event_time(Rec(q)) = Rec(q).raw0 /\ event_time(Rec(r)) = Rec(r).raw0
    BY <1>2 DEF event_time, Timed, Releases
  <2>5. QED
    BY <2>2, <2>3, <2>4 DEF earlier_event
<1>6. Releases' = Releases /\ InOrder(printed)'
  BY <1>1, <1>2, <1>3 DEF Releases, InOrder
<1>7. ReleaseReported'
  BY <1>1, <1>2, <1>3, <1>4, <1>5, <1>6 DEF ReleaseReported
<1>8. PrintedExact'
  <2>1. Before(file) = Refs /\ count = Cardinality(Before(file))
    BY <1>1, <1>2, AllLoaded DEF HeapInv
  <2>2. (count = Cardinality(Refs))'
    BY <1>1, <2>1
  <2>3. QED
    BY <1>1, <1>3, <1>6, <2>2 DEF PrintedExact
<1>9. QED
  BY <1>1, <1>2, <1>7, <1>8 DEF DumpInv, DumpExact, Bounded

LEMMA DumpEndsStep ==
    ASSUME DumpInv, DumpEnds
    PROVE  DumpInv'
<1>1. /\ pc = "run" /\ pc' = "done" /\ h = {} /\ command' = command /\ files' = files
      /\ file' = file /\ count' = count /\ printed' = printed /\ first' = first
      /\ find_release' = find_release
      /\ released' = IF find_release /\ command.use_first_nonzero /\ first # None
                     THEN <<event_time(Rec(first))>> ELSE released
  BY DEF DumpEnds, Drained
<1>2. Refs' = Refs /\ (\A q : Rec(q)' = Rec(q)) /\ Gone = Refs
  BY <1>1, SameFiles DEF Gone
<1>3. HeapInv /\ HeapInv' /\ file > Len(files) /\ LeftIsLater /\ FirstIsFirst /\ Dumped
      /\ InOrder(printed)
  BY <1>1, DumpHeapInv DEF DumpInv, HeapInv, StDumpNext
<1>4. PrintedExact'
  <2>1. count = Cardinality(Refs)
    BY <1>3, AllLoaded DEF HeapInv
  <2>2. (count = Cardinality(Refs))'
    BY <1>1, <1>2, <2>1
  <2>3. InOrder(printed)'
    BY <1>1, <1>2, <1>3 DEF InOrder, earlier_event, event_time
  <2>4. ASSUME ~command.find_release
        PROVE  /\ Len(printed) = Cardinality(Refs)
               /\ \A r \in Refs : \E i \in DOMAIN printed : printed[i] = r
    <3>1. PrintedGone
      BY <1>3, <2>4 DEF Dumped
    <3>2. Len(printed) = Cardinality(Refs)
      BY <1>1, <3>1, PrintedSize
    <3>3. QED
      BY <1>2, <3>1, <3>2 DEF PrintedGone
  <2>5. (Cardinality(Refs))' = Cardinality(Refs)
    BY <1>2
  <2>6. QED
    BY <1>1, <1>2, <2>2, <2>3, <2>4, <2>5 DEF PrintedExact
<1>5. ReleaseReported'
  <2>1. SUFFICES ASSUME command.find_release PROVE ReleaseReported'
    BY <1>1 DEF ReleaseReported
  <2>2. printed = <<>> /\ find_release /\ released = <<>> /\ Releases = {}
    BY <1>2, <1>3, <2>1 DEF Dumped, Releases
  <2>3. Releases' = {} /\ Times' = Times
    BY <1>2, <2>2 DEF Releases, Times, event_time
  <2>4. CASE first = None
    <3>1. Times = {}
      BY <1>2, <1>3, <2>4 DEF FirstIsFirst, Times
    <3>2. QED
      BY <1>1, <2>2, <2>3, <2>4, <3>1 DEF ReleaseReported
  <2>5. CASE first # None
    <3>1. /\ first \in Refs /\ event_time(Rec(first)) # 0
          /\ \A q \in Refs : event_time(Rec(q)) = 0
                              \/ event_time(Rec(first)) <= event_time(Rec(q))
      BY <1>2, <1>3, <2>5 DEF FirstIsFirst
    <3>2. event_time(Rec(first)) \in Times
      BY <3>1 DEF Times
    <3>3. \A u \in Times : event_time(Rec(first)) <= u
      BY <3>1 DEF Times
    <3>4. QED
      BY <1>1, <2>2, <2>3, <2>5, <3>2, <3>3 DEF ReleaseReported
  <2>6. QED
    BY <2>4, <2>5
<1>6. QED
  BY <1>1, <1>3, <1>4, <1>5 DEF DumpInv, DumpExact, Bounded

-----------------------------------------------------------------------------
LEMMA DumpInvNext == DumpInv /\ [StDumpNext]_stDumpVars => DumpInv'
<1>1. SUFFICES ASSUME DumpInv, [StDumpNext]_stDumpVars PROVE DumpInv'
  OBVIOUS
<1>2. CASE Load /\ UNCHANGED dumpVars
  BY <1>1, <1>2, DumpLoadStep
<1>3. CASE \E r \in Earliest(h) : DumpEvent(r) \/ DumpPasses(r) \/ DumpRelease(r)
  BY <1>1, <1>3, DumpEventStep, DumpPassesStep, DumpReleaseStep
<1>4. CASE DumpEnds
  BY <1>1, <1>4, DumpEndsStep
<1>5. CASE UNCHANGED stDumpVars
  <2>1. /\ UNCHANGED <<command, files, pc, file, next, h, h2, hn, count>>
        /\ UNCHANGED <<find_release, first, printed, released>>
    BY <1>5 DEF stDumpVars, loadVars, dumpVars
  <2>2. Refs' = Refs /\ (\A q : Rec(q)' = Rec(q)) /\ HeapInv' /\ Gone' = Gone
    BY <1>1, <2>1, SameFiles, DumpHeapInv DEF DumpInv, Gone
  <2>3. InOrder(printed)' <=> InOrder(printed)
    BY <2>1, <2>2 DEF InOrder, earlier_event, event_time
  <2>4. (PrintedGone' <=> PrintedGone) /\ (Untouched' <=> Untouched)
    BY <2>1, <2>2, <2>3 DEF PrintedGone, PrintedTwice, Untouched
  <2>5. Releases' = Releases /\ Times' = Times
    BY <2>2 DEF Releases, Times, event_time
  <2>6. (LeftIsLater' <=> LeftIsLater) /\ (FirstIsFirst' <=> FirstIsFirst) /\ (Dumped' <=> Dumped)
    BY <2>1, <2>2, <2>4, <2>5 DEF LeftIsLater, FirstIsFirst, Dumped, earlier_event, event_time
  <2>7. DumpExact' <=> DumpExact
    BY <2>1, <2>2, <2>3, <2>5 DEF DumpExact, PrintedExact, ReleaseReported
  <2>8. QED
    BY <1>1, <2>1, <2>2, <2>3, <2>4, <2>6, <2>7 DEF DumpInv
<1>6. QED
  BY <1>1, <1>2, <1>3, <1>4, <1>5 DEF StDumpNext

\* stdump prints every record of every file once, in the order of time, or the release
\* or the first time of the trace; what it counts is all that there is
\* (src/stdump.c:73-95).
THEOREM DumpIsExact == StDumpSpec => []DumpExact
<1>1. DumpInv => DumpExact
  BY DEF DumpInv, DumpExact, PrintedExact, ReleaseReported
<1>2. QED
  BY <1>1, DumpInvInit, DumpInvNext, PTL DEF StDumpSpec

\* To the heaps stdump does what a priority queue does (src/stdump.c:67-95, src/eheap.c:6).
THEOREM DumpImplementsQueue == StDumpSpec => LoadIsPriorityQueue
<1>1. StDumpInit => LoadInit
  BY DEF StDumpInit
<1>2. StDumpSpec => LoadSpec
  BY <1>1, DumpLoads, PTL DEF StDumpSpec, LoadSpec
<1>3. QED
  BY <1>2, LoadImplementsQueue
-----------------------------------------------------------------------------
(* st-draw: the iterators have yielded what they seek among the records    *)
(* that are behind trace and pos, and so what is drawn is known.           *)
Passed(r) == r[1] < trace \/ (r[1] = trace /\ r[2] < pos)

\* A switch that is still to be paired is the last one that was passed.
ToIsLast ==
    to # None =>
      /\ to \in Refs /\ to[1] = trace /\ to[2] < pos /\ Rec(to).type = "ST_SWITCH_TO"
      /\ \A k \in to[2] + 1 .. pos - 1 : Rec(<<trace, k>>).type \notin SWITCHES

AllocationsPassed == {ran \in RanInRange : Passed(ran[1]) /\ ran[1] # to}

OfKind(r, k) == Rec(r).type = MARKS[k] /\ Within(Rec(r), start, end)

MarksPassed ==
    {r \in Refs : \E k \in 1 .. kind : OfKind(r, k) /\ (k = kind => Passed(r))}

DrawInv ==
    /\ files \in Seq(File)
    /\ trace \in 1 .. Len(files) + 1 /\ pos \in Nat \ {0} /\ kind \in 1 .. 4
    /\ pc = "open" => /\ trace = 1 /\ pos = 1 /\ kind = 1 /\ to = None
                      /\ allocations = <<>> /\ marks = <<>>
    /\ pc = "allocations" => /\ ToIsLast /\ Lists(allocations, AllocationsPassed)
                             /\ kind = 1 /\ marks = <<>>
    /\ pc \in {"marks", "done"} => to = None /\ Lists(allocations, RanInRange)
    /\ pc = "marks" => Lists(marks, MarksPassed)
    /\ pc = "done" => Lists(marks, MarksInRange)

-----------------------------------------------------------------------------
\* What the iterator yields is a record of the file being read, the first one sought of
\* those that have not been passed.
LEMMA YieldedIsNext ==
    ASSUME DrawInv, Reading, NEW i \in Yielded
    PROVE  /\ trace \in DOMAIN files /\ i \in DOMAIN files[trace].recs
           /\ <<trace, i>> \in Refs /\ i \in Nat \ {0} /\ pos <= i /\ Sought(<<trace, i>>)
           /\ \A k \in DOMAIN files[trace].recs : pos <= k /\ k < i => ~Sought(<<trace, k>>)
<1>1. trace \in DOMAIN files /\ files[trace] \in File
  BY DEF DrawInv, Reading
<1>2. files[trace].recs \in Seq(Record)
  BY <1>1 DEF File
<1>3. i \in DOMAIN files[trace].recs /\ pos <= i /\ Sought(<<trace, i>>)
      /\ \A k \in Ahead : i <= k
  BY DEF Yielded, Ahead
<1>4. <<trace, i>> \in Refs /\ i \in Nat \ {0}
  BY <1>1, <1>2, <1>3, RefsAre
<1>5. ASSUME NEW k \in DOMAIN files[trace].recs, pos <= k, k < i PROVE ~Sought(<<trace, k>>)
  <2>1. k \notin Ahead
    BY <1>2, <1>3, <1>4, <1>5
  <2>2. QED
    BY <1>5, <2>1 DEF Ahead
<1>6. QED
  BY <1>1, <1>3, <1>4, <1>5

\* What is passed when the record i of the file is.
LEMMA PassedBy ==
    ASSUME DrawInv, NEW i \in Nat \ {0}, pos <= i, trace' = trace, pos' = i + 1
    PROVE  \A r \in Refs : Passed(r)' <=> Passed(r) \/ (r[1] = trace /\ pos <= r[2] /\ r[2] <= i)
<1>1. SUFFICES ASSUME NEW r \in Refs
               PROVE  Passed(r)' <=> Passed(r) \/ (r[1] = trace /\ pos <= r[2] /\ r[2] <= i)
  OBVIOUS
<1>2. r[1] \in Nat /\ r[2] \in Nat /\ trace \in Nat /\ pos \in Nat
  BY RefPosition DEF DrawInv
<1>3. r[2] < i + 1 <=> r[2] < pos \/ (pos <= r[2] /\ r[2] <= i)
  BY <1>2
<1>4. QED
  BY <1>2, <1>3 DEF Passed

\* What is passed when the file is left behind.
LEMMA PassedFile ==
    ASSUME DrawInv, trace' = trace + 1, pos' = 1
    PROVE  \A r \in Refs : Passed(r)' <=> Passed(r) \/ (r[1] = trace /\ pos <= r[2])
<1>1. SUFFICES ASSUME NEW r \in Refs
               PROVE  Passed(r)' <=> Passed(r) \/ (r[1] = trace /\ pos <= r[2])
  OBVIOUS
<1>2. r[1] \in Nat /\ r[2] \in Nat \ {0} /\ trace \in Nat /\ pos \in Nat
  BY RefPosition DEF DrawInv
<1>3. QED
  BY <1>2 DEF Passed

\* At the beginning nothing is passed, and at the end everything.
LEMMA PassedNothing ==
    ASSUME files \in Seq(File), trace = 1, pos = 1
    PROVE  \A r \in Refs : ~Passed(r)
  BY RefPosition DEF Passed

LEMMA PassedAll ==
    ASSUME DrawInv, ~(trace <= Len(files))
    PROVE  \A r \in Refs : Passed(r)
<1>1. SUFFICES ASSUME NEW r \in Refs PROVE Passed(r)
  OBVIOUS
<1>2. r[1] \in Nat /\ r[1] <= Len(files) /\ trace \in Nat /\ Len(files) \in Nat
  BY RefPosition DEF DrawInv
<1>3. QED
  BY <1>2 DEF Passed

-----------------------------------------------------------------------------
\* The switch away that goes with the pending switch is no earlier than the records that
\* have not been passed, and is the first switch of them.
LEMMA RanAhead ==
    ASSUME DrawInv, pc = "allocations", to # None, NEW ran \in Ran, ran[1] = to
    PROVE  /\ ran[2] = <<trace, ran[2][2]>> /\ ran[2][2] \in Ahead
           /\ \A k \in Ahead : ran[2][2] <= k
<1> DEFINE b == ran[2]
<1>1. /\ ran = <<to, b>> /\ to \in Refs /\ b \in Refs /\ to[1] = b[1] /\ to[2] < b[2]
      /\ \A k \in to[2] + 1 .. b[2] - 1 : Rec(<<to[1], k>>).type \notin SWITCHES
      /\ Rec(b).type = "ST_SWITCH_AWAY"
  BY DEF Ran, RanFrom, Matches
<1>2. /\ to[1] = trace /\ to[2] < pos
      /\ \A k \in to[2] + 1 .. pos - 1 : Rec(<<trace, k>>).type \notin SWITCHES
  BY DEF DrawInv, ToIsLast
<1>3. b = <<trace, b[2]>> /\ b[2] \in DOMAIN files[trace].recs
      /\ b[2] \in Nat /\ to[2] \in Nat /\ pos \in Nat
  BY <1>1, <1>2, RefsAre, RefPosition DEF DrawInv
<1>4. Rec(<<trace, b[2]>>).type \in SWITCHES
  BY <1>1, <1>3 DEF SWITCHES
<1>5. pos <= b[2]
  BY <1>1, <1>2, <1>3, <1>4
<1>6. b[2] \in Ahead
  BY <1>3, <1>4, <1>5 DEF Ahead, Sought
<1>7. ASSUME NEW k \in Ahead PROVE b[2] <= k
  <2>1. k \in DOMAIN files[trace].recs /\ pos <= k /\ Rec(<<trace, k>>).type \in SWITCHES
    BY DEF Ahead, Sought
  <2>2. k \in Nat
    <3>1. trace \in DOMAIN files /\ files[trace] \in File
      BY <1>1, <1>2, RefsAre DEF DrawInv
    <3>2. files[trace].recs \in Seq(Record)
      BY <3>1 DEF File
    <3>3. QED
      BY <2>1, <3>2
  <2>3. k \notin to[2] + 1 .. b[2] - 1
    BY <1>1, <1>2, <2>1
  <2>4. QED
    BY <1>2, <1>3, <2>1, <2>2, <2>3
<1>8. QED
  BY <1>3, <1>6, <1>7

\* So it is the record that the iterator yields.
LEMMA RanIsYielded ==
    ASSUME DrawInv, pc = "allocations", Reading, to # None, NEW i \in Yielded
    PROVE  /\ \A ran \in Ran : ran[1] = to => ran = <<to, <<trace, i>>>>
           /\ Matches(Rec(to), Rec(<<trace, i>>)) => <<to, <<trace, i>>>> \in Ran
<1>1. /\ <<trace, i>> \in Refs /\ i \in Nat \ {0} /\ pos <= i
      /\ \A k \in DOMAIN files[trace].recs : pos <= k /\ k < i => ~Sought(<<trace, k>>)
  BY YieldedIsNext
<1>2. ASSUME NEW ran \in Ran, ran[1] = to PROVE ran = <<to, <<trace, i>>>>
  <2>1. ran[2] = <<trace, ran[2][2]>> /\ ran[2][2] \in Ahead /\ \A k \in Ahead : ran[2][2] <= k
    BY <1>2, RanAhead
  <2>2. i \in Ahead /\ i <= ran[2][2]
    BY <2>1 DEF Yielded
  <2>3. ran[2][2] \in Nat
    <3>1. ran[2] \in Refs
      BY DEF Ran
    <3>2. QED
      BY <3>1, RefPosition DEF DrawInv
  <2>4. ran[2][2] = i
    BY <1>1, <2>1, <2>2, <2>3
  <2>5. ran = <<ran[1], ran[2]>>
    BY DEF Ran
  <2>6. QED
    BY <1>2, <2>1, <2>4, <2>5
<1>3. ASSUME Matches(Rec(to), Rec(<<trace, i>>)) PROVE <<to, <<trace, i>>>> \in Ran
  <2>1. /\ to \in Refs /\ to[1] = trace /\ to[2] < pos /\ Rec(to).type = "ST_SWITCH_TO"
        /\ \A k \in to[2] + 1 .. pos - 1 : Rec(<<trace, k>>).type \notin SWITCHES
    BY DEF DrawInv, ToIsLast
  <2>2. to[2] \in Nat /\ pos \in Nat /\ trace \in DOMAIN files /\ i \in DOMAIN files[trace].recs
    BY <2>1, RefPosition, YieldedIsNext DEF DrawInv
  <2>3. files[trace].recs \in Seq(Record)
    <3>1. files[trace] \in File
      BY <2>2 DEF DrawInv
    <3>2. QED
      BY <3>1 DEF File
  <2>4. ASSUME NEW k \in to[2] + 1 .. i - 1 PROVE Rec(<<to[1], k>>).type \notin SWITCHES
    <3>1. CASE k < pos
      BY <2>1, <2>2, <3>1
    <3>2. CASE ~(k < pos)
      <4>1. k \in DOMAIN files[trace].recs /\ pos <= k /\ k < i
        BY <1>1, <2>2, <2>3, <3>2
      <4>2. QED
        BY <1>1, <2>1, <4>1 DEF Sought
    <3>3. QED
      BY <3>1, <3>2
  <2>5. to[2] < i
    BY <1>1, <2>1, <2>2
  <2>6. QED
    BY <1>1, <1>3, <2>1, <2>4, <2>5 DEF Ran, RanFrom
<1>4. QED
  BY <1>2, <1>3

-----------------------------------------------------------------------------
\* The parts of the invariant that a step which leaves the interval alone only sees
\* through what has been passed.
LEMMA DrawFixed ==
    ASSUME DrawFrame
    PROVE  /\ files' = files /\ Refs' = Refs /\ \A r : Rec(r)' = Rec(r)
           /\ Ran' = Ran
           /\ UNCHANGED <<start, end>> => RanInRange' = RanInRange /\ MarksInRange' = MarksInRange
           /\ UNCHANGED <<start, end>> => \A r, k : OfKind(r, k)' = OfKind(r, k)
<1>1. files' = files /\ Refs' = Refs /\ (\A r : Rec(r)' = Rec(r))
  BY SameFiles DEF DrawFrame
<1>2. \A a, b : RanFrom(a, b)' = RanFrom(a, b)
  BY <1>1 DEF RanFrom, Matches, event_time
<1>3. Ran' = Ran
  BY <1>1, <1>2 DEF Ran
<1>4. ASSUME UNCHANGED <<start, end>>
      PROVE  /\ RanInRange' = RanInRange /\ MarksInRange' = MarksInRange
             /\ \A r, k : OfKind(r, k)' = OfKind(r, k)
  BY <1>1, <1>3, <1>4 DEF RanInRange, MarksInRange, InRange, Within, OfKind, event_time
<1>5. QED
  BY <1>1, <1>3, <1>4

LEMMA DrawInvInit == StDrawInit => DrawInv
  BY ScheduleAssumption DEF StDrawInit, TraceInit, DrawInit, DrawInv

LEMMA CannotDrawStep == DrawInv /\ CannotDraw => DrawInv'
<1>1. SUFFICES ASSUME DrawInv, CannotDraw PROVE DrawInv'
  OBVIOUS
<1>2. files' = files /\ trace' = trace /\ pos' = pos /\ kind' = kind /\ pc' = "failed"
  BY <1>1 DEF CannotDraw, DrawFrame, drawVars
<1>3. QED
  BY <1>1, <1>2 DEF DrawInv

LEMMA IdentifyStep == DrawInv /\ Identify => DrawInv'
<1>1. SUFFICES ASSUME DrawInv, Identify PROVE DrawInv'
  OBVIOUS
<1>2. /\ files' = files /\ Refs' = Refs /\ pc = "open" /\ pc' = "allocations"
      /\ UNCHANGED <<kind, trace, pos, to, allocations, marks>>
  BY <1>1, DrawFixed DEF Identify
<1>3. trace = 1 /\ pos = 1 /\ kind = 1 /\ to = None /\ allocations = <<>> /\ marks = <<>>
  BY <1>1, <1>2 DEF DrawInv
<1>4. \A r \in Refs : ~Passed(r)
  BY <1>1, <1>3, PassedNothing DEF DrawInv
<1>5. AllocationsPassed' = {}
  BY <1>2, <1>4 DEF AllocationsPassed, RanInRange, Ran, Passed
<1>6. Lists(allocations, AllocationsPassed)'
  BY <1>2, <1>3, <1>5, ListsNothing
<1>7. ToIsLast'
  BY <1>2, <1>3 DEF ToIsLast, None
<1>8. QED
  BY <1>1, <1>2, <1>3, <1>6, <1>7 DEF DrawInv

\* The end of a file: there is no switch away in it for the pending switch.
LEMMA NextTraceStep == DrawInv /\ NextTrace => DrawInv'
<1>1. SUFFICES ASSUME DrawInv, NextTrace PROVE DrawInv'
  OBVIOUS
<1>2. /\ Reading /\ Ahead = {} /\ trace' = trace + 1 /\ pos' = 1 /\ to' = None
      /\ files' = files /\ Refs' = Refs /\ pc' = pc
      /\ RanInRange' = RanInRange /\ MarksInRange' = MarksInRange
      /\ UNCHANGED <<start, end, kind, allocations, marks>>
      /\ \A r, k : OfKind(r, k)' = OfKind(r, k)
  BY <1>1, DrawFixed DEF NextTrace
<1>3. trace' \in 1 .. Len(files) + 1 /\ pos' \in Nat \ {0} /\ (files \in Seq(File))'
  BY <1>1, <1>2 DEF DrawInv, Reading
<1>4. \A r \in Refs : Passed(r)' <=> Passed(r) \/ (r[1] = trace /\ pos <= r[2])
  BY <1>1, <1>2, PassedFile
<1>5. \A r \in Refs : r[1] = trace /\ pos <= r[2] => ~Sought(r)
  <2>1. SUFFICES ASSUME NEW r \in Refs, r[1] = trace, pos <= r[2] PROVE ~Sought(r)
    OBVIOUS
  <2>2. r = <<trace, r[2]>> /\ r[2] \in DOMAIN files[trace].recs
    BY <2>1, RefsAre
  <2>3. r[2] \notin Ahead
    BY <1>2
  <2>4. QED
    BY <2>1, <2>2, <2>3 DEF Ahead
<1>6. ASSUME pc = "allocations"
      PROVE  ToIsLast' /\ Lists(allocations, AllocationsPassed)' /\ (kind = 1 /\ marks = <<>>)'
  <2>1. AllocationsPassed' = AllocationsPassed
    <3>1. SUFFICES ASSUME NEW ran \in RanInRange
                   PROVE  Passed(ran[1])' <=> Passed(ran[1]) /\ ran[1] # to
      <4>1. \A ran \in RanInRange : ran[1] # None
        BY RefsAre DEF RanInRange, Ran, None
      <4>2. QED
        BY <1>2, <3>1, <4>1 DEF AllocationsPassed
    <3>2. ran \in Ran /\ ran[1] \in Refs /\ Rec(ran[1]).type = "ST_SWITCH_TO"
      BY DEF RanInRange, Ran, RanFrom
    <3>3. Sought(ran[1])
      BY <1>6, <3>2 DEF Sought, SWITCHES
    <3>4. Passed(ran[1])' <=> Passed(ran[1])
      BY <1>4, <1>5, <3>2, <3>3
    <3>5. ran[1] # to
      <4>1. SUFFICES ASSUME ran[1] = to PROVE FALSE
        OBVIOUS
      <4>2. to # None
        BY <3>2, <4>1, RefsAre DEF None
      <4>3. QED
        BY <1>1, <1>2, <1>6, <3>2, <4>1, <4>2, RanAhead
    <3>6. QED
      BY <3>4, <3>5
  <2>2. Lists(allocations, AllocationsPassed) /\ kind = 1 /\ marks = <<>>
    BY <1>1, <1>6 DEF DrawInv
  <2>3. ToIsLast'
    BY <1>2 DEF ToIsLast
  <2>4. QED
    BY <1>2, <2>1, <2>2, <2>3
<1>7. ASSUME pc = "marks" PROVE Lists(marks, MarksPassed)'
  <2>1. MarksPassed' = MarksPassed
    <3>1. SUFFICES ASSUME NEW r \in Refs, OfKind(r, kind) PROVE Passed(r)' <=> Passed(r)
      BY <1>2 DEF MarksPassed
    <3>2. Sought(r)
      BY <1>7, <3>1 DEF Sought, OfKind
    <3>3. QED
      BY <1>4, <1>5, <3>2
  <2>2. QED
    BY <1>1, <1>2, <1>7, <2>1 DEF DrawInv
<1>8. pc = "allocations" \/ pc = "marks"
  BY <1>2 DEF Reading
<1>9. QED
  BY <1>1, <1>2, <1>3, <1>6, <1>7, <1>8 DEF DrawInv

-----------------------------------------------------------------------------
\* What all the steps that look at a record have in common.
LEMMA LooksAt ==
    ASSUME DrawInv, Reading, NEW i \in Yielded, DrawFrame, UNCHANGED <<start, end, kind, trace>>
    PROVE  /\ files' = files /\ Refs' = Refs /\ (\A r : Rec(r)' = Rec(r))
           /\ RanInRange' = RanInRange /\ trace' = trace
           /\ trace' \in 1 .. Len(files') + 1 /\ kind' \in 1 .. 4 /\ (files \in Seq(File))'
           /\ <<trace, i>> \in Refs /\ i \in Nat \ {0} /\ pos <= i /\ pos \in Nat \ {0}
           /\ Sought(<<trace, i>>)
           /\ \A k \in DOMAIN files[trace].recs : pos <= k /\ k < i => ~Sought(<<trace, k>>)
           /\ \A r, k : OfKind(r, k)' = OfKind(r, k)
  BY DrawFixed, YieldedIsNext DEF DrawInv

\* Of the records sought no other is passed with the one that is yielded.
LEMMA PassedSought ==
    ASSUME DrawInv, Reading, NEW i \in Yielded, trace' = trace, pos' = i + 1,
           NEW r \in Refs, Sought(r)
    PROVE  Passed(r)' <=> Passed(r) \/ r = <<trace, i>>
<1>1. /\ i \in Nat \ {0} /\ pos <= i
      /\ \A k \in DOMAIN files[trace].recs : pos <= k /\ k < i => ~Sought(<<trace, k>>)
  BY YieldedIsNext
<1>2. Passed(r)' <=> Passed(r) \/ (r[1] = trace /\ pos <= r[2] /\ r[2] <= i)
  BY <1>1, PassedBy
<1>3. r = <<r[1], r[2]>> /\ r[2] \in DOMAIN files[r[1]].recs /\ r[2] \in Nat
  BY RefsAre, RefPosition DEF DrawInv
<1>4. r[1] = trace /\ pos <= r[2] /\ r[2] <= i => r[2] = i
  <2>1. ASSUME r[1] = trace, pos <= r[2], r[2] < i PROVE FALSE
    BY <1>1, <1>3, <2>1
  <2>2. QED
    BY <1>1, <1>3, <2>1
<1>5. r = <<trace, i>> => r[1] = trace /\ pos <= r[2] /\ r[2] <= i
  BY <1>1
<1>6. QED
  BY <1>2, <1>3, <1>4, <1>5

LEMMA YieldedNotPassed ==
    ASSUME DrawInv, Reading, NEW i \in Yielded
    PROVE  ~Passed(<<trace, i>>)
<1>1. i \in Nat \ {0} /\ pos <= i
  BY YieldedIsNext
<1>2. pos \in Nat /\ trace \in Nat
  BY DEF DrawInv
<1>3. QED
  BY <1>1, <1>2 DEF Passed

LEMMA FastForwardStep ==
    ASSUME DrawInv, Reading, NEW i \in Yielded, FastForward(i)
    PROVE  DrawInv'
<1>1. /\ files' = files /\ Refs' = Refs /\ (\A r : Rec(r)' = Rec(r))
      /\ RanInRange' = RanInRange /\ trace' = trace
      /\ trace' \in 1 .. Len(files') + 1 /\ kind' \in 1 .. 4 /\ (files \in Seq(File))'
      /\ i \in Nat \ {0}
  BY LooksAt DEF FastForward
<1>2. /\ pc = "allocations" /\ pc' = pc /\ to = None /\ to' = to /\ pos' = i + 1
      /\ Rec(<<trace, i>>).type # "ST_SWITCH_TO" /\ UNCHANGED <<kind, allocations, marks>>
  BY DEF FastForward
<1>3. AllocationsPassed' = AllocationsPassed
  <2>1. SUFFICES ASSUME NEW ran \in RanInRange PROVE Passed(ran[1])' <=> Passed(ran[1])
    BY <1>1, <1>2 DEF AllocationsPassed
  <2>2. ran[1] \in Refs /\ Rec(ran[1]).type = "ST_SWITCH_TO"
    BY DEF RanInRange, Ran, RanFrom
  <2>3. Sought(ran[1])
    BY <1>2, <2>2 DEF Sought, SWITCHES
  <2>4. QED
    BY <1>1, <1>2, <2>2, <2>3, PassedSought
<1>4. ToIsLast' /\ pos' \in Nat \ {0}
  BY <1>1, <1>2 DEF ToIsLast
<1>5. QED
  BY <1>1, <1>2, <1>3, <1>4 DEF DrawInv

LEMMA SwitchToStep ==
    ASSUME DrawInv, Reading, NEW i \in Yielded, SwitchTo(i)
    PROVE  DrawInv'
<1>1. /\ files' = files /\ Refs' = Refs /\ (\A r : Rec(r)' = Rec(r))
      /\ RanInRange' = RanInRange /\ trace' = trace
      /\ trace' \in 1 .. Len(files') + 1 /\ kind' \in 1 .. 4 /\ (files \in Seq(File))'
      /\ i \in Nat \ {0} /\ <<trace, i>> \in Refs
  BY LooksAt DEF SwitchTo
<1>2. /\ pc = "allocations" /\ pc' = pc /\ to = None /\ to' = <<trace, i>> /\ pos' = i + 1
      /\ Rec(<<trace, i>>).type = "ST_SWITCH_TO" /\ UNCHANGED <<kind, allocations, marks>>
  BY DEF SwitchTo
<1>3. AllocationsPassed' = AllocationsPassed
  <2>1. SUFFICES ASSUME NEW ran \in RanInRange
                 PROVE  Passed(ran[1])' /\ ran[1] # to' <=> Passed(ran[1]) /\ ran[1] # to
    BY <1>1 DEF AllocationsPassed
  <2>2. ran[1] \in Refs /\ Rec(ran[1]).type = "ST_SWITCH_TO"
    BY DEF RanInRange, Ran, RanFrom
  <2>3. Sought(ran[1])
    BY <1>2, <2>2 DEF Sought, SWITCHES
  <2>4. Passed(ran[1])' <=> Passed(ran[1]) \/ ran[1] = to'
    BY <1>1, <1>2, <2>2, <2>3, PassedSought
  <2>5. ~Passed(to')
    BY <1>2, YieldedNotPassed
  <2>6. ran[1] # None
    BY <2>2, RefsAre DEF None
  <2>7. QED
    BY <1>2, <2>4, <2>5, <2>6
<1>4. ToIsLast' /\ pos' \in Nat \ {0}
  <2>1. <<trace, i>>[1] = trace /\ <<trace, i>>[2] = i /\ i < i + 1 /\ i + 1 .. i + 1 - 1 = {}
    BY <1>1
  <2>2. QED
    BY <1>1, <1>2, <2>1 DEF ToIsLast
<1>5. QED
  BY <1>1, <1>2, <1>3, <1>4 DEF DrawInv

\* The pending switch and the record make no time in the interval, so no other does.
LEMMA NotDrawnStep ==
    ASSUME DrawInv, Reading, NEW i \in Yielded, NotDrawn(i)
    PROVE  DrawInv'
<1>1. /\ files' = files /\ Refs' = Refs /\ RanInRange' = RanInRange
      /\ trace' \in 1 .. Len(files') + 1 /\ kind' \in 1 .. 4 /\ (files \in Seq(File))'
      /\ pos \in Nat \ {0}
  BY LooksAt DEF NotDrawn
<1>2. /\ pc = "allocations" /\ pc' = pc /\ to # None /\ to' = None /\ ~Drawn(to, <<trace, i>>)
      /\ UNCHANGED <<kind, trace, pos, allocations, marks>>
  BY DEF NotDrawn
<1>3. AllocationsPassed' = AllocationsPassed
  <2>1. SUFFICES ASSUME NEW ran \in RanInRange PROVE ran[1] # to /\ ran[1] # None
    BY <1>1, <1>2 DEF AllocationsPassed, Passed
  <2>2. ran \in Ran /\ ran[1] \in Refs /\ Matches(Rec(ran[1]), Rec(ran[2]))
        /\ InRange(Rec(ran[1]), Rec(ran[2]))
    BY DEF RanInRange, Ran, RanFrom
  <2>3. ran[1] # None
    BY <2>2, RefsAre DEF None
  <2>4. ASSUME ran[1] = to PROVE FALSE
    <3>1. ran = <<to, <<trace, i>>>>
      BY <1>2, <2>2, <2>4, RanIsYielded
    <3>2. ran[2] = <<trace, i>>
      BY <3>1
    <3>3. QED
      BY <1>2, <2>2, <2>4, <3>2 DEF Drawn
  <2>5. QED
    BY <2>3, <2>4
<1>4. ToIsLast'
  BY <1>2 DEF ToIsLast
<1>5. QED
  BY <1>1, <1>2, <1>3, <1>4 DEF DrawInv

LEMMA DrawAllocationStep ==
    ASSUME DrawInv, Reading, NEW i \in Yielded, DrawAllocation(i)
    PROVE  DrawInv'
<1>1. /\ files' = files /\ Refs' = Refs /\ RanInRange' = RanInRange
      /\ trace' \in 1 .. Len(files') + 1 /\ kind' \in 1 .. 4 /\ (files \in Seq(File))'
      /\ pos \in Nat \ {0}
  BY LooksAt DEF DrawAllocation
<1>2. /\ pc = "allocations" /\ to # None /\ to' = None /\ Drawn(to, <<trace, i>>)
      /\ UNCHANGED <<kind, trace, pos, marks>>
      /\ \/ pc' = "no row"
         \/ pc' = pc /\ allocations' = Append(allocations, <<to, <<trace, i>>>>)
  BY DEF DrawAllocation
<1>3. /\ <<to, <<trace, i>>>> \in RanInRange
      /\ \A ran \in Ran : ran[1] = to => ran = <<to, <<trace, i>>>>
  BY <1>2, RanIsYielded DEF Drawn, RanInRange
<1>4. AllocationsPassed' = AllocationsPassed \cup {<<to, <<trace, i>>>>}
  <2>1. Passed(to)
    <3>1. to[1] = trace /\ to[2] < pos
      BY <1>2 DEF DrawInv, ToIsLast
    <3>2. QED
      BY <3>1 DEF Passed
  <2>2. <<to, <<trace, i>>>>[1] = to
    OBVIOUS
  <2>3. \A ran \in RanInRange : ran \in Ran /\ ran[1] # None
    BY RefsAre DEF RanInRange, Ran, None
  <2>4. AllocationsPassed' = {ran \in RanInRange : Passed(ran[1])}
    BY <1>1, <1>2, <2>3 DEF AllocationsPassed, Passed
  <2>5. QED
    BY <1>3, <2>1, <2>2, <2>3, <2>4 DEF AllocationsPassed
<1>5. <<to, <<trace, i>>>> \notin AllocationsPassed
  BY DEF AllocationsPassed
<1>6. pc' = "allocations" => Lists(allocations, AllocationsPassed)'
  <2>1. Lists(allocations, AllocationsPassed)
    BY <1>2 DEF DrawInv
  <2>2. Lists(Append(allocations, <<to, <<trace, i>>>>),
              AllocationsPassed \cup {<<to, <<trace, i>>>>})
    BY <1>5, <2>1, ListsOneMore
  <2>3. QED
    BY <1>2, <1>4, <2>2
<1>7. ToIsLast'
  BY <1>2 DEF ToIsLast
<1>8. QED
  BY <1>1, <1>2, <1>6, <1>7 DEF DrawInv

LEMMA AllocationsDrawnStep == DrawInv /\ AllocationsDrawn => DrawInv'
<1>1. SUFFICES ASSUME DrawInv, AllocationsDrawn PROVE DrawInv'
  OBVIOUS
<1>2. /\ files' = files /\ Refs' = Refs /\ RanInRange' = RanInRange
      /\ pc = "allocations" /\ pc' = "marks" /\ trace' = 1 /\ pos' = 1
      /\ ~(trace <= Len(files)) /\ UNCHANGED <<kind, to, allocations, marks>>
  BY <1>1, DrawFixed DEF AllocationsDrawn, Reading
<1>3. trace' \in 1 .. Len(files') + 1 /\ pos' \in Nat \ {0} /\ (files \in Seq(File))'
  BY <1>1, <1>2 DEF DrawInv
<1>4. to = None
  <2>1. SUFFICES ASSUME to # None PROVE FALSE
    OBVIOUS
  <2>2. to \in Refs /\ to[1] = trace
    BY <1>1, <1>2, <2>1 DEF DrawInv, ToIsLast
  <2>3. QED
    BY <1>1, <1>2, <2>2, RefPosition DEF DrawInv
<1>5. AllocationsPassed = RanInRange
  <2>1. \A ran \in RanInRange : ran[1] \in Refs /\ ran[1] # None
    BY RefsAre DEF RanInRange, Ran, None
  <2>2. QED
    BY <1>1, <1>2, <1>4, <2>1, PassedAll DEF AllocationsPassed
<1>6. Lists(allocations, RanInRange)'
  BY <1>1, <1>2, <1>5 DEF DrawInv
<1>7. MarksPassed' = {}
  <2>1. kind' = 1 /\ 1 .. kind' = {1}
    BY <1>1, <1>2 DEF DrawInv
  <2>2. \A r \in Refs' : ~Passed(r)'
    <3>1. SUFFICES ASSUME NEW r \in Refs PROVE ~Passed(r)'
      BY <1>2
    <3>2. r[1] \in Nat \ {0} /\ r[2] \in Nat \ {0}
      BY <1>1, RefPosition DEF DrawInv
    <3>3. QED
      BY <1>2, <3>2 DEF Passed
  <2>3. QED
    BY <2>1, <2>2 DEF MarksPassed
<1>8. Lists(marks, MarksPassed)'
  BY <1>1, <1>2, <1>7, ListsNothing DEF DrawInv
<1>9. QED
  BY <1>1, <1>2, <1>3, <1>4, <1>6, <1>8 DEF DrawInv

LEMMA DrawMarkStep ==
    ASSUME DrawInv, Reading, NEW i \in Yielded, DrawMark(i)
    PROVE  DrawInv'
<1>1. /\ files' = files /\ Refs' = Refs /\ RanInRange' = RanInRange /\ trace' = trace
      /\ trace' \in 1 .. Len(files') + 1 /\ kind' \in 1 .. 4 /\ (files \in Seq(File))'
      /\ i \in Nat \ {0} /\ <<trace, i>> \in Refs /\ Sought(<<trace, i>>)
      /\ \A r, k : OfKind(r, k)' = OfKind(r, k)
  BY LooksAt DEF DrawMark
<1>2. /\ pc = "marks" /\ pos' = i + 1 /\ UNCHANGED <<kind, to, allocations>>
      /\ pc' = "no row" \/ (pc' = pc /\ marks' = Append(marks, <<trace, i>>))
  BY DEF DrawMark
<1>3. OfKind(<<trace, i>>, kind) /\ ~Passed(<<trace, i>>) /\ kind \in 1 .. 4
  BY <1>1, <1>2, YieldedNotPassed DEF Sought, OfKind, DrawInv
<1>4. \A r, k : OfKind(r, k) /\ OfKind(r, kind) /\ k \in 1 .. 4 => k = kind
  BY <1>3 DEF OfKind, MARKS
<1>5. <<trace, i>> \notin MarksPassed
  <2>1. \A k \in 1 .. kind : k \in 1 .. 4
    BY <1>3
  <2>2. QED
    BY <1>3, <1>4, <2>1 DEF MarksPassed
<1>6. MarksPassed' = MarksPassed \cup {<<trace, i>>}
  <2>1. \A r \in Refs : OfKind(r, kind) => (Passed(r)' <=> Passed(r) \/ r = <<trace, i>>)
    <3>1. SUFFICES ASSUME NEW r \in Refs, OfKind(r, kind)
                   PROVE  Passed(r)' <=> Passed(r) \/ r = <<trace, i>>
      OBVIOUS
    <3>2. Sought(r)
      BY <1>2, <3>1 DEF Sought, OfKind
    <3>3. QED
      BY <1>1, <1>2, <3>2, PassedSought
  <2>2. kind \in 1 .. kind
    BY <1>3
  <2>3. QED
    BY <1>1, <1>2, <1>3, <2>1, <2>2 DEF MarksPassed
<1>7. pc' = "marks" => Lists(marks, MarksPassed)'
  <2>1. Lists(marks, MarksPassed)
    BY <1>2 DEF DrawInv
  <2>2. Lists(Append(marks, <<trace, i>>), MarksPassed \cup {<<trace, i>>})
    BY <1>5, <2>1, ListsOneMore
  <2>3. QED
    BY <1>2, <1>6, <2>2
<1>8. pos' \in Nat \ {0}
  <2>1. i \in Nat \ {0} /\ pos' = i + 1
    BY <1>1, <1>2
  <2>2. QED
    BY <2>1
<1>9. pc' = "marks" \/ pc' = "no row"
  BY <1>2
<1>10. to' = None /\ Lists(allocations, RanInRange)'
  BY <1>1, <1>2 DEF DrawInv
<1>11. QED
  BY <1>1, <1>7, <1>8, <1>9, <1>10 DEF DrawInv

LEMMA NextKindStep == DrawInv /\ NextKind => DrawInv'
<1>1. SUFFICES ASSUME DrawInv, NextKind PROVE DrawInv'
  OBVIOUS
<1>2. /\ files' = files /\ Refs' = Refs /\ RanInRange' = RanInRange
      /\ pc = "marks" /\ pc' = pc /\ trace' = 1 /\ pos' = 1 /\ kind' = kind + 1
      /\ kind < Len(MARKS) /\ ~(trace <= Len(files)) /\ UNCHANGED <<to, allocations, marks>>
      /\ \A r, k : OfKind(r, k)' = OfKind(r, k)
  BY <1>1, DrawFixed DEF NextKind, Reading
<1>3. /\ trace' \in 1 .. Len(files') + 1 /\ pos' \in Nat \ {0} /\ (files \in Seq(File))'
      /\ kind \in 1 .. 4 /\ kind' \in 1 .. 4
  BY <1>1, <1>2 DEF DrawInv, MARKS
<1>4. MarksPassed' = MarksPassed
  <2>1. \A r \in Refs : Passed(r) /\ ~Passed(r)'
    <3>1. SUFFICES ASSUME NEW r \in Refs PROVE Passed(r) /\ ~Passed(r)'
      OBVIOUS
    <3>2. r[1] \in Nat \ {0} /\ r[2] \in Nat \ {0}
      BY <1>1, RefPosition DEF DrawInv
    <3>3. QED
      BY <1>1, <1>2, <3>2, PassedAll DEF Passed
  <2>2. \A k : k \in 1 .. kind + 1 /\ k # kind + 1 <=> k \in 1 .. kind
    BY <1>3
  <2>3. QED
    BY <1>2, <2>1, <2>2 DEF MarksPassed
<1>5. QED
  BY <1>1, <1>2, <1>3, <1>4 DEF DrawInv

LEMMA DrawFinishStep == DrawInv /\ Finish => DrawInv'
<1>1. SUFFICES ASSUME DrawInv, Finish PROVE DrawInv'
  OBVIOUS
<1>2. /\ files' = files /\ RanInRange' = RanInRange /\ MarksInRange' = MarksInRange
      /\ pc = "marks" /\ pc' = "done" /\ kind = 4 /\ ~(trace <= Len(files))
      /\ UNCHANGED <<trace, pos, kind, to, allocations, marks>>
  BY <1>1, DrawFixed DEF Finish, Reading, drawVars, MARKS
<1>3. \A r \in Refs : Passed(r)
  BY <1>1, <1>2, PassedAll
<1>4. MarksPassed = MarksInRange
  <2>1. MarksPassed = {r \in Refs : \E k \in 1 .. 4 : OfKind(r, k)}
    BY <1>2, <1>3 DEF MarksPassed
  <2>2. \A r : (\E k \in 1 .. 4 : OfKind(r, k)) <=>
                 /\ Within(Rec(r), start, end)
                 /\ Rec(r).type \in {"ST_RELEASE", "ST_COMPLETION", "ST_BLOCK", "ST_RESUME"}
    <3>1. \A r : (\E k \in 1 .. 4 : OfKind(r, k)) <=>
                   OfKind(r, 1) \/ OfKind(r, 2) \/ OfKind(r, 3) \/ OfKind(r, 4)
      OBVIOUS
    <3>2. QED
      BY <3>1 DEF OfKind, MARKS
  <2>3. QED
    BY <2>1, <2>2 DEF MarksInRange
<1>5. QED
  BY <1>1, <1>2, <1>4 DEF DrawInv

-----------------------------------------------------------------------------
LEMMA DrawInvNext == DrawInv /\ [StDrawNext]_stDrawVars => DrawInv'
<1>1. SUFFICES ASSUME DrawInv, [StDrawNext]_stDrawVars PROVE DrawInv'
  OBVIOUS
<1>2. CASE CannotDraw \/ Identify \/ NextTrace \/ AllocationsDrawn \/ NextKind \/ Finish
  BY <1>1, <1>2, CannotDrawStep, IdentifyStep, NextTraceStep, AllocationsDrawnStep,
     NextKindStep, DrawFinishStep
<1>3. CASE Reading /\ \E i \in Yielded : \/ FastForward(i) \/ SwitchTo(i) \/ NotDrawn(i)
                                        \/ DrawAllocation(i) \/ DrawMark(i)
  BY <1>1, <1>3, FastForwardStep, SwitchToStep, NotDrawnStep, DrawAllocationStep, DrawMarkStep
<1>4. CASE UNCHANGED stDrawVars
  <2>1. /\ DrawFrame /\ UNCHANGED <<pc, start, end, kind, trace, pos, to, allocations, marks>>
    BY <1>4 DEF stDrawVars, drawVars, DrawFrame
  <2>2. /\ files' = files /\ Refs' = Refs /\ (\A r : Rec(r)' = Rec(r))
        /\ RanInRange' = RanInRange /\ MarksInRange' = MarksInRange
        /\ \A r, k : OfKind(r, k)' = OfKind(r, k)
    BY <2>1, DrawFixed
  <2>3. AllocationsPassed' = AllocationsPassed /\ MarksPassed' = MarksPassed
    BY <2>1, <2>2 DEF AllocationsPassed, MarksPassed, Passed
  <2>4. ToIsLast' <=> ToIsLast
    BY <2>1, <2>2 DEF ToIsLast
  <2>5. QED
    BY <1>1, <2>1, <2>2, <2>3, <2>4 DEF DrawInv
<1>5. QED
  BY <1>1, <1>2, <1>3, <1>4 DEF StDrawNext

\* st-draw draws every time at which a task ran in the interval once, and every release,
\* completion, suspension and wake-up in it, whatever records of switches are missing or
\* doubled (sched_trace/file.py:38-58).
THEOREM DrawingTheorem == StDrawSpec => []DrawingExact
<1>1. DrawInv => DrawingExact
  BY ListsSize DEF DrawInv, DrawingExact
<1>2. QED
  BY <1>1, DrawInvInit, DrawInvNext, PTL DEF StDrawSpec
=============================================================================
