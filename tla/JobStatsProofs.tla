--------------------------- MODULE JobStatsProofs ---------------------------
(***************************************************************************)
(* What holds of st_job_stats for every trace, every number of files and   *)
(* every size of the task table: the lists hold every record once, in the  *)
(* order of time; response times do not wrap around; every job that should *)
(* be shown has one row, with its own completion and its own switches.     *)
(***************************************************************************)
EXTENDS JobStats, ScheduleProofs, Induction

-----------------------------------------------------------------------------
(* The inductive invariant.                                                *)
TaskEntry == [pid : Nat, name : Refs \cup {None}, param : Refs \cup {None},
              events : Seq(Refs)]

TypeInv ==
    /\ files \in Seq(File)
    /\ pc \in {"open", "fill", "run", "release", "stats", "done", "failed"}
    /\ file \in Nat \ {0} /\ next \in Nat \ {0}
    /\ h \subseteq Refs /\ h2 \subseteq Refs
    /\ tasks \in Seq(TaskEntry) /\ sys_events \in Seq(Refs)
    /\ t \in Nat \ {0} /\ e \in Nat \ {0}
    /\ \E S : rows \in Seq(S)

\* Nothing is listed while the files are read, and only the file that is being read
\* has records in a heap of its own.
Phases ==
    /\ pc \in {"open", "fill"} => tasks = <<>> /\ sys_events = <<>> /\ rows = <<>>
    /\ pc # "fill" => h2 = {}
    /\ pc = "fill" => file \in DOMAIN files
    /\ pc = "run" => rows = <<>>

\* What is still in the heap is not earlier than what has been taken out.
HeapIsLater ==
    \A i \in 0 .. Len(tasks) : \A j \in DOMAIN ListOf(i) : \A r \in h :
       ~earlier_event(Rec(r), Rec(ListOf(i)[j]))

Held == \A r \in Inserted : \/ r \in h \cup h2 \/ Listed(r)
                            \/ Rec(r).type \in {"ST_NAME", "ST_PARAM"}

IInv ==
    /\ TypeInv /\ Phases /\ Held /\ NothingTwice /\ OneEntryPerTask /\ OwnList
    /\ ListsInOrder /\ HeapIsLater /\ ResponsesReal

-----------------------------------------------------------------------------
(* The entry that by_pid returns.                                          *)
LEMMA EntryType ==
    ASSUME TypeInv, NEW pid \in Nat
    PROVE  Table(pid) \in Seq(TaskEntry)
<1> DEFINE new == [pid |-> pid, name |-> None, param |-> None, events |-> <<>>]
<1>1. new \in TaskEntry
  BY DEF TaskEntry
<1>2. QED
  BY <1>1 DEF Table, TypeInv

LEMMA EntryFound ==
    ASSUME TypeInv, NEW pid \in Nat, Fits(pid)
    PROVE  /\ by_pid(pid) \in DOMAIN Table(pid) /\ Table(pid)[by_pid(pid)].pid = pid
           /\ Len(tasks) <= Len(Table(pid)) /\ Len(Table(pid)) <= Len(tasks) + 1
           /\ \A i \in DOMAIN tasks : Table(pid)[i] = tasks[i]
           /\ \A i \in DOMAIN Table(pid) \ DOMAIN tasks :
                 i = Len(tasks) + 1 /\ ~Known(pid) /\ Len(tasks) < MAX_TASKS
                 /\ Table(pid)[i].events = <<>> /\ Table(pid)[i].pid = pid
<1> DEFINE new == [pid |-> pid, name |-> None, param |-> None, events |-> <<>>]
<1>1. \E i \in DOMAIN Table(pid) : Table(pid)[i].pid = pid
  <2>1. CASE Known(pid)
    BY <2>1 DEF Table, Known
  <2>2. CASE ~Known(pid)
    <3>1. Table(pid) = Append(tasks, new) /\ tasks \in Seq(TaskEntry)
      BY <2>2 DEF Table, TypeInv
    <3>2. Len(tasks) + 1 \in DOMAIN Table(pid) /\ Table(pid)[Len(tasks) + 1] = new
      BY <3>1
    <3>3. QED
      BY <3>2
  <2>3. QED
    BY <2>1, <2>2
<1>2. by_pid(pid) \in DOMAIN Table(pid) /\ Table(pid)[by_pid(pid)].pid = pid
  BY <1>1 DEF by_pid
<1>3. CASE Known(pid)
  BY <1>2, <1>3 DEF Table, TypeInv
<1>4. CASE ~Known(pid)
  <2>1. Table(pid) = Append(tasks, new) /\ tasks \in Seq(TaskEntry) /\ Len(tasks) < MAX_TASKS
    BY <1>4 DEF Table, TypeInv, Fits
  <2>2. /\ Len(Table(pid)) = Len(tasks) + 1 /\ Len(tasks) \in Nat
        /\ DOMAIN Table(pid) = 1 .. Len(tasks) + 1 /\ DOMAIN tasks = 1 .. Len(tasks)
        /\ \A i \in DOMAIN tasks : Table(pid)[i] = tasks[i]
        /\ Table(pid)[Len(tasks) + 1] = new
    BY <2>1
  <2>3. QED
    BY <1>2, <1>4, <2>1, <2>2
<1>5. QED
  BY <1>3, <1>4

-----------------------------------------------------------------------------
(* A turn of the loop of split: the lists afterwards.                      *)
SplitStep(r) == SplitInfo(r) \/ SplitTaskEvent(r) \/ SplitSysEvent(r)

OldList(i) == IF i \in 0 .. Len(tasks) THEN ListOf(i) ELSE <<>>

\* The table afterwards: the entries keep their tasks, and a new one is that of the
\* record.
TableGrows(r) ==
    /\ tasks' \in Seq(TaskEntry) /\ Len(tasks) <= Len(tasks')
    /\ \A i \in DOMAIN tasks : tasks'[i].pid = tasks[i].pid
    /\ \A i \in DOMAIN tasks' \ DOMAIN tasks :
          /\ i = Len(tasks) + 1 /\ tasks'[i].pid = Rec(r).pid
          /\ Rec(r).pid # 0 /\ ~Known(Rec(r).pid) /\ Len(tasks) < MAX_TASKS

\* Record r has been appended to list k, or to none.
Appended(r, k) ==
    /\ \A i \in 0 .. Len(tasks') :
          ListOf(i)' = IF i = k THEN Append(OldList(i), r) ELSE OldList(i)
    /\ k = -1 => Rec(r).type \in {"ST_NAME", "ST_PARAM"}
    /\ k # -1 => Rec(r).type \notin {"ST_NAME", "ST_PARAM"}
    /\ k = 0 => ~Fits(Rec(r).pid)
    /\ k > 0 => tasks'[k].pid = Rec(r).pid

LEMMA PidType == ASSUME TypeInv, NEW r \in Refs PROVE Rec(r).pid \in Nat
  BY RecType, ScheduleAssumption DEF TypeInv, Record

\* The same with what is known of the lengths.
LEMMA EntryTable ==
    ASSUME TypeInv, NEW pid \in Nat, Fits(pid)
    PROVE  /\ Table(pid) \in Seq(TaskEntry)
           /\ Len(Table(pid)) \in Nat /\ Len(tasks) \in Nat /\ Len(tasks) <= Len(Table(pid))
           /\ DOMAIN Table(pid) = 1 .. Len(Table(pid)) /\ DOMAIN tasks = 1 .. Len(tasks)
<1>1. Table(pid) \in Seq(TaskEntry)
  BY EntryType
<1>2. tasks \in Seq(TaskEntry)
  BY DEF TypeInv
<1>3. Len(tasks) <= Len(Table(pid))
  BY EntryFound
<1>4. QED
  BY <1>1, <1>2, <1>3

LEMMA ToldType ==
    ASSUME NEW entry \in TaskEntry, NEW r \in Refs
    PROVE  /\ Told(entry, r) \in TaskEntry
           /\ Told(entry, r).pid = entry.pid /\ Told(entry, r).events = entry.events
  BY DEF TaskEntry, Told

LEMMA LinkedType ==
    ASSUME NEW entry \in TaskEntry, NEW r \in Refs
    PROVE  /\ Linked(entry, r) \in TaskEntry /\ Linked(entry, r).pid = entry.pid
           /\ Linked(entry, r).events = Append(entry.events, r)
<1>1. Append(entry.events, r) \in Seq(Refs)
  BY DEF TaskEntry
<1>2. QED
  BY <1>1 DEF TaskEntry, Linked

LEMMA InfoLists ==
    ASSUME TypeInv, NEW r \in Refs, SplitInfo(r)
    PROVE  TableGrows(r) /\ Appended(r, -1)
<1> DEFINE pid == Rec(r).pid
<1>0. pid \in Nat /\ tasks \in Seq(TaskEntry) /\ Len(tasks) \in Nat
  BY PidType DEF TypeInv
<1>1. sys_events' = sys_events /\ Rec(r).type \in {"ST_NAME", "ST_PARAM"}
  BY DEF SplitInfo
<1>2. CASE ~Fits(pid)
  <2>1. tasks' = tasks
    BY <1>2 DEF SplitInfo
  <2>2. TableGrows(r)
    BY <2>1, <1>0 DEF TableGrows
  <2>3. \A i \in 0 .. Len(tasks') : ListOf(i)' = OldList(i)
    BY <2>1, <1>1 DEF ListOf, OldList
  <2>4. QED
    BY <2>2, <2>3, <1>1 DEF Appended
<1>3. CASE Fits(pid)
  <2> DEFINE k == by_pid(pid)
  <2>1. /\ k \in DOMAIN Table(pid) /\ Table(pid)[k].pid = pid
        /\ \A i \in DOMAIN tasks : Table(pid)[i] = tasks[i]
        /\ \A i \in DOMAIN Table(pid) \ DOMAIN tasks :
                 i = Len(tasks) + 1 /\ ~Known(pid) /\ Len(tasks) < MAX_TASKS
                 /\ Table(pid)[i].events = <<>> /\ Table(pid)[i].pid = pid
    BY <1>0, <1>3, EntryFound
  <2>0. /\ Table(pid) \in Seq(TaskEntry)
        /\ Len(Table(pid)) \in Nat /\ Len(tasks) <= Len(Table(pid))
        /\ DOMAIN Table(pid) = 1 .. Len(Table(pid)) /\ DOMAIN tasks = 1 .. Len(tasks)
    BY <1>0, <1>3, EntryTable
  <2>2. tasks' = [Table(pid) EXCEPT ![k] = Told(Table(pid)[k], r)]
    BY <1>3 DEF SplitInfo
  <2>3. /\ tasks' \in Seq(TaskEntry) /\ Len(tasks') = Len(Table(pid))
        /\ DOMAIN tasks' = DOMAIN Table(pid)
        /\ \A i \in DOMAIN tasks' : /\ tasks'[i].pid = Table(pid)[i].pid
                                    /\ tasks'[i].events = Table(pid)[i].events
    BY <2>0, <2>1, <2>2, ToldType
  <2>4. TableGrows(r)
    BY <1>0, <2>0, <2>1, <2>3, <1>3, SMTT(60) DEF TableGrows, Fits
  <2>5. \A i \in 0 .. Len(tasks') : ListOf(i)' = OldList(i)
    BY <2>0, <2>1, <2>3, <1>0, <1>1 DEF ListOf, OldList
  <2>6. QED
    BY <2>4, <2>5, <1>1 DEF Appended
<1>4. QED
  BY <1>2, <1>3

LEMMA TaskEventLists ==
    ASSUME TypeInv, NEW r \in Refs, SplitTaskEvent(r)
    PROVE  TableGrows(r) /\ \E k \in 1 .. Len(tasks') : Appended(r, k)
<1> DEFINE pid == Rec(r).pid
           k == by_pid(pid)
<1>0. pid \in Nat /\ tasks \in Seq(TaskEntry) /\ Len(tasks) \in Nat
  BY PidType DEF TypeInv
<1>1. sys_events' = sys_events /\ Fits(pid)
      /\ tasks' = [Table(pid) EXCEPT ![k] = Linked(Table(pid)[k], r)]
  BY DEF SplitTaskEvent
<1>3. /\ Table(pid) \in Seq(TaskEntry)
      /\ Len(Table(pid)) \in Nat /\ Len(tasks) <= Len(Table(pid))
      /\ DOMAIN Table(pid) = 1 .. Len(Table(pid)) /\ DOMAIN tasks = 1 .. Len(tasks)
  BY <1>0, <1>1, EntryTable
<1>2. /\ k \in DOMAIN Table(pid) /\ Table(pid)[k].pid = pid
      /\ \A i \in DOMAIN tasks : Table(pid)[i] = tasks[i]
      /\ \A i \in DOMAIN Table(pid) \ DOMAIN tasks :
               i = Len(tasks) + 1 /\ ~Known(pid) /\ Len(tasks) < MAX_TASKS
               /\ Table(pid)[i].events = <<>> /\ Table(pid)[i].pid = pid
  BY <1>0, <1>1, EntryFound
<1>4. /\ tasks' \in Seq(TaskEntry) /\ Len(tasks') = Len(Table(pid))
      /\ DOMAIN tasks' = DOMAIN Table(pid)
      /\ \A i \in DOMAIN tasks' :
            /\ tasks'[i].pid = Table(pid)[i].pid
            /\ tasks'[i].events = IF i = k THEN Append(Table(pid)[i].events, r)
                                  ELSE Table(pid)[i].events
  <2>1. /\ Linked(Table(pid)[k], r) \in TaskEntry
        /\ Linked(Table(pid)[k], r).pid = Table(pid)[k].pid
        /\ Linked(Table(pid)[k], r).events = Append(Table(pid)[k].events, r)
    <3>1. Table(pid)[k] \in TaskEntry
      BY <1>2, <1>3
    <3>2. QED
      BY <3>1, LinkedType
  <2> DEFINE table == Table(pid)
             new == Linked(table[k], r)
  <2>2. /\ table \in Seq(TaskEntry) /\ k \in DOMAIN table /\ new \in TaskEntry
        /\ new.pid = table[k].pid /\ new.events = Append(table[k].events, r)
        /\ tasks' = [table EXCEPT ![k] = new]
    BY <1>1, <1>2, <1>3, <2>1
  <2> HIDE DEF new, table, k
  <2>3. tasks' \in Seq(TaskEntry) /\ Len(tasks') = Len(table) /\ DOMAIN tasks' = DOMAIN table
    BY <2>2
  <2>4. \A i \in DOMAIN tasks' : tasks'[i] = IF i = k THEN new ELSE table[i]
    BY <2>2
  <2>5. \A i \in DOMAIN tasks' :
           /\ tasks'[i].pid = table[i].pid
           /\ tasks'[i].events = IF i = k THEN Append(table[i].events, r) ELSE table[i].events
    BY <2>2, <2>4
  <2>6. QED
    BY <2>3, <2>5 DEF table
<1>5. TableGrows(r)
  BY <1>0, <1>1, <1>2, <1>3, <1>4 DEF TableGrows, Fits
<1>6. \A i \in 0 .. Len(tasks') :
         ListOf(i)' = IF i = k THEN Append(OldList(i), r) ELSE OldList(i)
  BY <1>0, <1>1, <1>2, <1>3, <1>4 DEF ListOf, OldList
<1>7. Appended(r, k) /\ k \in 1 .. Len(tasks')
  <2>1. Rec(r).type \notin {"ST_NAME", "ST_PARAM"}
    BY DEF SplitTaskEvent
  <2>2. QED
    BY <1>2, <1>3, <1>4, <1>6, <2>1 DEF Appended
<1>8. QED
  BY <1>5, <1>7

LEMMA SysEventLists ==
    ASSUME TypeInv, NEW r \in Refs, SplitSysEvent(r)
    PROVE  TableGrows(r) /\ Appended(r, 0)
<1>1. /\ tasks' = tasks /\ sys_events' = Append(sys_events, r) /\ ~Fits(Rec(r).pid)
      /\ Rec(r).type \notin {"ST_NAME", "ST_PARAM"}
  BY DEF SplitSysEvent
<1>2. tasks \in Seq(TaskEntry) /\ Len(tasks) \in Nat
  BY DEF TypeInv
<1>3. TableGrows(r)
  BY <1>1, <1>2 DEF TableGrows
<1>4. \A i \in 0 .. Len(tasks') :
         ListOf(i)' = IF i = 0 THEN Append(OldList(i), r) ELSE OldList(i)
  BY <1>1, <1>2 DEF ListOf, OldList
<1>5. QED
  BY <1>1, <1>3, <1>4 DEF Appended

LEMMA SplitLists ==
    ASSUME TypeInv, NEW r \in Refs, SplitStep(r)
    PROVE  TableGrows(r) /\ \E k \in -1 .. Len(tasks') : Appended(r, k)
<1>1. tasks \in Seq(TaskEntry) /\ Len(tasks) \in Nat
  BY DEF TypeInv
<1>2. ASSUME TableGrows(r) PROVE -1 \in -1 .. Len(tasks') /\ 0 \in -1 .. Len(tasks')
                                 /\ 1 .. Len(tasks') \subseteq -1 .. Len(tasks')
  BY <1>1, <1>2 DEF TableGrows
<1>3. CASE SplitInfo(r)
  BY <1>2, <1>3, InfoLists
<1>4. CASE SplitTaskEvent(r)
  BY <1>2, <1>4, TaskEventLists
<1>5. CASE SplitSysEvent(r)
  BY <1>2, <1>5, SysEventLists
<1>6. QED
  BY <1>3, <1>4, <1>5 DEF SplitStep

-----------------------------------------------------------------------------
(* Loading: nothing is listed yet.                                         *)
ListProps == NothingTwice /\ OneEntryPerTask /\ OwnList /\ ListsInOrder /\ HeapIsLater

LEMMA EmptyLists ==
    tasks = <<>> /\ sys_events = <<>> /\ rows = <<>> => ListProps /\ ResponsesReal
  BY DEF ListProps, NothingTwice, OneEntryPerTask, OwnList, ListsInOrder, HeapIsLater,
         ResponsesReal, ListOf, InOrder

LEMMA LoadStep ==
    ASSUME IInv, Load, UNCHANGED statVars
    PROVE  IInv'
<1> USE DEF statVars
<1>1. /\ files' = files /\ Refs' = Refs /\ tasks' = tasks /\ sys_events' = sys_events
      /\ tasks = <<>> /\ sys_events = <<>> /\ rows = <<>> /\ rows' = rows /\ t' = t /\ e' = e
      /\ \A r : Rec(r)' = Rec(r)
  BY DEF IInv, Phases, Load, MapTrace, CannotLoad, InsertEvent, UniteHeaps, Loaded, Refs, Rec
<1>2. ListProps' /\ ResponsesReal'
  BY <1>1 DEF ListProps, NothingTwice, OneEntryPerTask, OwnList, ListsInOrder, HeapIsLater,
              ResponsesReal, ListOf, InOrder
<1>3. TypeInv' /\ Phases' /\ Held'
  <2> USE DEF Phases
  <2>1. CASE MapTrace
    <3>0. \A r \in Refs : r[2] \in Nat \ {0}
      BY RefPosition DEF IInv, TypeInv
    <3>1. h' = h /\ h2 = {} /\ h2' = {}
      BY <2>1 DEF IInv, MapTrace
    <3>a. pc = "open" /\ pc' = "fill" /\ next' = 1 /\ file' = file /\ file \in Nat
      BY <2>1 DEF MapTrace, IInv, TypeInv
    <3>b. Inserted' = Inserted
      BY <1>1, <3>0, <3>a DEF Inserted
    <3>2. Held'
      BY <1>1, <3>1, <3>b DEF IInv, Held, Listed, ListOf
    <3>3. pc' = "fill" /\ next' = 1 /\ file' = file /\ file \in DOMAIN files
      BY <2>1 DEF IInv, TypeInv, MapTrace
    <3>4. TypeInv'
      BY <1>1, <3>1, <3>3 DEF IInv, TypeInv
    <3>5. Phases'
      BY <1>1, <3>3
    <3>6. QED
      BY <3>2, <3>4, <3>5
  <2>2. CASE CannotLoad
    BY <1>1, <2>2 DEF IInv, TypeInv, CannotLoad, Held, Inserted, Listed, ListOf
  <2>3. CASE InsertEvent
    BY <1>1, <2>3, RefsAre DEF IInv, TypeInv, InsertEvent, Held, Inserted, Listed, ListOf
  <2>4. CASE UniteHeaps
    BY <1>1, <2>4, RefsAre DEF IInv, TypeInv, UniteHeaps, Held, Inserted, Listed, ListOf
  <2>5. CASE Loaded
    BY <1>1, <2>5 DEF IInv, TypeInv, Loaded, Held, Inserted, Listed, ListOf
  <2>6. QED
    BY <2>1, <2>2, <2>3, <2>4, <2>5 DEF Load
<1>4. QED
  BY <1>2, <1>3 DEF IInv, ListProps

-----------------------------------------------------------------------------
(* Taking the records out.                                                 *)
LEMMA TypeStep ==
    ASSUME IInv, NEW r \in Earliest(h), SplitStep(r)
    PROVE  /\ TypeInv' /\ Phases' /\ ResponsesReal' /\ Inserted' = Inserted
           /\ h' = h \ {r} /\ h2' = h2 /\ Refs' = Refs /\ r \in h /\ r \in Refs
           /\ pc = "run" /\ \A q : Rec(q)' = Rec(q)
<1>1. /\ files' = files /\ pc = "run" /\ pc' = pc /\ file' = file /\ next' = next
      /\ h' = h \ {r} /\ h2' = h2 /\ t' = t /\ e' = e /\ rows' = rows /\ r \in h
  BY DEF SplitStep, SplitInfo, SplitTaskEvent, SplitSysEvent, SplitTake, Take, Earliest
<1>2. r \in Refs /\ TypeInv
  BY <1>1 DEF IInv, TypeInv
<1>3. Refs' = Refs /\ \A q : Rec(q)' = Rec(q)
  BY <1>1 DEF Refs, Rec
<1>4. Inserted' = Inserted
  BY <1>1, <1>3 DEF Inserted
<1>5. tasks' \in Seq(TaskEntry)'
  <2>1. tasks' \in Seq(TaskEntry)
    BY <1>2, SplitLists DEF TableGrows
  <2>2. TaskEntry' = TaskEntry
    BY <1>3 DEF TaskEntry
  <2>3. QED
    BY <2>1, <2>2
<1>6. sys_events' \in Seq(Refs)'
  <2>1. sys_events' = sys_events \/ sys_events' = Append(sys_events, r)
    BY DEF SplitStep, SplitInfo, SplitTaskEvent, SplitSysEvent
  <2>2. sys_events \in Seq(Refs)
    BY <1>2 DEF TypeInv
  <2>3. sys_events' \in Seq(Refs)
    BY <1>2, <2>1, <2>2
  <2>4. QED
    BY <1>3, <2>3
<1>7. TypeInv' /\ Phases'
  BY <1>1, <1>2, <1>3, <1>5, <1>6 DEF TypeInv, Phases, IInv
<1>8. ResponsesReal'
  BY <1>1 DEF IInv, Phases, ResponsesReal
<1>9. QED
  BY <1>1, <1>2, <1>3, <1>4, <1>7, <1>8

\* What a list holds afterwards.
LEMMA AppendedIs ==
    ASSUME TypeInv, NEW r \in Refs, NEW k \in Int, TableGrows(r), Appended(r, k),
           NEW i \in 0 .. Len(tasks')
    PROVE  /\ OldList(i) \in Seq(Refs) /\ Len(OldList(i)) \in Nat
           /\ DOMAIN OldList(i) = 1 .. Len(OldList(i))
           /\ i # k => ListOf(i)' = OldList(i)
           /\ i = k => /\ DOMAIN ListOf(i)' = 1 .. Len(OldList(i)) + 1
                       /\ \A j \in DOMAIN OldList(i) : ListOf(i)'[j] = OldList(i)[j]
                       /\ ListOf(i)'[Len(OldList(i)) + 1] = r
<1>1. OldList(i) \in Seq(Refs)
  <2>1. CASE i \in 1 .. Len(tasks)
    <3>1. tasks[i] \in TaskEntry
      BY <2>1 DEF TypeInv
    <3>2. QED
      BY <2>1, <3>1 DEF OldList, ListOf, TaskEntry
  <2>2. CASE i = 0
    BY <2>2 DEF TypeInv, OldList, ListOf
  <2>3. CASE i \notin 0 .. Len(tasks)
    BY <2>3 DEF OldList
  <2>4. QED
    BY <2>1, <2>2, <2>3 DEF TypeInv
<1>2. ListOf(i)' = IF i = k THEN Append(OldList(i), r) ELSE OldList(i)
  BY DEF Appended
<1>3. QED
  BY <1>1, <1>2

\* Every place of a list is an old one or that of r.
LEMMA PlaceIs ==
    ASSUME TypeInv, NEW r \in Refs, NEW k \in Int, TableGrows(r), Appended(r, k),
           NEW i \in 0 .. Len(tasks'), NEW j \in DOMAIN ListOf(i)'
    PROVE  \/ /\ i \in 0 .. Len(tasks) /\ j \in DOMAIN ListOf(i)
              /\ ListOf(i)'[j] = ListOf(i)[j]
           \/ i = k /\ j = Len(OldList(i)) + 1 /\ ListOf(i)'[j] = r
<1>1. /\ OldList(i) \in Seq(Refs) /\ Len(OldList(i)) \in Nat
      /\ DOMAIN OldList(i) = 1 .. Len(OldList(i))
      /\ i # k => ListOf(i)' = OldList(i)
      /\ i = k => /\ DOMAIN ListOf(i)' = 1 .. Len(OldList(i)) + 1
                  /\ \A l \in DOMAIN OldList(i) : ListOf(i)'[l] = OldList(i)[l]
                  /\ ListOf(i)'[Len(OldList(i)) + 1] = r
  BY AppendedIs
<1>2. j \in DOMAIN OldList(i) => i \in 0 .. Len(tasks) /\ OldList(i) = ListOf(i)
  BY <1>1 DEF OldList
<1>3. QED
  BY <1>1, <1>2

LEMMA SplitStepLists ==
    ASSUME IInv, NEW r \in Earliest(h), SplitStep(r)
    PROVE  IInv'
<1>0. files' = files
  BY DEF SplitStep, SplitInfo, SplitTaskEvent, SplitSysEvent, SplitTake, Take
<1>1. /\ TypeInv' /\ Phases' /\ ResponsesReal' /\ Inserted' = Inserted
      /\ h' = h \ {r} /\ h2' = h2 /\ Refs' = Refs /\ r \in h /\ r \in Refs
      /\ pc = "run" /\ \A q : Rec(q)' = Rec(q)
  BY TypeStep
<1>2. TypeInv /\ h \subseteq Refs /\ tasks \in Seq(TaskEntry) /\ Len(tasks) \in Nat
      /\ DOMAIN tasks = 1 .. Len(tasks)
  BY DEF IInv, TypeInv
<1>3. TableGrows(r)
  BY <1>1, <1>2, SplitLists
<1>4. PICK k \in -1 .. Len(tasks') : Appended(r, k)
  BY <1>1, <1>2, SplitLists
<1>5. /\ Len(tasks') \in Nat /\ Len(tasks) <= Len(tasks') /\ k \in Int
      /\ DOMAIN tasks' = 1 .. Len(tasks')
  BY <1>2, <1>3, <1>4 DEF TableGrows
<1>6. ASSUME NEW i \in 0 .. Len(tasks'), NEW j \in DOMAIN ListOf(i)'
      PROVE  \/ /\ i \in 0 .. Len(tasks) /\ j \in DOMAIN ListOf(i)
                /\ ListOf(i)'[j] = ListOf(i)[j]
             \/ i = k /\ j = Len(OldList(i)) + 1 /\ ListOf(i)'[j] = r
  BY <1>1, <1>2, <1>3, <1>4, <1>5, PlaceIs
<1>7. ASSUME NEW i \in 0 .. Len(tasks), NEW j \in DOMAIN ListOf(i)
      PROVE  /\ i \in 0 .. Len(tasks') /\ j \in DOMAIN ListOf(i)' /\ ListOf(i)'[j] = ListOf(i)[j]
             /\ i = k => j < Len(OldList(i)) + 1
             /\ ListOf(i)[j] # r
  <2>1. i \in 0 .. Len(tasks') /\ OldList(i) = ListOf(i)
    BY <1>2, <1>5 DEF OldList
  <2>2. /\ OldList(i) \in Seq(Refs) /\ Len(OldList(i)) \in Nat
        /\ DOMAIN OldList(i) = 1 .. Len(OldList(i))
        /\ i # k => ListOf(i)' = OldList(i)
        /\ i = k => /\ DOMAIN ListOf(i)' = 1 .. Len(OldList(i)) + 1
                    /\ \A l \in DOMAIN OldList(i) : ListOf(i)'[l] = OldList(i)[l]
    BY <1>1, <1>2, <1>3, <1>4, <1>5, <2>1, AppendedIs
  <2>3. ListOf(i)[j] # r
    BY <1>1 DEF IInv, NothingTwice
  <2>4. QED
    BY <2>1, <2>2, <2>3
<1>8. k # -1 => Listed(r)'
  <2>1. SUFFICES ASSUME k # -1 PROVE Listed(r)'
    OBVIOUS
  <2>2. k \in 0 .. Len(tasks')
    BY <1>4, <1>5, <2>1
  <2>3. Len(OldList(k)) + 1 \in DOMAIN ListOf(k)' /\ ListOf(k)'[Len(OldList(k)) + 1] = r
    BY <1>1, <1>2, <1>3, <1>4, <1>5, <2>2, AppendedIs
  <2>4. QED
    BY <2>2, <2>3 DEF Listed
<1>9. Held'
  <2>1. SUFFICES ASSUME NEW q \in Inserted
                 PROVE  q \in h' \cup h2' \/ Listed(q)' \/ Rec(q).type \in {"ST_NAME", "ST_PARAM"}
    BY <1>1 DEF Held
  <2>2. CASE q = r
    BY <1>4, <1>8, <2>2 DEF Appended
  <2>3. CASE q # r /\ Listed(q)
    BY <1>7, <2>3 DEF Listed
  <2>4. CASE q # r /\ ~Listed(q)
    BY <1>1, <2>4 DEF IInv, Held
  <2>5. QED
    BY <2>2, <2>3, <2>4
<1>10. NothingTwice'
  <2>1. SUFFICES ASSUME NEW i \in 0 .. Len(tasks'), NEW m \in 0 .. Len(tasks'),
                        NEW j \in DOMAIN ListOf(i)', NEW l \in DOMAIN ListOf(m)'
                 PROVE  /\ ListOf(i)'[j] = ListOf(m)'[l] => i = m /\ j = l
                        /\ ListOf(i)'[j] \notin h' \cup h2'
    BY DEF NothingTwice
  <2> DEFINE Old(a, b) == /\ a \in 0 .. Len(tasks) /\ b \in DOMAIN ListOf(a)
                          /\ ListOf(a)'[b] = ListOf(a)[b]
             New(a, b) == a = k /\ b = Len(OldList(a)) + 1 /\ ListOf(a)'[b] = r
  <2>2. (Old(i, j) \/ New(i, j)) /\ (Old(m, l) \/ New(m, l))
    BY <1>6
  <2>3. r \notin h' \cup h2'
    BY <1>1 DEF IInv, Phases
  <2>4. CASE Old(i, j) /\ Old(m, l)
    BY <1>1, <2>4 DEF IInv, NothingTwice
  <2>5. CASE Old(i, j) /\ New(m, l)
    BY <1>1, <1>7, <2>5 DEF IInv, NothingTwice
  <2>6. CASE New(i, j) /\ Old(m, l)
    BY <1>1, <1>7, <2>3, <2>6
  <2>7. CASE New(i, j) /\ New(m, l)
    BY <2>3, <2>7
  <2>8. QED
    BY <2>2, <2>4, <2>5, <2>6, <2>7
<1>11. OneEntryPerTask'
  BY <1>2, <1>3, <1>5 DEF IInv, OneEntryPerTask, TableGrows, Known
<1>12. OwnList'
  <2>1. ASSUME NEW i \in DOMAIN tasks', NEW j \in DOMAIN tasks'[i].events
        PROVE  Rec(tasks'[i].events[j]).pid = tasks'[i].pid
    <3>1. i \in 0 .. Len(tasks') /\ i # 0 /\ ListOf(i)' = tasks'[i].events
      BY <1>5 DEF ListOf
    <3>2. \/ /\ i \in 0 .. Len(tasks) /\ j \in DOMAIN ListOf(i) /\ ListOf(i)'[j] = ListOf(i)[j]
          \/ i = k /\ ListOf(i)'[j] = r
      BY <1>6, <3>1
    <3>3. CASE i \in 0 .. Len(tasks) /\ j \in DOMAIN ListOf(i) /\ ListOf(i)'[j] = ListOf(i)[j]
      <4>1. i \in DOMAIN tasks /\ ListOf(i) = tasks[i].events /\ tasks'[i].pid = tasks[i].pid
        BY <1>2, <1>3, <3>1, <3>3 DEF ListOf, TableGrows
      <4>2. QED
        BY <3>1, <3>3, <4>1 DEF IInv, OwnList
    <3>4. CASE i = k /\ ListOf(i)'[j] = r
      BY <1>4, <1>5, <3>1, <3>4 DEF Appended
    <3>5. QED
      BY <3>2, <3>3, <3>4
  <2>2. ASSUME NEW pid \in Nat, ~Fits(pid)
        PROVE  pid = 0 \/ (~(\E i \in DOMAIN tasks' : tasks'[i].pid = pid) /\ ~(Len(tasks') < MAX_TASKS))
    BY <1>2, <1>3, <1>5, <2>2, JobStatsAssumption DEF Fits, Known, TableGrows
  <2>3. ASSUME NEW j \in DOMAIN sys_events' PROVE (~Fits(Rec(sys_events[j]).pid))'
    <3>1. 0 \in 0 .. Len(tasks') /\ ListOf(0)' = sys_events' /\ ListOf(0) = sys_events
      BY <1>5 DEF ListOf
    <3>2. \/ j \in DOMAIN sys_events /\ sys_events'[j] = sys_events[j]
          \/ 0 = k /\ sys_events'[j] = r
      BY <1>6, <3>1
    <3>3. ~Fits(Rec(sys_events'[j]).pid)
      BY <1>4, <3>2 DEF IInv, OwnList, Appended
    <3>4. sys_events'[j] \in Refs
      BY <1>1 DEF TypeInv
    <3>5. Rec(sys_events'[j]).pid \in Nat
      BY <1>2, <3>4, PidType
    <3>6. Rec(sys_events'[j]).pid = (Rec(sys_events[j]).pid)'
      BY <1>0 DEF Rec
    <3>7. QED
      BY <2>2, <3>3, <3>5, <3>6 DEF Fits, Known
  <2>4. \A i \in DOMAIN tasks' : \A j \in DOMAIN tasks'[i].events :
           (Rec(tasks[i].events[j]).pid)' = tasks'[i].pid
    BY <1>0, <2>1 DEF Rec
  <2>5. QED
    BY <2>3, <2>4 DEF OwnList
<1>13. ListsInOrder'
  <2>1. SUFFICES ASSUME NEW i \in 0 .. Len(tasks'), NEW j \in DOMAIN ListOf(i)',
                        NEW l \in DOMAIN ListOf(i)', j < l
                 PROVE  ~earlier_event(Rec(ListOf(i)'[l]), Rec(ListOf(i)'[j]))
    BY <1>1 DEF ListsInOrder, InOrder, earlier_event
  <2>2. CASE ListOf(i)'[l] = r /\ i \in 0 .. Len(tasks) /\ j \in DOMAIN ListOf(i)
             /\ ListOf(i)'[j] = ListOf(i)[j]
    BY <1>1, <2>2 DEF IInv, HeapIsLater
  <2>3. CASE i \in 0 .. Len(tasks) /\ j \in DOMAIN ListOf(i) /\ l \in DOMAIN ListOf(i)
             /\ ListOf(i)'[j] = ListOf(i)[j] /\ ListOf(i)'[l] = ListOf(i)[l]
    BY <2>1, <2>3 DEF IInv, ListsInOrder, InOrder
  <2>4. CASE i = k /\ j = Len(OldList(i)) + 1
    <3>1. l <= Len(OldList(i)) + 1 /\ l \in Nat /\ Len(OldList(i)) \in Nat
      BY <1>1, <1>2, <1>3, <1>4, <1>5, <2>4, AppendedIs
    <3>2. QED
      BY <2>1, <2>4, <3>1
  <2>5. QED
    BY <1>6, <2>2, <2>3, <2>4
<1>14. HeapIsLater'
  <2>1. SUFFICES ASSUME NEW i \in 0 .. Len(tasks'), NEW j \in DOMAIN ListOf(i)', NEW q \in h'
                 PROVE  ~earlier_event(Rec(q), Rec(ListOf(i)'[j]))
    BY <1>1 DEF HeapIsLater, earlier_event
  <2>2. CASE ListOf(i)'[j] = r
    BY <1>1, <2>2 DEF Earliest
  <2>3. CASE i \in 0 .. Len(tasks) /\ j \in DOMAIN ListOf(i) /\ ListOf(i)'[j] = ListOf(i)[j]
    BY <1>1, <2>3 DEF IInv, HeapIsLater
  <2>4. QED
    BY <1>6, <2>2, <2>3
<1>15. QED
  BY <1>1, <1>9, <1>10, <1>11, <1>12, <1>13, <1>14 DEF IInv

-----------------------------------------------------------------------------
(* The rest of main leaves the lists alone.                                *)
SameLists == UNCHANGED <<command, files, file, next, h, h2, tasks, sys_events>>

LEMMA ListsStay ==
    ASSUME IInv, SameLists, pc # "fill", pc' # "fill"
    PROVE  /\ ListProps' /\ Held'
           /\ Refs' = Refs /\ \A r : Rec(r)' = Rec(r)
<1>1. Refs' = Refs /\ files' = files /\ \A r : Rec(r)' = Rec(r)
  BY DEF SameLists, Refs, Rec
<1>2. Inserted' = Inserted
  BY <1>1 DEF SameLists, Inserted
<1>3. \A i : ListOf(i)' = ListOf(i)
  BY DEF SameLists, ListOf
<1>4. Held'
  BY <1>1, <1>2, <1>3 DEF SameLists, IInv, Held, Listed
<1>5. NothingTwice' /\ OneEntryPerTask'
  BY <1>3 DEF SameLists, IInv, NothingTwice, OneEntryPerTask
<1>6. OwnList'
  BY <1>1 DEF SameLists, IInv, OwnList, Fits, Known, Rec
<1>7. ListsInOrder' /\ HeapIsLater'
  BY <1>1, <1>3 DEF SameLists, IInv, ListsInOrder, InOrder, HeapIsLater, earlier_event,
                    event_time
<1>8. QED
  BY <1>1, <1>4, <1>5, <1>6, <1>7 DEF ListProps

LEMMA SmallModulo == ASSUME NEW n \in Nat, NEW w \in Nat, n < w PROVE n % w = n
  OBVIOUS

\* A completion that is found is not earlier than the release.
LEMMA ResponseIs ==
    ASSUME IInv, LookAt(e), Considered(e), NEW c \in Matching(e)
    PROVE  Row(e, c).response = At(Row(e, c).completion) - At(Row(e, c).release)
<1> DEFINE list == tasks[t].events
<1>1. t \in 1 .. Len(tasks) /\ list \in Seq(Refs) /\ ListOf(t) = list /\ e \in Nat \ {0}
  <2>1. t \in 1 .. Len(tasks) /\ tasks[t] \in TaskEntry /\ e \in Nat \ {0}
    BY DEF IInv, TypeInv, LookAt
  <2>2. QED
    BY <2>1 DEF TaskEntry, ListOf
<1>2. /\ e \in 1 .. Len(list) /\ c \in e .. Len(list) /\ Event(c).type = "ST_COMPLETION"
      /\ Event(e).type = "ST_RELEASE"
  BY <1>1 DEF LookAt, Considered, Matching, Checked, Completions
<1>3. list[e] \in Refs /\ list[c] \in Refs /\ e < c
  BY <1>1, <1>2 DEF Event
<1>4. /\ At(list[e]) = Event(e).raw0 /\ At(list[c]) = Event(c).raw0
      /\ At(list[e]) \in 0 .. MaxTime /\ At(list[c]) \in 0 .. MaxTime
  <2>1. At(list[e]) = Event(e).raw0 /\ At(list[c]) = Event(c).raw0
    BY <1>2 DEF At, event_time, Timed, Event
  <2>2. At(list[e]) \in 0 .. MaxTime /\ At(list[c]) \in 0 .. MaxTime
    BY <1>3, TimeType, ScheduleAssumption DEF IInv, TypeInv, At
  <2>3. QED
    BY <2>1, <2>2
<1>5. ~earlier_event(Rec(list[c]), Rec(list[e]))
  <2>1. InOrder(list)
    BY <1>1 DEF IInv, ListsInOrder
  <2>2. QED
    BY <1>1, <1>2, <1>3, <2>1 DEF InOrder
<1>6. At(list[e]) <= At(list[c])
  BY <1>4, <1>5 DEF earlier_event, At
<1>7. (Event(c).raw0 - Event(e).raw0) % U64 = Event(c).raw0 - Event(e).raw0
  <2>1. Event(c).raw0 - Event(e).raw0 \in 0 .. MaxTime
    BY <1>4, <1>6, ScheduleAssumption
  <2>2. QED
    BY <2>1, ScheduleAssumption, JobStatsAssumption, SmallModulo
<1>8. QED
  BY <1>4, <1>7 DEF Row

LEMMA StatsStep ==
    ASSUME IInv, SplitEnds \/ Stats
    PROVE  IInv'
<1>1. /\ SameLists /\ pc # "fill" /\ pc' # "fill" /\ pc' # "open" /\ pc' # "run"
      /\ pc' \in {"release", "stats", "done", "failed"}
  BY DEF SplitEnds, Drained, Stats, FindRelease, NextTask, PassEvent, PrintRow, AllShown,
         StatsFrame, loadVars, statVars, SameLists, LookAt, IInv, TypeInv
<1>2. /\ ListProps' /\ Held' /\ Refs' = Refs /\ \A r : Rec(r)' = Rec(r)
  BY <1>1, ListsStay
<1>3. t' \in Nat \ {0} /\ e' \in Nat \ {0}
  BY DEF SplitEnds, Stats, FindRelease, NextTask, PassEvent, PrintRow, AllShown, statVars,
         IInv, TypeInv
<1>4. (\E S : rows' \in Seq(S)) /\ ResponsesReal'
  <2>1. CASE rows' = rows
    BY <1>1, <1>2, <2>1 DEF SameLists, IInv, TypeInv, ResponsesReal, At, event_time
  <2>2. CASE PrintRow
    <3>1. PICK c \in Matching(e) : rows' = Append(rows, Row(e, c))
      BY <2>2 DEF PrintRow
    <3>2. Row(e, c).response = At(Row(e, c).completion) - At(Row(e, c).release)
      BY <2>2, <3>1, ResponseIs DEF PrintRow
    <3>3. PICK S : rows \in Seq(S)
      BY DEF IInv, TypeInv
    <3> DEFINE row == Row(e, c)
    <3> HIDE DEF row
    <3>4. rows \in Seq(S \cup {row})
      BY <3>3
    <3>5. rows' \in Seq(S \cup {row})
      BY <3>1, <3>4 DEF row
    <3>6. \A i \in DOMAIN rows' : \/ i \in DOMAIN rows /\ rows'[i] = rows[i]
                                  \/ rows'[i] = row
      BY <3>1, <3>3 DEF row
    <3>7. \A r : At(r)' = At(r)
      BY <1>2 DEF At, event_time
    <3>8. ResponsesReal'
      BY <1>1, <1>2, <3>2, <3>6, <3>7 DEF IInv, ResponsesReal, row
    <3>9. QED
      BY <3>5, <3>8
  <2>3. QED
    BY <2>1, <2>2 DEF SplitEnds, Stats, FindRelease, NextTask, PassEvent, AllShown, statVars
<1>5. TypeInv' /\ Phases'
  <2>1. TaskEntry' = TaskEntry
    BY <1>2 DEF TaskEntry
  <2>2. QED
    BY <1>1, <1>2, <1>3, <1>4, <2>1 DEF SameLists, IInv, TypeInv, Phases
<1>6. QED
  BY <1>2, <1>4, <1>5 DEF IInv, ListProps

-----------------------------------------------------------------------------
LEMMA InitIInv == JobStatsInit => IInv
<1>1. SUFFICES ASSUME JobStatsInit PROVE IInv
  OBVIOUS
<1>2. files \in Seq(File)
  BY <1>1, ScheduleAssumption DEF JobStatsInit, LoadInit, TraceInit
<1>3. /\ tasks = <<>> /\ sys_events = <<>> /\ rows = <<>> /\ pc = "open" /\ file = 1 /\ next = 1
      /\ h = {} /\ h2 = {} /\ t = 1 /\ e = 1
  BY <1>1 DEF JobStatsInit, LoadInit, TraceInit, StatsInit
<1>4. TypeInv
  BY <1>2, <1>3 DEF TypeInv
<1>5. Phases /\ ListProps /\ ResponsesReal
  BY <1>3, EmptyLists DEF Phases
<1>6. Inserted = {}
  <2>1. \A r \in Refs : r[1] \in Nat \ {0} /\ r[2] \in Nat \ {0}
    BY <1>4, RefPosition DEF TypeInv
  <2>2. QED
    BY <1>3, <2>1 DEF Inserted
<1>7. QED
  BY <1>4, <1>5, <1>6 DEF IInv, Held, ListProps

LEMMA NextIInv == IInv /\ [JobStatsNext]_jobStatsVars => IInv'
<1>1. SUFFICES ASSUME IInv, [JobStatsNext]_jobStatsVars PROVE IInv'
  OBVIOUS
<1>2. CASE Load /\ UNCHANGED statVars
  BY <1>1, <1>2, LoadStep
<1>3. CASE Split
  <2>1. CASE \E r \in Earliest(h) : SplitStep(r)
    BY <1>1, <2>1, SplitStepLists
  <2>2. CASE SplitEnds
    BY <1>1, <2>2, StatsStep
  <2>3. QED
    BY <1>3, <2>1, <2>2 DEF Split, SplitStep
<1>4. CASE Stats
  BY <1>1, <1>4, StatsStep
<1>5. CASE UNCHANGED jobStatsVars
  <2>1. SameLists /\ pc' = pc /\ rows' = rows /\ t' = t /\ e' = e
    BY <1>5 DEF jobStatsVars, loadVars, statVars, SameLists
  <2>2. Refs' = Refs /\ (\A r : Rec(r)' = Rec(r)) /\ \A i : ListOf(i)' = ListOf(i)
    BY <2>1 DEF SameLists, Refs, Rec, ListOf
  <2>3. TaskEntry' = TaskEntry /\ Inserted' = Inserted
    BY <2>1, <2>2 DEF TaskEntry, Inserted, SameLists
  <2>4. TypeInv' /\ Phases' /\ Held' /\ NothingTwice' /\ OneEntryPerTask'
    BY <1>1, <2>1, <2>2, <2>3, SMTT(60) DEF IInv, TypeInv, Phases, Held, Listed, NothingTwice,
                                  OneEntryPerTask, SameLists
  <2>5. OwnList' /\ ResponsesReal'
    BY <1>1, <2>1, <2>2 DEF IInv, OwnList, Fits, Known, ResponsesReal, At, event_time,
                            SameLists, Rec
  <2>6. ListsInOrder' /\ HeapIsLater'
    BY <1>1, <2>1, <2>2 DEF IInv, ListsInOrder, InOrder, HeapIsLater, SameLists,
                            earlier_event, event_time
  <2>7. QED
    BY <2>4, <2>5, <2>6 DEF IInv
<1>6. QED
  BY <1>1, <1>2, <1>3, <1>4, <1>5 DEF JobStatsNext

LEMMA StatsInvariant == JobStatsSpec => []IInv
  BY InitIInv, NextIInv, PTL DEF JobStatsSpec

\* Whatever the files hold, split puts every record into the list of its task or into
\* that of the others, once (src/load.c:150-199).
THEOREM ListsAreComplete == JobStatsSpec => []EveryRecordListed
<1>1. IInv => EveryRecordListed
  BY DEF IInv, EveryRecordListed, NothingLost, Held
<1>2. QED
  BY <1>1, StatsInvariant, PTL

\* The lists are in the order of time (src/load.c:163).
THEOREM ListsAreInOrder == JobStatsSpec => []ListsInOrder
<1>1. IInv => ListsInOrder
  BY DEF IInv
<1>2. QED
  BY <1>1, StatsInvariant, PTL

\* No response time wraps around (src/job_stats.c:62).
THEOREM NoResponseWraps == JobStatsSpec => []ResponsesReal
<1>1. IInv => ResponsesReal
  BY DEF IInv
<1>2. QED
  BY <1>1, StatsInvariant, PTL

\* To the heaps, its steps are those of a program that loads and takes.
LEMMA StatsLoad == JobStatsSpec => LoadSpec
<1>1. JobStatsInit => LoadInit
  BY DEF JobStatsInit
<1>2. [JobStatsNext]_jobStatsVars => [LoadNext]_loadVars
  <2>1. SplitEnds \/ (\E r \in Earliest(h) : SplitStep(r)) => Took
    BY DEF SplitEnds, SplitStep, SplitInfo, SplitTaskEvent, SplitSysEvent, SplitTake, Took,
           Loading
  <2>2. FindRelease => Later
    BY DEF FindRelease, Later, Loading
  <2>3. AllShown => Later
    BY DEF AllShown, Later, Loading
  <2>4. NextTask \/ PassEvent \/ PrintRow => UNCHANGED loadVars
    BY DEF NextTask, PassEvent, PrintRow, StatsFrame
  <2>5. QED
    BY <2>1, <2>2, <2>3, <2>4 DEF JobStatsNext, Split, SplitStep, Stats, LoadNext, jobStatsVars
<1>3. QED
  BY <1>1, <1>2, PTL DEF JobStatsSpec, LoadSpec

\* To the heaps st_job_stats does what a priority queue does; taking begins when all
\* records are in one of them (src/load.c:163, src/eheap.c:6).
THEOREM StatsImplementQueue == JobStatsSpec => LoadIsPriorityQueue
  BY StatsLoad, LoadImplementsQueue

-----------------------------------------------------------------------------
(* What count_preemptions counts, in terms of the positions of a list.     *)
IsSwitch(list, a, i, type) ==
    Rec(list[i]).job = Rec(list[a]).job /\ Rec(list[i]).type = type

\* Where the job of the event at a was switched away from, before n.
AwaysAt(list, a, n) == {i \in a .. (n - 1) : IsSwitch(list, a, i, "ST_SWITCH_AWAY")}

LastAway(list, a, n, j) == j \in AwaysAt(list, a, n) /\ \A k \in AwaysAt(list, a, n) : k <= j

ResumedAt(list, a, n) ==
    {i \in a .. (n - 1) : IsSwitch(list, a, i, "ST_SWITCH_TO") /\ AwaysAt(list, a, i) # {}}

MovedAt(list, a, n) ==
    {i \in ResumedAt(list, a, n) :
       \E j \in AwaysAt(list, a, i) : /\ LastAway(list, a, i, j)
                                      /\ Rec(list[j]).cpu # Rec(list[i]).cpu}

Tally == [switched_away : BOOLEAN, last_cpu : Nat, preemptions : Nat, migrations : Nat]

\* What the loop has seen of the events before n.
Tells(s, list, a, n) ==
    /\ s \in Tally
    /\ s.switched_away = (AwaysAt(list, a, n) # {})
    /\ \A j : LastAway(list, a, n, j) => s.last_cpu = Rec(list[j]).cpu
    /\ IsFiniteSet(ResumedAt(list, a, n)) /\ IsFiniteSet(MovedAt(list, a, n))
    /\ s.preemptions = Cardinality(ResumedAt(list, a, n))
    /\ s.migrations = Cardinality(MovedAt(list, a, n))

LEMMA TellsNothing ==
    ASSUME NEW list, NEW a \in Nat
    PROVE  Tells([switched_away |-> FALSE, last_cpu |-> 0, preemptions |-> 0,
                  migrations |-> 0], list, a, a)
<1>1. a .. (a - 1) = {}
  OBVIOUS
<1>2. AwaysAt(list, a, a) = {} /\ ResumedAt(list, a, a) = {} /\ MovedAt(list, a, a) = {}
  BY <1>1 DEF AwaysAt, ResumedAt, MovedAt
<1>3. QED
  BY <1>2, FS_EmptySet DEF Tells, Tally, LastAway

\* An event more: where it is added to what was there before.
LEMMA OnePositionMore ==
    ASSUME NEW list, NEW a \in Nat, NEW n \in Nat, a <= n
    PROVE  /\ AwaysAt(list, a, n + 1) =
                IF IsSwitch(list, a, n, "ST_SWITCH_AWAY")
                THEN AwaysAt(list, a, n) \cup {n} ELSE AwaysAt(list, a, n)
           /\ ResumedAt(list, a, n + 1) =
                IF IsSwitch(list, a, n, "ST_SWITCH_TO") /\ AwaysAt(list, a, n) # {}
                THEN ResumedAt(list, a, n) \cup {n} ELSE ResumedAt(list, a, n)
           /\ MovedAt(list, a, n + 1) =
                IF n \in ResumedAt(list, a, n + 1)
                   /\ \E j : LastAway(list, a, n, j) /\ Rec(list[j]).cpu # Rec(list[n]).cpu
                THEN MovedAt(list, a, n) \cup {n} ELSE MovedAt(list, a, n)
           /\ n \notin AwaysAt(list, a, n) /\ n \notin ResumedAt(list, a, n)
           /\ n \notin MovedAt(list, a, n)
<1>1. a .. ((n + 1) - 1) = (a .. (n - 1)) \cup {n} /\ n \notin a .. (n - 1)
  OBVIOUS
<1>2. AwaysAt(list, a, n + 1) =
                IF IsSwitch(list, a, n, "ST_SWITCH_AWAY")
                THEN AwaysAt(list, a, n) \cup {n} ELSE AwaysAt(list, a, n)
  BY <1>1 DEF AwaysAt
<1>3. ResumedAt(list, a, n + 1) =
                IF IsSwitch(list, a, n, "ST_SWITCH_TO") /\ AwaysAt(list, a, n) # {}
                THEN ResumedAt(list, a, n) \cup {n} ELSE ResumedAt(list, a, n)
  BY <1>1 DEF ResumedAt
<1>4. n \notin AwaysAt(list, a, n) /\ n \notin ResumedAt(list, a, n)
           /\ n \notin MovedAt(list, a, n)
  BY <1>1 DEF AwaysAt, ResumedAt, MovedAt
<1> DEFINE Moved(i) == \E j \in AwaysAt(list, a, i) : LastAway(list, a, i, j)
                                      /\ Rec(list[j]).cpu # Rec(list[i]).cpu
<1>5. MovedAt(list, a, n) = {i \in ResumedAt(list, a, n) : Moved(i)}
      /\ MovedAt(list, a, n + 1) = {i \in ResumedAt(list, a, n + 1) : Moved(i)}
  BY DEF MovedAt
<1>6. Moved(n) <=> \E j : LastAway(list, a, n, j) /\ Rec(list[j]).cpu # Rec(list[n]).cpu
  BY DEF LastAway
<1> HIDE DEF Moved
<1>7. MovedAt(list, a, n + 1) =
                IF n \in ResumedAt(list, a, n + 1) /\ Moved(n)
                THEN MovedAt(list, a, n) \cup {n} ELSE MovedAt(list, a, n)
  <2>1. ResumedAt(list, a, n + 1) \in {ResumedAt(list, a, n) \cup {n}, ResumedAt(list, a, n)}
    BY <1>3
  <2>2. QED
    BY <1>4, <1>5, <2>1
<1>8. QED
  BY <1>2, <1>3, <1>4, <1>6, <1>7

\* There is a last one of the positions of a list before n.
LEMMA LastAwayExists ==
    ASSUME NEW list, NEW a \in Nat, NEW n \in Nat, AwaysAt(list, a, n) # {}
    PROVE  \E j : LastAway(list, a, n, j)
<1> DEFINE B == {n - i : i \in AwaysAt(list, a, n)}
<1>1. \A i \in AwaysAt(list, a, n) : i \in Nat /\ n - i \in Nat
  BY DEF AwaysAt
<1>2. B \in SUBSET Nat /\ B # {}
  BY <1>1
<1>3. PICK m \in B : \A k \in B : m <= k
  <2> HIDE DEF B
  <2>1. QED
    BY <1>2, LeastNumber
<1>4. PICK j \in AwaysAt(list, a, n) : m = n - j
  OBVIOUS
<1>5. ASSUME NEW k \in AwaysAt(list, a, n) PROVE k <= j
  <2>1. m <= n - k
    BY <1>3
  <2>2. k \in Nat /\ j \in Nat
    BY <1>1
  <2> HIDE DEF B
  <2>3. QED
    BY <1>4, <2>1, <2>2
<1>6. QED
  BY <1>4, <1>5 DEF LastAway

LEMMA TellsAway ==
    ASSUME NEW list, NEW a \in Nat, NEW n \in Nat, a <= n, NEW s, Tells(s, list, a, n),
           IsSwitch(list, a, n, "ST_SWITCH_AWAY"), Rec(list[n]).cpu \in Nat
    PROVE  Tells([s EXCEPT !.switched_away = TRUE, !.last_cpu = Rec(list[n]).cpu],
                 list, a, n + 1)
<1> DEFINE new == [s EXCEPT !.switched_away = TRUE, !.last_cpu = Rec(list[n]).cpu]
<1>1. /\ new \in Tally /\ new.switched_away = TRUE /\ new.last_cpu = Rec(list[n]).cpu
      /\ new.preemptions = s.preemptions /\ new.migrations = s.migrations
  BY DEF Tells, Tally
<1>2. /\ AwaysAt(list, a, n + 1) = AwaysAt(list, a, n) \cup {n}
      /\ ResumedAt(list, a, n + 1) = ResumedAt(list, a, n)
      /\ MovedAt(list, a, n + 1) = MovedAt(list, a, n)
      /\ n \notin ResumedAt(list, a, n)
  <2>1. ~IsSwitch(list, a, n, "ST_SWITCH_TO")
    BY DEF IsSwitch
  <2>2. QED
    BY <2>1, OnePositionMore
<1>3. ASSUME NEW j, LastAway(list, a, n + 1, j) PROVE j = n
  <2>1. j \in AwaysAt(list, a, n + 1) /\ n <= j
    BY <1>2, <1>3 DEF LastAway
  <2>2. j \in a .. ((n + 1) - 1)
    BY <2>1 DEF AwaysAt
  <2>3. QED
    BY <2>1, <2>2
<1> HIDE DEF new
<1>4. QED
  BY <1>1, <1>2, <1>3 DEF Tells, new

LEMMA TellsBack ==
    ASSUME NEW list, NEW a \in Nat, NEW n \in Nat, a <= n, NEW s, Tells(s, list, a, n),
           IsSwitch(list, a, n, "ST_SWITCH_TO"), s.switched_away
    PROVE  Tells([s EXCEPT !.preemptions = @ + 1,
                           !.migrations = @ + (IF Rec(list[n]).cpu # s.last_cpu THEN 1 ELSE 0)],
                 list, a, n + 1)
<1> DEFINE moved == Rec(list[n]).cpu # s.last_cpu
           one == IF moved THEN 1 ELSE 0
           new == [s EXCEPT !.preemptions = @ + 1, !.migrations = @ + one]
<1>0. one \in Nat
  OBVIOUS
<1>1. /\ new \in Tally /\ new.switched_away = s.switched_away /\ new.last_cpu = s.last_cpu
      /\ new.preemptions = s.preemptions + 1 /\ new.migrations = s.migrations + one
      /\ s.preemptions \in Nat /\ s.migrations \in Nat
  <2>1. s \in Tally
    BY DEF Tells
  <2>2. s.preemptions + 1 \in Nat /\ s.migrations + one \in Nat
    BY <1>0, <2>1 DEF Tally
  <2> HIDE DEF one
  <2>3. QED
    BY <2>1, <2>2 DEF Tally
<1>2. AwaysAt(list, a, n) # {}
  BY DEF Tells
<1>3. PICK j : LastAway(list, a, n, j)
  BY <1>2, LastAwayExists
<1>4. s.last_cpu = Rec(list[j]).cpu
  BY <1>3 DEF Tells
<1>5. \A k : LastAway(list, a, n, k) => k = j
  BY <1>3 DEF LastAway, AwaysAt
<1>6. moved <=> \E k : LastAway(list, a, n, k) /\ Rec(list[k]).cpu # Rec(list[n]).cpu
  BY <1>3, <1>4, <1>5
<1>7. /\ AwaysAt(list, a, n + 1) = AwaysAt(list, a, n)
      /\ ResumedAt(list, a, n + 1) = ResumedAt(list, a, n) \cup {n}
      /\ MovedAt(list, a, n + 1) = IF moved THEN MovedAt(list, a, n) \cup {n}
                                   ELSE MovedAt(list, a, n)
      /\ n \notin ResumedAt(list, a, n) /\ n \notin MovedAt(list, a, n)
  <2>1. ~IsSwitch(list, a, n, "ST_SWITCH_AWAY")
    BY DEF IsSwitch
  <2>2. /\ AwaysAt(list, a, n + 1) = AwaysAt(list, a, n)
        /\ ResumedAt(list, a, n + 1) = ResumedAt(list, a, n) \cup {n}
        /\ n \notin ResumedAt(list, a, n) /\ n \notin MovedAt(list, a, n)
    BY <1>2, <2>1, OnePositionMore
  <2>3. n \in ResumedAt(list, a, n + 1)
    BY <2>2
  <2> HIDE DEF moved
  <2>4. QED
    BY <1>6, <2>2, <2>3, OnePositionMore
<1>8. /\ IsFiniteSet(ResumedAt(list, a, n)) /\ IsFiniteSet(MovedAt(list, a, n))
      /\ s.preemptions = Cardinality(ResumedAt(list, a, n))
      /\ s.migrations = Cardinality(MovedAt(list, a, n))
  BY DEF Tells
<1>9. /\ IsFiniteSet(ResumedAt(list, a, n + 1))
      /\ Cardinality(ResumedAt(list, a, n + 1)) = s.preemptions + 1
  BY <1>7, <1>8, FS_AddElement
<1>10. /\ IsFiniteSet(MovedAt(list, a, n + 1))
       /\ Cardinality(MovedAt(list, a, n + 1)) = s.migrations + one
  <2>1. CASE moved
    BY <1>7, <1>8, <2>1, FS_AddElement
  <2>2. CASE ~moved
    BY <1>1, <1>7, <1>8, <2>2
  <2>3. QED
    BY <2>1, <2>2
<1>11. \A k : LastAway(list, a, n + 1, k) <=> LastAway(list, a, n, k)
  BY <1>7 DEF LastAway
<1>12. new.switched_away = (AwaysAt(list, a, n + 1) # {})
  BY <1>1, <1>7 DEF Tells
<1>13. \A k : LastAway(list, a, n + 1, k) => new.last_cpu = Rec(list[k]).cpu
  BY <1>1, <1>11 DEF Tells
<1> HIDE DEF new, one
<1>14. Tells(new, list, a, n + 1)
  BY <1>1, <1>9, <1>10, <1>12, <1>13 DEF Tells
<1>15. QED
  BY <1>14 DEF new, one

LEMMA TellsOther ==
    ASSUME NEW list, NEW a \in Nat, NEW n \in Nat, a <= n, NEW s, Tells(s, list, a, n),
           ~IsSwitch(list, a, n, "ST_SWITCH_AWAY"),
           ~(IsSwitch(list, a, n, "ST_SWITCH_TO") /\ s.switched_away)
    PROVE  Tells(s, list, a, n + 1)
<1>1. /\ AwaysAt(list, a, n + 1) = AwaysAt(list, a, n)
      /\ ResumedAt(list, a, n + 1) = ResumedAt(list, a, n)
      /\ MovedAt(list, a, n + 1) = MovedAt(list, a, n)
  <2>1. ~(IsSwitch(list, a, n, "ST_SWITCH_TO") /\ AwaysAt(list, a, n) # {})
    BY DEF Tells
  <2>2. QED
    BY <2>1, OnePositionMore
<1>2. \A k : LastAway(list, a, n + 1, k) <=> LastAway(list, a, n, k)
  BY <1>1 DEF LastAway
<1>3. QED
  BY <1>1, <1>2 DEF Tells

\* One turn of the loop.
Turn(s, list, a, n) ==
    IF Rec(list[n]).job = Rec(list[a]).job THEN CountSwitch(s, Rec(list[n])) ELSE s

LEMMA TellsMore ==
    ASSUME NEW list, NEW a \in Nat, NEW n \in Nat, a <= n, NEW s, Tells(s, list, a, n),
           Rec(list[n]).cpu \in Nat
    PROVE  Tells(Turn(s, list, a, n), list, a, n + 1)
<1>1. CASE IsSwitch(list, a, n, "ST_SWITCH_AWAY")
  <2>1. Tells([s EXCEPT !.switched_away = TRUE, !.last_cpu = Rec(list[n]).cpu],
              list, a, n + 1)
    BY <1>1, TellsAway
  <2>2. Turn(s, list, a, n) =
          [s EXCEPT !.switched_away = TRUE, !.last_cpu = Rec(list[n]).cpu]
    BY <1>1 DEF Turn, CountSwitch, IsSwitch
  <2>3. QED
    BY <2>1, <2>2
<1>2. CASE IsSwitch(list, a, n, "ST_SWITCH_TO") /\ s.switched_away
  <2>1. Tells([s EXCEPT !.preemptions = @ + 1,
                        !.migrations = @ + (IF Rec(list[n]).cpu # s.last_cpu THEN 1 ELSE 0)],
              list, a, n + 1)
    BY <1>2, TellsBack
  <2>2. Turn(s, list, a, n) =
          [s EXCEPT !.preemptions = @ + 1,
                    !.migrations = @ + (IF Rec(list[n]).cpu # s.last_cpu THEN 1 ELSE 0)]
    BY <1>2 DEF Turn, CountSwitch, IsSwitch
  <2>3. QED
    BY <2>1, <2>2
<1>3. CASE ~IsSwitch(list, a, n, "ST_SWITCH_AWAY")
           /\ ~(IsSwitch(list, a, n, "ST_SWITCH_TO") /\ s.switched_away)
  <2>1. Turn(s, list, a, n) = s
    BY <1>3 DEF Turn, CountSwitch, IsSwitch
  <2>2. QED
    BY <1>3, <2>1, TellsOther
<1>4. QED
  BY <1>1, <1>2, <1>3

-----------------------------------------------------------------------------
(* The recursion of count_preemptions.                                     *)
Nothing == [switched_away |-> FALSE, last_cpu |-> 0, preemptions |-> 0, migrations |-> 0]

\* s is what has been seen of the list from a on, up to and with n.
Sees(s, list, a, n) ==
    s = [i \in (a - 1) .. n |-> IF i < a THEN Nothing ELSE Turn(s[i - 1], list, a, i)]

LEMMA SeesExists ==
    ASSUME NEW list, NEW a \in Nat, NEW c \in Nat
    PROVE  \E s : Sees(s, list, a, (a - 1) + c)
<1> DEFINE T == {m \in Nat : \E s : Sees(s, list, a, (a - 1) + m)}
<1>1. 0 \in T
  <2> DEFINE s == [i \in (a - 1) .. (a - 1) |-> Nothing]
  <2>1. (a - 1) + 0 = a - 1 /\ \A i \in (a - 1) .. (a - 1) : i < a
    OBVIOUS
  <2>2. s = [i \in (a - 1) .. (a - 1) |-> IF i < a THEN Nothing ELSE Turn(s[i - 1], list, a, i)]
    BY <2>1
  <2>3. Sees(s, list, a, (a - 1) + 0)
    BY <2>1, <2>2 DEF Sees
  <2>4. QED
    BY <2>3
<1>2. ASSUME NEW m \in Nat, m \in T PROVE m + 1 \in T
  <2> DEFINE n == (a - 1) + m
             more(s) == [i \in (a - 1) .. (n + 1) |->
                           IF i = n + 1 THEN Turn(s[n], list, a, n + 1) ELSE s[i]]
  <2>1. PICK s : Sees(s, list, a, n)
    BY <1>2
  <2>2. n \in Int /\ (a - 1) + (m + 1) = n + 1 /\ a - 1 <= n /\ a \in Nat
    OBVIOUS
  <2> HIDE DEF n
  <2> DEFINE r == more(s)
  <2>3. \A i \in (a - 1) .. n : /\ s[i] = IF i < a THEN Nothing ELSE Turn(s[i - 1], list, a, i)
                                /\ r[i] = s[i]
    BY <2>1, <2>2 DEF Sees
  <2>4. r[n + 1] = Turn(s[n], list, a, n + 1) /\ r[n] = s[n]
    BY <2>2
  <2>5. \A i \in (a - 1) .. (n + 1) :
           r[i] = IF i < a THEN Nothing ELSE Turn(r[i - 1], list, a, i)
    <3>1. SUFFICES ASSUME NEW i \in (a - 1) .. (n + 1)
                   PROVE  r[i] = IF i < a THEN Nothing ELSE Turn(r[i - 1], list, a, i)
      OBVIOUS
    <3>2. CASE i = n + 1
      <4>1. i - 1 = n /\ ~(i < a)
        BY <2>2, <3>2
      <4> HIDE DEF r
      <4>2. QED
        BY <2>4, <3>2, <4>1
    <3>3. CASE i # n + 1 /\ i < a
      <4>1. i \in (a - 1) .. n
        BY <2>2, <3>3
      <4> HIDE DEF r
      <4>2. QED
        BY <2>3, <3>3, <4>1
    <3>4. CASE i # n + 1 /\ ~(i < a)
      <4>1. i \in (a - 1) .. n /\ i - 1 \in (a - 1) .. n
        BY <2>2, <3>4
      <4> HIDE DEF r
      <4>2. r[i] = s[i] /\ r[i - 1] = s[i - 1]
        BY <2>3, <4>1
      <4>3. QED
        BY <2>3, <3>4, <4>1, <4>2
    <3>5. QED
      BY <3>2, <3>3, <3>4
  <2>6. r = [i \in (a - 1) .. (n + 1) |-> r[i]]
    OBVIOUS
  <2> HIDE DEF r
  <2>7. Sees(r, list, a, n + 1)
    BY <2>5, <2>6 DEF Sees
  <2>8. QED
    BY <2>2, <2>7
<1> HIDE DEF T
<1>3. c \in T
  BY <1>1, <1>2, SetInduction
<1>4. QED
  BY <1>3 DEF T

LEMMA SeenTells ==
    ASSUME NEW list, NEW a \in Nat, NEW c \in Nat, a <= c, NEW s, Sees(s, list, a, c - 1),
           \A i \in a .. (c - 1) : Rec(list[i]).cpu \in Nat
    PROVE  Tells(s[c - 1], list, a, c)
<1> DEFINE T == {m \in Nat : a + m <= c => Tells(s[(a + m) - 1], list, a, a + m)}
<1>0. \A i \in (a - 1) .. (c - 1) :
         s[i] = IF i < a THEN Nothing ELSE Turn(s[i - 1], list, a, i)
  BY DEF Sees
<1>1. 0 \in T
  <2>1. a - 1 \in (a - 1) .. (c - 1) /\ a - 1 < a /\ a + 0 = a
    OBVIOUS
  <2>2. s[a - 1] = Nothing
    BY <1>0, <2>1
  <2>3. Tells(s[a - 1], list, a, a)
    BY <2>2, TellsNothing DEF Nothing
  <2>4. QED
    BY <2>1, <2>3
<1>2. ASSUME NEW m \in Nat, m \in T PROVE m + 1 \in T
  <2> DEFINE n == a + m
  <2>1. SUFFICES ASSUME n + 1 <= c PROVE Tells(s[n], list, a, n + 1)
    <3>1. a + (m + 1) = n + 1 /\ (n + 1) - 1 = n
      OBVIOUS
    <3> HIDE DEF n
    <3>2. QED
      BY <3>1
  <2>2. /\ n \in Nat /\ a <= n /\ n <= c /\ n \in a .. (c - 1) /\ ~(n < a)
        /\ n \in (a - 1) .. (c - 1)
    BY <2>1
  <2>3. Tells(s[n - 1], list, a, n)
    BY <1>2, <2>2
  <2> HIDE DEF n
  <2>4. s[n] = Turn(s[n - 1], list, a, n)
    BY <1>0, <2>2
  <2>5. Rec(list[n]).cpu \in Nat
    BY <2>2
  <2>6. QED
    BY <2>2, <2>3, <2>4, <2>5, TellsMore
<1>3. c - a \in T
  <2>1. c - a \in Nat
    OBVIOUS
  <2> HIDE DEF T
  <2>2. QED
    BY <1>1, <1>2, <2>1, SetInduction
<1>4. a + (c - a) = c
  OBVIOUS
<1>5. QED
  BY <1>3, <1>4

\* What count_preemptions returns for a release and a completion of the list.
LEMMA CountTells ==
    ASSUME NEW list, list = tasks[t].events, NEW a \in Nat, NEW c \in Nat, a <= c,
           \A i \in a .. (c - 1) : Rec(list[i]).cpu \in Nat
    PROVE  Tells(count_preemptions(a, c), list, a, c)
<1> DEFINE IsSeen(s) == s = [i \in (a - 1) .. (c - 1) |->
                               IF i < a
                               THEN [switched_away |-> FALSE, last_cpu |-> 0,
                                     preemptions |-> 0, migrations |-> 0]
                               ELSE IF Event(i).job = Event(a).job
                                    THEN CountSwitch(s[i - 1], Event(i))
                                    ELSE s[i - 1]]
<1>1. \A s : IsSeen(s) <=> Sees(s, list, a, c - 1)
  BY DEF Sees, Turn, Event, Nothing
<1>2. count_preemptions(a, c) = (CHOOSE s : IsSeen(s))[c - 1]
  BY DEF count_preemptions
<1> HIDE DEF IsSeen
<1>3. \E s : IsSeen(s)
  <2>1. (a - 1) + (c - a) = c - 1 /\ c - a \in Nat
    OBVIOUS
  <2>2. \E s : Sees(s, list, a, (a - 1) + (c - a))
    BY <2>1, SeesExists
  <2>3. QED
    BY <1>1, <2>1, <2>2
<1>4. PICK s : Sees(s, list, a, c - 1) /\ count_preemptions(a, c) = s[c - 1]
  BY <1>1, <1>2, <1>3
<1>5. QED
  BY <1>4, SeenTells

-----------------------------------------------------------------------------
(* What more there is to know of the lists when the rows are printed.      *)
InfoTypes == {"ST_NAME", "ST_PARAM"}

InfoOf(entry, type) == IF type = "ST_NAME" THEN entry.name ELSE entry.param

\* The lists hold no NAME and PARAM records.
OnlyEvents ==
    \A i \in 0 .. Len(tasks) : \A j \in DOMAIN ListOf(i) :
       Rec(ListOf(i)[j]).type \notin InfoTypes

\* What an entry says of its task is from a record of that task, and an entry says
\* nothing only as long as no such record was taken out.
InfosOwn ==
    \A type \in InfoTypes : \A i \in DOMAIN tasks :
       InfoOf(tasks[i], type) # None =>
          InfoOf(tasks[i], type) \in Infos(tasks[i].pid, type)

InfosKept ==
    \A type \in InfoTypes : \A r \in Inserted :
       Rec(r).type = type /\ r \notin h \cup h2 /\ Fits(Rec(r).pid) =>
          \E i \in DOMAIN tasks : tasks[i].pid = Rec(r).pid /\ InfoOf(tasks[i], type) # None

\* Statistics begin when every record has been taken out.
AllTaken == pc \in {"release", "stats", "done"} => h = {} /\ file > Len(files)

\* With -r, jobs are shown from the first release of the list on.
FromFirst ==
    pc \in {"stats", "done"} /\ command.wait_for_release =>
       \E i \in SysReleases : /\ \A j \in SysReleases : i <= j
                              /\ sys_release = Rec(sys_events[i]).raw1

ListInv == OnlyEvents /\ InfosOwn /\ InfosKept /\ AllTaken /\ FromFirst

-----------------------------------------------------------------------------
(* The rows, in terms of the positions of the lists.                       *)
CompletionsAt(list, a) == {c \in a .. Len(list) : Rec(list[c]).type = "ST_COMPLETION"}

MatchesAt(list, a) ==
    {c \in CompletionsAt(list, a) :
       /\ Cardinality({d \in CompletionsAt(list, a) : d < c}) < MAX_COMPLETIONS_TO_CHECK
       /\ Rec(list[c]).job = Rec(list[a]).job}

Shown(list, a, c) ==
    /\ Rec(list[a]).type = "ST_RELEASE"
    /\ command.wait_for_release => Rec(list[a]).raw0 >= sys_release
    /\ c \in MatchesAt(list, a) /\ \A d \in MatchesAt(list, a) : c <= d

Says(row, list, a, c) ==
    /\ row.release = list[a] /\ row.completion = list[c]
    /\ row.preemptions = Cardinality(ResumedAt(list, a, c))
    /\ row.migrations = Cardinality(MovedAt(list, a, c))

\* The loops of main have come past this place.
Past(k, a) == k < t \/ (k = t /\ a < e)

PastRow(row, k, a, c) ==
    /\ Past(k, a) /\ Wanted(tasks[k])
    /\ Shown(tasks[k].events, a, c) /\ Says(row, tasks[k].events, a, c)

RowsSound ==
    \A n \in DOMAIN rows : \E k \in DOMAIN tasks :
       \E a \in DOMAIN tasks[k].events, c \in DOMAIN tasks[k].events :
          PastRow(rows[n], k, a, c)

RowsComplete ==
    \A k \in DOMAIN tasks : \A a \in DOMAIN tasks[k].events, c \in DOMAIN tasks[k].events :
       Past(k, a) /\ Wanted(tasks[k]) /\ Shown(tasks[k].events, a, c) =>
          \E n \in DOMAIN rows : /\ rows[n].release = tasks[k].events[a]
                                 /\ rows[n].completion = tasks[k].events[c]

RowsOnce == \A n, m \in DOMAIN rows : rows[n].release = rows[m].release => n = m

Progress ==
    /\ pc \notin {"stats", "done"} => rows = <<>> /\ t = 1 /\ e = 1
    /\ pc = "done" => t > Len(tasks)

RowInv == RowsSound /\ RowsComplete /\ RowsOnce /\ Progress

-----------------------------------------------------------------------------
(* The list invariant: loading.                                            *)
LEMMA RefIsSomething == \A r \in Refs : r # None
<1>1. SUFFICES ASSUME NEW r \in Refs PROVE r # <<>>
  BY DEF None
<1>2. r = <<r[1], r[2]>>
  BY RefsAre
<1>3. \A x, y : <<x, y>> # <<>>
  OBVIOUS
<1>4. QED
  BY <1>2, <1>3

\* While the files are read, the heaps hold what has been inserted.
LEMMA InsertedIsHeld == HeapInv /\ Loading => Inserted \subseteq h \cup h2
<1>1. SUFFICES ASSUME HeapInv, Loading, NEW r \in Inserted PROVE r \in h \cup h2
  OBVIOUS
<1>2. r \in Refs /\ (r[1] < file \/ (pc = "fill" /\ r[1] = file /\ r[2] < next))
  BY <1>1 DEF Inserted
<1>3. h = Before(file) /\ (pc = "fill" => h2 = {q \in FileRefs(file) : q[2] < next})
  BY <1>1 DEF HeapInv
<1>4. QED
  BY <1>2, <1>3 DEF Before, FileRefs

LEMMA LoadKeepsLists ==
    ASSUME IInv, HeapInv, HeapInv', Load, UNCHANGED statVars
    PROVE  ListInv'
<1>1. /\ tasks = <<>> /\ sys_events = <<>> /\ tasks' = tasks /\ sys_events' = sys_events
      /\ Loading
  BY DEF Load, MapTrace, CannotLoad, InsertEvent, UniteHeaps, Loaded, statVars, IInv, Phases,
         Loading
<1>2. pc' \notin {"release", "stats", "done"}
  BY <1>1 DEF Load, MapTrace, CannotLoad, InsertEvent, UniteHeaps, Loaded, Loading
<1>3. files' = files
  BY DEF Load, MapTrace, CannotLoad, InsertEvent, UniteHeaps, Loaded
<1>4. OnlyEvents' /\ InfosOwn'
  BY <1>1 DEF OnlyEvents, InfosOwn, ListOf
<1>5. Inserted' \subseteq h' \cup h2'
  <2>1. CASE Loading'
    <3>1. (HeapInv /\ Loading => Inserted \subseteq h \cup h2)'
      BY InsertedIsHeld, PTL
    <3>2. QED
      BY <2>1, <3>1
  <2>2. CASE ~Loading'
    <3>1. h' = h /\ file' = file /\ pc' # "fill"
      BY <2>2 DEF Load, MapTrace, CannotLoad, InsertEvent, UniteHeaps, Loaded, Loading
    <3>2. Inserted' \subseteq Before(file)
      BY <1>3, <3>1 DEF Inserted, Refs, Before
    <3>3. h = Before(file)
      BY <1>1 DEF HeapInv
    <3>4. QED
      BY <3>1, <3>2, <3>3
  <2>3. QED
    BY <2>1, <2>2
<1>6. InfosKept'
  BY <1>5 DEF InfosKept
<1>7. AllTaken' /\ FromFirst'
  BY <1>2 DEF AllTaken, FromFirst
<1>8. QED
  BY <1>4, <1>6, <1>7 DEF ListInv

-----------------------------------------------------------------------------
(* The list invariant: taking the records out.                             *)

\* A task that finds no entry finds none later.
LEMMA FitsNoMore ==
    ASSUME TypeInv, NEW r \in Refs, TableGrows(r), NEW pid \in Nat, ~Fits(pid)
    PROVE  ~(pid # 0 /\ ((\E i \in DOMAIN tasks' : tasks'[i].pid = pid) \/ Len(tasks') < MAX_TASKS))
<1>1. tasks \in Seq(TaskEntry) /\ Len(tasks) \in Nat
  BY DEF TypeInv
<1>2. QED
  BY <1>1, JobStatsAssumption DEF Fits, Known, TableGrows

LEMMA EntryInfo ==
    ASSUME NEW entry \in TaskEntry, NEW type \in InfoTypes
    PROVE  InfoOf(entry, type) \in Refs \cup {None}
  BY DEF TaskEntry, InfoOf

\* What the entries say after a record was taken out.
LEMMA InfoStep ==
    ASSUME TypeInv, NEW r \in Refs, SplitStep(r), NEW type \in InfoTypes
    PROVE  /\ \A i \in DOMAIN tasks' :
                \/ /\ Rec(r).type = type /\ InfoOf(tasks'[i], type) = r
                   /\ tasks'[i].pid = Rec(r).pid
                \/ i \in DOMAIN tasks /\ InfoOf(tasks'[i], type) = InfoOf(tasks[i], type)
                \/ i \notin DOMAIN tasks /\ InfoOf(tasks'[i], type) = None
           /\ Rec(r).type = type /\ Fits(Rec(r).pid) =>
                \E i \in DOMAIN tasks' : /\ tasks'[i].pid = Rec(r).pid
                                         /\ InfoOf(tasks'[i], type) = r
<1> DEFINE pid == Rec(r).pid
           k == by_pid(pid)
<1>0. pid \in Nat /\ tasks \in Seq(TaskEntry) /\ type \in {"ST_NAME", "ST_PARAM"}
  BY PidType DEF TypeInv, InfoTypes
<1>1. CASE tasks' = tasks /\ ~(Rec(r).type = type /\ Fits(Rec(r).pid))
  BY <1>1
<1>2. CASE Fits(pid) /\ ~SplitSysEvent(r)
  <2>1. /\ k \in DOMAIN Table(pid) /\ Table(pid)[k].pid = pid
        /\ \A i \in DOMAIN tasks : Table(pid)[i] = tasks[i]
    BY <1>0, <1>2, EntryFound
  <2>2. /\ Table(pid) \in Seq(TaskEntry)
        /\ DOMAIN Table(pid) = 1 .. Len(Table(pid)) /\ DOMAIN tasks = 1 .. Len(tasks)
    BY <1>0, <1>2, EntryTable
  <2>3. \A i \in DOMAIN Table(pid) \ DOMAIN tasks : InfoOf(Table(pid)[i], type) = None
    <3>1. SUFFICES ASSUME NEW i \in DOMAIN Table(pid) \ DOMAIN tasks
                   PROVE  InfoOf(Table(pid)[i], type) = None
      OBVIOUS
    <3> DEFINE new == [pid |-> pid, name |-> None, param |-> None, events |-> <<>>]
    <3>2. Table(pid) = Append(tasks, new)
      BY <3>1 DEF Table
    <3>3. Table(pid)[i] = new
      BY <1>0, <2>2, <3>1, <3>2
    <3>4. QED
      BY <3>3 DEF InfoOf
  <2> DEFINE table == Table(pid)
  <2>4. CASE SplitInfo(r)
    <3> DEFINE new == Told(table[k], r)
    <3>1. tasks' = [table EXCEPT ![k] = new] /\ Rec(r).type \in {"ST_NAME", "ST_PARAM"}
      BY <1>2, <2>4 DEF SplitInfo
    <3>2. InfoOf(new, type) = IF Rec(r).type = type THEN r ELSE InfoOf(table[k], type)
      <4>1. table[k] \in TaskEntry
        BY <2>1, <2>2
      <4>2. QED
        BY <1>0, <3>1, <4>1 DEF Told, InfoOf, TaskEntry
    <3>3. new.pid = pid
      <4>1. table[k] \in TaskEntry
        BY <2>1, <2>2
      <4>2. QED
        BY <2>1, <4>1, ToldType
    <3> HIDE DEF new, k, table
    <3>4. /\ DOMAIN tasks' = DOMAIN table /\ tasks'[k] = new
          /\ \A i \in DOMAIN tasks' : i # k => tasks'[i] = table[i]
      BY <2>1, <2>2, <3>1 DEF table
    <3>5. \A i \in DOMAIN tasks' :
             \/ i = k /\ Rec(r).type = type /\ InfoOf(tasks'[i], type) = r /\ tasks'[i].pid = pid
             \/ InfoOf(tasks'[i], type) = InfoOf(table[i], type)
      BY <3>2, <3>3, <3>4
    <3>6. \A i \in DOMAIN tasks' :
             \/ i \in DOMAIN tasks /\ table[i] = tasks[i]
             \/ i \notin DOMAIN tasks /\ InfoOf(table[i], type) = None
      BY <2>1, <2>3, <3>4 DEF table
    <3>7. Rec(r).type = type => k \in DOMAIN tasks' /\ tasks'[k].pid = pid
                                /\ InfoOf(tasks'[k], type) = r
      BY <2>1, <3>2, <3>3, <3>4 DEF table
    <3>8. QED
      BY <3>5, <3>6, <3>7
  <2>5. CASE SplitTaskEvent(r)
    <3> DEFINE new == Linked(table[k], r)
    <3>1. tasks' = [table EXCEPT ![k] = new] /\ Rec(r).type \notin {"ST_NAME", "ST_PARAM"}
      BY <1>2, <2>5 DEF SplitTaskEvent
    <3>2. InfoOf(new, type) = InfoOf(table[k], type)
      <4>1. table[k] \in TaskEntry
        BY <2>1, <2>2
      <4>2. QED
        BY <4>1 DEF Linked, InfoOf, TaskEntry
    <3> HIDE DEF new, k, table
    <3>3. /\ DOMAIN tasks' = DOMAIN table /\ tasks'[k] = new
          /\ \A i \in DOMAIN tasks' : i # k => tasks'[i] = table[i]
      BY <2>1, <2>2, <3>1 DEF table
    <3>4. \A i \in DOMAIN tasks' : InfoOf(tasks'[i], type) = InfoOf(table[i], type)
      BY <3>2, <3>3
    <3>5. \A i \in DOMAIN tasks' :
             \/ i \in DOMAIN tasks /\ table[i] = tasks[i]
             \/ i \notin DOMAIN tasks /\ InfoOf(table[i], type) = None
      BY <2>1, <2>3, <3>3 DEF table
    <3>6. QED
      BY <1>0, <3>1, <3>4, <3>5
  <2>6. QED
    BY <1>2, <2>4, <2>5 DEF SplitStep
<1>3. QED
  <2>1. SplitSysEvent(r) => tasks' = tasks /\ Rec(r).type \notin {"ST_NAME", "ST_PARAM"}
    BY DEF SplitSysEvent
  <2>2. ~Fits(pid) => tasks' = tasks
    BY DEF SplitStep, SplitInfo, SplitTaskEvent, SplitSysEvent
  <2>3. QED
    BY <1>0, <1>1, <1>2, <2>1, <2>2

LEMMA SplitKeepsLists ==
    ASSUME IInv, ListInv, NEW r \in Earliest(h), SplitStep(r)
    PROVE  ListInv'
<1>1. /\ TypeInv /\ Inserted' = Inserted
      /\ h' = h \ {r} /\ h2' = h2 /\ Refs' = Refs /\ r \in h /\ r \in Refs
      /\ pc = "run" /\ \A q : Rec(q)' = Rec(q)
  BY TypeStep DEF IInv
<1>2. TableGrows(r)
  BY <1>1, SplitLists
<1>3. PICK k \in -1 .. Len(tasks') : Appended(r, k)
  BY <1>1, SplitLists
<1>4. tasks \in Seq(TaskEntry) /\ Len(tasks) \in Nat /\ Len(tasks') \in Nat
      /\ DOMAIN tasks = 1 .. Len(tasks) /\ DOMAIN tasks' = 1 .. Len(tasks')
  BY <1>1, <1>2 DEF TypeInv, TableGrows
<1>5. OnlyEvents'
  <2>1. SUFFICES ASSUME NEW i \in 0 .. Len(tasks'), NEW j \in DOMAIN ListOf(i)'
                 PROVE  Rec(ListOf(i)'[j]).type \notin InfoTypes
    BY <1>1 DEF OnlyEvents
  <2>2. k \in Int
    BY <1>3, <1>4
  <2>3. \/ i \in 0 .. Len(tasks) /\ j \in DOMAIN ListOf(i) /\ ListOf(i)'[j] = ListOf(i)[j]
        \/ i = k /\ ListOf(i)'[j] = r
    BY <1>1, <1>2, <1>3, <2>2, PlaceIs
  <2>4. CASE i = k /\ ListOf(i)'[j] = r
    BY <1>3, <1>4, <2>4 DEF Appended, InfoTypes
  <2>5. QED
    BY <2>3, <2>4 DEF ListInv, OnlyEvents
<1>6. ASSUME NEW q \in Refs, Fits(Rec(q).pid)' PROVE Fits(Rec(q).pid)
  <2>1. Rec(q).pid \in Nat /\ (Rec(q).pid)' = Rec(q).pid
    BY <1>1, PidType
  <2>2. /\ Rec(q).pid # 0
        /\ (\E i \in DOMAIN tasks' : tasks'[i].pid = Rec(q).pid) \/ Len(tasks') < MAX_TASKS
    BY <1>6, <2>1 DEF Fits, Known
  <2>3. QED
    BY <1>1, <1>2, <2>1, <2>2, FitsNoMore
<1>7. \A pid, type : Infos(pid, type)' = Infos(pid, type)
  BY <1>1 DEF Infos
\* An entry that was there keeps saying something.
<1>8. ASSUME NEW type \in InfoTypes, NEW i \in DOMAIN tasks, InfoOf(tasks[i], type) # None
      PROVE  i \in DOMAIN tasks' /\ tasks'[i].pid = tasks[i].pid
             /\ InfoOf(tasks'[i], type) # None
  <2>1. i \in DOMAIN tasks' /\ tasks'[i].pid = tasks[i].pid
    BY <1>2, <1>4 DEF TableGrows
  <2>2. InfoOf(tasks'[i], type) \in {r, InfoOf(tasks[i], type)}
    BY <1>1, <2>1, InfoStep
  <2>3. QED
    BY <1>1, <1>8, <2>1, <2>2, RefIsSomething
<1>9. InfosOwn'
  <2>1. SUFFICES ASSUME NEW type \in InfoTypes, NEW i \in DOMAIN tasks',
                        InfoOf(tasks'[i], type) # None
                 PROVE  InfoOf(tasks'[i], type) \in Infos(tasks'[i].pid, type)
    BY <1>7 DEF InfosOwn, InfoOf, None
  <2>2. CASE Rec(r).type = type /\ InfoOf(tasks'[i], type) = r /\ tasks'[i].pid = Rec(r).pid
    BY <1>1, <2>2 DEF Infos
  <2>3. CASE i \in DOMAIN tasks /\ InfoOf(tasks'[i], type) = InfoOf(tasks[i], type)
    <3>1. tasks'[i].pid = tasks[i].pid
      BY <1>2, <2>3 DEF TableGrows
    <3>2. QED
      BY <2>1, <2>3, <3>1 DEF ListInv, InfosOwn
  <2>4. QED
    BY <1>1, <2>1, <2>2, <2>3, InfoStep
<1>10. InfosKept'
  <2>1. SUFFICES ASSUME NEW type \in InfoTypes, NEW q \in Inserted, Rec(q).type = type,
                        q \notin h' \cup h2', Fits(Rec(q).pid)'
                 PROVE  \E i \in DOMAIN tasks' : /\ tasks'[i].pid = Rec(q).pid
                                                 /\ InfoOf(tasks'[i], type) # None
    BY <1>1 DEF InfosKept, InfoOf, None
  <2>2. q \in Refs /\ Rec(q).pid \in Nat
    <3>1. q \in Refs
      BY DEF Inserted
    <3>2. QED
      BY <1>1, <3>1, PidType
  <2>3. Fits(Rec(q).pid)
    BY <1>6, <2>1, <2>2
  <2>4. CASE q = r
    <3>1. PICK i \in DOMAIN tasks' : tasks'[i].pid = Rec(r).pid /\ InfoOf(tasks'[i], type) = r
      BY <1>1, <2>1, <2>3, <2>4, InfoStep
    <3>2. QED
      BY <1>1, <2>4, <3>1, RefIsSomething
  <2>5. CASE q # r
    <3>1. q \notin h \cup h2
      BY <1>1, <2>1, <2>5
    <3>2. PICK i \in DOMAIN tasks : /\ tasks[i].pid = Rec(q).pid
                                    /\ InfoOf(tasks[i], type) # None
      BY <2>1, <2>3, <3>1 DEF ListInv, InfosKept
    <3>3. QED
      BY <1>8, <3>2
  <2>6. QED
    BY <2>4, <2>5
<1>11. pc' = "run"
  BY <1>1 DEF SplitStep, SplitInfo, SplitTaskEvent, SplitSysEvent, SplitTake
<1>12. AllTaken' /\ FromFirst'
  BY <1>11 DEF AllTaken, FromFirst
<1>13. QED
  BY <1>5, <1>9, <1>10, <1>12 DEF ListInv

-----------------------------------------------------------------------------
(* The list invariant: the rest of main.                                   *)
LEMMA ListInvStays ==
    ASSUME IInv, ListInv, SameLists, pc # "fill", pc' # "fill", FromFirst',
           pc' \in {"release", "stats", "done"} => h = {} /\ file > Len(files)
    PROVE  ListInv'
<1>1. /\ Refs' = Refs /\ files' = files /\ (\A r : Rec(r)' = Rec(r)) /\ h' = h /\ h2' = h2
      /\ tasks' = tasks /\ (\A i : ListOf(i)' = ListOf(i)) /\ file' = file
  BY DEF SameLists, Refs, Rec, ListOf
<1>2. Inserted' = Inserted /\ \A pid, type : Infos(pid, type)' = Infos(pid, type)
  BY <1>1 DEF Inserted, Infos
<1>3. OnlyEvents' /\ InfosOwn'
  BY <1>1, <1>2 DEF ListInv, OnlyEvents, InfosOwn, InfoOf, None
<1>4. InfosKept'
  BY <1>1, <1>2 DEF ListInv, InfosKept, InfoOf, None, Fits, Known
<1>5. AllTaken'
  BY <1>1 DEF AllTaken
<1>6. QED
  BY <1>3, <1>4, <1>5 DEF ListInv

LEMMA FirstFound ==
    ASSUME FindRelease
    PROVE  FromFirst'
<1>1. sys_events' = sys_events /\ command' = command /\ files' = files
  BY DEF FindRelease
<1>2. SysReleases' = SysReleases /\ \A i : (Rec(sys_events[i]).raw1)' = Rec(sys_events[i]).raw1
  BY <1>1 DEF SysReleases, Rec
<1>3. CASE command.wait_for_release /\ pc' = "stats"
  <2>1. PICK i \in SysReleases : /\ \A j \in SysReleases : i <= j
                                 /\ sys_release' = Rec(sys_events[i]).raw1
    BY <1>3 DEF FindRelease
  <2>2. QED
    BY <1>2, <2>1 DEF FromFirst
<1>4. CASE ~(command.wait_for_release /\ pc' = "stats")
  BY <1>1, <1>4 DEF FindRelease, FromFirst
<1>5. QED
  BY <1>3, <1>4

LEMMA StatsKeepLists ==
    ASSUME IInv, HeapInv, ListInv, SplitEnds \/ Stats \/ UNCHANGED jobStatsVars
    PROVE  ListInv'
<1>1. CASE UNCHANGED jobStatsVars
  <2>1. /\ files' = files /\ file' = file /\ next' = next /\ pc' = pc /\ h' = h /\ h2' = h2
        /\ tasks' = tasks /\ sys_events' = sys_events /\ sys_release' = sys_release
        /\ command' = command
    BY <1>1 DEF jobStatsVars, loadVars, statVars
  <2>2. Refs' = Refs /\ (\A r : Rec(r)' = Rec(r)) /\ \A i : ListOf(i)' = ListOf(i)
    BY <2>1 DEF Refs, Rec, ListOf
  <2>3. Inserted' = Inserted /\ \A pid, type : Infos(pid, type)' = Infos(pid, type)
    BY <2>1, <2>2 DEF Inserted, Infos
  <2>4. OnlyEvents' /\ InfosOwn'
    BY <2>1, <2>2, <2>3 DEF ListInv, OnlyEvents, InfosOwn, InfoOf, None
  <2>5. InfosKept'
    BY <2>1, <2>2, <2>3 DEF ListInv, InfosKept, InfoOf, None, Fits, Known
  <2>6. SysReleases' = SysReleases
    BY <2>1, <2>2 DEF SysReleases
  <2>7. AllTaken' /\ FromFirst'
    BY <2>1, <2>2, <2>6 DEF ListInv, AllTaken, FromFirst
  <2>8. QED
    BY <2>4, <2>5, <2>7 DEF ListInv
<1>2. CASE SplitEnds
  <2>1. SameLists /\ pc = "run" /\ pc' = "release" /\ h = {}
    BY <1>2 DEF SplitEnds, Drained, SameLists, statVars
  <2>2. FromFirst' /\ file > Len(files)
    BY <2>1 DEF FromFirst, HeapInv
  <2>3. QED
    BY <2>1, <2>2, ListInvStays
<1>3. CASE FindRelease
  <2>1. SameLists /\ pc = "release" /\ pc' # "fill"
    BY <1>3 DEF FindRelease, SameLists
  <2>2. h = {} /\ file > Len(files)
    BY <2>1 DEF ListInv, AllTaken
  <2>3. QED
    BY <1>3, <2>1, <2>2, FirstFound, ListInvStays
<1>4. CASE NextTask \/ PassEvent \/ PrintRow \/ AllShown
  <2>1. SameLists /\ pc = "stats" /\ pc' \in {"stats", "done"} /\ sys_release' = sys_release
    BY <1>4 DEF NextTask, PassEvent, PrintRow, AllShown, LookAt, StatsFrame, loadVars,
                statVars, SameLists
  <2>2. h = {} /\ file > Len(files)
    BY <2>1 DEF ListInv, AllTaken
  <2>3. FromFirst'
    <3>1. SysReleases' = SysReleases /\ (\A r : Rec(r)' = Rec(r)) /\ command' = command
          /\ sys_events' = sys_events
      BY <2>1 DEF SameLists, SysReleases, Rec
    <3>2. QED
      BY <2>1, <3>1 DEF ListInv, FromFirst
  <2>4. QED
    BY <2>1, <2>2, <2>3, ListInvStays
<1>5. QED
  BY <1>1, <1>2, <1>3, <1>4 DEF Stats

LEMMA ListInvInit == JobStatsInit => ListInv
<1>1. SUFFICES ASSUME JobStatsInit PROVE ListInv
  OBVIOUS
<1>2. /\ tasks = <<>> /\ sys_events = <<>> /\ pc = "open" /\ HeapInv
  BY <1>1, HeapInvInit DEF JobStatsInit, LoadInit, TraceInit, StatsInit
<1>3. Inserted \subseteq h \cup h2
  BY <1>2, InsertedIsHeld DEF Loading
<1>4. QED
  BY <1>2, <1>3 DEF ListInv, OnlyEvents, InfosOwn, InfosKept, AllTaken, FromFirst, ListOf

LEMMA ListInvNext ==
    IInv /\ HeapInv /\ HeapInv' /\ ListInv /\ [JobStatsNext]_jobStatsVars => ListInv'
<1>1. SUFFICES ASSUME IInv, HeapInv, HeapInv', ListInv, [JobStatsNext]_jobStatsVars
               PROVE  ListInv'
  OBVIOUS
<1>2. CASE Load /\ UNCHANGED statVars
  BY <1>1, <1>2, LoadKeepsLists
<1>3. CASE \E r \in Earliest(h) : SplitStep(r)
  BY <1>1, <1>3, SplitKeepsLists
<1>4. CASE SplitEnds \/ Stats \/ UNCHANGED jobStatsVars
  BY <1>1, <1>4, StatsKeepLists
<1>5. QED
  BY <1>1, <1>2, <1>3, <1>4 DEF JobStatsNext, Split, SplitStep

-----------------------------------------------------------------------------
(* The rows: before the statistics begin there are none.                   *)
LEMMA EntryList ==
    ASSUME TypeInv, NEW k \in DOMAIN tasks
    PROVE  /\ k \in 1 .. Len(tasks) /\ Len(tasks) \in Nat
           /\ tasks[k] \in TaskEntry /\ tasks[k].events \in Seq(Refs)
           /\ ListOf(k) = tasks[k].events
           /\ DOMAIN tasks[k].events = 1 .. Len(tasks[k].events)
           /\ Len(tasks[k].events) \in Nat
<1>1. k \in 1 .. Len(tasks) /\ tasks[k] \in TaskEntry /\ Len(tasks) \in Nat
  BY DEF TypeInv
<1>2. tasks[k].events \in Seq(Refs)
  BY <1>1 DEF TaskEntry
<1>3. QED
  BY <1>1, <1>2 DEF ListOf

LEMMA NoRowsYet == TypeInv /\ rows = <<>> /\ t = 1 /\ e = 1 /\ pc # "done" => RowInv
<1>1. SUFFICES ASSUME TypeInv, rows = <<>>, t = 1, e = 1, pc # "done" PROVE RowInv
  OBVIOUS
<1>2. \A k \in DOMAIN tasks : \A a \in DOMAIN tasks[k].events : ~Past(k, a)
  <2>1. SUFFICES ASSUME NEW k \in DOMAIN tasks, NEW a \in DOMAIN tasks[k].events
                 PROVE  ~Past(k, a)
    OBVIOUS
  <2>2. k \in Nat \ {0} /\ a \in Nat \ {0}
    BY <1>1, EntryList
  <2>3. QED
    BY <1>1, <2>2 DEF Past
<1>3. RowsComplete
  BY <1>2 DEF RowsComplete
<1>4. QED
  BY <1>1, <1>3 DEF RowInv, RowsSound, RowsOnce, Progress

-----------------------------------------------------------------------------
(* The rows: what the loops of main do.                                    *)
SameTable == UNCHANGED <<command, files, tasks, sys_release>>

LEMMA TableStays ==
    ASSUME SameTable
    PROVE  /\ \A r : Rec(r)' = Rec(r)
           /\ \A task : Wanted(task)' <=> Wanted(task)
           /\ \A list, a, c : Shown(list, a, c)' <=> Shown(list, a, c)
           /\ \A row, list, a, c : Says(row, list, a, c)' <=> Says(row, list, a, c)
<1>1. /\ \A r : Rec(r)' = Rec(r)
      /\ command' = command /\ sys_release' = sys_release
  BY DEF SameTable, Rec
<1>2. \A task : Wanted(task)' <=> Wanted(task)
  BY <1>1 DEF Wanted, GivenPeriod, period_filter, per, tsk_name
<1>3. \A list, a : CompletionsAt(list, a)' = CompletionsAt(list, a)
  BY <1>1 DEF CompletionsAt
<1>4. \A list, a : MatchesAt(list, a)' = MatchesAt(list, a)
  BY <1>1, <1>3 DEF MatchesAt
<1>5. \A list, a, c : Shown(list, a, c)' <=> Shown(list, a, c)
  BY <1>1, <1>4 DEF Shown
<1>6. \A list, a, n : AwaysAt(list, a, n)' = AwaysAt(list, a, n)
  BY <1>1 DEF AwaysAt, IsSwitch
<1>7. \A list, a, n, j : LastAway(list, a, n, j)' <=> LastAway(list, a, n, j)
  BY <1>6 DEF LastAway
<1>8. \A list, a, n : ResumedAt(list, a, n)' = ResumedAt(list, a, n)
  BY <1>1, <1>6 DEF ResumedAt, IsSwitch
<1>9. \A list, a, n : MovedAt(list, a, n)' = MovedAt(list, a, n)
  BY <1>1, <1>6, <1>7, <1>8 DEF MovedAt
<1>10. \A row, list, a, c : Says(row, list, a, c)' <=> Says(row, list, a, c)
  BY <1>8, <1>9 DEF Says
<1>11. QED
  BY <1>1, <1>2, <1>5, <1>10

\* What main looks for, in terms of the list.
LEMMA LookedAt ==
    ASSUME IInv, LookAt(e), NEW list, list = tasks[t].events
    PROVE  /\ t \in DOMAIN tasks /\ e \in DOMAIN list /\ list \in Seq(Refs)
           /\ Wanted(tasks[t]) /\ Matching(e) = MatchesAt(list, e)
           /\ \A c : Considered(e) /\ c \in Matching(e) /\ (\A d \in Matching(e) : c <= d)
                       <=> Shown(list, e, c)
<1>1. /\ t \in DOMAIN tasks /\ e \in Nat \ {0} /\ TypeInv
  BY DEF IInv, TypeInv, LookAt
<1>2. list \in Seq(Refs) /\ DOMAIN list = 1 .. Len(list) /\ Len(list) \in Nat
  BY <1>1, EntryList
<1>3. e \in DOMAIN list /\ Wanted(tasks[t])
  BY <1>1, <1>2 DEF LookAt
<1>4. \A i : Event(i) = Rec(list[i])
  BY DEF Event
<1>5. Completions(e) = CompletionsAt(list, e)
  BY <1>4 DEF Completions, CompletionsAt
<1>6. Matching(e) = MatchesAt(list, e)
  BY <1>4, <1>5 DEF Matching, Checked, MatchesAt
<1>7. Considered(e) <=> /\ Rec(list[e]).type = "ST_RELEASE"
                        /\ command.wait_for_release => Rec(list[e]).raw0 >= sys_release
  BY <1>4 DEF Considered
<1>8. QED
  BY <1>1, <1>2, <1>3, <1>6, <1>7 DEF Shown

LEMMA NewRowSays ==
    ASSUME IInv, LookAt(e), NEW list, list = tasks[t].events, NEW c \in Matching(e)
    PROVE  c \in DOMAIN list /\ Says(Row(e, c), list, e, c)
<1>1. /\ t \in DOMAIN tasks /\ e \in DOMAIN list /\ list \in Seq(Refs)
      /\ Matching(e) = MatchesAt(list, e)
  BY LookedAt
<1>2. c \in e .. Len(list) /\ e \in 1 .. Len(list) /\ Len(list) \in Nat
  BY <1>1 DEF MatchesAt, CompletionsAt
<1>3. c \in DOMAIN list /\ e \in Nat /\ c \in Nat /\ e <= c
  BY <1>1, <1>2
<1>4. \A i \in e .. (c - 1) : Rec(list[i]).cpu \in Nat
  <2>1. SUFFICES ASSUME NEW i \in e .. (c - 1) PROVE Rec(list[i]).cpu \in Nat
    OBVIOUS
  <2>2. list[i] \in Refs
    BY <1>1, <1>2
  <2>3. QED
    BY <2>2, RecType DEF IInv, TypeInv, Record
<1>5. Tells(count_preemptions(e, c), list, e, c)
  BY <1>3, <1>4, CountTells
<1>6. QED
  BY <1>3, <1>5 DEF Tells, Says, Row

LEMMA RowsStay ==
    ASSUME IInv, RowInv, SameTable, rows' = rows,
           \A k \in DOMAIN tasks : \A a \in DOMAIN tasks[k].events :
              Past(k, a) => Past(k, a)',
           \A k \in DOMAIN tasks : \A a, c \in DOMAIN tasks[k].events :
              Past(k, a)' /\ Wanted(tasks[k]) /\ Shown(tasks[k].events, a, c) => Past(k, a)
    PROVE  RowsSound' /\ RowsComplete' /\ RowsOnce'
<1>1. tasks' = tasks
  BY DEF SameTable
<1>2. /\ \A task : Wanted(task)' <=> Wanted(task)
      /\ \A list, a, c : Shown(list, a, c)' <=> Shown(list, a, c)
      /\ \A row, list, a, c : Says(row, list, a, c)' <=> Says(row, list, a, c)
  BY TableStays
<1>3. RowsSound'
  BY <1>1, <1>2 DEF RowInv, RowsSound, PastRow
<1>4. RowsComplete'
  BY <1>1, <1>2 DEF RowInv, RowsComplete
<1>5. QED
  BY <1>3, <1>4 DEF RowInv, RowsOnce

LEMMA NextTaskRows ==
    ASSUME IInv, RowInv, NextTask
    PROVE  RowInv'
<1>1. /\ SameTable /\ rows' = rows /\ t' = t + 1 /\ e' = 1 /\ pc = "stats" /\ pc' = pc
      /\ t \in DOMAIN tasks /\ t \in Nat /\ e \in Nat
      /\ Wanted(tasks[t]) => e > Len(tasks[t].events)
  BY DEF NextTask, StatsFrame, loadVars, SameTable, IInv, TypeInv
<1>2. ASSUME NEW k \in DOMAIN tasks, NEW a \in DOMAIN tasks[k].events
      PROVE  /\ Past(k, a) => Past(k, a)'
             /\ Past(k, a)' /\ Wanted(tasks[k]) => Past(k, a)
  <2>1. /\ k \in Nat /\ a \in Nat \ {0} /\ a <= Len(tasks[k].events)
        /\ Len(tasks[k].events) \in Nat
    BY EntryList DEF IInv
  <2>2. Past(k, a) => Past(k, a)'
    BY <1>1, <2>1 DEF Past
  <2>3. Past(k, a)' => k <= t
    BY <1>1, <2>1 DEF Past
  <2>4. k < t => Past(k, a)
    BY DEF Past
  <2>5. k = t /\ Wanted(tasks[k]) => Past(k, a)
    <3>1. SUFFICES ASSUME k = t, Wanted(tasks[k]) PROVE a < e
      BY DEF Past
    <3>2. e > Len(tasks[k].events)
      BY <1>1, <3>1
    <3>3. QED
      BY <1>1, <2>1, <3>2
  <2>6. k <= t => k < t \/ k = t
    BY <1>1, <2>1
  <2>7. QED
    BY <2>2, <2>3, <2>4, <2>5, <2>6
<1>3. RowsSound' /\ RowsComplete' /\ RowsOnce'
  BY <1>1, <1>2, RowsStay
<1>4. QED
  BY <1>1, <1>3 DEF RowInv, Progress

LEMMA PassEventRows ==
    ASSUME IInv, RowInv, PassEvent
    PROVE  RowInv'
<1>1. /\ SameTable /\ rows' = rows /\ t' = t /\ e' = e + 1 /\ pc = "stats" /\ pc' = pc
      /\ LookAt(e) /\ (Considered(e) => Matching(e) = {}) /\ t \in Nat /\ e \in Nat
  BY DEF PassEvent, StatsFrame, LookAt, loadVars, SameTable, IInv, TypeInv
<1>2. \A c : ~Shown(tasks[t].events, e, c)
  BY <1>1, LookedAt
<1>3. ASSUME NEW k \in DOMAIN tasks, NEW a \in DOMAIN tasks[k].events
      PROVE  /\ Past(k, a) => Past(k, a)'
             /\ Past(k, a)' => Past(k, a) \/ (k = t /\ a = e)
  <2>1. k \in Nat /\ a \in Nat
    BY EntryList DEF IInv
  <2>2. QED
    BY <1>1, <2>1 DEF Past
<1>4. RowsSound' /\ RowsComplete' /\ RowsOnce'
  BY <1>1, <1>2, <1>3, RowsStay
<1>5. QED
  BY <1>1, <1>4 DEF RowInv, Progress

LEMMA AllShownRows ==
    ASSUME IInv, RowInv, AllShown
    PROVE  RowInv'
<1>1. /\ SameTable /\ rows' = rows /\ t' = t /\ e' = e /\ pc' = "done"
      /\ t > Len(tasks)
  BY DEF AllShown, statVars, SameTable
<1>2. \A k, a : Past(k, a)' <=> Past(k, a)
  BY <1>1 DEF Past
<1>3. RowsSound' /\ RowsComplete' /\ RowsOnce'
  BY <1>1, <1>2, RowsStay
<1>4. QED
  BY <1>1, <1>3 DEF RowInv, Progress, SameTable

\* Two places of the lists hold different records.
LEMMA PlacesDiffer ==
    ASSUME IInv, NEW k \in DOMAIN tasks, NEW m \in DOMAIN tasks,
           NEW a \in DOMAIN tasks[k].events, NEW b \in DOMAIN tasks[m].events,
           tasks[k].events[a] = tasks[m].events[b]
    PROVE  k = m /\ a = b
<1>1. /\ k \in 0 .. Len(tasks) /\ m \in 0 .. Len(tasks)
      /\ ListOf(k) = tasks[k].events /\ ListOf(m) = tasks[m].events
  BY EntryList DEF IInv
<1>2. QED
  BY <1>1 DEF IInv, NothingTwice

LEMMA PrintRowRows ==
    ASSUME IInv, RowInv, PrintRow
    PROVE  RowInv'
<1> DEFINE list == tasks[t].events
<1>1. /\ SameTable /\ t' = t /\ e' = e + 1 /\ pc = "stats" /\ pc' = pc
      /\ LookAt(e) /\ Considered(e) /\ t \in Nat /\ e \in Nat
  BY DEF PrintRow, StatsFrame, LookAt, loadVars, SameTable, IInv, TypeInv
<1>2. PICK c \in Matching(e) : /\ \A d \in Matching(e) : c <= d
                               /\ rows' = Append(rows, Row(e, c))
  BY DEF PrintRow
<1> DEFINE row == Row(e, c)
<1>3. /\ t \in DOMAIN tasks /\ e \in DOMAIN list /\ c \in DOMAIN list
      /\ Wanted(tasks[t]) /\ Shown(list, e, c) /\ Says(row, list, e, c)
  BY <1>1, <1>2, LookedAt, NewRowSays
<1>4. row.release = list[e] /\ row.completion = list[c]
  BY <1>3 DEF Says
<1> HIDE DEF row
<1>5. /\ DOMAIN rows' = 1 .. (Len(rows) + 1) /\ DOMAIN rows = 1 .. Len(rows)
      /\ Len(rows) \in Nat /\ rows'[Len(rows) + 1] = row
      /\ \A n \in DOMAIN rows : rows'[n] = rows[n]
  <2>1. PICK S : rows \in Seq(S)
    BY DEF IInv, TypeInv
  <2>2. rows \in Seq(S \cup {row}) /\ rows' = Append(rows, row)
    BY <1>2, <2>1 DEF row
  <2>3. QED
    BY <2>2
<1>6. \A n \in DOMAIN rows' : \/ n \in DOMAIN rows /\ rows'[n] = rows[n]
                              \/ n = Len(rows) + 1 /\ rows'[n] = row
  BY <1>5
<1>7. /\ tasks' = tasks
      /\ \A task : Wanted(task)' <=> Wanted(task)
      /\ \A l, a, b : Shown(l, a, b)' <=> Shown(l, a, b)
      /\ \A q, l, a, b : Says(q, l, a, b)' <=> Says(q, l, a, b)
  BY <1>1, TableStays DEF SameTable
<1>8. ASSUME NEW k \in DOMAIN tasks, NEW a \in DOMAIN tasks[k].events
      PROVE  Past(k, a)' <=> Past(k, a) \/ (k = t /\ a = e)
  <2>1. k \in Nat /\ a \in Nat
    BY EntryList DEF IInv
  <2>2. QED
    BY <1>1, <2>1 DEF Past
<1>9. ~Past(t, e)
  BY <1>1 DEF Past
\* No row of the list so far is for this release.
<1>10. ASSUME NEW n \in DOMAIN rows PROVE rows[n].release # row.release
  <2>1. PICK k \in DOMAIN tasks : \E a \in DOMAIN tasks[k].events :
               \E b \in DOMAIN tasks[k].events : PastRow(rows[n], k, a, b)
    BY DEF RowInv, RowsSound
  <2>2. PICK a \in DOMAIN tasks[k].events : Past(k, a) /\ rows[n].release = tasks[k].events[a]
    BY <2>1 DEF PastRow, Says
  <2>3. QED
    BY <1>3, <1>4, <1>9, <2>2, PlacesDiffer
<1>11. RowsSound'
  <2>1. SUFFICES ASSUME NEW n \in DOMAIN rows'
                 PROVE  \E k \in DOMAIN tasks : \E a \in DOMAIN tasks[k].events :
                           \E b \in DOMAIN tasks[k].events :
                              /\ Past(k, a)' /\ Wanted(tasks[k])
                              /\ Shown(tasks[k].events, a, b)
                              /\ Says(rows'[n], tasks[k].events, a, b)
    BY <1>7 DEF RowsSound, PastRow
  <2>2. CASE n \in DOMAIN rows /\ rows'[n] = rows[n]
    BY <1>8, <2>2 DEF RowInv, RowsSound, PastRow
  <2>3. CASE rows'[n] = row
    BY <1>3, <1>8, <2>3
  <2>4. QED
    BY <1>6, <2>2, <2>3
<1>12. RowsComplete'
  <2>1. SUFFICES ASSUME NEW k \in DOMAIN tasks, NEW a \in DOMAIN tasks[k].events,
                        NEW b \in DOMAIN tasks[k].events, Past(k, a)', Wanted(tasks[k]),
                        Shown(tasks[k].events, a, b)
                 PROVE  \E n \in DOMAIN rows' : /\ rows'[n].release = tasks[k].events[a]
                                                /\ rows'[n].completion = tasks[k].events[b]
    BY <1>7 DEF RowsComplete
  <2>2. CASE Past(k, a)
    <3>1. PICK n \in DOMAIN rows : /\ rows[n].release = tasks[k].events[a]
                                   /\ rows[n].completion = tasks[k].events[b]
      BY <2>1, <2>2 DEF RowInv, RowsComplete
    <3>2. n \in DOMAIN rows' /\ rows'[n] = rows[n]
      BY <1>5
    <3>3. QED
      BY <3>1, <3>2
  <2>3. CASE k = t /\ a = e
    <3>1. b = c
      <4>1. b \in Nat /\ c \in Nat
        BY <1>3, <2>3, EntryList DEF IInv
      <4>2. b <= c /\ c <= b
        BY <1>3, <2>1, <2>3 DEF Shown
      <4>3. QED
        BY <4>1, <4>2
    <3>2. Len(rows) + 1 \in DOMAIN rows' /\ rows'[Len(rows) + 1] = row
      BY <1>5
    <3>3. QED
      BY <1>4, <2>3, <3>1, <3>2
  <2>4. QED
    BY <1>8, <2>1, <2>2, <2>3
<1>13. RowsOnce'
  <2>1. SUFFICES ASSUME NEW n \in DOMAIN rows', NEW m \in DOMAIN rows',
                        rows'[n].release = rows'[m].release
                 PROVE  n = m
    BY DEF RowsOnce
  <2>2. CASE n \in DOMAIN rows /\ m \in DOMAIN rows
    BY <1>5, <2>1, <2>2 DEF RowInv, RowsOnce
  <2>3. CASE n \notin DOMAIN rows /\ m \notin DOMAIN rows
    BY <1>6, <2>3
  <2>4. CASE n \in DOMAIN rows /\ m \notin DOMAIN rows
    BY <1>5, <1>6, <1>10, <2>1, <2>4
  <2>5. CASE n \notin DOMAIN rows /\ m \in DOMAIN rows
    BY <1>5, <1>6, <1>10, <2>1, <2>5
  <2>6. QED
    BY <2>2, <2>3, <2>4, <2>5
<1>14. QED
  BY <1>1, <1>11, <1>12, <1>13 DEF RowInv, Progress

LEMMA RowInvNext == IInv /\ IInv' /\ RowInv /\ [JobStatsNext]_jobStatsVars => RowInv'
<1>1. SUFFICES ASSUME IInv, IInv', RowInv, [JobStatsNext]_jobStatsVars PROVE RowInv'
  OBVIOUS
<1>2. CASE \/ Load /\ UNCHANGED statVars
           \/ \E r \in Earliest(h) : SplitStep(r)
           \/ SplitEnds \/ FindRelease
  <2>1. pc \notin {"stats", "done"} /\ rows' = rows /\ t' = t /\ e' = e /\ pc' # "done"
    BY <1>2 DEF Load, MapTrace, CannotLoad, InsertEvent, UniteHeaps, Loaded, statVars, SplitStep,
                SplitInfo, SplitTaskEvent, SplitSysEvent, SplitTake, SplitEnds, FindRelease
  <2>2. (TypeInv /\ rows = <<>> /\ t = 1 /\ e = 1 /\ pc # "done")'
    BY <1>1, <2>1 DEF RowInv, Progress, IInv
  <2>3. (TypeInv /\ rows = <<>> /\ t = 1 /\ e = 1 /\ pc # "done" => RowInv)'
    BY NoRowsYet, PTL
  <2>4. QED
    BY <2>2, <2>3
<1>3. CASE NextTask
  BY <1>1, <1>3, NextTaskRows
<1>4. CASE PassEvent
  BY <1>1, <1>4, PassEventRows
<1>5. CASE PrintRow
  BY <1>1, <1>5, PrintRowRows
<1>6. CASE AllShown
  BY <1>1, <1>6, AllShownRows
<1>7. CASE UNCHANGED jobStatsVars
  <2>1. SameTable /\ rows' = rows /\ t' = t /\ e' = e /\ pc' = pc
    BY <1>7 DEF jobStatsVars, loadVars, statVars, SameTable
  <2>2. \A k, a : Past(k, a)' <=> Past(k, a)
    BY <2>1 DEF Past
  <2>3. RowsSound' /\ RowsComplete' /\ RowsOnce'
    BY <1>1, <2>1, <2>2, RowsStay
  <2>4. QED
    BY <1>1, <2>1, <2>3 DEF RowInv, Progress, SameTable
<1>8. QED
  BY <1>1, <1>2, <1>3, <1>4, <1>5, <1>6, <1>7 DEF JobStatsNext, Split, SplitStep, Stats

LEMMA RowsInvariant == JobStatsSpec => [](HeapInv /\ ListInv /\ RowInv)
<1>1. JobStatsSpec => []HeapInv
  BY StatsLoad, HeapInvariant, PTL
<1>2. JobStatsSpec => []IInv
  BY StatsInvariant
<1>3. JobStatsInit => RowInv
  BY InitIInv, NoRowsYet DEF JobStatsInit, LoadInit, TraceInit, StatsInit, IInv
<1>4. QED
  BY <1>1, <1>2, <1>3, ListInvInit, ListInvNext, RowInvNext, PTL DEF JobStatsSpec

-----------------------------------------------------------------------------
(* Lists and events: the places of a list are the events of its task.      *)
Complete == IInv /\ HeapInv /\ ListInv /\ pc \in {"stats", "done"}

LEMMA AllListed ==
    ASSUME Complete
    PROVE  /\ Inserted = Refs /\ h = {} /\ h2 = {}
           /\ \A r \in Refs : Listed(r) \/ Rec(r).type \in {"ST_NAME", "ST_PARAM"}
<1>1. h = {} /\ h2 = {} /\ file > Len(files)
  BY DEF Complete, ListInv, AllTaken, IInv, Phases
<1>2. \A r \in Refs : r[1] < file
  <2>1. SUFFICES ASSUME NEW r \in Refs PROVE r[1] < file
    OBVIOUS
  <2>2. r[1] \in Nat /\ r[1] <= Len(files) /\ file \in Nat /\ Len(files) \in Nat
    BY RefPosition DEF Complete, HeapInv, Bounded
  <2>3. QED
    BY <1>1, <2>2
<1>3. Inserted = Refs
  BY <1>2 DEF Inserted
<1>4. QED
  BY <1>1, <1>3 DEF Complete, IInv, Held

IsList(k, list) == k \in DOMAIN tasks /\ list = tasks[k].events

LEMMA OwnPlaces ==
    ASSUME Complete, NEW k, NEW list, IsList(k, list)
    PROVE  /\ tasks[k].pid \in Nat \ {0} /\ Fits(tasks[k].pid)
           /\ list \in Seq(Refs) /\ DOMAIN list = 1 .. Len(list) /\ Len(list) \in Nat
           /\ \A j \in DOMAIN list : list[j] \in EventsOf(tasks[k].pid)
           /\ \A r \in EventsOf(tasks[k].pid) : \E j \in DOMAIN list : list[j] = r
           /\ \A i, j \in DOMAIN list : list[i] = list[j] => i = j
<1> DEFINE pid == tasks[k].pid
<1>0. k \in DOMAIN tasks /\ list = tasks[k].events
  BY DEF IsList
<1>1. TypeInv /\ ListOf(k) = list /\ k \in 0 .. Len(tasks)
      /\ list \in Seq(Refs) /\ DOMAIN list = 1 .. Len(list) /\ Len(list) \in Nat
  BY <1>0, EntryList DEF Complete, IInv
<1>2. pid \in Nat \ {0} /\ Known(pid) /\ Fits(pid)
  <2>1. tasks[k] \in TaskEntry
    BY <1>0, <1>1, EntryList
  <2>2. pid # 0
    BY <1>0 DEF Complete, IInv, OneEntryPerTask
  <2>3. QED
    BY <1>0, <2>1, <2>2 DEF TaskEntry, Known, Fits
<1>3. \A j \in DOMAIN list : list[j] \in EventsOf(pid)
  <2>1. SUFFICES ASSUME NEW j \in DOMAIN list PROVE list[j] \in EventsOf(pid)
    OBVIOUS
  <2>2. list[j] \in Refs
    BY <1>1
  <2>3. Rec(list[j]).pid = pid
    BY <1>0 DEF Complete, IInv, OwnList
  <2>4. Rec(list[j]).type \notin {"ST_NAME", "ST_PARAM"}
    BY <1>1 DEF Complete, ListInv, OnlyEvents, InfoTypes
  <2>5. QED
    BY <2>2, <2>3, <2>4 DEF EventsOf
<1>4. ASSUME NEW r \in EventsOf(pid) PROVE \E j \in DOMAIN list : list[j] = r
  <2>1. Listed(r) /\ Rec(r).pid = pid
    BY AllListed DEF EventsOf
  <2>2. PICK i \in 0 .. Len(tasks) : \E j \in DOMAIN ListOf(i) : ListOf(i)[j] = r
    BY <2>1 DEF Listed
  <2>3. PICK j \in DOMAIN ListOf(i) : ListOf(i)[j] = r
    BY <2>2
  <2>4. CASE i = 0
    <3>1. ~Fits(pid)
      BY <2>1, <2>3, <2>4 DEF ListOf, Complete, IInv, OwnList
    <3>2. QED
      BY <1>2, <3>1
  <2>5. CASE i # 0
    <3>1. i \in DOMAIN tasks /\ ListOf(i) = tasks[i].events
      BY <1>1, <2>2, <2>5 DEF ListOf, TypeInv
    <3>2. tasks[i].pid = pid
      BY <2>1, <2>3, <3>1 DEF Complete, IInv, OwnList
    <3>3. i = k
      BY <1>0, <3>1, <3>2 DEF Complete, IInv, OneEntryPerTask
    <3>4. QED
      BY <1>0, <2>3, <3>1, <3>3
  <2>6. QED
    BY <2>4, <2>5
<1>5. \A i, j \in DOMAIN list : list[i] = list[j] => i = j
  BY <1>1 DEF Complete, IInv, NothingTwice
<1>6. QED
  BY <1>1, <1>2, <1>3, <1>4, <1>5

\* For a task whose events all have different times the list is in their order.
LEMMA PlacesInOrder ==
    ASSUME Complete, NEW k, NEW list, IsList(k, list), Plain(tasks[k].pid),
           NEW i \in DOMAIN list, NEW j \in DOMAIN list
    PROVE  /\ At(list[i]) \in Nat /\ At(list[j]) \in Nat /\ i \in Nat /\ j \in Nat
           /\ i < j <=> At(list[i]) < At(list[j])
<1> DEFINE pid == tasks[k].pid
<1>1. /\ list \in Seq(Refs) /\ DOMAIN list = 1 .. Len(list) /\ Len(list) \in Nat
      /\ \A m \in DOMAIN list : list[m] \in EventsOf(pid)
      /\ \A m, n \in DOMAIN list : list[m] = list[n] => m = n
  BY OwnPlaces
<1>2. \A m \in DOMAIN list : At(list[m]) \in Nat /\ m \in Nat
  BY <1>1, TimeType DEF Complete, IInv, TypeInv, At
<1>3. \A m, n \in DOMAIN list : At(list[m]) = At(list[n]) => m = n
  BY <1>1 DEF Plain
<1>4. ASSUME NEW m \in DOMAIN list, NEW n \in DOMAIN list, m < n
      PROVE  At(list[m]) < At(list[n])
  <2>1. ~earlier_event(Rec(list[n]), Rec(list[m]))
    <3>1. k \in 0 .. Len(tasks) /\ ListOf(k) = list
      BY EntryList DEF Complete, IInv, IsList
    <3>2. InOrder(list)
      BY <3>1 DEF Complete, IInv, ListsInOrder
    <3>3. QED
      BY <1>4, <3>2 DEF InOrder
  <2>2. At(list[m]) # At(list[n])
    BY <1>2, <1>3, <1>4
  <2>3. ~(At(list[n]) < At(list[m]))
    BY <2>1, <2>2 DEF earlier_event, At
  <2>4. QED
    BY <1>2, <2>2, <2>3
<1>5. QED
  BY <1>2, <1>4

\* A set is as large as the set of the places of its members.
OneToOne(f, P, Q) ==
    /\ \A i \in P : f[i] \in Q
    /\ \A q \in Q : \E i \in P : f[i] = q
    /\ \A i, j \in P : f[i] = f[j] => i = j

LEMMA SameSize ==
    ASSUME NEW f, NEW P, NEW Q, IsFiniteSet(P), OneToOne(f, P, Q)
    PROVE  IsFiniteSet(Q) /\ Cardinality(Q) = Cardinality(P)
<1> DEFINE g == [i \in P |-> f[i]]
<1>1. g \in Bijection(P, Q)
  BY DEF OneToOne, Bijection, Injection, Surjection, IsInjective
<1>2. ExistsBijection(P, Q)
  BY <1>1 DEF ExistsBijection
<1>3. QED
  BY <1>2, FS_Bijection

-----------------------------------------------------------------------------
(* The switches of a row.                                                  *)
LeftBefore(row, r) == {b \in SwitchesOf(row, "ST_SWITCH_AWAY") : At(b) < At(r)}

ResumedOf(row) == {r \in SwitchesOf(row, "ST_SWITCH_TO") : LeftBefore(row, r) # {}}

MovedOf(row) ==
    {r \in ResumedOf(row) :
       \E b \in LeftBefore(row, r) : /\ \A d \in LeftBefore(row, r) : At(d) <= At(b)
                                     /\ Rec(b).cpu # Rec(r).cpu}

LEMMA RowSwitches ==
    ASSUME Complete, NEW k, NEW list, IsList(k, list), Plain(tasks[k].pid),
           NEW a \in DOMAIN list, NEW c \in DOMAIN list,
           NEW row, row.release = list[a], row.completion = list[c],
           NEW type, NEW i \in DOMAIN list
    PROVE  list[i] \in SwitchesOf(row, type) <=> i \in a .. (c - 1) /\ IsSwitch(list, a, i, type)
                                                  /\ type \notin {"ST_NAME", "ST_PARAM"}
<1>1. Rec(row.release).pid = tasks[k].pid /\ list[i] \in EventsOf(tasks[k].pid)
      /\ a \in Nat /\ i \in Nat /\ c \in Nat
  BY OwnPlaces DEF EventsOf
<1>2. At(row.release) <= At(list[i]) <=> a <= i
  BY <1>1, PlacesInOrder
<1>3. At(list[i]) < At(row.completion) <=> i < c
  BY PlacesInOrder
<1>4. QED
  BY <1>1, <1>2, <1>3 DEF SwitchesOf, IsSwitch, EventsOf

\* What the row of a release and a completion says of the job's switches is right.
LEMMA SwitchesRight ==
    ASSUME Complete, NEW k, NEW list, IsList(k, list), Plain(tasks[k].pid),
           NEW a \in DOMAIN list, NEW c \in DOMAIN list,
           NEW row, Says(row, list, a, c)
    PROVE  /\ row.preemptions = Cardinality(ResumedOf(row))
           /\ row.migrations = Cardinality(MovedOf(row))
<1> DEFINE before(r) == LeftBefore(row, r)
           resumed == ResumedOf(row)
           moved == MovedOf(row)
           aways(i) == AwaysAt(list, a, i)
<1>1. row.release = list[a] /\ row.completion = list[c]
  BY DEF Says
<1>2. /\ \A j \in DOMAIN list : list[j] \in EventsOf(tasks[k].pid) /\ j \in Nat
      /\ \A r \in EventsOf(tasks[k].pid) : \E j \in DOMAIN list : list[j] = r
      /\ \A i, j \in DOMAIN list : list[i] = list[j] => i = j
      /\ DOMAIN list = 1 .. Len(list) /\ Len(list) \in Nat
      /\ Rec(row.release).pid = tasks[k].pid
  BY <1>1, OwnPlaces DEF EventsOf
<1>3. \A i \in DOMAIN list :
         /\ list[i] \in SwitchesOf(row, "ST_SWITCH_AWAY") <=>
               i \in a .. (c - 1) /\ IsSwitch(list, a, i, "ST_SWITCH_AWAY")
         /\ list[i] \in SwitchesOf(row, "ST_SWITCH_TO") <=>
               i \in a .. (c - 1) /\ IsSwitch(list, a, i, "ST_SWITCH_TO")
  BY <1>1, RowSwitches
<1>4. a .. (c - 1) \subseteq DOMAIN list
  BY <1>2
<1>5. \A r, type : r \in SwitchesOf(row, type) => \E j \in DOMAIN list : list[j] = r
  BY <1>2 DEF SwitchesOf
<1>6. ASSUME NEW i \in a .. (c - 1)
      PROVE  /\ \A j \in DOMAIN list : list[j] \in before(list[i]) <=> j \in AwaysAt(list, a, i)
             /\ \A r \in before(list[i]) : \E j \in DOMAIN list : list[j] = r
             /\ AwaysAt(list, a, i) \subseteq DOMAIN list
  <2>1. i \in DOMAIN list
    BY <1>4
  <2>2. ASSUME NEW j \in DOMAIN list
        PROVE  list[j] \in before(list[i]) <=> j \in AwaysAt(list, a, i)
    <3>1. At(list[j]) < At(list[i]) <=> j < i
      BY <2>1, PlacesInOrder
    <3>2. j \in a .. (c - 1) /\ j < i <=> j \in a .. (i - 1)
      BY <1>2, <2>1
    <3>3. QED
      BY <1>3, <3>1, <3>2 DEF AwaysAt, LeftBefore
  <2>3. \A r \in before(list[i]) : \E j \in DOMAIN list : list[j] = r
    BY <1>5 DEF LeftBefore
  <2>4. AwaysAt(list, a, i) \subseteq DOMAIN list
    BY <1>2, <2>1 DEF AwaysAt
  <2>5. QED
    BY <2>2, <2>3, <2>4
<1>7. \A i \in DOMAIN list : list[i] \in resumed <=> i \in ResumedAt(list, a, c)
  <2>1. SUFFICES ASSUME NEW i \in DOMAIN list
                 PROVE  list[i] \in resumed <=> i \in ResumedAt(list, a, c)
    OBVIOUS
  <2>2. CASE i \in a .. (c - 1)
    <3>1. before(list[i]) # {} <=> AwaysAt(list, a, i) # {}
      BY <1>6, <2>2
    <3>2. QED
      BY <1>3, <2>2, <3>1 DEF ResumedAt, ResumedOf
  <2>3. CASE i \notin a .. (c - 1)
    BY <1>3, <2>3 DEF ResumedAt, ResumedOf
  <2>4. QED
    BY <2>2, <2>3
<1>8. \A i \in DOMAIN list : list[i] \in moved <=> i \in MovedAt(list, a, c)
  <2>1. SUFFICES ASSUME NEW i \in DOMAIN list, i \in ResumedAt(list, a, c)
                 PROVE  list[i] \in moved <=> i \in MovedAt(list, a, c)
    BY <1>7 DEF MovedAt, MovedOf
  <2>2. i \in a .. (c - 1) /\ list[i] \in resumed
    BY <1>7, <2>1 DEF ResumedAt
  <2>3. \A j, m \in DOMAIN list : At(list[m]) <= At(list[j]) <=> m <= j
    <3>1. SUFFICES ASSUME NEW j \in DOMAIN list, NEW m \in DOMAIN list
                   PROVE  At(list[m]) <= At(list[j]) <=> m <= j
      OBVIOUS
    <3>2. /\ At(list[j]) \in Nat /\ At(list[m]) \in Nat /\ m \in Nat /\ j \in Nat
          /\ j < m <=> At(list[j]) < At(list[m])
      BY PlacesInOrder
    <3>3. QED
      BY <3>2
  <2>4. /\ \A j \in DOMAIN list : list[j] \in before(list[i]) <=> j \in aways(i)
        /\ \A r \in before(list[i]) : \E j \in DOMAIN list : list[j] = r
        /\ aways(i) \subseteq DOMAIN list
    BY <1>6, <2>2
  <2>5. list[i] \in moved <=> \E b \in before(list[i]) :
                                 /\ \A d \in before(list[i]) : At(d) <= At(b)
                                 /\ Rec(b).cpu # Rec(list[i]).cpu
    BY <2>2 DEF MovedOf
  <2>6. i \in MovedAt(list, a, c) <=> \E j \in aways(i) : /\ \A m \in aways(i) : m <= j
                                                        /\ Rec(list[j]).cpu # Rec(list[i]).cpu
    BY <2>1 DEF MovedAt, LastAway
  <2> HIDE DEF before, aways
  <2>7. ASSUME NEW j \in aways(i)
        PROVE  (\A m \in aways(i) : m <= j)
               <=> \A d \in before(list[i]) : At(d) <= At(list[j])
    BY <2>3, <2>4
  <2>8. QED
    BY <2>4, <2>5, <2>6, <2>7
<1>9. ResumedAt(list, a, c) \subseteq a .. (c - 1) /\ MovedAt(list, a, c) \subseteq a .. (c - 1)
  BY DEF ResumedAt, MovedAt
<1>10. IsFiniteSet(ResumedAt(list, a, c)) /\ IsFiniteSet(MovedAt(list, a, c))
  <2>1. IsFiniteSet(a .. (c - 1))
    BY <1>2, FS_Interval
  <2>2. QED
    BY <1>9, <2>1, FS_Subset
<1>11. Cardinality(resumed) = Cardinality(ResumedAt(list, a, c))
  <2>1. \A r \in resumed : \E i \in ResumedAt(list, a, c) : list[i] = r
    BY <1>5, <1>7 DEF ResumedOf
  <2>2. \A i \in ResumedAt(list, a, c) : list[i] \in resumed
    BY <1>4, <1>7, <1>9
  <2>3. \A i, j \in ResumedAt(list, a, c) : list[i] = list[j] => i = j
    BY <1>2, <1>4, <1>9
  <2>4. QED
    <3>1. OneToOne(list, ResumedAt(list, a, c), resumed)
      BY <2>1, <2>2, <2>3 DEF OneToOne
    <3>2. QED
      BY <1>10, <3>1, SameSize
<1>12. Cardinality(moved) = Cardinality(MovedAt(list, a, c))
  <2>1. \A r \in moved : \E i \in MovedAt(list, a, c) : list[i] = r
    BY <1>5, <1>8 DEF MovedOf, ResumedOf
  <2>2. \A i \in MovedAt(list, a, c) : list[i] \in moved
    BY <1>4, <1>8, <1>9
  <2>3. \A i, j \in MovedAt(list, a, c) : list[i] = list[j] => i = j
    BY <1>2, <1>4, <1>9
  <2>4. QED
    <3>1. OneToOne(list, MovedAt(list, a, c), moved)
      BY <2>1, <2>2, <2>3 DEF OneToOne
    <3>2. QED
      BY <1>10, <3>1, SameSize
<1>13. QED
  BY <1>11, <1>12 DEF Says

\* Every row is right about the switches of its job.
LEMMA SwitchesAreExact ==
    ASSUME IInv, HeapInv, ListInv, RowInv
    PROVE  SwitchesExact
<1>1. SUFFICES ASSUME NEW n \in DOMAIN rows, Plain(Rec(rows[n].release).pid)
               PROVE  /\ rows[n].preemptions = Cardinality(ResumedOf(rows[n]))
                      /\ rows[n].migrations = Cardinality(MovedOf(rows[n]))
  BY DEF SwitchesExact, LeftBefore, ResumedOf, MovedOf
<1>2. Complete
  BY DEF Complete, RowInv, Progress
<1>3. PICK k \in DOMAIN tasks : \E a, c \in DOMAIN tasks[k].events : PastRow(rows[n], k, a, c)
  BY DEF RowInv, RowsSound
<1> DEFINE list == tasks[k].events
<1>4. PICK a \in DOMAIN list, c \in DOMAIN list : Says(rows[n], list, a, c)
  BY <1>3 DEF PastRow
<1>5. IsList(k, list)
  BY DEF IsList
<1>6. Plain(tasks[k].pid)
  <2>1. list[a] \in EventsOf(tasks[k].pid)
    BY <1>2, <1>5, OwnPlaces
  <2>2. QED
    BY <1>1, <1>4, <2>1 DEF Says, EventsOf
<1>7. QED
  BY <1>2, <1>4, <1>5, <1>6, SwitchesRight

-----------------------------------------------------------------------------
(* What the entry of a task says of it.                                    *)
LEMMA FewInfos ==
    ASSUME Complete, NEW pid, NEW type, Cardinality(Infos(pid, type)) <= 1,
           NEW r \in Infos(pid, type), NEW q \in Infos(pid, type)
    PROVE  r = q
<1>1. IsFiniteSet(Refs)
  <2>1. \A x \in Refs : x \in Before(file)
    BY AllListed DEF Complete, Inserted, Before, IInv, Phases
  <2>2. IsFiniteSet(Before(file)) /\ Before(file) \subseteq Refs
    BY DEF Complete, HeapInv, Before
  <2>3. Refs = Before(file)
    BY <2>1, <2>2
  <2>4. QED
    BY <2>2, <2>3
<1>2. IsFiniteSet(Infos(pid, type))
  BY <1>1, FS_Subset DEF Infos
<1>3. SUFFICES ASSUME r # q PROVE FALSE
  OBVIOUS
<1>4. IsFiniteSet({r}) /\ Cardinality({r}) = 1
  BY FS_Singleton
<1>5. Cardinality({r} \cup {q}) = 2
  BY <1>3, <1>4, FS_AddElement
<1>6. Cardinality({r} \cup {q}) <= Cardinality(Infos(pid, type))
  BY <1>2, FS_Subset
<1>7. Cardinality(Infos(pid, type)) \in Nat
  BY <1>2, FS_CardinalityType
<1>8. QED
  BY <1>5, <1>6, <1>7

LEMMA EntryTells ==
    ASSUME Complete, NEW k \in DOMAIN tasks, Plain(tasks[k].pid), NEW type \in InfoTypes
    PROVE  \/ InfoOf(tasks[k], type) = None /\ Infos(tasks[k].pid, type) = {}
           \/ /\ InfoOf(tasks[k], type) # None
              /\ Infos(tasks[k].pid, type) = {InfoOf(tasks[k], type)}
<1> DEFINE pid == tasks[k].pid
           info == InfoOf(tasks[k], type)
<1>1. Cardinality(Infos(pid, type)) <= 1
  BY DEF Plain, InfoTypes
<1>2. CASE info = None
  <2>1. ASSUME NEW r \in Infos(pid, type) PROVE FALSE
    <3>1. r \in Inserted /\ Rec(r).type = type /\ Rec(r).pid = pid /\ r \notin h \cup h2
      BY AllListed DEF Infos
    <3>2. Fits(Rec(r).pid)
      BY <3>1, OwnPlaces DEF IsList
    <3>3. PICK i \in DOMAIN tasks : tasks[i].pid = pid /\ InfoOf(tasks[i], type) # None
      BY <3>1, <3>2 DEF Complete, ListInv, InfosKept
    <3>4. i = k
      BY <3>3 DEF Complete, IInv, OneEntryPerTask
    <3>5. QED
      BY <1>2, <3>3, <3>4
  <2>2. QED
    BY <1>2, <2>1
<1>3. CASE info # None
  <2>1. info \in Infos(pid, type)
    BY <1>3 DEF Complete, ListInv, InfosOwn
  <2>2. \A r \in Infos(pid, type) : r = info
    BY <1>1, <2>1, FewInfos
  <2>3. QED
    BY <1>3, <2>1, <2>2
<1>4. QED
  BY <1>2, <1>3

\* A period of less than 2^32 ns is compared as it is given.
LEMMA SamePeriod ==
    ASSUME GivenPeriod \in 0 .. (U32 - 1)
    PROVE  period_filter = GivenPeriod
<1>1. U32 \in Nat \ {0}
  BY JobStatsAssumption
<1>2. \A n \in 0 .. (U32 - 1) : n % U32 = n
  BY <1>1
<1>3. QED
  BY <1>2 DEF period_filter

\* So the filters let through the tasks they should.
LEMMA FiltersRight ==
    ASSUME Complete, period_filter = GivenPeriod,
           NEW k \in DOMAIN tasks, Plain(tasks[k].pid)
    PROVE  Wanted(tasks[k]) <=> PassesFilters(tasks[k].pid)
<1> DEFINE pid == tasks[k].pid
           name == tasks[k].name
           param == tasks[k].param
<1>1. \/ name = None /\ Infos(pid, "ST_NAME") = {}
      \/ name # None /\ Infos(pid, "ST_NAME") = {name}
  BY EntryTells DEF InfoTypes, InfoOf
<1>2. \/ param = None /\ Infos(pid, "ST_PARAM") = {}
      \/ param # None /\ Infos(pid, "ST_PARAM") = {param}
  BY EntryTells DEF InfoTypes, InfoOf
<1>3. command.name_filter \in {0, tsk_name(tasks[k])}
      <=> \/ command.name_filter \in {0} \cup {Rec(r).raw0 : r \in Infos(pid, "ST_NAME")}
          \/ command.name_filter = -1 /\ Infos(pid, "ST_NAME") = {}
  <2>1. CASE name = None
    <3>1. Infos(pid, "ST_NAME") = {} /\ tsk_name(tasks[k]) = -1
      BY <1>1, <2>1 DEF tsk_name
    <3>2. QED
      BY <3>1
  <2>2. CASE name # None
    <3>1. Infos(pid, "ST_NAME") = {name} /\ tsk_name(tasks[k]) = Rec(name).raw0
      BY <1>1, <2>2 DEF tsk_name
    <3>2. QED
      BY <3>1
  <2>3. QED
    BY <2>1, <2>2
<1>4. period_filter \in {0, per(tasks[k])}
      <=> GivenPeriod \in {0} \cup {Rec(r).raw0 : r \in Infos(pid, "ST_PARAM")}
  <2>1. CASE param = None
    <3>1. Infos(pid, "ST_PARAM") = {} /\ per(tasks[k]) = 0
      BY <1>2, <2>1 DEF per
    <3>2. QED
      BY <3>1
  <2>2. CASE param # None
    <3>1. Infos(pid, "ST_PARAM") = {param} /\ per(tasks[k]) = Rec(param).raw0
      BY <1>2, <2>2 DEF per
    <3>2. QED
      BY <3>1
  <2>3. QED
    BY <2>1, <2>2
<1>5. QED
  BY <1>3, <1>4 DEF Wanted, PassesFilters

\* And jobs are shown from the first release of the task system on.
LEMMA StartRight ==
    ASSUME Complete
    PROVE  (IF command.wait_for_release THEN sys_release ELSE 0) \in ShownFrom
<1>1. CASE ~command.wait_for_release
  BY <1>1 DEF ShownFrom
<1>2. CASE command.wait_for_release
  <2>1. PICK i \in SysReleases : /\ \A j \in SysReleases : i <= j
                                 /\ sys_release = Rec(sys_events[i]).raw1
    BY <1>2 DEF Complete, ListInv, FromFirst
  <2>2. ASSUME NEW j \in SysReleases PROVE sys_events[j] \in Starts
    <3>1. j \in DOMAIN sys_events /\ sys_events[j] \in Refs
          /\ Rec(sys_events[j]).type = "ST_SYS_RELEASE"
      BY DEF SysReleases, Complete, IInv, TypeInv
    <3>2. ~Fits(Rec(sys_events[j]).pid)
      BY <3>1 DEF Complete, IInv, OwnList
    <3>3. ~Known(Rec(sys_events[j]).pid)
      BY <3>2 DEF Fits, Known, Complete, IInv, OneEntryPerTask
    <3>4. QED
      BY <3>1, <3>3 DEF Starts
  <2>3. ASSUME NEW q \in Starts PROVE \E j \in SysReleases : sys_events[j] = q
    <3>1. Listed(q) /\ Rec(q).type = "ST_SYS_RELEASE" /\ ~Known(Rec(q).pid)
      BY AllListed DEF Starts
    <3>2. PICK k \in 0 .. Len(tasks) : \E j \in DOMAIN ListOf(k) : ListOf(k)[j] = q
      BY <3>1 DEF Listed
    <3>3. k = 0
      <4>1. SUFFICES ASSUME k # 0 PROVE FALSE
        OBVIOUS
      <4>2. k \in DOMAIN tasks /\ ListOf(k) = tasks[k].events
        BY <3>2, <4>1 DEF ListOf, Complete, IInv, TypeInv
      <4>3. QED
        BY <3>1, <3>2, <4>2 DEF Known, Complete, IInv, OwnList
    <3>4. QED
      BY <3>1, <3>2, <3>3 DEF ListOf, SysReleases
  <2>4. ASSUME NEW q \in Starts PROVE At(sys_events[i]) <= At(q)
    <3>1. PICK j \in SysReleases : sys_events[j] = q
      BY <2>3
    <3>2. i <= j /\ i \in Nat /\ j \in Nat /\ i \in DOMAIN sys_events /\ j \in DOMAIN sys_events
      BY <2>1 DEF SysReleases, Complete, IInv, TypeInv
    <3>3. sys_events[i] \in Refs /\ q \in Refs
      BY <2>2 DEF Starts
    <3>4. At(sys_events[i]) \in Nat /\ At(q) \in Nat
      BY <3>3, TimeType DEF At, Complete, IInv, TypeInv
    <3>5. CASE i = j
      BY <3>1, <3>4, <3>5
    <3>6. CASE i < j
      <4>1. InOrder(sys_events)
        <5>1. 0 \in 0 .. Len(tasks)
          BY DEF Complete, IInv, TypeInv
        <5>2. QED
          BY <5>1 DEF ListOf, Complete, IInv, ListsInOrder
      <4>2. ~earlier_event(Rec(q), Rec(sys_events[i]))
        BY <3>1, <3>2, <3>6, <4>1 DEF InOrder
      <4>3. QED
        BY <3>4, <4>2 DEF earlier_event, At
    <3>7. QED
      BY <3>2, <3>5, <3>6
  <2>5. QED
    BY <1>2, <2>1, <2>2, <2>4 DEF ShownFrom
<1>3. QED
  BY <1>1, <1>2

-----------------------------------------------------------------------------
(* The rows of a task, as events.                                          *)

\* A completion is looked at for a release exactly if it may be in its row.
LEMMA MatchesAnswer ==
    ASSUME Complete, NEW k, NEW list, IsList(k, list), Plain(tasks[k].pid),
           NEW a \in DOMAIN list, NEW c \in DOMAIN list
    PROVE  c \in MatchesAt(list, a) <=> list[c] \in Answers(list[a])
<1> DEFINE pid == tasks[k].pid
           before == {d \in CompletionsAt(list, a) : d < c}
           between == CompletionsBetween(pid, At(list[a]), At(list[c]))
<1>1. /\ \A j \in DOMAIN list : list[j] \in EventsOf(pid)
      /\ \A r \in EventsOf(pid) : \E j \in DOMAIN list : list[j] = r
      /\ \A i, j \in DOMAIN list : list[i] = list[j] => i = j
      /\ DOMAIN list = 1 .. Len(list) /\ Len(list) \in Nat
  BY OwnPlaces
<1>2. Rec(list[a]).pid = pid
  BY <1>1 DEF EventsOf
<1>3. \A j \in DOMAIN list : /\ At(list[a]) <= At(list[j]) <=> a <= j
                             /\ At(list[j]) < At(list[c]) <=> j < c
  <2>1. SUFFICES ASSUME NEW j \in DOMAIN list
                 PROVE  /\ At(list[a]) <= At(list[j]) <=> a <= j
                        /\ At(list[j]) < At(list[c]) <=> j < c
    OBVIOUS
  <2>2. /\ At(list[a]) \in Nat /\ At(list[j]) \in Nat /\ a \in Nat /\ j \in Nat
        /\ j < a <=> At(list[j]) < At(list[a])
        /\ j < c <=> At(list[j]) < At(list[c])
    BY PlacesInOrder
  <2>3. QED
    BY <2>2
<1>4. \A j \in DOMAIN list : j \in before <=> list[j] \in between
  <2>1. SUFFICES ASSUME NEW j \in DOMAIN list PROVE j \in before <=> list[j] \in between
    OBVIOUS
  <2>2. j \in a .. Len(list) <=> a <= j
    BY <1>1
  <2>3. QED
    BY <1>1, <1>3, <2>2 DEF CompletionsAt, CompletionsBetween
<1>5. Cardinality(between) = Cardinality(before)
  <2>1. IsFiniteSet(before) /\ before \subseteq DOMAIN list
    <3>1. IsFiniteSet(1 .. Len(list)) /\ before \subseteq 1 .. Len(list)
      BY <1>1, IntervalSize DEF CompletionsAt
    <3>2. QED
      BY <1>1, <3>1, FS_Subset
  <2>2. \A r \in between : \E j \in DOMAIN list : list[j] = r
    BY <1>1 DEF CompletionsBetween
  <2> HIDE DEF before, between
  <2>3. OneToOne(list, before, between)
    BY <1>1, <1>4, <2>1, <2>2 DEF OneToOne
  <2>4. QED
    BY <2>1, <2>3, SameSize
<1>6. c \in CompletionsAt(list, a) <=> Rec(list[c]).type = "ST_COMPLETION" /\ a <= c
  BY <1>1 DEF CompletionsAt
<1>7. c \in MatchesAt(list, a) <=>
         /\ Rec(list[c]).type = "ST_COMPLETION" /\ a <= c
         /\ Cardinality(before) < MAX_COMPLETIONS_TO_CHECK
         /\ Rec(list[c]).job = Rec(list[a]).job
  BY <1>6 DEF MatchesAt
<1>8. list[c] \in Answers(list[a]) <=>
         /\ Rec(list[c]).type = "ST_COMPLETION" /\ At(list[a]) <= At(list[c])
         /\ Cardinality(between) < MAX_COMPLETIONS_TO_CHECK
         /\ Rec(list[c]).job = Rec(list[a]).job
  BY <1>1, <1>2 DEF Answers
<1> HIDE DEF before, between
<1>9. QED
  BY <1>3, <1>5, <1>7, <1>8

LEMMA ShownAnswers ==
    ASSUME Complete, NEW k, NEW list, IsList(k, list), Plain(tasks[k].pid),
           NEW a \in DOMAIN list, NEW c \in DOMAIN list
    PROVE  c \in MatchesAt(list, a) /\ (\A d \in MatchesAt(list, a) : c <= d)
           <=> AnsweredBy(list[a], list[c])
<1>1. \A j \in DOMAIN list : j \in MatchesAt(list, a) <=> list[j] \in Answers(list[a])
  BY MatchesAnswer
<1>2. /\ MatchesAt(list, a) \subseteq DOMAIN list
      /\ \A r \in Answers(list[a]) : \E j \in DOMAIN list : list[j] = r
  <2>1. /\ DOMAIN list = 1 .. Len(list) /\ Len(list) \in Nat
        /\ \A r \in EventsOf(tasks[k].pid) : \E j \in DOMAIN list : list[j] = r
        /\ list[a] \in EventsOf(tasks[k].pid)
    BY OwnPlaces
  <2>2. QED
    BY <2>1 DEF MatchesAt, CompletionsAt, Answers, EventsOf
<1>3. \A j \in DOMAIN list : c <= j <=> At(list[c]) <= At(list[j])
  <2>1. SUFFICES ASSUME NEW j \in DOMAIN list PROVE c <= j <=> At(list[c]) <= At(list[j])
    OBVIOUS
  <2>2. /\ At(list[c]) \in Nat /\ At(list[j]) \in Nat /\ c \in Nat /\ j \in Nat
        /\ j < c <=> At(list[j]) < At(list[c])
    BY PlacesInOrder
  <2>3. QED
    BY <2>2
<1>4. (\A d \in MatchesAt(list, a) : c <= d)
      <=> \A r \in Answers(list[a]) : At(list[c]) <= At(r)
  BY <1>1, <1>2, <1>3
<1>5. QED
  BY <1>1, <1>4 DEF AnsweredBy

\* What is expected of a task is what its list shows.
LEMMA ExpectedIs ==
    ASSUME Complete, period_filter = GivenPeriod,
           NEW k, NEW list, IsList(k, list), Plain(tasks[k].pid),
           NEW from, from = (IF command.wait_for_release THEN sys_release ELSE 0),
           NEW a \in DOMAIN list, NEW c \in DOMAIN list
    PROVE  <<list[a], list[c]>> \in ExpectedRows(tasks[k].pid, from)
           <=> Wanted(tasks[k]) /\ Shown(list, a, c)
<1>1. k \in DOMAIN tasks /\ list[a] \in EventsOf(tasks[k].pid) /\ list[c] \in EventsOf(tasks[k].pid)
  BY OwnPlaces DEF IsList
<1>2. Wanted(tasks[k]) <=> PassesFilters(tasks[k].pid)
  BY <1>1, FiltersRight
<1>3. ASSUME Rec(list[a]).type = "ST_RELEASE"
      PROVE  At(list[a]) >= from
             <=> (command.wait_for_release => Rec(list[a]).raw0 >= sys_release)
  <2>1. At(list[a]) = Rec(list[a]).raw0
    BY <1>3 DEF At, event_time, Timed
  <2>2. At(list[a]) \in Nat
    BY PlacesInOrder
  <2>3. QED
    BY <2>1, <2>2
<1>4. c \in MatchesAt(list, a) /\ (\A d \in MatchesAt(list, a) : c <= d)
      <=> AnsweredBy(list[a], list[c])
  BY ShownAnswers
<1>5. <<list[a], list[c]>> \in ExpectedRows(tasks[k].pid, from) <=>
        /\ PassesFilters(tasks[k].pid) /\ Rec(list[a]).type = "ST_RELEASE"
        /\ At(list[a]) >= from /\ AnsweredBy(list[a], list[c])
  BY <1>1 DEF ExpectedRows
<1>6. QED
  BY <1>2, <1>3, <1>4, <1>5 DEF Shown

\* Its rows are these, each once.
LEMMA TaskRows ==
    ASSUME Complete, RowInv, pc = "done", period_filter = GivenPeriod,
           NEW k \in DOMAIN tasks, Plain(tasks[k].pid),
           NEW from, from = (IF command.wait_for_release THEN sys_release ELSE 0),
           NEW its, its = {n \in DOMAIN rows : Rec(rows[n].release).pid = tasks[k].pid}
    PROVE  /\ {<<rows[n].release, rows[n].completion>> : n \in its}
                = ExpectedRows(tasks[k].pid, from)
           /\ Cardinality(its) = Cardinality(ExpectedRows(tasks[k].pid, from))
<1> DEFINE pid == tasks[k].pid
           list == tasks[k].events
           expected == ExpectedRows(pid, from)
           pair(n) == <<rows[n].release, rows[n].completion>>
<1>1. IsList(k, list)
  BY DEF IsList
<1>2. /\ \A j \in DOMAIN list : list[j] \in EventsOf(pid)
      /\ \A r \in EventsOf(pid) : \E j \in DOMAIN list : list[j] = r
  BY <1>1, OwnPlaces
<1>3. ASSUME NEW n \in its PROVE pair(n) \in expected
  <2>1. PICK m \in DOMAIN tasks : \E a, c \in DOMAIN tasks[m].events : PastRow(rows[n], m, a, c)
    BY DEF RowInv, RowsSound
  <2>2. PICK a \in DOMAIN tasks[m].events, c \in DOMAIN tasks[m].events :
               /\ Wanted(tasks[m]) /\ Shown(tasks[m].events, a, c)
               /\ rows[n].release = tasks[m].events[a]
               /\ rows[n].completion = tasks[m].events[c]
    BY <2>1 DEF PastRow, Says
  <2>3. m = k
    <3>1. Rec(tasks[m].events[a]).pid = tasks[m].pid
      BY <2>2 DEF Complete, IInv, OwnList
    <3>2. tasks[m].pid = tasks[k].pid
      BY <2>2, <3>1
    <3>3. QED
      BY <3>2 DEF Complete, IInv, OneEntryPerTask
  <2>4. QED
    BY <1>1, <2>2, <2>3, ExpectedIs
<1>4. ASSUME NEW p \in expected PROVE \E n \in its : pair(n) = p
  <2>1. p = <<p[1], p[2]>> /\ p[1] \in EventsOf(pid) /\ p[2] \in EventsOf(pid)
    BY DEF ExpectedRows
  <2>2. PICK a \in DOMAIN list, c \in DOMAIN list : list[a] = p[1] /\ list[c] = p[2]
    BY <1>2, <2>1
  <2>3. Wanted(tasks[k]) /\ Shown(list, a, c)
    BY <1>1, <2>1, <2>2, ExpectedIs
  <2>4. Past(k, a)
    BY EntryList DEF Past, RowInv, Progress, Complete, IInv, TypeInv
  <2>5. PICK n \in DOMAIN rows : rows[n].release = list[a] /\ rows[n].completion = list[c]
    BY <2>3, <2>4 DEF RowInv, RowsComplete
  <2>6. n \in its
    BY <2>1, <2>2, <2>5 DEF EventsOf
  <2>7. QED
    BY <2>1, <2>2, <2>5, <2>6
<1>5. {<<rows[n].release, rows[n].completion>> : n \in its} = expected
  BY <1>3, <1>4
<1>6. Cardinality(its) = Cardinality(expected)
  <2> DEFINE f == [n \in its |-> pair(n)]
  <2>1. IsFiniteSet(its)
    <3>1. PICK S : rows \in Seq(S)
      BY DEF Complete, IInv, TypeInv
    <3>2. DOMAIN rows = 1 .. Len(rows) /\ Len(rows) \in Nat
      BY <3>1
    <3>3. IsFiniteSet(1 .. Len(rows)) /\ its \subseteq 1 .. Len(rows)
      BY <3>2, IntervalSize
    <3>4. QED
      BY <3>3, FS_Subset
  <2>2. \A n, m \in its : pair(n) = pair(m) => n = m
    BY DEF RowInv, RowsOnce
  <2>3. \A n \in its : f[n] = pair(n)
    OBVIOUS
  <2> HIDE DEF f, expected, pair
  <2>4. OneToOne(f, its, expected)
    BY <1>3, <1>4, <2>2, <2>3 DEF OneToOne
  <2>5. QED
    BY <2>1, <2>4, SameSize
<1>7. QED
  BY <1>5, <1>6

LEMMA RowsAreExact ==
    ASSUME IInv, HeapInv, ListInv, RowInv
    PROVE  RowsExact
<1>1. SUFFICES ASSUME pc = "done", GivenPeriod \in 0 .. (U32 - 1) PROVE RowsExact
  BY DEF RowsExact
<1>2. Complete /\ period_filter = GivenPeriod
  BY <1>1, SamePeriod DEF Complete
<1> DEFINE from == IF command.wait_for_release THEN sys_release ELSE 0
<1>3. from \in ShownFrom
  BY <1>2, StartRight
<1> HIDE DEF from
<1>4. ASSUME NEW pid \in PlainTasks
      PROVE  LET its == {i \in DOMAIN rows : Rec(rows[i].release).pid = pid}
             IN  /\ {<<rows[i].release, rows[i].completion>> : i \in its}
                      = ExpectedRows(pid, from)
                 /\ Cardinality(its) = Cardinality(ExpectedRows(pid, from))
  <2>1. PICK k \in DOMAIN tasks : pid = tasks[k].pid /\ Plain(tasks[k].pid)
    BY DEF PlainTasks
  <2>2. QED
    BY <1>1, <1>2, <2>1, TaskRows, ZenonT(60) DEF from
<1>5. QED
  BY <1>3, <1>4 DEF RowsExact

-----------------------------------------------------------------------------
\* Whatever the files hold, every row is right about how often its job was preempted
\* and how often it moved to another CPU, whatever other jobs of its task did in
\* between (src/job_stats.c:30-48).
THEOREM SwitchesTheorem == JobStatsSpec => []SwitchesExact
  BY StatsInvariant, RowsInvariant, SwitchesAreExact, PTL

\* In the end there is one row for every job of a task with an entry that the filters
\* let through, if its completion is near enough, and no other row, provided that the
\* period asked for fits into 32 bits (src/job_stats.c:227-257, src/load.c:120-146).
THEOREM RowsTheorem == JobStatsSpec => []RowsExact
  BY StatsInvariant, RowsInvariant, RowsAreExact, PTL
=============================================================================
