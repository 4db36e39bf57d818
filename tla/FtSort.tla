------------------------------- MODULE FtSort -------------------------------
(***************************************************************************)
(* ftsort (src/ftsort.c): one process that maps a trace file read-write    *)
(* and shared, marks the timestamps that cannot be right, moves records    *)
(* until their sequence numbers line up, and marks implausible latencies.  *)
(*                                                                         *)
(* mem is the mapped file: every store into it is at once a store into the *)
(* file, so a process killed between two stores leaves what it had done,   *)
(* and a later run starts from there.  recorded is the file as the tracer  *)
(* wrote it.  A record carries, beside the fields of struct timestamp that *)
(* ftsort reads, the position at which it was recorded (id), by which the  *)
(* properties recognise it; no action reads it.                            *)
(***************************************************************************)
EXTENDS Timestamp, SeqNo, Sequences, FiniteSets

CONSTANTS
    Inputs,          \* the files the tracer may have written
    MAX_CPUS,        \* slots of the per-CPU tables (UINT8_MAX)
    MaxNrNotInRange, \* MAX_NR_NOT_IN_RANGE
    Cycles,          \* -c: cycles per nanosecond; 0 when the option is absent
    MaxRuns,         \* bound: how often ftsort is run on the file
    MaxKills         \* bound: how often a run is killed

Record == [id : Nat \ {0}, timestamp : Nat, pid : Nat, seq_no : SeqNumbers,
           cpu : Nat, event : Nat]

ASSUME FtSortAssumption ==
    /\ \A s \in Inputs : s \in Seq(Record) /\ \A i \in DOMAIN s : s[i].id = i
    /\ MAX_CPUS \in Nat /\ MaxNrNotInRange \in Nat /\ Cycles \in Nat
    /\ MaxRuns \in Nat /\ MaxKills \in Nat

VARIABLES
    recorded,        \* the file as the tracer wrote it
    count,           \* number of records
    mem,             \* the mapped file
    pc,              \* the loop or statement the process is at
    pos,             \* the cursor of the outer loop of the current pass
    scan,            \* the cursor of the inner loop
    min,             \* find_lowest_seq_no: the candidate, 0 for NULL
    nr_not_in_range, \* find_lowest_seq_no: records passed over
    tmp,             \* move_record: the copy a swap holds
    last_seqno,      \* reorder: sequence number before pos
    prev_on, pos_on, \* pre-check: the last two positions kept per CPU, or 0
    last_preemptable,\* filter: last SCHED_START per CPU, NoTime if not valid
    stats,           \* what the run reports at its end
    runs, kills

file    == <<recorded, count, mem>>
finder  == <<min, nr_not_in_range>>
tables  == <<prev_on, pos_on, last_preemptable>>
history == <<runs, kills>>
vars    == <<file, pc, pos, scan, finder, tmp, last_seqno, tables, stats, history>>

Cpus   == 0 .. (MAX_CPUS - 1)
NoTime == -1
NoStats == [holes |-> 0, reordered |-> 0, aborted_moves |-> 0,
            non_monotonic |-> 0, implausible |-> 0]
NoRecord == [id |-> 0]

Running == {"precheck", "reorder", "find", "check", "shift", "store", "lineup",
            "filter", "bound"}
Stopped == {"idle", "done", "killed"}

Bump(field)  == stats' = [stats EXCEPT ![field] = @ + 1]
MarkAsBad(i) == mem' = [mem EXCEPT ![i].event = UINT8_MAX]

Init ==
    /\ recorded \in Inputs /\ count = Len(recorded) /\ mem = recorded
    /\ pc = "idle" /\ pos = 1 /\ scan = 1 /\ min = 0 /\ nr_not_in_range = 0
    /\ tmp = NoRecord /\ last_seqno = 0
    /\ prev_on = [c \in Cpus |-> 0] /\ pos_on = [c \in Cpus |-> 0]
    /\ last_preemptable = [c \in Cpus |-> NoTime]
    /\ stats = NoStats /\ runs = 0 /\ kills = 0

-----------------------------------------------------------------------------
(* Start: the file is mapped and the pre-check begins with empty tables.   *)

Start ==
    /\ pc \in Stopped /\ runs < MaxRuns
    /\ runs' = runs + 1 /\ stats' = NoStats
    /\ pc' = "precheck" /\ pos' = 1
    /\ prev_on' = [c \in Cpus |-> 0] /\ pos_on' = [c \in Cpus |-> 0]
    /\ UNCHANGED <<file, scan, finder, tmp, last_seqno, last_preemptable, kills>>

-----------------------------------------------------------------------------
(* pre_check_cpu_monotonicity: one action per record.                      *)

Checked(r) == r.event < SINGLE_RECORDS_RANGE /\ r.event # TS_SEND_RESCHED_START

Spike(a, b, c) == a < b /\ b >= c /\ a < c

\* Mutant: a gap of equal timestamps is missed.
GapStrict(a, b, c) == a > b /\ b < c /\ a < c

Gap(a, b, c)   == a >= b /\ b < c /\ a < c

\* The record before this one on its CPU is an outlier between its neighbours.
Outlier(next) ==
    LET cpu == mem[next].cpu
        a   == mem[prev_on[cpu]].timestamp
        b   == mem[pos_on[cpu]].timestamp
        c   == mem[next].timestamp
    IN  /\ prev_on[cpu] # 0 /\ pos_on[cpu] # 0
        /\ Spike(a, b, c) \/ Gap(a, b, c)

PreCheckSkip ==
    /\ pc = "precheck" /\ pos <= count /\ ~Checked(mem[pos])
    /\ pos' = pos + 1
    /\ UNCHANGED <<file, pc, scan, finder, tmp, last_seqno, tables, stats, history>>

PreCheckOutlier ==
    /\ pc = "precheck" /\ pos <= count /\ Checked(mem[pos])
    /\ mem[pos].cpu \in Cpus /\ Outlier(pos)
    /\ MarkAsBad(pos_on[mem[pos].cpu]) /\ Bump("non_monotonic")
    /\ pos_on' = [pos_on EXCEPT ![mem[pos].cpu] = pos]
    /\ pos' = pos + 1
    /\ UNCHANGED <<recorded, count, pc, scan, finder, tmp, last_seqno, prev_on,
                   last_preemptable, history>>

PreCheckKeep ==
    /\ pc = "precheck" /\ pos <= count /\ Checked(mem[pos])
    /\ mem[pos].cpu \in Cpus /\ ~Outlier(pos)
    /\ prev_on' = [prev_on EXCEPT ![mem[pos].cpu] = pos_on[mem[pos].cpu]]
    /\ pos_on' = [pos_on EXCEPT ![mem[pos].cpu] = pos]
    /\ pos' = pos + 1
    /\ UNCHANGED <<file, pc, scan, finder, tmp, last_seqno, last_preemptable,
                   stats, history>>

PreCheckDone ==
    /\ pc = "precheck" /\ pos > count
    /\ pc' = "reorder" /\ pos' = 1 /\ last_seqno' = 0
    /\ UNCHANGED <<file, scan, finder, tmp, tables, stats, history>>

\* A CPU number without a slot: the tables are accessed out of bounds, and
\* nothing is promised of what follows.
Overrun ==
    /\ \/ pc = "precheck" /\ pos <= count /\ Checked(mem[pos])
       \/ pc = "filter" /\ pos < count
          /\ mem[pos].event \in {TS_SCHED_START, TS_RELEASE_LATENCY}
          /\ mem[pos + 1].seq_no = next_seq_number(mem[pos].seq_no)
    /\ mem[pos].cpu \notin Cpus
    /\ pc' = "undefined"
    /\ UNCHANGED <<file, pos, scan, finder, tmp, last_seqno, tables, stats, history>>

PreCheck == PreCheckSkip \/ PreCheckOutlier \/ PreCheckKeep \/ PreCheckDone

-----------------------------------------------------------------------------
(* reorder: one action for a record that is where it belongs, otherwise    *)
(* the search for the lowest number, the move, and the line-up.            *)

Expected == next_seq_number(last_seqno)

\* Mutant: the window is one record too short.
WindowEndShort == IF count >= pos + LookAhead - 1 THEN pos + LookAhead - 2 ELSE count

\* The last position that find_lowest_seq_no and find_forward_by_seq_no look at.
WindowEnd == IF count >= pos + LookAhead THEN pos + LookAhead - 1 ELSE count

ReorderInPlace ==
    /\ pc = "reorder" /\ pos <= count
    /\ pos = 1 \/ mem[pos].seq_no = Expected
    /\ last_seqno' = mem[pos].seq_no /\ pos' = pos + 1
    /\ UNCHANGED <<file, pc, scan, finder, tmp, tables, stats, history>>

ReorderSearch ==
    /\ pc = "reorder" /\ pos <= count
    /\ pos # 1 /\ mem[pos].seq_no # Expected
    /\ pc' = "find" /\ scan' = pos /\ min' = 0 /\ nr_not_in_range' = 0
    /\ UNCHANGED <<file, pos, tmp, last_seqno, tables, stats, history>>

\* The search goes on: records are left and the exact number is not found.
Searching == scan <= WindowEnd /\ ~(min # 0 /\ mem[min].seq_no = Expected)

FindCandidate ==
    /\ pc = "find" /\ Searching /\ in_range(Expected, mem[scan].seq_no)
    /\ min' = IF min = 0 \/ is_lower_seqno(mem[scan].seq_no, mem[min].seq_no)
              THEN scan ELSE min
    /\ scan' = scan + 1
    /\ UNCHANGED <<file, pc, pos, nr_not_in_range, tmp, last_seqno, tables, stats, history>>

\* Mutant: one record out of range too many is tolerated.
FindNotInRangeOneMore ==
    /\ pc = "find" /\ Searching /\ ~in_range(Expected, mem[scan].seq_no)
    /\ nr_not_in_range <= MaxNrNotInRange
    /\ nr_not_in_range' = nr_not_in_range + 1 /\ scan' = scan + 1
    /\ UNCHANGED <<file, pc, pos, min, tmp, last_seqno, tables, stats, history>>

FindNotInRange ==
    /\ pc = "find" /\ Searching /\ ~in_range(Expected, mem[scan].seq_no)
    /\ nr_not_in_range < MaxNrNotInRange
    /\ nr_not_in_range' = nr_not_in_range + 1 /\ scan' = scan + 1
    /\ UNCHANGED <<file, pc, pos, min, tmp, last_seqno, tables, stats, history>>

\* One record too many out of range: NULL, whatever the candidate was.
FindGiveUp ==
    /\ pc = "find" /\ Searching /\ ~in_range(Expected, mem[scan].seq_no)
    /\ nr_not_in_range >= MaxNrNotInRange
    /\ pc' = "lineup" /\ min' = 0
    /\ UNCHANGED <<file, pos, scan, nr_not_in_range, tmp, last_seqno, tables, stats, history>>

FindDone ==
    /\ pc = "find" /\ ~Searching
    /\ pc' = IF min \in {0, pos} THEN "lineup" ELSE "check"
    /\ scan' = pos
    /\ UNCHANGED <<file, pos, finder, tmp, last_seqno, tables, stats, history>>

\* a and b may not change places: same CPU or same task, and neither is a
\* SEND_RESCHED_START, which is recorded on another CPU.
Constrained(a, b) ==
    /\ a.event # TS_SEND_RESCHED_START /\ b.event # TS_SEND_RESCHED_START
    /\ a.cpu = b.cpu \/ (a.pid = b.pid /\ b.pid # 0)

MoveRefused ==
    /\ pc = "check" /\ scan < min /\ Constrained(mem[scan], mem[min])
    /\ Bump("aborted_moves") /\ pc' = "lineup"
    /\ UNCHANGED <<file, pos, scan, finder, tmp, last_seqno, tables, history>>

\* Mutant: the loop over the records to be passed does not advance.
MovePassesStuck ==
    /\ pc = "check" /\ scan < min /\ ~Constrained(mem[scan], mem[min])
    /\ UNCHANGED vars

MovePasses ==
    /\ pc = "check" /\ scan < min /\ ~Constrained(mem[scan], mem[min])
    /\ scan' = scan + 1
    /\ UNCHANGED <<file, pc, pos, finder, tmp, last_seqno, tables, stats, history>>

\* Mutant: the last record to be passed is not checked.
MoveBeginsEarly ==
    /\ pc = "check" /\ scan >= min - 1
    /\ pc' = "shift" /\ scan' = min
    /\ UNCHANGED <<file, pos, finder, tmp, last_seqno, tables, stats, history>>

MoveBegins ==
    /\ pc = "check" /\ scan = min
    /\ pc' = "shift"
    /\ UNCHANGED <<file, pos, scan, finder, tmp, last_seqno, tables, stats, history>>

\* Mutant: the move goes one place too far.
SwapFirstTooFar ==
    /\ pc = "shift" /\ scan >= pos
    /\ tmp' = mem[scan] /\ mem' = [mem EXCEPT ![scan] = mem[scan - 1]]
    /\ pc' = "store"
    /\ UNCHANGED <<recorded, count, pos, scan, finder, last_seqno, tables, stats, history>>

\* A swap is two stores; between them the moved record is only in tmp.
SwapFirst ==
    /\ pc = "shift" /\ scan > pos
    /\ tmp' = mem[scan] /\ mem' = [mem EXCEPT ![scan] = mem[scan - 1]]
    /\ pc' = "store"
    /\ UNCHANGED <<recorded, count, pos, scan, finder, last_seqno, tables, stats, history>>

\* Mutant: the swap stores the wrong record back.
SwapSecondWrong ==
    /\ pc = "store"
    /\ mem' = [mem EXCEPT ![scan - 1] = mem[scan]]
    /\ scan' = scan - 1 /\ pc' = "shift"
    /\ UNCHANGED <<recorded, count, pos, finder, tmp, last_seqno, tables, stats, history>>

SwapSecond ==
    /\ pc = "store"
    /\ mem' = [mem EXCEPT ![scan - 1] = tmp]
    /\ scan' = scan - 1 /\ pc' = "shift"
    /\ UNCHANGED <<recorded, count, pos, finder, tmp, last_seqno, tables, stats, history>>

MoveDone ==
    /\ pc = "shift" /\ scan = pos
    /\ Bump("reordered") /\ pc' = "lineup"
    /\ UNCHANGED <<file, pos, scan, finder, tmp, last_seqno, tables, history>>

\* Mutant: a hole is counted although the record was found.
LineUpAlwaysHole ==
    /\ pc = "lineup" /\ Bump("holes")
    /\ last_seqno' = mem[pos].seq_no /\ pos' = pos + 1 /\ pc' = "reorder"
    /\ UNCHANGED <<file, scan, finder, tmp, tables, history>>

LineUp ==
    /\ pc = "lineup"
    /\ IF mem[pos].seq_no # Expected THEN Bump("holes") ELSE UNCHANGED stats
    /\ last_seqno' = mem[pos].seq_no /\ pos' = pos + 1 /\ pc' = "reorder"
    /\ UNCHANGED <<file, scan, finder, tmp, tables, history>>

ReorderDone ==
    /\ pc = "reorder" /\ pos > count
    /\ pc' = IF Cycles > 0 THEN "filter" ELSE "done"
    /\ pos' = 1 /\ last_preemptable' = [c \in Cpus |-> NoTime]
    /\ UNCHANGED <<file, scan, finder, tmp, last_seqno, prev_on, pos_on, stats, history>>

Find    == FindCandidate \/ FindNotInRange \/ FindGiveUp \/ FindDone
Move    == MoveRefused \/ MovePasses \/ MoveBegins \/ SwapFirst \/ SwapSecond \/ MoveDone
Reorder == ReorderInPlace \/ ReorderSearch \/ Find \/ Move \/ LineUp \/ ReorderDone

-----------------------------------------------------------------------------
(* filter_implausible_latencies                                            *)

\* No record is missing between position i and the one before it.
FollowsOn(i) == next_seq_number(mem[i - 1].seq_no) = mem[i].seq_no

\* Mutant: what is known from before a hole is kept.
FilterHoleKeeps ==
    /\ pc = "filter" /\ pos < count /\ ~FollowsOn(pos + 1)
    /\ pos' = pos + 1
    /\ UNCHANGED <<file, pc, scan, finder, tmp, last_seqno, tables, stats, history>>

FilterHole ==
    /\ pc = "filter" /\ pos < count /\ ~FollowsOn(pos + 1)
    /\ last_preemptable' = [c \in Cpus |-> NoTime] /\ pos' = pos + 1
    /\ UNCHANGED <<file, pc, scan, finder, tmp, last_seqno, prev_on, pos_on, stats, history>>

FilterSchedStart ==
    /\ pc = "filter" /\ pos < count /\ FollowsOn(pos + 1)
    /\ mem[pos].event = TS_SCHED_START /\ mem[pos].cpu \in Cpus
    /\ last_preemptable' = [last_preemptable EXCEPT ![mem[pos].cpu] = mem[pos].timestamp]
    /\ pos' = pos + 1
    /\ UNCHANGED <<file, pc, scan, finder, tmp, last_seqno, prev_on, pos_on, stats, history>>

\* A latency with a lower bound: look for the upper bound from the next record.
FilterLatency ==
    /\ pc = "filter" /\ pos < count /\ FollowsOn(pos + 1)
    /\ mem[pos].event = TS_RELEASE_LATENCY /\ mem[pos].cpu \in Cpus
    /\ last_preemptable[mem[pos].cpu] # NoTime
    /\ pc' = "bound" /\ scan' = pos + 1
    /\ UNCHANGED <<file, pos, finder, tmp, last_seqno, tables, stats, history>>

FilterOther ==
    /\ pc = "filter" /\ pos < count /\ FollowsOn(pos + 1)
    /\ \/ mem[pos].event \notin {TS_SCHED_START, TS_RELEASE_LATENCY}
       \/ /\ mem[pos].event = TS_RELEASE_LATENCY /\ mem[pos].cpu \in Cpus
          /\ last_preemptable[mem[pos].cpu] = NoTime
    /\ pos' = pos + 1
    /\ UNCHANGED <<file, pc, scan, finder, tmp, last_seqno, tables, stats, history>>

\* find_np_upper_bound: the next scheduler or release record of the same CPU.
IsNpBound(i) ==
    mem[i].cpu = mem[pos].cpu /\ mem[i].event \in {TS_RELEASE_START, TS_SCHED_START}

NoHoleYet == scan <= count /\ FollowsOn(scan)

BoundNext ==
    /\ pc = "bound" /\ NoHoleYet /\ ~IsNpBound(scan)
    /\ scan' = scan + 1
    /\ UNCHANGED <<file, pc, pos, finder, tmp, last_seqno, tables, stats, history>>

BoundNone ==
    /\ pc = "bound" /\ ~NoHoleYet
    /\ pc' = "filter" /\ pos' = pos + 1
    /\ UNCHANGED <<file, scan, finder, tmp, last_seqno, tables, stats, history>>

\* The latency exceeds the time for which the CPU can have been non-preemptable.
Implausible(bound) ==
    LET delta == mem[bound].timestamp - last_preemptable[mem[pos].cpu]
    IN  delta > 0 /\ delta < mem[pos].timestamp * Cycles

BoundFound ==
    /\ pc = "bound" /\ NoHoleYet /\ IsNpBound(scan)
    /\ IF Implausible(scan)
       THEN MarkAsBad(pos) /\ Bump("implausible")
       ELSE UNCHANGED <<mem, stats>>
    /\ pc' = "filter" /\ pos' = pos + 1
    /\ UNCHANGED <<recorded, count, scan, finder, tmp, last_seqno, tables, history>>

FilterDone ==
    /\ pc = "filter" /\ pos >= count
    /\ pc' = "done"
    /\ UNCHANGED <<file, pos, scan, finder, tmp, last_seqno, tables, stats, history>>

Filter == \/ FilterHole \/ FilterSchedStart \/ FilterLatency \/ FilterOther
          \/ BoundNext \/ BoundNone \/ BoundFound \/ FilterDone

-----------------------------------------------------------------------------
\* The process is killed, before any statement.
Kill ==
    /\ pc \in Running /\ kills < MaxKills
    /\ kills' = kills + 1 /\ pc' = "killed"
    /\ UNCHANGED <<file, pos, scan, finder, tmp, last_seqno, tables, stats, runs>>

Step == PreCheck \/ Reorder \/ Filter \/ Overrun
Next == Start \/ Step \/ Kill

Spec     == Init /\ [][Next]_vars
FairSpec == Spec /\ WF_vars(Step)

-----------------------------------------------------------------------------
(* Properties                                                              *)

\* Every variable holds what its C declaration allows.
TypeOK ==
    /\ count \in Nat
    /\ recorded \in [1 .. count -> Record] /\ mem \in [1 .. count -> Record]
    /\ pc \in Running \cup Stopped \cup {"undefined"}
    /\ pos \in 1 .. (count + 1) /\ scan \in 1 .. (count + 1)
    /\ min \in 0 .. count /\ nr_not_in_range \in 0 .. MaxNrNotInRange
    /\ tmp \in Record \cup {NoRecord} /\ last_seqno \in SeqNumbers
    /\ prev_on \in [Cpus -> 0 .. count] /\ pos_on \in [Cpus -> 0 .. count]
    /\ last_preemptable \in [Cpus -> Nat \cup {NoTime}]
    /\ stats \in [{"holes", "reordered", "aborted_moves", "non_monotonic",
                   "implausible"} -> Nat]
    /\ runs \in 0 .. MaxRuns /\ kills \in 0 .. MaxKills

(***************************************************************************)
(* No record ever gets ahead of an earlier record of the same CPU or task  *)
(* (move_record, "Refuse to violate task and CPU sequentiality"), not even *)
(* in the middle of a move, after a kill or in a later run.                *)
(***************************************************************************)
SequentialityKept ==
    \A i, j \in 1 .. count :
        i < j /\ Constrained(mem[i], mem[j]) => mem[i].id <= mem[j].id

(***************************************************************************)
(* The file holds what was recorded: no field but the event changes, the   *)
(* event only to UINT8_MAX, and a record is lost only to a kill that fell  *)
(* between the two stores of a swap, one record per such kill.             *)
(***************************************************************************)
Lost == (1 .. count) \ {mem[i].id : i \in 1 .. count}

FileIsRecording ==
    /\ \A i \in 1 .. count :
         LET original == recorded[mem[i].id]
         IN  mem[i] \in {original, [original EXCEPT !.event = UINT8_MAX]}
    /\ Cardinality(Lost) <= kills + (IF pc = "store" THEN 1 ELSE 0)

(***************************************************************************)
(* What the pre-check of a fresh file marks: exactly the records that lie  *)
(* outside of the interval between the last unmarked record before them on *)
(* their CPU and the next one after them, where that interval is not empty.*)
(***************************************************************************)
Marked(i) == mem[i].event = UINT8_MAX /\ recorded[i].event # UINT8_MAX

IsOutlier(b) ==
    LET sameCpu == {i \in 1 .. count : Checked(recorded[i]) /\ recorded[i].cpu = recorded[b].cpu}
    IN  \E a, c \in sameCpu :
          /\ a < b /\ b < c
          /\ ~Marked(a) /\ \A i \in sameCpu : a < i /\ i < b => Marked(i)
          /\ ~\E i \in sameCpu : b < i /\ i < c
          /\ recorded[a].timestamp < recorded[c].timestamp
          /\ ~(recorded[a].timestamp < recorded[b].timestamp
               /\ recorded[b].timestamp < recorded[c].timestamp)

PreCheckExact ==
    pc = "reorder" /\ pos = 1 /\ runs = 1 =>
        \A b \in 1 .. count : Marked(b) <=> Checked(recorded[b]) /\ IsOutlier(b)

(***************************************************************************)
(* find_lowest_seq_no returns, of the records within the look-ahead window,*)
(* one whose number comes first after the last one written, whether or not *)
(* the 32-bit counter or its sign changes in between.                      *)
(***************************************************************************)
ClosestChosen ==
    pc \in {"check", "shift"} =>
        /\ min \in pos .. WindowEnd
        /\ pc = "check" /\ scan = pos =>
             \A i \in pos .. WindowEnd :
                 in_range(Expected, mem[i].seq_no) =>
                     Dist(Expected, mem[min].seq_no) <= Dist(Expected, mem[i].seq_no)

(***************************************************************************)
(* The number of holes reported is the number of places in the finished    *)
(* part of the file where the sequence numbers do not follow on: what is   *)
(* counted when a record is passed is still true when the file is done.    *)
(***************************************************************************)
HolesBefore(n) == Cardinality({i \in 2 .. n : ~FollowsOn(i)})

HolesCounted ==
    /\ pc = "reorder" => stats.holes = HolesBefore(pos - 1)
    /\ pc \in {"filter", "bound", "done"} => stats.holes = HolesBefore(count)

(***************************************************************************)
(* A pass of reorder never touches a record that its cursor has passed.    *)
(***************************************************************************)
PrefixFrozen ==
    [][\A i \in 1 .. count :
         i < pos /\ pc \in {"reorder", "find", "check", "shift", "store", "lineup"} =>
             mem'[i] = mem[i]]_vars

(***************************************************************************)
(* ftsort sorts what it can be expected to sort: a file whose first record *)
(* has the lowest number, whose numbers are distinct and span no more than *)
(* the window, and in which records of one CPU or task are in order, comes *)
(* out ascending, with one hole counted per run of missing numbers; also   *)
(* by a run that finds the file as a killed run left it, unless that kill  *)
(* lost a record.                                                          *)
(***************************************************************************)
FromFirst(i) == Dist(recorded[1].seq_no, recorded[i].seq_no)

Repairable ==
    /\ \A i \in 1 .. count : FromFirst(i) <= LookAhead
    /\ \A i, j \in 1 .. count :
         i < j => /\ FromFirst(i) # FromFirst(j)
                  /\ Constrained(recorded[i], recorded[j]) => FromFirst(i) < FromFirst(j)

MissingRuns ==
    Cardinality({i \in 1 .. count :
        FromFirst(i) # 0 /\ \A j \in 1 .. count : FromFirst(j) # FromFirst(i) - 1})

Repairs ==
    pc = "done" /\ Repairable /\ Lost = {} =>
        /\ \A i \in 1 .. (count - 1) :
             Dist(recorded[1].seq_no, mem[i].seq_no) < Dist(recorded[1].seq_no, mem[i + 1].seq_no)
        /\ stats.holes = MissingRuns /\ stats.aborted_moves = 0

(***************************************************************************)
(* A latency is marked implausible only on evidence: it lies in a stretch  *)
(* of the file without holes between a scheduler record before it and a    *)
(* scheduler or release record after it on the same CPU, and is longer     *)
(* than the time between the two.                                          *)
(***************************************************************************)
Evidence(i) ==
    \E a \in 1 .. (i - 1), c \in (i + 1) .. count :
        /\ \A k \in (a + 1) .. c : FollowsOn(k)
        /\ mem[a].cpu = mem[i].cpu /\ mem[a].event = TS_SCHED_START
        /\ mem[c].cpu = mem[i].cpu /\ mem[c].event \in {TS_RELEASE_START, TS_SCHED_START}
        /\ mem[c].timestamp - mem[a].timestamp < mem[i].timestamp * Cycles

ImplausibleOnEvidence ==
    [][\A i \in 1 .. count :
         mem[i].event = TS_RELEASE_LATENCY /\ mem'[i].event # TS_RELEASE_LATENCY
         /\ pc = "bound" => Evidence(i)]_vars

(***************************************************************************)
(* A started run ends: every loop of the three passes makes progress, up   *)
(* to its end or to a table entry that does not exist.                     *)
(***************************************************************************)
Terminates == pc = "precheck" ~> pc \in Stopped \cup {"undefined"}
=============================================================================
