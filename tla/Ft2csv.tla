------------------------------- MODULE Ft2csv -------------------------------
(***************************************************************************)
(* ft2csv (src/ft2csv.c): one process that reads a sorted trace file and   *)
(* writes a sample for every START record whose END record it can find.    *)
(* The END is looked for among the records of the same CPU ("eid") or of   *)
(* the same task; a task that blocks on the way is followed through its    *)
(* suspension, and only the time it executes is reported ("exec" and the   *)
(* three locations after it).                                              *)
(*                                                                         *)
(* One action is one turn of a loop: one record looked at.  A position in  *)
(* the file stands for a pointer to the record.  The numbers of struct     *)
(* timestamp and of the sums are exact; that the unsigned subtractions of  *)
(* the code never wrap around is a property (sum and exec_time \in Nat).   *)
(***************************************************************************)
EXTENDS Timestamp, SeqNo, Sequences, FiniteSets

CONSTANT
    Jobs        \* what ft2csv is run on: files (traces), and with which options and
                \* event each of them is processed (commands)

Record == [timestamp : Nat, pid : Nat, seq_no : SeqNumbers, cpu : Nat, event : Nat,
           task_type : {TSK_BE, TSK_RT, TSK_UNKNOWN}, irq_flag : BOOLEAN]

\* interleaved, best_effort and interrupted are the want_ flags; avoid_cpu and
\* only_cpu are -1 when the option is absent.
CommandLine == [id : Nat, find_by_pid : {"auto", "pid", "eid"}, interleaved : BOOLEAN,
                best_effort : BOOLEAN, interrupted : BOOLEAN,
                max_interleaved_skipped : Nat, avoid_cpu : Int, only_cpu : Int]

ASSUME Ft2csvAssumption ==
    \A job \in Jobs : job.traces \subseteq Seq(Record) /\ job.commands \subseteq CommandLine

VARIABLES
    trace, opts, \* the input, never changed
    pc,          \* the loop the process is in
    start,       \* the record the outermost loop is at
    first, pos,  \* next_id, next_pid: where the search began and has got to
    restarts,    \* next_id: records of the CPU passed over
    last_time,   \* accumulate_exec_time: latest time stamp on the way
    sum,         \* accumulate_exec_time: execution time so far
    stats,       \* the counters
    out          \* the samples written

input  == <<trace, opts>>
search == <<first, pos, restarts, last_time, sum>>
vars   == <<input, pc, start, search, stats, out>>

count  == Len(trace)
id     == opts.id
by_pid == opts.find_by_pid = "pid" \/ (opts.find_by_pid = "auto" /\ id <= PID_RECORDS_RANGE)

Counters == {"complete", "incomplete", "interrupted", "skipped", "non_rt", "interleaved",
             "avoided"}

Add(counters, field, n) == [counters EXCEPT ![field] = @ + n]
Bump(field)             == stats' = Add(stats, field, 1)
One(flag)               == IF flag THEN 1 ELSE 0

Init ==
    /\ \E job \in Jobs : trace \in job.traces /\ opts \in job.commands
    /\ pc = IF id >= SINGLE_RECORDS_RANGE THEN "single" ELSE "skip"
    /\ start = 1 /\ first = 1 /\ pos = 1 /\ restarts = 0 /\ last_time = 0 /\ sum = 0
    /\ stats = [c \in Counters |-> 0] /\ out = <<>>

Unwanted(r) == r.cpu = opts.avoid_cpu \/ (opts.only_cpu # -1 /\ r.cpu # opts.only_cpu)

-----------------------------------------------------------------------------
(* show_id: everything before the first END is skipped, then every START   *)
(* is the beginning of a search.                                           *)

SkipRecord ==
    /\ pc = "skip" /\ start <= count /\ trace[start].event # id + 1
    /\ Bump("skipped") /\ start' = start + 1
    /\ UNCHANGED <<input, pc, search, out>>

SkipDone ==
    /\ pc = "skip"
    /\ ~(start <= count /\ trace[start].event # id + 1)
    /\ pc' = "scan"
    /\ UNCHANGED <<input, start, search, stats, out>>

ScanOther ==
    /\ pc = "scan" /\ start <= count /\ trace[start].event # id
    /\ start' = start + 1
    /\ UNCHANGED <<input, pc, search, stats, out>>

ScanAvoided ==
    /\ pc = "scan" /\ start <= count /\ trace[start].event = id /\ Unwanted(trace[start])
    /\ Bump("avoided") /\ start' = start + 1
    /\ UNCHANGED <<input, pc, search, out>>

Matching ==
    IF ~by_pid THEN "eid"
    ELSE IF id >= SUSPENSION_RANGE /\ opts.max_interleaved_skipped = 0 THEN "exec"
    ELSE "plain"

ScanStart ==
    /\ pc = "scan" /\ start <= count /\ trace[start].event = id /\ ~Unwanted(trace[start])
    /\ pc' = Matching
    /\ first' = start /\ pos' = start /\ restarts' = 0
    /\ last_time' = trace[start].timestamp /\ sum' = 0
    /\ UNCHANGED <<input, start, stats, out>>

ScanDone ==
    /\ pc = "scan" /\ start > count
    /\ pc' = "done"
    /\ UNCHANGED <<input, start, search, stats, out>>

Scan == SkipRecord \/ SkipDone \/ ScanOther \/ ScanAvoided \/ ScanStart \/ ScanDone

\* The search for the END of this START is over.
Return == pc' = "scan" /\ start' = start + 1 /\ UNCHANGED <<input, search>>

Emit(second, exec_time) ==
    out' = Append(out, [first |-> start, second |-> second, exec_time |-> exec_time])

-----------------------------------------------------------------------------
(* The record a search looks at next.                                      *)

Candidate == trace[pos + 1]

\* Mutant: missing records go unnoticed.
BreaksOffAtEnd == pos = count

\* The file ends, or records are missing before the next one.
BreaksOff == IF pos < count THEN Candidate.seq_no # next_seq_number(trace[pos].seq_no)
             ELSE TRUE

-----------------------------------------------------------------------------
(* find_event_by_eid: the END is the next one on the CPU (next, next_id).  *)

OnCpu == pc = "eid" /\ ~BreaksOff /\ Candidate.cpu = trace[start].cpu
IsEnd == Candidate.event = id + 1

EidBreaksOff ==
    /\ pc = "eid" /\ BreaksOff
    /\ Bump("incomplete") /\ Return /\ UNCHANGED out

EidOtherCpu ==
    /\ pc = "eid" /\ ~BreaksOff /\ Candidate.cpu # trace[start].cpu
    /\ pos' = pos + 1
    /\ UNCHANGED <<input, pc, start, first, restarts, last_time, sum, stats, out>>

EidStart ==
    /\ OnCpu /\ Candidate.event = id
    /\ Bump("incomplete") /\ Return /\ UNCHANGED out

Between == OnCpu /\ Candidate.event \notin {id, id + 1}

EidInterleaved ==
    /\ Between /\ ~opts.interleaved
    /\ Bump("incomplete") /\ Return /\ UNCHANGED out

\* An interrupt on the way: the sample is dropped and not counted anywhere.
EidInterrupted ==
    /\ Between /\ opts.interleaved /\ Candidate.irq_flag /\ ~opts.interrupted
    /\ Return /\ UNCHANGED <<stats, out>>

EidPassed ==
    /\ Between /\ opts.interleaved /\ ~(Candidate.irq_flag /\ ~opts.interrupted)
    /\ restarts' = restarts + 1 /\ pos' = pos + 1
    /\ UNCHANGED <<input, pc, start, first, last_time, sum, stats, out>>

\* The END has been reached: what next_id counts, and what becomes of the sample.
AtEnd(field) ==
    stats' = Add(Add(Add(stats, "interleaved", restarts),
                     "interrupted", One(Candidate.irq_flag)), field, 1)

EidEndInterrupted ==
    /\ OnCpu /\ IsEnd /\ Candidate.irq_flag /\ ~opts.interrupted
    /\ stats' = Add(Add(stats, "interleaved", restarts), "interrupted", 1)
    /\ Return /\ UNCHANGED out

EidEnd    == OnCpu /\ IsEnd /\ ~(Candidate.irq_flag /\ ~opts.interrupted)
Elapses   == Candidate.timestamp > trace[start].timestamp
NotOfRT   == /\ trace[start].task_type # TSK_RT /\ Candidate.task_type # TSK_RT
             /\ ~opts.best_effort

\* Mutant: an END that is not later than its START is not counted.
EidBackwardsUncounted ==
    /\ EidEnd /\ ~Elapses
    /\ stats' = Add(stats, "interleaved", restarts)
    /\ Return /\ UNCHANGED out

EidBackwards == EidEnd /\ ~Elapses /\ AtEnd("incomplete") /\ Return /\ UNCHANGED out
EidNonRT     == EidEnd /\ Elapses /\ NotOfRT /\ AtEnd("non_rt") /\ Return /\ UNCHANGED out
EidSample    ==
    /\ EidEnd /\ Elapses /\ ~NotOfRT /\ AtEnd("complete") /\ Return
    /\ Emit(pos + 1, Candidate.timestamp - trace[start].timestamp)

Eid == EidBreaksOff \/ EidOtherCpu \/ EidStart \/ EidInterleaved \/ EidInterrupted
         \/ EidPassed \/ EidEndInterrupted \/ EidBackwards \/ EidNonRT \/ EidSample

-----------------------------------------------------------------------------
(* find_event_by_pid: next_pid looks for certain events of the task.  Each *)
(* of its calls is a location of its own.                                  *)

PidLocations == {"plain", "exec", "suspended", "preempted", "resuming"}

\* id1 and id2 of the call; 0 is the number of no event.
Sought == CASE pc = "plain"     -> {id + 1, 0}
            [] pc = "exec"      -> {TS_LOCK_SUSPEND, id + 1}
            [] pc = "suspended" -> {TS_LOCK_RESUME, TS_SCHED_START}
            [] pc = "preempted" -> {TS_SCHED_END, 0}
            [] pc = "resuming"  -> {TS_LOCK_RESUME, 0}

interrupts_significant == pc \in {"plain", "exec"}

Looking == pc \in PidLocations /\ ~BreaksOff

\* Mutant: an interrupt on any CPU matters.
DisturbedAnywhere == interrupts_significant /\ Candidate.irq_flag

Disturbed == interrupts_significant /\ Candidate.cpu = trace[first].cpu /\ Candidate.irq_flag

OfTask == Candidate.pid = trace[first].pid

\* The record is looked at, and not dropped because of an interrupt.
Regarded == Looking /\ ~(Disturbed /\ ~opts.interrupted)

\* Mutant: one interleaved event of the task too many is skipped.
ToleratedOneMore == pos + 1 - first <= opts.max_interleaved_skipped + 1

\* Another event of the task, this far from the first one, is skipped.
Tolerated == pos + 1 - first <= opts.max_interleaved_skipped

\* Mutant: time stamps are not compared.
BackwardsNever == FALSE

Backwards == Candidate.timestamp < last_time

PidCount(field) ==
    stats' = Add(Add(stats, "interrupted", One(Disturbed)), field, 1)

PidBreaksOff ==
    /\ pc \in PidLocations /\ BreaksOff
    /\ Bump("incomplete") /\ Return /\ UNCHANGED out

\* Mutant: a disturbed sample is counted as incomplete as well.
PidInterruptedTwice ==
    /\ Looking /\ Disturbed /\ ~opts.interrupted
    /\ stats' = Add(Add(stats, "interrupted", 1), "incomplete", 1)
    /\ Return /\ UNCHANGED out

PidInterrupted ==
    /\ Looking /\ Disturbed /\ ~opts.interrupted
    /\ Bump("interrupted") /\ Return /\ UNCHANGED out

\* Mutant: the loop over the records does not advance.
PidPassedStuck ==
    /\ Regarded /\ (OfTask => Candidate.event \notin Sought /\ Tolerated)
    /\ UNCHANGED vars

PidPassed ==
    /\ Regarded /\ (OfTask => Candidate.event \notin Sought /\ Tolerated)
    /\ stats' = Add(stats, "interrupted", One(Disturbed))
    /\ pos' = pos + 1
    /\ UNCHANGED <<input, pc, start, first, restarts, last_time, sum, out>>

PidUnexpected ==
    /\ Regarded /\ OfTask /\ Candidate.event \notin Sought /\ ~Tolerated
    /\ PidCount("incomplete") /\ Return /\ UNCHANGED out

Found == Regarded /\ OfTask /\ Candidate.event \in Sought

PlainBackwards ==
    /\ Found /\ pc = "plain" /\ ~Elapses
    /\ PidCount("incomplete") /\ Return /\ UNCHANGED out

PlainSample ==
    /\ Found /\ pc = "plain" /\ Elapses
    /\ PidCount("complete") /\ Return
    /\ Emit(pos + 1, Candidate.timestamp - trace[start].timestamp)

\* accumulate_exec_time, skip_over_suspension: a broken stream.  The time stamp
\* of the SCHED_END is not compared again with that of the RESUME after it.
ExecBackwards ==
    /\ Found /\ pc # "plain" /\ Backwards
    /\ PidCount("incomplete") /\ Return /\ UNCHANGED out

Executed == Candidate.timestamp - trace[first].timestamp

ExecSample ==
    /\ Found /\ pc = "exec" /\ ~Backwards /\ IsEnd
    /\ PidCount("complete") /\ Return
    /\ Emit(pos + 1, sum + Executed)

\* The search goes on with the record found, at the location given.
Proceed(to) == pc' = to /\ first' = pos + 1 /\ pos' = pos + 1 /\ UNCHANGED <<input, start, restarts, out>>

\* Mutant: what was executed before an earlier suspension is forgotten.
ExecSuspendForgets ==
    /\ Found /\ pc = "exec" /\ ~Backwards /\ ~IsEnd
    /\ stats' = Add(stats, "interrupted", One(Disturbed))
    /\ sum' = Executed /\ last_time' = Candidate.timestamp
    /\ Proceed("suspended")

ExecSuspend ==
    /\ Found /\ pc = "exec" /\ ~Backwards /\ ~IsEnd
    /\ stats' = Add(stats, "interrupted", One(Disturbed))
    /\ sum' = sum + Executed /\ last_time' = Candidate.timestamp
    /\ Proceed("suspended")

SuspendedResume ==
    /\ Found /\ ~Backwards
    /\ pc = "resuming" \/ (pc = "suspended" /\ Candidate.event # TS_SCHED_START)
    /\ last_time' = Candidate.timestamp /\ Proceed("exec") /\ UNCHANGED <<sum, stats>>

SuspendedSchedStart ==
    /\ Found /\ pc = "suspended" /\ ~Backwards /\ Candidate.event = TS_SCHED_START
    /\ last_time' = Candidate.timestamp /\ Proceed("preempted") /\ UNCHANGED <<sum, stats>>

PreemptedSchedEnd ==
    /\ Found /\ pc = "preempted" /\ ~Backwards
    /\ Proceed("resuming") /\ UNCHANGED <<last_time, sum, stats>>

Pid == PidBreaksOff \/ PidInterrupted \/ PidPassed \/ PidUnexpected \/ PlainBackwards
         \/ PlainSample \/ ExecBackwards \/ ExecSample \/ ExecSuspend
         \/ SuspendedResume \/ SuspendedSchedStart \/ PreemptedSchedEnd

-----------------------------------------------------------------------------
(* show_single_records: each record is a sample; its time stamp is the     *)
(* latency.                                                                *)

SingleOther ==
    /\ pc = "single" /\ start <= count /\ trace[start].event # id
    /\ start' = start + 1
    /\ UNCHANGED <<input, pc, search, stats, out>>

SingleAvoided ==
    /\ pc = "single" /\ start <= count /\ trace[start].event = id /\ Unwanted(trace[start])
    /\ Bump("avoided") /\ start' = start + 1
    /\ UNCHANGED <<input, pc, search, out>>

SingleSample ==
    /\ pc = "single" /\ start <= count /\ trace[start].event = id
    /\ ~Unwanted(trace[start]) /\ trace[start].task_type = TSK_RT
    /\ Bump("complete") /\ Emit(start, trace[start].timestamp) /\ start' = start + 1
    /\ UNCHANGED <<input, pc, search>>

SingleNonRT ==
    /\ pc = "single" /\ start <= count /\ trace[start].event = id
    /\ ~Unwanted(trace[start]) /\ trace[start].task_type # TSK_RT
    /\ Bump("non_rt") /\ start' = start + 1
    /\ UNCHANGED <<input, pc, search, out>>

SingleDone ==
    /\ pc = "single" /\ start > count
    /\ pc' = "done"
    /\ UNCHANGED <<input, start, search, stats, out>>

Single == SingleOther \/ SingleAvoided \/ SingleSample \/ SingleNonRT \/ SingleDone

Next == Scan \/ Eid \/ Pid \/ Single

Spec     == Init /\ [][Next]_vars
FairSpec == Spec /\ WF_vars(Next)

-----------------------------------------------------------------------------
(***************************************************************************)
(* Every variable has its type; in particular no subtraction of time       *)
(* stamps has wrapped around: sum and exec_time are natural numbers        *)
(* whatever the time stamps of the file are.                               *)
(***************************************************************************)
Sample == [first : Nat, second : Nat, exec_time : Nat]

Ft2csvTypeOK ==
    /\ trace \in Seq(Record) /\ opts \in CommandLine
    /\ pc \in {"skip", "scan", "eid", "single", "done"} \cup PidLocations
    /\ {start, first, pos} \subseteq 1 .. (count + 1)
    /\ restarts \in Nat /\ last_time \in Nat /\ sum \in Nat
    /\ stats \in [Counters -> Nat] /\ out \in Seq(Sample)

-----------------------------------------------------------------------------
(* What a sample is, said of the file alone.                               *)

Ends(i, j)      == trace[i].event = id /\ trace[j].event = id + 1
SameCpu(i, j)   == trace[i].cpu = trace[j].cpu
SameTask(i, j)  == trace[i].pid = trace[j].pid
Wanted(i)       == trace[i].cpu # opts.avoid_cpu /\ opts.only_cpu \in {-1, trace[i].cpu}
InBetween(i, j) == (i + 1) .. (j - 1)
Unbroken(i, j)  == \A k \in i .. (j - 1) : trace[k + 1].seq_no = next_seq_number(trace[k].seq_no)

\* The next END on the CPU, before another START.
IsEidSample(i, j) ==
    /\ SameCpu(i, j) /\ trace[i].timestamp < trace[j].timestamp
    /\ opts.best_effort \/ TSK_RT \in {trace[i].task_type, trace[j].task_type}
    /\ opts.interrupted \/ \A k \in (i + 1) .. j : SameCpu(i, k) => ~trace[k].irq_flag
    /\ \A k \in InBetween(i, j) :
          SameCpu(i, k) => trace[k].event \notin {id, id + 1} /\ opts.interleaved

\* The next END of the task, with nothing but other tasks' records in between
\* except right after the START.
IsPlainSample(i, j) ==
    /\ SameTask(i, j) /\ trace[i].timestamp < trace[j].timestamp
    /\ opts.interrupted \/ \A k \in (i + 1) .. j : SameCpu(i, k) => ~trace[k].irq_flag
    /\ \A k \in InBetween(i, j) :
          SameTask(i, k) => /\ trace[k].event # id + 1
                            /\ k - i <= opts.max_interleaved_skipped

\* The records of the task on the way from i to k: the last one before k.
OwnBefore(i, k) == CHOOSE h \in i .. (k - 1) :
                     SameTask(i, h) /\ \A g \in (h + 1) .. (k - 1) : ~SameTask(i, g)

\* A task that executes is suspended or reaches the END; one that is suspended
\* resumes, at once or after it was scheduled out and in again.
Successors(i, h) ==
    IF h = i \/ trace[h].event = TS_LOCK_RESUME THEN {TS_LOCK_SUSPEND, id + 1}
    ELSE CASE trace[h].event = TS_LOCK_SUSPEND -> {TS_LOCK_RESUME, TS_SCHED_START}
           [] trace[h].event = TS_SCHED_START  -> {TS_SCHED_END}
           [] trace[h].event = TS_SCHED_END    -> {TS_LOCK_RESUME}
           [] OTHER                            -> {}

\* Records after i in the order of their time stamps, the SCHED_END apart.
InOrder(i, j) ==
    \A k \in (i + 1) .. j : SameTask(i, k) =>
      \A h \in i .. (k - 1) :
        SameTask(i, h) /\ trace[h].event # TS_SCHED_END
          => trace[h].timestamp <= trace[k].timestamp

IsExecSample(i, j) ==
    /\ SameTask(i, j) /\ InOrder(i, j)
    /\ \A k \in (i + 1) .. j :
         LET h        == OwnBefore(i, k)
             executes == h = i \/ trace[h].event = TS_LOCK_RESUME
         IN  /\ SameTask(i, k) => trace[k].event \in Successors(i, h)
             /\ SameTask(i, k) /\ trace[k].event = id + 1 => k = j
             /\ executes /\ SameCpu(h, k) /\ ~opts.interrupted => ~trace[k].irq_flag

IsSample(i, j) ==
    /\ i < j /\ Ends(i, j) /\ Wanted(i) /\ Unbroken(i, j)
    /\ CASE Matching = "eid"   -> IsEidSample(i, j)
         [] Matching = "plain" -> IsPlainSample(i, j)
         [] Matching = "exec"  -> IsExecSample(i, j)

\* show_id skips what comes before the first END.
FirstEnd == CHOOSE e \in 1 .. (count + 1) :
              /\ e <= count => trace[e].event = id + 1
              /\ \A k \in 1 .. (e - 1) : trace[k].event # id + 1

IsSingle == id >= SINGLE_RECORDS_RANGE
Samples  == {<<out[n].first, out[n].second>> : n \in DOMAIN out}

\* A single record is a sample if it is of a real-time task or -b is given.
Singles == {k \in 1 .. count : /\ trace[k].event = id /\ Wanted(k)
                               /\ (trace[k].task_type = TSK_RT \/ opts.best_effort)}

SamplesOfFile ==
    IF IsSingle THEN {<<k, k>> : k \in Singles}
    ELSE {p \in (FirstEnd .. count) \X (FirstEnd .. count) : IsSample(p[1], p[2])}

(***************************************************************************)
(* The samples of the file are written, all of them and nothing else:      *)
(* exactly the pairs the definitions above allow, with the exception of    *)
(* those that begin before the first END of the file (show_id), and the    *)
(* single records (show_single_records).  Of single records with -b only   *)
(* the second half holds: see BestEffortKept.                              *)
(***************************************************************************)
SamplesExact ==
    pc = "done" =>
      /\ Samples \subseteq SamplesOfFile
      /\ ~(IsSingle /\ opts.best_effort) => SamplesOfFile \subseteq Samples

(***************************************************************************)
(* "-b: best effort -- don't skip non-rt time stamps" (ft2csv.c:399): with *)
(* -b no sample of the file is left out because of the type of its task.   *)
(* It does not hold of single records, whose type show_single_records      *)
(* looks at whatever the options are.                                      *)
(***************************************************************************)
BestEffortKept == pc = "done" /\ opts.best_effort => SamplesOfFile \subseteq Samples

(***************************************************************************)
(* A sample relates a START to a later END of the same CPU or task with no *)
(* record missing in between, and the time reported is no longer than the  *)
(* time that passed, however often the task was suspended and whatever the *)
(* order of the time stamps.                                               *)
(***************************************************************************)
SampleSound ==
    \A n \in DOMAIN out :
      LET i == out[n].first   j == out[n].second
      IN  ~IsSingle =>
            /\ i < j /\ j <= count /\ trace[i].event = id
            /\ IF by_pid THEN SameTask(i, j) ELSE SameCpu(i, j)
            /\ Unbroken(i, j)
            /\ out[n].exec_time <= trace[j].timestamp - trace[i].timestamp

(***************************************************************************)
(* An END completes one sample only, unless -s lets a search run past a    *)
(* second START of the task.                                               *)
(***************************************************************************)
EndUsedOnce ==
    Matching # "plain" \/ opts.max_interleaved_skipped = 0 =>
      \A m, n \in DOMAIN out : out[m].second = out[n].second => m = n

(***************************************************************************)
(* The time reported of a task that was suspended is the time that passed  *)
(* less the time between each suspension and the resumption after it       *)
(* (find_event_by_pid: "take suspensions into account").                   *)
(***************************************************************************)
Times(i, j, ev) ==
    LET at  == {k \in InBetween(i, j) : SameTask(i, k) /\ trace[k].event = ev}
        s[k \in 0 .. count] == IF k = 0 THEN 0
                               ELSE s[k - 1] + (IF k \in at THEN trace[k].timestamp ELSE 0)
    IN  s[count]

ExecTimeExact ==
    \A n \in DOMAIN out :
      LET i == out[n].first   j == out[n].second
      IN  Matching = "exec" /\ ~IsSingle =>
            out[n].exec_time = trace[j].timestamp - trace[i].timestamp
                                 - (Times(i, j, TS_LOCK_RESUME) - Times(i, j, TS_LOCK_SUSPEND))

(***************************************************************************)
(* The report adds up: every START after the first END is counted once as  *)
(* complete, incomplete, non-RT or avoided, and the only ones in none of   *)
(* these counters were dropped because of an interrupt; matched by task,   *)
(* each of them is counted as interrupted.                                 *)
(***************************************************************************)
Accounted ==
    pc = "done" /\ ~IsSingle =>
      LET starts  == Cardinality({i \in FirstEnd .. count : trace[i].event = id})
          counted == stats.complete + stats.incomplete + stats.non_rt + stats.avoided
      IN  /\ stats.complete = Len(out) /\ counted <= starts
          /\ opts.interrupted => counted = starts
          /\ by_pid /\ ~opts.interrupted => counted + stats.interrupted = starts

(***************************************************************************)
(* Every run ends: in particular the endless loop of accumulate_exec_time  *)
(* is left on every file.                                                  *)
(***************************************************************************)
RunEnds == <>(pc = "done")

(***************************************************************************)
(* "The underlying ft2csv tool automatically discards any samples that     *)
(* were disturbed by interrupts" (doc/howto-trace-and-process-overheads.md *)
(* :152): without -x, no sample ends with a record that has the IRQ flag.  *)
(***************************************************************************)
DisturbedDiscarded ==
    ~opts.interrupted => \A n \in DOMAIN out : ~trace[out[n].second].irq_flag
=============================================================================
