----------------------------- MODULE MCSchedule -----------------------------
(***************************************************************************)
(* st_job_stats, stdump and st-draw on small schedule traces: a command    *)
(* line is for one of the programs, and the variables of the others stay   *)
(* as they are.                                                            *)
(***************************************************************************)
EXTENDS JobStats, StDump, StDraw

CONSTANT Worlds     \* which of the sets of files and command lines are used

vars == <<loadVars, statVars, dumpVars, drawVars>>

Init == LoadInit /\ StatsInit /\ DumpInit /\ DrawInit

StatsStep ==
    /\ command.program = "st_job_stats" /\ JobStatsNext
    /\ UNCHANGED <<dumpVars, drawVars>>

DumpStep ==
    /\ command.program = "stdump" /\ StDumpNext
    /\ UNCHANGED <<statVars, drawVars>>

DrawStep ==
    /\ command.program = "st-draw" /\ StDrawNext
    /\ UNCHANGED <<file, next, h, h2, hn, count, statVars, dumpVars>>

Next == StatsStep \/ DumpStep \/ DrawStep

FairSpec == Init /\ [][Next]_vars /\ WF_vars(Next)

\* Each of the programs comes to an end, whatever the files hold: the loops of load, of the
\* statistics (src/job_stats.c:227-257) and of the iterator of the intervals, which looks
\* at a record again (sched_trace/file.py:46-58), all make progress.
ScheduleEnds == <>(pc \in {"done", "failed", "no row"})

-----------------------------------------------------------------------------
Stats0 == [program |-> "st_job_stats", wait_for_release |-> FALSE, want_ms |-> FALSE,
           pid_filter |-> 0, name_filter |-> 0, period_filter |-> 0,
           find_release |-> FALSE, use_first_nonzero |-> FALSE,
           start |-> 0, end |-> 0, length |-> 0, relative |-> FALSE, quantum |-> 0]

Dump0 == [Stats0 EXCEPT !.program = "stdump"]

Dumps == {Dump0} \cup {[Dump0 EXCEPT !.find_release = TRUE, !.use_first_nonzero = f] :
                         f \in BOOLEAN}

Entry(type, cpu, pid, job, raw0, raw1) ==
    [type |-> type, cpu |-> cpu, pid |-> pid, job |-> job, raw0 |-> raw0, raw1 |-> raw1]

Readable(recs) == [readable |-> TRUE, recs |-> recs]
Unreadable == [readable |-> FALSE, recs |-> <<>>]

-----------------------------------------------------------------------------
(* Loading: records of three tasks, one more than the table holds, and of  *)
(* none, with equal times and without a time.                              *)
Loose == {Entry("ST_NAME", 0, 1, 0, 5, 0), Entry("ST_PARAM", 0, 2, 0, 4, 0),
          Entry("ST_PARAM", 0, 3, 0, 6, 0), Entry("ST_RELEASE", 0, 1, 1, 1, 5),
          Entry("ST_COMPLETION", 1, 1, 1, 2, 0), Entry("ST_SWITCH_TO", 1, 2, 1, 2, 0),
          Entry("ST_COMPLETION", 0, 3, 1, 1, 0), Entry("ST_SYS_RELEASE", 0, 0, 0, 1, 2),
          Entry("ST_SYS_RELEASE", 1, 0, 0, 2, 1)}

LoadJobs ==
    {[command |-> Stats0, files |-> <<Readable(<<a, b>>), Readable(<<d>>)>>] :
       a \in Loose, b \in Loose, d \in Loose}
    \cup {[command |-> c, files |-> <<Readable(<<a, b>>), Readable(<<d>>)>>] :
       c \in Dumps, a \in Loose, b \in Loose,
       d \in {Entry("ST_PARAM", 0, 3, 0, 6, 0), Entry("ST_SYS_RELEASE", 1, 0, 0, 2, 1)}}
    \cup {[command |-> c, files |-> f] :
       c \in {Stats0, Dump0},
       f \in {<<>>, <<Unreadable>>, <<Readable(<<>>)>>,
              <<Readable(<<Entry("ST_NAME", 0, 1, 0, 5, 0)>>), Unreadable>>}}
    \cup {[command |-> [Stats0 EXCEPT !.wait_for_release = TRUE],
           files |-> <<Readable(<<Entry("ST_RELEASE", 0, 1, 1, 1, 5)>>)>>]}

-----------------------------------------------------------------------------
(* Events of one task at the times 1, 2, ... in any order of kinds, those  *)
(* of even times in another file, each written backwards.                  *)
Kind(k, time) ==
    CASE k = "rel 1"  -> Entry("ST_RELEASE", 0, 1, 1, time, time + 2)
      [] k = "rel 2"  -> Entry("ST_RELEASE", 0, 1, 2, time, time + 2)
      [] k = "rel 3"  -> Entry("ST_RELEASE", 0, 1, 3, time, time + 2)
      [] k = "comp 1" -> Entry("ST_COMPLETION", 0, 1, 1, time, 0)
      [] k = "comp 2" -> Entry("ST_COMPLETION", 0, 1, 2, time, 0)
      [] k = "comp 3" -> Entry("ST_COMPLETION", 0, 1, 3, time, 0)
      [] k = "to 1"   -> Entry("ST_SWITCH_TO", 0, 1, 1, time, 0)
      [] k = "to 1 other cpu" -> Entry("ST_SWITCH_TO", 1, 1, 1, time, 0)
      [] k = "away 1" -> Entry("ST_SWITCH_AWAY", 0, 1, 1, time, 0)
      [] k = "to 2"   -> Entry("ST_SWITCH_TO", 1, 1, 2, time, 0)
      [] k = "away 2" -> Entry("ST_SWITCH_AWAY", 1, 1, 2, time, 0)

Part(ks, parity) ==
    LET Mine(i) == i % 2 = parity
        at == Reverse(SelectSeq([i \in DOMAIN ks |-> i], Mine))
    IN  [j \in DOMAIN at |-> Kind(ks[at[j]], at[j])]

Trace(ks) == <<Readable(Part(ks, 1)), Readable(Part(ks, 0))>>

Named(ks) ==
    Trace(ks) \o <<Readable(<<Entry("ST_SYS_RELEASE", 0, 0, 0, 1, 2),
                              Entry("ST_PARAM", 0, 1, 0, 4, 0),
                              Entry("ST_NAME", 0, 1, 0, 5, 0)>>)>>

Backlog == {"rel 1", "rel 2", "comp 1", "comp 2"}

PairingJobs ==
    {[command |-> Stats0, files |-> Trace(ks)] : ks \in [1 .. 5 -> Backlog]}
    \cup {[command |-> c, files |-> Named(ks)] :
       ks \in [1 .. 3 -> {"rel 1", "rel 2", "comp 1"}],
       c \in {[Stats0 EXCEPT !.wait_for_release = TRUE],
              [Stats0 EXCEPT !.pid_filter = 2], [Stats0 EXCEPT !.pid_filter = 1],
              [Stats0 EXCEPT !.name_filter = 5], [Stats0 EXCEPT !.name_filter = 6],
              [Stats0 EXCEPT !.period_filter = 4], [Stats0 EXCEPT !.period_filter = 2],
              [Stats0 EXCEPT !.period_filter = 2, !.want_ms = TRUE],
              [Stats0 EXCEPT !.period_filter = 3, !.want_ms = TRUE]}}

\* Periods in milliseconds that wrap around to no period and to that of the task.
WrappedJobs ==
    {[command |-> [Stats0 EXCEPT !.period_filter = p, !.want_ms = TRUE],
      files |-> Named(<<"rel 1", "comp 1">>)] : p \in {8, 10}}

SwitchJobs ==
    {[command |-> Stats0, files |-> Trace(<<"rel 1">> \o ks \o <<"comp 1">>)] :
       ks \in [1 .. 4 -> {"to 1", "to 1 other cpu", "away 1", "to 2", "away 2"}]}

\* A task that is three jobs behind when the first one completes.
OverloadJobs ==
    {[command |-> Stats0,
      files |-> Trace(<<"rel 1", "rel 2", "rel 3", "comp 1", "comp 2", "comp 3">>)]}

-----------------------------------------------------------------------------
(* Drawing: switches of two tasks on one CPU in any order, as they are when *)
(* records were lost, with some of another CPU or of an earlier time; all   *)
(* of them are in the interval.                                             *)
Draw0 == [Stats0 EXCEPT !.program = "st-draw", !.length = 10]

Switch(k, time) ==
    CASE k = "to 1"   -> Entry("ST_SWITCH_TO", 0, 1, 1, time, 0)
      [] k = "to 2"   -> Entry("ST_SWITCH_TO", 0, 2, 1, time, 0)
      [] k = "away 1" -> Entry("ST_SWITCH_AWAY", 0, 1, 1, time, 0)
      [] k = "away 1 early" -> Entry("ST_SWITCH_AWAY", 0, 1, 1, 1, 0)
      [] k = "away 1 other cpu" -> Entry("ST_SWITCH_AWAY", 1, 1, 1, time, 0)

LostJobs ==
    {[command |-> [Draw0 EXCEPT !.start = 1],
      files |-> <<Readable([i \in 1 .. 4 |-> Switch(ks[i], i + 1)])>>] :
       ks \in [1 .. 4 -> {"to 1", "to 2", "away 1", "away 1 early", "away 1 other cpu"}]}

(* Two tasks that run from time 1 to 5 and from 3 to 4, on two CPUs; what   *)
(* becomes of them is in a third file.  The interval is any part of that.   *)
Runs == <<Readable(<<Entry("ST_SWITCH_TO", 0, 1, 1, 1, 0), Entry("ST_SWITCH_AWAY", 0, 1, 1, 5, 0)>>),
          Readable(<<Entry("ST_SWITCH_TO", 1, 2, 1, 3, 0), Entry("ST_SWITCH_AWAY", 1, 2, 1, 4, 0)>>)>>

Others == {<<>>,
           <<Entry("ST_PARAM", 0, 1, 0, 4, 0), Entry("ST_SYS_RELEASE", 0, 0, 0, 1, 2),
             Entry("ST_RELEASE", 0, 1, 2, 4, 6)>>,
           <<Entry("ST_COMPLETION", 0, 1, 1, 5, 0), Entry("ST_BLOCK", 0, 2, 1, 4, 0),
             Entry("ST_RESUME", 0, 2, 1, 6, 0)>>,
           <<Entry("ST_ACTION", 0, 1, 1, 2, 0)>>}

IntervalJobs ==
    {[command |-> [Draw0 EXCEPT !.start = s, !.end = u, !.length = l, !.relative = r, !.quantum = q],
      files |-> Append(Runs, Readable(o))] :
       s \in {0, 2}, u \in {0, 4}, l \in {0, 1, 3}, r \in BOOLEAN, q \in {0, 2}, o \in Others}
    \cup {[command |-> [Draw0 EXCEPT !.start = s], files |-> f] :
       s \in {0, 1}, f \in {<<>>, <<Unreadable>>, <<Readable(<<Entry("ST_NAME", 0, 1, 0, 5, 0)>>)>>}}

\* The first two time units after time zero, 2, of a task that runs from 1 to 5.
DefaultJobs ==
    {[command |-> [Draw0 EXCEPT !.length = 2],
      files |-> <<Readable(<<Entry("ST_SYS_RELEASE", 0, 0, 0, 1, 2)>>),
                  Readable(<<Entry("ST_SWITCH_TO", 0, 1, 1, 1, 0),
                             Entry("ST_SWITCH_AWAY", 0, 1, 1, 5, 0)>>)>>]}

WorldJobs ==
    UNION {CASE name = "load"     -> LoadJobs
             [] name = "pairing"  -> PairingJobs
             [] name = "switches" -> SwitchJobs
             [] name = "overload" -> OverloadJobs
             [] name = "wrapped"  -> WrappedJobs
             [] name = "lost"     -> LostJobs
             [] name = "interval" -> IntervalJobs
             [] name = "default"  -> DefaultJobs : name \in Worlds}
=============================================================================
