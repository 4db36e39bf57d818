------------------------------ MODULE JobStats ------------------------------
(***************************************************************************)
(* st_job_stats (src/job_stats.c with split and by_pid of src/load.c): the *)
(* records come out of the heap into one list per task and one for the     *)
(* rest; then every job whose release is found gets a row with what its    *)
(* completion and its context switches say, if there is a completion.      *)
(* Output in milliseconds differs in layout only, and is not modelled.     *)
(***************************************************************************)
EXTENDS ScheduleLoad

CONSTANTS
    MAX_TASKS,                 \* entries of the task table
    MAX_COMPLETIONS_TO_CHECK,  \* how far the completion of a job is searched
    NsPerMs,                   \* 1000000
    U32, U64                   \* 2^32, 2^64

ASSUME JobStatsAssumption ==
    /\ MAX_TASKS \in Nat /\ MAX_COMPLETIONS_TO_CHECK \in Nat
    /\ NsPerMs \in Nat \ {0} /\ U32 \in Nat \ {0} /\ U64 \in Nat /\ U64 > MaxTime

VARIABLES
    tasks,        \* the entries of the task table in use: [pid, name, param, events]
    sys_events,   \* the other records
    time0,        \* the first time in the trace
    sys_release,  \* the releases from which jobs are shown
    t, e,         \* main: the task, and the event of its list, looked at
    rows          \* the rows printed

statVars == <<tasks, sys_events, time0, sys_release, t, e, rows>>

-----------------------------------------------------------------------------
(* The task table.                                                         *)
Known(pid) == \E i \in DOMAIN tasks : tasks[i].pid = pid

\* by_pid finds the entry of the task or takes the first free one; PID 0 and the
\* tasks that find the table full have none.
Fits(pid) == pid # 0 /\ (Known(pid) \/ Len(tasks) < MAX_TASKS)

Table(pid) ==
    IF Fits(pid) /\ ~Known(pid)
    THEN Append(tasks, [pid |-> pid, name |-> None, param |-> None, events |-> <<>>])
    ELSE tasks

\* Mutant: every record belongs to the last entry of the table.
by_pid_last(pid) == Len(Table(pid))

by_pid(pid) == CHOOSE i \in DOMAIN Table(pid) : Table(pid)[i].pid = pid

-----------------------------------------------------------------------------
(* split: one turn of its loop.                                            *)
SplitTake(r) ==
    /\ pc = "run" /\ Take(r) /\ pc' = pc
    /\ time0' = IF time0 = 0 THEN event_time(Rec(r)) ELSE time0
    /\ UNCHANGED <<sys_release, t, e, rows>>

Told(entry, r) ==
    IF Rec(r).type = "ST_PARAM" THEN [entry EXCEPT !.param = r] ELSE [entry EXCEPT !.name = r]

SplitInfo(r) ==
    /\ Rec(r).type \in {"ST_NAME", "ST_PARAM"}
    /\ SplitTake(r)
    /\ LET pid == Rec(r).pid
       IN  tasks' = IF Fits(pid) THEN [Table(pid) EXCEPT ![by_pid(pid)] = Told(@, r)]
                    ELSE tasks
    /\ UNCHANGED sys_events

\* Mutant: records are put in front of the list.
LinkedInFront(entry, r) == [entry EXCEPT !.events = <<r>> \o @]

Linked(entry, r) == [entry EXCEPT !.events = Append(@, r)]

SplitTaskEvent(r) ==
    /\ Rec(r).type \notin {"ST_NAME", "ST_PARAM"} /\ Fits(Rec(r).pid)
    /\ SplitTake(r)
    /\ tasks' = [Table(Rec(r).pid) EXCEPT ![by_pid(Rec(r).pid)] = Linked(@, r)]
    /\ UNCHANGED sys_events

SplitSysEvent(r) ==
    /\ Rec(r).type \notin {"ST_NAME", "ST_PARAM"} /\ ~Fits(Rec(r).pid)
    /\ SplitTake(r)
    /\ sys_events' = Append(sys_events, r)
    /\ UNCHANGED tasks

SplitEnds == pc = "run" /\ Drained /\ pc' = "release" /\ UNCHANGED statVars

Split ==
    \/ \E r \in Earliest(h) : SplitInfo(r) \/ SplitTaskEvent(r) \/ SplitSysEvent(r)
    \/ SplitEnds

-----------------------------------------------------------------------------
(* main, once the lists are there.                                         *)
SysReleases == {i \in DOMAIN sys_events : Rec(sys_events[i]).type = "ST_SYS_RELEASE"}

\* With -r the first release of the task system decides which jobs are shown.
FindRelease ==
    /\ pc = "release"
    /\ IF ~command.wait_for_release
       THEN pc' = "stats" /\ UNCHANGED sys_release
       ELSE IF SysReleases = {}
            THEN pc' = "failed" /\ UNCHANGED sys_release
            ELSE /\ pc' = "stats"
                 /\ \E i \in SysReleases :
                       /\ \A j \in SysReleases : i <= j
                       /\ sys_release' = Rec(sys_events[i]).raw1
    /\ UNCHANGED <<command, files, file, next, h, h2, hn, count,
                   tasks, sys_events, time0, t, e, rows>>

per(task) == IF task.param = None THEN 0 ELSE Rec(task.param).raw0

tsk_name(task) == IF task.name = None THEN -1 ELSE Rec(task.name).raw0

\* The period the user asks for, with -m in milliseconds; 0 if none is given.
GivenPeriod ==
    IF command.want_ms THEN command.period_filter * NsPerMs ELSE command.period_filter

\* What is compared keeps 32 bits of it.
period_filter == GivenPeriod % U32

\* A filter of 0 is none.
Wanted(task) ==
    /\ command.pid_filter \in {0, task.pid}
    /\ command.name_filter \in {0, tsk_name(task)}
    /\ period_filter \in {0, per(task)}

Event(i) == Rec(tasks[t].events[i])

Considered(i) ==
    /\ Event(i).type = "ST_RELEASE"
    /\ command.wait_for_release => Event(i).raw0 >= sys_release

\* Where the completions that are looked at are, for the release at i.
Completions(i) ==
    {c \in i .. Len(tasks[t].events) : Event(c).type = "ST_COMPLETION"}

\* Mutant: one completion less is looked at.
CheckedOneLess(i) ==
    {c \in Completions(i) :
       Cardinality({d \in Completions(i) : d < c}) < MAX_COMPLETIONS_TO_CHECK - 1}

Checked(i) ==
    {c \in Completions(i) :
       Cardinality({d \in Completions(i) : d < c}) < MAX_COMPLETIONS_TO_CHECK}

Matching(i) == {c \in Checked(i) : Event(c).job = Event(i).job}

\* Mutant: the flag is cleared when the job is back.
CountSwitchForgetful(seen, rec) ==
    IF rec.type = "ST_SWITCH_AWAY"
    THEN [seen EXCEPT !.switched_away = TRUE, !.last_cpu = rec.cpu]
    ELSE IF rec.type = "ST_SWITCH_TO" /\ seen.switched_away
         THEN [seen EXCEPT !.preemptions = @ + 1, !.switched_away = FALSE,
                           !.migrations = @ + (IF rec.cpu # seen.last_cpu THEN 1 ELSE 0)]
         ELSE seen

\* One turn of the loop of count_preemptions, for the record of a switch.
CountSwitch(seen, rec) ==
    IF rec.type = "ST_SWITCH_AWAY"
    THEN [seen EXCEPT !.switched_away = TRUE, !.last_cpu = rec.cpu]
    ELSE IF rec.type = "ST_SWITCH_TO" /\ seen.switched_away
         THEN [seen EXCEPT !.preemptions = @ + 1,
                           !.migrations = @ + (IF rec.cpu # seen.last_cpu THEN 1 ELSE 0)]
         ELSE seen

count_preemptions(release, completion) ==
    LET seen[i \in release - 1 .. completion - 1] ==
          IF i < release
          THEN [switched_away |-> FALSE, last_cpu |-> 0, preemptions |-> 0, migrations |-> 0]
          ELSE IF Event(i).job = Event(release).job
               THEN CountSwitch(seen[i - 1], Event(i))
               ELSE seen[i - 1]
    IN  seen[completion - 1]

\* print_stats: the response time is an unsigned number, the lateness a signed one.
Row(release, completion) ==
    LET switches == count_preemptions(release, completion) IN
    [release |-> tasks[t].events[release], completion |-> tasks[t].events[completion],
     response |-> (Event(completion).raw0 - Event(release).raw0) % U64,
     lateness |-> Event(completion).raw0 - Event(release).raw1,
     preemptions |-> switches.preemptions, migrations |-> switches.migrations]

StatsFrame == UNCHANGED <<loadVars, tasks, sys_events, time0, sys_release>>

NextTask ==
    /\ pc = "stats" /\ t <= Len(tasks)
    /\ Wanted(tasks[t]) => e > Len(tasks[t].events)
    /\ t' = t + 1 /\ e' = 1 /\ StatsFrame /\ UNCHANGED rows

LookAt(i) == pc = "stats" /\ t <= Len(tasks) /\ Wanted(tasks[t]) /\ i <= Len(tasks[t].events)

PassEvent ==
    /\ LookAt(e) /\ (Considered(e) => Matching(e) = {})
    /\ e' = e + 1 /\ StatsFrame /\ UNCHANGED <<t, rows>>

\* Mutant: the loop does not go on to the next event.
PrintRowAgain ==
    /\ LookAt(e) /\ Considered(e)
    /\ \E c \in Matching(e) : rows' = <<Row(e, c)>>
    /\ StatsFrame /\ UNCHANGED <<t, e>>

PrintRow ==
    /\ LookAt(e) /\ Considered(e)
    /\ \E c \in Matching(e) : /\ \A d \in Matching(e) : c <= d
                              /\ rows' = Append(rows, Row(e, c))
    /\ e' = e + 1 /\ StatsFrame /\ UNCHANGED t

AllShown ==
    /\ pc = "stats" /\ t > Len(tasks) /\ pc' = "done"
    /\ UNCHANGED <<command, files, file, next, h, h2, hn, count, statVars>>

Stats == FindRelease \/ NextTask \/ PassEvent \/ PrintRow \/ AllShown

-----------------------------------------------------------------------------
StatsInit ==
    /\ tasks = <<>> /\ sys_events = <<>> /\ time0 = 0 /\ sys_release = 0
    /\ t = 1 /\ e = 1 /\ rows = <<>>

JobStatsInit == LoadInit /\ StatsInit

JobStatsNext == (Load /\ UNCHANGED statVars) \/ Split \/ Stats

jobStatsVars == <<loadVars, statVars>>

JobStatsSpec == JobStatsInit /\ [][JobStatsNext]_jobStatsVars

-----------------------------------------------------------------------------
(* Properties of split.                                                    *)
ListOf(i) == IF i = 0 THEN sys_events ELSE tasks[i].events

Listed(r) == \E i \in 0 .. Len(tasks) : \E j \in DOMAIN ListOf(i) : ListOf(i)[j] = r

NothingLost ==
    command.program = "st_job_stats" =>
      \A r \in Inserted : \/ r \in h \cup h2 \/ Listed(r)
                          \/ Rec(r).type \in {"ST_NAME", "ST_PARAM"}

NothingTwice ==
    \A i, k \in 0 .. Len(tasks) : \A j \in DOMAIN ListOf(i), l \in DOMAIN ListOf(k) :
       /\ ListOf(i)[j] = ListOf(k)[l] => i = k /\ j = l
       /\ ListOf(i)[j] \notin h \cup h2

OneEntryPerTask ==
    \A i, k \in DOMAIN tasks : tasks[i].pid # 0 /\ (tasks[i].pid = tasks[k].pid => i = k)

OwnList ==
    /\ \A i \in DOMAIN tasks : \A j \in DOMAIN tasks[i].events :
          Rec(tasks[i].events[j]).pid = tasks[i].pid
    /\ \A j \in DOMAIN sys_events : ~Fits(Rec(sys_events[j]).pid)

\* Every record read is in the heaps or in exactly one list, once: that of its task,
\* if the task has an entry, or else that of the others; a task whose first record
\* found the table full (src/load.c:130) has all its records there, and NAME and PARAM
\* records are in none (src/load.c:150-199).
EveryRecordListed == NothingLost /\ NothingTwice /\ OneEntryPerTask /\ OwnList

\* The lists of the tasks and of the others are in the order of time while records of
\* several files go into them (src/load.c:163), so what st_job_stats takes for later
\* in a list is later.
ListsInOrder == \A i \in 0 .. Len(tasks) : InOrder(ListOf(i))

-----------------------------------------------------------------------------
(* Properties of the rows, in terms of the files and not of the lists: for *)
(* a task that has an entry, whose events all have different times.        *)
EventsOf(pid) == {r \in Refs : Rec(r).pid = pid /\ Rec(r).type \notin {"ST_NAME", "ST_PARAM"}}

At(r) == event_time(Rec(r))

Infos(pid, type) == {r \in Refs : Rec(r).pid = pid /\ Rec(r).type = type}

Plain(pid) ==
    /\ \A r, q \in EventsOf(pid) : At(r) = At(q) => r = q
    /\ Cardinality(Infos(pid, "ST_NAME")) <= 1 /\ Cardinality(Infos(pid, "ST_PARAM")) <= 1

PlainTasks == {pid \in {tasks[i].pid : i \in DOMAIN tasks} : Plain(pid)}

PassesFilters(pid) ==
    /\ command.pid_filter \in {0, pid}
    /\ \/ command.name_filter \in {0} \cup {Rec(r).raw0 : r \in Infos(pid, "ST_NAME")}
       \/ command.name_filter = -1 /\ Infos(pid, "ST_NAME") = {}
    /\ GivenPeriod \in {0} \cup {Rec(r).raw0 : r \in Infos(pid, "ST_PARAM")}

\* The releases of the task system: a task that has an entry has none of them.
Starts == {r \in Refs : Rec(r).type = "ST_SYS_RELEASE" /\ ~Known(Rec(r).pid)}

\* From when on jobs are shown: the first release, one of them if two have the same time.
ShownFrom ==
    IF command.wait_for_release
    THEN {Rec(r).raw1 : r \in {s \in Starts : \A q \in Starts : At(s) <= At(q)}}
    ELSE {0}

CompletionsBetween(pid, from, to) ==
    {r \in EventsOf(pid) : Rec(r).type = "ST_COMPLETION" /\ from <= At(r) /\ At(r) < to}

\* The completions of the job that was released by r which can be in its row.
Answers(r) ==
    {c \in EventsOf(Rec(r).pid) :
       /\ Rec(c).type = "ST_COMPLETION" /\ Rec(c).job = Rec(r).job /\ At(r) <= At(c)
       /\ Cardinality(CompletionsBetween(Rec(r).pid, At(r), At(c)))
            < MAX_COMPLETIONS_TO_CHECK}

AnsweredBy(r, c) == c \in Answers(r) /\ \A d \in Answers(r) : At(c) <= At(d)

ExpectedRows(pid, from) ==
    {p \in EventsOf(pid) \X EventsOf(pid) :
       /\ PassesFilters(pid) /\ Rec(p[1]).type = "ST_RELEASE" /\ At(p[1]) >= from
       /\ AnsweredBy(p[1], p[2])}

\* In the end every job of a task that the filters let through, released not before
\* the task system, has one row with its first completion, if no more than 19 other
\* completions of the task come between; and there is no other row
\* (src/job_stats.c:227-257).  A period of 2^32 ns or more is another matter: see
\* OnlyGivenPeriod.
RowsExact ==
    pc = "done" /\ GivenPeriod \in 0 .. (U32 - 1) =>
      \E from \in ShownFrom : \A pid \in PlainTasks :
         LET its == {i \in DOMAIN rows : Rec(rows[i].release).pid = pid}
         IN  /\ {<<rows[i].release, rows[i].completion>> : i \in its} = ExpectedRows(pid, from)
             /\ Cardinality(its) = Cardinality(ExpectedRows(pid, from))

\* "-t PERIOD -- show only data for the task(s) with the given PERIOD"
\* (src/job_stats.c:127): when a period is given, every row is of a task with this period.
\* It does not hold when the period in nanoseconds does not fit into 32 bits.
OnlyGivenPeriod ==
    GivenPeriod # 0 =>
      \A i \in DOMAIN rows :
         \E p \in Infos(Rec(rows[i].release).pid, "ST_PARAM") : Rec(p).raw0 = GivenPeriod

\* A response time is what it says: completions come after releases in the lists, so
\* the unsigned difference never wraps around, whatever the order in which the files
\* were given and the records of different CPUs were written (src/job_stats.c:62).
ResponsesReal ==
    \A i \in DOMAIN rows :
       rows[i].response = At(rows[i].completion) - At(rows[i].release)

SwitchesOf(row, type) ==
    {r \in EventsOf(Rec(row.release).pid) :
       /\ Rec(r).job = Rec(row.release).job /\ Rec(r).type = type
       /\ At(row.release) <= At(r) /\ At(r) < At(row.completion)}

\* The number of times the job was switched to after it had been switched away from,
\* and how many of these were on another CPU than the last one it was switched away
\* from; the switches of other jobs of the task in between count for nothing
\* (src/job_stats.c:30-48).
SwitchesExact ==
    \A n \in DOMAIN rows :
       LET Before(r) == {a \in SwitchesOf(rows[n], "ST_SWITCH_AWAY") : At(a) < At(r)}
           resumed == {r \in SwitchesOf(rows[n], "ST_SWITCH_TO") : Before(r) # {}}
           Moved(r) == \E a \in Before(r) : /\ \A b \in Before(r) : At(b) <= At(a)
                                            /\ Rec(a).cpu # Rec(r).cpu
       IN  Plain(Rec(rows[n].release).pid) =>
             /\ rows[n].preemptions = Cardinality(resumed)
             /\ rows[n].migrations = Cardinality({r \in resumed : Moved(r)})

\* "There is one row for each job." (doc/howto-trace-and-analyze-a-schedule.md:88):
\* without filters every job whose release and completion are in the trace of a task
\* with an entry has a row.  It does not hold when a task falls behind so far that
\* more completions than the search looks at lie between the two.
OneRowForEachJob ==
    pc = "done" /\ ~command.wait_for_release =>
      \A pid \in PlainTasks : \A r, c \in EventsOf(pid) :
         /\ PassesFilters(pid) /\ Rec(r).type = "ST_RELEASE" /\ Rec(c).type = "ST_COMPLETION"
         /\ Rec(r).job = Rec(c).job /\ At(r) < At(c)
         => \E i \in DOMAIN rows : rows[i].release = r
=============================================================================
