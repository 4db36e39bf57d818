------------------------------- MODULE StDraw -------------------------------
(***************************************************************************)
(* st-draw and the package sched_trace it is built on (sched_trace/file.py,*)
(* __init__.py, draw.py): it chooses the interval to draw, finds the tasks *)
(* that are active in it, gives each a row, and then draws when they were  *)
(* scheduled and their releases, completions, suspensions and wake-ups.    *)
(*                                                                         *)
(* Times on the command line are in the unit of the trace here.  How it is *)
(* drawn is left out, and so are the caches of SchedTrace, as st-draw has  *)
(* one object only.                                                        *)
(***************************************************************************)
EXTENDS ScheduleTrace, SequencesExt

VARIABLES
    start, end,     \* opts.start and opts.end: the interval
    rowed,          \* the tasks that have a row (task_idx)
    kind,           \* the kind of other records being drawn, an index of MARKS
    trace, pos,     \* the file being read, and the next of its records
    to,             \* the SWITCH_TO whose SWITCH_AWAY should be next, or None
    allocations,    \* the intervals drawn: <<SWITCH_TO, SWITCH_AWAY>>
    marks           \* the other records drawn

drawVars == <<start, end, rowed, kind, trace, pos, to, allocations, marks>>

-----------------------------------------------------------------------------
(* Attributes of a SchedTrace.                                             *)

\* The records that unpack knows; it raises an exception at any other.
UNPACK == {"ST_RELEASE", "ST_SWITCH_TO", "ST_SWITCH_AWAY", "ST_COMPLETION", "ST_BLOCK",
           "ST_RESUME", "ST_SYS_RELEASE", "ST_NAME", "ST_PARAM"}

\* No time: None, or an exception on the way to it.  Either ends the program.
NoTime == -1

\* Every record, in the order of iteration.
Records == FlattenSeq([f \in DOMAIN files |-> [i \in DOMAIN files[f].recs |-> <<f, i>>]])

OfType(types) == SelectSeq(Records, LAMBDA r : Rec(r).type \in types)

system_releases == OfType({"ST_SYS_RELEASE"})

\* Where the search of a file for a time ends.
Stops(f) == {i \in DOMAIN files[f].recs : \/ Rec(<<f, i>>).type \notin UNPACK
                                          \/ event_time(Rec(<<f, i>>)) > 0}

FirstStops ==
    UNION {{Rec(<<f, i>>) : i \in {j \in Stops(f) : \A k \in Stops(f) : j <= k}} :
             f \in DOMAIN files}

LastStops ==
    UNION {{Rec(<<f, i>>) : i \in {j \in Stops(f) : \A k \in Stops(f) : k <= j}} :
             f \in DOMAIN files}

Timeless(stops) == stops = {} \/ \E rec \in stops : rec.type \notin UNPACK

earliest_event_time ==
    IF Timeless(FirstStops) THEN NoTime ELSE Min({event_time(rec) : rec \in FirstStops})

latest_event_time ==
    IF Timeless(LastStops) THEN NoTime ELSE Max({event_time(rec) : rec \in LastStops})

-----------------------------------------------------------------------------
(* main: the interval.  A number that is not given, or is zero, is 0.      *)
TimeZero ==
    IF system_releases # <<>> THEN Rec(system_releases[1]).raw1 ELSE earliest_event_time

Given(time) ==
    IF time = 0 THEN 0
    ELSE IF ~command.relative THEN time
    ELSE IF TimeZero = NoTime THEN NoTime ELSE time + TimeZero

GivenStart == Given(command.start)
GivenEnd == Given(command.end)

StartTime ==
    LET chosen == IF GivenStart # 0 THEN GivenStart
                  ELSE IF GivenEnd # 0 /\ command.length # 0 THEN GivenEnd - command.length
                  ELSE TimeZero
    IN  IF command.quantum # 0 THEN (chosen \div command.quantum) * command.quantum ELSE chosen

EndTime ==
    IF GivenEnd # 0 THEN GivenEnd
    ELSE IF StartTime # 0 /\ command.length # 0 THEN StartTime + command.length
    ELSE latest_event_time

\* An attribute without a value is used.
NoFrame ==
    \/ GivenStart = NoTime \/ GivenEnd = NoTime
    \/ GivenStart = 0 /\ (GivenEnd = 0 \/ command.length = 0) /\ TimeZero = NoTime
    \/ EndTime = NoTime

DrawFrame == UNCHANGED <<command, files>>

CannotDraw ==
    /\ pc = "open"
    /\ (\E f \in DOMAIN files : ~files[f].readable) \/ NoFrame
    /\ pc' = "failed" /\ DrawFrame /\ UNCHANGED drawVars

Within(rec, from, until) == from <= event_time(rec) /\ event_time(rec) <= until

active_in_interval(from, until) ==
    {Rec(r).pid : r \in {q \in Refs : /\ Rec(q).type \in {"ST_SWITCH_TO", "ST_SWITCH_AWAY", "ST_RELEASE"}
                                      /\ Within(Rec(q), from, until)}}

\* The interval is known, and with it which tasks have rows.
Identify ==
    /\ pc = "open" /\ (\A f \in DOMAIN files : files[f].readable) /\ ~NoFrame
    /\ start' = StartTime /\ end' = EndTime
    /\ rowed' = active_in_interval(StartTime, EndTime)
    /\ pc' = "allocations" /\ DrawFrame
    /\ UNCHANGED <<kind, trace, pos, to, allocations, marks>>

-----------------------------------------------------------------------------
(* The iterators: events_of_type of a file after the other, for the pair   *)
(* of kinds or the one kind that is being drawn.                           *)
SWITCHES == {"ST_SWITCH_TO", "ST_SWITCH_AWAY"}

MARKS == <<"ST_RELEASE", "ST_COMPLETION", "ST_BLOCK", "ST_RESUME">>

Sought(r) ==
    IF pc = "allocations" THEN Rec(r).type \in SWITCHES
    ELSE Rec(r).type = MARKS[kind] /\ Within(Rec(r), start, end)

Reading == pc \in {"allocations", "marks"} /\ trace <= Len(files)

Ahead == {i \in DOMAIN files[trace].recs : pos <= i /\ Sought(<<trace, i>>)}

\* The position of the next record that the iterator yields, if there is one.
Yielded == {i \in Ahead : \A k \in Ahead : i <= k}

NextTrace ==
    /\ Reading /\ Ahead = {}
    /\ trace' = trace + 1 /\ pos' = 1 /\ to' = None
    /\ DrawFrame /\ UNCHANGED <<pc, start, end, rowed, kind, allocations, marks>>

-----------------------------------------------------------------------------
(* scheduling_intervals, and what render draws of it.                      *)
FastForward(i) ==
    /\ pc = "allocations" /\ to = None /\ Rec(<<trace, i>>).type # "ST_SWITCH_TO"
    /\ pos' = i + 1
    /\ DrawFrame /\ UNCHANGED <<pc, start, end, rowed, kind, trace, to, allocations, marks>>

SwitchTo(i) ==
    /\ pc = "allocations" /\ to = None /\ Rec(<<trace, i>>).type = "ST_SWITCH_TO"
    /\ to' = <<trace, i>> /\ pos' = i + 1
    /\ DrawFrame /\ UNCHANGED <<pc, start, end, rowed, kind, trace, allocations, marks>>

Matches(a, b) ==
    /\ b.type = "ST_SWITCH_AWAY" /\ b.cpu = a.cpu /\ b.pid = a.pid
    /\ event_time(a) <= event_time(b)

InRange(a, b) == ~(end < event_time(a) \/ event_time(b) < start)

Drawn(a, b) == Matches(Rec(a), Rec(b)) /\ InRange(Rec(a), Rec(b))

\* Mutant: what is no SWITCH_AWAY is not looked at again.
NotDrawnSkips(i) ==
    /\ pc = "allocations" /\ to # None /\ ~Drawn(to, <<trace, i>>)
    /\ to' = None /\ pos' = i + 1
    /\ DrawFrame /\ UNCHANGED <<pc, start, end, rowed, kind, trace, allocations, marks>>

\* The record is looked at again in any case, as it may be a SWITCH_TO.
NotDrawn(i) ==
    /\ pc = "allocations" /\ to # None /\ ~Drawn(to, <<trace, i>>)
    /\ to' = None
    /\ DrawFrame /\ UNCHANGED <<pc, start, end, rowed, kind, trace, pos, allocations, marks>>

\* task_idx[pid] raises KeyError for a task without a row.
DrawAllocation(i) ==
    /\ pc = "allocations" /\ to # None /\ Drawn(to, <<trace, i>>)
    /\ IF Rec(to).pid \in rowed
       THEN pc' = pc /\ allocations' = Append(allocations, <<to, <<trace, i>>>>)
       ELSE pc' = "no row" /\ UNCHANGED allocations
    /\ to' = None
    /\ DrawFrame /\ UNCHANGED <<start, end, rowed, kind, trace, pos, marks>>

AllocationsDrawn ==
    /\ pc = "allocations" /\ ~Reading
    /\ pc' = "marks" /\ trace' = 1 /\ pos' = 1
    /\ DrawFrame /\ UNCHANGED <<start, end, rowed, kind, to, allocations, marks>>

-----------------------------------------------------------------------------
(* The other records that are drawn, kind by kind.                         *)
DrawMark(i) ==
    /\ pc = "marks"
    /\ IF Rec(<<trace, i>>).pid \in rowed
       THEN pc' = pc /\ marks' = Append(marks, <<trace, i>>)
       ELSE pc' = "no row" /\ UNCHANGED marks
    /\ pos' = i + 1
    /\ DrawFrame /\ UNCHANGED <<start, end, rowed, kind, trace, to, allocations>>

NextKind ==
    /\ pc = "marks" /\ ~Reading /\ kind < Len(MARKS)
    /\ kind' = kind + 1 /\ trace' = 1 /\ pos' = 1
    /\ DrawFrame /\ UNCHANGED <<pc, start, end, rowed, to, allocations, marks>>

Finish ==
    /\ pc = "marks" /\ ~Reading /\ kind = Len(MARKS) /\ pc' = "done"
    /\ DrawFrame /\ UNCHANGED drawVars

-----------------------------------------------------------------------------
DrawInit ==
    /\ start = 0 /\ end = 0 /\ rowed = {} /\ kind = 1 /\ trace = 1 /\ pos = 1 /\ to = None
    /\ allocations = <<>> /\ marks = <<>>

StDrawInit == TraceInit /\ DrawInit

StDrawNext ==
    \/ CannotDraw \/ Identify
    \/ NextTrace \/ AllocationsDrawn \/ NextKind \/ Finish
    \/ Reading /\ \E i \in Yielded : \/ FastForward(i) \/ SwitchTo(i) \/ NotDrawn(i)
                                    \/ DrawAllocation(i) \/ DrawMark(i)

stDrawVars == <<command, files, pc, drawVars>>

StDrawSpec == StDrawInit /\ [][StDrawNext]_stDrawVars

-----------------------------------------------------------------------------
\* The times at which a task ran, in terms of the file: a switch to it and, with no
\* other switch recorded in between, one away from it that is not earlier.
RanFrom(a, b) ==
    /\ a[1] = b[1] /\ a[2] < b[2] /\ Rec(a).type = "ST_SWITCH_TO"
    /\ \A k \in a[2] + 1 .. b[2] - 1 : Rec(<<a[1], k>>).type \notin SWITCHES
    /\ Matches(Rec(a), Rec(b))

Ran == {ran \in Refs \X Refs : RanFrom(ran[1], ran[2])}

RanInRange == {ran \in Ran : InRange(Rec(ran[1]), Rec(ran[2]))}

MarksInRange == {r \in Refs : /\ Within(Rec(r), start, end)
                              /\ Rec(r).type \in {"ST_RELEASE", "ST_COMPLETION",
                                                  "ST_BLOCK", "ST_RESUME"}}

\* Nothing that belongs in the drawing is left out, and nothing is in it twice, however
\* records of switches are missing or doubled (sched_trace/file.py:38-58): the times at
\* which a task ran in the interval, and the releases, completions, suspensions and
\* wake-ups in it.
DrawingExact ==
    /\ pc \in {"marks", "done"} /\ command.program = "st-draw" =>
         /\ ToSet(allocations) = RanInRange
         /\ Len(allocations) = Cardinality(RanInRange)
    /\ pc = "done" /\ command.program = "st-draw" =>
         /\ ToSet(marks) = MarksInRange
         /\ Len(marks) = Cardinality(MarksInRange)

\* "By default, it will render the first one thousand milliseconds after time zero"
\* (doc/howto-trace-and-analyze-a-schedule.md:60).  It does not when a task is drawn in
\* the interval without a switch or a release in it: one that runs all the time, or
\* only wakes up, is suspended or completes.
AlwaysRendered == pc # "no row"
=============================================================================
