------------------------------- MODULE StDump -------------------------------
(***************************************************************************)
(* stdump (src/stdump.c): prints the records of a schedule trace in the    *)
(* order of time, or only when the task system was released.               *)
(***************************************************************************)
EXTENDS ScheduleLoad

VARIABLES
    find_release,   \* the release is still to be found
    first,          \* the first record that has a time, or None
    printed,        \* the records printed
    released        \* the release time printed, if any

dumpVars == <<find_release, first, printed, released>>

-----------------------------------------------------------------------------
DumpTake(r) ==
    /\ pc = "run" /\ Take(r)
    /\ first' = IF first = None /\ event_time(Rec(r)) # 0 THEN r ELSE first

DumpEvent(r) ==
    /\ ~find_release
    /\ DumpTake(r) /\ pc' = pc /\ printed' = Append(printed, r)
    /\ UNCHANGED <<find_release, released>>

DumpPasses(r) ==
    /\ find_release /\ Rec(r).type # "ST_SYS_RELEASE"
    /\ DumpTake(r) /\ pc' = pc
    /\ UNCHANGED <<find_release, printed, released>>

DumpRelease(r) ==
    /\ find_release /\ Rec(r).type = "ST_SYS_RELEASE"
    /\ DumpTake(r) /\ pc' = "done"
    /\ released' = <<Rec(r).raw1>> /\ find_release' = FALSE
    /\ UNCHANGED printed

\* With -f the first time stands in for a release that is not in the trace.
DumpEnds ==
    /\ pc = "run" /\ Drained /\ pc' = "done"
    /\ released' = IF find_release /\ command.use_first_nonzero /\ first # None
                   THEN <<event_time(Rec(first))>> ELSE released
    /\ UNCHANGED <<find_release, first, printed>>

DumpInit ==
    /\ find_release = command.find_release
    /\ first = None /\ printed = <<>> /\ released = <<>>

StDumpInit == LoadInit /\ DumpInit

StDumpNext ==
    \/ Load /\ UNCHANGED dumpVars
    \/ \E r \in Earliest(h) : DumpEvent(r) \/ DumpPasses(r) \/ DumpRelease(r)
    \/ DumpEnds

stDumpVars == <<loadVars, dumpVars>>

StDumpSpec == StDumpInit /\ [][StDumpNext]_stDumpVars

-----------------------------------------------------------------------------
\* What is printed is in the order of time, and in the end it is every record of every
\* file, as often as it was recorded; the number of records that -c reports is theirs
\* (src/stdump.c:73-91).
PrintedExact ==
    /\ InOrder(printed)
    /\ pc = "done" /\ command.program = "stdump" => count = Cardinality(Refs)
    /\ pc = "done" /\ command.program = "stdump" /\ ~command.find_release =>
         /\ Len(printed) = Cardinality(Refs)
         /\ \A r \in Refs : \E i \in DOMAIN printed : printed[i] = r

Releases == {r \in Refs : Rec(r).type = "ST_SYS_RELEASE"}

Times == {event_time(Rec(r)) : r \in Refs} \ {0}

\* With -r the release time in the earliest SYS_RELEASE record of all files is printed
\* and nothing else; if there is none, -f prints the earliest time in the trace
\* (src/stdump.c:84-95).
ReleaseReported ==
    pc = "done" /\ command.find_release =>
      /\ printed = <<>>
      /\ IF Releases # {}
         THEN \E r \in Releases : /\ released = <<Rec(r).raw1>>
                                  /\ \A q \in Releases : Rec(r).raw0 <= Rec(q).raw0
         ELSE IF command.use_first_nonzero /\ Times # {}
              THEN \E time \in Times : released = <<time>> /\ \A u \in Times : time <= u
              ELSE released = <<>>

\* In both modes stdump says of the trace what is in it, however many files it is in.
DumpExact == PrintedExact /\ ReleaseReported
=============================================================================
