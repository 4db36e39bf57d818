---------------------------- MODULE ScheduleTrace ---------------------------
(***************************************************************************)
(* Schedule traces (include/sched_trace.h): what the programs that read    *)
(* them, st_job_stats, stdump and st-draw, have in common.                 *)
(***************************************************************************)
EXTENDS Integers, Sequences

CONSTANTS
    Jobs,       \* the command lines, with the files they name
    MaxPid,     \* bound: the highest PID in a file
    MaxTime,    \* bound: the latest time in a file
    MaxFiles,   \* bound: how many files a command names
    MaxRecords  \* bound: how many records a file has

VARIABLES
    command,    \* the options of the program
    files,      \* the files it is given: [readable, recs]
    pc

-----------------------------------------------------------------------------
(* Records: raw0 and raw1 are the two words of the payload.  The first is  *)
(* the time of the event, except in the records that have none; it is then *)
(* what the record is about: a name, or the period of the task.            *)
Timed == {"ST_RELEASE", "ST_ASSIGNED", "ST_SWITCH_TO", "ST_SWITCH_AWAY", "ST_COMPLETION",
          "ST_BLOCK", "ST_RESUME", "ST_NP_ENTER", "ST_NP_EXIT", "ST_ACTION", "ST_SYS_RELEASE"}

Types == Timed \cup {"ST_NAME", "ST_PARAM", "ST_INVALID"}

Record == [type : Types, cpu : Nat, pid : 0 .. MaxPid, job : Nat,
           raw0 : 0 .. MaxTime, raw1 : Nat]

File == [readable : BOOLEAN, recs : Seq(Record)]

ASSUME ScheduleAssumption ==
    /\ MaxPid \in Nat /\ MaxTime \in Nat /\ MaxFiles \in Nat /\ MaxRecords \in Nat
    /\ \A job \in Jobs : /\ job.files \in Seq(File) /\ Len(job.files) <= MaxFiles
                         /\ \A f \in DOMAIN job.files : Len(job.files[f].recs) <= MaxRecords

\* A record is referred to by <<file, position>>.
Rec(r) == files[r[1]].recs[r[2]]

event_time(rec) == IF rec.type \in Timed THEN rec.raw0 ELSE 0

\* Every record of the files given.
Refs == UNION {{<<f, i>> : i \in DOMAIN files[f].recs} : f \in DOMAIN files}

None == <<>>

TraceInit ==
    /\ \E job \in Jobs : command = job.command /\ files = job.files
    /\ pc = "open"
=============================================================================
