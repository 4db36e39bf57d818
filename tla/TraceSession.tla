---------------------------- MODULE TraceSession ----------------------------
(***************************************************************************)
(* The script ft-trace-overheads, which runs one ftcat per device:         *)
(* it spawns them in the background, waits until every one has written its *)
(* PID file, tells the user so, and ends them when the user asks to, by    *)
(* pressing Enter or, when started with -s, by sending SIGUSR1.            *)
(* st-trace-schedule is built the same way.                                *)
(*                                                                         *)
(* A trap runs between two commands of the script, so that what a loop     *)
(* body does in several commands can be cut short between them.            *)
(***************************************************************************)
EXTENDS FtCat, FiniteSets

CONSTANTS
    Modes,         \* ways to start it: TRUE stands for -s
    EarlySignal    \* the user may send SIGUSR1 before being told to

ASSUME SessionAssumption ==
    /\ IsFiniteSet(Tracers) /\ Modes \subseteq BOOLEAN /\ EarlySignal \in BOOLEAN

VARIABLES
    AUTO,          \* started with -s
    spc,           \* the command the script is at; "none" if tracers run without it
    last,          \* $!: the tracer spawned last
    PIDS,          \* the tracers the script knows of
    COUNT,         \* their number
    announced,     \* the user has been told that tracing is on
    usr1           \* SIGUSR1: not sent, pending or taken

script  == <<AUTO, spc, last, PIDS, COUNT, announced, usr1>>
session == <<ftcat, script>>

Spawned == {t \in Tracers : pc[t] # "none"}

SessionInit ==
    /\ Init
    /\ AUTO \in Modes /\ spc = "loop" /\ last = {} /\ PIDS = {} /\ COUNT = 0
    /\ announced = FALSE /\ usr1 = "no"

-----------------------------------------------------------------------------
\* Mutant: the tracer is counted when it is spawned, too.
SpawnCounts ==
    /\ spc = "loop"
    /\ \E t \in Tracers : Spawn(t) /\ stop_after'[t] = 0 /\ last' = {t}
    /\ spc' = "note" /\ COUNT' = COUNT + 1
    /\ UNCHANGED <<AUTO, PIDS, announced, usr1>>

\* $FTCAT ... > $TRACE &, without -s.
SpawnNext ==
    /\ spc = "loop"
    /\ \E t \in Tracers : Spawn(t) /\ stop_after'[t] = 0 /\ last' = {t}
    /\ spc' = "note"
    /\ UNCHANGED <<AUTO, PIDS, COUNT, announced, usr1>>

\* PIDS="$PIDS $!"
NotePid ==
    /\ spc = "note"
    /\ PIDS' = PIDS \cup last /\ spc' = "count"
    /\ UNCHANGED <<ftcat, AUTO, last, COUNT, announced, usr1>>

\* COUNT=$((COUNT + 1))
CountTracer ==
    /\ spc = "count"
    /\ COUNT' = COUNT + 1 /\ spc' = "loop"
    /\ UNCHANGED <<ftcat, AUTO, last, PIDS, announced, usr1>>

LoopDone ==
    /\ spc = "loop" /\ Spawned = Tracers
    /\ spc' = "barrier"
    /\ UNCHANGED <<ftcat, AUTO, last, PIDS, COUNT, announced, usr1>>

\* Mutant: tracers that are gone count as ready.
ReadyAnyway ==
    /\ spc = "barrier"
    /\ Cardinality(pinged \cup {t \in Tracers : pc[t] = "exited"}) = COUNT
    /\ spc' = "announce"
    /\ UNCHANGED <<ftcat, AUTO, last, PIDS, COUNT, announced, usr1>>

\* READY = COUNT; otherwise the script sleeps and looks again.
Ready ==
    /\ spc = "barrier" /\ Cardinality(pinged) = COUNT
    /\ spc' = "announce"
    /\ UNCHANGED <<ftcat, AUTO, last, PIDS, COUNT, announced, usr1>>

\* The PID files are removed, and the user is told how to end tracing.
Announce ==
    /\ spc = "announce"
    /\ announced' = TRUE /\ spc' = "wait"
    /\ UNCHANGED <<ftcat, AUTO, last, PIDS, COUNT, usr1>>

\* read returns, the user has pressed Enter.
Enter ==
    /\ spc = "wait" /\ ~AUTO
    /\ spc' = "finish"
    /\ UNCHANGED <<ftcat, AUTO, last, PIDS, COUNT, announced, usr1>>

\* The user sends SIGUSR1.
SendUsr1 ==
    /\ usr1 = "no" /\ (announced \/ EarlySignal)
    /\ spc \notin {"finish", "reap", "exited"}
    /\ usr1' = "pending"
    /\ UNCHANGED <<ftcat, AUTO, spc, last, PIDS, COUNT, announced>>

\* The trap; read is not interrupted by it, wait is.  With -s nothing else ends the
\* wait for the tracers, which run until they are signalled.
Trap ==
    /\ usr1 = "pending" /\ spc \in {"loop", "note", "count", "barrier", "announce", "wait"}
    /\ spc = "wait" => AUTO
    /\ usr1' = "taken" /\ spc' = "finish"
    /\ UNCHANGED <<ftcat, AUTO, last, PIDS, COUNT, announced>>

\* Mutant: only the tracer spawned last is signalled.
KillTracersLast ==
    /\ spc = "finish"
    /\ SendSignal(last) /\ spc' = "reap"
    /\ UNCHANGED <<pc, stop_after, event_count, status, pinged, device, out,
                   AUTO, last, PIDS, COUNT, announced, usr1>>

\* Mutant: kill -9, which no handler sees.
KillTracersHard ==
    /\ spc = "finish" /\ spc' = "reap"
    /\ pc' = [t \in Tracers |-> IF t \in PIDS THEN "exited" ELSE pc[t]]
    /\ UNCHANGED <<pending, stop_after, event_count, status, pinged, device, out,
                   AUTO, last, PIDS, COUNT, announced, usr1>>

\* kill $PIDS
KillTracers ==
    /\ spc = "finish"
    /\ SendSignal(PIDS) /\ spc' = "reap"
    /\ UNCHANGED <<pc, stop_after, event_count, status, pinged, device, out,
                   AUTO, last, PIDS, COUNT, announced, usr1>>

\* Mutant: the script does not wait.
WaitTracersNot ==
    /\ spc = "reap" /\ spc' = "exited"
    /\ UNCHANGED <<ftcat, AUTO, last, PIDS, COUNT, announced, usr1>>

\* wait $PIDS, which without arguments waits for every child; then exit 0.
WaitTracers ==
    /\ spc = "reap"
    /\ \A t \in (IF PIDS = {} THEN Spawned ELSE PIDS) : pc[t] = "exited"
    /\ spc' = "exited"
    /\ UNCHANGED <<ftcat, AUTO, last, PIDS, COUNT, announced, usr1>>

-----------------------------------------------------------------------------
Script == \/ SpawnNext \/ NotePid \/ CountTracer \/ LoopDone \/ Ready \/ Announce
          \/ KillTracers \/ WaitTracers

User == Enter \/ SendUsr1

Tracing == \E t \in Tracers : Main(t) \/ Handler(t) \/ Emit(t)

SessionNext == Script \/ Trap \/ User \/ (Tracing /\ UNCHANGED script)

SessionSpec == SessionInit /\ [][SessionNext]_session

\* Every process runs, and every signal sent is taken; users and events need
\* not come.
SessionFairness ==
    /\ WF_session(Script) /\ WF_session(Trap)
    /\ \A t \in Tracers : /\ WF_session(Main(t) /\ UNCHANGED script)
                          /\ WF_session(Handler(t) /\ UNCHANGED script)

FairSessionSpec == SessionSpec /\ SessionFairness

-----------------------------------------------------------------------------
(* Properties *)

\* The script's variables, beside those of its tracers.
SessionTypeOK ==
    /\ FtCatTypeOK
    /\ AUTO \in Modes
    /\ spc \in {"none", "loop", "note", "count", "barrier", "announce", "wait", "finish",
                "reap", "exited"}
    /\ last \subseteq Tracers /\ PIDS \subseteq Tracers /\ COUNT \in 0 .. Cardinality(Tracers)
    /\ announced \in BOOLEAN /\ usr1 \in {"no", "pending", "taken"}

(***************************************************************************)
(* "it is guaranteed that the string [...] does not appear in the script's *)
(* output until initialization is complete on all cores"                   *)
(* (doc/howto-trace-and-process-overheads.md): when the user is told, every*)
(* tracer has all of its events on, until it is signalled.                 *)
(***************************************************************************)
AnnouncedReady ==
    announced =>
        \A t \in Tracers :
            /\ pc[t] \in {"read", "close", "exited"} /\ status[t] # "failed"
            /\ spc = "wait" /\ pc[t] = "read" => on[t] = Events

(***************************************************************************)
(* The script goes on from the wait for its tracers to the announcement,   *)
(* unless one of them has failed or the user has stopped it.               *)
(***************************************************************************)
GetsReady ==
    spc = "barrier" ~> (announced \/ usr1 # "no" \/ \E t \in Tracers : status[t] = "failed")

(***************************************************************************)
(* A session whose tracers have all been initialized, or have failed to    *)
(* be, and which is asked to end does end, all tracers with it, and every  *)
(* record the devices of the others took is in the trace files.  A tracer  *)
(* that fails keeps the session from being announced (AnnouncedReady), but *)
(* not from being ended with SIGUSR1 or from being of use.                 *)
(***************************************************************************)
Initialized == PIDS = Tracers /\ \A t \in Tracers : t \in pinged \/ status[t] = "failed"

AskedToEnd == spc = "finish" \/ (AUTO /\ usr1 = "pending")

AllEnded ==
    /\ spc = "exited"
    /\ \A t \in Tracers : pc[t] = "exited" /\ (t \in pinged => out[t] = accepted[t])

EndsCleanly == (Initialized /\ AskedToEnd) ~> AllEnded

(***************************************************************************)
(* What the session does to its tracers is something tracers may meet: the *)
(* session implements the specification of FtCat, which allows any signal  *)
(* at any time, so what holds of tracers there holds of them here.         *)
(***************************************************************************)
TracersAsSpecified == Spec

(***************************************************************************)
(* A script that has ended leaves no tracer behind, whenever the signal    *)
(* came that ended it, but for one: that which it had just spawned and not *)
(* yet noted the PID of.                                                   *)
(***************************************************************************)
NoTracerLeft ==
    spc = "exited" => \A t \in Tracers : pc[t] \in {"none", "exited"} \/ t \in last \ PIDS

(***************************************************************************)
(* "provide the `-s` flag to `ft-trace-overheads`, which will make it      *)
(* terminate cleanly when it receives the `SIGUSR1` signal"                *)
(* (doc/howto-trace-and-process-overheads.md), whenever that is.           *)
(***************************************************************************)
TerminatesOnUsr1 == AUTO /\ usr1 = "pending" ~> spc = "exited"
=============================================================================
