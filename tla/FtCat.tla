------------------------------- MODULE FtCat -------------------------------
(***************************************************************************)
(* ftcat (src/ftcat.c): a process that switches events of one Feather-Trace*)
(* device on, reports that it is ready, and copies what the device records *)
(* to its output until nothing more can come.  It is stopped by a signal,  *)
(* whose handler switches the events off again.                            *)
(*                                                                         *)
(* The module models a set of such processes, each with a device of its    *)
(* own.  The device is kernel code: an event that is on adds a record to a *)
(* bounded buffer, or is lost when the buffer is full; read() blocks while *)
(* the buffer is empty and an event is on, and returns 0 when it is empty  *)
(* and none is on, which is what cat2stdout waits for.                     *)
(***************************************************************************)
EXTENDS Integers, Sequences

CONSTANTS
    Tracers,      \* the ftcat processes
    NrEvents,     \* events on the command line of each
    Faulty,       \* tracers whose device or event names may be refused
    Limits,       \* values of -s, counted in records; 0 when the option is absent
    BufferSize,   \* records a device buffers
    MaxRecords    \* bound: events that occur on a device

ASSUME FtCatAssumption ==
    /\ NrEvents \in Nat \ {0} /\ Faulty \subseteq Tracers
    /\ Limits \subseteq Nat /\ BufferSize \in Nat \ {0} /\ MaxRecords \in Nat

VARIABLES
    pc,           \* the statement a tracer is at
    stop_after,   \* its -s option
    event_count,  \* events noted in ids[], in the order of the command line
    status,       \* how the process ended
    pending,      \* a signal was sent and not yet taken
    pinged,       \* tracers whose PID file exists
    on,           \* device: events that are on
    emitted,      \* device: events that occurred
    buffer,       \* device: records not yet read
    accepted,     \* history: records the device took
    out           \* records written to the output

device == <<on, emitted, buffer, accepted>>
ftcat  == <<pc, stop_after, event_count, status, pending, pinged, device, out>>

Events == 1 .. NrEvents

\* The statements of main from the start of the process to its end.
Starting  == {"open", "install"}               \* signals still have their default action
Enabling  == {"enable", "ioctl", "ping"}
Alive     == Starting \cup Enabling \cup {"read", "close"}

Init ==
    /\ pc = [t \in Tracers |-> "none"] /\ stop_after = [t \in Tracers |-> 0]
    /\ event_count = [t \in Tracers |-> 0]
    /\ status = [t \in Tracers |-> "none"] /\ pending = [t \in Tracers |-> FALSE]
    /\ pinged = {} /\ on = [t \in Tracers |-> {}] /\ emitted = [t \in Tracers |-> 0]
    /\ buffer = [t \in Tracers |-> <<>>] /\ accepted = [t \in Tracers |-> <<>>]
    /\ out = [t \in Tracers |-> <<>>]

Goto(t, label) == pc' = [pc EXCEPT ![t] = label]

Exit(t, how) ==
    /\ Goto(t, "exited") /\ status' = [status EXCEPT ![t] = how]

-----------------------------------------------------------------------------
(* main *)

\* The process is created, by a shell.
Spawn(t) ==
    /\ pc[t] = "none" /\ Goto(t, "open")
    /\ \E limit \in Limits : stop_after' = [stop_after EXCEPT ![t] = limit]
    /\ UNCHANGED <<event_count, status, pending, pinged, device, out>>

Open(t) ==
    /\ pc[t] = "open" /\ Goto(t, "install")
    /\ UNCHANGED <<stop_after, event_count, status, pending, pinged, device, out>>

\* From here on SIGINT, SIGUSR1 and SIGTERM are taken by shutdown().
InstallHandlers(t) ==
    /\ pc[t] = "install" /\ Goto(t, "enable")
    /\ UNCHANGED <<stop_after, event_count, status, pending, pinged, device, out>>

\* Mutant: the event is switched on before it is noted.
NoteEventLate(t) ==
    /\ pc[t] = "enable" /\ event_count[t] < NrEvents
    /\ on' = [on EXCEPT ![t] = @ \cup {event_count[t] + 1}] /\ Goto(t, "ioctl")
    /\ UNCHANGED <<stop_after, event_count, status, pending, pinged, emitted, buffer,
                   accepted, out>>

\* enable_event: the event is noted first, then switched on.
NoteEvent(t) ==
    /\ pc[t] = "enable" /\ event_count[t] < NrEvents
    /\ event_count' = [event_count EXCEPT ![t] = @ + 1] /\ Goto(t, "ioctl")
    /\ UNCHANGED <<stop_after, status, pending, pinged, device, out>>

EnableEvent(t) ==
    /\ pc[t] = "ioctl"
    /\ on' = [on EXCEPT ![t] = @ \cup {event_count[t]}] /\ Goto(t, "enable")
    /\ UNCHANGED <<stop_after, event_count, status, pending, pinged, emitted, buffer, accepted, out>>

\* The device cannot be opened, a name is unknown, or the device refuses it.
InitFails(t) ==
    /\ t \in Faulty /\ pc[t] \in {"open", "enable", "ioctl"}
    /\ Exit(t, "failed")
    /\ UNCHANGED <<stop_after, event_count, pending, pinged, device, out>>

EnabledAll(t) ==
    /\ pc[t] = "enable" /\ event_count[t] = NrEvents /\ Goto(t, "ping")
    /\ UNCHANGED <<stop_after, event_count, status, pending, pinged, device, out>>

\* Mutant: the PID file is not written.
PingNot(t) ==
    /\ pc[t] = "ping" /\ Goto(t, "read")
    /\ UNCHANGED <<stop_after, event_count, status, pending, pinged, device, out>>

Ping(t) ==
    /\ pc[t] = "ping" /\ Goto(t, "read")
    /\ pinged' = pinged \cup {t}
    /\ UNCHANGED <<stop_after, event_count, status, pending, device, out>>

\* cat2stdout: one read() of any part of what is buffered, and its fwrite().
Read(t) ==
    /\ pc[t] = "read" /\ buffer[t] # <<>>
    /\ \E n \in 1 .. Len(buffer[t]) :
         /\ out' = [out EXCEPT ![t] = @ \o SubSeq(buffer[t], 1, n)]
         /\ buffer' = [buffer EXCEPT ![t] = SubSeq(@, n + 1, Len(@))]
    /\ Goto(t, IF stop_after[t] > 0 /\ Len(out'[t]) >= stop_after[t]
                THEN "close" ELSE "read")
    /\ UNCHANGED <<stop_after, event_count, status, pending, pinged, on, emitted, accepted>>

\* Mutant: the loop ends as soon as no event is on.
ReadEndEarly(t) ==
    /\ pc[t] = "read" /\ on[t] = {} /\ Goto(t, "close")
    /\ UNCHANGED <<stop_after, event_count, status, pending, pinged, device, out>>

\* read() returns 0.
ReadEnd(t) ==
    /\ pc[t] = "read" /\ buffer[t] = <<>> /\ on[t] = {} /\ Goto(t, "close")
    /\ UNCHANGED <<stop_after, event_count, status, pending, pinged, device, out>>

Close(t) ==
    /\ pc[t] = "close" /\ Exit(t, "ok")
    /\ UNCHANGED <<stop_after, event_count, pending, pinged, device, out>>

-----------------------------------------------------------------------------
(* Signals *)

\* Before the handlers are installed a signal ends the process.
DieOfSignal(t) ==
    /\ pc[t] \in Starting /\ pending[t]
    /\ pending' = [pending EXCEPT ![t] = FALSE] /\ Exit(t, "killed")
    /\ UNCHANGED <<stop_after, event_count, pinged, device, out>>

\* Mutant: the handler leaves out the event that was noted last.
ShutdownAllButLast(t) ==
    /\ pc[t] \in Alive \ Starting /\ pending[t]
    /\ pending' = [pending EXCEPT ![t] = FALSE]
    /\ on' = [on EXCEPT ![t] = @ \ (1 .. (event_count[t] - 1))]
    /\ UNCHANGED <<pc, stop_after, event_count, status, pinged, emitted, buffer, accepted, out>>

\* shutdown and disable_all: every noted event is switched off; main goes on
\* where it was.
Shutdown(t) ==
    /\ pc[t] \in Alive \ Starting /\ pending[t]
    /\ pending' = [pending EXCEPT ![t] = FALSE]
    /\ on' = [on EXCEPT ![t] = @ \ (1 .. event_count[t])]
    /\ UNCHANGED <<pc, stop_after, event_count, status, pinged, emitted, buffer, accepted, out>>

\* A signal is sent to the processes ts; those that have ended do not notice.
SendSignal(ts) ==
    pending' = [t \in Tracers |-> pending[t] \/ (t \in ts /\ pc[t] \in Alive)]

-----------------------------------------------------------------------------
(* The device *)

\* An event that is on occurs; the record takes the next sequence number,
\* also when it is lost because the buffer is full.
Emit(t) ==
    /\ pc[t] \in Alive /\ on[t] # {} /\ emitted[t] < MaxRecords
    /\ emitted' = [emitted EXCEPT ![t] = @ + 1]
    /\ IF Len(buffer[t]) < BufferSize
       THEN /\ buffer' = [buffer EXCEPT ![t] = Append(@, emitted'[t])]
            /\ accepted' = [accepted EXCEPT ![t] = Append(@, emitted'[t])]
       ELSE UNCHANGED <<buffer, accepted>>
    /\ UNCHANGED <<pc, stop_after, event_count, status, pending, pinged, on, out>>

-----------------------------------------------------------------------------
Main(t) ==
    \/ Open(t) \/ InstallHandlers(t) \/ NoteEvent(t) \/ EnableEvent(t)
    \/ InitFails(t) \/ EnabledAll(t) \/ Ping(t)
    \/ Read(t) \/ ReadEnd(t) \/ Close(t)

Handler(t) == DieOfSignal(t) \/ Shutdown(t)

\* Anybody may signal any of the processes at any time.
Signal ==
    /\ \E ts \in SUBSET Tracers : SendSignal(ts)
    /\ UNCHANGED <<pc, stop_after, event_count, status, pinged, device, out>>

Next == Signal \/ \E t \in Tracers : Spawn(t) \/ Main(t) \/ Handler(t) \/ Emit(t)

Spec == Init /\ [][Next]_ftcat

-----------------------------------------------------------------------------
(* Properties *)

\* Every variable holds what the process and its device can hold.
FtCatTypeOK ==
    /\ pc \in [Tracers -> Alive \cup {"none", "exited"}]
    /\ stop_after \in [Tracers -> Limits \cup {0}]
    /\ event_count \in [Tracers -> 0 .. NrEvents]
    /\ status \in [Tracers -> {"none", "ok", "failed", "killed"}]
    /\ pending \in [Tracers -> BOOLEAN] /\ pinged \subseteq Tracers
    /\ on \in [Tracers -> SUBSET Events] /\ emitted \in [Tracers -> 0 .. MaxRecords]
    /\ buffer \in [Tracers -> Seq(1 .. MaxRecords)]
    /\ accepted \in [Tracers -> Seq(1 .. MaxRecords)]
    /\ out \in [Tracers -> Seq(1 .. MaxRecords)]

(***************************************************************************)
(* enable_event notes an event before it switches it on, so that a signal  *)
(* at any moment finds every event that is on among those it switches off. *)
(***************************************************************************)
HandlerCovers == \A t \in Tracers : on[t] \subseteq 1 .. event_count[t]

(***************************************************************************)
(* A tracer that ends regularly, and was not told to stop after some       *)
(* amount, has written every record its device took, in order; what is in  *)
(* the buffer when the events are switched off is not lost.                *)
(***************************************************************************)
OutputComplete ==
    \A t \in Tracers :
        /\ accepted[t] = out[t] \o buffer[t]
        /\ status[t] = "ok" /\ stop_after[t] = 0 => out[t] = accepted[t]

(***************************************************************************)
(* A signal that reaches a tracer that has reported to be ready ends it.   *)
(***************************************************************************)
SignalEndsTracer ==
    \A t \in Tracers : (pc[t] = "read" /\ pending[t]) ~> pc[t] = "exited"
=============================================================================
