------------------------- MODULE TraceSessionProofs -------------------------
(***************************************************************************)
(* What holds of ftcat for any number of events and of signals, and of the *)
(* tracing session for any finite number of devices.                       *)
(***************************************************************************)
EXTENDS TraceSession, SequenceTheorems, FiniteSetTheorems, TLAPS

-----------------------------------------------------------------------------
(* What a tracer writes. *)

OutTypes ==
    /\ pc \in [Tracers -> Alive \cup {"none", "exited"}]
    /\ status \in [Tracers -> {"none", "ok", "failed", "killed"}]
    /\ event_count \in [Tracers -> Nat] /\ stop_after \in [Tracers -> Nat]
    /\ on \in [Tracers -> SUBSET Nat]
    /\ emitted \in [Tracers -> Nat] /\ buffer \in [Tracers -> Seq(Nat)]
    /\ accepted \in [Tracers -> Seq(Nat)] /\ out \in [Tracers -> Seq(Nat)]

\* A tracer without a limit that has left its loop has emptied the buffer, and the
\* device has nothing on that could fill it again.
Drained(t) ==
    /\ pc[t] # "exited" => status[t] = "none"
    /\ pc[t] = "close" /\ stop_after[t] = 0 => buffer[t] = <<>> /\ on[t] = {}
    /\ status[t] = "ok" /\ stop_after[t] = 0 => buffer[t] = <<>>

\* What the device took is in the output or still in the buffer.
NothingLost(t) == accepted[t] = out[t] \o buffer[t]

OutInv == OutTypes /\ \A t \in Tracers : NothingLost(t) /\ Drained(t)

LEMMA InitOutInv == Init => OutInv
<1> SUFFICES ASSUME Init PROVE OutInv
  OBVIOUS
<1>1. <<>> \in Seq(Nat) /\ <<>> \o <<>> = <<>>
  BY EmptySeq, ConcatEmptySeq, <<>> \in Seq(Nat)
<1>2. QED
  BY <1>1 DEF Init, OutInv, OutTypes, Drained, NothingLost, Alive, Starting, Enabling

\* Sequences of records: what the provers need to be told of them.
LEMMA Joined == ASSUME NEW p \in Seq(Nat), NEW q \in Seq(Nat) PROVE p \o q \in Seq(Nat)
  OBVIOUS

LEMMA JoinedTwice == ASSUME NEW o \in Seq(Nat), NEW p \in Seq(Nat), NEW q \in Seq(Nat)
  PROVE (o \o p) \o q = o \o (p \o q)
  BY ConcatAssociative, SMTT(60)

LEMMA OneRecord == ASSUME NEW x \in Nat PROVE <<x>> \in Seq(Nat)
  OBVIOUS

LEMMA OneMoreRecord == ASSUME NEW p \in Seq(Nat), NEW x \in Nat PROVE Append(p, x) = p \o <<x>>
  BY AppendIsConcat, Zenon

LEMMA TakenApart ==
    ASSUME NEW b \in Seq(Nat), NEW n \in 1 .. Len(b)
    PROVE  /\ SubSeq(b, 1, n) \in Seq(Nat) /\ SubSeq(b, n + 1, Len(b)) \in Seq(Nat)
           /\ SubSeq(b, 1, n) \o SubSeq(b, n + 1, Len(b)) = b
<1>1. SubSeq(b, 1, n) \in Seq(Nat)
  OBVIOUS
<1>2. SubSeq(b, n + 1, Len(b)) \in Seq(Nat)
  OBVIOUS
<1>3. SubSeq(b, 1, n) \o SubSeq(b, n + 1, Len(b)) = b
  OBVIOUS
<1>4. QED
  BY <1>1, <1>2, <1>3

\* What read() takes from the front of the buffer, written after what was written before.
LEMMA MovedAlong ==
    ASSUME NEW o \in Seq(Nat), NEW b \in Seq(Nat), NEW n \in 1 .. Len(b)
    PROVE  /\ o \o SubSeq(b, 1, n) \in Seq(Nat) /\ SubSeq(b, n + 1, Len(b)) \in Seq(Nat)
           /\ (o \o SubSeq(b, 1, n)) \o SubSeq(b, n + 1, Len(b)) = o \o b
<1>1. /\ SubSeq(b, 1, n) \in Seq(Nat) /\ SubSeq(b, n + 1, Len(b)) \in Seq(Nat)
      /\ SubSeq(b, 1, n) \o SubSeq(b, n + 1, Len(b)) = b
  BY TakenApart
<1>2. o \o SubSeq(b, 1, n) \in Seq(Nat)
  BY <1>1, Joined, Zenon
<1>3. (o \o SubSeq(b, 1, n)) \o SubSeq(b, n + 1, Len(b))
        = o \o (SubSeq(b, 1, n) \o SubSeq(b, n + 1, Len(b)))
  BY <1>1, JoinedTwice, Zenon
<1>4. QED
  BY <1>1, <1>2, <1>3, Zenon

\* A record that the device takes is the last of those it has taken and of the buffer.
LEMMA TakenLast ==
    ASSUME NEW o \in Seq(Nat), NEW b \in Seq(Nat), NEW x \in Nat
    PROVE  Append(o \o b, x) = o \o Append(b, x)
<1>1. <<x>> \in Seq(Nat)
  BY OneRecord
<1>2. o \o b \in Seq(Nat)
  BY Joined
<1>3. Append(o \o b, x) = (o \o b) \o <<x>>
  BY <1>2, OneMoreRecord, Zenon
<1>4. Append(b, x) = b \o <<x>>
  BY OneMoreRecord, Zenon
<1>5. (o \o b) \o <<x>> = o \o (b \o <<x>>)
  BY <1>1, JoinedTwice, Zenon
<1>6. QED
  BY <1>3, <1>4, <1>5, Zenon

\* The step of the device when there is room in the buffer.
LEMMA EmitTakes ==
    ASSUME OutInv, NEW t \in Tracers, Emit(t), Len(buffer[t]) < BufferSize
    PROVE  /\ buffer'[t] \in Seq(Nat) /\ accepted'[t] \in Seq(Nat)
           /\ accepted'[t] = out[t] \o buffer'[t]
           /\ buffer' = [buffer EXCEPT ![t] = buffer'[t]]
           /\ accepted' = [accepted EXCEPT ![t] = accepted'[t]]
<1>1. /\ out[t] \in Seq(Nat) /\ buffer[t] \in Seq(Nat) /\ accepted[t] = out[t] \o buffer[t]
      /\ emitted \in [Tracers -> Nat] /\ buffer \in [Tracers -> Seq(Nat)]
      /\ accepted \in [Tracers -> Seq(Nat)]
  BY DEF OutInv, OutTypes, NothingLost
<1>2. /\ emitted' = [emitted EXCEPT ![t] = emitted[t] + 1]
      /\ buffer' = [buffer EXCEPT ![t] = Append(buffer[t], emitted'[t])]
      /\ accepted' = [accepted EXCEPT ![t] = Append(accepted[t], emitted'[t])]
  BY DEF Emit
<1>3. PICK x \in Nat : x = emitted'[t]
  BY <1>1, <1>2
<1>4. buffer'[t] = Append(buffer[t], x) /\ accepted'[t] = Append(accepted[t], x)
  BY <1>1, <1>2, <1>3, Zenon
<1>5. Append(buffer[t], x) \in Seq(Nat)
  BY <1>1
<1>6. accepted'[t] = out[t] \o buffer'[t]
  BY <1>1, <1>4, TakenLast, Zenon
<1>7. out[t] \o buffer'[t] \in Seq(Nat)
  BY <1>1, <1>4, <1>5, Joined, Zenon
<1>8. QED
  BY <1>2, <1>3, <1>4, <1>5, <1>6, <1>7, Zenon

\* The step of the loop: what is in the output and the buffer together stays.
LEMMA ReadMoves ==
    ASSUME OutInv, NEW t \in Tracers, Read(t)
    PROVE  /\ out'[t] \in Seq(Nat) /\ buffer'[t] \in Seq(Nat)
           /\ out'[t] \o buffer'[t] = out[t] \o buffer[t]
           /\ out' = [out EXCEPT ![t] = out'[t]]
           /\ buffer' = [buffer EXCEPT ![t] = buffer'[t]]
<1>1. /\ out[t] \in Seq(Nat) /\ buffer[t] \in Seq(Nat)
      /\ out \in [Tracers -> Seq(Nat)] /\ buffer \in [Tracers -> Seq(Nat)]
  BY DEF OutInv, OutTypes
<1>2. PICK n \in 1 .. Len(buffer[t]) :
        /\ out' = [out EXCEPT ![t] = out[t] \o SubSeq(buffer[t], 1, n)]
        /\ buffer' = [buffer EXCEPT ![t] = SubSeq(buffer[t], n + 1, Len(buffer[t]))]
  BY DEF Read
<1>3. /\ out'[t] = out[t] \o SubSeq(buffer[t], 1, n)
      /\ buffer'[t] = SubSeq(buffer[t], n + 1, Len(buffer[t]))
  BY <1>1, <1>2, Zenon
<1>4. /\ out[t] \o SubSeq(buffer[t], 1, n) \in Seq(Nat)
      /\ SubSeq(buffer[t], n + 1, Len(buffer[t])) \in Seq(Nat)
      /\ (out[t] \o SubSeq(buffer[t], 1, n)) \o SubSeq(buffer[t], n + 1, Len(buffer[t]))
           = out[t] \o buffer[t]
  BY <1>1, MovedAlong
<1>5. QED
  BY <1>2, <1>3, <1>4, Zenon

\* A step that leaves the records where they are.
LEMMA RecordsStay ==
    ASSUME UNCHANGED <<buffer, accepted, out>>, OutInv
    PROVE  \A t \in Tracers : NothingLost(t)'
BY DEF OutInv, NothingLost

LEMMA StepKeepsOutInv == ASSUME OutInv, [Next]_ftcat PROVE OutInv'
<1> USE DEF OutTypes, Drained, device, Goto, Alive, Starting, Enabling
<1>0. OutTypes /\ \A t \in Tracers : NothingLost(t) /\ Drained(t)
  BY DEF OutInv
<1>1. ASSUME UNCHANGED <<buffer, accepted, out>>, OutTypes', \A t \in Tracers : Drained(t)'
      PROVE  OutInv'
  BY <1>1, RecordsStay DEF OutInv
<1>2. CASE UNCHANGED ftcat
  BY <1>0, <1>1, <1>2 DEF ftcat
<1>3. CASE Signal
  BY <1>0, <1>1, <1>3 DEF Signal
<1>4. ASSUME NEW t \in Tracers, Spawn(t) PROVE OutInv'
  BY <1>0, <1>1, <1>4, FtCatAssumption DEF Spawn
<1>5. ASSUME NEW t \in Tracers, Emit(t) PROVE OutInv'
  <2>1. /\ emitted' = [emitted EXCEPT ![t] = emitted[t] + 1] /\ pc[t] \in Alive /\ on[t] # {}
        /\ UNCHANGED <<pc, stop_after, event_count, status, on, out>>
    BY <1>5 DEF Emit
  <2>2. CASE Len(buffer[t]) < BufferSize
    <3>1. /\ buffer'[t] \in Seq(Nat) /\ accepted'[t] \in Seq(Nat)
          /\ accepted'[t] = out[t] \o buffer'[t]
          /\ buffer' = [buffer EXCEPT ![t] = buffer'[t]]
          /\ accepted' = [accepted EXCEPT ![t] = accepted'[t]]
      BY <1>5, <2>2, EmitTakes
    <3>2. OutTypes'
      <4>1. emitted' \in [Tracers -> Nat]
        BY <1>0, <2>1
      <4>2. buffer' \in [Tracers -> Seq(Nat)] /\ accepted' \in [Tracers -> Seq(Nat)]
        BY <1>0, <3>1, Zenon
      <4>3. QED
        BY <1>0, <2>1, <4>1, <4>2, Zenon
    <3>3. \A u \in Tracers : Drained(u)'
      BY <1>0, <2>1, <3>1
    <3>4. \A u \in Tracers : NothingLost(u)'
      BY <1>0, <2>1, <3>1, Zenon DEF NothingLost
    <3>5. QED
      BY <3>2, <3>3, <3>4 DEF OutInv
  <2>3. CASE ~(Len(buffer[t]) < BufferSize)
    <3>1. UNCHANGED <<buffer, accepted>>
      BY <1>5, <2>3 DEF Emit
    <3>2. QED
      BY <1>0, <1>1, <2>1, <3>1
  <2>4. QED
    BY <2>2, <2>3
<1>6. ASSUME NEW t \in Tracers, Main(t) PROVE OutInv'
  <2>1. CASE Open(t) \/ InstallHandlers(t) \/ InitFails(t) \/ EnabledAll(t) \/ Ping(t)
    BY <1>0, <1>1, <2>1 DEF Open, InstallHandlers, InitFails, EnabledAll, Ping, Exit
  <2>2. CASE NoteEvent(t)
    BY <1>0, <1>1, <2>2 DEF NoteEvent
  <2>3. CASE EnableEvent(t)
    BY <1>0, <1>1, <2>3 DEF EnableEvent
  <2>4. CASE Read(t)
    <3>1. /\ out'[t] \in Seq(Nat) /\ buffer'[t] \in Seq(Nat)
          /\ out'[t] \o buffer'[t] = out[t] \o buffer[t]
          /\ out' = [out EXCEPT ![t] = out'[t]]
          /\ buffer' = [buffer EXCEPT ![t] = buffer'[t]]
      BY <2>4, ReadMoves
    <3>2. /\ pc[t] = "read"
          /\ \/ pc' = [pc EXCEPT ![t] = "close"] /\ stop_after[t] > 0
             \/ pc' = [pc EXCEPT ![t] = "read"]
          /\ UNCHANGED <<stop_after, event_count, status, on, emitted, accepted>>
      BY <2>4 DEF Read
    <3>3. OutTypes'
      BY <1>0, <3>1, <3>2
    <3>4. \A u \in Tracers : Drained(u)'
      BY <1>0, <3>1, <3>2, SMTT(60)
    <3>5. \A u \in Tracers : NothingLost(u)'
      BY <1>0, <3>1, <3>2, ZenonT(60) DEF NothingLost
    <3>6. QED
      BY <3>3, <3>4, <3>5 DEF OutInv
  <2>5. CASE ReadEnd(t)
    BY <1>0, <1>1, <2>5 DEF ReadEnd
  <2>6. CASE Close(t)
    BY <1>0, <1>1, <2>6 DEF Close, Exit
  <2>7. QED
    BY <1>6, <2>1, <2>2, <2>3, <2>4, <2>5, <2>6 DEF Main
<1>7. ASSUME NEW t \in Tracers, Handler(t) PROVE OutInv'
  <2>1. CASE DieOfSignal(t)
    BY <1>0, <1>1, <2>1 DEF DieOfSignal, Exit
  <2>2. CASE Shutdown(t)
    BY <1>0, <1>1, <2>2 DEF Shutdown
  <2>3. QED
    BY <1>7, <2>1, <2>2 DEF Handler
<1>8. QED
  BY <1>2, <1>3, <1>4, <1>5, <1>6, <1>7 DEF Next

(***************************************************************************)
(* Whatever a device records and whenever a signal comes, a tracer that    *)
(* ends regularly and has no limit has written every record its device     *)
(* took, in order.                                                         *)
(***************************************************************************)
THEOREM OutputTheorem == Spec => []OutputComplete
<1>1. Spec => []OutInv
  BY InitOutInv, StepKeepsOutInv, PTL DEF Spec
<1>2. OutInv => OutputComplete
  <2> SUFFICES ASSUME OutInv, NEW t \in Tracers
               PROVE  /\ accepted[t] = out[t] \o buffer[t]
                      /\ status[t] = "ok" /\ stop_after[t] = 0 => out[t] = accepted[t]
    BY DEF OutputComplete
  <2>1. out[t] \o <<>> = out[t]
    BY ConcatEmptySeq DEF OutInv, OutTypes
  <2>2. QED
    BY <2>1 DEF OutInv, Drained, NothingLost
<1>3. QED
  BY <1>1, <1>2, PTL
-----------------------------------------------------------------------------
(* Types                                                                   *)

LEMMA ReadTypes ==
    ASSUME NEW S, NEW o \in Seq(S), NEW b \in Seq(S), NEW n \in 1 .. Len(b)
    PROVE  o \o SubSeq(b, 1, n) \in Seq(S) /\ SubSeq(b, n + 1, Len(b)) \in Seq(S)
<1>1. SubSeq(b, 1, n) \in Seq(S)
  OBVIOUS
<1>2. o \o SubSeq(b, 1, n) \in Seq(S)
  BY <1>1
<1>3. SubSeq(b, n + 1, Len(b)) \in Seq(S)
  OBVIOUS
<1>4. QED
  BY <1>2, <1>3

\* enable_event switches on the event it has noted last.
Noting == \A t \in Tracers : pc[t] = "ioctl" => event_count[t] >= 1

LEMMA MainKeepsTypes ==
    ASSUME FtCatTypeOK, Noting, NEW t \in Tracers, Main(t) PROVE FtCatTypeOK' /\ Noting'
<1> USE FtCatAssumption DEF FtCatTypeOK, Noting, device, Goto, Exit, Alive, Starting, Enabling
<1>1. CASE Open(t) \/ InstallHandlers(t) \/ InitFails(t)
  BY <1>1 DEF Open, InstallHandlers, InitFails
<1>2. CASE NoteEvent(t)
  BY <1>2 DEF NoteEvent
<1>3. CASE EnableEvent(t)
  BY <1>3 DEF EnableEvent, Events
<1>4. CASE EnabledAll(t) \/ Ping(t) \/ ReadEnd(t) \/ Close(t)
  BY <1>4 DEF EnabledAll, Ping, ReadEnd, Close
<1>5. CASE Read(t)
  <2>1. PICK n \in 1 .. Len(buffer[t]) :
          /\ out' = [out EXCEPT ![t] = out[t] \o SubSeq(buffer[t], 1, n)]
          /\ buffer' = [buffer EXCEPT ![t] = SubSeq(buffer[t], n + 1, Len(buffer[t]))]
    BY <1>5 DEF Read
  <2>2. /\ out[t] \o SubSeq(buffer[t], 1, n) \in Seq(1 .. MaxRecords)
        /\ SubSeq(buffer[t], n + 1, Len(buffer[t])) \in Seq(1 .. MaxRecords)
    BY ReadTypes
  <2>3. out' \in [Tracers -> Seq(1 .. MaxRecords)] /\ buffer' \in [Tracers -> Seq(1 .. MaxRecords)]
    BY <2>1, <2>2
  <2>4. pc' = [pc EXCEPT ![t] = "close"] \/ pc' = [pc EXCEPT ![t] = "read"]
    BY <1>5 DEF Read
  <2>5. QED
    BY <1>5, <2>3, <2>4 DEF Read
<1>6. QED
  BY <1>1, <1>2, <1>3, <1>4, <1>5 DEF Main

LEMMA EmitKeepsTypes ==
    ASSUME FtCatTypeOK, Noting, NEW t \in Tracers, Emit(t) PROVE FtCatTypeOK' /\ Noting'
<1> USE FtCatAssumption DEF FtCatTypeOK, Noting
<1>1. emitted' = [emitted EXCEPT ![t] = emitted[t] + 1] /\ emitted[t] < MaxRecords
  BY DEF Emit
<1>2. emitted' \in [Tracers -> 0 .. MaxRecords] /\ emitted'[t] \in 1 .. MaxRecords
  BY <1>1
<1>3. CASE Len(buffer[t]) < BufferSize
  <2>1. PICK x \in 1 .. MaxRecords : x = emitted'[t]
    BY <1>2
  <2>2. /\ buffer' = [buffer EXCEPT ![t] = Append(buffer[t], x)]
        /\ accepted' = [accepted EXCEPT ![t] = Append(accepted[t], x)]
    BY <1>3, <2>1 DEF Emit
  <2>3. /\ Append(buffer[t], x) \in Seq(1 .. MaxRecords)
        /\ Append(accepted[t], x) \in Seq(1 .. MaxRecords)
    OBVIOUS
  <2>4. /\ buffer' \in [Tracers -> Seq(1 .. MaxRecords)]
        /\ accepted' \in [Tracers -> Seq(1 .. MaxRecords)]
    BY <2>2, <2>3
  <2>5. QED
    BY <1>2, <2>4 DEF Emit
<1>4. CASE ~(Len(buffer[t]) < BufferSize)
  BY <1>2, <1>4 DEF Emit
<1>5. QED
  BY <1>3, <1>4

LEMMA NextKeepsTypes ==
    ASSUME FtCatTypeOK, Noting, [Next]_ftcat PROVE FtCatTypeOK' /\ Noting'
<1>1. CASE UNCHANGED ftcat
  BY <1>1 DEF ftcat, device, FtCatTypeOK, Noting
<1>2. CASE Signal
  BY <1>2 DEF Signal, SendSignal, device, FtCatTypeOK, Noting
<1>3. ASSUME NEW t \in Tracers, Spawn(t) PROVE FtCatTypeOK' /\ Noting'
  BY <1>3 DEF Spawn, Goto, device, Alive, Starting, FtCatTypeOK, Noting
<1>4. ASSUME NEW t \in Tracers, Handler(t) PROVE FtCatTypeOK' /\ Noting'
  <2>1. CASE DieOfSignal(t)
    BY <2>1 DEF DieOfSignal, Exit, Goto, device, FtCatTypeOK, Noting
  <2>2. CASE Shutdown(t)
    BY <2>2 DEF Shutdown, FtCatTypeOK, Noting
  <2>3. QED
    BY <1>4, <2>1, <2>2 DEF Handler
<1>5. QED
  BY <1>1, <1>2, <1>3, <1>4, MainKeepsTypes, EmitKeepsTypes DEF Next

LEMMA InitTypes == Init => FtCatTypeOK /\ Noting
<1> SUFFICES ASSUME Init PROVE FtCatTypeOK /\ Noting
  OBVIOUS
<1>1. <<>> \in Seq(1 .. MaxRecords)
  OBVIOUS
<1>2. QED
  BY <1>1, FtCatAssumption DEF Init, FtCatTypeOK, Noting

(***************************************************************************)
(* Whatever signals come, a tracer notes no more events than it was given  *)
(* and switches on none but these, and the device and the output hold      *)
(* numbers of records that have occurred.                                  *)
(***************************************************************************)
THEOREM TypeCorrect == Spec => []FtCatTypeOK
<1>1. Spec => [](FtCatTypeOK /\ Noting)
  BY InitTypes, NextKeepsTypes, PTL DEF Spec
<1>2. QED
  BY <1>1, PTL

-----------------------------------------------------------------------------
(* ftcat *)

\* The part of the type invariant that the proofs need; an event that is to be
\* switched on has been noted.
Noted ==
    /\ pc \in [Tracers -> Alive \cup {"none", "exited"}]
    /\ event_count \in [Tracers -> Nat]
    /\ on \in [Tracers -> SUBSET Nat]
    /\ \A t \in Tracers : pc[t] = "ioctl" => event_count[t] >= 1

HandlerInv == Noted /\ HandlerCovers

LEMMA StepKeepsHandlerInv ==
    ASSUME HandlerInv, [Next]_ftcat PROVE HandlerInv'
<1> USE DEF HandlerInv, Noted, HandlerCovers, device, Goto, Alive, Starting, Enabling
<1>1. CASE UNCHANGED ftcat
  BY <1>1 DEF ftcat
<1>2. CASE Signal
  BY <1>2 DEF Signal
<1>3. ASSUME NEW t \in Tracers, Spawn(t) PROVE HandlerInv'
  BY <1>3 DEF Spawn
<1>4. ASSUME NEW t \in Tracers, Emit(t) PROVE HandlerInv'
  BY <1>4 DEF Emit
<1>5. ASSUME NEW t \in Tracers, Main(t) PROVE HandlerInv'
  <2>1. CASE Open(t) \/ InstallHandlers(t) \/ InitFails(t) \/ EnabledAll(t) \/ Ping(t)
    BY <1>5, <2>1 DEF Open, InstallHandlers, InitFails, EnabledAll, Ping, Exit
  <2>2. CASE NoteEvent(t)
    BY <1>5, <2>2 DEF NoteEvent
  <2>3. CASE EnableEvent(t)
    BY <1>5, <2>3 DEF EnableEvent
  <2>4. CASE Read(t)
    BY <1>5, <2>4 DEF Read
  <2>5. CASE ReadEnd(t) \/ Close(t)
    BY <1>5, <2>5 DEF ReadEnd, Close, Exit
  <2>6. QED
    BY <1>5, <2>1, <2>2, <2>3, <2>4, <2>5 DEF Main
<1>6. ASSUME NEW t \in Tracers, Handler(t) PROVE HandlerInv'
  <2>1. CASE DieOfSignal(t)
    BY <1>6, <2>1 DEF DieOfSignal, Exit
  <2>2. CASE Shutdown(t)
    BY <1>6, <2>2 DEF Shutdown
  <2>3. QED
    BY <1>6, <2>1, <2>2 DEF Handler
<1>7. QED
  BY <1>1, <1>2, <1>3, <1>4, <1>5, <1>6 DEF Next

LEMMA InitHandlerInv == Init => HandlerInv
  BY DEF Init, HandlerInv, Noted, HandlerCovers, Alive

(***************************************************************************)
(* However many events a tracer switches on and whenever signals come, an  *)
(* event that is on is one that the handler switches off.                  *)
(***************************************************************************)
THEOREM HandlerTheorem == Spec => []HandlerCovers
<1>1. Spec => []HandlerInv
  BY InitHandlerInv, StepKeepsHandlerInv, PTL DEF Spec
<1>2. QED
  BY <1>1, PTL DEF HandlerInv

-----------------------------------------------------------------------------
(* The session implements ftcat *)

LEMMA SessionStepIsTracerStep == ASSUME [SessionNext]_session PROVE [Next]_ftcat
<1>1. CASE UNCHANGED session
  BY <1>1 DEF session
<1>2. CASE KillTracers
  <2>1. PICK ts : ts = Tracers \cap PIDS
    OBVIOUS
  <2>2. SendSignal(ts)
    BY <1>2, <2>1 DEF KillTracers, SendSignal
  <2>3. ts \in SUBSET Tracers
    BY <2>1
  <2>4. QED
    BY <1>2, <2>2, <2>3 DEF KillTracers, Signal, Next
<1>3. CASE SpawnNext
  BY <1>3 DEF SpawnNext, Next
<1>4. CASE \/ NotePid \/ CountTracer \/ LoopDone \/ Ready \/ Announce
           \/ WaitTracers \/ Trap \/ User
  BY <1>4 DEF NotePid, CountTracer, LoopDone, Ready, Announce, WaitTracers,
              Trap, User, Enter, SendUsr1
<1>5. CASE Tracing
  BY <1>5 DEF Tracing, Next
<1>6. QED
  BY <1>1, <1>2, <1>3, <1>4, <1>5 DEF SessionNext, Script

(***************************************************************************)
(* A session, whatever its size and whenever the user stops it, is a       *)
(* behaviour of its tracers.                                               *)
(***************************************************************************)
THEOREM SessionImplementsTracers == SessionSpec => TracersAsSpecified
<1>1. SessionInit => Init
  BY DEF SessionInit
<1>2. QED
  BY <1>1, SessionStepIsTracerStep, PTL DEF SessionSpec, Spec, TracersAsSpecified

-----------------------------------------------------------------------------
(* The announcement                                                        *)

Labels == Alive \cup {"none", "exited"}

SessionTypes ==
    /\ pc \in [Tracers -> Labels] /\ event_count \in [Tracers -> Nat]
    /\ status \in [Tracers -> {"none", "ok", "failed", "killed"}]
    /\ pending \in [Tracers -> BOOLEAN] /\ on \in [Tracers -> SUBSET Nat]
    /\ pinged \subseteq Tracers

\* The script's list and count of tracers match those it has spawned, but for
\* the one of the loop body it is in.
CountMatches ==
    /\ spc = "loop" => PIDS = Spawned /\ COUNT = Cardinality(PIDS)
    /\ spc = "note" => \E t \in Spawned : /\ last = {t} /\ PIDS = Spawned \ {t}
                                          /\ COUNT = Cardinality(PIDS)
    /\ spc = "count" => PIDS = Spawned /\ COUNT + 1 = Cardinality(PIDS)
    /\ spc \in {"barrier", "announce", "wait"} => COUNT = Cardinality(Tracers)

\* A PID file is written by an initialized tracer, and the barrier is passed
\* only when every tracer has written its own.
PingedReady ==
    /\ \A t \in Tracers : pc[t] # "exited" => status[t] = "none"
    /\ \A t \in pinged : pc[t] \in {"read", "close", "exited"} /\ status[t] # "failed"
    /\ announced \/ spc \in {"announce", "wait"} => pinged = Tracers

\* Until the script signals its tracers, nothing takes back what they switch on.
Undisturbed ==
    spc \notin {"reap", "exited"} =>
        \A t \in Tracers :
            /\ ~pending[t]
            /\ pc[t] = "ioctl" =>
                 event_count[t] >= 1 /\ on[t] = 1 .. (event_count[t] - 1)
            /\ pc[t] \notin {"ioctl", "close", "exited"} => on[t] = 1 .. event_count[t]
            /\ pc[t] \in {"ping", "read"} => event_count[t] = NrEvents

SessionInv == SessionTypes /\ CountMatches /\ PingedReady /\ Undisturbed

LEMMA SpawnedFinite == IsFiniteSet(Spawned) /\ Cardinality(Spawned) \in Nat
  BY SessionAssumption, FS_Subset, FS_CardinalityType DEF Spawned

LEMMA InitSessionInv == SessionInit => SessionInv
<1> SUFFICES ASSUME SessionInit PROVE SessionInv
  OBVIOUS
<1>1. Spawned = {}
  BY DEF SessionInit, Init, Spawned
<1>2. SessionTypes
  BY DEF SessionInit, Init, SessionTypes, Labels
<1>3. CountMatches
  BY <1>1, FS_EmptySet DEF SessionInit, CountMatches
<1>4. PingedReady
  BY DEF SessionInit, Init, PingedReady
<1>5. Undisturbed
  <2>1. 1 .. 0 = {}
    OBVIOUS
  <2>2. QED
    BY <2>1 DEF SessionInit, Init, Undisturbed
<1>6. QED
  BY <1>2, <1>3, <1>4, <1>5 DEF SessionInv

LEMMA TracingKeepsSession ==
    ASSUME SessionInv, NEW t \in Tracers, Main(t) \/ Handler(t) \/ Emit(t), UNCHANGED script
    PROVE  SessionInv'
<1> USE DEF SessionInv, SessionTypes, PingedReady, Undisturbed, device, Goto,
            Labels, Alive, Starting, Enabling, script
<1>1. /\ pc' \in [Tracers -> Labels] /\ pc[t] # "none" /\ pc'[t] # "none"
      /\ \A u \in Tracers \ {t} : pc'[u] = pc[u]
  BY FtCatAssumption
     DEF Main, Handler, Emit, Open, InstallHandlers, NoteEvent, EnableEvent, InitFails,
         EnabledAll, Ping, Read, ReadEnd, Close, DieOfSignal, Shutdown, Exit, Events
<1>2. Spawned' = Spawned
  BY <1>1 DEF Spawned
<1>3. CountMatches'
  BY <1>2 DEF CountMatches
<1>4. SessionTypes' /\ PingedReady' /\ Undisturbed'
  <2>1. CASE Open(t) \/ InstallHandlers(t)
    BY <2>1, ZenonT(60) DEF Open, InstallHandlers
  <2>2. CASE NoteEvent(t)
    BY <2>2 DEF NoteEvent
  <2>3. CASE EnableEvent(t)
    <3>1. spc \notin {"reap", "exited"} => on'[t] = 1 .. event_count[t]
      BY <2>3 DEF EnableEvent
    <3>2. QED
      BY <2>3, <3>1 DEF EnableEvent
  <2>4. CASE InitFails(t)
    BY <2>4 DEF InitFails, Exit
  <2>5. CASE EnabledAll(t)
    BY <2>5 DEF EnabledAll
  <2>6. CASE Ping(t)
    BY <2>6 DEF Ping
  <2>7. CASE Read(t)
    BY <2>7 DEF Read
  <2>8. CASE ReadEnd(t)
    BY <2>8 DEF ReadEnd
  <2>9. CASE Close(t)
    BY <2>9 DEF Close, Exit
  <2>10. CASE DieOfSignal(t)
    BY <2>10 DEF DieOfSignal, Exit
  <2>11. CASE Shutdown(t)
    BY <2>11 DEF Shutdown
  <2>12. CASE Emit(t)
    BY <2>12 DEF Emit
  <2>13. QED
    BY <2>1, <2>2, <2>3, <2>4, <2>5, <2>6, <2>7, <2>8, <2>9, <2>10, <2>11, <2>12
       DEF Main, Handler
<1>5. QED
  BY <1>3, <1>4

LEMMA ScriptKeepsSession ==
    ASSUME SessionInv, Script \/ Trap \/ User PROVE SessionInv'
<1> USE DEF SessionInv, SessionTypes, PingedReady, Undisturbed, ftcat, device
<1>1. CASE SpawnNext
  <2>1. PICK t \in Tracers : Spawn(t) /\ last' = {t}
    BY <1>1 DEF SpawnNext
  <2>2. pc' = [pc EXCEPT ![t] = "open"] /\ pc[t] = "none" /\ PIDS = Spawned
        /\ PIDS' = PIDS /\ COUNT' = COUNT /\ COUNT = Cardinality(PIDS) /\ spc' = "note"
    BY <1>1, <2>1 DEF SpawnNext, Spawn, Goto, CountMatches
  <2>3. t \in Spawned' /\ PIDS = Spawned' \ {t}
    BY <2>2 DEF Spawned
  <2>4. CountMatches'
    BY <2>1, <2>2, <2>3 DEF CountMatches
  <2>5. SessionTypes' /\ PingedReady' /\ Undisturbed'
    BY <1>1, <2>1, <2>2 DEF SpawnNext, Spawn, Goto, Labels, Alive, Starting
  <2>6. QED
    BY <2>4, <2>5
<1>2. CASE NotePid
  <2>1. PICK t \in Spawned : last = {t} /\ PIDS = Spawned \ {t} /\ COUNT = Cardinality(PIDS)
    BY <1>2 DEF NotePid, CountMatches
  <2>2. PIDS' = Spawned /\ Spawned' = Spawned /\ COUNT' = COUNT /\ spc' = "count"
    BY <1>2, <2>1 DEF NotePid, Spawned
  <2>3. COUNT + 1 = Cardinality(Spawned)
    <3>1. Cardinality(PIDS) = Cardinality(Spawned) - 1
      BY <2>1, SpawnedFinite, FS_RemoveElement
    <3>2. QED
      BY <2>1, <3>1, SpawnedFinite
  <2>4. CountMatches'
    BY <2>2, <2>3 DEF CountMatches
  <2>5. QED
    BY <1>2, <2>4 DEF NotePid
<1>3. CASE CountTracer
  <2>1. Spawned' = Spawned
    BY <1>3 DEF CountTracer, Spawned
  <2>2. CountMatches'
    BY <1>3, <2>1 DEF CountTracer, CountMatches
  <2>3. QED
    BY <1>3, <2>2 DEF CountTracer
<1>4. CASE LoopDone
  <2>1. CountMatches'
    BY <1>4 DEF LoopDone, CountMatches
  <2>2. QED
    BY <1>4, <2>1 DEF LoopDone
<1>5. CASE Ready
  <2>1. CountMatches'
    BY <1>5 DEF Ready, CountMatches
  <2>2. Cardinality(pinged) = Cardinality(Tracers)
    BY <1>5 DEF Ready, CountMatches
  <2>3. pinged = Tracers
    BY <2>2, SessionAssumption, FS_Subset
  <2>4. QED
    BY <1>5, <2>1, <2>3 DEF Ready
<1>6. CASE Announce
  <2>1. CountMatches'
    BY <1>6 DEF Announce, CountMatches
  <2>2. QED
    BY <1>6, <2>1 DEF Announce
<1>7. CASE KillTracers
  <2>1. CountMatches'
    BY <1>7 DEF KillTracers, CountMatches
  <2>2. QED
    BY <1>7, <2>1 DEF KillTracers, SendSignal
<1>8. CASE WaitTracers \/ Enter \/ Trap
  <2>1. CountMatches'
    BY <1>8 DEF WaitTracers, Enter, Trap, CountMatches
  <2>2. QED
    BY <1>8, <2>1 DEF WaitTracers, Enter, Trap
<1>9. CASE SendUsr1
  <2>1. Spawned' = Spawned
    BY <1>9 DEF SendUsr1, Spawned
  <2>2. CountMatches'
    BY <1>9, <2>1 DEF SendUsr1, CountMatches
  <2>3. QED
    BY <1>9, <2>2 DEF SendUsr1
<1>10. QED
  BY <1>1, <1>2, <1>3, <1>4, <1>5, <1>6, <1>7, <1>8, <1>9 DEF Script, User

LEMMA StepKeepsSession == ASSUME SessionInv, [SessionNext]_session PROVE SessionInv'
<1>1. CASE UNCHANGED session
  BY <1>1 DEF session, ftcat, device, script, SessionInv, SessionTypes, CountMatches,
              PingedReady, Undisturbed, Spawned
<1>2. CASE Script \/ Trap \/ User
  BY <1>2, ScriptKeepsSession
<1>3. CASE Tracing /\ UNCHANGED script
  BY <1>3, TracingKeepsSession DEF Tracing
<1>4. QED
  BY <1>1, <1>2, <1>3 DEF SessionNext

(***************************************************************************)
(* However many devices there are, the user is told that tracing is on     *)
(* only after every tracer has switched all of its events on, and even if  *)
(* the user sends SIGUSR1 before being told (EarlySignal).                 *)
(***************************************************************************)
THEOREM AnnouncedTheorem == SessionSpec => []AnnouncedReady
<1>1. SessionSpec => []SessionInv
  BY InitSessionInv, StepKeepsSession, PTL DEF SessionSpec
<1>2. SessionInv => AnnouncedReady
  <2> SUFFICES ASSUME SessionInv, announced, NEW t \in Tracers
               PROVE  /\ pc[t] \in {"read", "close", "exited"} /\ status[t] # "failed"
                      /\ spc = "wait" /\ pc[t] = "read" => on[t] = Events
    BY DEF AnnouncedReady
  <2>1. QED
    BY DEF SessionInv, PingedReady, Undisturbed, Events
<1>3. QED
  BY <1>1, <1>2, PTL

-----------------------------------------------------------------------------
(* The end of a session                                                    *)

\* The script knows every tracer it has spawned, but for the one in hand, and is not
\* over before those it knows.
EndInv ==
    /\ Spawned \subseteq PIDS \cup last
    /\ spc = "exited" => \A t \in PIDS \cap Spawned : pc[t] = "exited"

LEMMA InitEndInv == SessionInit => EndInv
  BY DEF SessionInit, Init, Spawned, EndInv

LEMMA StepKeepsEndInv == ASSUME SessionInv, EndInv, [SessionNext]_session PROVE EndInv'
<1> USE DEF EndInv, Spawned
<1>1. CASE UNCHANGED session
  BY <1>1 DEF session, ftcat, script
<1>2. CASE SpawnNext
  <2>1. PICK t \in Tracers : Spawn(t) /\ last' = {t}
    BY <1>2 DEF SpawnNext
  <2>2. Spawned \subseteq PIDS /\ PIDS' = PIDS /\ spc' = "note"
    BY <1>2 DEF SpawnNext, SessionInv, CountMatches
  <2>3. pc' = [pc EXCEPT ![t] = "open"]
    BY <2>1 DEF Spawn, Goto
  <2>4. Spawned' \subseteq Spawned \cup {t}
    BY <2>3 DEF SessionInv, SessionTypes
  <2>5. QED
    BY <2>1, <2>2, <2>4
<1>3. CASE NotePid \/ CountTracer \/ LoopDone \/ Ready \/ Announce \/ Trap \/ User
  BY <1>3 DEF NotePid, CountTracer, LoopDone, Ready, Announce, Trap, User, Enter, SendUsr1, ftcat
<1>4. CASE KillTracers
  BY <1>4 DEF KillTracers
<1>5. CASE WaitTracers
  <2>1. \A t \in PIDS \cap Spawned : pc[t] = "exited"
    BY <1>5 DEF WaitTracers
  <2>2. QED
    BY <1>5, <2>1 DEF WaitTracers, ftcat
<1>6. ASSUME NEW t \in Tracers, Main(t) \/ Handler(t) \/ Emit(t), UNCHANGED script
      PROVE  EndInv'
  <2>1. pc[t] \in Alive
    BY <1>6 DEF Main, Handler, Emit, Open, InstallHandlers, NoteEvent, EnableEvent, InitFails,
                EnabledAll, Ping, Read, ReadEnd, Close, DieOfSignal, Shutdown,
                Alive, Starting, Enabling
  <2>2. pc[t] \notin {"none", "exited"}
    BY <2>1 DEF Alive, Starting, Enabling
  <2>3. \A u \in Tracers \ {t} : pc'[u] = pc[u]
    BY <1>6 DEF Main, Handler, Emit, Open, InstallHandlers, NoteEvent, EnableEvent, InitFails,
                EnabledAll, Ping, Read, ReadEnd, Close, DieOfSignal, Shutdown, Exit, Goto,
                SessionInv, SessionTypes
  <2>4. Spawned' \subseteq Spawned
    BY <2>2, <2>3
  <2>5. spc = "exited" => t \notin PIDS
    BY <2>2
  <2>6. QED
    BY <1>6, <2>3, <2>4, <2>5 DEF script
<1>7. QED
  BY <1>1, <1>2, <1>3, <1>4, <1>5, <1>6 DEF SessionNext, Script, Tracing

(***************************************************************************)
(* However many devices there are and whenever the signal comes that ends  *)
(* the script, no tracer outlives it but one that it had just spawned and  *)
(* not yet noted.                                                          *)
(***************************************************************************)
THEOREM NoTracerLeftTheorem == SessionSpec => []NoTracerLeft
<1>1. SessionSpec => []SessionInv
  BY InitSessionInv, StepKeepsSession, PTL DEF SessionSpec
<1>2. SessionInv /\ EndInv /\ [SessionNext]_session => EndInv'
  BY StepKeepsEndInv
<1>3. SessionSpec => []EndInv
  BY <1>1, <1>2, InitEndInv, PTL DEF SessionSpec
<1>4. EndInv => NoTracerLeft
  BY DEF EndInv, NoTracerLeft, Spawned
<1>5. QED
  BY <1>3, <1>4, PTL

-----------------------------------------------------------------------------
(* Types                                                                   *)

\* The count is never ahead of the tracers spawned.
ScriptTypeOK ==
    /\ AUTO \in Modes
    /\ spc \in {"loop", "note", "count", "barrier", "announce", "wait", "finish",
                "reap", "exited"}
    /\ last \subseteq Tracers /\ PIDS \subseteq Tracers /\ COUNT \in 0 .. Cardinality(Tracers)
    /\ announced \in BOOLEAN /\ usr1 \in {"no", "pending", "taken"}

LEMMA TracersFinite == Cardinality(Tracers) \in Nat /\ Cardinality(Spawned) <= Cardinality(Tracers)
  BY SessionAssumption, FS_Subset, FS_CardinalityType DEF Spawned

LEMMA StepKeepsScriptTypes ==
    ASSUME SessionInv, ScriptTypeOK, [SessionNext]_session PROVE ScriptTypeOK'
<1> USE DEF ScriptTypeOK
<1>1. CASE SpawnNext
  BY <1>1 DEF SpawnNext
<1>2. CASE NotePid \/ LoopDone \/ Ready \/ Announce \/ KillTracers \/ WaitTracers
  BY <1>2 DEF NotePid, LoopDone, Ready, Announce, KillTracers, WaitTracers
<1>3. CASE CountTracer
  <2>1. COUNT + 1 <= Cardinality(Tracers)
    BY <1>3, TracersFinite DEF CountTracer, SessionInv, CountMatches
  <2>2. QED
    BY <1>3, <2>1, TracersFinite DEF CountTracer
<1>4. CASE Trap \/ User
  BY <1>4 DEF Trap, User, Enter, SendUsr1
<1>5. CASE UNCHANGED script
  BY <1>5 DEF script
<1>6. QED
  BY <1>1, <1>2, <1>3, <1>4, <1>5 DEF SessionNext, Script, session

(***************************************************************************)
(* However many devices there are and whenever the user stops the script,  *)
(* it counts no more tracers than there are, and its tracers keep to their *)
(* types.                                                                  *)
(***************************************************************************)
THEOREM SessionTypeCorrect == SessionSpec => []SessionTypeOK
<1>1. SessionSpec => []SessionInv
  BY InitSessionInv, StepKeepsSession, PTL DEF SessionSpec
<1>2. SessionInit => ScriptTypeOK
  <2>1. 0 \in 0 .. Cardinality(Tracers)
    BY TracersFinite
  <2>2. QED
    BY <2>1 DEF SessionInit, ScriptTypeOK
<1>3. SessionSpec => []ScriptTypeOK
  BY <1>1, <1>2, StepKeepsScriptTypes, PTL DEF SessionSpec
<1>4. SessionSpec => []FtCatTypeOK
  BY SessionImplementsTracers, TypeCorrect, PTL DEF TracersAsSpecified
<1>5. ScriptTypeOK /\ FtCatTypeOK => SessionTypeOK
  BY DEF ScriptTypeOK, SessionTypeOK
<1>6. QED
  BY <1>3, <1>4, <1>5, PTL
=============================================================================
