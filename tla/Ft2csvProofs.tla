---------------------------- MODULE Ft2csvProofs ----------------------------
(***************************************************************************)
(* What holds of ft2csv for every file, every command line and every size  *)
(* of the sequence numbers: the samples it writes are samples; no END      *)
(* record completes two of them, where the event measured is not one that  *)
(* a search by task follows a suspension with; and the report adds up.     *)
(***************************************************************************)
EXTENDS Ft2csv, Induction

\* A search stands at a record that follows the START without a gap, and the
\* execution time summed up so far is covered by the time that has passed.
SearchInv ==
    /\ pc = "single" <=> IsSingle /\ pc # "done"
    /\ pc = "eid" => ~by_pid
    /\ pc \in PidLocations => by_pid /\ SameTask(start, first)
    /\ pc \in {"eid"} \cup PidLocations =>
         /\ start <= first /\ first <= pos /\ pos <= count
         /\ trace[start].event = id /\ Unbroken(start, pos)
         /\ trace[start].timestamp + sum <= last_time
    /\ pc = "exec" => last_time = trace[first].timestamp

Inv == Ft2csvTypeOK /\ SearchInv /\ SampleSound

-----------------------------------------------------------------------------
LEMMA AddType ==
    ASSUME NEW s \in [Counters -> Nat], NEW f \in Counters, NEW n \in Nat
    PROVE  Add(s, f, n) \in [Counters -> Nat]
  BY DEF Add

LEMMA OneType == ASSUME NEW b PROVE One(b) \in Nat
  BY DEF One

\* The file is a function of its positions.
LEMMA FileType ==
    ASSUME Ft2csvTypeOK
    PROVE  /\ count \in Nat /\ trace \in [1 .. count -> Record] /\ id \in Nat
           /\ opts.max_interleaved_skipped \in Nat
           /\ start \in 1 .. (count + 1) /\ first \in 1 .. (count + 1) /\ pos \in 1 .. (count + 1)
  BY DEF Ft2csvTypeOK, CommandLine, count, id

\* The record looked at is one of the file, and follows the last one in number.
LEMMA CandidateType ==
    ASSUME Ft2csvTypeOK, ~BreaksOff
    PROVE  /\ pos \in 1 .. count /\ pos + 1 \in 1 .. count /\ Candidate \in Record
           /\ Candidate = trace[pos + 1] /\ Candidate.timestamp \in Nat
           /\ trace[pos + 1].seq_no = next_seq_number(trace[pos].seq_no)
<1>1. pos < count /\ Candidate.seq_no = next_seq_number(trace[pos].seq_no)
  BY FileType DEF BreaksOff
<1>2. pos \in 1 .. count /\ pos + 1 \in 1 .. count
  BY <1>1, FileType
<1>3. Candidate \in Record
  BY <1>2, FileType DEF Candidate
<1>4. QED
  BY <1>1, <1>2, <1>3 DEF Candidate, Record

\* One more record in sequence.
LEMMA UnbrokenStep ==
    ASSUME Ft2csvTypeOK, ~BreaksOff, Unbroken(start, pos), start <= pos
    PROVE  Unbroken(start, pos + 1)
<1> SUFFICES ASSUME NEW k \in start .. pos
             PROVE  trace[k + 1].seq_no = next_seq_number(trace[k].seq_no)
  BY FileType DEF Unbroken
<1>1. CASE k = pos
  BY <1>1, CandidateType
<1>2. CASE k # pos
  BY <1>2, FileType DEF Unbroken
<1>3. QED
  BY <1>1, <1>2

-----------------------------------------------------------------------------
LEMMA InitInv == Init => Inv
<1> SUFFICES ASSUME Init PROVE Inv
  OBVIOUS
<1>1. trace \in Seq(Record) /\ opts \in CommandLine
  BY Ft2csvAssumption DEF Init
<1>2. id \in Nat /\ count \in Nat
  BY <1>1 DEF id, count, CommandLine
<1>3. Ft2csvTypeOK
  <2>1. out \in Seq(Sample)
    BY DEF Init
  <2>2. stats \in [Counters -> Nat]
    BY DEF Init
  <2>3. {start, first, pos} \subseteq 1 .. (count + 1)
    BY <1>2 DEF Init
  <2>4. pc \in {"skip", "scan", "eid", "single", "done"} \cup PidLocations
    BY DEF Init
  <2>5. QED
    BY <1>1, <2>1, <2>2, <2>3, <2>4 DEF Ft2csvTypeOK, Init
<1>4. SearchInv
  BY <1>2 DEF Init, SearchInv, PidLocations, IsSingle, SINGLE_RECORDS_RANGE
<1>5. SampleSound
  BY DEF Init, SampleSound
<1>6. QED
  BY <1>3, <1>4, <1>5 DEF Inv

\* Steps that write nothing keep the samples written.
LEMMA SoundUnchanged ==
    ASSUME SampleSound, UNCHANGED <<input, out>>
    PROVE  SampleSound'
  BY DEF SampleSound, input, count, id, by_pid, IsSingle, SameTask, SameCpu, Unbroken

\* A step that writes a sound sample.
LEMMA SoundEmit ==
    ASSUME Inv, UNCHANGED input, NEW second \in 1 .. count, NEW exec_time \in Nat,
           start \in 1 .. count, Emit(second, exec_time),
           ~IsSingle =>
             /\ start < second /\ trace[start].event = id
             /\ IF by_pid THEN SameTask(start, second) ELSE SameCpu(start, second)
             /\ Unbroken(start, second)
             /\ exec_time <= trace[second].timestamp - trace[start].timestamp
    PROVE  out' \in Seq(Sample) /\ SampleSound'
<1> DEFINE new == [first |-> start, second |-> second, exec_time |-> exec_time]
<1>1. out \in Seq(Sample) /\ count \in Nat
  BY FileType DEF Inv, Ft2csvTypeOK
<1>2. new \in Sample
  BY <1>1 DEF Sample
<1>3. out' = Append(out, new)
  BY DEF Emit
<1>4. out' \in Seq(Sample) /\ DOMAIN out' = 1 .. (Len(out) + 1) /\ Len(out) \in Nat
  BY <1>1, <1>2, <1>3
<1>5. SampleSound'
  <2> SUFFICES ASSUME NEW n \in DOMAIN out', ~IsSingle
               PROVE  LET i == out'[n].first   j == out'[n].second
                      IN  /\ i < j /\ j <= count /\ trace[i].event = id
                          /\ IF by_pid THEN SameTask(i, j) ELSE SameCpu(i, j)
                          /\ Unbroken(i, j)
                          /\ out'[n].exec_time <= trace[j].timestamp - trace[i].timestamp
    BY DEF SampleSound, input, count, id, by_pid, IsSingle, SameTask, SameCpu, Unbroken
  <2>1. CASE n = Len(out) + 1
    <3>1. out'[n] = new
      BY <1>1, <1>3, <2>1
    <3>2. QED
      BY <3>1, <1>1
  <2>2. CASE n \in DOMAIN out
    <3>1. out'[n] = out[n]
      BY <1>1, <1>2, <1>3, <2>2
    <3>2. QED
      BY <3>1, <2>2 DEF Inv, SampleSound
  <2>3. QED
    BY <1>1, <1>4, <2>1, <2>2
<1>6. QED
  BY <1>4, <1>5

-----------------------------------------------------------------------------
(* The steps                                                               *)

\* What the invariant says where a search is going on.
LEMMA Searching ==
    ASSUME Inv, pc \in {"eid"} \cup PidLocations
    PROVE  /\ ~IsSingle /\ start \in 1 .. count /\ first \in 1 .. count /\ pos \in 1 .. count
           /\ start <= first /\ first <= pos /\ Unbroken(start, pos)
           /\ trace[start].event = id /\ trace[start] \in Record /\ trace[first] \in Record
           /\ trace[start].timestamp \in Nat /\ trace[first].timestamp \in Nat
           /\ last_time \in Nat /\ sum \in Nat /\ restarts \in Nat /\ stats \in [Counters -> Nat]
           /\ trace[start].timestamp + sum <= last_time
           /\ pc = "exec" => last_time = trace[first].timestamp
           /\ IF pc = "eid" THEN ~by_pid ELSE by_pid /\ SameTask(start, first)
<1>1. pc # "single" /\ pc # "done" /\ (pc = "eid" => pc \notin PidLocations)
  BY DEF PidLocations
<1>2. /\ count \in Nat /\ trace \in [1 .. count -> Record]
      /\ start \in Nat \ {0} /\ first \in Nat /\ pos \in Nat
  BY FileType DEF Inv
<1>3. start <= first /\ first <= pos /\ pos <= count
  BY DEF Inv, SearchInv
<1>4. start \in 1 .. count /\ first \in 1 .. count /\ pos \in 1 .. count
  BY <1>2, <1>3
<1>5. trace[start] \in Record /\ trace[first] \in Record
  BY <1>2, <1>4
<1>6. trace[start].timestamp \in Nat /\ trace[first].timestamp \in Nat
  BY <1>5 DEF Record
<1>7. ~IsSingle
  BY <1>1 DEF Inv, SearchInv
<1>8. last_time \in Nat /\ sum \in Nat /\ restarts \in Nat /\ stats \in [Counters -> Nat]
  BY DEF Inv, Ft2csvTypeOK
<1>9. QED
  BY <1>1, <1>3, <1>4, <1>5, <1>6, <1>7, <1>8 DEF Inv, SearchInv

\* The end of a search, whatever it found.
LEMMA Returned ==
    ASSUME Inv, pc \in {"eid"} \cup PidLocations, Return, stats' \in [Counters -> Nat],
           out' \in Seq(Sample), SampleSound'
    PROVE  Inv'
<1>1. start + 1 \in 1 .. (count + 1) /\ ~IsSingle
  BY Searching, FileType, SMTT(60) DEF Inv
<1>2. Ft2csvTypeOK'
  BY <1>1 DEF Inv, Ft2csvTypeOK, Return, input, search, count
<1>3. SearchInv'
  BY <1>1 DEF SearchInv, Return, input, PidLocations, IsSingle, id
<1>4. QED
  BY <1>2, <1>3 DEF Inv

LEMMA ReturnedEmpty ==
    ASSUME Inv, pc \in {"eid"} \cup PidLocations, Return, stats' \in [Counters -> Nat],
           UNCHANGED out
    PROVE  Inv'
<1>1. SampleSound'
  BY SoundUnchanged DEF Inv, Return
<1>2. out' \in Seq(Sample)
  BY DEF Inv, Ft2csvTypeOK
<1>3. QED
  BY <1>1, <1>2, Returned

\* A sample found: the record looked at ends it.
LEMMA ReturnedSample ==
    ASSUME Inv, pc \in {"eid"} \cup PidLocations, Return, stats' \in [Counters -> Nat],
           ~BreaksOff, NEW exec_time \in Nat, Emit(pos + 1, exec_time),
           IF by_pid THEN SameTask(start, pos + 1) ELSE SameCpu(start, pos + 1),
           exec_time <= Candidate.timestamp - trace[start].timestamp
    PROVE  Inv'
<1>1. pos + 1 \in 1 .. count /\ start < pos + 1 /\ start \in 1 .. count
  BY Searching, CandidateType DEF Inv
<1>2. Unbroken(start, pos + 1) /\ trace[start].event = id
  BY Searching, UnbrokenStep DEF Inv
<1>3. Candidate = trace[pos + 1]
  BY DEF Candidate
<1>4. out' \in Seq(Sample) /\ SampleSound'
  BY <1>1, <1>2, <1>3, SoundEmit DEF Return
<1>5. QED
  BY <1>4, Returned

LEMMA ScanStep == ASSUME Inv, Scan PROVE Inv'
<1> USE FileType DEF Inv
<1>1. CASE SkipRecord
  <2>1. stats' \in [Counters -> Nat]
    BY <1>1, AddType DEF SkipRecord, Bump, Counters, Ft2csvTypeOK
  <2>2. Ft2csvTypeOK'
    BY <1>1, <2>1 DEF SkipRecord, Ft2csvTypeOK, input, search, count
  <2>3. SearchInv'
    BY <1>1 DEF SkipRecord, SearchInv, input, search, IsSingle, id, PidLocations
  <2>4. QED
    BY <1>1, <2>2, <2>3, SoundUnchanged DEF SkipRecord
<1>2. CASE SkipDone
  <2>1. Ft2csvTypeOK'
    BY <1>2 DEF SkipDone, Ft2csvTypeOK, input, search, count
  <2>2. SearchInv'
    BY <1>2 DEF SkipDone, SearchInv, input, search, IsSingle, id, PidLocations
  <2>3. QED
    BY <1>2, <2>1, <2>2, SoundUnchanged DEF SkipDone
<1>3. CASE ScanOther
  <2>1. Ft2csvTypeOK'
    BY <1>3 DEF ScanOther, Ft2csvTypeOK, input, search, count
  <2>2. SearchInv'
    BY <1>3 DEF ScanOther, SearchInv, input, search, IsSingle, id, PidLocations
  <2>3. QED
    BY <1>3, <2>1, <2>2, SoundUnchanged DEF ScanOther
<1>4. CASE ScanAvoided
  <2>1. stats' \in [Counters -> Nat]
    BY <1>4, AddType DEF ScanAvoided, Bump, Counters, Ft2csvTypeOK
  <2>2. Ft2csvTypeOK'
    BY <1>4, <2>1 DEF ScanAvoided, Ft2csvTypeOK, input, search, count
  <2>3. SearchInv'
    BY <1>4 DEF ScanAvoided, SearchInv, input, search, IsSingle, id, PidLocations
  <2>4. QED
    BY <1>4, <2>2, <2>3, SoundUnchanged DEF ScanAvoided
<1>5. CASE ScanStart
  <2>1. start \in 1 .. count /\ trace[start] \in Record
    BY <1>5 DEF ScanStart
  <2>2. trace[start].timestamp \in Nat
    BY <2>1 DEF Record
  <2>3. Matching \in {"eid"} \cup PidLocations
    BY DEF Matching, PidLocations
  <2>4. Ft2csvTypeOK'
    BY <1>5, <2>1, <2>2, <2>3 DEF ScanStart, Ft2csvTypeOK, input, count
  <2>5. SearchInv'
    <3>1. ~IsSingle
      BY <1>5 DEF ScanStart, SearchInv
    <3>2. (pc = "single" <=> IsSingle /\ pc # "done")'
      BY <1>5, <2>3, <3>1 DEF ScanStart, PidLocations, IsSingle, id, input
    <3>3. (pc = "eid" => ~by_pid)' /\ (pc \in PidLocations => by_pid /\ SameTask(start, first))'
      BY <1>5 DEF ScanStart, PidLocations, Matching, by_pid, id, input, SameTask
    <3>4. Unbroken(start, start)
      BY <2>1 DEF Unbroken
    <3>5. (/\ start <= first /\ first <= pos /\ pos <= count
           /\ trace[start].event = id /\ Unbroken(start, pos)
           /\ trace[start].timestamp + sum <= last_time)'
      BY <1>5, <2>1, <2>2, <3>4 DEF ScanStart, input, count, id, Unbroken
    <3>6. (pc = "exec" => last_time = trace[first].timestamp)'
      BY <1>5 DEF ScanStart, input
    <3>7. QED
      BY <3>1, <1>5, <2>3, <3>2, <3>3, <3>5, <3>6 DEF SearchInv, ScanStart, IsSingle, id, input, PidLocations
  <2>6. QED
    BY <1>5, <2>4, <2>5, SoundUnchanged DEF ScanStart
<1>6. CASE ScanDone
  <2>1. Ft2csvTypeOK'
    BY <1>6 DEF ScanDone, Ft2csvTypeOK, input, search, count
  <2>2. SearchInv'
    BY <1>6 DEF ScanDone, SearchInv, input, search, IsSingle, id, PidLocations
  <2>3. QED
    BY <1>6, <2>1, <2>2, SoundUnchanged DEF ScanDone
<1>7. QED
  BY <1>1, <1>2, <1>3, <1>4, <1>5, <1>6 DEF Scan

\* A search that passes over a record.
LEMMA Advanced ==
    ASSUME Inv, pc \in {"eid"} \cup PidLocations, ~BreaksOff, pos' = pos + 1,
           UNCHANGED <<input, pc, start, first, last_time, sum, out>>,
           stats' \in [Counters -> Nat], restarts' \in Nat
    PROVE  Inv'
<1>1. pos + 1 \in 1 .. count /\ start <= pos
  BY Searching, CandidateType DEF Inv
<1>2. Unbroken(start, pos + 1)
  BY <1>1, Searching, UnbrokenStep DEF Inv
<1>3. Ft2csvTypeOK'
  BY <1>1, FileType DEF Inv, Ft2csvTypeOK, input, count
<1>4. SearchInv'
  <2>1. (/\ start <= first /\ first <= pos /\ pos <= count
         /\ trace[start].event = id /\ Unbroken(start, pos)
         /\ trace[start].timestamp + sum <= last_time)'
    BY <1>1, <1>2, Searching, FileType DEF Inv, input, count, id, Unbroken
  <2>2. QED
    BY <2>1 DEF Inv, SearchInv, input, IsSingle, id, by_pid, SameTask
<1>5. QED
  BY <1>3, <1>4, SoundUnchanged DEF Inv

\* A search that goes on at another location, from the record it has found.
LEMMA Proceeded ==
    ASSUME Inv, pc \in PidLocations, ~BreaksOff, OfTask, NEW to \in PidLocations, Proceed(to),
           stats' \in [Counters -> Nat], last_time' \in Nat, sum' \in Nat,
           trace[start].timestamp + sum' <= last_time',
           to = "exec" => last_time' = Candidate.timestamp
    PROVE  Inv'
<1>1. /\ pos + 1 \in 1 .. count /\ start <= pos /\ by_pid /\ SameTask(start, first) /\ ~IsSingle
      /\ trace[start].event = id /\ start \in 1 .. count
  BY Searching, CandidateType DEF Inv, PidLocations
<1>2. Unbroken(start, pos + 1)
  BY <1>1, Searching, UnbrokenStep DEF Inv
<1>3. Candidate = trace[pos + 1] /\ SameTask(start, pos + 1)
  BY <1>1 DEF OfTask, SameTask, Candidate
<1>4. Ft2csvTypeOK'
  BY <1>1, FileType DEF Inv, Ft2csvTypeOK, Proceed, input, count
<1>5. SearchInv'
  <2>1. (/\ start <= first /\ first <= pos /\ pos <= count
         /\ trace[start].event = id /\ Unbroken(start, pos)
         /\ trace[start].timestamp + sum <= last_time)'
    BY <1>1, <1>2, FileType DEF Proceed, Inv, input, count, id, Unbroken
  <2>2. (by_pid /\ SameTask(start, first))'
    BY <1>1, <1>3 DEF Proceed, input, by_pid, id, SameTask
  <2>3. (pc = "exec" => last_time = trace[first].timestamp)'
    BY <1>3 DEF Proceed, input
  <2>4. ~IsSingle' /\ pc' \in PidLocations
    BY <1>1 DEF Proceed, input, IsSingle, id
  <2>5. QED
    BY <2>1, <2>2, <2>3, <2>4 DEF SearchInv, PidLocations
<1>6. QED
  BY <1>4, <1>5, SoundUnchanged DEF Inv, Proceed

LEMMA EidStep == ASSUME Inv, Eid PROVE Inv'
<1>1. pc = "eid"
  BY DEF Eid, EidBreaksOff, EidOtherCpu, EidStart, EidInterleaved, EidInterrupted, EidPassed,
         EidEndInterrupted, EidBackwards, EidNonRT, EidSample, Between, EidEnd, OnCpu
<1>2. /\ stats \in [Counters -> Nat] /\ restarts \in Nat
      /\ ~by_pid /\ trace[start].timestamp \in Nat
  BY <1>1, Searching
<1>3. \A f \in Counters : Add(stats, f, 1) \in [Counters -> Nat]
  BY <1>2, AddType
<1>4. ASSUME NEW f \in Counters
      PROVE  /\ Add(Add(stats, "interleaved", restarts), "interrupted", 1) \in [Counters -> Nat]
             /\ Add(Add(Add(stats, "interleaved", restarts), "interrupted",
                        One(Candidate.irq_flag)), f, 1) \in [Counters -> Nat]
  <2>1. Add(stats, "interleaved", restarts) \in [Counters -> Nat]
    BY <1>2, AddType DEF Counters
  <2>2. /\ Add(Add(stats, "interleaved", restarts), "interrupted", 1) \in [Counters -> Nat]
        /\ Add(Add(stats, "interleaved", restarts), "interrupted", One(Candidate.irq_flag))
             \in [Counters -> Nat]
    BY <2>1, AddType, OneType DEF Counters
  <2>3. QED
    BY <2>2, AddType
<1>5. CASE EidBreaksOff \/ EidStart \/ EidInterleaved
  <2>1. stats' \in [Counters -> Nat] /\ Return /\ UNCHANGED out
    BY <1>3, <1>5 DEF EidBreaksOff, EidStart, EidInterleaved, Bump, Counters
  <2>2. QED
    BY <1>1, <2>1, ReturnedEmpty
<1>6. CASE EidInterrupted
  BY <1>1, <1>2, <1>6, ReturnedEmpty DEF EidInterrupted
<1>7. CASE EidOtherCpu
  BY <1>1, <1>2, <1>7, Advanced DEF EidOtherCpu, input
<1>8. CASE EidPassed
  BY <1>1, <1>2, <1>8, Advanced DEF EidPassed, Between, OnCpu, input
<1>9. CASE EidEndInterrupted \/ EidBackwards \/ EidNonRT
  <2>1. stats' \in [Counters -> Nat] /\ Return /\ UNCHANGED out
    BY <1>4, <1>9 DEF EidEndInterrupted, EidBackwards, EidNonRT, AtEnd, Counters
  <2>2. QED
    BY <1>1, <2>1, ReturnedEmpty
<1>10. CASE EidSample
  <2>1. stats' \in [Counters -> Nat] /\ Return /\ ~BreaksOff
    BY <1>4, <1>10 DEF EidSample, AtEnd, Counters, EidEnd, OnCpu
  <2>2. Candidate.timestamp \in Nat /\ Candidate = trace[pos + 1]
    BY <2>1, CandidateType DEF Inv
  <2>3. SameCpu(start, pos + 1)
    BY <1>10, <2>2 DEF EidSample, EidEnd, OnCpu, SameCpu
  <2> DEFINE elapsed == Candidate.timestamp - trace[start].timestamp
  <2>4. Emit(pos + 1, elapsed) /\ elapsed \in Nat
    BY <1>10, <1>2, <2>2 DEF EidSample, Elapses
  <2>5. QED
    BY <1>1, <1>2, <2>1, <2>2, <2>3, <2>4, ReturnedSample
<1>11. QED
  BY <1>5, <1>6, <1>7, <1>8, <1>9, <1>10 DEF Eid

LEMMA PidStep == ASSUME Inv, Pid PROVE Inv'
<1>1. pc \in PidLocations
  BY DEF Pid, PidBreaksOff, PidInterrupted, PidPassed, PidUnexpected, PlainBackwards,
         PlainSample, ExecBackwards, ExecSample, ExecSuspend, SuspendedResume,
         SuspendedSchedStart, PreemptedSchedEnd, Found, Regarded, Looking, PidLocations
<1>2. /\ stats \in [Counters -> Nat] /\ restarts \in Nat /\ last_time \in Nat /\ sum \in Nat
      /\ trace[start].timestamp \in Nat /\ trace[first].timestamp \in Nat
      /\ trace[start].timestamp + sum <= last_time
      /\ pc = "exec" => last_time = trace[first].timestamp
      /\ by_pid /\ SameTask(start, first) /\ "eid" \notin PidLocations
  BY <1>1, Searching DEF PidLocations
<1>3. \A f \in Counters : Add(stats, f, 1) \in [Counters -> Nat]
  BY <1>2, AddType
<1>4. ASSUME NEW f \in Counters
      PROVE  /\ Add(stats, "interrupted", One(Disturbed)) \in [Counters -> Nat]
             /\ Add(Add(stats, "interrupted", One(Disturbed)), f, 1) \in [Counters -> Nat]
  <2>1. Add(stats, "interrupted", One(Disturbed)) \in [Counters -> Nat]
    BY <1>2, AddType, OneType DEF Counters
  <2>2. QED
    BY <2>1, AddType
<1>5. ASSUME ~BreaksOff
      PROVE  Candidate.timestamp \in Nat /\ Candidate = trace[pos + 1]
  BY <1>5, CandidateType DEF Inv
<1>6. CASE PidBreaksOff \/ PidInterrupted
  <2>1. stats' \in [Counters -> Nat] /\ Return /\ UNCHANGED out
    BY <1>3, <1>6 DEF PidBreaksOff, PidInterrupted, Bump, Counters
  <2>2. QED
    BY <1>1, <2>1, ReturnedEmpty
<1>7. CASE PidUnexpected \/ PlainBackwards \/ ExecBackwards
  <2>1. stats' \in [Counters -> Nat] /\ Return /\ UNCHANGED out
    BY <1>4, <1>7 DEF PidUnexpected, PlainBackwards, ExecBackwards, PidCount, Counters
  <2>2. QED
    BY <1>1, <2>1, ReturnedEmpty
<1>8. CASE PidPassed
  <2>1. stats' \in [Counters -> Nat]
    BY <1>4, <1>8 DEF PidPassed, Counters
  <2>2. QED
    BY <1>1, <1>2, <1>8, <2>1, Advanced DEF PidPassed, Regarded, Looking, input
<1>9. ASSUME Found
      PROVE  /\ ~BreaksOff /\ OfTask /\ SameTask(start, pos + 1)
             /\ Candidate.timestamp \in Nat /\ Candidate = trace[pos + 1]
  <2>1. ~BreaksOff /\ OfTask
    BY <1>9 DEF Found, Regarded, Looking
  <2>2. QED
    BY <1>2, <1>5, <2>1 DEF OfTask, SameTask
<1>10. CASE PlainSample
  <2> DEFINE elapsed == Candidate.timestamp - trace[start].timestamp
  <2>1. stats' \in [Counters -> Nat] /\ Return /\ Found
    BY <1>4, <1>10 DEF PlainSample, PidCount, Counters
  <2>2. Emit(pos + 1, elapsed) /\ elapsed \in Nat
    BY <1>2, <1>9, <1>10, <2>1 DEF PlainSample, Elapses
  <2>3. QED
    BY <1>1, <1>2, <1>9, <2>1, <2>2, ReturnedSample
<1>11. CASE ExecSample
  <2>1. stats' \in [Counters -> Nat] /\ Return /\ Found
    BY <1>4, <1>11 DEF ExecSample, PidCount, Counters
  <2>2. last_time = trace[first].timestamp /\ Candidate.timestamp >= last_time
    BY <1>2, <1>9, <1>11, <2>1 DEF ExecSample, Backwards
  <2>3. /\ Emit(pos + 1, sum + Executed) /\ sum + Executed \in Nat
        /\ sum + Executed <= Candidate.timestamp - trace[start].timestamp
    BY <1>2, <1>9, <1>11, <2>1, <2>2 DEF ExecSample, Executed
  <2>4. QED
    BY <1>1, <1>2, <1>9, <2>1, <2>3, ReturnedSample
<1>12. CASE ExecSuspend
  <2>1. stats' \in [Counters -> Nat] /\ Found /\ Proceed("suspended")
    BY <1>4, <1>12 DEF ExecSuspend, Counters
  <2>2. last_time = trace[first].timestamp /\ Candidate.timestamp >= last_time
    BY <1>2, <1>9, <1>12, <2>1 DEF ExecSuspend, Backwards
  <2>3. last_time' \in Nat /\ sum' \in Nat /\ trace[start].timestamp + sum' <= last_time'
    BY <1>2, <1>9, <1>12, <2>1, <2>2 DEF ExecSuspend, Executed
  <2>4. QED
    BY <1>1, <1>9, <2>1, <2>3, Proceeded DEF PidLocations
<1>13. CASE SuspendedResume
  <2>1. Found /\ Proceed("exec") /\ sum' = sum /\ stats' = stats /\ last_time' = Candidate.timestamp
    BY <1>13 DEF SuspendedResume
  <2>2. Candidate.timestamp >= last_time
    BY <1>2, <1>9, <1>13, <2>1 DEF SuspendedResume, Backwards
  <2>3. last_time' \in Nat /\ trace[start].timestamp + sum' <= last_time'
    BY <1>2, <1>9, <2>1, <2>2
  <2>4. QED
    BY <1>1, <1>2, <1>9, <2>1, <2>3, Proceeded DEF PidLocations
<1>14. CASE SuspendedSchedStart
  <2>1. /\ Found /\ Proceed("preempted") /\ sum' = sum /\ stats' = stats
        /\ last_time' = Candidate.timestamp
    BY <1>14 DEF SuspendedSchedStart
  <2>2. Candidate.timestamp >= last_time
    BY <1>2, <1>9, <1>14, <2>1 DEF SuspendedSchedStart, Backwards
  <2>3. last_time' \in Nat /\ trace[start].timestamp + sum' <= last_time'
    BY <1>2, <1>9, <2>1, <2>2
  <2>4. QED
    BY <1>1, <1>2, <1>9, <2>1, <2>3, Proceeded DEF PidLocations
<1>15. CASE PreemptedSchedEnd
  <2>1. /\ Found /\ Proceed("resuming") /\ sum' = sum /\ stats' = stats /\ last_time' = last_time
    BY <1>15 DEF PreemptedSchedEnd
  <2>2. QED
    BY <1>1, <1>2, <1>9, <2>1, Proceeded DEF PidLocations
<1>16. QED
  BY <1>6, <1>7, <1>8, <1>10, <1>11, <1>12, <1>13, <1>14, <1>15 DEF Pid

\* The loop over the single records.
LEMMA SingleAdvanced ==
    ASSUME Inv, pc = "single", start <= count, start' = start + 1, stats' \in [Counters -> Nat],
           UNCHANGED <<input, pc, search>>, out' \in Seq(Sample), SampleSound'
    PROVE  Inv'
<1>1. Ft2csvTypeOK'
  BY FileType DEF Inv, Ft2csvTypeOK, input, search, count
<1>2. SearchInv'
  BY DEF Inv, SearchInv, input, search, IsSingle, id, PidLocations
<1>3. QED
  BY <1>1, <1>2 DEF Inv

LEMMA SingleStep == ASSUME Inv, Single PROVE Inv'
<1>1. pc = "single" /\ out \in Seq(Sample) /\ stats \in [Counters -> Nat]
  BY DEF Single, SingleOther, SingleAvoided, SingleSample, SingleNonRT, SingleDone, Inv,
         Ft2csvTypeOK
<1>2. IsSingle
  BY <1>1 DEF Inv, SearchInv
<1>3. CASE SingleOther \/ SingleAvoided \/ SingleNonRT
  <2>1. start <= count /\ start' = start + 1 /\ UNCHANGED <<input, pc, search, out>>
    BY <1>3 DEF SingleOther, SingleAvoided, SingleNonRT
  <2>2. /\ Add(stats, "avoided", 1) \in [Counters -> Nat]
        /\ Add(stats, "non_rt", 1) \in [Counters -> Nat]
    BY <1>1, AddType DEF Counters
  <2>3. stats' \in [Counters -> Nat]
    BY <1>1, <1>3, <2>2 DEF SingleOther, SingleAvoided, SingleNonRT, Bump
  <2>4. SampleSound'
    BY <2>1, SoundUnchanged DEF Inv
  <2>5. QED
    BY <1>1, <2>1, <2>3, <2>4, SingleAdvanced
<1>4. CASE SingleSample
  <2>1. /\ start <= count /\ start' = start + 1 /\ UNCHANGED <<input, pc, search>>
        /\ stats' \in [Counters -> Nat]
    BY <1>1, <1>4, AddType DEF SingleSample, Bump, Counters
  <2>2. start \in 1 .. count /\ trace[start] \in Record
    BY <2>1, FileType DEF Inv
  <2>3. trace[start].timestamp \in Nat
    BY <2>2 DEF Record
  <2>4. out' \in Seq(Sample) /\ SampleSound'
    BY <1>2, <1>4, <2>1, <2>2, <2>3, SoundEmit DEF SingleSample
  <2>5. QED
    BY <1>1, <2>1, <2>4, SingleAdvanced
<1>5. CASE SingleDone
  <2>1. Ft2csvTypeOK'
    BY <1>5, FileType DEF SingleDone, Inv, Ft2csvTypeOK, input, search, count
  <2>2. SearchInv'
    BY <1>5 DEF SingleDone, Inv, SearchInv, input, search, IsSingle, id, PidLocations
  <2>3. QED
    BY <1>5, <2>1, <2>2, SoundUnchanged DEF SingleDone, Inv
<1>6. QED
  BY <1>3, <1>4, <1>5 DEF Single

LEMMA Stutter == ASSUME Inv, UNCHANGED vars PROVE Inv'
<1>1. Ft2csvTypeOK'
  BY DEF Inv, Ft2csvTypeOK, vars, input, search, count
<1>2. SearchInv'
  BY DEF Inv, SearchInv, vars, input, search, IsSingle, id, by_pid, SameTask, count, Unbroken
<1>3. QED
  BY <1>1, <1>2, SoundUnchanged DEF Inv, vars

LEMMA Invariance == Spec => []Inv
<1>1. Inv /\ [Next]_vars => Inv'
  BY ScanStep, EidStep, PidStep, SingleStep, Stutter DEF Next
<1>2. QED
  BY InitInv, <1>1, PTL DEF Spec

-----------------------------------------------------------------------------
(***************************************************************************)
(* ft2csv never loses the type of its variables: no difference of time     *)
(* stamps is negative, that is, none of the unsigned subtractions wraps    *)
(* around, and no pointer leaves the file.                                 *)
(***************************************************************************)
THEOREM TypeCorrect == Spec => []Ft2csvTypeOK
<1>1. Inv => Ft2csvTypeOK
  BY DEF Inv
<1>2. QED
  BY Invariance, <1>1, PTL

(***************************************************************************)
(* Every sample written relates a START to a later END of its CPU or task, *)
(* across no missing record, and reports no more time than has passed.     *)
(***************************************************************************)
THEOREM SampleTheorem == Spec => []SampleSound
<1>1. Inv => SampleSound
  BY DEF Inv
<1>2. QED
  BY Invariance, <1>1, PTL

-----------------------------------------------------------------------------
(* No END completes two samples *)

\* The event measured is not one that a search by task looks for as a step on its way
\* (0, no event, is sought where there is no second one).
Followed == {0, TS_LOCK_SUSPEND, TS_LOCK_RESUME, TS_SCHED_START, TS_SCHED_END}

MeasuredApart ==
    \A job \in Jobs : \A c \in job.commands :
      /\ c.id \notin {0, TS_LOCK_SUSPEND, TS_LOCK_RESUME}
      /\ c.find_by_pid = "pid" => c.id \notin {TS_SCHED_START, TS_SCHED_END}

\* The condition of EndUsedOnce: no search passes over records of the task.
Exclusive == Matching # "plain" \/ opts.max_interleaved_skipped = 0

(***************************************************************************)
(* No START that could be completed by the same END lies between a START   *)
(* and the place its search has got to, nor between the two records of a   *)
(* sample; and every sample begins after the one written before it.        *)
(***************************************************************************)
Rival(i, k) == trace[k].event = id /\ IF by_pid THEN SameTask(i, k) ELSE SameCpu(i, k)
Alone(i, j) == \A k \in (i + 1) .. j : ~Rival(i, k)

Located ==
    /\ pc = "eid" => Matching = "eid"
    /\ pc = "plain" => Matching = "plain"
    /\ pc \in PidLocations \ {"plain"} => Matching = "exec"
    /\ by_pid => id \notin Followed

EndInv ==
    /\ Located
    /\ Exclusive /\ pc \in {"eid"} \cup PidLocations => Alone(start, pos)
    /\ \A n \in DOMAIN out :
         /\ out[n].first < start
         /\ IF IsSingle THEN out[n].second = out[n].first
            ELSE Exclusive => Alone(out[n].first, out[n].second)
    /\ \A m, n \in DOMAIN out : m < n => out[m].first < out[n].first

LEMMA InitEnd == ASSUME MeasuredApart PROVE Init => EndInv
<1> SUFFICES ASSUME Init PROVE EndInv
  OBVIOUS
<1>1. PICK job \in Jobs : trace \in job.traces /\ opts \in job.commands
  BY DEF Init
<1>2. by_pid => id \notin Followed
  <2>1. opts.find_by_pid # "pid" /\ by_pid => id <= PID_RECORDS_RANGE
    BY DEF by_pid
  <2>2. id \in Nat
    BY <1>1, Ft2csvAssumption DEF id, CommandLine
  <2>3. QED
    BY <1>1, <2>1, <2>2 DEF MeasuredApart, Followed, id, PID_RECORDS_RANGE, TS_SCHED_START, TS_SCHED_END
<1>3. QED
  BY <1>2 DEF Init, EndInv, Located, PidLocations

LEMMA OutType ==
    ASSUME Inv
    PROVE  /\ start \in Nat /\ out \in Seq(Sample)
           /\ \A n \in DOMAIN out : out[n] \in Sample /\ out[n].first \in Nat
<1>1. start \in Nat
  BY FileType DEF Inv
<1>2. out \in Seq(Sample)
  BY DEF Inv, Ft2csvTypeOK
<1>3. \A n \in DOMAIN out : out[n] \in Sample
  BY <1>2
<1>4. QED
  BY <1>1, <1>2, <1>3 DEF Sample

\* A step that writes nothing, and does not take a START back.
LEMMA EndUnchanged ==
    ASSUME Inv, EndInv, UNCHANGED <<input, out>>, start' \in {start, start + 1}, Located',
           (Exclusive /\ pc \in {"eid"} \cup PidLocations => Alone(start, pos))'
    PROVE  EndInv'
<1>1. start \in Nat /\ \A n \in DOMAIN out : out[n].first \in Nat
  BY OutType
<1>2. Exclusive' <=> Exclusive
  BY DEF Exclusive, Matching, by_pid, id, input
<1>3. \A i, j : Alone(i, j)' <=> Alone(i, j)
  BY DEF Alone, Rival, SameTask, SameCpu, by_pid, id, input
<1>4. IsSingle' <=> IsSingle
  BY DEF IsSingle, id, input
<1>5. \A n \in DOMAIN out :
        /\ (out[n].first < start)'
        /\ IF IsSingle THEN out[n].second = out[n].first
           ELSE Exclusive => Alone(out[n].first, out[n].second)
  BY <1>1 DEF EndInv
<1>6. \A n \in DOMAIN out' :
        /\ out'[n].first < start'
        /\ IF IsSingle' THEN out'[n].second = out'[n].first
           ELSE Exclusive' => Alone(out[n].first, out[n].second)'
  BY <1>2, <1>3, <1>4, <1>5
<1>7. \A m, n \in DOMAIN out' : m < n => out'[m].first < out'[n].first
  BY DEF EndInv
<1>8. QED
  BY <1>6, <1>7 DEF EndInv

\* A step that writes a sample which begins at the START, after which the search is over.
LEMMA EndEmitted ==
    ASSUME Inv, EndInv, UNCHANGED input, start' = start + 1, Located',
           pc' \notin {"eid"} \cup PidLocations,
           NEW second \in Nat, NEW exec_time, Emit(second, exec_time),
           IF IsSingle THEN second = start ELSE Exclusive => Alone(start, second)
    PROVE  EndInv'
<1> DEFINE new == [first |-> start, second |-> second, exec_time |-> exec_time]
<1>1. /\ start \in Nat /\ Len(out) \in Nat /\ DOMAIN out = 1 .. Len(out)
      /\ \A n \in DOMAIN out : out[n].first \in Nat
  BY OutType
<1>2. /\ DOMAIN out' = 1 .. (Len(out) + 1) /\ out'[Len(out) + 1] = new
      /\ \A n \in DOMAIN out : out'[n] = out[n]
  BY OutType DEF Emit
<1>3. new.first = start /\ new.second = second
  OBVIOUS
<1> HIDE DEF new
<1>4. Exclusive' <=> Exclusive
  BY DEF Exclusive, Matching, by_pid, id, input
<1>5. \A i, j : Alone(i, j)' <=> Alone(i, j)
  BY DEF Alone, Rival, SameTask, SameCpu, by_pid, id, input
<1>6. IsSingle' <=> IsSingle
  BY DEF IsSingle, id, input
<1>7. ASSUME NEW n \in DOMAIN out'
      PROVE  /\ out'[n].first < start'
             /\ IF IsSingle' THEN out'[n].second = out'[n].first
                ELSE Exclusive' => Alone(out[n].first, out[n].second)'
  <2>1. CASE n = Len(out) + 1
    <3>1. out'[n] = new
      BY <1>2, <2>1
    <3>2. QED
      BY <1>1, <1>3, <1>4, <1>5, <1>6, <3>1
  <2>2. CASE n # Len(out) + 1
    <3>1. n \in DOMAIN out /\ out'[n] = out[n]
      BY <1>1, <1>2, <2>2
    <3>2. out[n].first < start + 1
      BY <1>1, <3>1 DEF EndInv
    <3>3. QED
      BY <1>4, <1>5, <1>6, <3>1, <3>2 DEF EndInv
  <2>3. QED
    BY <2>1, <2>2
<1>8. ASSUME NEW m \in DOMAIN out', NEW n \in DOMAIN out', m < n
      PROVE  out'[m].first < out'[n].first
  <2>1. m \in DOMAIN out /\ out'[m] = out[m]
    BY <1>1, <1>2, <1>8
  <2>2. CASE n = Len(out) + 1
    BY <1>2, <1>3, <2>1, <2>2 DEF EndInv
  <2>3. CASE n # Len(out) + 1
    <3>1. n \in DOMAIN out /\ out'[n] = out[n]
      BY <1>1, <1>2, <2>3
    <3>2. QED
      BY <1>8, <2>1, <3>1 DEF EndInv
  <2>4. QED
    BY <2>2, <2>3
<1>9. QED
  BY <1>7, <1>8 DEF EndInv

\* The search goes past a record that is no rival.
LEMMA EndAdvanced ==
    ASSUME Inv, EndInv, pc \in {"eid"} \cup PidLocations, UNCHANGED <<input, start, out>>,
           ~BreaksOff, pos' = pos + 1, Located', Exclusive => ~Rival(start, pos + 1)
    PROVE  EndInv'
<1>1. pos \in Nat /\ start \in Nat /\ start <= pos
  BY Searching
<1>2. Exclusive => Alone(start, pos + 1)
  BY <1>1 DEF EndInv, Alone
<1>3. (Exclusive => Alone(start, pos))'
  BY <1>2 DEF Exclusive, Matching, Alone, Rival, SameTask, SameCpu, by_pid, id, input
<1>4. QED
  BY <1>3, EndUnchanged

\* The search ends.
LEMMA LocatedAfter ==
    ASSUME EndInv, UNCHANGED input, pc' = pc \/ pc' \notin {"eid"} \cup PidLocations
    PROVE  Located'
  BY DEF EndInv, Located, Matching, by_pid, id, input, PidLocations

LEMMA EndReturned ==
    ASSUME Inv, EndInv, Return, UNCHANGED out PROVE EndInv'
<1>1. pc' \notin {"eid"} \cup PidLocations
  BY DEF Return, PidLocations
<1>2. QED
  BY <1>1, LocatedAfter, EndUnchanged DEF Return

LEMMA EndSample ==
    ASSUME Inv, EndInv, pc \in {"eid"} \cup PidLocations, ~BreaksOff, Candidate.event # id, Return,
           NEW exec_time, Emit(pos + 1, exec_time)
    PROVE  EndInv'
<1>1. pos \in Nat /\ start \in Nat /\ start <= pos /\ ~IsSingle
  BY Searching
<1>2. ~Rival(start, pos + 1)
  BY DEF Rival, Candidate
<1>3. Exclusive => Alone(start, pos + 1)
  BY <1>1, <1>2 DEF EndInv, Alone
<1>4. pc' \notin {"eid"} \cup PidLocations
  BY DEF Return, PidLocations
<1>5. QED
  BY <1>1, <1>3, <1>4, LocatedAfter, EndEmitted DEF Return

-----------------------------------------------------------------------------
(* The steps                                                               *)

LEMMA EndScan == ASSUME Inv, EndInv, Scan PROVE EndInv'
<1>1. CASE ScanStart
  <2>1. Located'
    BY <1>1 DEF ScanStart, EndInv, Located, Matching, by_pid, id, input, PidLocations
  <2>2. Alone(start, pos)'
    BY <1>1, OutType DEF ScanStart, Alone
  <2>3. QED
    BY <1>1, <2>1, <2>2, EndUnchanged DEF ScanStart
<1>2. CASE \/ SkipRecord \/ SkipDone \/ ScanOther \/ ScanAvoided \/ ScanDone
  <2>1. /\ pc' \notin {"eid"} \cup PidLocations /\ UNCHANGED <<input, out>>
        /\ start' \in {start, start + 1}
    BY <1>2 DEF SkipRecord, SkipDone, ScanOther, ScanAvoided, ScanDone, PidLocations
  <2>2. QED
    BY <2>1, LocatedAfter, EndUnchanged
<1>3. QED
  BY <1>1, <1>2 DEF Scan

LEMMA EndEid == ASSUME Inv, EndInv, Eid PROVE EndInv'
<1>1. CASE \/ EidBreaksOff \/ EidStart \/ EidInterleaved \/ EidInterrupted
           \/ EidEndInterrupted \/ EidBackwards \/ EidNonRT
  BY <1>1, EndReturned
     DEF EidBreaksOff, EidStart, EidInterleaved, EidInterrupted, EidEndInterrupted,
         EidBackwards, EidNonRT
<1>2. CASE EidOtherCpu \/ EidPassed
  <2>1. /\ pc = "eid" /\ ~BreaksOff /\ pos' = pos + 1 /\ pc' = pc
        /\ UNCHANGED <<input, start, out>>
        /\ Candidate.cpu # trace[start].cpu \/ Candidate.event # id
    BY <1>2 DEF EidOtherCpu, EidPassed, Between, OnCpu
  <2>2. ~by_pid
    BY <2>1 DEF Inv, SearchInv
  <2>3. ~Rival(start, pos + 1)
    BY <2>1, <2>2 DEF Rival, SameCpu, Candidate
  <2>4. QED
    BY <2>1, <2>3, LocatedAfter, EndAdvanced
<1>3. CASE EidSample
  <2>1. pc = "eid" /\ ~BreaksOff /\ Return /\ Candidate.event = id + 1 /\ id \in Nat
    BY <1>3, FileType DEF EidSample, EidEnd, OnCpu, IsEnd, Inv
  <2>2. QED
    BY <1>3, <2>1, EndSample DEF EidSample
<1>4. QED
  BY <1>1, <1>2, <1>3 DEF Eid

\* A record of the task that is passed over or followed is no START of the task.
LEMMA EndPid == ASSUME Inv, EndInv, Pid PROVE EndInv'
<1>1. pc \in PidLocations
  BY DEF Pid, PidBreaksOff, PidInterrupted, PidPassed, PidUnexpected, PlainBackwards,
         PlainSample, ExecBackwards, ExecSample, ExecSuspend, SuspendedResume,
         SuspendedSchedStart, PreemptedSchedEnd, Found, Regarded, Looking, PidLocations
<1>2. /\ by_pid /\ SameTask(start, first) /\ first \in Nat /\ pos \in Nat /\ first <= pos
      /\ id \in Nat
      /\ id \notin Followed
  BY <1>1, Searching, FileType DEF EndInv, Located, PidLocations, Inv
<1>3. CASE PidBreaksOff \/ PidInterrupted \/ PidUnexpected \/ PlainBackwards \/ ExecBackwards
  BY <1>3, EndReturned
     DEF PidBreaksOff, PidInterrupted, PidUnexpected, PlainBackwards, ExecBackwards
<1>4. CASE PidPassed
  <2>1. /\ ~BreaksOff /\ pos' = pos + 1 /\ UNCHANGED <<input, pc, start, out>>
        /\ OfTask => Tolerated
    BY <1>4 DEF PidPassed, Regarded, Looking
  <2>2. Exclusive => opts.max_interleaved_skipped = 0
    <3>1. pc # "plain" => Matching = "exec"
      BY <1>1 DEF EndInv, Located
    <3>2. pc = "plain" => Matching = "plain"
      BY DEF EndInv, Located
    <3>3. QED
      BY <3>1, <3>2 DEF Exclusive, Matching
  <2>3. Exclusive => ~OfTask
    BY <1>2, <2>1, <2>2 DEF Tolerated
  <2>4. Exclusive => ~Rival(start, pos + 1)
    BY <1>2, <2>3 DEF Rival, SameTask, OfTask, Candidate
  <2>5. QED
    BY <1>1, <2>1, <2>4, LocatedAfter, EndAdvanced
<1>5. CASE PlainSample \/ ExecSample
  <2>1. ~BreaksOff /\ Return /\ Found
    BY <1>5 DEF PlainSample, ExecSample, Found, Regarded, Looking
  <2>2. Candidate.event \in {id + 1, 0}
    BY <1>5 DEF PlainSample, ExecSample, Found, Sought, IsEnd
  <2>3. Candidate.event # id
    BY <1>2, <2>2 DEF Followed
  <2>4. QED
    BY <1>1, <1>5, <2>1, <2>3, EndSample DEF PlainSample, ExecSample
<1>6. CASE ExecSuspend \/ SuspendedResume \/ SuspendedSchedStart \/ PreemptedSchedEnd
  <2>1. /\ Found /\ ~BreaksOff /\ pc # "plain" /\ pos' = pos + 1
        /\ pc' \in PidLocations \ {"plain"} /\ UNCHANGED <<input, start, out>>
    BY <1>6 DEF ExecSuspend, SuspendedResume, SuspendedSchedStart, PreemptedSchedEnd,
                Proceed, Found, Regarded, Looking, PidLocations
  <2>2. Candidate.event \in Followed
    BY <1>6 DEF ExecSuspend, SuspendedResume, SuspendedSchedStart, PreemptedSchedEnd,
                Found, Sought, IsEnd, Followed
  <2>3. ~Rival(start, pos + 1)
    BY <1>2, <2>2 DEF Rival, Candidate
  <2>4. Located'
    BY <1>1, <2>1 DEF EndInv, Located, Matching, by_pid, id, input, PidLocations
  <2>5. QED
    BY <1>1, <2>1, <2>3, <2>4, EndAdvanced
<1>7. QED
  BY <1>3, <1>4, <1>5, <1>6 DEF Pid

LEMMA EndSingle == ASSUME Inv, EndInv, Single PROVE EndInv'
<1>1. pc = "single" /\ IsSingle
  BY DEF Single, SingleOther, SingleAvoided, SingleSample, SingleNonRT, SingleDone, Inv,
         SearchInv
<1>2. pc' \notin {"eid"} \cup PidLocations /\ UNCHANGED input
  BY <1>1 DEF Single, SingleOther, SingleAvoided, SingleSample, SingleNonRT, SingleDone,
              PidLocations
<1>3. CASE SingleSample
  BY <1>1, <1>2, <1>3, OutType, LocatedAfter, EndEmitted DEF SingleSample
<1>4. CASE SingleOther \/ SingleAvoided \/ SingleNonRT \/ SingleDone
  <2>1. UNCHANGED out /\ start' \in {start, start + 1}
    BY <1>4 DEF SingleOther, SingleAvoided, SingleNonRT, SingleDone
  <2>2. QED
    BY <1>2, <2>1, LocatedAfter, EndUnchanged
<1>5. QED
  BY <1>3, <1>4 DEF Single

LEMMA EndStutter == ASSUME Inv, EndInv, UNCHANGED vars PROVE EndInv'
<1>1. Located'
  BY LocatedAfter DEF vars
<1>2. (Exclusive /\ pc \in {"eid"} \cup PidLocations => Alone(start, pos))'
  BY DEF EndInv, Exclusive, Matching, Alone, Rival, SameTask, SameCpu, by_pid, id, input,
         search, vars
<1>3. QED
  BY <1>1, <1>2, EndUnchanged DEF vars

\* Two STARTs completed by one END would be rivals, the later one in the way of the
\* earlier one.
LEMMA AloneIsOnce == ASSUME Inv, EndInv PROVE EndUsedOnce
<1> SUFFICES ASSUME Exclusive, NEW m \in DOMAIN out, NEW n \in DOMAIN out, m < n,
                    out[m].second = out[n].second
             PROVE  FALSE
  <2>1. DOMAIN out \subseteq Int
    BY OutType
  <2>2. QED
    BY <2>1 DEF EndUsedOnce, Exclusive
<1> DEFINE i == out[m].first   k == out[n].first   j == out[n].second
<1>1. i < k /\ i \in Nat /\ k \in Nat /\ j \in Nat
  BY OutType DEF EndInv, Sample
<1>2. CASE IsSingle
  BY <1>1, <1>2 DEF EndInv
<1>3. CASE ~IsSingle
  <2>1. /\ k < j /\ trace[k].event = id
        /\ IF by_pid THEN SameTask(i, j) /\ SameTask(k, j) ELSE SameCpu(i, j) /\ SameCpu(k, j)
    BY <1>3 DEF Inv, SampleSound
  <2>2. Rival(i, k)
    BY <2>1 DEF Rival, SameTask, SameCpu
  <2>3. Alone(i, j)
    BY <1>3 DEF EndInv
  <2>4. QED
    BY <1>1, <2>1, <2>2, <2>3 DEF Alone
<1>4. QED
  BY <1>2, <1>3

(***************************************************************************)
(* Whatever the file, an END completes one sample at most, as long as -s   *)
(* does not let a search pass a second START and the event measured is not *)
(* part of the way a suspension is followed: a START of LOCK_RESUME (39),  *)
(* say, is met again as the RESUME of an earlier search.                   *)
(***************************************************************************)
THEOREM EndTheorem == ASSUME MeasuredApart PROVE Spec => []EndUsedOnce
<1>1. Inv /\ EndInv /\ [Next]_vars => EndInv'
  BY EndScan, EndEid, EndPid, EndSingle, EndStutter DEF Next
<1>2. Spec => []EndInv
  BY InitEnd, Invariance, <1>1, PTL DEF Spec
<1>3. Inv /\ EndInv => EndUsedOnce
  BY AloneIsOnce
<1>4. QED
  BY Invariance, <1>2, <1>3, PTL

-----------------------------------------------------------------------------
(* The report: what is counted so far is what has been begun.              *)
Counted(s) == s.complete + s.incomplete + s.non_rt + s.avoided

StartsBefore(n) == {i \in FirstEnd .. (n - 1) : trace[i].event = id}

AddsUp(n) ==
    /\ Counted(stats) <= n
    /\ opts.interrupted => Counted(stats) = n
    /\ by_pid /\ ~opts.interrupted => Counted(stats) + stats.interrupted = n

IsFirstEnd(e) ==
    /\ e <= count => trace[e].event = id + 1
    /\ \A k \in 1 .. (e - 1) : trace[k].event # id + 1

CountInv ==
    /\ stats.complete = Len(out)
    /\ pc = "skip" => /\ Counted(stats) = 0 /\ stats.interrupted = 0
                      /\ \A k \in 1 .. (start - 1) : trace[k].event # id + 1
    /\ pc # "skip" /\ ~IsSingle =>
         /\ FirstEnd \in 1 .. start /\ IsFiniteSet(StartsBefore(start))
         /\ AddsUp(Cardinality(StartsBefore(start)))
    /\ pc = "done" /\ ~IsSingle => start = count + 1

LEMMA StatsAre ==
    ASSUME NEW s \in [Counters -> Nat]
    PROVE  /\ Counted(s) \in Nat /\ s.complete \in Nat /\ s.incomplete \in Nat
           /\ s.non_rt \in Nat /\ s.avoided \in Nat /\ s.interrupted \in Nat
  BY DEF Counted, Counters

LEMMA AddIs ==
    ASSUME NEW s \in [Counters -> Nat], NEW f \in Counters, NEW n \in Nat
    PROVE  \A g \in Counters : Add(s, f, n)[g] = IF g = f THEN s[g] + n ELSE s[g]
  BY DEF Add

\* A counter that says what became of a START.
LEMMA AddCounts ==
    ASSUME NEW s \in [Counters -> Nat], NEW f \in Counters, NEW n \in Nat
    PROVE  /\ Add(s, f, n) \in [Counters -> Nat]
           /\ f \in {"complete", "incomplete", "non_rt", "avoided"} =>
                Counted(Add(s, f, n)) = Counted(s) + n
           /\ f \notin {"complete", "incomplete", "non_rt", "avoided"} =>
                Counted(Add(s, f, n)) = Counted(s)
           /\ Add(s, f, n).complete = IF f = "complete" THEN s.complete + n ELSE s.complete
           /\ Add(s, f, n).interrupted =
                IF f = "interrupted" THEN s.interrupted + n ELSE s.interrupted
<1> DEFINE a == Add(s, f, n)
<1>1. /\ a.complete = (IF f = "complete" THEN s.complete + n ELSE s.complete)
      /\ a.incomplete = (IF f = "incomplete" THEN s.incomplete + n ELSE s.incomplete)
      /\ a.non_rt = (IF f = "non_rt" THEN s.non_rt + n ELSE s.non_rt)
      /\ a.avoided = (IF f = "avoided" THEN s.avoided + n ELSE s.avoided)
      /\ a.interrupted = (IF f = "interrupted" THEN s.interrupted + n ELSE s.interrupted)
  BY AddIs, SMTT(60) DEF Counters
<1>2. /\ s.complete \in Nat /\ s.incomplete \in Nat /\ s.non_rt \in Nat /\ s.avoided \in Nat
  BY StatsAre
<1> HIDE DEF a
<1>3. /\ f \in {"complete", "incomplete", "non_rt", "avoided"} => Counted(a) = Counted(s) + n
      /\ f \notin {"complete", "incomplete", "non_rt", "avoided"} => Counted(a) = Counted(s)
  BY <1>1, <1>2 DEF Counted
<1>4. a \in [Counters -> Nat]
  BY AddType DEF a
<1>5. QED
  BY <1>1, <1>3, <1>4 DEF a

LEMMA AddBegun ==
    ASSUME NEW s \in [Counters -> Nat],
           NEW f \in {"complete", "incomplete", "non_rt", "avoided"}
    PROVE  /\ Add(s, f, 1) \in [Counters -> Nat]
           /\ Counted(Add(s, f, 1)) = Counted(s) + 1
           /\ Add(s, f, 1).complete = IF f = "complete" THEN s.complete + 1 ELSE s.complete
           /\ Add(s, f, 1).interrupted = s.interrupted
<1> DEFINE a == Add(s, f, 1)
<1>1. f \in Counters /\ f # "interrupted" /\ 1 \in Nat
  BY DEF Counters
<1>2. /\ a \in [Counters -> Nat]
      /\ f \in {"complete", "incomplete", "non_rt", "avoided"} => Counted(a) = Counted(s) + 1
      /\ a.complete = IF f = "complete" THEN s.complete + 1 ELSE s.complete
      /\ a.interrupted = IF f = "interrupted" THEN s.interrupted + 1 ELSE s.interrupted
  BY <1>1, AddCounts
<1> HIDE DEF a
<1>3. a.interrupted = s.interrupted
  BY <1>1, <1>2
<1>4. Counted(a) = Counted(s) + 1
  BY <1>2
<1>5. QED
  BY <1>2, <1>3, <1>4 DEF a

LEMMA AddOther ==
    ASSUME NEW s \in [Counters -> Nat], NEW n \in Nat,
           NEW f \in {"interrupted", "interleaved", "skipped"}
    PROVE  /\ Add(s, f, n) \in [Counters -> Nat] /\ Counted(Add(s, f, n)) = Counted(s)
           /\ Add(s, f, n).complete = s.complete
           /\ Add(s, f, n).interrupted =
                IF f = "interrupted" THEN s.interrupted + n ELSE s.interrupted
<1> DEFINE a == Add(s, f, n)
<1>1. f \in Counters /\ f # "complete"
  BY DEF Counters
<1>2. /\ a \in [Counters -> Nat]
      /\ f \notin {"complete", "incomplete", "non_rt", "avoided"} => Counted(a) = Counted(s)
      /\ a.complete = IF f = "complete" THEN s.complete + n ELSE s.complete
      /\ a.interrupted = IF f = "interrupted" THEN s.interrupted + n ELSE s.interrupted
  BY <1>1, AddCounts, SMTT(60)
<1> HIDE DEF a
<1>3. a.complete = s.complete
  BY <1>1, <1>2
<1>4. f \notin {"complete", "incomplete", "non_rt", "avoided"}
  OBVIOUS
<1>5. Counted(a) = Counted(s)
  BY <1>2, <1>4
<1>6. QED
  BY <1>2, <1>3, <1>5 DEF a

-----------------------------------------------------------------------------
(* The first END, and the STARTs after it.                                 *)
LEMMA FirstEndIs ==
    ASSUME Inv, NEW e \in 1 .. (count + 1), IsFirstEnd(e)
    PROVE  FirstEnd = e
<1>1. FirstEnd = CHOOSE d \in 1 .. (count + 1) : IsFirstEnd(d)
  BY DEF FirstEnd, IsFirstEnd
<1>2. FirstEnd \in 1 .. (count + 1) /\ IsFirstEnd(FirstEnd)
  BY <1>1
<1>3. count \in Nat
  BY FileType DEF Inv
<1>4. QED
  BY <1>2, <1>3 DEF IsFirstEnd

LEMMA NoStartsYet == FirstEnd \in Int => StartsBefore(FirstEnd) = {}
  BY DEF StartsBefore

LEMMA OneStartMore ==
    ASSUME Inv, start \in 1 .. count, FirstEnd \in 1 .. start, IsFiniteSet(StartsBefore(start))
    PROVE  /\ IsFiniteSet(StartsBefore(start + 1))
           /\ Cardinality(StartsBefore(start + 1)) =
                Cardinality(StartsBefore(start)) + One(trace[start].event = id)
           /\ Cardinality(StartsBefore(start)) \in Nat
<1>1. start \notin StartsBefore(start)
  BY DEF StartsBefore
<1>2. StartsBefore(start + 1) = IF trace[start].event = id THEN StartsBefore(start) \cup {start}
                                ELSE StartsBefore(start)
  BY DEF StartsBefore
<1>3. Cardinality(StartsBefore(start)) \in Nat
  BY FS_CardinalityType
<1>4. QED
  BY <1>1, <1>2, <1>3, FS_AddElement DEF One

-----------------------------------------------------------------------------
(* The steps, as far as the report goes.                                   *)
LEMMA SameInput ==
    ASSUME UNCHANGED input
    PROVE  /\ FirstEnd' = FirstEnd /\ count' = count /\ id' = id /\ trace' = trace
           /\ opts' = opts /\ by_pid' = by_pid /\ IsSingle' = IsSingle
           /\ StartsBefore(start)' = StartsBefore(start')
  BY DEF input, FirstEnd, count, id, by_pid, IsSingle, StartsBefore

\* No START is begun or finished.
LEMMA CountStays ==
    ASSUME Inv, CountInv, UNCHANGED <<input, start, out>>, pc # "skip", pc' # "skip",
           pc' = "done" /\ ~IsSingle => start = count + 1,
           stats'.complete = stats.complete, Counted(stats') = Counted(stats),
           by_pid /\ ~opts.interrupted => stats'.interrupted = stats.interrupted
    PROVE  CountInv'
<1>1. CASE IsSingle
  BY <1>1, SameInput DEF CountInv
<1>2. CASE ~IsSingle
  <2>1. /\ FirstEnd \in 1 .. start /\ IsFiniteSet(StartsBefore(start))
        /\ AddsUp(Cardinality(StartsBefore(start)))
    BY <1>2 DEF CountInv
  <2>2. /\ FirstEnd' \in 1 .. start' /\ IsFiniteSet(StartsBefore(start))'
    BY <2>1, SameInput
  <2>3. AddsUp(Cardinality(StartsBefore(start)))'
    BY <2>1, SameInput DEF AddsUp, Counted
  <2>4. QED
    BY <1>2, <2>2, <2>3, SameInput DEF CountInv
<1>3. QED
  BY <1>1, <1>2

\* A record that may be a START is done with.
LEMMA CountMoves ==
    ASSUME Inv, CountInv, ~IsSingle, pc \notin {"skip", "done"}, start <= count,
           UNCHANGED input, start' = start + 1, pc' \notin {"skip", "done"},
           stats' \in [Counters -> Nat], stats'.complete = Len(out'),
           \/ /\ Counted(stats') = Counted(stats) + One(trace[start].event = id)
              /\ by_pid /\ ~opts.interrupted => stats'.interrupted = stats.interrupted
           \/ /\ trace[start].event = id /\ ~opts.interrupted /\ Counted(stats') = Counted(stats)
              /\ by_pid => stats'.interrupted = stats.interrupted + 1
    PROVE  CountInv'
<1>1. start \in 1 .. count /\ stats \in [Counters -> Nat]
  BY FileType DEF Inv, Ft2csvTypeOK
<1>2. /\ FirstEnd \in 1 .. start /\ IsFiniteSet(StartsBefore(start))
      /\ AddsUp(Cardinality(StartsBefore(start)))
  BY DEF CountInv
<1> DEFINE old == Cardinality(StartsBefore(start))
           new == Cardinality(StartsBefore(start'))
           begun == One(trace[start].event = id)
<1>3. /\ IsFiniteSet(StartsBefore(start')) /\ new = old + begun
      /\ old \in Nat
  BY <1>1, <1>2, OneStartMore
<1>4. /\ Counted(stats) \in Nat /\ stats.interrupted \in Nat
      /\ Counted(stats') \in Nat /\ stats'.interrupted \in Nat
  BY <1>1, StatsAre
<1>5. AddsUp(old)
  BY <1>2
<1>a. begun \in {0, 1} /\ (trace[start].event = id => begun = 1)
  BY DEF One
<1>b. \/ /\ Counted(stats') = Counted(stats) + begun
         /\ by_pid /\ ~opts.interrupted => stats'.interrupted = stats.interrupted
      \/ /\ begun = 1 /\ ~opts.interrupted /\ Counted(stats') = Counted(stats)
         /\ by_pid => stats'.interrupted = stats.interrupted + 1
  BY <1>a
<1> HIDE DEF old, new, begun
<1>6. /\ Counted(stats') <= new
      /\ opts.interrupted => Counted(stats') = new
      /\ by_pid /\ ~opts.interrupted => Counted(stats') + stats'.interrupted = new
  <2> DEFINE c == Counted(stats)
             d == Counted(stats')
             x == stats.interrupted
             y == stats'.interrupted
  <2>1. /\ c <= old /\ (opts.interrupted => c = old)
        /\ by_pid /\ ~opts.interrupted => c + x = old
    BY <1>5 DEF AddsUp
  <2>2. /\ c \in Nat /\ d \in Nat /\ x \in Nat /\ y \in Nat /\ old \in Nat
        /\ new = old + begun /\ begun \in {0, 1}
    BY <1>3, <1>4, <1>a
  <2>3. \/ d = c + begun /\ (by_pid /\ ~opts.interrupted => y = x)
        \/ begun = 1 /\ ~opts.interrupted /\ d = c /\ (by_pid => y = x + 1)
    BY <1>b
  <2> HIDE DEF c, d, x, y
  <2>4. d <= new /\ (opts.interrupted => d = new) /\ (by_pid /\ ~opts.interrupted => d + y = new)
    BY <2>1, <2>2, <2>3
  <2>5. QED
    BY <2>4 DEF d, y
<1>7. AddsUp(Cardinality(StartsBefore(start)))'
  BY <1>6, SameInput DEF AddsUp, Counted, new
<1>8. FirstEnd' \in 1 .. start' /\ IsFiniteSet(StartsBefore(start))'
  BY <1>1, <1>2, <1>3, SameInput
<1>9. QED
  BY <1>7, <1>8, SameInput DEF CountInv

\* The end of a search that wrote nothing.
LEMMA CountReturns ==
    ASSUME Inv, CountInv, pc \in {"eid"} \cup PidLocations, Return, UNCHANGED out,
           stats' \in [Counters -> Nat], stats'.complete = stats.complete,
           \/ /\ Counted(stats') = Counted(stats) + 1
              /\ by_pid /\ ~opts.interrupted => stats'.interrupted = stats.interrupted
           \/ /\ ~opts.interrupted /\ Counted(stats') = Counted(stats)
              /\ by_pid => stats'.interrupted = stats.interrupted + 1
    PROVE  CountInv'
<1>1. ~IsSingle /\ start \in 1 .. count /\ trace[start].event = id /\ pc \notin {"skip", "done"}
  BY Searching DEF PidLocations
<1>2. One(trace[start].event = id) = 1
  BY <1>1 DEF One
<1>3. stats'.complete = Len(out')
  BY DEF CountInv
<1>4. start <= count /\ UNCHANGED input /\ start' = start + 1 /\ pc' \notin {"skip", "done"}
  BY <1>1 DEF Return
<1>5. QED
  BY <1>1, <1>2, <1>3, <1>4, CountMoves

\* The end of a search that wrote a sample.
LEMMA CountEmits ==
    ASSUME Inv, CountInv, pc \in {"eid"} \cup PidLocations, Return,
           NEW second, NEW exec_time, Emit(second, exec_time),
           stats' \in [Counters -> Nat], stats'.complete = stats.complete + 1,
           Counted(stats') = Counted(stats) + 1,
           by_pid /\ ~opts.interrupted => stats'.interrupted = stats.interrupted
    PROVE  CountInv'
<1>1. ~IsSingle /\ start \in 1 .. count /\ trace[start].event = id /\ pc \notin {"skip", "done"}
  BY Searching DEF PidLocations
<1>2. One(trace[start].event = id) = 1
  BY <1>1 DEF One
<1>3. stats'.complete = Len(out')
  BY OutType DEF CountInv, Emit
<1>4. start <= count /\ UNCHANGED input /\ start' = start + 1 /\ pc' \notin {"skip", "done"}
  BY <1>1 DEF Return
<1>5. QED
  BY <1>1, <1>2, <1>3, <1>4, CountMoves

LEMMA CountInit == Init => CountInv
<1>1. Init => stats = [c \in Counters |-> 0] /\ out = <<>> /\ start = 1 /\ pc \in {"single", "skip"}
      /\ (pc = "single" => IsSingle)
  BY DEF Init, IsSingle
<1>2. Init => Counted(stats) = 0 /\ stats.interrupted = 0 /\ stats.complete = 0
  BY <1>1 DEF Counted, Counters
<1>3. QED
  BY <1>1, <1>2 DEF CountInv

LEMMA CountScan == ASSUME Inv, CountInv, Scan PROVE CountInv'
<1>0. stats \in [Counters -> Nat] /\ count \in Nat /\ start \in 1 .. (count + 1)
  BY FileType DEF Inv, Ft2csvTypeOK
<1>1. CASE SkipRecord
  <2>1. /\ Counted(stats') = Counted(stats) /\ stats'.complete = stats.complete
        /\ stats'.interrupted = stats.interrupted
    BY <1>0, <1>1, AddCounts, ZenonT(60) DEF SkipRecord, Bump, Counters
  <2>2. ~IsSingle /\ pc' = "skip" /\ start' = start + 1 /\ out' = out /\ trace[start].event # id + 1
    BY <1>1 DEF SkipRecord, Inv, SearchInv, search
  <2>3. (\A k \in 1 .. (start - 1) : trace[k].event # id + 1)'
    BY <1>0, <1>1, <2>2, SameInput DEF CountInv, SkipRecord
  <2>4. Counted(stats)' = 0
    BY <1>1, <2>1 DEF CountInv, SkipRecord, Counted
  <2>5. QED
    BY <1>1, <2>1, <2>2, <2>3, <2>4 DEF CountInv, SkipRecord
<1>2. CASE SkipDone
  <2>1. IsFirstEnd(start)
    BY <1>0, <1>2 DEF SkipDone, CountInv, IsFirstEnd
  <2>2. FirstEnd = start
    BY <1>0, <2>1, FirstEndIs
  <2>3. StartsBefore(start) = {} /\ FirstEnd \in 1 .. start
    BY <1>0, <2>2, NoStartsYet
  <2>4. IsFiniteSet(StartsBefore(start)) /\ Cardinality(StartsBefore(start)) = 0
    BY <2>3, FS_EmptySet
  <2>5. AddsUp(0)
    BY <1>2 DEF SkipDone, CountInv, AddsUp
  <2>6. UNCHANGED <<input, start, stats, out>> /\ pc' = "scan"
    BY <1>2 DEF SkipDone
  <2>7. AddsUp(Cardinality(StartsBefore(start)))'
    BY <2>4, <2>5, <2>6, SameInput DEF AddsUp, Counted
  <2>8. FirstEnd' \in 1 .. start' /\ IsFiniteSet(StartsBefore(start))'
    BY <2>3, <2>4, <2>6, SameInput
  <2>9. QED
    BY <2>6, <2>7, <2>8 DEF CountInv
<1>3. CASE ScanOther
  <2>1. /\ ~IsSingle /\ pc \notin {"skip", "done"} /\ start <= count /\ UNCHANGED input
        /\ start' = start + 1 /\ pc' \notin {"skip", "done"} /\ UNCHANGED <<stats, out>>
        /\ trace[start].event # id
    BY <1>3 DEF ScanOther, Inv, SearchInv
  <2>2. Counted(stats') = Counted(stats) + One(trace[start].event = id)
    BY <1>0, <2>1, StatsAre DEF One
  <2>3. QED
    BY <1>0, <2>1, <2>2, CountMoves DEF CountInv
<1>4. CASE ScanAvoided
  <2>1. /\ ~IsSingle /\ pc \notin {"skip", "done"} /\ start <= count /\ UNCHANGED input
        /\ start' = start + 1 /\ pc' \notin {"skip", "done"} /\ UNCHANGED out
        /\ trace[start].event = id
    BY <1>4 DEF ScanAvoided, Inv, SearchInv
  <2>2. /\ Counted(stats') = Counted(stats) + 1 /\ stats'.complete = stats.complete
        /\ stats'.interrupted = stats.interrupted
    BY <1>0, <1>4, AddCounts, ZenonT(60) DEF ScanAvoided, Bump, Counters
  <2>a. stats' \in [Counters -> Nat]
    BY <1>0, <1>4, AddType DEF ScanAvoided, Bump, Counters
  <2>3. Counted(stats') = Counted(stats) + One(trace[start].event = id)
    BY <2>1, <2>2 DEF One
  <2>4. QED
    BY <2>1, <2>2, <2>a, <2>3, CountMoves DEF CountInv
<1>5. CASE ScanStart
  <2>1. /\ pc # "skip" /\ pc' \notin {"skip", "done"} /\ UNCHANGED <<input, start, out, stats>>
    BY <1>5 DEF ScanStart, Matching
  <2>2. QED
    BY <2>1, CountStays DEF Counted
<1>6. CASE ScanDone
  <2>1. /\ pc # "skip" /\ pc' # "skip" /\ UNCHANGED <<input, start, out, stats>> /\ start = count + 1
    BY <1>0, <1>6 DEF ScanDone
  <2>2. QED
    BY <2>1, CountStays DEF Counted
<1>7. QED
  BY <1>1, <1>2, <1>3, <1>4, <1>5, <1>6 DEF Scan

\* An END that is reached: the records passed over count for nothing here.
LEMMA AtEndCounts ==
    ASSUME Inv, NEW f \in {"complete", "incomplete", "non_rt"}, AtEnd(f)
    PROVE  /\ stats' \in [Counters -> Nat] /\ Counted(stats') = Counted(stats) + 1
           /\ stats'.complete = IF f = "complete" THEN stats.complete + 1 ELSE stats.complete
<1> DEFINE a == Add(stats, "interleaved", restarts)
           b == Add(a, "interrupted", One(Candidate.irq_flag))
<1>1. stats \in [Counters -> Nat] /\ restarts \in Nat /\ f \in Counters
  BY DEF Inv, Ft2csvTypeOK, Counters
<1>2. /\ a \in [Counters -> Nat] /\ Counted(a) = Counted(stats) /\ a.complete = stats.complete
  BY <1>1, AddBegun, AddOther DEF Counters
<1> HIDE DEF a
<1>3. /\ b \in [Counters -> Nat] /\ Counted(b) = Counted(a) /\ b.complete = a.complete
  BY <1>2, OneType, AddBegun, AddOther DEF Counters
<1>4. stats' = Add(b, f, 1)
  BY DEF AtEnd, a
<1> HIDE DEF b
<1>5. QED
  BY <1>1, <1>2, <1>3, <1>4, AddBegun, AddOther

LEMMA CountEid == ASSUME Inv, CountInv, Eid PROVE CountInv'
<1>1. pc = "eid"
  BY DEF Eid, EidBreaksOff, EidOtherCpu, EidStart, EidInterleaved, EidInterrupted, EidPassed,
         EidEndInterrupted, EidBackwards, EidNonRT, EidSample, Between, EidEnd, OnCpu
<1>2. stats \in [Counters -> Nat] /\ restarts \in Nat /\ ~by_pid
  BY <1>1, Searching
<1>3. CASE EidBreaksOff \/ EidStart \/ EidInterleaved
  <2>1. stats' = Add(stats, "incomplete", 1) /\ Return /\ UNCHANGED out
    BY <1>3 DEF EidBreaksOff, EidStart, EidInterleaved, Bump
  <2>2. /\ Counted(stats') = Counted(stats) + 1 /\ stats'.complete = stats.complete
        /\ stats' \in [Counters -> Nat]
    BY <1>2, <2>1, AddBegun, AddOther DEF Counters
  <2>3. QED
    BY <1>1, <1>2, <2>1, <2>2, CountReturns
<1>4. CASE EidInterrupted
  <2>1. UNCHANGED stats /\ Return /\ UNCHANGED out /\ ~opts.interrupted
    BY <1>4 DEF EidInterrupted
  <2>2. Counted(stats') = Counted(stats)
    BY <2>1
  <2>3. QED
    BY <1>1, <1>2, <2>1, <2>2, CountReturns
<1>5. CASE EidOtherCpu \/ EidPassed
  <2>1. pc # "skip" /\ pc' = pc /\ UNCHANGED <<input, start, out, stats>>
    BY <1>1, <1>5 DEF EidOtherCpu, EidPassed
  <2>2. Counted(stats') = Counted(stats)
    BY <2>1
  <2>3. QED
    BY <1>1, <2>1, <2>2, CountStays
<1>6. CASE EidEndInterrupted
  <2> DEFINE a == Add(stats, "interleaved", restarts)
  <2>1. /\ a \in [Counters -> Nat] /\ Counted(a) = Counted(stats) /\ a.complete = stats.complete
    BY <1>2, AddBegun, AddOther DEF Counters
  <2>2. stats' = Add(a, "interrupted", 1) /\ Return /\ UNCHANGED out /\ ~opts.interrupted
    BY <1>6 DEF EidEndInterrupted
  <2> HIDE DEF a
  <2>3. /\ stats' \in [Counters -> Nat] /\ Counted(stats') = Counted(stats)
        /\ stats'.complete = stats.complete
    BY <2>1, <2>2, AddBegun, AddOther DEF Counters
  <2>4. QED
    BY <1>1, <1>2, <2>2, <2>3, CountReturns
<1>7. CASE EidBackwards \/ EidNonRT
  <2>1. PICK f \in {"incomplete", "non_rt"} : AtEnd(f)
    BY <1>7 DEF EidBackwards, EidNonRT
  <2>2. Return /\ UNCHANGED out
    BY <1>7 DEF EidBackwards, EidNonRT
  <2>3. /\ stats' \in [Counters -> Nat] /\ Counted(stats') = Counted(stats) + 1
        /\ stats'.complete = stats.complete
    BY <2>1, AtEndCounts
  <2>4. QED
    BY <1>1, <1>2, <2>2, <2>3, CountReturns
<1>8. CASE EidSample
  <2>1. AtEnd("complete") /\ Return
        /\ Emit(pos + 1, Candidate.timestamp - trace[start].timestamp)
    BY <1>8 DEF EidSample
  <2>2. /\ stats' \in [Counters -> Nat] /\ Counted(stats') = Counted(stats) + 1
        /\ stats'.complete = stats.complete + 1
    BY <2>1, AtEndCounts
  <2>3. QED
    BY <1>1, <1>2, <2>1, <2>2, CountEmits
<1>9. QED
  BY <1>3, <1>4, <1>5, <1>6, <1>7, <1>8 DEF Eid

\* An interrupt that ends the search is the only one that a search by task counts
\* without -x.
LEMMA PidCounts ==
    ASSUME Inv, NEW f \in {"complete", "incomplete"}, PidCount(f),
           ~(Disturbed /\ ~opts.interrupted)
    PROVE  /\ stats' \in [Counters -> Nat] /\ Counted(stats') = Counted(stats) + 1
           /\ stats'.complete = IF f = "complete" THEN stats.complete + 1 ELSE stats.complete
           /\ ~opts.interrupted => stats'.interrupted = stats.interrupted
<1> DEFINE a == Add(stats, "interrupted", One(Disturbed))
<1>1. stats \in [Counters -> Nat] /\ f \in Counters /\ stats.interrupted \in Nat
  BY StatsAre DEF Inv, Ft2csvTypeOK, Counters
<1>2. /\ a \in [Counters -> Nat] /\ Counted(a) = Counted(stats) /\ a.complete = stats.complete
      /\ a.interrupted = stats.interrupted + One(Disturbed)
  BY <1>1, OneType, AddBegun, AddOther DEF Counters
<1>3. ~opts.interrupted => a.interrupted = stats.interrupted
  BY <1>1, <1>2 DEF One
<1>4. stats' = Add(a, f, 1)
  BY DEF PidCount
<1> HIDE DEF a
<1>5. /\ stats' \in [Counters -> Nat]
      /\ Counted(stats') = Counted(a) + 1 /\ stats'.interrupted = a.interrupted
      /\ stats'.complete = IF f = "complete" THEN a.complete + 1 ELSE a.complete
  BY <1>1, <1>2, <1>4, AddBegun, AddOther
<1>6. QED
  BY <1>2, <1>3, <1>5

LEMMA CountPid == ASSUME Inv, CountInv, Pid PROVE CountInv'
<1>1. pc \in PidLocations
  BY DEF Pid, PidBreaksOff, PidInterrupted, PidPassed, PidUnexpected, PlainBackwards,
         PlainSample, ExecBackwards, ExecSample, ExecSuspend, SuspendedResume,
         SuspendedSchedStart, PreemptedSchedEnd, Found, Regarded, Looking, PidLocations
<1>2. stats \in [Counters -> Nat] /\ by_pid /\ pc \notin {"skip", "done"}
  BY <1>1, Searching DEF PidLocations
<1>3. CASE PidBreaksOff
  <2>1. stats' = Add(stats, "incomplete", 1) /\ Return /\ UNCHANGED out
    BY <1>3 DEF PidBreaksOff, Bump
  <2>2. /\ Counted(stats') = Counted(stats) + 1 /\ stats'.complete = stats.complete
        /\ stats' \in [Counters -> Nat] /\ stats'.interrupted = stats.interrupted
    BY <1>2, <2>1, AddBegun, AddOther DEF Counters
  <2>3. QED
    BY <1>1, <1>2, <2>1, <2>2, CountReturns
<1>4. CASE PidInterrupted
  <2>1. stats' = Add(stats, "interrupted", 1) /\ Return /\ UNCHANGED out /\ ~opts.interrupted
    BY <1>4 DEF PidInterrupted, Bump
  <2>2. /\ Counted(stats') = Counted(stats) /\ stats'.complete = stats.complete
        /\ stats' \in [Counters -> Nat] /\ stats'.interrupted = stats.interrupted + 1
    BY <1>2, <2>1, AddBegun, AddOther DEF Counters
  <2>3. QED
    BY <1>1, <1>2, <2>1, <2>2, CountReturns
<1>5. CASE PidUnexpected \/ PlainBackwards \/ ExecBackwards
  <2>1. /\ PidCount("incomplete") /\ Return /\ UNCHANGED out
        /\ ~(Disturbed /\ ~opts.interrupted)
    BY <1>5 DEF PidUnexpected, PlainBackwards, ExecBackwards, Found, Regarded
  <2>2. /\ stats' \in [Counters -> Nat] /\ Counted(stats') = Counted(stats) + 1
        /\ stats'.complete = stats.complete
        /\ ~opts.interrupted => stats'.interrupted = stats.interrupted
    BY <2>1, PidCounts
  <2>3. QED
    BY <1>1, <2>1, <2>2, CountReturns
<1>6. CASE PlainSample \/ ExecSample
  <2>1. /\ PidCount("complete") /\ Return /\ ~(Disturbed /\ ~opts.interrupted)
        /\ \E exec_time : Emit(pos + 1, exec_time)
    BY <1>6 DEF PlainSample, ExecSample, Found, Regarded
  <2>2. /\ stats' \in [Counters -> Nat] /\ Counted(stats') = Counted(stats) + 1
        /\ stats'.complete = stats.complete + 1
        /\ ~opts.interrupted => stats'.interrupted = stats.interrupted
    BY <2>1, PidCounts
  <2>3. QED
    BY <1>1, <2>1, <2>2, CountEmits
<1>7. CASE PidPassed \/ ExecSuspend
  <2>1. /\ stats' = Add(stats, "interrupted", One(Disturbed)) /\ UNCHANGED <<input, start, out>>
        /\ pc' \in PidLocations /\ ~(Disturbed /\ ~opts.interrupted)
    BY <1>1, <1>7 DEF PidPassed, ExecSuspend, Proceed, Found, Regarded, PidLocations
  <2>2. /\ Counted(stats') = Counted(stats) /\ stats'.complete = stats.complete
        /\ stats'.interrupted = stats.interrupted + One(Disturbed)
    BY <1>2, <2>1, OneType, AddBegun, AddOther DEF Counters
  <2>3. ~opts.interrupted => stats'.interrupted = stats.interrupted
    BY <1>2, <2>1, <2>2, StatsAre DEF One
  <2>4. QED
    BY <1>2, <2>1, <2>2, <2>3, CountStays DEF PidLocations
<1>8. CASE SuspendedResume \/ SuspendedSchedStart \/ PreemptedSchedEnd
  <2>1. UNCHANGED <<input, start, out, stats>> /\ pc' \in PidLocations
    BY <1>8 DEF SuspendedResume, SuspendedSchedStart, PreemptedSchedEnd, Proceed, PidLocations
  <2>2. Counted(stats') = Counted(stats)
    BY <2>1
  <2>3. QED
    BY <1>2, <2>1, <2>2, CountStays DEF PidLocations
<1>9. QED
  BY <1>3, <1>4, <1>5, <1>6, <1>7, <1>8 DEF Pid

LEMMA CountSingle == ASSUME Inv, CountInv, Single PROVE CountInv'
<1>1. /\ pc = "single" /\ IsSingle /\ pc' # "skip" /\ UNCHANGED input
      /\ stats \in [Counters -> Nat] /\ out \in Seq(Sample)
  BY DEF Single, SingleOther, SingleAvoided, SingleSample, SingleNonRT, SingleDone, Inv,
         SearchInv, Ft2csvTypeOK
<1>2. stats'.complete = Len(out')
  <2>1. CASE SingleSample
    <3>1. stats' = Add(stats, "complete", 1) /\ "complete" \in Counters
          /\ Emit(start, trace[start].timestamp)
      BY <2>1 DEF SingleSample, Bump, Counters
    <3>2. stats'.complete = stats.complete + 1
      BY <1>1, <3>1, AddBegun, AddOther
    <3>3. Len(out') = Len(out) + 1
      BY <1>1, <3>1 DEF Emit
    <3>4. QED
      BY <3>2, <3>3 DEF CountInv
  <2>2. CASE SingleAvoided \/ SingleNonRT
    <3>1. /\ stats' = Add(stats, "avoided", 1) \/ stats' = Add(stats, "non_rt", 1)
          /\ {"avoided", "non_rt"} \subseteq Counters /\ out' = out
      BY <2>2 DEF SingleAvoided, SingleNonRT, Bump, Counters
    <3>2. stats'.complete = stats.complete
      BY <1>1, <3>1, AddBegun, AddOther, SMTT(60)
    <3>3. QED
      BY <3>1, <3>2 DEF CountInv
  <2>3. CASE SingleOther \/ SingleDone
    BY <2>3 DEF SingleOther, SingleDone, CountInv
  <2>4. QED
    BY <2>1, <2>2, <2>3 DEF Single
<1>3. QED
  BY <1>1, <1>2, SameInput DEF CountInv

LEMMA CountStutter == ASSUME Inv, CountInv, UNCHANGED vars PROVE CountInv'
  BY SameInput DEF vars, input, CountInv, AddsUp, Counted, count

(***************************************************************************)
(* The report of ft2csv adds up for every file and every command line:     *)
(* every START after the first END is in one of its counters, or was       *)
(* dropped because of an interrupt.                                        *)
(***************************************************************************)
THEOREM ReportAddsUp == Spec => []Accounted
<1>1. Inv /\ CountInv /\ [Next]_vars => CountInv'
  BY CountScan, CountEid, CountPid, CountSingle, CountStutter DEF Next
<1>2. Spec => []CountInv
  BY CountInit, Invariance, <1>1, PTL DEF Spec
<1>3. ASSUME Inv, CountInv PROVE Accounted
  <2>1. SUFFICES ASSUME pc = "done", ~IsSingle PROVE Accounted
    BY DEF Accounted
  <2>2. start = count + 1 /\ count \in Nat /\ FirstEnd \in Int
    BY <1>3, <2>1, FileType DEF CountInv, Inv
  <2>3. StartsBefore(start) = {i \in FirstEnd .. count : trace[i].event = id}
    BY <2>2 DEF StartsBefore
  <2>4. AddsUp(Cardinality({i \in FirstEnd .. count : trace[i].event = id}))
    BY <1>3, <2>1, <2>3 DEF CountInv
  <2>5. QED
    BY <1>3, <2>4 DEF Accounted, AddsUp, Counted, CountInv
<1>4. QED
  BY Invariance, <1>2, <1>3, PTL
-----------------------------------------------------------------------------
(* Exactly the samples of a file: for every file and every command line    *)
(* but those that measure an event whose END is also a step on the way of  *)
(* a task through its suspension.                                          *)

\* No event has the number 0, which next_pid takes for "no second event"
\* (include/timestamp.h).
NoEventZero ==
    \A job \in Jobs : \A f \in job.traces : \A i \in DOMAIN f : f[i].event # 0

\* A START and its END are none of the records that a search by task follows, but for
\* those that no START follows there.
PairsApart ==
    \A job \in Jobs : \A c \in job.commands :
      /\ c.id + 1 \notin {TS_LOCK_RESUME, TS_SCHED_START}
      /\ c.find_by_pid = "pid" => c.id \notin {TS_SCHED_START, TS_SCHED_END}

InputInv ==
    /\ \A k \in 1 .. count : trace[k].event # 0
    /\ Matching = "exec" => /\ id + 1 \notin {TS_LOCK_RESUME, TS_SCHED_START, TS_SCHED_END}
                            /\ id # TS_SCHED_END

-----------------------------------------------------------------------------
(* What a search may pass over                                             *)

Quiet(k) == opts.interrupted \/ ~trace[k].irq_flag

Executes(i, h) == h = i \/ trace[h].event = TS_LOCK_RESUME

\* A record in which the task does not fall back behind an earlier time.
Steady(i, k) ==
    \A h \in i .. (k - 1) : SameTask(i, h) /\ trace[h].event # TS_SCHED_END
                              => trace[h].timestamp <= trace[k].timestamp

PassedEid(i, k) ==
    SameCpu(i, k) => trace[k].event \notin {id, id + 1} /\ opts.interleaved /\ Quiet(k)

PassedPlain(i, k) ==
    /\ SameTask(i, k) => trace[k].event # id + 1 /\ k - i <= opts.max_interleaved_skipped
    /\ SameCpu(i, k) => Quiet(k)

PassedExec(i, k) ==
    LET h == OwnBefore(i, k)
    IN  /\ SameTask(i, k) =>
             trace[k].event # id + 1 /\ trace[k].event \in Successors(i, h) /\ Steady(i, k)
        /\ Executes(i, h) /\ SameCpu(h, k) => Quiet(k)

\* The record at k ends no search that began at i.
Passed(i, k) ==
    CASE Matching = "eid"   -> PassedEid(i, k)
      [] Matching = "plain" -> PassedPlain(i, k)
      [] Matching = "exec"  -> PassedExec(i, k)

Way(i, p) == \A k \in (i + 1) .. p : Passed(i, k)

LEMMA MatchingIs == Matching \in {"eid", "plain", "exec"}
  BY DEF Matching

\* What is between the two records of a sample is passed over.
LEMMA BetweenPassed ==
    ASSUME NEW i \in Int, NEW j \in Int, IsSample(i, j), NEW k \in (i + 1) .. (j - 1)
    PROVE  Passed(i, k)
<1>1. CASE Matching = "eid"
  <2>1. IsEidSample(i, j)
    BY <1>1 DEF IsSample
  <2>2. PassedEid(i, k)
    BY <2>1 DEF IsEidSample, PassedEid, InBetween, Quiet
  <2>3. QED
    BY <1>1, <2>2 DEF Passed
<1>2. CASE Matching = "plain"
  <2>1. IsPlainSample(i, j)
    BY <1>2 DEF IsSample
  <2>2. PassedPlain(i, k)
    BY <2>1 DEF IsPlainSample, PassedPlain, InBetween, Quiet
  <2>3. QED
    BY <1>2, <2>2 DEF Passed
<1>3. CASE Matching = "exec"
  <2>1. IsExecSample(i, j)
    BY <1>3 DEF IsSample
  <2>2. SameTask(i, k) => Steady(i, k)
    BY <2>1 DEF IsExecSample, InOrder, Steady
  <2>3. k \in (i + 1) .. j /\ k # j
    OBVIOUS
  <2> DEFINE h == OwnBefore(i, k)
  <2>4. /\ SameTask(i, k) => trace[k].event \in Successors(i, h)
        /\ SameTask(i, k) /\ trace[k].event = id + 1 => k = j
        /\ (h = i \/ trace[h].event = TS_LOCK_RESUME) /\ SameCpu(h, k) /\ ~opts.interrupted
             => ~trace[k].irq_flag
    BY <2>1, <2>3 DEF IsExecSample
  <2>5. PassedExec(i, k)
    BY <2>2, <2>3, <2>4 DEF PassedExec, Executes, Quiet
  <2>6. QED
    BY <1>3, <2>5 DEF Passed
<1>4. QED
  BY <1>1, <1>2, <1>3, MatchingIs

\* The END of a sample is not.
LEMMA EndNotPassed ==
    ASSUME NEW i, NEW j, IsSample(i, j)
    PROVE  ~Passed(i, j)
<1>1. trace[j].event = id + 1
  BY DEF IsSample, Ends
<1>2. CASE Matching = "eid"
  <2>1. IsEidSample(i, j)
    BY <1>2 DEF IsSample
  <2>2. ~PassedEid(i, j)
    BY <1>1, <2>1 DEF IsEidSample, PassedEid
  <2>3. QED
    BY <1>2, <2>2 DEF Passed
<1>3. CASE Matching = "plain"
  <2>1. IsPlainSample(i, j)
    BY <1>3 DEF IsSample
  <2>2. ~PassedPlain(i, j)
    BY <1>1, <2>1 DEF IsPlainSample, PassedPlain
  <2>3. QED
    BY <1>3, <2>2 DEF Passed
<1>4. CASE Matching = "exec"
  <2>1. IsExecSample(i, j)
    BY <1>4 DEF IsSample
  <2>2. ~PassedExec(i, j)
    BY <1>1, <2>1 DEF IsExecSample, PassedExec
  <2>3. QED
    BY <1>4, <2>2 DEF Passed
<1>5. QED
  BY <1>2, <1>3, <1>4, MatchingIs

\* A search that breaks off, or meets a record that it may not pass over and that is
\* not the END of a sample, has no sample.
LEMMA NoSample ==
    ASSUME Inv, pc \in {"eid"} \cup PidLocations, Way(start, pos),
           BreaksOff \/ (~Passed(start, pos + 1) /\ ~IsSample(start, pos + 1))
    PROVE  \A j \in 1 .. count : ~IsSample(start, j)
<1> SUFFICES ASSUME NEW j \in 1 .. count, IsSample(start, j)
             PROVE  FALSE
  OBVIOUS
<1>1. start \in 1 .. count /\ pos \in 1 .. count /\ count \in Nat /\ start <= pos
  BY Searching, FileType DEF Inv
<1>2. start < j /\ Unbroken(start, j)
  BY DEF IsSample
<1>3. pos < j
  BY <1>1, <1>2, EndNotPassed DEF Way
<1>4. ~BreaksOff
  BY <1>1, <1>2, <1>3 DEF BreaksOff, Unbroken, Candidate
<1>5. pos + 1 \in (start + 1) .. (j - 1)
  BY <1>1, <1>3, <1>4
<1>6. Passed(start, pos + 1)
  BY <1>1, <1>5, BetweenPassed
<1>7. QED
  BY <1>4, <1>6

\* A search that reaches the END of a sample has no other.
LEMMA OneSample ==
    ASSUME Inv, pc \in {"eid"} \cup PidLocations, Way(start, pos), IsSample(start, pos + 1)
    PROVE  \A j \in 1 .. count : IsSample(start, j) => j = pos + 1
<1> SUFFICES ASSUME NEW j \in 1 .. count, IsSample(start, j), j # pos + 1
             PROVE  FALSE
  OBVIOUS
<1>1. start \in 1 .. count /\ pos \in 1 .. count /\ count \in Nat /\ start <= pos
  BY Searching, FileType DEF Inv
<1>2. start < j
  BY DEF IsSample
<1>3. pos < j
  BY <1>1, <1>2, EndNotPassed DEF Way
<1>5. pos + 1 \in (start + 1) .. (j - 1)
  BY <1>1, <1>3
<1>6. Passed(start, pos + 1)
  BY <1>1, <1>5, BetweenPassed
<1>7. QED
  BY <1>6, EndNotPassed

-----------------------------------------------------------------------------
(***************************************************************************)
(* The samples written are those of the STARTs that have been looked at.   *)
(* A search has passed over what is behind it; one that follows a task     *)
(* stands at the task's last record, and its location says what that was.  *)
(***************************************************************************)
Written(n) == {p \in (FirstEnd .. count) \X (FirstEnd .. count) : p[1] < n /\ IsSample(p[1], p[2])}

WrittenSingly(n) ==
    {<<i, i>> : i \in {k \in 1 .. (n - 1) : /\ trace[k].event = id /\ Wanted(k)
                                            /\ trace[k].task_type = TSK_RT}}

ExecWay ==
    /\ \A g \in (first + 1) .. pos : ~SameTask(start, g)
    /\ pc = "exec" <=> Executes(start, first)
    /\ pc = "suspended" => trace[first].event = TS_LOCK_SUSPEND
    /\ pc = "preempted" => trace[first].event = TS_SCHED_START
    /\ pc = "resuming" => trace[first].event = TS_SCHED_END
    /\ \A h \in start .. pos : SameTask(start, h) /\ trace[h].event # TS_SCHED_END
                                 => trace[h].timestamp <= last_time
    /\ \E h \in start .. pos : /\ SameTask(start, h) /\ trace[h].event # TS_SCHED_END
                               /\ trace[h].timestamp = last_time

WayInv ==
    /\ Wanted(start) /\ Way(start, pos)
    /\ pc = "eid" => Matching = "eid"
    /\ pc = "plain" => Matching = "plain" /\ first = start
    /\ pc \in PidLocations \ {"plain"} => Matching = "exec" /\ ExecWay

SamplesInv ==
    /\ InputInv
    /\ pc = "skip" => out = <<>>
    /\ pc = "done" => start > count
    /\ pc # "skip" => Samples = IF IsSingle THEN WrittenSingly(start) ELSE Written(start)
    /\ pc \in {"eid"} \cup PidLocations => WayInv

LEMMA SameSamples ==
    ASSUME UNCHANGED input
    PROVE  /\ \A n : Written(n)' = Written(n) /\ WrittenSingly(n)' = WrittenSingly(n)
           /\ \A i, k : Passed(i, k)' <=> Passed(i, k)
           /\ Matching' = Matching /\ (InputInv' <=> InputInv)
           /\ \A i, k : /\ SameTask(i, k)' <=> SameTask(i, k)
                        /\ Executes(i, k)' <=> Executes(i, k)
                        /\ Wanted(i)' <=> Wanted(i)
<1>1. /\ trace' = trace /\ opts' = opts /\ id' = id /\ count' = count /\ FirstEnd' = FirstEnd
      /\ Matching' = Matching /\ by_pid' = by_pid
  BY SameInput DEF Matching, input
<1>2. \A i, k : /\ SameTask(i, k)' <=> SameTask(i, k)
                /\ SameCpu(i, k)' <=> SameCpu(i, k)
                /\ Unbroken(i, k)' <=> Unbroken(i, k)
                /\ Executes(i, k)' <=> Executes(i, k)
                /\ Steady(i, k)' <=> Steady(i, k)
                /\ OwnBefore(i, k)' = OwnBefore(i, k)
                /\ InOrder(i, k)' <=> InOrder(i, k)
                /\ Ends(i, k)' <=> Ends(i, k)
                /\ Successors(i, k)' = Successors(i, k)
  BY <1>1 DEF SameTask, SameCpu, Unbroken, Executes, Steady, OwnBefore, InOrder, Ends, Successors
<1>3. \A i : (Quiet(i)' <=> Quiet(i)) /\ (Wanted(i)' <=> Wanted(i))
  BY <1>1 DEF Quiet, Wanted
<1>4. \A i, k : /\ PassedEid(i, k)' <=> PassedEid(i, k)
                /\ PassedPlain(i, k)' <=> PassedPlain(i, k)
                /\ PassedExec(i, k)' <=> PassedExec(i, k)
  BY <1>1, <1>2, <1>3 DEF PassedEid, PassedPlain, PassedExec
<1>5. \A i, k : /\ IsEidSample(i, k)' <=> IsEidSample(i, k)
                /\ IsPlainSample(i, k)' <=> IsPlainSample(i, k)
                /\ IsExecSample(i, k)' <=> IsExecSample(i, k)
  BY <1>1, <1>2, <1>3 DEF IsEidSample, IsPlainSample, IsExecSample, InBetween
<1>6. \A i, k : (Passed(i, k)' <=> Passed(i, k)) /\ (IsSample(i, k)' <=> IsSample(i, k))
  BY <1>1, <1>2, <1>3, <1>4, <1>5, MatchingIs DEF Passed, IsSample
<1>7. \A n : Written(n)' = Written(n) /\ WrittenSingly(n)' = WrittenSingly(n)
  BY <1>1, <1>3, <1>6 DEF Written, WrittenSingly
<1>8. InputInv' <=> InputInv
  BY <1>1 DEF InputInv
<1>9. QED
  BY <1>1, <1>2, <1>3, <1>6, <1>7, <1>8

\* The samples that begin at one more record.
LEMMA OneMoreStart ==
    ASSUME Inv, start \in 1 .. count, FirstEnd \in 1 .. start
    PROVE  Written(start + 1) =
             Written(start) \cup {<<start, j>> : j \in {k \in FirstEnd .. count : IsSample(start, k)}}
<1>1. count \in Nat /\ FirstEnd \in Nat
  BY FileType DEF Inv
<1>2. \A p \in (FirstEnd .. count) \X (FirstEnd .. count) :
        p[1] < start + 1 <=> p[1] < start \/ p[1] = start
  BY <1>1
<1>3. QED
  BY <1>1, <1>2 DEF Written

LEMMA EmitSamples ==
    ASSUME Inv, NEW second, NEW exec_time, Emit(second, exec_time)
    PROVE  Samples' = Samples \cup {<<start, second>>}
<1> DEFINE new == [first |-> start, second |-> second, exec_time |-> exec_time]
<1>1. /\ DOMAIN out = 1 .. Len(out) /\ Len(out) \in Nat
      /\ DOMAIN out' = (DOMAIN out) \cup {Len(out) + 1} /\ out'[Len(out) + 1] = new
      /\ \A n \in DOMAIN out : out'[n] = out[n]
  BY OutType DEF Emit
<1>2. <<new.first, new.second>> = <<start, second>>
  OBVIOUS
<1>3. QED
  BY <1>1, <1>2 DEF Samples

-----------------------------------------------------------------------------
(* The kinds of steps                                                      *)

\* A START is done with, or what is none is passed: it has no sample.
LEMMA SamplesMove ==
    ASSUME Inv, CountInv, SamplesInv, ~IsSingle, pc \notin {"skip", "done"}, start <= count,
           UNCHANGED <<input, out>>, start' = start + 1, pc' = "scan",
           \A j \in 1 .. count : ~IsSample(start, j)
    PROVE  SamplesInv'
<1>1. start \in 1 .. count /\ FirstEnd \in 1 .. start /\ count \in Nat
  BY FileType DEF Inv, CountInv
<1>2. Written(start + 1) = Written(start)
  BY <1>1, OneMoreStart
<1>3. Samples' = Written(start)
  BY DEF SamplesInv, Samples
<1>4. QED
  BY <1>2, <1>3, SameInput, SameSamples DEF SamplesInv, PidLocations

LEMMA SamplesDropped ==
    ASSUME Inv, CountInv, SamplesInv, pc \in {"eid"} \cup PidLocations, Return, UNCHANGED out,
           BreaksOff \/ (~Passed(start, pos + 1) /\ ~IsSample(start, pos + 1))
    PROVE  SamplesInv'
<1>1. /\ pc \notin {"skip", "done"} /\ start \in 1 .. count /\ start <= count /\ ~IsSingle
      /\ count \in Nat
  BY Searching, FileType DEF PidLocations, Inv
<1>2. \A j \in 1 .. count : ~IsSample(start, j)
  BY NoSample DEF SamplesInv, WayInv
<1>3. QED
  BY <1>1, <1>2, SamplesMove DEF Return

LEMMA SamplesEmitted ==
    ASSUME Inv, CountInv, SamplesInv, pc \in {"eid"} \cup PidLocations, Return, ~BreaksOff,
           NEW exec_time, Emit(pos + 1, exec_time), IsSample(start, pos + 1)
    PROVE  SamplesInv'
<1>1. /\ pc \notin {"skip", "done"} /\ start \in 1 .. count /\ ~IsSingle /\ count \in Nat
      /\ FirstEnd \in 1 .. start /\ pos \in Int /\ pos + 1 \in 1 .. count /\ start <= pos
  BY Searching, CandidateType, FileType DEF PidLocations, Inv, CountInv
<1>2. \A j \in 1 .. count : IsSample(start, j) => j = pos + 1
  BY OneSample DEF SamplesInv, WayInv
<1>a. pos + 1 \in FirstEnd .. count /\ FirstEnd .. count \subseteq 1 .. count
  BY <1>1
<1>3. {k \in FirstEnd .. count : IsSample(start, k)} = {pos + 1}
  BY <1>2, <1>a
<1>4. Written(start + 1) = Written(start) \cup {<<start, pos + 1>>}
  BY <1>1, <1>3, OneMoreStart
<1>5. Samples = Written(start)
  BY <1>1 DEF SamplesInv
<1>6. Samples' = Written(start + 1)
  BY <1>4, <1>5, EmitSamples
<1>7. QED
  BY <1>1, <1>6, SameInput, SameSamples DEF SamplesInv, PidLocations, Return

\* A step of a search that goes on.
LEMMA SamplesStay ==
    ASSUME Inv, SamplesInv, UNCHANGED <<input, start, out>>, pc # "skip",
           pc' \in {"eid"} \cup PidLocations, WayInv'
    PROVE  SamplesInv'
<1>1. Samples' = Samples /\ pc' # "skip" /\ pc' # "done"
  BY DEF Samples, PidLocations
<1>2. QED
  BY <1>1, SameInput, SameSamples DEF SamplesInv

-----------------------------------------------------------------------------
(* The steps                                                               *)
LEMMA SamplesInit == ASSUME NoEventZero, PairsApart PROVE Init => SamplesInv
<1> SUFFICES ASSUME Init PROVE SamplesInv
  OBVIOUS
<1>1. PICK job \in Jobs : trace \in job.traces /\ opts \in job.commands
  BY DEF Init
<1>2. /\ id \in Nat /\ trace \in Seq(Record) /\ id = opts.id
      /\ id + 1 \notin {TS_LOCK_RESUME, TS_SCHED_START}
      /\ opts.find_by_pid = "pid" => id \notin {TS_SCHED_START, TS_SCHED_END}
  BY <1>1, Ft2csvAssumption DEF id, CommandLine, PairsApart
<1>3. by_pid => opts.find_by_pid = "pid" \/ id <= PID_RECORDS_RANGE
  BY DEF by_pid
<1>4. InputInv
  <2>1. \A k \in 1 .. count : trace[k].event # 0
    BY <1>1, <1>2 DEF NoEventZero, count
  <2>2. Matching = "exec" => by_pid
    BY DEF Matching
  <2>3. QED
    BY <1>2, <1>3, <2>1, <2>2
       DEF InputInv, TS_SCHED_START, TS_SCHED_END, PID_RECORDS_RANGE
<1>5. /\ out = <<>> /\ start = 1 /\ pc \in {"single", "skip"}
      /\ (pc = "single" => IsSingle)
  BY DEF Init, IsSingle
<1>6. Samples = {} /\ WrittenSingly(1) = {}
  BY <1>5 DEF Samples, WrittenSingly
<1>7. QED
  BY <1>4, <1>5, <1>6 DEF SamplesInv, PidLocations

LEMMA SamplesScan == ASSUME Inv, CountInv, SamplesInv, Scan PROVE SamplesInv'
<1>0. count \in Nat /\ start \in 1 .. (count + 1)
  BY FileType DEF Inv
<1>1. CASE SkipRecord
  <2>1. pc' = "skip" /\ UNCHANGED <<input, out>> /\ out = <<>>
    BY <1>1 DEF SkipRecord, SamplesInv
  <2>2. QED
    BY <2>1, SameSamples DEF SamplesInv, PidLocations
<1>2. CASE SkipDone
  <2>1. pc' = "scan" /\ UNCHANGED <<input, out, start>> /\ out = <<>> /\ ~IsSingle
    BY <1>2 DEF SkipDone, SamplesInv, Inv, SearchInv
  <2>2. IsFirstEnd(start)
    BY <1>0, <1>2 DEF SkipDone, CountInv, IsFirstEnd
  <2>3. FirstEnd = start
    BY <1>0, <2>2, FirstEndIs
  <2>4. Written(start) = {}
    BY <1>0, <2>3 DEF Written
  <2>5. Samples' = {}
    BY <2>1 DEF Samples
  <2>6. QED
    BY <2>1, <2>4, <2>5, SameInput, SameSamples DEF SamplesInv, PidLocations
<1>3. CASE ScanOther
  <2>1. /\ ~IsSingle /\ pc = "scan" /\ start <= count /\ UNCHANGED <<input, out>>
        /\ start' = start + 1 /\ pc' = "scan" /\ trace[start].event # id
    BY <1>3 DEF ScanOther, Inv, SearchInv
  <2>2. \A j \in 1 .. count : ~IsSample(start, j)
    BY <2>1 DEF IsSample, Ends
  <2>3. QED
    BY <2>1, <2>2, SamplesMove
<1>4. CASE ScanAvoided
  <2>1. /\ ~IsSingle /\ pc = "scan" /\ start <= count /\ UNCHANGED <<input, out>>
        /\ start' = start + 1 /\ pc' = "scan" /\ Unwanted(trace[start])
    BY <1>4 DEF ScanAvoided, Inv, SearchInv
  <2>2. \A j \in 1 .. count : ~IsSample(start, j)
    BY <2>1 DEF IsSample, Wanted, Unwanted
  <2>3. QED
    BY <2>1, <2>2, SamplesMove
<1>5. CASE ScanStart
  <2>1. /\ pc = "scan" /\ pc' = Matching /\ UNCHANGED <<input, start, out>>
        /\ first' = start /\ pos' = start /\ last_time' = trace[start].timestamp
        /\ start \in 1 .. count /\ trace[start].event = id /\ ~Unwanted(trace[start])
    BY <1>0, <1>5 DEF ScanStart
  <2>2. trace' = trace /\ opts' = opts /\ Matching' = Matching
    BY <2>1, SameSamples DEF input
  <2>3. Wanted(start)'
    BY <2>1, <2>2 DEF Wanted, Unwanted
  <2>4. Way(start, pos)'
    BY <2>1 DEF Way
  <2>5. SameTask(start, start) /\ Executes(start, start) /\ start .. start = {start}
    BY <2>1 DEF SameTask, Executes
  <2>6. (pc \in PidLocations \ {"plain"} => ExecWay)'
    <3>1. SUFFICES ASSUME Matching = "exec" PROVE ExecWay'
      BY <2>1, MatchingIs DEF PidLocations
    <3>2. trace[start].event # TS_SCHED_END
      BY <2>1, <3>1 DEF SamplesInv, InputInv
    <3>3. trace[start] \in Record /\ trace[start].timestamp \in Nat
      BY <2>1, FileType DEF Inv, Record
    <3>4. \A g \in start .. start : g = start
      OBVIOUS
    <3>a. (start + 1) .. start = {}
      BY <2>1
    <3>5. (pc = "exec" <=> Executes(start, first))' /\ pc' = "exec"
      BY <2>1, <2>2, <2>5, <3>1, SameSamples
    <3>6. (\A g \in (first + 1) .. pos : ~SameTask(start, g))'
      BY <2>1, <3>a
    <3>7. (\A h \in start .. pos : SameTask(start, h) /\ trace[h].event # TS_SCHED_END
                                     => trace[h].timestamp <= last_time)'
      BY <2>1, <2>2, <3>3, <3>4
    <3>8. (\E h \in start .. pos : /\ SameTask(start, h) /\ trace[h].event # TS_SCHED_END
                                   /\ trace[h].timestamp = last_time)'
      BY <2>1, <2>2, <2>5, <3>2, SameSamples
    <3>9. QED
      BY <3>5, <3>6, <3>7, <3>8 DEF ExecWay
  <2>7. WayInv'
    BY <2>1, <2>2, <2>3, <2>4, <2>6, MatchingIs DEF WayInv, PidLocations
  <2>8. QED
    BY <2>1, <2>7, SamplesStay, MatchingIs DEF PidLocations
<1>6. CASE ScanDone
  <2>1. pc # "skip" /\ pc' = "done" /\ UNCHANGED <<input, start, out>> /\ start > count
    BY <1>6 DEF ScanDone
  <2>2. Samples' = Samples
    BY <2>1 DEF Samples
  <2>3. QED
    BY <2>1, <2>2, SameInput, SameSamples DEF SamplesInv, PidLocations
<1>7. QED
  BY <1>1, <1>2, <1>3, <1>4, <1>5, <1>6 DEF Scan

LEMMA SamplesSingle == ASSUME Inv, SamplesInv, Single PROVE SamplesInv'
<1>1. /\ pc = "single" /\ IsSingle /\ UNCHANGED input /\ pc' \in {"single", "done"}
      /\ count \in Nat /\ start \in 1 .. (count + 1)
  BY FileType DEF Single, SingleOther, SingleAvoided, SingleSample, SingleNonRT, SingleDone, Inv,
         SearchInv
<1>2. Samples = WrittenSingly(start)
  BY <1>1 DEF SamplesInv
<1> DEFINE ends == /\ trace[start].event = id /\ Wanted(start)
                   /\ trace[start].task_type = TSK_RT
<1>3. WrittenSingly(start + 1) =
        WrittenSingly(start) \cup (IF ends THEN {<<start, start>>} ELSE {})
  <2>1. 1 .. ((start + 1) - 1) = (1 .. (start - 1)) \cup {start}
    BY <1>1
  <2>2. QED
    BY <2>1 DEF WrittenSingly
<1>4. CASE SingleOther \/ SingleAvoided \/ SingleNonRT
  <2>1. ~ends /\ start' = start + 1 /\ pc' = pc /\ out' = out
    BY <1>4 DEF SingleOther, SingleAvoided, SingleNonRT, Wanted, Unwanted
  <2>2. Samples' = WrittenSingly(start')
    BY <1>2, <1>3, <2>1 DEF Samples
  <2>3. QED
    BY <1>1, <2>1, <2>2, SameInput, SameSamples DEF SamplesInv, PidLocations
<1>5. CASE SingleSample
  <2>1. ends /\ start' = start + 1 /\ pc' = pc /\ Emit(start, trace[start].timestamp)
    BY <1>5 DEF SingleSample, Wanted, Unwanted
  <2>2. Samples' = WrittenSingly(start')
    BY <1>2, <1>3, <2>1, EmitSamples
  <2>3. QED
    BY <1>1, <2>1, <2>2, SameInput, SameSamples DEF SamplesInv, PidLocations
<1>6. CASE SingleDone
  <2>1. start > count /\ pc' = "done" /\ UNCHANGED <<start, out>>
    BY <1>6 DEF SingleDone
  <2>2. Samples' = WrittenSingly(start')
    BY <1>2, <2>1 DEF Samples
  <2>3. QED
    BY <1>1, <2>1, <2>2, SameInput, SameSamples DEF SamplesInv, PidLocations
<1>7. QED
  BY <1>4, <1>5, <1>6 DEF Single

LEMMA SamplesStutter == ASSUME Inv, SamplesInv, UNCHANGED vars PROVE SamplesInv'
<1>1. /\ UNCHANGED <<input, pc, start, first, pos, last_time, out>>
  BY DEF vars, search
<1>2. Samples' = Samples /\ trace' = trace /\ count' = count
  BY <1>1, SameInput DEF Samples
<1>3. WayInv => WayInv'
  BY <1>1, <1>2, SameSamples DEF WayInv, Way, ExecWay
<1>4. QED
  BY <1>1, <1>2, <1>3, SameInput, SameSamples DEF SamplesInv

\* One more record is passed over.
LEMMA WayGoesOn ==
    ASSUME Inv, pos \in Int, start \in Int, Way(start, pos), Passed(start, pos + 1),
           UNCHANGED <<input, start>>, pos' = pos + 1
    PROVE  Way(start, pos)'
<1>1. \A k \in (start + 1) .. (pos + 1) : Passed(start, k)
  BY DEF Way
<1>2. QED
  BY <1>1, SameSamples DEF Way

LEMMA SamplesEid == ASSUME Inv, CountInv, SamplesInv, Eid PROVE SamplesInv'
<1>1. pc = "eid"
  BY DEF Eid, EidBreaksOff, EidOtherCpu, EidStart, EidInterleaved, EidInterrupted, EidPassed,
         EidEndInterrupted, EidBackwards, EidNonRT, EidSample, Between, EidEnd, OnCpu
<1>2. /\ start \in 1 .. count /\ pos \in 1 .. count /\ start <= pos /\ count \in Nat
      /\ trace[start].event = id /\ trace[start].timestamp \in Nat /\ Unbroken(start, pos)
  BY <1>1, Searching, FileType DEF Inv
<1>3. WayInv /\ Matching = "eid" /\ Way(start, pos) /\ Wanted(start)
  BY <1>1 DEF SamplesInv, WayInv
<1>4. CASE EidBreaksOff
  BY <1>1, <1>4, SamplesDropped DEF EidBreaksOff
<1> DEFINE k == pos + 1
<1>5. ASSUME ~BreaksOff
      PROVE  /\ k \in 1 .. count /\ Candidate = trace[k] /\ Candidate.timestamp \in Nat
             /\ start < k /\ Unbroken(start, k)
             /\ Candidate.cpu = trace[start].cpu <=> SameCpu(start, k)
             /\ Passed(start, k) <=> PassedEid(start, k)
             /\ IsSample(start, k) => IsEidSample(start, k) /\ trace[k].event = id + 1
             /\ IsEidSample(start, k) /\ trace[k].event = id + 1 => IsSample(start, k)
  <2>1. k \in 1 .. count /\ Candidate = trace[k] /\ Candidate.timestamp \in Nat /\ start < k
    BY <1>2, <1>5, CandidateType DEF Inv
  <2>2. Unbroken(start, k)
    BY <1>2, <1>5, UnbrokenStep DEF Inv
  <2>3. Passed(start, k) <=> PassedEid(start, k)
    BY <1>3 DEF Passed
  <2>4. IsSample(start, k) <=> IsEidSample(start, k) /\ trace[k].event = id + 1
    BY <1>2, <1>3, <2>1, <2>2 DEF IsSample, Ends
  <2>5. QED
    BY <2>1, <2>2, <2>3, <2>4 DEF SameCpu
<1> HIDE DEF k
<1>6. CASE EidStart \/ EidInterleaved \/ EidInterrupted
  <2>1. ~BreaksOff /\ Candidate.cpu = trace[start].cpu /\ Return /\ UNCHANGED out
        /\ Candidate.event # id + 1
    BY <1>2, <1>6, FileType DEF EidStart, EidInterleaved, EidInterrupted, Between, OnCpu, Inv
  <2>2. Candidate.event = id \/ ~opts.interleaved \/ (Candidate.irq_flag /\ ~opts.interrupted)
    BY <1>6 DEF EidStart, EidInterleaved, EidInterrupted
  <2>3. ~Passed(start, k) /\ ~IsSample(start, k)
    BY <1>5, <2>1, <2>2 DEF PassedEid, Quiet
  <2>4. QED
    BY <1>1, <2>1, <2>3, SamplesDropped DEF k
<1>7. CASE EidEndInterrupted \/ EidBackwards \/ EidNonRT
  <2>1. ~BreaksOff /\ Candidate.cpu = trace[start].cpu /\ Return /\ UNCHANGED out
        /\ Candidate.event = id + 1
    BY <1>7 DEF EidEndInterrupted, EidBackwards, EidNonRT, EidEnd, OnCpu, IsEnd
  <2>2. ~Passed(start, k)
    BY <1>5, <2>1 DEF PassedEid
  <2>3. ~IsEidSample(start, k)
    <3>1. CASE EidEndInterrupted
      <4>1. k \in (start + 1) .. k /\ SameCpu(start, k) /\ ~Quiet(k)
        BY <1>2, <1>5, <2>1, <3>1 DEF EidEndInterrupted, Quiet
      <4>2. QED
        BY <4>1 DEF IsEidSample, Quiet
    <3>2. CASE EidBackwards
      <4>1. ~(trace[start].timestamp < trace[k].timestamp)
        BY <1>2, <1>5, <2>1, <3>2 DEF EidBackwards, Elapses
      <4>2. QED
        BY <4>1 DEF IsEidSample
    <3>3. CASE EidNonRT
      BY <1>5, <2>1, <3>3 DEF EidNonRT, NotOfRT, IsEidSample
    <3>4. QED
      BY <1>7, <3>1, <3>2, <3>3
  <2>4. QED
    BY <1>1, <1>5, <2>1, <2>2, <2>3, SamplesDropped DEF k
<1>8. CASE EidOtherCpu \/ EidPassed
  <2>1. ~BreaksOff /\ pos' = k /\ UNCHANGED <<input, start, out, pc>>
    BY <1>8 DEF EidOtherCpu, EidPassed, Between, OnCpu, k
  <2>2. Passed(start, k)
    BY <1>5, <1>8, <2>1 DEF EidOtherCpu, EidPassed, Between, OnCpu, PassedEid, Quiet
  <2>3. Way(start, pos)'
    BY <1>2, <1>3, <2>1, <2>2, WayGoesOn DEF k
  <2>4. WayInv'
    BY <1>1, <1>3, <2>1, <2>3, SameSamples DEF WayInv, PidLocations
  <2>5. QED
    BY <1>1, <2>1, <2>4, SamplesStay
<1>9. CASE EidSample
  <2>1. /\ ~BreaksOff /\ Candidate.cpu = trace[start].cpu /\ Return
        /\ Candidate.event = id + 1 /\ Elapses /\ ~NotOfRT
        /\ Emit(k, Candidate.timestamp - trace[start].timestamp)
        /\ ~(Candidate.irq_flag /\ ~opts.interrupted)
    BY <1>9 DEF EidSample, EidEnd, OnCpu, IsEnd, k
  <2>2. \A m \in (start + 1) .. k : m = k \/ m \in (start + 1) .. pos
    BY <1>2 DEF k
  <2>3. \A m \in (start + 1) .. pos : PassedEid(start, m)
    BY <1>3 DEF Way, Passed
  <2>4. Quiet(k)
    BY <1>5, <2>1 DEF Quiet
  <2>5. opts.interrupted \/ \A m \in (start + 1) .. k : SameCpu(start, m) => ~trace[m].irq_flag
    BY <2>2, <2>3, <2>4 DEF Quiet, PassedEid
  <2>6. InBetween(start, k) = (start + 1) .. pos
    BY <1>2 DEF InBetween, k
  <2>7. SameCpu(start, k) /\ trace[start].timestamp < trace[k].timestamp
    BY <1>2, <1>5, <2>1 DEF Elapses
  <2>8. opts.best_effort \/ TSK_RT \in {trace[start].task_type, trace[k].task_type}
    BY <1>5, <2>1 DEF NotOfRT
  <2>9. IsEidSample(start, k)
    BY <2>3, <2>5, <2>6, <2>7, <2>8 DEF IsEidSample, PassedEid
  <2>10. QED
    BY <1>1, <1>5, <2>1, <2>9, SamplesEmitted DEF k
<1>10. QED
  BY <1>4, <1>6, <1>7, <1>8, <1>9 DEF Eid

-----------------------------------------------------------------------------
(* A search by task                                                        *)

LEMMA SamplesPlain ==
    ASSUME Inv, CountInv, SamplesInv, Pid, pc = "plain" PROVE SamplesInv'
<1>1. pc \in PidLocations
  BY DEF PidLocations
<1>2. /\ start \in 1 .. count /\ pos \in 1 .. count /\ start <= pos /\ count \in Nat
      /\ trace[start].event = id /\ trace[start].timestamp \in Nat /\ Unbroken(start, pos)
      /\ id \in Nat /\ opts.max_interleaved_skipped \in Nat
  BY <1>1, Searching, FileType DEF Inv
<1>3. /\ WayInv /\ Matching = "plain" /\ Way(start, pos) /\ Wanted(start) /\ first = start
      /\ InputInv
  BY <1>1 DEF SamplesInv, WayInv
<1>4. CASE PidBreaksOff
  BY <1>1, <1>4, SamplesDropped DEF PidBreaksOff
<1> DEFINE k == pos + 1
<1>5. ASSUME ~BreaksOff
      PROVE  /\ k \in 1 .. count /\ Candidate = trace[k] /\ Candidate.timestamp \in Nat
             /\ start < k /\ Unbroken(start, k)
             /\ (OfTask <=> SameTask(start, k))
             /\ (Candidate.event \in Sought <=> trace[k].event = id + 1)
             /\ (Tolerated <=> k - start <= opts.max_interleaved_skipped)
             /\ Disturbed /\ ~opts.interrupted <=> SameCpu(start, k) /\ ~Quiet(k)
             /\ Passed(start, k) <=> PassedPlain(start, k)
             /\ IsSample(start, k) => IsPlainSample(start, k) /\ trace[k].event = id + 1
             /\ IsPlainSample(start, k) /\ trace[k].event = id + 1 => IsSample(start, k)
  <2>1. k \in 1 .. count /\ Candidate = trace[k] /\ Candidate.timestamp \in Nat /\ start < k
    BY <1>2, <1>5, CandidateType DEF Inv
  <2>2. Unbroken(start, k)
    BY <1>2, <1>5, UnbrokenStep DEF Inv
  <2>3. Passed(start, k) <=> PassedPlain(start, k)
    BY <1>3 DEF Passed
  <2>4. IsSample(start, k) <=> IsPlainSample(start, k) /\ trace[k].event = id + 1
    BY <1>2, <1>3, <2>1, <2>2 DEF IsSample, Ends
  <2>5. (OfTask <=> SameTask(start, k)) /\ Candidate.event # 0
    BY <1>3, <2>1 DEF OfTask, SameTask, InputInv
  <2>a. Candidate.event \in Sought <=> trace[k].event = id + 1
    BY <2>1, <2>5 DEF Sought
  <2>b. Tolerated <=> k - start <= opts.max_interleaved_skipped
    BY <1>2, <1>3 DEF Tolerated, k
  <2>6. Disturbed /\ ~opts.interrupted <=> SameCpu(start, k) /\ ~Quiet(k)
    BY <1>3, <2>1 DEF Disturbed, interrupts_significant, Quiet, SameCpu
  <2>7. QED
    BY <2>1, <2>2, <2>3, <2>4, <2>5, <2>a, <2>b, <2>6
<1> HIDE DEF k
<1>6. CASE PidInterrupted
  <2>1. ~BreaksOff /\ Return /\ UNCHANGED out /\ SameCpu(start, k) /\ ~Quiet(k)
    BY <1>5, <1>6 DEF PidInterrupted, Looking
  <2>2. k \in (start + 1) .. k
    BY <1>2, <1>5, <2>1
  <2>3. ~PassedPlain(start, k) /\ ~IsPlainSample(start, k)
    BY <2>1, <2>2 DEF PassedPlain, IsPlainSample, Quiet
  <2>4. QED
    BY <1>1, <1>5, <2>1, <2>3, SamplesDropped DEF k
<1>7. CASE PidUnexpected
  <2>1. /\ ~BreaksOff /\ Return /\ UNCHANGED out /\ SameTask(start, k)
        /\ trace[k].event # id + 1 /\ ~(k - start <= opts.max_interleaved_skipped)
    BY <1>5, <1>7 DEF PidUnexpected, Regarded, Looking
  <2>2. ~PassedPlain(start, k) /\ ~IsSample(start, k)
    BY <1>5, <2>1 DEF PassedPlain
  <2>3. QED
    BY <1>1, <1>5, <2>1, <2>2, SamplesDropped DEF k
<1>8. CASE PlainBackwards
  <2>1. /\ ~BreaksOff /\ Return /\ UNCHANGED out /\ SameTask(start, k)
        /\ trace[k].event = id + 1 /\ ~(trace[start].timestamp < trace[k].timestamp)
    <3>1. ~BreaksOff /\ OfTask /\ Candidate.event \in Sought /\ ~Elapses
      BY <1>8 DEF PlainBackwards, Found, Regarded, Looking
    <3>2. QED
      BY <1>2, <1>5, <1>8, <3>1 DEF PlainBackwards, Elapses
  <2>2. ~PassedPlain(start, k) /\ ~IsPlainSample(start, k)
    BY <2>1 DEF PassedPlain, IsPlainSample
  <2>3. QED
    BY <1>1, <1>5, <2>1, <2>2, SamplesDropped DEF k
<1>9. CASE PidPassed
  <2>1. /\ ~BreaksOff /\ pos' = k /\ UNCHANGED <<input, start, first, out, pc>>
        /\ SameTask(start, k) => /\ trace[k].event # id + 1
                                 /\ k - start <= opts.max_interleaved_skipped
        /\ SameCpu(start, k) => Quiet(k)
    BY <1>5, <1>9 DEF PidPassed, Regarded, Looking, k
  <2>2. Passed(start, k)
    BY <1>5, <2>1 DEF PassedPlain
  <2>3. Way(start, pos)'
    BY <1>2, <1>3, <2>1, <2>2, WayGoesOn DEF k
  <2>4. WayInv'
    BY <1>3, <2>1, <2>3, SameSamples DEF WayInv, PidLocations
  <2>5. QED
    BY <1>1, <2>1, <2>4, SamplesStay
<1>10. CASE PlainSample
  <2>1. /\ ~BreaksOff /\ Return /\ SameTask(start, k)
        /\ trace[k].event = id + 1 /\ trace[start].timestamp < trace[k].timestamp
        /\ SameCpu(start, k) => Quiet(k)
    <3>1. /\ ~BreaksOff /\ OfTask /\ Candidate.event \in Sought /\ Elapses
          /\ ~(Disturbed /\ ~opts.interrupted)
      BY <1>10 DEF PlainSample, Found, Regarded, Looking
    <3>2. QED
      BY <1>2, <1>5, <1>10, <3>1 DEF PlainSample, Elapses
  <2>2. Emit(k, Candidate.timestamp - trace[start].timestamp)
    BY <1>10 DEF PlainSample, k
  <2>3. \A m \in (start + 1) .. k : m = k \/ m \in (start + 1) .. pos
    BY <1>2 DEF k
  <2>4. \A m \in (start + 1) .. pos : PassedPlain(start, m)
    BY <1>3 DEF Way, Passed
  <2>5. opts.interrupted \/ \A m \in (start + 1) .. k : SameCpu(start, m) => ~trace[m].irq_flag
    BY <2>1, <2>3, <2>4 DEF Quiet, PassedPlain
  <2>6. InBetween(start, k) = (start + 1) .. pos
    BY <1>2 DEF InBetween, k
  <2>7. IsPlainSample(start, k)
    BY <2>1, <2>4, <2>5, <2>6 DEF IsPlainSample, PassedPlain
  <2>8. QED
    BY <1>1, <1>5, <2>1, <2>2, <2>7, SamplesEmitted DEF k
<1>11. QED
  BY <1>4, <1>6, <1>7, <1>8, <1>9, <1>10 DEF Pid, ExecBackwards, ExecSample, ExecSuspend,
     SuspendedResume, SuspendedSchedStart, PreemptedSchedEnd

(***************************************************************************)
(* Where a search follows a task: its last record is first, the record     *)
(* looked for comes next on the way of the task, and a record is late      *)
(* enough if it is not earlier than last_time.                             *)
(***************************************************************************)
Following == pc \in PidLocations \ {"plain"}

LEMMA ExecLast ==
    ASSUME Inv, SamplesInv, Following
    PROVE  OwnBefore(start, pos + 1) = first
<1>1. /\ start \in 1 .. count /\ first \in 1 .. count /\ pos \in 1 .. count /\ count \in Nat
      /\ start <= first /\ first <= pos /\ SameTask(start, first)
  BY Searching, FileType DEF Following, Inv, PidLocations
<1>2. \A g \in (first + 1) .. pos : ~SameTask(start, g)
  BY DEF Following, SamplesInv, WayInv, ExecWay
<1>3. first \in start .. ((pos + 1) - 1) /\ (pos + 1) - 1 = pos
  BY <1>1
<1>4. \A h \in start .. pos :
        SameTask(start, h) /\ (\A g \in (h + 1) .. pos : ~SameTask(start, g)) => h = first
  BY <1>1, <1>2
<1>5. QED
  BY <1>1, <1>2, <1>3, <1>4 DEF OwnBefore

LEMMA ExecSought ==
    ASSUME SamplesInv, Following, NEW e \in Nat, e # 0
    PROVE  e \in Sought <=> e \in Successors(start, first)
<1>1. ExecWay
  BY DEF Following, SamplesInv, WayInv
<1>2. CASE pc = "exec"
  BY <1>1, <1>2 DEF ExecWay, Executes, Successors, Sought
<1>3. CASE pc = "suspended"
  <2>1. trace[first].event = TS_LOCK_SUSPEND /\ first # start
    BY <1>1, <1>3 DEF ExecWay, Executes
  <2>2. Successors(start, first) = {TS_LOCK_RESUME, TS_SCHED_START}
    BY <2>1 DEF Successors, TS_LOCK_SUSPEND, TS_LOCK_RESUME, TS_SCHED_START, TS_SCHED_END
  <2>3. QED
    BY <1>3, <2>2 DEF Sought
<1>4. CASE pc = "preempted"
  <2>1. trace[first].event = TS_SCHED_START /\ first # start
    BY <1>1, <1>4 DEF ExecWay, Executes
  <2>2. Successors(start, first) = {TS_SCHED_END}
    BY <2>1 DEF Successors, TS_LOCK_SUSPEND, TS_LOCK_RESUME, TS_SCHED_START, TS_SCHED_END
  <2>3. QED
    BY <1>4, <2>2 DEF Sought
<1>5. CASE pc = "resuming"
  <2>1. trace[first].event = TS_SCHED_END /\ first # start
    BY <1>1, <1>5 DEF ExecWay, Executes
  <2>2. Successors(start, first) = {TS_LOCK_RESUME}
    BY <2>1 DEF Successors, TS_LOCK_SUSPEND, TS_LOCK_RESUME, TS_SCHED_START, TS_SCHED_END
  <2>3. QED
    BY <1>5, <2>2 DEF Sought
<1>6. QED
  BY <1>2, <1>3, <1>4, <1>5 DEF Following, PidLocations

LEMMA ExecSteady ==
    ASSUME Inv, SamplesInv, Following, NEW k \in 1 .. count, k = pos + 1
    PROVE  Steady(start, k) <=> last_time <= trace[k].timestamp
<1>1. /\ start \in 1 .. count /\ pos \in 1 .. count /\ count \in Nat /\ last_time \in Nat
      /\ trace \in [1 .. count -> Record]
  BY Searching, FileType DEF Following, Inv, PidLocations
<1>2. \A h \in 1 .. count : trace[h].timestamp \in Nat
  BY <1>1 DEF Record
<1>3. k - 1 = pos
  BY <1>1
<1>4. ExecWay
  BY DEF Following, SamplesInv, WayInv
<1>5. start .. pos \subseteq 1 .. count
  BY <1>1
<1>6. ASSUME last_time <= trace[k].timestamp, NEW h \in start .. pos,
             SameTask(start, h), trace[h].event # TS_SCHED_END
      PROVE  trace[h].timestamp <= trace[k].timestamp
  <2>1. trace[h].timestamp <= last_time
    BY <1>4, <1>6 DEF ExecWay
  <2>2. trace[h].timestamp \in Nat /\ trace[k].timestamp \in Nat
    BY <1>2, <1>5
  <2>3. QED
    BY <1>1, <1>6, <2>1, <2>2
<1>7. ASSUME Steady(start, k)
      PROVE  last_time <= trace[k].timestamp
  <2>1. PICK h \in start .. pos : /\ SameTask(start, h) /\ trace[h].event # TS_SCHED_END
                                  /\ trace[h].timestamp = last_time
    BY <1>4 DEF ExecWay
  <2>2. QED
    BY <1>3, <1>7, <2>1 DEF Steady
<1>8. QED
  BY <1>3, <1>6, <1>7 DEF Steady

\* What the record looked at must be like to be passed over, and to end a sample.
LEMMA ExecRecord ==
    ASSUME Inv, SamplesInv, Following, ~BreaksOff, NEW k, k = pos + 1
    PROVE  /\ k \in 1 .. count /\ Candidate = trace[k] /\ start < k /\ start \in 1 .. count
           /\ Candidate.timestamp \in Nat /\ last_time \in Nat
           /\ (OfTask <=> SameTask(start, k))
           /\ (Disturbed /\ ~opts.interrupted <=>
                 Executes(start, first) /\ SameCpu(first, k) /\ ~Quiet(k))
           /\ (Passed(start, k) <=>
                 /\ OfTask => /\ Candidate.event # id + 1 /\ Candidate.event \in Sought
                              /\ ~Backwards
                 /\ ~(Disturbed /\ ~opts.interrupted))
           /\ (IsSample(start, k) <=>
                 /\ OfTask /\ Candidate.event = id + 1 /\ Candidate.event \in Sought
                 /\ ~Backwards /\ ~(Disturbed /\ ~opts.interrupted))
<1>1. /\ start \in 1 .. count /\ first \in 1 .. count /\ pos \in 1 .. count /\ count \in Nat
      /\ start <= pos /\ last_time \in Nat /\ id \in Nat /\ SameTask(start, first)
      /\ trace[start].event = id /\ Unbroken(start, pos)
  BY Searching, FileType DEF Following, Inv, PidLocations
<1>2. k \in 1 .. count /\ Candidate = trace[k] /\ Candidate.timestamp \in Nat /\ start < k
  BY <1>1, CandidateType DEF Inv
<1>3. /\ Matching = "exec" /\ ExecWay /\ InputInv /\ Way(start, pos) /\ Wanted(start)
  BY DEF Following, SamplesInv, WayInv
<1>4. OfTask <=> SameTask(start, k)
  BY <1>1, <1>2 DEF OfTask, SameTask
<1>5. Disturbed /\ ~opts.interrupted <=> Executes(start, first) /\ SameCpu(first, k) /\ ~Quiet(k)
  BY <1>2, <1>3 DEF Disturbed, interrupts_significant, Following, ExecWay, SameCpu, Quiet
<1>6. Candidate.event \in Sought <=> trace[k].event \in Successors(start, first)
  <2>1. trace[k].event \in Nat /\ trace[k].event # 0
    BY <1>2, <1>3, FileType DEF Inv, Record, InputInv
  <2>2. QED
    BY <1>2, <2>1, ExecSought
<1>7. Steady(start, k) <=> ~Backwards
  BY <1>1, <1>2, ExecSteady DEF Backwards
<1>8. OwnBefore(start, k) = first
  BY ExecLast
<1>9. PassedExec(start, k) <=>
        /\ OfTask => /\ Candidate.event # id + 1 /\ Candidate.event \in Sought /\ ~Backwards
        /\ ~(Disturbed /\ ~opts.interrupted)
  BY <1>2, <1>4, <1>5, <1>6, <1>7, <1>8 DEF PassedExec
<1>10. Passed(start, k) <=> PassedExec(start, k)
  BY <1>3 DEF Passed
<1>11. IsSample(start, k) <=> IsExecSample(start, k) /\ Candidate.event = id + 1
  <2>1. Unbroken(start, k)
    BY <1>1, UnbrokenStep DEF Inv
  <2>2. QED
    BY <1>1, <1>2, <1>3, <2>1 DEF IsSample, Ends
<1>12. ASSUME IsExecSample(start, k), Candidate.event = id + 1
       PROVE  /\ OfTask /\ Candidate.event \in Sought /\ ~Backwards
              /\ ~(Disturbed /\ ~opts.interrupted)
  <2>1. k \in (start + 1) .. k
    BY <1>1, <1>2
  <2>2. SameTask(start, k) /\ Steady(start, k)
    BY <1>12, <2>1 DEF IsExecSample, InOrder, Steady
  <2>3. /\ trace[k].event \in Successors(start, first)
        /\ Executes(start, first) /\ SameCpu(first, k) => Quiet(k)
    BY <1>8, <1>12, <2>1, <2>2 DEF IsExecSample, Executes, Quiet
  <2>4. QED
    BY <1>4, <1>5, <1>6, <1>7, <2>2, <2>3
<1>13. ASSUME OfTask, Candidate.event = id + 1, Candidate.event \in Sought, ~Backwards,
              ~(Disturbed /\ ~opts.interrupted)
       PROVE  IsExecSample(start, k)
  <2>1. \A m \in (start + 1) .. k : m = k \/ m \in (start + 1) .. pos
    BY <1>1
  <2>2. \A m \in (start + 1) .. pos : PassedExec(start, m)
    BY <1>3 DEF Way, Passed
  <2>3. InOrder(start, k)
    <3>1. \A m \in (start + 1) .. k : SameTask(start, m) => Steady(start, m)
      BY <1>7, <1>13, <2>1, <2>2 DEF PassedExec
    <3>2. QED
      BY <3>1 DEF InOrder, Steady
  <2>4. ASSUME NEW m \in (start + 1) .. k
        PROVE  LET h        == OwnBefore(start, m)
                   executes == h = start \/ trace[h].event = TS_LOCK_RESUME
               IN  /\ SameTask(start, m) => trace[m].event \in Successors(start, h)
                   /\ SameTask(start, m) /\ trace[m].event = id + 1 => m = k
                   /\ executes /\ SameCpu(h, m) /\ ~opts.interrupted => ~trace[m].irq_flag
    <3>1. CASE m = k
      BY <1>5, <1>6, <1>8, <1>13, <3>1 DEF Executes, Quiet
    <3>2. CASE m # k
      BY <2>1, <2>2, <3>2 DEF PassedExec, Executes, Quiet
    <3>3. QED
      BY <3>1, <3>2
  <2>5. QED
    BY <1>4, <1>13, <2>3, <2>4 DEF IsExecSample
<1>14. QED
  BY <1>1, <1>2, <1>4, <1>5, <1>9, <1>10, <1>11, <1>12, <1>13

\* The search goes on from a record of the task.
LEMMA ExecProceeds ==
    ASSUME Inv, SamplesInv, Following, ~BreaksOff, OfTask, Passed(start, pos + 1), ~Backwards,
           NEW to, Proceed(to),
           \/ to = "suspended" /\ Candidate.event = TS_LOCK_SUSPEND
           \/ to = "preempted" /\ Candidate.event = TS_SCHED_START
           \/ to = "resuming" /\ Candidate.event = TS_SCHED_END
           \/ to = "exec" /\ Candidate.event = TS_LOCK_RESUME,
           last_time' = IF to = "resuming" THEN last_time ELSE Candidate.timestamp
    PROVE  SamplesInv'
<1> DEFINE k == pos + 1
<1>1. /\ start \in 1 .. count /\ pos \in 1 .. count /\ count \in Nat /\ start <= pos
      /\ trace \in [1 .. count -> Record]
  BY Searching, FileType DEF Following, Inv, PidLocations
<1>2. /\ k \in 1 .. count /\ Candidate = trace[k] /\ start < k /\ SameTask(start, k)
      /\ Candidate.timestamp \in Nat /\ last_time \in Nat
  BY ExecRecord
<1>3. /\ Matching = "exec" /\ ExecWay /\ Way(start, pos) /\ Wanted(start)
  BY DEF Following, SamplesInv, WayInv
<1>4. /\ pc' = to /\ first' = k /\ pos' = k /\ UNCHANGED <<input, start, out>> /\ trace' = trace
      /\ to \in PidLocations \ {"plain"}
  BY DEF Proceed, input, PidLocations
<1>5. Way(start, pos)'
  BY <1>1, <1>3, <1>4, WayGoesOn
<1>6. last_time <= last_time' /\ last_time' <= trace[k].timestamp /\ last_time' \in Nat
  BY <1>2 DEF Backwards
<1>7. ExecWay'
  <2>1. (pc = "exec" <=> Executes(start, first))'
    BY <1>1, <1>2, <1>4, SameSamples
       DEF Executes, TS_LOCK_RESUME, TS_LOCK_SUSPEND, TS_SCHED_START, TS_SCHED_END
  <2>2. (k + 1) .. k = {}
    BY <1>2
  <2>3. (\A g \in (first + 1) .. pos : ~SameTask(start, g))'
    BY <1>4, <2>2
  <2>4. (\A h \in start .. pos : SameTask(start, h) /\ trace[h].event # TS_SCHED_END
                                   => trace[h].timestamp <= last_time)'
    <3> SUFFICES ASSUME NEW h \in start .. k, SameTask(start, h), trace[h].event # TS_SCHED_END
                 PROVE  trace[h].timestamp <= last_time'
      BY <1>4, SameSamples
    <3>1. CASE h = k
      BY <1>2, <3>1
    <3>2. CASE h # k
      <4>1. h \in start .. pos /\ h \in 1 .. count
        BY <1>1, <3>2
      <4>2. trace[h].timestamp <= last_time
        BY <1>3, <4>1 DEF ExecWay
      <4>3. trace[h].timestamp \in Nat
        BY <1>1, <4>1 DEF Record
      <4>4. QED
        BY <1>2, <1>6, <4>2, <4>3
    <3>3. QED
      BY <3>1, <3>2
  <2>5. (\E h \in start .. pos : /\ SameTask(start, h) /\ trace[h].event # TS_SCHED_END
                                 /\ trace[h].timestamp = last_time)'
    <3>1. SUFFICES \E h \in start .. k : /\ SameTask(start, h) /\ trace[h].event # TS_SCHED_END
                                         /\ trace[h].timestamp = last_time'
      BY <1>4, SameSamples
    <3>2. CASE to = "resuming"
      <4>1. PICK h \in start .. pos : /\ SameTask(start, h) /\ trace[h].event # TS_SCHED_END
                                      /\ trace[h].timestamp = last_time
        BY <1>3 DEF ExecWay
      <4>2. h \in start .. k
        BY <1>1
      <4>3. QED
        BY <3>2, <4>1, <4>2
    <3>3. CASE to # "resuming"
      <4>1. k \in start .. k /\ trace[k].timestamp = last_time' /\ trace[k].event # TS_SCHED_END
        BY <1>1, <1>2, <3>3 DEF TS_LOCK_RESUME, TS_LOCK_SUSPEND, TS_SCHED_START, TS_SCHED_END
      <4>2. QED
        BY <1>2, <4>1
    <3>4. QED
      BY <3>2, <3>3
  <2>6. /\ to = "suspended" => trace[k].event = TS_LOCK_SUSPEND
        /\ to = "preempted" => trace[k].event = TS_SCHED_START
        /\ to = "resuming" => trace[k].event = TS_SCHED_END
    BY <1>2
  <2>7. (/\ pc = "suspended" => trace[first].event = TS_LOCK_SUSPEND
         /\ pc = "preempted" => trace[first].event = TS_SCHED_START
         /\ pc = "resuming" => trace[first].event = TS_SCHED_END)'
    BY <1>4, <2>6
  <2>8. QED
    BY <2>1, <2>3, <2>4, <2>5, <2>7 DEF ExecWay
<1>8. WayInv'
  BY <1>3, <1>4, <1>5, <1>7, SameSamples DEF WayInv, PidLocations
<1>9. QED
  BY <1>4, <1>8, SamplesStay DEF Following, PidLocations

LEMMA SamplesExec ==
    ASSUME Inv, CountInv, SamplesInv, Pid, Following PROVE SamplesInv'
<1> DEFINE k == pos + 1
<1>1. /\ pc \in PidLocations /\ pc # "plain" /\ ~(pc = "eid")
      /\ start \in 1 .. count /\ pos \in 1 .. count /\ count \in Nat /\ start <= pos
      /\ first \in 1 .. count /\ first <= pos /\ trace \in [1 .. count -> Record]
  BY Searching, FileType DEF Following, Inv, PidLocations
<1>2. /\ WayInv /\ Matching = "exec" /\ ExecWay /\ InputInv /\ Way(start, pos) /\ Wanted(start)
  BY DEF Following, SamplesInv, WayInv
<1>3. CASE PidBreaksOff
  BY <1>1, <1>3, SamplesDropped DEF PidBreaksOff
<1>4. ASSUME ~BreaksOff
      PROVE  /\ k \in 1 .. count /\ Candidate = trace[k] /\ start < k
             /\ Candidate.timestamp \in Nat /\ last_time \in Nat
             /\ (OfTask <=> SameTask(start, k))
             /\ (Passed(start, k) <=>
                   /\ OfTask => /\ Candidate.event # id + 1 /\ Candidate.event \in Sought
                                /\ ~Backwards
                   /\ ~(Disturbed /\ ~opts.interrupted))
             /\ (IsSample(start, k) <=>
                   /\ OfTask /\ Candidate.event = id + 1 /\ Candidate.event \in Sought
                   /\ ~Backwards /\ ~(Disturbed /\ ~opts.interrupted))
             /\ Candidate.event # 0
  BY <1>2, <1>4, ExecRecord DEF InputInv
<1>5. CASE PidInterrupted \/ PidUnexpected \/ ExecBackwards
  <2>1. /\ ~BreaksOff /\ Return /\ UNCHANGED out
        /\ \/ Disturbed /\ ~opts.interrupted
           \/ OfTask /\ (Candidate.event \notin Sought \/ Backwards)
    BY <1>5 DEF PidInterrupted, PidUnexpected, ExecBackwards, Found, Regarded, Looking
  <2>2. ~Passed(start, k) /\ ~IsSample(start, k)
    BY <1>4, <2>1
  <2>3. QED
    BY <1>1, <2>1, <2>2, SamplesDropped
<1>6. CASE PidPassed
  <2>1. opts.max_interleaved_skipped = 0
    BY <1>2 DEF Matching
  <2>2. ~Tolerated
    BY <1>1, <2>1 DEF Tolerated
  <2>3. /\ ~BreaksOff /\ ~OfTask /\ ~(Disturbed /\ ~opts.interrupted) /\ pos' = k
        /\ UNCHANGED <<input, pc, start, first, last_time, out>>
    BY <1>6, <2>2 DEF PidPassed, Regarded, Looking
  <2>4. Passed(start, k)
    BY <1>4, <2>3
  <2>5. Way(start, pos)'
    BY <1>1, <1>2, <2>3, <2>4, WayGoesOn
  <2>6. /\ start .. k = (start .. pos) \cup {k} /\ ~SameTask(start, k)
        /\ (first + 1) .. k = ((first + 1) .. pos) \cup {k} /\ trace' = trace
    BY <1>1, <1>4, <2>3 DEF input
  <2>7. ExecWay'
    BY <1>2, <2>3, <2>6, SameSamples DEF ExecWay
  <2>8. WayInv'
    BY <1>1, <1>2, <2>3, <2>5, <2>7, SameSamples DEF WayInv, PidLocations
  <2>9. QED
    BY <1>1, <2>3, <2>8, SamplesStay DEF PidLocations
<1>7. CASE ExecSample
  <2>1. /\ ~BreaksOff /\ OfTask /\ Candidate.event \in Sought /\ ~Backwards /\ Return
        /\ ~(Disturbed /\ ~opts.interrupted) /\ Candidate.event = id + 1
        /\ Emit(k, sum + Executed)
    BY <1>7 DEF ExecSample, Found, Regarded, Looking, IsEnd
  <2>2. IsSample(start, k)
    BY <1>4, <2>1
  <2>3. QED
    BY <1>1, <2>1, <2>2, SamplesEmitted
<1>8. ASSUME Found, ~Backwards, Candidate.event # id + 1
      PROVE  ~BreaksOff /\ OfTask /\ Passed(start, k)
  <2>1. ~BreaksOff /\ OfTask /\ Candidate.event \in Sought /\ ~(Disturbed /\ ~opts.interrupted)
    BY <1>8 DEF Found, Regarded, Looking
  <2>2. QED
    BY <1>4, <1>8, <2>1
<1>9. ASSUME Found PROVE Candidate.event \in Sought /\ Candidate.event # 0
  BY <1>4, <1>9 DEF Found, Regarded, Looking
<1>10. CASE ExecSuspend
  <2>1. /\ Found /\ ~Backwards /\ Candidate.event # id + 1 /\ Proceed("suspended")
        /\ last_time' = Candidate.timestamp /\ Candidate.event = TS_LOCK_SUSPEND
    BY <1>9, <1>10 DEF ExecSuspend, IsEnd, Sought
  <2>2. QED
    BY <1>8, <2>1, ExecProceeds
<1>11. CASE SuspendedResume
  <2>1. /\ Found /\ ~Backwards /\ Proceed("exec") /\ last_time' = Candidate.timestamp
        /\ Candidate.event = TS_LOCK_RESUME
    BY <1>9, <1>11 DEF SuspendedResume, Sought
  <2>2. Candidate.event # id + 1
    BY <1>2, <2>1 DEF InputInv
  <2>3. QED
    BY <1>8, <2>1, <2>2, ExecProceeds
<1>12. CASE SuspendedSchedStart
  <2>1. /\ Found /\ ~Backwards /\ Proceed("preempted") /\ last_time' = Candidate.timestamp
        /\ Candidate.event = TS_SCHED_START
    BY <1>12 DEF SuspendedSchedStart
  <2>2. Candidate.event # id + 1
    BY <1>2, <2>1 DEF InputInv
  <2>3. QED
    BY <1>8, <2>1, <2>2, ExecProceeds
<1>13. CASE PreemptedSchedEnd
  <2>1. /\ Found /\ ~Backwards /\ Proceed("resuming") /\ last_time' = last_time
        /\ Candidate.event = TS_SCHED_END
    BY <1>9, <1>13 DEF PreemptedSchedEnd, Sought
  <2>2. Candidate.event # id + 1
    BY <1>2, <2>1 DEF InputInv
  <2>3. QED
    BY <1>8, <2>1, <2>2, ExecProceeds
<1>14. QED
  BY <1>1, <1>3, <1>5, <1>6, <1>7, <1>10, <1>11, <1>12, <1>13
     DEF Pid, PlainBackwards, PlainSample

LEMMA SamplesPid == ASSUME Inv, CountInv, SamplesInv, Pid PROVE SamplesInv'
<1>1. pc \in PidLocations
  BY DEF Pid, PidBreaksOff, PidInterrupted, PidPassed, PidUnexpected, PlainBackwards,
         PlainSample, ExecBackwards, ExecSample, ExecSuspend, SuspendedResume,
         SuspendedSchedStart, PreemptedSchedEnd, Found, Regarded, Looking, PidLocations
<1>2. QED
  BY <1>1, SamplesPlain, SamplesExec DEF Following

(***************************************************************************)
(* For every file and every command line, ft2csv writes the samples of the *)
(* file, all of them and nothing else, in each of its ways of looking for  *)
(* an END: none is lost to a search that went past it, none is made of     *)
(* records that do not belong together.  Single records with -b, some of   *)
(* which are left out (BestEffortKept), are among those of the file.       *)
(***************************************************************************)
THEOREM SamplesTheorem == ASSUME NoEventZero, PairsApart PROVE Spec => []SamplesExact
<1>1. Inv /\ CountInv /\ SamplesInv /\ [Next]_vars => SamplesInv'
  BY SamplesScan, SamplesEid, SamplesPid, SamplesSingle, SamplesStutter DEF Next
<1>2. Inv /\ CountInv /\ [Next]_vars => CountInv'
  BY CountScan, CountEid, CountPid, CountSingle, CountStutter DEF Next
<1>3. Spec => []SamplesInv
  BY SamplesInit, CountInit, Invariance, <1>1, <1>2, PTL DEF Spec
<1>4. ASSUME Inv, CountInv, SamplesInv PROVE SamplesExact
  <2>1. SUFFICES ASSUME pc = "done" PROVE SamplesExact
    BY DEF SamplesExact
  <2>2. start = count + 1 /\ count \in Nat
    BY <1>4, <2>1, FileType DEF SamplesInv, Inv
  <2>3. CASE IsSingle
    <3>1. (count + 1) - 1 = count
      BY <2>2
    <3>2. Samples = {<<k, k>> : k \in {i \in 1 .. count : /\ trace[i].event = id /\ Wanted(i)
                                                          /\ trace[i].task_type = TSK_RT}}
      BY <1>4, <2>1, <2>2, <2>3, <3>1 DEF SamplesInv, WrittenSingly
    <3>3. SamplesOfFile = {<<k, k>> : k \in Singles}
      BY <2>3 DEF SamplesOfFile
    <3> DEFINE written == {i \in 1 .. count : /\ trace[i].event = id /\ Wanted(i)
                                              /\ trace[i].task_type = TSK_RT}
    <3>4. written \subseteq Singles /\ (~opts.best_effort => written = Singles)
      BY DEF Singles
    <3> HIDE DEF written
    <3>5. Samples = {<<k, k>> : k \in written}
      BY <3>2 DEF written
    <3>6. Samples \subseteq SamplesOfFile
      BY <3>3, <3>4, <3>5
    <3>7. ~opts.best_effort => SamplesOfFile \subseteq Samples
      BY <3>3, <3>4, <3>5
    <3>8. QED
      BY <2>3, <3>6, <3>7 DEF SamplesExact
  <2>4. CASE ~IsSingle
    <3>1. FirstEnd \in Int
      BY <1>4, <2>1, <2>4 DEF CountInv
    <3>2. Written(start) = {p \in (FirstEnd .. count) \X (FirstEnd .. count) :
                              IsSample(p[1], p[2])}
      BY <2>2, <3>1 DEF Written
    <3>3. Samples = SamplesOfFile
      BY <1>4, <2>1, <2>4, <3>2 DEF SamplesInv, SamplesOfFile
    <3>4. QED
      BY <3>3 DEF SamplesExact
  <2>5. QED
    BY <2>3, <2>4
<1>5. Spec => []CountInv
  BY CountInit, Invariance, <1>2, PTL DEF Spec
<1>6. QED
  BY Invariance, <1>3, <1>4, <1>5, PTL

-----------------------------------------------------------------------------
(* The time reported                                                       *)

\* What the record at k adds to Times(i, j, ev).
Weight(i, j, ev) ==
    [k \in 0 .. count |-> IF k \in InBetween(i, j) /\ SameTask(i, k) /\ trace[k].event = ev
                          THEN trace[k].timestamp ELSE 0]

LEMMA TimesIsSum ==
    ASSUME Ft2csvTypeOK, NEW i \in 1 .. count, NEW j \in 1 .. (count + 1), NEW ev
    PROVE  /\ Weight(i, j, ev) \in [0 .. count -> Int]
           /\ \E s \in [0 .. count -> Int] :
                IsSum(s, Weight(i, j, ev), count) /\ Times(i, j, ev) = s[count]
<1>1. count \in Nat /\ trace \in [1 .. count -> Record]
  BY FileType
<1> DEFINE w  == Weight(i, j, ev)
           at == {k \in InBetween(i, j) : SameTask(i, k) /\ trace[k].event = ev}
<1>2. \A k \in 0 .. count : w[k] = IF k \in at THEN trace[k].timestamp ELSE 0
  BY DEF Weight
<1>3. w \in [0 .. count -> Int]
  <2>1. \A k \in InBetween(i, j) : k \in 1 .. count /\ trace[k].timestamp \in Int
    BY <1>1 DEF InBetween, Record
  <2>2. QED
    BY <2>1 DEF Weight
<1> DEFINE IsTimes(s) == s = [k \in 0 .. count |->
                                IF k = 0 THEN 0
                                ELSE s[k - 1] + (IF k \in at THEN trace[k].timestamp ELSE 0)]
<1>4. \E s : IsTimes(s)
  <2>1. PICK s \in [0 .. count -> Int] : IsSum(s, w, count)
    BY <1>1, <1>3, SumExists
  <2>2. ASSUME NEW k \in 1 .. count PROVE s[k] = s[k - 1] + w[k]
    <3>1. k - 1 \in 0 .. (count - 1) /\ (k - 1) + 1 = k
      BY <1>1
    <3>2. QED
      BY <2>1, <3>1 DEF IsSum
  <2>3. s[0] = 0
    BY <2>1 DEF IsSum
  <2>4. s = [k \in 0 .. count |-> s[k]]
    OBVIOUS
  <2>5. \A k \in 0 .. count :
          s[k] = IF k = 0 THEN 0
                 ELSE s[k - 1] + (IF k \in at THEN trace[k].timestamp ELSE 0)
    BY <1>1, <1>2, <2>2, <2>3
  <2>6. IsTimes(s)
    BY <2>4, <2>5
  <2>7. QED
    BY <2>6
<1>5. PICK t : IsTimes(t) /\ Times(i, j, ev) = t[count]
  <2>1. Times(i, j, ev) = (CHOOSE s : IsTimes(s))[count]
    BY DEF Times
  <2> HIDE DEF IsTimes
  <2>2. QED
    BY <1>4, <2>1
<1>6. /\ t = [k \in 0 .. count |-> t[k]] /\ t[0] = 0
      /\ \A k \in 1 .. count : t[k] = t[k - 1] + w[k]
  BY <1>1, <1>2, <1>5
<1>7. \A k \in 0 .. (count - 1) : t[k + 1] = t[k] + w[k + 1]
  <2> SUFFICES ASSUME NEW k \in 0 .. (count - 1) PROVE t[k + 1] = t[k] + w[k + 1]
    OBVIOUS
  <2>1. k + 1 \in 1 .. count /\ (k + 1) - 1 = k
    BY <1>1
  <2>2. QED
    BY <1>6, <2>1
<1> DEFINE T == {m \in Nat : m <= count => t[m] \in Int}
<1>8. \A m \in Nat : m \in T
  <2>1. 0 \in T
    BY <1>6
  <2>2. ASSUME NEW m \in Nat, m \in T PROVE m + 1 \in T
    BY <1>1, <1>3, <1>7, <2>2
  <2> HIDE DEF T
  <2>3. QED
    BY <2>1, <2>2, SetInduction
<1>9. t \in [0 .. count -> Int] /\ IsSum(t, w, count)
  <2>1. \A m \in 0 .. count : t[m] \in Int
    BY <1>1, <1>8
  <2>2. [k \in 0 .. count |-> t[k]] \in [0 .. count -> Int]
    BY <2>1
  <2> HIDE DEF w
  <2>3. QED
    BY <1>6, <1>7, <2>2 DEF IsSum
<1>10. QED
  BY <1>3, <1>5, <1>9

LEMMA TimesOfNone ==
    ASSUME Ft2csvTypeOK, NEW i \in 1 .. count, NEW ev
    PROVE  Times(i, i + 1, ev) = 0
<1>1. count \in Nat /\ i + 1 \in 1 .. (count + 1)
  BY FileType
<1>2. InBetween(i, i + 1) = {}
  BY DEF InBetween
<1>3. \A k \in 1 .. count : Weight(i, i + 1, ev)[k] = 0
  BY <1>2 DEF Weight
<1>4. PICK s \in [0 .. count -> Int] :
        IsSum(s, Weight(i, i + 1, ev), count) /\ Times(i, i + 1, ev) = s[count]
  BY <1>1, TimesIsSum
<1>5. s[count] = 0
  BY <1>1, <1>3, <1>4, SumOfNothing
<1>6. QED
  BY <1>4, <1>5

\* One more record between the two adds its time if it is one of those that are summed up.
LEMMA TimesStep ==
    ASSUME Ft2csvTypeOK, NEW i \in 1 .. count, NEW j \in 1 .. count, i < j, NEW ev
    PROVE  /\ Times(i, j, ev) \in Int
           /\ SameTask(i, j) /\ trace[j].event = ev
                => Times(i, j + 1, ev) = Times(i, j, ev) + trace[j].timestamp
           /\ ~(SameTask(i, j) /\ trace[j].event = ev) => Times(i, j + 1, ev) = Times(i, j, ev)
<1>1. /\ count \in Nat /\ j \in 1 .. (count + 1) /\ j + 1 \in 1 .. (count + 1)
      /\ trace[j].timestamp \in Int
  BY FileType, SMTT(60) DEF Record
<1> DEFINE w == Weight(i, j, ev)
           v == Weight(i, j + 1, ev)
<1>2. /\ w \in [0 .. count -> Int] /\ v \in [0 .. count -> Int]
      /\ \E s \in [0 .. count -> Int] : IsSum(s, w, count) /\ Times(i, j, ev) = s[count]
      /\ \E r \in [0 .. count -> Int] : IsSum(r, v, count) /\ Times(i, j + 1, ev) = r[count]
  BY <1>1, TimesIsSum, ZenonT(60)
<1>3. /\ \A k \in 1 .. count : k # j => v[k] = w[k]
      /\ w[j] = 0
      /\ v[j] = IF SameTask(i, j) /\ trace[j].event = ev THEN trace[j].timestamp ELSE 0
  <2>1. /\ InBetween(i, j + 1) = InBetween(i, j) \cup {j}
        /\ j \notin InBetween(i, j) /\ j \in InBetween(i, j + 1)
    BY DEF InBetween
  <2>2. QED
    BY <2>1 DEF Weight
<1> HIDE DEF w, v
<1>4. PICK s \in [0 .. count -> Int] : IsSum(s, w, count) /\ Times(i, j, ev) = s[count]
  BY <1>2
<1>5. PICK r \in [0 .. count -> Int] : IsSum(r, v, count) /\ Times(i, j + 1, ev) = r[count]
  BY <1>2
<1>6. r[count] = s[count] + (v[j] - w[j])
  <2>1. SumOf(s, w, count) /\ SumOf(r, v, count) /\ AgreeBut(v, w, j, count)
    BY <1>2, <1>3, <1>4, <1>5 DEF SumOf, AgreeBut
  <2>2. QED
    BY <1>1, <2>1, SumChanges, SMTT(60)
<1>7. s[count] \in Int
  BY <1>1
<1>8. QED
  BY <1>1, <1>3, <1>4, <1>5, <1>6, <1>7

-----------------------------------------------------------------------------
(***************************************************************************)
(* Where a search follows a task, sum is the time that has passed since    *)
(* the START, up to first if the task executes, less the time the task was *)
(* away: up to the last suspension, if it is away now.                     *)
(***************************************************************************)
Away(i, j) == Times(i, j, TS_LOCK_RESUME) - Times(i, j, TS_LOCK_SUSPEND)

TimeOf(s) ==
    Matching = "exec" /\ ~IsSingle =>
      s.exec_time = trace[s.second].timestamp - trace[s.first].timestamp - Away(s.first, s.second)

TimeInv ==
    /\ \A k \in 1 .. count : trace[k].event # 0
    /\ pc = "eid" => Matching = "eid"
    /\ pc = "plain" => Matching = "plain"
    /\ Following =>
         /\ Matching = "exec"
         /\ sum = (IF pc = "exec" THEN trace[first].timestamp ELSE 0)
                    - trace[start].timestamp - Away(start, pos + 1)
    /\ \A n \in DOMAIN out : TimeOf(out[n])

LEMMA SameTimes ==
    ASSUME UNCHANGED input
    PROVE  /\ \A i, j : Away(i, j)' = Away(i, j)
           /\ \A s : TimeOf(s)' <=> TimeOf(s)
           /\ Matching' = Matching /\ trace' = trace /\ count' = count
<1>1. trace' = trace /\ count' = count /\ Matching' = Matching /\ (IsSingle' <=> IsSingle)
  BY SameInput, SameSamples
<1>2. \A i, j : InBetween(i, j)' = InBetween(i, j)
  BY DEF InBetween
<1>3. \A i, j, ev : Times(i, j, ev)' = Times(i, j, ev)
  BY <1>1, <1>2 DEF Times, SameTask
<1>4. \A i, j : Away(i, j)' = Away(i, j)
  BY <1>3 DEF Away
<1>5. QED
  BY <1>1, <1>4 DEF TimeOf

\* A step that writes nothing and leaves the search.
LEMMA TimeIdle ==
    ASSUME TimeInv, UNCHANGED <<input, out>>, pc' \notin {"eid"} \cup PidLocations
    PROVE  TimeInv'
<1>1. (\A n \in DOMAIN out : TimeOf(out[n]))'
  BY SameTimes DEF TimeInv
<1>2. QED
  BY <1>1, SameTimes DEF TimeInv, Following, PidLocations

LEMMA TimeEmit ==
    ASSUME Inv, TimeInv, UNCHANGED input, pc' \notin {"eid"} \cup PidLocations,
           NEW second, NEW exec_time, Emit(second, exec_time),
           Matching = "exec" /\ ~IsSingle =>
             exec_time = trace[second].timestamp - trace[start].timestamp - Away(start, second)
    PROVE  TimeInv'
<1> DEFINE new == [first |-> start, second |-> second, exec_time |-> exec_time]
<1>1. /\ DOMAIN out = 1 .. Len(out) /\ Len(out) \in Nat
      /\ DOMAIN out' = (DOMAIN out) \cup {Len(out) + 1} /\ out'[Len(out) + 1] = new
      /\ \A n \in DOMAIN out : out'[n] = out[n]
  BY OutType DEF Emit
<1>2. TimeOf(new)
  BY DEF TimeOf
<1>3. \A n \in DOMAIN out' : TimeOf(out'[n])
  BY <1>1, <1>2 DEF TimeInv
<1>4. QED
  BY <1>3, SameTimes DEF TimeInv, Following, PidLocations

LEMMA TimeInit == ASSUME NoEventZero PROVE Init => TimeInv
<1> SUFFICES ASSUME Init PROVE TimeInv
  OBVIOUS
<1>1. PICK job \in Jobs : trace \in job.traces /\ opts \in job.commands
  BY DEF Init
<1>2. trace \in Seq(Record)
  BY <1>1, Ft2csvAssumption
<1>3. \A k \in 1 .. count : trace[k].event # 0
  BY <1>1, <1>2 DEF NoEventZero, count
<1>4. QED
  BY <1>3 DEF Init, TimeInv, Following, PidLocations

LEMMA TimeScan == ASSUME Inv, TimeInv, Scan PROVE TimeInv'
<1>1. CASE ScanStart
  <2>1. /\ pc' = Matching /\ UNCHANGED <<input, start, out>> /\ first' = start /\ pos' = start
        /\ sum' = 0 /\ start \in 1 .. count
    BY <1>1, FileType DEF ScanStart, Inv
  <2>2. Away(start, start + 1) = 0
    BY <2>1, TimesOfNone DEF Away, Inv
  <2>3. trace[start].timestamp \in Int
    BY <2>1, FileType DEF Inv, Record
  <2>4. sum' = trace[start].timestamp - trace[start].timestamp - Away(start, start + 1)
    BY <2>1, <2>2, <2>3
  <2>5. /\ (pc = "eid" => Matching = "eid")' /\ (pc = "plain" => Matching = "plain")'
        /\ Following' => pc' = "exec" /\ Matching' = "exec"
    BY <2>1, SameTimes, MatchingIs DEF Following, PidLocations
  <2>6. Following' => (sum = (IF pc = "exec" THEN trace[first].timestamp ELSE 0)
                               - trace[start].timestamp - Away(start, pos + 1))'
    BY <2>1, <2>4, <2>5, SameTimes
  <2>7. (\A n \in DOMAIN out : TimeOf(out[n]))'
    BY <2>1, SameTimes DEF TimeInv
  <2>8. QED
    BY <2>1, <2>5, <2>6, <2>7, SameTimes DEF TimeInv
<1>2. CASE ~ScanStart
  <2>1. UNCHANGED <<input, out>> /\ pc' \notin {"eid"} \cup PidLocations
    BY <1>2 DEF Scan, SkipRecord, SkipDone, ScanOther, ScanAvoided, ScanDone, PidLocations
  <2>2. QED
    BY <2>1, TimeIdle
<1>3. QED
  BY <1>1, <1>2

LEMMA TimeSingle == ASSUME Inv, TimeInv, Single PROVE TimeInv'
<1>1. pc = "single" /\ IsSingle /\ UNCHANGED input /\ pc' \notin {"eid"} \cup PidLocations
  BY DEF Single, SingleOther, SingleAvoided, SingleSample, SingleNonRT, SingleDone, Inv, SearchInv,
         PidLocations
<1>2. CASE SingleSample
  <2>1. Emit(start, trace[start].timestamp)
    BY <1>2 DEF SingleSample
  <2>2. QED
    BY <1>1, <2>1, TimeEmit
<1>3. CASE ~SingleSample
  <2>1. UNCHANGED out
    BY <1>3 DEF Single, SingleOther, SingleAvoided, SingleNonRT, SingleDone
  <2>2. QED
    BY <1>1, <2>1, TimeIdle
<1>4. QED
  BY <1>2, <1>3

LEMMA TimeEid == ASSUME Inv, TimeInv, Eid PROVE TimeInv'
<1>1. pc = "eid" /\ Matching = "eid" /\ UNCHANGED input
  BY DEF Eid, EidBreaksOff, EidOtherCpu, EidStart, EidInterleaved, EidInterrupted, EidPassed,
         EidEndInterrupted, EidBackwards, EidNonRT, EidSample, Between, EidEnd, OnCpu, Return, TimeInv
<1>2. CASE EidSample
  <2>1. Return /\ Emit(pos + 1, Candidate.timestamp - trace[start].timestamp)
    BY <1>2 DEF EidSample
  <2>2. pc' \notin {"eid"} \cup PidLocations
    BY <2>1 DEF Return, PidLocations
  <2>3. QED
    BY <1>1, <2>1, <2>2, TimeEmit
<1>3. CASE EidOtherCpu \/ EidPassed
  <2>1. pc' = "eid" /\ UNCHANGED out
    BY <1>1, <1>3 DEF EidOtherCpu, EidPassed
  <2>2. (\A n \in DOMAIN out : TimeOf(out[n]))'
    BY <1>1, <2>1, SameTimes DEF TimeInv
  <2>3. QED
    BY <1>1, <2>1, <2>2, SameTimes DEF TimeInv, Following, PidLocations
<1>4. CASE ~(EidSample \/ EidOtherCpu \/ EidPassed)
  <2>1. Return /\ UNCHANGED out
    BY <1>4 DEF Eid, EidBreaksOff, EidStart, EidInterleaved, EidInterrupted, EidEndInterrupted,
                EidBackwards, EidNonRT
  <2>2. QED
    BY <1>1, <2>1, TimeIdle DEF Return, PidLocations
<1>5. QED
  BY <1>2, <1>3, <1>4

\* A search that follows a task looks at one more record, which is none of the task.
LEMMA TimePassed ==
    ASSUME Inv, TimeInv, Following, PidPassed
    PROVE  TimeInv'
<1>1. /\ start \in 1 .. count /\ pos \in 1 .. count /\ count \in Nat /\ start <= first
      /\ first <= pos /\ first \in 1 .. count /\ SameTask(start, first)
  BY Searching, FileType DEF Following, Inv, PidLocations
<1>2. ~Tolerated
  <2>1. opts.max_interleaved_skipped = 0
    BY DEF TimeInv, Matching
  <2>2. QED
    BY <1>1, <2>1 DEF Tolerated
<1>3. /\ ~BreaksOff /\ ~OfTask /\ pos' = pos + 1
      /\ UNCHANGED <<input, pc, start, first, sum, out>>
  BY <1>2 DEF PidPassed, Regarded, Looking
<1>4. pos + 1 \in 1 .. count /\ Candidate = trace[pos + 1] /\ start < pos + 1
  BY <1>1, <1>3, CandidateType DEF Inv
<1>5. ~SameTask(start, pos + 1)
  BY <1>1, <1>3, <1>4 DEF OfTask, SameTask
<1>6. Away(start, (pos + 1) + 1) = Away(start, pos + 1)
  BY <1>1, <1>4, <1>5, TimesStep DEF Away, Inv
<1>7. (\A n \in DOMAIN out : TimeOf(out[n]))'
  BY <1>3, SameTimes DEF TimeInv
<1>8. sum' = (IF pc' = "exec" THEN trace[first].timestamp ELSE 0)
               - trace[start].timestamp - Away(start, pos' + 1)
  BY <1>3, <1>6 DEF TimeInv
<1>9. (sum = (IF pc = "exec" THEN trace[first].timestamp ELSE 0)
               - trace[start].timestamp - Away(start, pos + 1))'
  BY <1>3, <1>8, SameTimes
<1>10. QED
  BY <1>3, <1>7, <1>9, SameTimes DEF TimeInv, Following, PidLocations

\* It goes on from a record of the task.
LEMMA TimeProceeds ==
    ASSUME Inv, TimeInv, Following, ~BreaksOff, OfTask, NEW to, Proceed(to),
           \/ /\ pc = "exec" /\ to = "suspended" /\ Candidate.event = TS_LOCK_SUSPEND
              /\ sum' = sum + Executed
           \/ /\ pc # "exec" /\ to = "exec" /\ Candidate.event = TS_LOCK_RESUME
              /\ sum' = sum
           \/ /\ pc # "exec" /\ to \in {"preempted", "resuming"} /\ sum' = sum
              /\ Candidate.event \notin {TS_LOCK_SUSPEND, TS_LOCK_RESUME}
    PROVE  TimeInv'
<1> DEFINE k == pos + 1
<1>1. /\ start \in 1 .. count /\ pos \in 1 .. count /\ count \in Nat /\ start <= first
      /\ first <= pos /\ first \in 1 .. count /\ SameTask(start, first) /\ sum \in Nat
  BY Searching, FileType DEF Following, Inv, PidLocations, Ft2csvTypeOK
<1>2. k \in 1 .. count /\ Candidate = trace[k] /\ start < k
  BY <1>1, CandidateType DEF Inv
<1>3. SameTask(start, k)
  BY <1>1, <1>2 DEF OfTask, SameTask
<1>4. /\ pc' = to /\ first' = k /\ pos' = k /\ UNCHANGED <<input, start, out>> /\ trace' = trace
      /\ to \in PidLocations \ {"plain", "eid"}
  BY DEF Proceed, input, PidLocations
<1> DEFINE sumAt == (IF to = "exec" THEN trace[k].timestamp ELSE 0) - trace[start].timestamp
                      - Away(start, k + 1)
           t  == trace[k].timestamp     tf == trace[first].timestamp
           ts == trace[start].timestamp
           R  == Times(start, k, TS_LOCK_RESUME)    R1 == Times(start, k + 1, TS_LOCK_RESUME)
           S  == Times(start, k, TS_LOCK_SUSPEND)   S1 == Times(start, k + 1, TS_LOCK_SUSPEND)
<1>5. t \in Int /\ tf \in Int /\ ts \in Int /\ R \in Int /\ S \in Int
  <2>1. \A m \in 1 .. count : trace[m].timestamp \in Int
    BY FileType, SMTT(60) DEF Inv, Record
  <2>2. R \in Int /\ S \in Int
    BY <1>1, <1>2, TimesStep DEF Inv
  <2>3. QED
    BY <1>1, <1>2, <2>1, <2>2
<1>6. /\ R1 = IF Candidate.event = TS_LOCK_RESUME THEN R + t ELSE R
      /\ S1 = IF Candidate.event = TS_LOCK_SUSPEND THEN S + t ELSE S
  BY <1>1, <1>2, <1>3, TimesStep DEF Inv
<1>7. sum = (IF pc = "exec" THEN tf ELSE 0) - ts - (R - S)
  BY DEF TimeInv, Away
<1>8. Executed = t - tf
  BY <1>2 DEF Executed
<1>9. sumAt = (IF to = "exec" THEN t ELSE 0) - ts - (R1 - S1)
  BY DEF Away
<1> HIDE DEF t, tf, ts, R, S, R1, S1, sumAt
<1>10. sum' = sumAt
  <2>1. CASE pc = "exec" /\ to = "suspended" /\ Candidate.event = TS_LOCK_SUSPEND
             /\ sum' = sum + Executed
    <3>1. R1 = R /\ S1 = S + t
      BY <1>6, <2>1 DEF TS_LOCK_SUSPEND, TS_LOCK_RESUME
    <3>2. QED
      BY <1>5, <1>7, <1>8, <1>9, <2>1, <3>1
  <2>2. CASE pc # "exec" /\ to = "exec" /\ Candidate.event = TS_LOCK_RESUME /\ sum' = sum
    <3>1. R1 = R + t /\ S1 = S
      BY <1>6, <2>2 DEF TS_LOCK_SUSPEND, TS_LOCK_RESUME
    <3>2. QED
      BY <1>5, <1>7, <1>9, <2>2, <3>1
  <2>3. CASE pc # "exec" /\ to \in {"preempted", "resuming"} /\ sum' = sum
             /\ Candidate.event \notin {TS_LOCK_SUSPEND, TS_LOCK_RESUME}
    <3>1. R1 = R /\ S1 = S
      BY <1>6, <2>3
    <3>2. QED
      BY <1>5, <1>7, <1>9, <2>3, <3>1
  <2>4. QED
    BY <2>1, <2>2, <2>3
<1>11. (sum = (IF pc = "exec" THEN trace[first].timestamp ELSE 0)
                - trace[start].timestamp - Away(start, pos + 1))'
  BY <1>4, <1>10, SameTimes DEF sumAt
<1>12. (\A n \in DOMAIN out : TimeOf(out[n]))'
  BY <1>4, SameTimes DEF TimeInv
<1>13. QED
  BY <1>4, <1>11, <1>12, SameTimes DEF TimeInv, Following, PidLocations

LEMMA TimePid == ASSUME Inv, TimeInv, Pid PROVE TimeInv'
<1>1. pc \in PidLocations /\ UNCHANGED input
  BY DEF Pid, PidBreaksOff, PidInterrupted, PidPassed, PidUnexpected, PlainBackwards,
         PlainSample, ExecBackwards, ExecSample, ExecSuspend, SuspendedResume,
         SuspendedSchedStart, PreemptedSchedEnd, Found, Regarded, Looking, PidLocations, Return,
         Proceed
<1>2. CASE PidBreaksOff \/ PidInterrupted \/ PidUnexpected \/ PlainBackwards \/ ExecBackwards
  <2>1. Return /\ UNCHANGED out
    BY <1>2 DEF PidBreaksOff, PidInterrupted, PidUnexpected, PlainBackwards, ExecBackwards
  <2>2. QED
    BY <1>1, <2>1, TimeIdle DEF Return, PidLocations
<1>3. CASE PlainSample
  <2>1. /\ Return /\ Matching = "plain"
        /\ Emit(pos + 1, Candidate.timestamp - trace[start].timestamp)
    BY <1>3 DEF PlainSample, TimeInv
  <2>2. pc' \notin {"eid"} \cup PidLocations
    BY <2>1 DEF Return, PidLocations
  <2>3. QED
    BY <1>1, <2>1, <2>2, TimeEmit
<1>4. CASE PidPassed /\ pc = "plain"
  <2>1. pc' = "plain" /\ UNCHANGED out
    BY <1>4 DEF PidPassed
  <2>2. (\A n \in DOMAIN out : TimeOf(out[n]))'
    BY <1>1, <2>1, SameTimes DEF TimeInv
  <2>3. QED
    BY <1>1, <1>4, <2>1, <2>2, SameTimes DEF TimeInv, Following, PidLocations
<1>5. CASE PidPassed /\ pc # "plain"
  BY <1>1, <1>5, TimePassed DEF Following
<1>6. ASSUME Found PROVE ~BreaksOff /\ OfTask /\ Candidate.event \in Sought /\ Candidate.event # 0
  <2>1. ~BreaksOff /\ OfTask /\ Candidate.event \in Sought
    BY <1>6 DEF Found, Regarded, Looking
  <2>2. pos + 1 \in 1 .. count /\ Candidate = trace[pos + 1]
    BY <1>1, <2>1, Searching, CandidateType DEF Inv
  <2>3. QED
    BY <2>1, <2>2 DEF TimeInv
<1>7. CASE ExecSample
  <2>1. Return /\ pc = "exec" /\ Following /\ Emit(pos + 1, sum + Executed) /\ ~BreaksOff
    BY <1>6, <1>7 DEF ExecSample, Following, PidLocations
  <2>2. pc' \notin {"eid"} \cup PidLocations
    BY <2>1 DEF Return, PidLocations
  <2>3. /\ start \in 1 .. count /\ first \in 1 .. count /\ pos + 1 \in 1 .. count
        /\ Candidate = trace[pos + 1] /\ start < pos + 1 /\ sum \in Nat
    BY <1>1, <2>1, Searching, FileType, CandidateType DEF Inv, Ft2csvTypeOK
  <2> DEFINE t == trace[pos + 1].timestamp  tf == trace[first].timestamp
             ts == trace[start].timestamp   a == Away(start, pos + 1)
  <2>4. t \in Int /\ tf \in Int /\ ts \in Int /\ a \in Int
    <3>1. \A m \in 1 .. count : trace[m].timestamp \in Int
      BY FileType, SMTT(60) DEF Inv, Record
    <3>2. /\ Times(start, pos + 1, TS_LOCK_RESUME) \in Int
          /\ Times(start, pos + 1, TS_LOCK_SUSPEND) \in Int
      BY <2>3, TimesStep DEF Inv
    <3>3. QED
      BY <2>3, <3>1, <3>2 DEF Away
  <2>5. sum = tf - ts - a /\ Executed = t - tf
    BY <2>1, <2>3 DEF TimeInv, Executed
  <2>6. sum + Executed = t - ts - a
    <3> HIDE DEF t, tf, ts, a
    <3>1. QED
      BY <2>4, <2>5
  <2>7. QED
    BY <1>1, <2>1, <2>2, <2>6, TimeEmit
<1>8. CASE ExecSuspend
  <2>1. /\ Found /\ pc = "exec" /\ Following /\ Proceed("suspended") /\ sum' = sum + Executed
        /\ Candidate.event = TS_LOCK_SUSPEND
    BY <1>6, <1>8 DEF ExecSuspend, IsEnd, Sought, Following, PidLocations
  <2>2. QED
    BY <1>6, <2>1, TimeProceeds
<1>9. CASE SuspendedResume
  <2>1. /\ Found /\ pc # "exec" /\ Following /\ Proceed("exec") /\ sum' = sum
        /\ Candidate.event = TS_LOCK_RESUME
    BY <1>6, <1>9 DEF SuspendedResume, Sought, Following, PidLocations
  <2>2. QED
    BY <1>6, <2>1, TimeProceeds
<1>10. CASE SuspendedSchedStart
  <2>1. /\ Found /\ pc # "exec" /\ Following /\ Proceed("preempted") /\ sum' = sum
        /\ Candidate.event = TS_SCHED_START
    BY <1>10 DEF SuspendedSchedStart, Following, PidLocations
  <2>2. Candidate.event \notin {TS_LOCK_SUSPEND, TS_LOCK_RESUME}
    BY <2>1 DEF TS_LOCK_SUSPEND, TS_LOCK_RESUME, TS_SCHED_START
  <2>3. QED
    BY <1>6, <2>1, <2>2, TimeProceeds
<1>11. CASE PreemptedSchedEnd
  <2>1. /\ Found /\ pc # "exec" /\ Following /\ Proceed("resuming") /\ sum' = sum
        /\ Candidate.event = TS_SCHED_END
    BY <1>6, <1>11 DEF PreemptedSchedEnd, Sought, Following, PidLocations
  <2>2. Candidate.event \notin {TS_LOCK_SUSPEND, TS_LOCK_RESUME}
    BY <2>1 DEF TS_LOCK_SUSPEND, TS_LOCK_RESUME, TS_SCHED_END
  <2>3. QED
    BY <1>6, <2>1, <2>2, TimeProceeds
<1>12. QED
  BY <1>2, <1>3, <1>4, <1>5, <1>7, <1>8, <1>9, <1>10, <1>11 DEF Pid

LEMMA TimeStutter == ASSUME TimeInv, UNCHANGED vars PROVE TimeInv'
<1>1. UNCHANGED <<input, pc, start, first, pos, sum, out>>
  BY DEF vars, search
<1>2. QED
  BY <1>1, SameTimes DEF TimeInv, Following

(***************************************************************************)
(* For every file and every command line, the time reported of a task that *)
(* was suspended any number of times is the time between START and END     *)
(* less that between each suspension and the resumption after it.  An      *)
(* event without a number would be taken for a resumption.                 *)
(***************************************************************************)
THEOREM ExecTimeTheorem == ASSUME NoEventZero PROVE Spec => []ExecTimeExact
<1>1. Inv /\ TimeInv /\ [Next]_vars => TimeInv'
  BY TimeScan, TimeEid, TimePid, TimeSingle, TimeStutter DEF Next
<1>2. Spec => []TimeInv
  BY TimeInit, Invariance, <1>1, PTL DEF Spec
<1>3. Inv /\ TimeInv => ExecTimeExact
  BY DEF TimeInv, ExecTimeExact, TimeOf, Away
<1>4. QED
  BY Invariance, <1>2, <1>3, PTL
=============================================================================
