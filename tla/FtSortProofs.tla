---------------------------- MODULE FtSortProofs ----------------------------
(***************************************************************************)
(* What holds of ftsort for every file, every size of the sequence numbers *)
(* and of the window, and any number of runs and kills: the order of the   *)
(* records, what may be lost and marked, that the pre-check marks exactly  *)
(* the outliers of a fresh file, and that what can be repaired is.         *)
(***************************************************************************)
EXTENDS FtSort, FiniteSetTheorems, TLAPS

-----------------------------------------------------------------------------
(* Sequence numbers                                                        *)

\* Sums and differences of two sequence numbers stay in range.
LEMMA U32Type ==
    ASSUME NEW x \in Int, -SeqMod <= x, x < 2 * SeqMod
    PROVE  U32(x) \in SeqNumbers
  BY SeqNoAssumption DEF U32, SeqNumbers

LEMMA NextType == ASSUME NEW s \in SeqNumbers PROVE next_seq_number(s) \in SeqNumbers
  BY SeqNoAssumption DEF next_seq_number, U32, SeqNumbers

(***************************************************************************)
(* in_range, written with an upper bound that may have wrapped around, is  *)
(* the test that the candidate is fewer than LookAhead increments away.    *)
(***************************************************************************)
THEOREM InRangeIsDist ==
    ASSUME NEW s \in SeqNumbers, NEW c \in SeqNumbers
    PROVE  in_range(s, c) <=> Dist(s, c) < LookAhead
  BY SeqNoAssumption DEF in_range, Dist, U32, SeqNumbers

(***************************************************************************)
(* is_lower_seqno, a comparison of signed numbers, orders two numbers in   *)
(* range by their distance from the expected one, wherever the 32-bit      *)
(* counter wraps around or changes its sign.                               *)
(***************************************************************************)
THEOREM LowerIsCloser ==
    ASSUME NEW s \in SeqNumbers, NEW c \in SeqNumbers, NEW m \in SeqNumbers,
           in_range(s, c), in_range(s, m)
    PROVE  is_lower_seqno(c, m) <=> Dist(s, c) <= Dist(s, m)
<1>1. Dist(s, c) < LookAhead /\ Dist(s, m) < LookAhead
  BY InRangeIsDist
<1>2. QED
  BY <1>1, SeqNoAssumption DEF is_lower_seqno, S32, Dist, U32, SeqNumbers

-----------------------------------------------------------------------------
(* Types and cursors                                                       *)

\* Where the cursors of the loops stand when the process is in one of them.
Cursors ==
    /\ pc \in {"find", "check", "shift", "store", "lineup", "bound"} => pos <= count
    /\ pc = "find" => pos <= scan /\ (min # 0 => pos <= min /\ min < scan)
    /\ pc \in {"check", "shift", "store"} => pos <= scan /\ scan <= min
    /\ pc = "store" => pos < scan /\ tmp \in Record
    /\ pc = "bound" => pos < scan

LEMMA InitTypes == Init => TypeOK /\ Cursors
<1> SUFFICES ASSUME Init PROVE TypeOK /\ Cursors
  OBVIOUS
<1>1. recorded \in Seq(Record)
  BY FtSortAssumption DEF Init
<1>2. count \in Nat /\ recorded \in [1 .. count -> Record] /\ mem \in [1 .. count -> Record]
  BY <1>1 DEF Init
<1>3. stats \in [{"holes", "reordered", "aborted_moves", "non_monotonic",
                  "implausible"} -> Nat]
  BY DEF Init, NoStats
<1>4. 0 \in SeqNumbers
  BY SeqNoAssumption DEF SeqNumbers
<1>5. QED
  BY <1>2, <1>3, <1>4, FtSortAssumption
     DEF Init, TypeOK, Cursors, Running, Stopped, NoTime, NoRecord

\* A store into one slot of a table keeps the type of the table.
LEMMA SlotStored ==
    ASSUME NEW S, NEW T, NEW f \in [S -> T], NEW c, NEW v \in T
    PROVE  [f EXCEPT ![c] = v] \in [S -> T]
  OBVIOUS

\* The stores into the file leave records in it.
LEMMA MarkType ==
    ASSUME TypeOK, NEW i \in 1 .. count, MarkAsBad(i)
    PROVE  mem' \in [1 .. count -> Record]
<1> DEFINE marked == [mem[i] EXCEPT !.event = UINT8_MAX]
<1>1. mem[i] \in Record
  BY DEF TypeOK
<1>2. marked \in Record
  BY <1>1 DEF Record, UINT8_MAX
<1>3. mem' = [mem EXCEPT ![i] = marked]
  BY DEF MarkAsBad
<1>4. QED
  BY <1>2, <1>3 DEF TypeOK

LEMMA BumpType ==
    ASSUME TypeOK,
           NEW f \in {"holes", "reordered", "aborted_moves", "non_monotonic", "implausible"},
           Bump(f)
    PROVE  stats' \in [{"holes", "reordered", "aborted_moves", "non_monotonic",
                        "implausible"} -> Nat]
  BY DEF TypeOK, Bump

LEMMA FieldTypes ==
    ASSUME TypeOK, NEW i \in 1 .. count
    PROVE  mem[i].seq_no \in SeqNumbers /\ mem[i].timestamp \in Nat
           /\ mem[i].cpu \in Nat /\ mem[i].event \in Nat /\ mem[i].id \in Nat
  BY DEF TypeOK, Record

LEMMA WindowInFile == ASSUME TypeOK PROVE WindowEnd \in Int /\ WindowEnd <= count
  BY SeqNoAssumption DEF TypeOK, WindowEnd

LEMMA PreCheckTypes == ASSUME TypeOK, Cursors, PreCheck PROVE TypeOK' /\ Cursors'
<1>1. CASE PreCheckSkip
  BY <1>1 DEF PreCheckSkip, TypeOK, Cursors, file, finder, tables, history
<1>2. CASE PreCheckOutlier
  <2> DEFINE p == pos_on[mem[pos].cpu]
  <2>1. p \in 1 .. count
    BY <1>2 DEF PreCheckOutlier, Outlier, TypeOK
  <2>2. mem' \in [1 .. count -> Record]
    BY <1>2, <2>1, MarkType DEF PreCheckOutlier
  <2>3. stats' \in [{"holes", "reordered", "aborted_moves", "non_monotonic",
                     "implausible"} -> Nat]
    BY <1>2, BumpType DEF PreCheckOutlier
  <2>4. TypeOK'
    <3>1. /\ pos \in 1 .. count /\ pos' = pos + 1 /\ count' = count
          /\ UNCHANGED <<recorded, pc, scan, finder, tmp, last_seqno, prev_on,
                         last_preemptable, history>>
      BY <1>2 DEF PreCheckOutlier, TypeOK
    <3> DEFINE c == mem[pos].cpu
    <3>4. pos_on' = [pos_on EXCEPT ![c] = pos]
      BY <1>2 DEF PreCheckOutlier
    <3> HIDE DEF c
    <3>2. pos_on' \in [Cpus -> 0 .. count]
      BY <3>1, <3>4, SlotStored DEF TypeOK
    <3>3. QED
      BY <2>2, <2>3, <3>1, <3>2 DEF TypeOK, finder, history
  <2>5. Cursors'
    BY <1>2 DEF PreCheckOutlier, Cursors
  <2>6. QED
    BY <2>4, <2>5
<1>3. CASE PreCheckKeep
  <2>1. /\ pos \in 1 .. count /\ pos' = pos + 1 /\ pc = "precheck"
        /\ prev_on' = [prev_on EXCEPT ![mem[pos].cpu] = pos_on[mem[pos].cpu]]
        /\ pos_on' = [pos_on EXCEPT ![mem[pos].cpu] = pos]
        /\ UNCHANGED <<file, pc, scan, finder, tmp, last_seqno, last_preemptable, stats, history>>
        /\ mem[pos].cpu \in Cpus /\ count' = count
    BY <1>3 DEF PreCheckKeep, TypeOK, file
  <2>2. (pos_on \in [Cpus -> 0 .. count])' /\ (prev_on \in [Cpus -> 0 .. count])'
    <3>1. pos_on \in [Cpus -> 0 .. count] /\ prev_on \in [Cpus -> 0 .. count]
          /\ pos \in 0 .. count
      BY <2>1 DEF TypeOK
    <3>2. QED
      BY <2>1, <3>1
  <2>3. Cursors'
    BY <2>1 DEF Cursors
  <2>4. QED
    BY <2>1, <2>2, <2>3 DEF TypeOK, file, finder, history
<1>4. CASE PreCheckDone
  BY <1>4, SeqNoAssumption
     DEF PreCheckDone, TypeOK, Cursors, file, finder, tables, history, Running, SeqNumbers
<1>5. QED
  BY <1>1, <1>2, <1>3, <1>4 DEF PreCheck

LEMMA FindTypes == ASSUME TypeOK, Cursors, Find PROVE TypeOK' /\ Cursors'
<1> USE DEF file, tables, history
<1>1. CASE FindCandidate
  <2>1. /\ scan \in 1 .. count /\ scan' = scan + 1 /\ min' \in {scan, min}
        /\ UNCHANGED <<file, pc, pos, nr_not_in_range, tmp, last_seqno, tables, stats, history>>
    BY <1>1, WindowInFile DEF FindCandidate, Searching, TypeOK
  <2>2. TypeOK'
    BY <2>1 DEF TypeOK
  <2>3. Cursors'
    BY <1>1, <2>1 DEF FindCandidate, TypeOK, Cursors
  <2>4. QED
    BY <2>2, <2>3
<1>2. CASE FindNotInRange
  BY <1>2, WindowInFile, FtSortAssumption DEF FindNotInRange, Searching, TypeOK, Cursors
<1>3. CASE FindGiveUp
  BY <1>3 DEF FindGiveUp, TypeOK, Cursors, Running
<1>4. CASE FindDone
  BY <1>4 DEF FindDone, TypeOK, Cursors, Running, finder
<1>5. QED
  BY <1>1, <1>2, <1>3, <1>4 DEF Find

LEMMA MoveTypes == ASSUME TypeOK, Cursors, Move PROVE TypeOK' /\ Cursors'
<1> USE DEF file, finder, tables, history
<1>1. CASE MoveRefused
  <2>1. stats' \in [{"holes", "reordered", "aborted_moves", "non_monotonic",
                     "implausible"} -> Nat]
    BY <1>1, BumpType DEF MoveRefused
  <2>2. QED
    BY <1>1, <2>1 DEF MoveRefused, TypeOK, Cursors, Running
<1>2. CASE MovePasses
  BY <1>2 DEF MovePasses, TypeOK, Cursors
<1>3. CASE MoveBegins
  BY <1>3 DEF MoveBegins, TypeOK, Cursors, Running
<1>4. CASE SwapFirst
  <2>1. mem[scan] \in Record /\ mem[scan - 1] \in Record
    BY <1>4 DEF SwapFirst, TypeOK, Cursors
  <2>2. mem' \in [1 .. count -> Record] /\ tmp' \in Record
    BY <1>4, <2>1 DEF SwapFirst, TypeOK
  <2>3. QED
    BY <1>4, <2>2 DEF SwapFirst, TypeOK, Cursors, Running
<1>5. CASE SwapSecond
  <2>1. mem' \in [1 .. count -> Record]
    BY <1>5 DEF SwapSecond, TypeOK, Cursors
  <2>2. QED
    BY <1>5, <2>1 DEF SwapSecond, TypeOK, Cursors, Running
<1>6. CASE MoveDone
  <2>1. stats' \in [{"holes", "reordered", "aborted_moves", "non_monotonic",
                     "implausible"} -> Nat]
    BY <1>6, BumpType DEF MoveDone
  <2>2. QED
    BY <1>6, <2>1 DEF MoveDone, TypeOK, Cursors, Running
<1>7. QED
  BY <1>1, <1>2, <1>3, <1>4, <1>5, <1>6 DEF Move

LEMMA ReorderTypes == ASSUME TypeOK, Cursors, Reorder PROVE TypeOK' /\ Cursors'
<1>1. CASE ReorderInPlace
  <2>1. mem[pos].seq_no \in SeqNumbers
    BY <1>1, FieldTypes DEF ReorderInPlace, TypeOK
  <2>2. QED
    BY <1>1, <2>1 DEF ReorderInPlace, TypeOK, Cursors, file, finder, tables, history
<1>2. CASE ReorderSearch
  BY <1>2, FtSortAssumption
     DEF ReorderSearch, TypeOK, Cursors, Running, file, tables, history
<1>3. CASE Find
  BY <1>3, FindTypes
<1>4. CASE Move
  BY <1>4, MoveTypes
<1>5. CASE LineUp
  <2>1. mem[pos].seq_no \in SeqNumbers
    BY <1>5, FieldTypes DEF LineUp, TypeOK, Cursors
  <2>2. stats' \in [{"holes", "reordered", "aborted_moves", "non_monotonic",
                     "implausible"} -> Nat]
    BY <1>5, BumpType DEF LineUp, TypeOK
  <2>3. QED
    <3>1. /\ pos \in 1 .. count /\ pos' = pos + 1 /\ pc' = "reorder"
          /\ last_seqno' = mem[pos].seq_no
          /\ UNCHANGED <<file, scan, finder, tmp, tables, history>>
      BY <1>5 DEF LineUp, TypeOK, Cursors
    <3>2. TypeOK'
      BY <2>1, <2>2, <3>1, SMTT(60) DEF TypeOK, Running, file, finder, tables, history
    <3>3. Cursors'
      BY <3>1 DEF Cursors
    <3>4. QED
      BY <3>2, <3>3
<1>6. CASE ReorderDone
  BY <1>6 DEF ReorderDone, TypeOK, Cursors, Running, Stopped, NoTime, file, finder, history
<1>7. QED
  BY <1>1, <1>2, <1>3, <1>4, <1>5, <1>6 DEF Reorder

LEMMA FilterTypes == ASSUME TypeOK, Cursors, Filter PROVE TypeOK' /\ Cursors'
<1> USE DEF file, finder, history
<1>1. CASE FilterHole
  BY <1>1 DEF FilterHole, TypeOK, Cursors, NoTime
<1>2. CASE FilterSchedStart
  <2>1. mem[pos].timestamp \in Nat
    <3>1. pos \in 1 .. count
      BY <1>2 DEF FilterSchedStart, TypeOK
    <3>2. QED
      BY <3>1, FieldTypes
  <2>2. TypeOK'
    <3>1. /\ pos' = pos + 1 /\ pos + 1 \in 1 .. count + 1 /\ mem[pos].cpu \in Cpus
          /\ last_preemptable' = [last_preemptable EXCEPT ![mem[pos].cpu] = mem[pos].timestamp]
          /\ UNCHANGED <<file, pc, scan, finder, tmp, last_seqno, prev_on, pos_on, stats, history>>
      BY <1>2 DEF FilterSchedStart, TypeOK
    <3>2. last_preemptable' \in [Cpus -> Nat \cup {NoTime}]
      BY <2>1, <3>1 DEF TypeOK
    <3>3. QED
      BY <3>1, <3>2 DEF TypeOK
  <2>3. Cursors'
    BY <1>2 DEF FilterSchedStart, Cursors
  <2>4. QED
    BY <2>2, <2>3
<1>3. CASE FilterLatency
  <2>1. TypeOK'
    <3>1. /\ pc' = "bound" /\ scan' = pos + 1 /\ pos + 1 \in 1 .. count + 1
          /\ UNCHANGED <<file, pos, finder, tmp, last_seqno, tables, stats, history>>
      BY <1>3 DEF FilterLatency, TypeOK
    <3>2. QED
      BY <3>1 DEF TypeOK, Running, tables
  <2>2. Cursors'
    BY <1>3 DEF FilterLatency, TypeOK, Cursors
  <2>3. QED
    BY <2>1, <2>2
<1>4. CASE FilterOther
  BY <1>4 DEF FilterOther, TypeOK, Cursors, tables
<1>5. CASE BoundNext
  BY <1>5 DEF BoundNext, NoHoleYet, TypeOK, Cursors, tables
<1>6. CASE BoundNone
  BY <1>6 DEF BoundNone, TypeOK, Cursors, Running, tables
<1>7. CASE BoundFound
  <2>1. pos \in 1 .. count
    BY <1>7 DEF BoundFound, TypeOK, Cursors
  <2>2. mem' \in [1 .. count -> Record]
    BY <1>7, <2>1, MarkType DEF BoundFound, TypeOK
  <2>3. stats' \in [{"holes", "reordered", "aborted_moves", "non_monotonic",
                     "implausible"} -> Nat]
    BY <1>7, BumpType DEF BoundFound, TypeOK
  <2>4. QED
    <3>1. TypeOK'
      <4>1. /\ pc' = "filter" /\ pos' = pos + 1 /\ pos + 1 \in 1 .. count + 1
            /\ UNCHANGED <<recorded, count, scan, finder, tmp, last_seqno, tables, history>>
        BY <1>7, <2>1 DEF BoundFound, TypeOK
      <4>2. QED
        BY <2>2, <2>3, <4>1 DEF TypeOK, Running, tables
    <3>2. Cursors'
      BY <1>7 DEF BoundFound, Cursors
    <3>3. QED
      BY <3>1, <3>2
<1>8. CASE FilterDone
  BY <1>8 DEF FilterDone, TypeOK, Cursors, Stopped, tables
<1>9. QED
  BY <1>1, <1>2, <1>3, <1>4, <1>5, <1>6, <1>7, <1>8 DEF Filter

LEMMA NextTypes == ASSUME TypeOK, Cursors, [Next]_vars PROVE TypeOK' /\ Cursors'
<1>1. CASE Start
  <2>1. stats' \in [{"holes", "reordered", "aborted_moves", "non_monotonic",
                     "implausible"} -> Nat]
    BY <1>1 DEF Start, NoStats
  <2>2. QED
    BY <1>1, <2>1, FtSortAssumption DEF Start, TypeOK, Cursors, Running, file, finder
<1>2. CASE PreCheck
  BY <1>2, PreCheckTypes
<1>3. CASE Reorder
  BY <1>3, ReorderTypes
<1>4. CASE Filter
  BY <1>4, FilterTypes
<1>5. CASE Overrun
  BY <1>5 DEF Overrun, TypeOK, Cursors, file, finder, tables, history
<1>6. CASE Kill
  BY <1>6, FtSortAssumption DEF Kill, TypeOK, Cursors, Stopped, file, finder, tables
<1>7. CASE UNCHANGED vars
  BY <1>7 DEF TypeOK, Cursors, vars, file, finder, tables, history
<1>8. QED
  BY <1>1, <1>2, <1>3, <1>4, <1>5, <1>6, <1>7 DEF Next, Step

(***************************************************************************)
(* Every variable keeps its type: no loop of the three passes moves its    *)
(* cursor out of the file, and no store puts anything but a record into it.*)
(***************************************************************************)
THEOREM TypeCorrect == Spec => []TypeOK
<1>1. Spec => [](TypeOK /\ Cursors)
  BY InitTypes, NextTypes, PTL DEF Spec
<1>2. QED
  BY <1>1, PTL

-----------------------------------------------------------------------------
(* Sequentiality                                                           *)

\* The order kept by a file m, for SequentialityKept and the middle of a swap.
InOrder(m) ==
    \A i, j \in 1 .. count : i < j /\ Constrained(m[i], m[j]) => m[i].id <= m[j].id

(***************************************************************************)
(* Why a move keeps the order: nothing it still has to pass is constrained *)
(* against the record it moves.  In the middle of a swap the file with tmp *)
(* put back is in order, and the file holds the passed record twice.       *)
(***************************************************************************)
MoveAllowed ==
    /\ pc = "check" => \A k \in pos .. (scan - 1) : ~Constrained(mem[k], mem[min])
    /\ pc = "shift" => \A k \in pos .. (scan - 1) : ~Constrained(mem[k], mem[scan])
    /\ pc = "store" => /\ \A k \in pos .. (scan - 1) : ~Constrained(mem[k], tmp)
                       /\ InOrder([mem EXCEPT ![scan] = tmp])
                       /\ mem[scan] = mem[scan - 1]

\* What the passes mark is never a SEND_RESCHED_START, so that a mark changes
\* nothing of the constraints.
MarksKeepConstraints ==
    /\ pc = "precheck" => \A c \in Cpus :
         pos_on[c] # 0 => mem[pos_on[c]].event # TS_SEND_RESCHED_START
    /\ pc = "bound" => mem[pos].event = TS_RELEASE_LATENCY

OrderInv == InOrder(mem) /\ MoveAllowed /\ MarksKeepConstraints

\* Two records constrain each other.
LEMMA ConstrainedSymmetric ==
    ASSUME NEW a, NEW b PROVE Constrained(a, b) <=> Constrained(b, a)
  BY DEF Constrained

LEMMA MarkKeepsOrder ==
    ASSUME TypeOK, InOrder(mem), NEW i \in 1 .. count, MarkAsBad(i), count' = count,
           mem[i].event # TS_SEND_RESCHED_START
    PROVE  InOrder(mem)' /\ \A k \in 1 .. count :
             mem[k].event # TS_SEND_RESCHED_START => mem'[k].event # TS_SEND_RESCHED_START
<1> DEFINE marked == [mem[i] EXCEPT !.event = UINT8_MAX]
<1>1. mem[i] \in Record
  BY DEF TypeOK
<1>2. /\ marked.event = UINT8_MAX /\ marked.id = mem[i].id
      /\ marked.cpu = mem[i].cpu /\ marked.pid = mem[i].pid
  BY <1>1 DEF Record
<1>3. mem' = [mem EXCEPT ![i] = marked]
  BY DEF MarkAsBad
<1>4. \A k \in 1 .. count : mem'[k] = IF k = i THEN marked ELSE mem[k]
  BY <1>3 DEF TypeOK
<1> HIDE DEF marked
<1>5. \A k \in 1 .. count :
        /\ mem'[k].id = mem[k].id /\ mem'[k].cpu = mem[k].cpu /\ mem'[k].pid = mem[k].pid
        /\ mem'[k].event # TS_SEND_RESCHED_START <=> mem[k].event # TS_SEND_RESCHED_START
  BY <1>2, <1>4 DEF UINT8_MAX, TS_SEND_RESCHED_START
<1>6. \A j, k \in 1 .. count :
        Constrained(mem'[j], mem'[k]) <=> Constrained(mem[j], mem[k])
  BY <1>5 DEF Constrained
<1>7. QED
  BY <1>5, <1>6 DEF InOrder

LEMMA SwapFirstKeepsOrder ==
    ASSUME TypeOK, Cursors, OrderInv, SwapFirst PROVE OrderInv'
<1>1. /\ count \in Nat /\ scan \in 2 .. count /\ pos < scan /\ pos \in Nat /\ count' = count
      /\ pc' = "store" /\ scan' = scan /\ pos' = pos /\ tmp' = mem[scan]
  BY DEF SwapFirst, TypeOK, Cursors, Running
<1>2. \A k \in 1 .. count : mem'[k] = IF k = scan THEN mem[scan - 1] ELSE mem[k]
  BY DEF SwapFirst, TypeOK
<1>3. [mem' EXCEPT ![scan] = mem[scan]] = mem
  BY <1>1 DEF SwapFirst, TypeOK
<1>4. InOrder(mem)'
  <2> SUFFICES ASSUME NEW i \in 1 .. count, NEW j \in 1 .. count,
                      i < j, Constrained(mem'[i], mem'[j])
               PROVE  mem'[i].id <= mem'[j].id
    BY <1>1 DEF InOrder
  <2>1. CASE j = scan /\ i = scan - 1
    BY <1>1, <1>2, <2>1, FieldTypes
  <2>2. CASE j = scan /\ i # scan - 1
    BY <1>1, <1>2, <2>2 DEF OrderInv, InOrder
  <2>3. CASE i = scan
    BY <1>1, <1>2, <2>3 DEF OrderInv, InOrder
  <2>4. CASE i # scan /\ j # scan
    BY <1>2, <2>4 DEF OrderInv, InOrder
  <2>5. QED
    BY <2>1, <2>2, <2>3, <2>4
<1>5. MoveAllowed'
  <2>1. \A k \in pos .. (scan - 1) : ~Constrained(mem'[k], mem[scan])
    BY <1>1, <1>2 DEF OrderInv, MoveAllowed, SwapFirst
  <2>2. InOrder([mem EXCEPT ![scan] = tmp])'
    BY <1>1, <1>3 DEF OrderInv, InOrder
  <2>3. mem'[scan] = mem'[scan - 1]
    BY <1>1, <1>2
  <2>4. QED
    BY <1>1, <2>1, <2>2, <2>3 DEF MoveAllowed
<1>6. QED
  BY <1>1, <1>4, <1>5 DEF OrderInv, MarksKeepConstraints

LEMMA SwapSecondKeepsOrder ==
    ASSUME TypeOK, Cursors, OrderInv, SwapSecond PROVE OrderInv'
<1> DEFINE before == [mem EXCEPT ![scan] = tmp]
<1>1. /\ count \in Nat /\ scan \in 2 .. count /\ pos < scan /\ pos \in Nat /\ count' = count
      /\ pc' = "shift" /\ scan' = scan - 1 /\ pos' = pos
  BY DEF SwapSecond, TypeOK, Cursors, Running
<1>2. \A k \in 1 .. count : mem'[k] = IF k = scan - 1 THEN tmp ELSE mem[k]
  BY DEF SwapSecond, TypeOK
<1>3. \A k \in 1 .. count : before[k] = IF k = scan THEN tmp ELSE mem[k]
  BY DEF TypeOK
<1>4. InOrder(before) /\ mem[scan] = mem[scan - 1]
  BY DEF OrderInv, MoveAllowed, SwapSecond
<1> HIDE DEF before
<1>5. ~Constrained(tmp, mem[scan])
  BY <1>1, <1>4, ConstrainedSymmetric DEF OrderInv, MoveAllowed, SwapSecond
<1>6. InOrder(mem)'
  <2> SUFFICES ASSUME NEW i \in 1 .. count, NEW j \in 1 .. count,
                      i < j, Constrained(mem'[i], mem'[j])
               PROVE  mem'[i].id <= mem'[j].id
    BY <1>1 DEF InOrder
  <2>1. CASE j = scan - 1
    BY <1>1, <1>2, <1>3, <1>4, <2>1 DEF InOrder
  <2>2. CASE i = scan - 1 /\ j = scan
    BY <1>1, <1>2, <1>5, <2>2
  <2>3. CASE i = scan - 1 /\ j # scan
    BY <1>1, <1>2, <1>3, <1>4, <2>3 DEF InOrder
  <2>4. CASE i # scan - 1 /\ j # scan - 1
    BY <1>2, <2>4 DEF OrderInv, InOrder
  <2>5. QED
    BY <2>1, <2>2, <2>3, <2>4
<1>7. MoveAllowed'
  <2>1. \A k \in pos .. (scan - 2) : ~Constrained(mem'[k], mem'[scan - 1])
    BY <1>1, <1>2 DEF OrderInv, MoveAllowed, SwapSecond
  <2>2. QED
    BY <1>1, <2>1 DEF MoveAllowed
<1>8. QED
  BY <1>1, <1>6, <1>7 DEF OrderInv, MarksKeepConstraints

\* A step that leaves the file and the cursors of the move alone.
LEMMA SameFileKeepsOrder ==
    ASSUME InOrder(mem), UNCHANGED file PROVE InOrder(mem)'
  BY DEF InOrder, file

LEMMA PreCheckKeepsOrder ==
    ASSUME TypeOK, Cursors, OrderInv, PreCheck PROVE OrderInv'
<1>1. CASE PreCheckSkip
  BY <1>1, SameFileKeepsOrder
     DEF PreCheckSkip, OrderInv, MoveAllowed, MarksKeepConstraints, file, tables
<1>2. CASE PreCheckOutlier
  <2> DEFINE p == pos_on[mem[pos].cpu]
  <2>1. p \in 1 .. count /\ mem[p].event # TS_SEND_RESCHED_START
    BY <1>2 DEF PreCheckOutlier, Outlier, TypeOK, OrderInv, MarksKeepConstraints
  <2>2. MarkAsBad(p) /\ count' = count
    BY <1>2 DEF PreCheckOutlier
  <2>3. InOrder(mem)' /\ \A k \in 1 .. count :
          mem[k].event # TS_SEND_RESCHED_START => mem'[k].event # TS_SEND_RESCHED_START
    BY <2>1, <2>2, MarkKeepsOrder DEF OrderInv
  <2> HIDE DEF p
  <2>4. pos \in 1 .. count /\ mem[pos].event # TS_SEND_RESCHED_START
    BY <1>2 DEF PreCheckOutlier, Checked, TypeOK
  <2>5. \A c \in Cpus : pos_on'[c] = IF c = mem[pos].cpu THEN pos ELSE pos_on[c]
    BY <1>2 DEF PreCheckOutlier, TypeOK
  <2>6. \A c \in Cpus : pos_on'[c] # 0 => mem'[pos_on'[c]].event # TS_SEND_RESCHED_START
    <3> SUFFICES ASSUME NEW c \in Cpus, pos_on'[c] # 0
                 PROVE  mem'[pos_on'[c]].event # TS_SEND_RESCHED_START
      OBVIOUS
    <3>1. CASE c = mem[pos].cpu
      BY <2>3, <2>4, <2>5, <3>1
    <3>2. CASE c # mem[pos].cpu
      <4>1. pos_on[c] \in 1 .. count /\ pos_on'[c] = pos_on[c]
        BY <2>5, <3>2 DEF TypeOK
      <4>2. mem[pos_on[c]].event # TS_SEND_RESCHED_START
        BY <1>2, <4>1 DEF PreCheckOutlier, OrderInv, MarksKeepConstraints, TypeOK
      <4>3. QED
        BY <2>3, <4>1, <4>2
    <3>3. QED
      BY <3>1, <3>2
  <2>7. QED
    BY <1>2, <2>3, <2>6 DEF PreCheckOutlier, OrderInv, MoveAllowed, MarksKeepConstraints
<1>3. CASE PreCheckKeep
  <2>1. pos \in 1 .. count /\ mem[pos].event # TS_SEND_RESCHED_START
    BY <1>3 DEF PreCheckKeep, Checked, TypeOK
  <2>2. \A c \in Cpus : pos_on'[c] = IF c = mem[pos].cpu THEN pos ELSE pos_on[c]
    BY <1>3 DEF PreCheckKeep, TypeOK
  <2>3. QED
    BY <1>3, <2>1, <2>2, SameFileKeepsOrder
       DEF PreCheckKeep, OrderInv, MoveAllowed, MarksKeepConstraints, file
<1>4. CASE PreCheckDone
  BY <1>4, SameFileKeepsOrder
     DEF PreCheckDone, OrderInv, MoveAllowed, MarksKeepConstraints, file
<1>5. QED
  BY <1>1, <1>2, <1>3, <1>4 DEF PreCheck

LEMMA ReorderKeepsOrder ==
    ASSUME TypeOK, Cursors, OrderInv, Reorder PROVE OrderInv'
<1> USE DEF OrderInv, MarksKeepConstraints
<1>1. CASE \/ ReorderInPlace \/ ReorderSearch \/ MoveRefused \/ LineUp \/ ReorderDone
           \/ FindCandidate \/ FindNotInRange \/ FindGiveUp
  <2>1. UNCHANGED file
    BY <1>1 DEF ReorderInPlace, ReorderSearch, FindCandidate, FindNotInRange,
                FindGiveUp, MoveRefused, LineUp, ReorderDone, file
  <2>2. pc' \in {"reorder", "find", "lineup", "filter", "done"}
    BY <1>1 DEF ReorderInPlace, ReorderSearch, FindCandidate, FindNotInRange,
                FindGiveUp, MoveRefused, LineUp, ReorderDone
  <2>3. QED
    BY <2>1, <2>2, SameFileKeepsOrder DEF MoveAllowed
<1>7. CASE FindDone
  <2>1. /\ UNCHANGED file /\ pos' \in Nat /\ scan' = pos'
        /\ pc' \in {"lineup", "check"}
    BY <1>7 DEF FindDone, TypeOK
  <2>2. QED
    BY <2>1, SameFileKeepsOrder DEF MoveAllowed
<1>2. CASE MovePasses
  <2>1. MoveAllowed'
    BY <1>2 DEF MovePasses, MoveAllowed, TypeOK, file, finder
  <2>2. QED
    BY <1>2, <2>1, SameFileKeepsOrder DEF MovePasses, file
<1>3. CASE MoveBegins
  BY <1>3, SameFileKeepsOrder DEF MoveBegins, MoveAllowed, file
<1>4. CASE SwapFirst
  BY <1>4, SwapFirstKeepsOrder
<1>5. CASE SwapSecond
  BY <1>5, SwapSecondKeepsOrder
<1>6. CASE MoveDone
  BY <1>6, SameFileKeepsOrder DEF MoveDone, MoveAllowed
<1>8. QED
  BY <1>1, <1>2, <1>3, <1>4, <1>5, <1>6, <1>7 DEF Reorder, Find, Move

LEMMA FilterKeepsOrder ==
    ASSUME TypeOK, Cursors, OrderInv, Filter PROVE OrderInv'
<1> USE DEF OrderInv, MarksKeepConstraints, MoveAllowed
<1>1. CASE FilterHole \/ FilterSchedStart \/ FilterOther \/ BoundNone \/ FilterDone
  BY <1>1, SameFileKeepsOrder
     DEF FilterHole, FilterSchedStart, FilterOther, BoundNone, FilterDone
<1>2. CASE FilterLatency
  BY <1>2, SameFileKeepsOrder DEF FilterLatency, file
<1>3. CASE BoundNext
  BY <1>3, SameFileKeepsOrder DEF BoundNext, file
<1>4. CASE BoundFound
  <2>1. pos \in 1 .. count /\ mem[pos].event # TS_SEND_RESCHED_START /\ count' = count
    BY <1>4 DEF BoundFound, TypeOK, Cursors, TS_RELEASE_LATENCY, TS_SEND_RESCHED_START
  <2>2. CASE Implausible(scan)
    BY <1>4, <2>1, <2>2, MarkKeepsOrder DEF BoundFound
  <2>3. CASE ~Implausible(scan)
    BY <1>4, <2>3, SameFileKeepsOrder DEF BoundFound, file
  <2>4. QED
    BY <2>2, <2>3
<1>5. QED
  BY <1>1, <1>2, <1>3, <1>4 DEF Filter

LEMMA NextKeepsOrder ==
    ASSUME TypeOK, Cursors, OrderInv, [Next]_vars PROVE OrderInv'
<1>1. CASE Start
  BY <1>1, SameFileKeepsOrder DEF Start, OrderInv, MoveAllowed, MarksKeepConstraints
<1>2. CASE PreCheck
  BY <1>2, PreCheckKeepsOrder
<1>3. CASE Reorder
  BY <1>3, ReorderKeepsOrder
<1>4. CASE Filter
  BY <1>4, FilterKeepsOrder
<1>5. CASE Overrun
  BY <1>5, SameFileKeepsOrder DEF Overrun, OrderInv, MoveAllowed, MarksKeepConstraints
<1>6. CASE Kill
  BY <1>6, SameFileKeepsOrder DEF Kill, OrderInv, MoveAllowed, MarksKeepConstraints
<1>7. CASE UNCHANGED vars
  BY <1>7 DEF OrderInv, InOrder, MoveAllowed, MarksKeepConstraints,
              vars, file, finder, tables
<1>8. QED
  BY <1>1, <1>2, <1>3, <1>4, <1>5, <1>6, <1>7 DEF Next, Step

LEMMA InitInOrder == Init => OrderInv
<1> SUFFICES ASSUME Init PROVE OrderInv
  OBVIOUS
<1>1. \A i \in 1 .. count : mem[i].id = i
  <2>1. recorded \in Seq(Record) /\ \A i \in DOMAIN recorded : recorded[i].id = i
    BY FtSortAssumption DEF Init
  <2>2. DOMAIN recorded = 1 .. count /\ mem = recorded
    BY <2>1 DEF Init
  <2>3. QED
    BY <2>1, <2>2
<1>2. QED
  BY <1>1, InitTypes DEF Init, OrderInv, InOrder, MoveAllowed, MarksKeepConstraints, TypeOK

(***************************************************************************)
(* No run of ftsort, and no sequence of runs that may be killed anywhere,  *)
(* lets a record get ahead of an earlier one of the same CPU or task.      *)
(***************************************************************************)
THEOREM SequentialityTheorem == Spec => []SequentialityKept
<1>1. Spec => [](TypeOK /\ Cursors /\ OrderInv)
  BY InitTypes, NextTypes, InitInOrder, NextKeepsOrder, PTL DEF Spec
<1>2. OrderInv => SequentialityKept
  BY DEF OrderInv, InOrder, SequentialityKept
<1>3. QED
  BY <1>1, <1>2, PTL

(***************************************************************************)
(* What the cursor of reorder has passed is final, whatever is moved later.*)
(***************************************************************************)
LEMMA StepFreezesPrefix ==
    ASSUME TypeOK, Cursors, Next,
           pc \in {"reorder", "find", "check", "shift", "store", "lineup"},
           NEW i \in 1 .. count, i < pos
    PROVE  mem'[i] = mem[i]
<1>1. CASE SwapFirst
  BY <1>1 DEF SwapFirst, TypeOK
<1>2. CASE SwapSecond
  BY <1>2 DEF SwapSecond, TypeOK, Cursors
<1>3. CASE \/ Start \/ PreCheck \/ Filter \/ Overrun \/ Kill
  BY <1>3 DEF Start, PreCheck, PreCheckSkip, PreCheckOutlier, PreCheckKeep, PreCheckDone,
              Filter, FilterHole, FilterSchedStart, FilterLatency, FilterOther,
              BoundNext, BoundNone, BoundFound, FilterDone, Overrun, Kill,
              Stopped, file
<1>4. CASE \/ ReorderInPlace \/ ReorderSearch \/ Find \/ LineUp \/ ReorderDone
           \/ MoveRefused \/ MovePasses \/ MoveBegins \/ MoveDone
  BY <1>4 DEF ReorderInPlace, ReorderSearch, Find, FindCandidate, FindNotInRange,
              FindGiveUp, FindDone, LineUp, ReorderDone, MoveRefused, MovePasses,
              MoveBegins, MoveDone, file
<1>5. QED
  BY <1>1, <1>2, <1>3, <1>4 DEF Next, Step, Reorder, Move

THEOREM PrefixFrozenTheorem == Spec => PrefixFrozen
<1>1. TypeOK /\ Cursors /\ [Next]_vars =>
        [\A i \in 1 .. count :
           i < pos /\ pc \in {"reorder", "find", "check", "shift", "store", "lineup"} =>
               mem'[i] = mem[i]]_vars
  BY StepFreezesPrefix
<1>2. Spec => [](TypeOK /\ Cursors)
  BY InitTypes, NextTypes, PTL DEF Spec
<1>3. QED
  BY <1>1, <1>2, PTL DEF Spec, PrefixFrozen

-----------------------------------------------------------------------------
(* The search                                                              *)

\* The candidate comes first among the records up to position n.
ClosestUpTo(n) ==
    \A i \in pos .. n : in_range(Expected, mem[i].seq_no) =>
        min # 0 /\ Dist(Expected, mem[min].seq_no) <= Dist(Expected, mem[i].seq_no)

SearchInv ==
    /\ pc = "find" => /\ scan - 1 <= WindowEnd
                      /\ min # 0 => in_range(Expected, mem[min].seq_no)
                      /\ ClosestUpTo(scan - 1)
    /\ pc \in {"check", "shift", "store"} => min <= WindowEnd
    /\ pc = "check" => ClosestUpTo(WindowEnd)

LEMMA DistType ==
    ASSUME NEW a \in SeqNumbers, NEW b \in SeqNumbers
    PROVE  Dist(a, b) \in Nat /\ Dist(a, a) = 0
  BY SeqNoAssumption DEF Dist, U32, SeqNumbers

LEMMA ExpectedType == ASSUME TypeOK PROVE Expected \in SeqNumbers
  BY NextType DEF TypeOK, Expected

LEMMA FindCandidateKeepsSearch ==
    ASSUME TypeOK, Cursors, SearchInv, FindCandidate PROVE SearchInv'
<1> DEFINE D(i) == Dist(Expected, mem[i].seq_no)
<1>1. /\ pc = "find" /\ pc' = "find" /\ scan' = scan + 1 /\ pos' = pos
      /\ mem' = mem /\ count' = count /\ last_seqno' = last_seqno
      /\ scan \in 1 .. count /\ pos \in 1 .. count /\ pos <= scan /\ scan <= WindowEnd
      /\ count \in Nat /\ WindowEnd \in Int
  BY WindowInFile DEF FindCandidate, Searching, TypeOK, Cursors, file
<1>2. Expected' = Expected /\ WindowEnd' = WindowEnd
  BY <1>1 DEF Expected, WindowEnd
<1>3. \A i \in 1 .. count : mem[i].seq_no \in SeqNumbers /\ D(i) \in Nat
  BY FieldTypes, ExpectedType, DistType
<1>4. in_range(Expected, mem[scan].seq_no)
  BY DEF FindCandidate
<1>5. CASE min = 0
  <2>1. min' = scan
    BY <1>5 DEF FindCandidate
  <2>2. \A i \in pos .. (scan - 1) : ~in_range(Expected, mem[i].seq_no)
    BY <1>1, <1>5 DEF SearchInv, ClosestUpTo
  <2>3. \A i \in pos .. scan : in_range(Expected, mem[i].seq_no) => D(scan) <= D(i)
    BY <1>1, <1>3, <2>2
  <2>4. ClosestUpTo(scan - 1)'
    BY <1>1, <1>2, <2>1, <2>3 DEF ClosestUpTo
  <2>5. QED
    BY <1>1, <1>2, <1>4, <2>1, <2>4 DEF SearchInv
<1>6. CASE min # 0
  <2>1. /\ min \in 1 .. count /\ in_range(Expected, mem[min].seq_no)
        /\ \A i \in pos .. (scan - 1) :
             in_range(Expected, mem[i].seq_no) => D(min) <= D(i)
    BY <1>1, <1>6 DEF SearchInv, ClosestUpTo, TypeOK
  <2>2. is_lower_seqno(mem[scan].seq_no, mem[min].seq_no) <=> D(scan) <= D(min)
    BY <1>1, <1>3, <1>4, <2>1, ExpectedType, LowerIsCloser
  <2>3. min' = IF D(scan) <= D(min) THEN scan ELSE min
    BY <1>6, <2>2 DEF FindCandidate
  <2>4. min' \in {scan, min} /\ min' # 0 /\ D(min') <= D(scan) /\ D(min') <= D(min)
    BY <1>1, <1>3, <1>6, <2>1, <2>3
  <2>5. \A i \in pos .. scan : in_range(Expected, mem[i].seq_no) => D(min') <= D(i)
    BY <1>1, <1>3, <2>1, <2>4
  <2>6. ClosestUpTo(scan - 1)'
    BY <1>1, <1>2, <2>4, <2>5 DEF ClosestUpTo
  <2>7. QED
    BY <1>1, <1>2, <1>4, <2>1, <2>4, <2>6 DEF SearchInv
<1>7. QED
  BY <1>5, <1>6

\* The search ends with the whole window looked through, or with the exact number.
LEMMA SearchComplete ==
    ASSUME TypeOK, Cursors, SearchInv, FindDone, min # 0
    PROVE  ClosestUpTo(WindowEnd)
<1>1. /\ pc = "find" /\ pos \in 1 .. count /\ count \in Nat /\ scan \in Nat
      /\ WindowEnd \in Int /\ WindowEnd <= count /\ min \in 1 .. count
  BY WindowInFile DEF FindDone, TypeOK, Cursors
<1>2. CASE scan > WindowEnd
  BY <1>1, <1>2 DEF SearchInv, ClosestUpTo
<1>3. CASE mem[min].seq_no = Expected
  BY <1>1, <1>3, FieldTypes, ExpectedType, DistType DEF ClosestUpTo
<1>4. QED
  BY <1>1, <1>2, <1>3 DEF FindDone, Searching

LEMMA FindDoneKeepsSearch ==
    ASSUME TypeOK, Cursors, SearchInv, FindDone PROVE SearchInv'
<1>1. /\ pc = "find" /\ pos' = pos /\ mem' = mem /\ count' = count /\ min' = min
      /\ last_seqno' = last_seqno /\ pc' \in {"lineup", "check"}
      /\ pos \in 1 .. count /\ count \in Nat /\ scan \in Nat
      /\ WindowEnd \in Int /\ WindowEnd <= count /\ scan - 1 <= WindowEnd
      /\ pc' = "check" => min # 0
  BY WindowInFile DEF FindDone, TypeOK, Cursors, SearchInv, file, finder
<1>2. Expected' = Expected /\ WindowEnd' = WindowEnd
  BY <1>1 DEF Expected, WindowEnd
<1>3. CASE pc' = "lineup"
  BY <1>3 DEF SearchInv
<1>4. CASE pc' = "check"
  <2>1. min # 0 /\ min \in 1 .. count /\ min < scan
    BY <1>1, <1>4 DEF TypeOK, Cursors
  <2>2. ClosestUpTo(WindowEnd)
    BY <2>1, SearchComplete
  <2>3. ClosestUpTo(WindowEnd)'
    BY <1>1, <1>2, <2>2 DEF ClosestUpTo
  <2>4. QED
    BY <1>1, <1>2, <1>4, <2>1, <2>3 DEF SearchInv
<1>5. QED
  BY <1>1, <1>3, <1>4

LEMMA NextKeepsSearch ==
    ASSUME TypeOK, Cursors, SearchInv, [Next]_vars PROVE SearchInv'
<1>1. CASE FindCandidate
  BY <1>1, FindCandidateKeepsSearch
<1>2. CASE FindDone
  BY <1>2, FindDoneKeepsSearch
<1>3. CASE ReorderSearch
  BY <1>3, SeqNoAssumption
     DEF ReorderSearch, SearchInv, ClosestUpTo, WindowEnd, TypeOK, file
<1>4. CASE FindNotInRange
  <2>1. /\ pc = "find" /\ pc' = "find" /\ scan' = scan + 1 /\ pos' = pos /\ min' = min
        /\ mem' = mem /\ count' = count /\ last_seqno' = last_seqno
        /\ scan \in Nat /\ pos \in Nat /\ scan <= WindowEnd /\ WindowEnd \in Int
        /\ ~in_range(Expected, mem[scan].seq_no)
    BY <1>4, WindowInFile DEF FindNotInRange, Searching, TypeOK, file
  <2>2. Expected' = Expected /\ WindowEnd' = WindowEnd
    BY <2>1 DEF Expected, WindowEnd
  <2>3. ClosestUpTo(scan)
    BY <2>1 DEF SearchInv, ClosestUpTo
  <2>4. ClosestUpTo(scan - 1)'
    BY <2>1, <2>2, <2>3 DEF ClosestUpTo
  <2>5. QED
    BY <2>1, <2>2, <2>4 DEF SearchInv
<1>5. CASE MovePasses \/ MoveBegins \/ UNCHANGED vars
  <2>1. /\ UNCHANGED <<mem, count, pos, min, last_seqno>>
        /\ \/ pc' = pc /\ (pc = "find" => scan' = scan)
           \/ pc = "check" /\ pc' = "shift"
    BY <1>5 DEF MovePasses, MoveBegins, vars, file, finder
  <2>2. Expected' = Expected /\ WindowEnd' = WindowEnd
    BY <2>1 DEF Expected, WindowEnd
  <2>3. QED
    BY <2>1, <2>2 DEF SearchInv, ClosestUpTo
<1>6. CASE SwapFirst \/ SwapSecond
  <2>1. /\ UNCHANGED <<count, pos, min>>
        /\ pc \in {"shift", "store"} /\ pc' \in {"shift", "store"}
    BY <1>6 DEF SwapFirst, SwapSecond, finder
  <2>2. WindowEnd' = WindowEnd
    BY <2>1 DEF WindowEnd
  <2>3. QED
    BY <2>1, <2>2 DEF SearchInv
<1>7. CASE \/ Start \/ PreCheck \/ Filter \/ Overrun \/ Kill \/ FindGiveUp
           \/ ReorderInPlace \/ MoveRefused \/ MoveDone \/ LineUp \/ ReorderDone
  <2>1. pc' \notin {"find", "check", "shift", "store"}
    BY <1>7
       DEF Start, PreCheck, PreCheckSkip, PreCheckOutlier, PreCheckKeep, PreCheckDone,
           Filter, FilterHole, FilterSchedStart, FilterLatency, FilterOther,
           BoundNext, BoundNone, BoundFound, FilterDone, Overrun, Kill, FindGiveUp,
           ReorderInPlace, MoveRefused, MoveDone, LineUp, ReorderDone
  <2>2. QED
    BY <2>1 DEF SearchInv
<1>8. QED
  BY <1>1, <1>2, <1>3, <1>4, <1>5, <1>6, <1>7 DEF Next, Step, Reorder, Find, Move

(***************************************************************************)
(* When the search of reorder ends with a record to move, no record within *)
(* the window is closer to the expected number: LOOK_AHEAD, the cut-off    *)
(* and 32 bits only have to satisfy SeqNoAssumption.                       *)
(***************************************************************************)
THEOREM ClosestTheorem == Spec => []ClosestChosen
<1>1. Init => SearchInv
  BY DEF Init, SearchInv
<1>2. Spec => [](TypeOK /\ Cursors /\ SearchInv)
  BY <1>1, InitTypes, NextTypes, NextKeepsSearch, PTL DEF Spec
<1>3. TypeOK /\ Cursors /\ SearchInv => ClosestChosen
  <2> SUFFICES ASSUME TypeOK, Cursors, SearchInv, pc \in {"check", "shift"}
               PROVE  /\ min \in pos .. WindowEnd
                      /\ pc = "check" /\ scan = pos =>
                           \A i \in pos .. WindowEnd :
                             in_range(Expected, mem[i].seq_no) =>
                               Dist(Expected, mem[min].seq_no) <= Dist(Expected, mem[i].seq_no)
    BY DEF ClosestChosen
  <2>1. min \in pos .. WindowEnd
    BY WindowInFile DEF TypeOK, Cursors, SearchInv
  <2>2. QED
    BY <2>1 DEF SearchInv, ClosestUpTo
<1>4. QED
  BY <1>2, <1>3, PTL

-----------------------------------------------------------------------------
(* The records of the file                                                 *)

\* r is a record of the trace, as it was recorded or marked.
IsRecorded(r) ==
    /\ r.id \in 1 .. count
    /\ r \in {recorded[r.id], [recorded[r.id] EXCEPT !.event = UINT8_MAX]}

\* The records of which a copy is in the file or, in the middle of a swap, in tmp.
Ids  == {mem[i].id : i \in 1 .. count}
Kept == Ids \cup (IF pc = "store" THEN {tmp.id} ELSE {})

(***************************************************************************)
(* While a swap is under way no record is lost yet: the one that the first *)
(* store replaced is in tmp, and the other one is in the file twice.  The  *)
(* loss is booked when the process is killed there.                        *)
(***************************************************************************)
FileInv ==
    /\ \A i \in 1 .. count : recorded[i].id = i
    /\ \A i \in 1 .. count : IsRecorded(mem[i])
    /\ pc = "store" => IsRecorded(tmp) /\ mem[scan] = mem[scan - 1]
    /\ Cardinality((1 .. count) \ Kept) <= kills

LEMMA LostFinite ==
    ASSUME TypeOK, NEW S \in SUBSET (1 .. count)
    PROVE  IsFiniteSet(S) /\ Cardinality(S) \in Nat
<1>1. count \in Int
  BY DEF TypeOK
<1>2. IsFiniteSet(1 .. count)
  BY <1>1, FS_Interval
<1>3. IsFiniteSet(S)
  BY <1>2, FS_Subset
<1>4. QED
  BY <1>3, FS_CardinalityType

\* What more is kept, no more is lost.
LEMMA KeepingMore ==
    ASSUME TypeOK, NEW S, NEW T, S \cap (1 .. count) \subseteq T
    PROVE  Cardinality((1 .. count) \ T) <= Cardinality((1 .. count) \ S)
<1>1. (1 .. count) \ T \in SUBSET ((1 .. count) \ S)
  OBVIOUS
<1>2. IsFiniteSet((1 .. count) \ S)
  BY LostFinite
<1>3. QED
  BY <1>1, <1>2, FS_Subset

\* A step that keeps the file and every copy.
LEMMA SameFile ==
    ASSUME TypeOK, FileInv, UNCHANGED <<file, kills>>, pc # "store", pc' # "store"
    PROVE  FileInv'
<1>1. Kept' = Kept
  BY DEF Kept, Ids, file
<1>2. QED
  BY <1>1 DEF FileInv, IsRecorded, file

LEMMA MarkKeepsFile ==
    ASSUME TypeOK, FileInv, NEW i \in 1 .. count, MarkAsBad(i),
           UNCHANGED <<recorded, count, kills>>, pc # "store", pc' # "store"
    PROVE  FileInv'
<1> DEFINE marked == [mem[i] EXCEPT !.event = UINT8_MAX]
<1>1. mem[i] \in Record /\ IsRecorded(mem[i])
  BY DEF TypeOK, FileInv
<1>2. recorded[mem[i].id] \in Record
  BY <1>1 DEF TypeOK, IsRecorded
<1>3. marked.id = mem[i].id
  BY <1>1 DEF Record
<1>4. marked = [recorded[mem[i].id] EXCEPT !.event = UINT8_MAX]
  BY <1>1, <1>2 DEF IsRecorded, Record
<1>5. mem' = [mem EXCEPT ![i] = marked]
  BY DEF MarkAsBad
<1> HIDE DEF marked
<1>6. \A k \in 1 .. count : mem'[k] = IF k = i THEN marked ELSE mem[k]
  BY <1>5 DEF TypeOK
<1>7. IsRecorded(marked)
  BY <1>1, <1>3, <1>4 DEF IsRecorded
<1>8. Kept' = Kept
  BY <1>3, <1>6 DEF Kept, Ids
<1>9. QED
  BY <1>6, <1>7, <1>8 DEF FileInv, IsRecorded

LEMMA SwapFirstKeepsFile ==
    ASSUME TypeOK, Cursors, FileInv, SwapFirst PROVE FileInv'
<1>1. /\ count \in Nat /\ scan \in 2 .. count /\ scan' = scan /\ tmp' = mem[scan]
      /\ kills' = kills /\ pc = "shift" /\ pc' = "store" /\ recorded' = recorded /\ count' = count
  BY DEF SwapFirst, TypeOK, Cursors, history
<1>2. \A k \in 1 .. count : mem'[k] = IF k = scan THEN mem[scan - 1] ELSE mem[k]
  BY DEF SwapFirst, TypeOK
<1>3. Kept \subseteq Kept'
  <2> SUFFICES ASSUME NEW k \in 1 .. count PROVE mem[k].id \in Kept'
    BY <1>1 DEF Kept, Ids
  <2>1. CASE k = scan
    BY <1>1, <2>1 DEF Kept
  <2>2. CASE k # scan
    BY <1>1, <1>2, <2>2 DEF Kept, Ids
  <2>3. QED
    BY <2>1, <2>2
<1>4. Cardinality((1 .. count) \ Kept') <= kills
  <2>1. Cardinality((1 .. count) \ Kept') <= Cardinality((1 .. count) \ Kept)
    BY <1>3, KeepingMore
  <2>2. Cardinality((1 .. count) \ Kept) <= kills
    BY DEF FileInv
  <2>3. /\ Cardinality((1 .. count) \ Kept) \in Nat /\ kills \in Nat
        /\ Cardinality((1 .. count) \ Kept') \in Nat
    BY FtSortAssumption, LostFinite DEF TypeOK
  <2>4. QED
    BY <2>1, <2>2, <2>3
<1>5. \A k \in 1 .. count : IsRecorded(mem[k])
  BY DEF FileInv
<1>6. IsRecorded(mem[scan]) /\ \A k \in 1 .. count : IsRecorded(mem'[k])
  <2>1. scan \in 1 .. count /\ scan - 1 \in 1 .. count
    BY <1>1
  <2>2. IsRecorded(mem[scan]) /\ IsRecorded(mem[scan - 1])
    BY <1>5, <2>1
  <2>3. QED
    BY <1>2, <1>5, <2>2
<1>7. mem'[scan] = mem'[scan - 1]
  <2>1. scan \in 1 .. count /\ scan - 1 \in 1 .. count /\ scan - 1 # scan
    BY <1>1
  <2>2. QED
    BY <1>2, <2>1
<1>8. QED
  BY <1>1, <1>4, <1>6, <1>7 DEF FileInv, IsRecorded

LEMMA SwapSecondKeepsFile ==
    ASSUME TypeOK, Cursors, FileInv, SwapSecond PROVE FileInv'
<1>1. /\ count \in Nat /\ scan \in 2 .. count /\ kills' = kills /\ pc = "store" /\ pc' = "shift"
      /\ recorded' = recorded /\ count' = count
  BY DEF SwapSecond, TypeOK, Cursors, history
<1>2. \A k \in 1 .. count : mem'[k] = IF k = scan - 1 THEN tmp ELSE mem[k]
  BY DEF SwapSecond, TypeOK
<1>3. IsRecorded(tmp) /\ mem[scan] = mem[scan - 1]
  BY <1>1 DEF FileInv
<1>4. Kept \subseteq Kept'
  <2>1. tmp.id \in Ids'
    <3>1. scan - 1 \in 1 .. count
      BY <1>1
    <3>2. mem'[scan - 1] = tmp
      BY <1>2, <3>1
    <3>3. Ids' = {mem'[k].id : k \in 1 .. count}
      BY <1>1 DEF Ids
    <3>4. QED
      BY <3>1, <3>2, <3>3
  <2>2. ASSUME NEW k \in 1 .. count PROVE mem[k].id \in Ids'
    <3>1. CASE k = scan - 1
      <4>1. mem'[scan] = mem[k]
        BY <1>1, <1>2, <1>3, <3>1
      <4>2. QED
        BY <1>1, <4>1 DEF Ids
    <3>2. CASE k # scan - 1
      BY <1>1, <1>2, <3>2 DEF Ids
    <3>3. QED
      BY <3>1, <3>2
  <2>3. QED
    BY <2>1, <2>2 DEF Kept, Ids
<1>5. Cardinality((1 .. count) \ Kept') <= kills
  <2>1. Cardinality((1 .. count) \ Kept') <= Cardinality((1 .. count) \ Kept)
    BY <1>4, KeepingMore
  <2>2. Cardinality((1 .. count) \ Kept) <= kills
    BY DEF FileInv
  <2>3. /\ Cardinality((1 .. count) \ Kept) \in Nat /\ kills \in Nat
        /\ Cardinality((1 .. count) \ Kept') \in Nat
    BY FtSortAssumption, LostFinite DEF TypeOK
  <2>4. QED
    BY <2>1, <2>2, <2>3
<1>6. QED
  BY <1>1, <1>2, <1>3, <1>5 DEF FileInv, IsRecorded

\* The record in tmp is at most one more than the file lacks.
LEMMA LostInSwap ==
    ASSUME TypeOK, FileInv
    PROVE  Cardinality(Lost) <= kills + (IF pc = "store" THEN 1 ELSE 0)
<1> DEFINE missing == (1 .. count) \ Kept
<1>1. IsFiniteSet(missing) /\ Cardinality(missing) \in Nat /\ Cardinality(missing) <= kills
  BY LostFinite DEF FileInv
<1>2. Cardinality(Lost) \in Nat
  BY LostFinite DEF Lost
<1>3. CASE pc = "store"
  <2>1. Lost \in SUBSET (missing \cup {tmp.id})
    BY <1>3 DEF Lost, Kept, Ids
  <2> HIDE DEF missing
  <2>2. /\ IsFiniteSet(missing \cup {tmp.id})
        /\ Cardinality(missing \cup {tmp.id}) \in {Cardinality(missing), Cardinality(missing) + 1}
    BY <1>1, FS_AddElement
  <2>3. Cardinality(Lost) <= Cardinality(missing \cup {tmp.id})
    BY <2>1, <2>2, FS_Subset
  <2>4. QED
    BY <1>1, <1>2, <1>3, <2>2, <2>3 DEF TypeOK
<1>4. CASE pc # "store"
  <2>1. Lost = missing
    BY <1>4 DEF Lost, Kept, Ids
  <2>2. QED
    BY <1>1, <1>4, <2>1 DEF TypeOK
<1>5. QED
  BY <1>3, <1>4

LEMMA KillKeepsFile ==
    ASSUME TypeOK, FileInv, Kill PROVE FileInv'
<1>1. pc' = "killed" /\ kills' = kills + 1 /\ UNCHANGED file
  BY DEF Kill
<1>2. Kept' = Ids
  BY <1>1 DEF Kept, Ids, file
<1>3. (1 .. count) \ Ids = Lost
  BY DEF Ids, Lost
<1>4. Cardinality(Lost) <= kills + 1
  <2>1. Cardinality(Lost) \in Nat /\ kills \in Nat
    BY LostFinite DEF Lost, TypeOK
  <2>2. Cardinality(Lost) <= kills + (IF pc = "store" THEN 1 ELSE 0)
    BY LostInSwap
  <2> DEFINE lost == Cardinality(Lost)
  <2> HIDE DEF lost
  <2>3. lost \in Nat /\ (lost <= kills \/ lost <= kills + 1)
    BY <2>1, <2>2 DEF lost
  <2>4. lost <= kills + 1
    BY <2>1, <2>3
  <2>5. QED
    BY <2>4 DEF lost
<1>5. QED
  BY <1>1, <1>2, <1>3, <1>4 DEF FileInv, IsRecorded, file

LEMMA NextKeepsFile ==
    ASSUME TypeOK, Cursors, FileInv, [Next]_vars PROVE FileInv'
<1>1. CASE PreCheckOutlier
  <2>1. pos_on[mem[pos].cpu] \in 1 .. count
    BY <1>1 DEF PreCheckOutlier, Outlier, TypeOK
  <2>2. QED
    BY <1>1, <2>1, MarkKeepsFile DEF PreCheckOutlier, history
<1>2. CASE BoundFound
  <2>1. pos \in 1 .. count
    BY <1>2 DEF BoundFound, TypeOK, Cursors
  <2>2. CASE Implausible(scan)
    BY <1>2, <2>1, <2>2, MarkKeepsFile DEF BoundFound, history
  <2>3. CASE ~Implausible(scan)
    BY <1>2, <2>3, SameFile DEF BoundFound, file, history
  <2>4. QED
    BY <2>2, <2>3
<1>3. CASE SwapFirst
  BY <1>3, SwapFirstKeepsFile
<1>4. CASE SwapSecond
  BY <1>4, SwapSecondKeepsFile
<1>5. CASE Kill
  BY <1>5, KillKeepsFile
<1>6. CASE Start \/ PreCheckSkip \/ PreCheckKeep \/ PreCheckDone \/ Overrun
  BY <1>6, SameFile
     DEF Start, PreCheckSkip, PreCheckKeep, PreCheckDone, Overrun, Stopped, history
<1>7. CASE \/ ReorderInPlace \/ ReorderSearch \/ Find \/ LineUp \/ ReorderDone
           \/ MoveRefused \/ MovePasses \/ MoveBegins \/ MoveDone
  BY <1>7, SameFile
     DEF ReorderInPlace, ReorderSearch, Find, FindCandidate, FindNotInRange, FindGiveUp,
         FindDone, LineUp, ReorderDone, MoveRefused, MovePasses, MoveBegins, MoveDone,
         history
<1>8. CASE \/ FilterHole \/ FilterSchedStart \/ FilterLatency \/ FilterOther
           \/ BoundNext \/ BoundNone \/ FilterDone
  BY <1>8, SameFile
     DEF FilterHole, FilterSchedStart, FilterLatency, FilterOther, BoundNext, BoundNone,
         FilterDone, history
<1>9. CASE UNCHANGED vars
  BY <1>9 DEF FileInv, IsRecorded, Kept, Ids, vars, file, history
<1>10. QED
  BY <1>1, <1>2, <1>3, <1>4, <1>5, <1>6, <1>7, <1>8, <1>9
     DEF Next, Step, PreCheck, Reorder, Move, Filter

LEMMA InitFile == Init => FileInv
<1> SUFFICES ASSUME Init PROVE FileInv
  OBVIOUS
<1>1. recorded \in Seq(Record) /\ \A i \in DOMAIN recorded : recorded[i].id = i
  BY FtSortAssumption DEF Init
<1>2. DOMAIN recorded = 1 .. count /\ mem = recorded /\ pc = "idle" /\ kills = 0
  BY <1>1 DEF Init
<1>3. \A i \in 1 .. count : recorded[i].id = i /\ mem[i].id = i
  BY <1>1, <1>2
<1>4. (1 .. count) \ Kept = {}
  BY <1>3 DEF Kept, Ids
<1>5. Cardinality((1 .. count) \ Kept) = 0
  BY <1>4, FS_EmptySet
<1>6. QED
  BY <1>2, <1>3, <1>5 DEF FileInv, IsRecorded

(***************************************************************************)
(* Wherever runs of ftsort are killed, and however often, the file holds   *)
(* what the tracer recorded, up to marks, and lacks at most one record per *)
(* kill, plus the one that a swap under way holds in memory.               *)
(***************************************************************************)
THEOREM FileTheorem == Spec => []FileIsRecording
<1>1. Spec => [](TypeOK /\ Cursors /\ FileInv)
  BY InitTypes, NextTypes, InitFile, NextKeepsFile, PTL DEF Spec
<1>2. TypeOK /\ FileInv => FileIsRecording
  BY LostInSwap DEF FileInv, IsRecorded, FileIsRecording
<1>3. QED
  BY <1>1, <1>2, PTL

-----------------------------------------------------------------------------
(* The evidence against a latency                                          *)

(***************************************************************************)
(* What the table of the filter holds of a CPU is the time of a scheduler  *)
(* record of that CPU that lies before the cursor, with no hole in between;*)
(* the search for the upper bound starts at a latency and meets no hole.   *)
(***************************************************************************)
NoHole(a, b) == \A k \in (a + 1) .. b : FollowsOn(k)

SchedStartOf(a, c) ==
    /\ mem[a].cpu = c /\ mem[a].event = TS_SCHED_START
    /\ mem[a].timestamp = last_preemptable[c] /\ NoHole(a, pos)

FilterInv ==
    /\ pc \in {"filter", "bound"} =>
         \A c \in Cpus : last_preemptable[c] # NoTime =>
           \E a \in 1 .. (pos - 1) : a < count /\ SchedStartOf(a, c)
    /\ pc = "bound" =>
         /\ pos < count /\ mem[pos].event = TS_RELEASE_LATENCY /\ mem[pos].cpu \in Cpus
         /\ last_preemptable[mem[pos].cpu] # NoTime
         /\ NoHole(pos, pos + 1) /\ NoHole(pos, scan - 1)

\* The filter goes on to the next record, the table being what it was.
LEMMA FilterGoesOn ==
    ASSUME TypeOK, FilterInv, pc \in {"filter", "bound"}, pc' = "filter", pos < count,
           FollowsOn(pos + 1), pos' = pos + 1, UNCHANGED <<count, last_preemptable>>,
           NEW i \in 1 .. count, i >= pos,
           \A k \in 1 .. count : /\ mem'[k].seq_no = mem[k].seq_no
                                 /\ k # i => mem'[k] = mem[k]
    PROVE  FilterInv'
<1>1. pos \in 1 .. count /\ count \in Nat /\ pos - 1 \in Nat
  BY DEF TypeOK
<1>2. SUFFICES ASSUME NEW c \in Cpus, last_preemptable[c] # NoTime
               PROVE  \E a \in 1 .. pos : a < count /\ SchedStartOf(a, c)'
  BY <1>1 DEF FilterInv
<1>3. PICK a \in 1 .. (pos - 1) : a < count /\ SchedStartOf(a, c)
  BY <1>2 DEF FilterInv
<1>4. mem'[a] = mem[a]
  BY <1>1, <1>3
<1>5. NoHole(a, pos + 1)
  BY <1>1, <1>3 DEF SchedStartOf, NoHole
<1>6. NoHole(a, pos)'
  BY <1>1, <1>3, <1>5 DEF NoHole, FollowsOn
<1>7. QED
  BY <1>1, <1>3, <1>4, <1>6 DEF SchedStartOf

LEMMA FilterSchedStartKeeps ==
    ASSUME TypeOK, FilterInv, FilterSchedStart PROVE FilterInv'
<1>1. /\ pos \in 1 .. count /\ count \in Nat /\ pos < count /\ FollowsOn(pos + 1)
      /\ pc' = "filter" /\ pos' = pos + 1 /\ mem' = mem /\ count' = count /\ pc = "filter"
      /\ mem[pos].event = TS_SCHED_START
  BY DEF FilterSchedStart, TypeOK, file
<1>2. \A c \in Cpus : last_preemptable'[c] =
        IF c = mem[pos].cpu THEN mem[pos].timestamp ELSE last_preemptable[c]
  BY DEF FilterSchedStart, TypeOK
<1>3. SUFFICES ASSUME NEW c \in Cpus, last_preemptable'[c] # NoTime
               PROVE  \E a \in 1 .. pos : a < count /\ SchedStartOf(a, c)'
  BY <1>1 DEF FilterInv
<1>4. CASE c = mem[pos].cpu
  <2>1. PICK a \in 1 .. pos : a = pos
    BY <1>1
  <2>2. SchedStartOf(a, c)'
    BY <1>1, <1>2, <1>4, <2>1 DEF SchedStartOf, NoHole, FollowsOn
  <2>3. QED
    BY <1>1, <2>1, <2>2
<1>5. CASE c # mem[pos].cpu
  <2>1. last_preemptable'[c] = last_preemptable[c]
    BY <1>2, <1>5
  <2>2. PICK a \in 1 .. (pos - 1) : a < count /\ SchedStartOf(a, c)
    BY <1>1, <1>3, <2>1 DEF FilterInv
  <2>3. NoHole(a, pos + 1)
    BY <1>1, <2>2 DEF SchedStartOf, NoHole
  <2>4. SchedStartOf(a, c)'
    BY <1>1, <2>1, <2>2, <2>3 DEF SchedStartOf, NoHole, FollowsOn
  <2>5. QED
    BY <1>1, <2>2, <2>4
<1>6. QED
  BY <1>4, <1>5

\* The record that follows a latency, and every one the search has looked at,
\* follows on.
LEMMA FilterSearchKeeps ==
    ASSUME TypeOK, Cursors, FilterInv, FilterLatency \/ BoundNext PROVE FilterInv'
<1>1. /\ UNCHANGED <<mem, count, pos, last_preemptable>> /\ pc \in {"filter", "bound"}
      /\ pos \in 1 .. count /\ count \in Nat /\ scan \in Nat
  BY DEF FilterLatency, BoundNext, TypeOK, Cursors, file, tables
<1>2. \A c \in Cpus : last_preemptable'[c] # NoTime =>
        \E a \in 1 .. (pos' - 1) : a < count' /\ SchedStartOf(a, c)'
  BY <1>1 DEF FilterInv, SchedStartOf, NoHole, FollowsOn
<1>3. CASE FilterLatency
  <2>1. FollowsOn(pos + 1) /\ scan' = pos + 1
    BY <1>3 DEF FilterLatency
  <2>2. NoHole(pos, pos + 1) /\ NoHole(pos, scan' - 1)
    BY <1>1, <2>1 DEF NoHole
  <2>3. QED
    BY <1>1, <1>2, <1>3, <2>2 DEF FilterInv, FilterLatency, NoHole, FollowsOn
<1>4. CASE BoundNext
  <2>1. FollowsOn(scan) /\ scan' = scan + 1 /\ pc = "bound"
    BY <1>4 DEF BoundNext, NoHoleYet
  <2>2. NoHole(pos, scan' - 1)
    BY <1>1, <2>1 DEF NoHole, FilterInv
  <2>3. QED
    BY <1>1, <1>2, <2>1, <2>2 DEF FilterInv, NoHole, FollowsOn
<1>5. QED
  BY <1>3, <1>4

LEMMA NextKeepsFilter ==
    ASSUME TypeOK, Cursors, FilterInv, [Next]_vars PROVE FilterInv'
<1>1. CASE FilterSchedStart
  BY <1>1, FilterSchedStartKeeps
<1>2. CASE FilterLatency \/ BoundNext
  BY <1>2, FilterSearchKeeps
<1>3. CASE FilterOther
  <2>1. /\ pc = "filter" /\ pc' = "filter" /\ pos < count /\ FollowsOn(pos + 1)
        /\ pos' = pos + 1 /\ pos \in 1 .. count
        /\ UNCHANGED <<count, last_preemptable>> /\ mem' = mem
    BY <1>3 DEF FilterOther, TypeOK, file, tables
  <2>2. QED
    BY <2>1, FilterGoesOn
<1>4. CASE BoundNone \/ BoundFound
  <2>1. /\ pc = "bound" /\ pc' = "filter" /\ pos' = pos + 1 /\ pos \in 1 .. count
        /\ UNCHANGED <<count, last_preemptable>>
    BY <1>4 DEF BoundNone, BoundFound, TypeOK, Cursors, file, tables
  <2>2. pos < count /\ FollowsOn(pos + 1)
    BY <2>1 DEF FilterInv, NoHole
  <2>3. mem' = mem \/ MarkAsBad(pos)
    BY <1>4 DEF BoundNone, BoundFound, file
  <2>4. \A k \in 1 .. count : /\ mem'[k].seq_no = mem[k].seq_no
                              /\ k # pos => mem'[k] = mem[k]
    <3>1. mem[pos] \in Record
      BY <2>1 DEF TypeOK
    <3>2. [mem[pos] EXCEPT !.event = UINT8_MAX].seq_no = mem[pos].seq_no
      BY <3>1 DEF Record
    <3>3. QED
      BY <2>1, <2>3, <3>2 DEF MarkAsBad, TypeOK
  <2>5. QED
    BY <2>1, <2>2, <2>4, FilterGoesOn
<1>5. CASE FilterHole \/ ReorderDone
  BY <1>5 DEF FilterHole, ReorderDone, FilterInv, NoTime
<1>6. CASE \/ Start \/ PreCheck \/ ReorderInPlace \/ ReorderSearch \/ Find \/ Move
           \/ LineUp \/ FilterDone \/ Overrun \/ Kill
  <2>1. pc' \notin {"filter", "bound"}
    BY <1>6
       DEF Start, PreCheck, PreCheckSkip, PreCheckOutlier, PreCheckKeep, PreCheckDone,
           ReorderInPlace, ReorderSearch, Find, FindCandidate, FindNotInRange, FindGiveUp,
           FindDone, Move, MoveRefused, MovePasses, MoveBegins, SwapFirst, SwapSecond,
           MoveDone, LineUp, FilterDone, Overrun, Kill
  <2>2. QED
    BY <2>1 DEF FilterInv
<1>7. CASE UNCHANGED vars
  BY <1>7 DEF FilterInv, SchedStartOf, NoHole, FollowsOn, vars, file, tables
<1>8. QED
  BY <1>1, <1>2, <1>3, <1>4, <1>5, <1>6, <1>7 DEF Next, Step, Reorder, Filter

\* Only BoundFound marks a latency, and it has found the evidence.
LEMMA MarkedOnEvidence ==
    ASSUME TypeOK, Cursors, FilterInv, Next, pc = "bound", NEW i \in 1 .. count,
           mem[i].event = TS_RELEASE_LATENCY, mem'[i].event # TS_RELEASE_LATENCY
    PROVE  Evidence(i)
<1>1. BoundFound /\ Implausible(scan)
  BY DEF Next, Step, Start, Stopped, PreCheck, PreCheckSkip, PreCheckOutlier, PreCheckKeep,
         PreCheckDone, Reorder, ReorderInPlace, ReorderSearch, Find, FindCandidate,
         FindNotInRange, FindGiveUp, FindDone, Move, MoveRefused, MovePasses, MoveBegins,
         SwapFirst, SwapSecond, MoveDone, LineUp, ReorderDone, Filter, FilterHole,
         FilterSchedStart, FilterLatency, FilterOther, BoundNext, BoundNone, BoundFound,
         FilterDone, Overrun, Kill, file
<1>2. i = pos
  BY <1>1 DEF BoundFound, MarkAsBad, TypeOK
<1>3. /\ scan \in 1 .. count /\ FollowsOn(scan) /\ IsNpBound(scan) /\ pos < scan
      /\ pos \in 1 .. count /\ count \in Nat
  BY <1>1 DEF BoundFound, NoHoleYet, TypeOK, Cursors
<1>4. PICK a \in 1 .. (pos - 1) : SchedStartOf(a, mem[pos].cpu)
  BY <1>3 DEF FilterInv
<1>5. \A k \in (a + 1) .. scan : FollowsOn(k)
  BY <1>3, <1>4 DEF FilterInv, SchedStartOf, NoHole
<1>6. mem[scan].timestamp - mem[a].timestamp < mem[pos].timestamp * Cycles
  BY <1>1, <1>4 DEF Implausible, SchedStartOf
<1>7. QED
  BY <1>2, <1>3, <1>4, <1>5, <1>6 DEF Evidence, SchedStartOf, IsNpBound

(***************************************************************************)
(* filter_implausible_latencies drops a latency only because of a scheduler*)
(* record before it and a scheduler or release record after it on its CPU, *)
(* with no record missing in between, that leave less time than it claims. *)
(***************************************************************************)
THEOREM EvidenceTheorem == Spec => ImplausibleOnEvidence
<1>1. Init => FilterInv
  BY DEF Init, FilterInv
<1>2. TypeOK /\ Cursors /\ FilterInv /\ [Next]_vars =>
        [\A i \in 1 .. count :
           mem[i].event = TS_RELEASE_LATENCY /\ mem'[i].event # TS_RELEASE_LATENCY
           /\ pc = "bound" => Evidence(i)]_vars
  BY MarkedOnEvidence
<1>3. Spec => [](TypeOK /\ Cursors /\ FilterInv)
  BY <1>1, InitTypes, NextTypes, NextKeepsFilter, PTL DEF Spec
<1>4. QED
  BY <1>2, <1>3, PTL DEF Spec, ImplausibleOnEvidence

-----------------------------------------------------------------------------
(* The holes                                                               *)

(***************************************************************************)
(* The count grows with the cursor of reorder: it is right for the part of *)
(* the file before it, of which last_seqno is the last number.             *)
(***************************************************************************)
Moving == {"find", "check", "shift", "store", "lineup"}

HolesInv ==
    /\ pc = "precheck" => stats.holes = 0
    /\ pc \in {"reorder"} \cup Moving =>
         /\ stats.holes = HolesBefore(pos - 1)
         /\ pos > 1 => last_seqno = mem[pos - 1].seq_no
    /\ pc \in Moving => pos > 1
    /\ pc \in {"filter", "bound", "done"} => stats.holes = HolesBefore(count)

LEMMA NoHolesYet == \A n \in {0, 1} : HolesBefore(n) = 0
<1> SUFFICES ASSUME NEW n \in {0, 1} PROVE HolesBefore(n) = 0
  OBVIOUS
<1>1. {i \in 2 .. n : ~FollowsOn(i)} = {}
  OBVIOUS
<1>2. QED
  BY <1>1, FS_EmptySet DEF HolesBefore

\* One more record: one more hole, or none if it follows on.
LEMMA HolesStep ==
    ASSUME NEW n \in Nat, n >= 2
    PROVE  /\ HolesBefore(n - 1) \in Nat
           /\ HolesBefore(n) = HolesBefore(n - 1) + (IF FollowsOn(n) THEN 0 ELSE 1)
<1> DEFINE H(m) == {i \in 2 .. m : ~FollowsOn(i)}
<1>1. IsFiniteSet(H(n - 1)) /\ Cardinality(H(n - 1)) \in Nat
  <2>1. IsFiniteSet(2 .. (n - 1))
    BY FS_Interval
  <2>2. H(n - 1) \in SUBSET (2 .. (n - 1))
    OBVIOUS
  <2>3. QED
    BY <2>1, <2>2, FS_Subset, FS_CardinalityType
<1>2. HolesBefore(n) = Cardinality(H(n)) /\ HolesBefore(n - 1) = Cardinality(H(n - 1))
  BY DEF HolesBefore
<1>3. CASE FollowsOn(n)
  <2>1. H(n) = H(n - 1)
    BY <1>3
  <2> HIDE DEF H
  <2>2. QED
    BY <1>1, <1>3, <1>2, <2>1
<1>4. CASE ~FollowsOn(n)
  <2>1. H(n) = H(n - 1) \cup {n}
    <3>1. 2 .. n = (2 .. (n - 1)) \cup {n}
      OBVIOUS
    <3>2. QED
      BY <1>4, <3>1
  <2>2. n \notin H(n - 1)
    OBVIOUS
  <2> HIDE DEF H
  <2>3. Cardinality(H(n)) = Cardinality(H(n - 1)) + 1
    BY <1>1, <2>1, <2>2, FS_AddElement
  <2>4. QED
    BY <1>1, <1>4, <1>2, <2>3
<1>5. QED
  BY <1>3, <1>4

\* The number of holes in a part of the file depends on its sequence numbers only.
LEMMA SameHoles ==
    ASSUME NEW n \in Int, \A i \in 1 .. n : mem'[i].seq_no = mem[i].seq_no
    PROVE  HolesBefore(n)' = HolesBefore(n)
<1>1. \A i \in 2 .. n : FollowsOn(i)' <=> FollowsOn(i)
  BY DEF FollowsOn
<1>2. {i \in 2 .. n : ~FollowsOn(i)'} = {i \in 2 .. n : ~FollowsOn(i)}
  BY <1>1
<1>3. QED
  BY <1>2 DEF HolesBefore

\* A step between two records leaves the count as it is.
LEMMA HolesKept ==
    ASSUME TypeOK, HolesInv, pc \in {"reorder"} \cup Moving, pc' \in Moving, pos > 1,
           UNCHANGED <<count, pos, last_seqno>>, stats'.holes = stats.holes,
           \A i \in 1 .. count : i < pos => mem'[i] = mem[i]
    PROVE  HolesInv'
<1>1. pos \in Nat /\ count \in Nat /\ pos <= count + 1
  BY DEF TypeOK
<1>2. PICK n \in Int : n = pos - 1
  BY <1>1
<1>3. \A i \in 1 .. n : mem'[i].seq_no = mem[i].seq_no
  BY <1>1, <1>2
<1>4. HolesBefore(n)' = HolesBefore(n)
  BY <1>3, SameHoles
<1>5. stats'.holes = HolesBefore(n)'
  BY <1>2, <1>4 DEF HolesInv
<1>6. stats'.holes = HolesBefore(pos - 1)'
  BY <1>2, <1>5 DEF HolesBefore, FollowsOn
<1>7. last_seqno' = mem'[pos' - 1].seq_no
  BY <1>1 DEF HolesInv
<1>8. QED
  BY <1>6, <1>7 DEF HolesInv, Moving

\* The cursor passes a record: a hole is counted if it does not follow on.
LEMMA HolesPassed ==
    ASSUME TypeOK, HolesInv, pc \in {"reorder"} \cup Moving, pc' = "reorder", pos <= count,
           UNCHANGED file, pos' = pos + 1, last_seqno' = mem[pos].seq_no,
           stats'.holes = stats.holes + (IF pos = 1 \/ FollowsOn(pos) THEN 0 ELSE 1)
    PROVE  HolesInv'
<1>1. pos \in Nat \ {0}
  BY DEF TypeOK
<1>2. stats'.holes = HolesBefore(pos)
  <2>1. CASE pos = 1
    BY <2>1, NoHolesYet DEF HolesInv, TypeOK
  <2>2. CASE pos # 1
    BY <1>1, <2>2, HolesStep DEF HolesInv
  <2>3. QED
    BY <2>1, <2>2
<1>3. PICK n \in Int : n = pos
  BY <1>1
<1>4. HolesBefore(n)' = HolesBefore(n)
  BY SameHoles DEF file
<1>5. stats'.holes = HolesBefore(pos - 1)'
  BY <1>1, <1>2, <1>3, <1>4 DEF HolesBefore, FollowsOn
<1>6. QED
  BY <1>1, <1>5 DEF HolesInv, Moving, file

LEMMA NextKeepsHoles ==
    ASSUME TypeOK, Cursors, HolesInv, [Next]_vars PROVE HolesInv'
<1>1. CASE ReorderInPlace
  <2>1. pos = 1 \/ FollowsOn(pos)
    BY <1>1 DEF ReorderInPlace, HolesInv, FollowsOn, Expected, TypeOK
  <2>2. stats'.holes = stats.holes + 0
    BY <1>1 DEF ReorderInPlace, TypeOK
  <2>3. QED
    BY <1>1, <2>1, <2>2, HolesPassed DEF ReorderInPlace
<1>2. CASE LineUp
  <2>1. pos > 1 /\ pos <= count
    BY <1>2 DEF LineUp, HolesInv, Moving, Cursors
  <2>2. FollowsOn(pos) <=> mem[pos].seq_no = Expected
    BY <1>2, <2>1 DEF LineUp, HolesInv, Moving, FollowsOn, Expected
  <2>3. stats'.holes = stats.holes + (IF FollowsOn(pos) THEN 0 ELSE 1)
    BY <1>2, <2>2 DEF LineUp, Bump, TypeOK
  <2>4. QED
    BY <1>2, <2>1, <2>3, HolesPassed DEF LineUp, Moving, TypeOK
<1>3. CASE ReorderSearch \/ Find \/ Move
  <2>1. \A i \in 1 .. count : i < pos => mem'[i] = mem[i]
    BY <1>3, StepFreezesPrefix
       DEF Next, Step, Reorder, ReorderSearch, Find, FindCandidate, FindNotInRange,
           FindGiveUp, FindDone, Move, MoveRefused, MovePasses, MoveBegins, SwapFirst,
           SwapSecond, MoveDone
  <2>2. /\ pc \in {"reorder"} \cup Moving /\ pc' \in Moving /\ pos > 1
        /\ UNCHANGED <<count, pos, last_seqno>>
    BY <1>3 DEF ReorderSearch, Find, FindCandidate, FindNotInRange, FindGiveUp, FindDone,
                Move, MoveRefused, MovePasses, MoveBegins, SwapFirst, SwapSecond, MoveDone,
                Moving, HolesInv, TypeOK, file
  <2>3. stats'.holes = stats.holes
    BY <1>3 DEF ReorderSearch, Find, FindCandidate, FindNotInRange, FindGiveUp, FindDone,
                Move, MoveRefused, MovePasses, MoveBegins, SwapFirst, SwapSecond, MoveDone,
                Bump, TypeOK
  <2>4. QED
    BY <2>1, <2>2, <2>3, HolesKept
<1>4. CASE ReorderDone
  <2>1. /\ pc' \in {"filter", "done"} /\ UNCHANGED <<mem, count, stats>>
        /\ stats.holes = HolesBefore(count)
    BY <1>4 DEF ReorderDone, HolesInv, TypeOK, file
  <2>2. stats'.holes = HolesBefore(count)'
    BY <2>1 DEF HolesBefore, FollowsOn
  <2>3. QED
    BY <2>1, <2>2 DEF HolesInv, Moving
<1>5. CASE Filter
  <2>1. /\ pc \in {"filter", "bound"} /\ pc' \in {"filter", "bound", "done"}
        /\ count' = count /\ stats'.holes = stats.holes
    BY <1>5 DEF Filter, FilterHole, FilterSchedStart, FilterLatency, FilterOther, BoundNext,
                BoundNone, BoundFound, FilterDone, Bump, TypeOK, file
  <2>2. mem' = mem \/ (pos \in 1 .. count /\ MarkAsBad(pos))
    BY <1>5 DEF Filter, FilterHole, FilterSchedStart, FilterLatency, FilterOther, BoundNext,
                BoundNone, BoundFound, FilterDone, TypeOK, Cursors, file
  <2>3. \A i \in 1 .. count : mem'[i].seq_no = mem[i].seq_no
    <3>1. mem \in [1 .. count -> Record]
      BY DEF TypeOK
    <3>2. QED
      BY <2>2, <3>1, ZenonT(60) DEF MarkAsBad, Record
  <2>4. PICK n \in Int : n = count
    BY DEF TypeOK
  <2>5. HolesBefore(n)' = HolesBefore(n)
    BY <2>3, <2>4, SameHoles
  <2>6. stats'.holes = HolesBefore(count)'
    BY <2>1, <2>4, <2>5 DEF HolesInv, HolesBefore, FollowsOn
  <2>7. QED
    BY <2>1, <2>6 DEF HolesInv, Moving
<1>6. CASE PreCheckDone
  <2>1. stats'.holes = 0 /\ pos' = 1 /\ pc' = "reorder"
    BY <1>6 DEF PreCheckDone, HolesInv
  <2>2. HolesBefore(pos - 1)' = 0
    BY <2>1, NoHolesYet, FS_EmptySet DEF HolesBefore
  <2>3. QED
    BY <2>1, <2>2 DEF HolesInv, Moving
<1>7. CASE Start \/ PreCheckSkip \/ PreCheckOutlier \/ PreCheckKeep
  <2>1. pc' = "precheck" /\ stats'.holes = 0
    BY <1>7 DEF Start, NoStats, PreCheckSkip, PreCheckOutlier, PreCheckKeep, HolesInv,
                Bump, TypeOK
  <2>2. QED
    BY <2>1 DEF HolesInv, Moving
<1>8. CASE Overrun \/ Kill
  BY <1>8 DEF Overrun, Kill, HolesInv, Moving
<1>9. CASE UNCHANGED vars
  BY <1>9 DEF HolesInv, HolesBefore, FollowsOn, vars, file, finder, history
<1>10. QED
  BY <1>1, <1>2, <1>3, <1>4, <1>5, <1>6, <1>7, <1>8, <1>9
     DEF Next, Step, PreCheck, Reorder

(***************************************************************************)
(* The hole count that ftsort reports is that of the file it leaves, for   *)
(* every file and every run: what is counted at the cursor stays true when *)
(* later records are moved and latencies are marked.                       *)
(***************************************************************************)
THEOREM HolesTheorem == Spec => []HolesCounted
<1>1. Init => HolesInv
  BY DEF Init, HolesInv, Moving
<1>2. Spec => [](TypeOK /\ Cursors /\ HolesInv)
  BY <1>1, InitTypes, NextTypes, NextKeepsHoles, PTL DEF Spec
<1>3. HolesInv => HolesCounted
  BY DEF HolesInv, HolesCounted
<1>4. QED
  BY <1>2, <1>3, PTL

-----------------------------------------------------------------------------
(* The pre-check: it keeps two positions per CPU, and marks the outliers. *)

\* The records that the pre-check looks at, by CPU.
CheckedOn(i, c) == Checked(recorded[i]) /\ recorded[i].cpu = c

(***************************************************************************)
(* pos_on is the last record seen of a CPU, which is not marked; prev_on   *)
(* the last unmarked one before it.  A record that is no longer the last   *)
(* of its CPU has been judged for good.                                    *)
(***************************************************************************)
Latest(c) ==
    /\ \A i \in 1 .. (pos - 1) : CheckedOn(i, c) => i <= pos_on[c]
    /\ pos_on[c] # 0 => pos_on[c] < pos /\ CheckedOn(pos_on[c], c) /\ ~Marked(pos_on[c])
    /\ prev_on[c] # 0 =>
         prev_on[c] < pos_on[c] /\ CheckedOn(prev_on[c], c) /\ ~Marked(prev_on[c])
    /\ \A i \in 1 .. (pos - 1) :
         CheckedOn(i, c) /\ prev_on[c] < i /\ i < pos_on[c] => Marked(i)

Judged(c) ==
    \A b \in 1 .. (pos - 1) :
      CheckedOn(b, c) /\ b < pos_on[c] => (Marked(b) <=> IsOutlier(b))

Untouched == \A i \in 1 .. count : i >= pos \/ ~Checked(recorded[i]) => mem[i] = recorded[i]

SameData ==
    \A i \in 1 .. count :
      /\ mem[i].cpu = recorded[i].cpu /\ mem[i].timestamp = recorded[i].timestamp
      /\ Marked(i) \/ mem[i] = recorded[i]

WithSlot == \A i \in 1 .. (pos - 1) : Checked(recorded[i]) => recorded[i].cpu \in Cpus

\* Whether a record is an outlier is settled by the marks before it on its CPU.
LEMMA OutlierStays ==
    ASSUME NEW b, UNCHANGED <<recorded, count>>,
           \A i \in 1 .. count : CheckedOn(i, recorded[b].cpu) /\ i < b => (Marked(i)' <=> Marked(i))
    PROVE  IsOutlier(b)' <=> IsOutlier(b)
  BY DEF IsOutlier, CheckedOn, Checked

\* The two forms of an outlier are all there are.
LEMMA SpikeOrGap ==
    ASSUME NEW a \in Nat, NEW b \in Nat, NEW c \in Nat
    PROVE  Spike(a, b, c) \/ Gap(a, b, c) <=> a < c /\ ~(a < b /\ b < c)
  BY DEF Spike, Gap

(***************************************************************************)
(* When the next record of the CPU is reached, the test on the two         *)
(* positions decides whether the record before it is an outlier.           *)
(***************************************************************************)
LEMMA TestDecides ==
    ASSUME TypeOK, Untouched, SameData, NEW c \in Cpus, Latest(c), pos \in 1 .. count,
           CheckedOn(pos, c), pos_on[c] # 0
    PROVE  IsOutlier(pos_on[c]) <=> Outlier(pos)
<1> DEFINE a == prev_on[c]   b == pos_on[c]
<1>1. /\ mem[pos] = recorded[pos] /\ mem[pos].cpu = c /\ pos \in Nat /\ count \in Nat
      /\ a \in 0 .. count /\ b \in 1 .. count /\ b < pos /\ CheckedOn(b, c)
  BY DEF TypeOK, Untouched, CheckedOn, Latest
<1>2. \A i \in 1 .. count : recorded[i].timestamp \in Nat
  BY DEF TypeOK, Record
<1>3. Outlier(pos) <=> /\ a # 0
                       /\ recorded[a].timestamp < recorded[pos].timestamp
                       /\ ~(recorded[a].timestamp < recorded[b].timestamp
                            /\ recorded[b].timestamp < recorded[pos].timestamp)
  <2>1. CASE a = 0
    BY <1>1, <2>1 DEF Outlier
  <2>2. CASE a # 0
    <3>1. a \in 1 .. count
      BY <1>1, <2>2
    <3>2. /\ mem[a].timestamp = recorded[a].timestamp
          /\ mem[b].timestamp = recorded[b].timestamp
      BY <1>1, <3>1 DEF SameData
    <3>3. Outlier(pos) <=>
            \/ Spike(recorded[a].timestamp, recorded[b].timestamp, recorded[pos].timestamp)
            \/ Gap(recorded[a].timestamp, recorded[b].timestamp, recorded[pos].timestamp)
      BY <1>1, <2>2, <3>2 DEF Outlier
    <3>4. QED
      BY <1>1, <1>2, <2>2, <3>1, <3>3, SpikeOrGap
  <2>3. QED
    BY <2>1, <2>2
<1>4. recorded[b].cpu = c
  BY <1>1 DEF CheckedOn
<1>5. ASSUME Outlier(pos) PROVE IsOutlier(b)
  <2>1. a \in 1 .. count /\ a < b /\ CheckedOn(a, c) /\ ~Marked(a)
    BY <1>1, <1>3, <1>5 DEF Latest
  <2>2. \A i \in 1 .. count : CheckedOn(i, c) /\ a < i /\ i < b => Marked(i)
    BY <1>1 DEF Latest
  <2>3. \A i \in 1 .. count : CheckedOn(i, c) => ~(b < i /\ i < pos)
    BY <1>1 DEF Latest
  <2>4. QED
    BY <1>1, <1>3, <1>4, <1>5, <2>1, <2>2, <2>3 DEF IsOutlier, CheckedOn
<1>6. ASSUME IsOutlier(b) PROVE Outlier(pos)
  <2>1. PICK x \in 1 .. count, z \in 1 .. count :
          /\ CheckedOn(x, c) /\ CheckedOn(z, c) /\ x < b /\ b < z /\ ~Marked(x)
          /\ \A i \in 1 .. count : CheckedOn(i, c) /\ x < i /\ i < b => Marked(i)
          /\ ~\E i \in 1 .. count : CheckedOn(i, c) /\ b < i /\ i < z
          /\ recorded[x].timestamp < recorded[z].timestamp
          /\ ~(recorded[x].timestamp < recorded[b].timestamp
               /\ recorded[b].timestamp < recorded[z].timestamp)
    BY <1>4, <1>6 DEF IsOutlier, CheckedOn
  <2>2. z = pos
    <3>1. ~(pos < z)
      BY <1>1, <2>1
    <3>2. ~(z < pos)
      BY <1>1, <2>1 DEF Latest
    <3>3. QED
      BY <1>1, <2>1, <3>1, <3>2
  <2>3. x = a
    <3>1. ~(a < x)
      BY <1>1, <2>1 DEF Latest
    <3>2. a \in 1 .. count /\ CheckedOn(a, c) /\ ~Marked(a) /\ a < b
      BY <1>1, <2>1, <3>1 DEF Latest
    <3>3. ~(x < a)
      BY <2>1, <3>2
    <3>4. QED
      BY <1>1, <2>1, <3>1, <3>3
  <2>4. QED
    BY <1>1, <1>3, <2>1, <2>2, <2>3
<1>7. QED
  BY <1>5, <1>6

-----------------------------------------------------------------------------
(* The steps of the pre-check                                              *)

\* The pre-check passes a record, and this CPU has none of its records there.
LEMMA OtherCpuStays ==
    ASSUME TypeOK, NEW c \in Cpus, Latest(c), Judged(c), pos \in 1 .. count,
           ~CheckedOn(pos, c), pos' = pos + 1, UNCHANGED <<recorded, count>>,
           prev_on'[c] = prev_on[c], pos_on'[c] = pos_on[c],
           \A i \in 1 .. count : CheckedOn(i, c) => (Marked(i)' <=> Marked(i))
    PROVE  Latest(c)' /\ Judged(c)'
<1>1. pos \in Nat /\ count \in Nat /\ prev_on[c] \in 0 .. count /\ pos_on[c] \in 0 .. count
  BY DEF TypeOK
<1>2. \A i : CheckedOn(i, c)' <=> CheckedOn(i, c)
  BY DEF CheckedOn, Checked
<1>3. \A i \in 1 .. pos : CheckedOn(i, c) => i \in 1 .. (pos - 1)
  BY <1>1
<1>4. ASSUME NEW p \in 1 .. count, CheckedOn(p, c) PROVE Marked(p)' <=> Marked(p)
  BY <1>4
<1>5. Latest(c)'
  <2>1. \A i \in 1 .. pos : CheckedOn(i, c) => i <= pos_on[c]
    BY <1>1, <1>3 DEF Latest
  <2>2. pos_on[c] # 0 => pos_on[c] < pos + 1 /\ CheckedOn(pos_on[c], c) /\ ~Marked(pos_on[c])
    BY <1>1 DEF Latest
  <2>3. pos_on[c] # 0 => (CheckedOn(pos_on[c], c) /\ ~Marked(pos_on[c]))'
    <3>1. SUFFICES ASSUME pos_on[c] # 0
                   PROVE  (CheckedOn(pos_on[c], c) /\ ~Marked(pos_on[c]))'
      OBVIOUS
    <3>2. PICK p \in 1 .. count : p = pos_on[c]
      BY <1>1, <3>1
    <3>3. CheckedOn(p, c)' /\ ~Marked(p)'
      BY <1>2, <1>4, <2>2, <3>1, <3>2
    <3>4. QED
      BY <3>2, <3>3
  <2>4. prev_on[c] # 0 =>
          /\ prev_on[c] < pos_on[c]
          /\ (CheckedOn(prev_on[c], c) /\ ~Marked(prev_on[c]))'
    <3>1. SUFFICES ASSUME prev_on[c] # 0
                   PROVE  /\ prev_on[c] < pos_on[c]
                          /\ (CheckedOn(prev_on[c], c) /\ ~Marked(prev_on[c]))'
      OBVIOUS
    <3>2. PICK p \in 1 .. count : p = prev_on[c]
      BY <1>1, <3>1
    <3>3. prev_on[c] < pos_on[c] /\ CheckedOn(p, c) /\ ~Marked(p)
      BY <3>1, <3>2 DEF Latest
    <3>4. CheckedOn(p, c)' /\ ~Marked(p)'
      BY <1>2, <1>4, <3>3
    <3>5. QED
      BY <3>2, <3>3, <3>4
  <2>5. \A i \in 1 .. pos :
          CheckedOn(i, c)' /\ prev_on[c] < i /\ i < pos_on[c] => Marked(i)'
    BY <1>1, <1>2, <1>3, <1>4 DEF Latest
  <2>6. QED
    BY <1>1, <1>2, <2>1, <2>2, <2>3, <2>4, <2>5 DEF Latest
<1>6. Judged(c)'
  <2> SUFFICES ASSUME NEW b \in 1 .. pos, CheckedOn(b, c), b < pos_on[c]
               PROVE  Marked(b)' <=> IsOutlier(b)'
    BY <1>1, <1>2 DEF Judged
  <2>1. b \in 1 .. (pos - 1) /\ recorded[b].cpu = c
    BY <1>3 DEF CheckedOn
  <2>2. IsOutlier(b)' <=> IsOutlier(b)
    BY <2>1, OutlierStays
  <2>3. QED
    BY <1>1, <1>4, <2>1, <2>2 DEF Judged
<1>7. QED
  BY <1>5, <1>6

\* The pre-check passes a record of this CPU: the one before it is judged.
LEMMA SameCpuStep ==
    ASSUME TypeOK, Untouched, SameData, NEW c \in Cpus, Latest(c), Judged(c),
           pos \in 1 .. count, CheckedOn(pos, c), pos' = pos + 1, UNCHANGED <<recorded, count>>,
           pos_on'[c] = pos,
           prev_on'[c] = IF Outlier(pos) THEN prev_on[c] ELSE pos_on[c],
           \A i \in 1 .. count : CheckedOn(i, c) =>
             (Marked(i)' <=> Marked(i) \/ (i = pos_on[c] /\ Outlier(pos)))
    PROVE  Latest(c)' /\ Judged(c)'
<1>1. pos \in Nat /\ count \in Nat
  BY DEF TypeOK
<1>2. PICK p \in 0 .. count, q \in 0 .. count, r \in 1 .. count :
        p = pos_on[c] /\ q = prev_on[c] /\ r = pos
  BY DEF TypeOK
<1>3. \A i : CheckedOn(i, c)' <=> CheckedOn(i, c)
  BY DEF CheckedOn, Checked
<1>4. /\ \A i \in 1 .. (r - 1) : CheckedOn(i, c) => i <= p
      /\ p # 0 => p < r /\ CheckedOn(p, c) /\ ~Marked(p)
      /\ q # 0 => q < p /\ CheckedOn(q, c) /\ ~Marked(q)
      /\ \A i \in 1 .. (r - 1) : CheckedOn(i, c) /\ q < i /\ i < p => Marked(i)
  BY <1>2 DEF Latest
<1>5. CheckedOn(r, c) /\ ~Marked(r)
  BY <1>2 DEF Untouched, Marked
<1>6. Outlier(pos) => q # 0 /\ p # 0
  <2>1. mem[pos].cpu = c
    BY DEF Untouched, CheckedOn
  <2>2. QED
    BY <1>2, <2>1 DEF Outlier
<1>7. PICK s \in 0 .. count : s = IF Outlier(pos) THEN q ELSE p
  BY <1>2
<1>8. ASSUME NEW i \in 1 .. count, CheckedOn(i, c)
      PROVE  Marked(i)' <=> Marked(i) \/ (i = p /\ Outlier(pos))
  BY <1>2, <1>8
<1>9. Latest(c)'
  <2>1. CheckedOn(r, c)' /\ ~Marked(r)'
    BY <1>1, <1>3, <1>4, <1>5, <1>8
  <2>2. s # 0 => s < r /\ CheckedOn(s, c)' /\ ~Marked(s)'
    <3> SUFFICES ASSUME s # 0 PROVE s < r /\ CheckedOn(s, c)' /\ ~Marked(s)'
      OBVIOUS
    <3>1. s < r /\ CheckedOn(s, c) /\ ~Marked(s) /\ s \in 1 .. count
      BY <1>1, <1>4, <1>6, <1>7
    <3>2. ~(s = p /\ Outlier(pos))
      BY <1>1, <1>4, <1>6, <1>7
    <3>3. QED
      BY <1>3, <1>8, <3>1, <3>2
  <2>3. ASSUME NEW i \in 1 .. r, CheckedOn(i, c), s < i, i < r PROVE Marked(i)'
    <3>1. i \in 1 .. (r - 1) /\ i \in 1 .. count /\ i <= p
      BY <1>1, <1>4, <2>3
    <3>2. Outlier(pos) /\ s = q
      BY <1>1, <1>7, <2>3, <3>1
    <3>3. Marked(i) \/ i = p
      BY <1>1, <1>4, <2>3, <3>1, <3>2
    <3>4. QED
      BY <1>8, <2>3, <3>1, <3>2, <3>3
  <2>4. prev_on'[c] = s /\ pos_on'[c] = r /\ pos' - 1 = r /\ r < pos'
    BY <1>1, <1>2, <1>7
  <2>5. \A i \in 1 .. r : i <= r
    BY <1>1
  <2>6. QED
    BY <1>3, <2>1, <2>2, <2>3, <2>4, <2>5 DEF Latest
<1>10. Judged(c)'
  <2>1. ASSUME NEW b \in 1 .. r, CheckedOn(b, c), b < r
        PROVE  Marked(b)' <=> IsOutlier(b)'
    <3>1. b \in 1 .. (r - 1) /\ b \in 1 .. count /\ b <= p /\ recorded[b].cpu = c
      BY <1>1, <1>4, <2>1 DEF CheckedOn
    <3>2. IsOutlier(b)' <=> IsOutlier(b)
      <4>1. \A i \in 1 .. count : CheckedOn(i, c) /\ i < b => (Marked(i)' <=> Marked(i))
        BY <1>1, <1>8, <3>1
      <4>2. QED
        BY <3>1, <4>1, OutlierStays
    <3>3. CASE b = p
      <4>1. IsOutlier(p) <=> Outlier(pos)
        BY <1>1, <1>2, <3>1, <3>3, TestDecides
      <4>2. ~Marked(p)
        BY <1>1, <1>4, <3>1, <3>3
      <4>3. QED
        BY <1>8, <2>1, <3>1, <3>2, <3>3, <4>1, <4>2
    <3>4. CASE b # p
      <4>1. Marked(b) <=> IsOutlier(b)
        BY <1>1, <1>2, <2>1, <3>1, <3>4 DEF Judged
      <4>2. QED
        BY <1>8, <2>1, <3>1, <3>2, <3>4, <4>1
    <3>5. QED
      BY <3>3, <3>4
  <2>2. pos_on'[c] = r /\ pos' - 1 = r
    BY <1>1, <1>2
  <2>3. QED
    BY <1>3, <2>1, <2>2 DEF Judged
<1>11. QED
  BY <1>9, <1>10

\* A mark changes the event of a record and nothing else.
LEMMA MarkIs ==
    ASSUME TypeOK, NEW i \in 1 .. count, MarkAsBad(i), UNCHANGED <<recorded, count>>,
           recorded[i].event # UINT8_MAX
    PROVE  \A k \in 1 .. count :
             /\ mem'[k].cpu = mem[k].cpu /\ mem'[k].timestamp = mem[k].timestamp
             /\ k # i => mem'[k] = mem[k]
             /\ Marked(k)' <=> Marked(k) \/ k = i
<1> DEFINE marked == [mem[i] EXCEPT !.event = UINT8_MAX]
<1>1. mem[i] \in Record
  BY DEF TypeOK
<1>2. marked.event = UINT8_MAX /\ marked.cpu = mem[i].cpu /\ marked.timestamp = mem[i].timestamp
  BY <1>1 DEF Record
<1>3. mem' = [mem EXCEPT ![i] = marked]
  BY DEF MarkAsBad
<1> HIDE DEF marked
<1>4. \A k \in 1 .. count : mem'[k] = IF k = i THEN marked ELSE mem[k]
  BY <1>3 DEF TypeOK
<1>5. QED
  BY <1>2, <1>4 DEF Marked

Judging == Untouched /\ SameData /\ WithSlot /\ \A c \in Cpus : Latest(c) /\ Judged(c)

LEMMA KeepJudges ==
    ASSUME TypeOK, Judging, PreCheckKeep \/ PreCheckSkip PROVE Judging'
<1>1. /\ pos \in 1 .. count /\ count \in Nat /\ pos' = pos + 1 /\ UNCHANGED file
      /\ mem[pos] = recorded[pos]
  BY DEF PreCheckKeep, PreCheckSkip, TypeOK, Judging, Untouched
<1>2. Untouched' /\ SameData'
  BY <1>1 DEF Judging, Untouched, SameData, Marked, Checked, file
<1>3. \A i \in 1 .. count : Marked(i)' <=> Marked(i)
  BY <1>1 DEF Marked, file
<1>4. WithSlot'
  <2>1. Checked(recorded[pos]) => recorded[pos].cpu \in Cpus
    BY <1>1 DEF PreCheckKeep, PreCheckSkip
  <2>2. QED
    BY <1>1, <2>1 DEF Judging, WithSlot, Checked, file
<1>5. ASSUME NEW c \in Cpus PROVE Latest(c)' /\ Judged(c)'
  <2>1. CASE PreCheckKeep /\ recorded[pos].cpu = c
    <3>1. CheckedOn(pos, c) /\ ~Outlier(pos)
      BY <1>1, <2>1 DEF PreCheckKeep, CheckedOn
    <3>2. pos_on'[c] = pos /\ prev_on'[c] = pos_on[c]
      BY <1>1, <2>1 DEF PreCheckKeep, TypeOK
    <3>3. QED
      BY <1>1, <1>3, <3>1, <3>2, SameCpuStep DEF Judging, file
  <2>2. CASE ~(PreCheckKeep /\ recorded[pos].cpu = c)
    <3>1. ~CheckedOn(pos, c)
      BY <1>1, <2>2 DEF PreCheckSkip, CheckedOn
    <3>2. pos_on'[c] = pos_on[c] /\ prev_on'[c] = prev_on[c]
      BY <1>1, <2>2 DEF PreCheckKeep, PreCheckSkip, TypeOK, tables
    <3>3. QED
      BY <1>1, <1>3, <3>1, <3>2, OtherCpuStays DEF Judging, file
  <2>3. QED
    BY <2>1, <2>2
<1>6. QED
  BY <1>2, <1>4, <1>5 DEF Judging, Cpus

LEMMA OutlierJudges == ASSUME TypeOK, Judging, PreCheckOutlier PROVE Judging'
<1>1. /\ pos \in 1 .. count /\ count \in Nat /\ pos' = pos + 1 /\ UNCHANGED <<recorded, count>>
      /\ mem[pos] = recorded[pos] /\ mem[pos].cpu \in Cpus /\ Outlier(pos)
      /\ Checked(recorded[pos])
  BY DEF PreCheckOutlier, TypeOK, Judging, Untouched
<1>2. PICK c \in Cpus : c = recorded[pos].cpu
  BY <1>1
<1>3. PICK p \in 1 .. count : p = pos_on[c]
  BY <1>1, <1>2 DEF Outlier, TypeOK
<1>4. CheckedOn(pos, c) /\ CheckedOn(p, c) /\ p < pos /\ MarkAsBad(p)
  BY <1>1, <1>2, <1>3 DEF Judging, Latest, PreCheckOutlier, CheckedOn
<1>5. \A k \in 1 .. count :
        /\ mem'[k].cpu = mem[k].cpu /\ mem'[k].timestamp = mem[k].timestamp
        /\ k # p => mem'[k] = mem[k]
        /\ Marked(k)' <=> Marked(k) \/ k = p
  <2>1. recorded[p].event # UINT8_MAX
    BY <1>4 DEF CheckedOn, Checked, UINT8_MAX, SINGLE_RECORDS_RANGE
  <2>2. QED
    BY <1>1, <1>4, <2>1, MarkIs
<1>6. Untouched'
  <2> SUFFICES ASSUME NEW i \in 1 .. count, i >= pos + 1 \/ ~Checked(recorded[i])
               PROVE  mem'[i] = recorded[i]
    BY <1>1 DEF Untouched, Checked
  <2>1. i # p
    BY <1>1, <1>4 DEF CheckedOn
  <2>2. mem[i] = recorded[i]
    BY <1>1 DEF Judging, Untouched
  <2>3. QED
    BY <1>5, <2>1, <2>2
<1>7. SameData'
  BY <1>1, <1>5 DEF Judging, SameData
<1>8. WithSlot'
  BY <1>1 DEF Judging, WithSlot, Checked
<1>9. ASSUME NEW d \in Cpus PROVE Latest(d)' /\ Judged(d)'
  <2>1. CASE d = c
    <3>1. pos_on'[d] = pos /\ prev_on'[d] = prev_on[d]
      BY <1>1, <1>2, <2>1 DEF PreCheckOutlier, TypeOK
    <3>2. \A i \in 1 .. count : CheckedOn(i, d) =>
            (Marked(i)' <=> Marked(i) \/ (i = pos_on[d] /\ Outlier(pos)))
      BY <1>1, <1>3, <1>5, <2>1
    <3>3. QED
      BY <1>1, <1>4, <2>1, <3>1, <3>2, SameCpuStep DEF Judging
  <2>2. CASE d # c
    <3>1. ~CheckedOn(pos, d) /\ ~CheckedOn(p, d)
      BY <1>4, <2>2 DEF CheckedOn
    <3>2. pos_on'[d] = pos_on[d] /\ prev_on'[d] = prev_on[d]
      BY <1>1, <1>2, <2>2 DEF PreCheckOutlier, TypeOK
    <3>3. \A i \in 1 .. count : CheckedOn(i, d) => (Marked(i)' <=> Marked(i))
      BY <1>5, <3>1
    <3>4. QED
      BY <1>1, <3>1, <3>2, <3>3, OtherCpuStays DEF Judging
  <2>3. QED
    BY <2>1, <2>2
<1>10. QED
  BY <1>6, <1>7, <1>8, <1>9 DEF Judging, Cpus

\* At the end of the file every record but the last one of each CPU has been
\* judged, and that one has no successor to be an outlier of.
LEMMA AllJudged ==
    ASSUME TypeOK, Judging, pos > count, NEW b \in 1 .. count
    PROVE  Marked(b) <=> Checked(recorded[b]) /\ IsOutlier(b)
<1>1. pos = count + 1 /\ count \in Nat
  BY DEF TypeOK
<1>2. CASE ~Checked(recorded[b])
  BY <1>2 DEF Judging, Untouched, Marked
<1>3. CASE Checked(recorded[b])
  <2>1. PICK c \in Cpus : c = recorded[b].cpu
    BY <1>1, <1>3 DEF Judging, WithSlot
  <2>2. Latest(c) /\ Judged(c) /\ CheckedOn(b, c)
    BY <1>3, <2>1 DEF Judging, CheckedOn
  <2>3. b <= pos_on[c] /\ pos_on[c] \in 0 .. count
    BY <1>1, <2>2 DEF Latest, TypeOK
  <2>4. CASE b < pos_on[c]
    BY <1>1, <1>3, <2>2, <2>4 DEF Judged
  <2>5. CASE b = pos_on[c]
    <3>1. ~Marked(b)
      BY <2>2, <2>5 DEF Latest
    <3>2. \A i \in 1 .. count : CheckedOn(i, c) => ~(b < i)
      BY <1>1, <2>2, <2>3, <2>5 DEF Latest
    <3>3. ~IsOutlier(b)
      BY <2>1, <3>2 DEF IsOutlier, CheckedOn
    <3>4. QED
      BY <3>1, <3>3
  <2>6. QED
    BY <1>1, <2>3, <2>4, <2>5
<1>4. QED
  BY <1>2, <1>3

-----------------------------------------------------------------------------
PreCheckInv ==
    /\ runs = 0 => mem = recorded /\ pc \notin Running
    /\ runs = 1 /\ pc = "precheck" => Judging
    /\ PreCheckExact

LEMMA InitPreCheck == Init => PreCheckInv
  BY DEF Init, PreCheckInv, PreCheckExact, Running

LEMMA StartJudges == ASSUME TypeOK, PreCheckInv, Start PROVE PreCheckInv'
<1>1. /\ pc' = "precheck" /\ pos' = 1 /\ UNCHANGED file /\ runs' = runs + 1
      /\ \A c \in Cpus : prev_on'[c] = 0 /\ pos_on'[c] = 0
      /\ runs \in Nat
  BY FtSortAssumption DEF Start, TypeOK
<1>2. CASE runs = 0
  <2>1. mem' = recorded' /\ recorded' = recorded /\ count' = count
    BY <1>1, <1>2 DEF PreCheckInv, file
  <2>2. Judging'
    BY <1>1, <2>1 DEF Judging, Untouched, SameData, WithSlot, Latest, Judged, Cpus
  <2>3. QED
    BY <1>1, <2>2 DEF PreCheckInv, PreCheckExact
<1>3. CASE runs # 0
  BY <1>1, <1>3 DEF PreCheckInv, PreCheckExact
<1>4. QED
  BY <1>2, <1>3

LEMMA NextJudges == ASSUME TypeOK, PreCheckInv, [Next]_vars PROVE PreCheckInv'
<1>1. CASE Start
  BY <1>1, StartJudges
<1>2. CASE PreCheckSkip \/ PreCheckKeep \/ PreCheckOutlier
  <2>1. pc = "precheck" /\ pc' = "precheck" /\ runs' = runs /\ runs # 0
    BY <1>2 DEF PreCheckSkip, PreCheckKeep, PreCheckOutlier, history, PreCheckInv, Running
  <2>2. QED
    BY <1>2, <2>1, KeepJudges, OutlierJudges DEF PreCheckInv, PreCheckExact
<1>3. CASE PreCheckDone
  <2>1. /\ pc = "precheck" /\ pc' = "reorder" /\ runs' = runs /\ UNCHANGED file
        /\ pos > count /\ runs # 0
    BY <1>3 DEF PreCheckDone, history, PreCheckInv, Running
  <2>2. runs = 1 => \A b \in 1 .. count : Marked(b) <=> Checked(recorded[b]) /\ IsOutlier(b)
    BY <2>1, AllJudged DEF PreCheckInv
  <2>3. PreCheckExact'
    BY <2>1, <2>2 DEF PreCheckExact, Marked, IsOutlier, Checked, file
  <2>4. QED
    BY <2>1, <2>3 DEF PreCheckInv
<1>4. CASE Reorder \/ Filter
  <2>1. pc \in Running /\ pc' # "precheck" /\ runs' = runs
    BY <1>4 DEF Reorder, ReorderInPlace, ReorderSearch, Find, FindCandidate, FindNotInRange,
                FindGiveUp, FindDone, Move, MoveRefused, MovePasses, MoveBegins, SwapFirst,
                SwapSecond, MoveDone, LineUp, ReorderDone, Filter, FilterHole,
                FilterSchedStart, FilterLatency, FilterOther, BoundNext, BoundNone,
                BoundFound, FilterDone, Running, history
  <2>2. pc' = "reorder" => pos' # 1
    BY <1>4 DEF Reorder, ReorderInPlace, ReorderSearch, Find, FindCandidate, FindNotInRange,
                FindGiveUp, FindDone, Move, MoveRefused, MovePasses, MoveBegins, SwapFirst,
                SwapSecond, MoveDone, LineUp, ReorderDone, Filter, FilterHole,
                FilterSchedStart, FilterLatency, FilterOther, BoundNext, BoundNone,
                BoundFound, FilterDone, TypeOK
  <2>3. QED
    BY <2>1, <2>2 DEF PreCheckInv, PreCheckExact
<1>5. CASE Overrun \/ Kill
  <2>1. pc' \notin {"precheck", "reorder"} /\ runs' = runs /\ pc \in Running
    BY <1>5 DEF Overrun, Kill, Running, history
  <2>2. QED
    BY <2>1 DEF PreCheckInv, PreCheckExact
<1>6. CASE UNCHANGED vars
  BY <1>6 DEF vars, file, tables, history, PreCheckInv, Judging, Untouched, SameData, WithSlot,
              Latest, Judged, PreCheckExact, Marked, IsOutlier, CheckedOn, Checked, Cpus
<1>7. QED
  BY <1>1, <1>2, <1>3, <1>4, <1>5, <1>6 DEF Next, Step, PreCheck

(***************************************************************************)
(* pre_check_cpu_monotonicity keeps two positions per CPU, and with them   *)
(* marks the outliers of a fresh file and nothing else, for every file     *)
(* whose CPUs all have a slot in the tables (another one is an Overrun).   *)
(***************************************************************************)
THEOREM PreCheckTheorem == Spec => []PreCheckExact
<1>1. Spec => [](TypeOK /\ Cursors)
  BY InitTypes, NextTypes, PTL DEF Spec
<1>2. Spec => []PreCheckInv
  BY <1>1, InitPreCheck, NextJudges, PTL DEF Spec
<1>3. PreCheckInv => PreCheckExact
  BY DEF PreCheckInv
<1>4. QED
  BY <1>2, <1>3, PTL

-----------------------------------------------------------------------------
(* What is repaired                                                        *)

\* The place of a record in a sorted file: how far its number is from the first one.
Rank(r) == Dist(recorded[1].seq_no, r.seq_no)

\* No record of the file is lost, not even one that only tmp holds.
Whole == Kept = 1 .. count

\* What is marked was not a SEND_RESCHED_START when it was recorded, so that records
\* constrain each other in the file only if they did when they were recorded.
Spared(r) == r.event = UINT8_MAX => recorded[r.id].event # TS_SEND_RESCHED_START

SparedInv == (\A i \in 1 .. count : Spared(mem[i])) /\ (pc = "store" => Spared(tmp))

\* No record from the cursor on comes before r.
Least(r) == \A i \in pos .. count : Rank(r) <= Rank(mem[i])

\* The first n records are in order, and before all others.
Sorted(n) == \A i \in 1 .. n, j \in 1 .. count : i < j => Rank(mem[i]) < Rank(mem[j])

(***************************************************************************)
(* A pass of reorder is an insertion of the least of what is left at the   *)
(* cursor: what the search finds, what the swaps carry, and what the       *)
(* line-up passes is that record.  In the middle of a swap it is in tmp.   *)
(***************************************************************************)
Sorting ==
    /\ count > 0 => mem[1].id = 1
    /\ stats.aborted_moves = 0
    /\ pc \in {"reorder"} \cup Moving => Sorted(pos - 1)
    /\ pc = "check" => Least(mem[min])
    /\ pc = "shift" => Least(mem[scan])
    /\ pc = "store" => Least(tmp) /\ \A i \in 1 .. (pos - 1) : Rank(mem[i]) < Rank(tmp)
    /\ pc = "lineup" => Least(mem[pos])
    /\ pc \in {"filter", "bound", "done"} => Sorted(count)

SortInv == Repairable /\ Whole => Sorting

-----------------------------------------------------------------------------
\* Distances from one number: the next one takes one off.
LEMMA DistFromNext ==
    ASSUME NEW o \in SeqNumbers, NEW a \in SeqNumbers, NEW b \in SeqNumbers,
           Dist(o, a) < Dist(o, b)
    PROVE  Dist(next_seq_number(a), b) = Dist(o, b) - Dist(o, a) - 1
  BY SeqNoAssumption DEF Dist, next_seq_number, U32, SeqNumbers

\* Two numbers at the same distance from a third are the same.
LEMMA DistTells ==
    ASSUME NEW o \in SeqNumbers, NEW a \in SeqNumbers, NEW b \in SeqNumbers
    PROVE  (Dist(o, a) = Dist(o, b)) <=> a = b
  BY SeqNoAssumption DEF Dist, U32, SeqNumbers

\* A mark, and nothing else, changes the records of a file; what is marked is spared.
LEMMA SparedNext ==
    ASSUME TypeOK, Cursors, FileInv, OrderInv, SparedInv, [Next]_vars PROVE SparedInv'
<1> USE DEF Spared
<1>1. \A i \in 1 .. count : IsRecorded(mem[i]) /\ Spared(mem[i]) /\ mem[i] \in Record
  BY DEF FileInv, SparedInv, TypeOK
<1>2. ASSUME NEW i \in 1 .. count, MarkAsBad(i), UNCHANGED <<recorded, count>>, pc' # "store",
             mem[i].event # TS_SEND_RESCHED_START
      PROVE  SparedInv'
  <2>1. recorded[mem[i].id] \in Record
    BY <1>1 DEF TypeOK, IsRecorded
  <2>2. recorded[mem[i].id].event # TS_SEND_RESCHED_START
    BY <1>1, <1>2, <2>1 DEF IsRecorded, Record
  <2>3. mem'[i].id = mem[i].id
    BY <1>1, <1>2 DEF MarkAsBad, TypeOK, Record
  <2>4. \A k \in 1 .. count : k # i => mem'[k] = mem[k]
    BY <1>2 DEF MarkAsBad, TypeOK
  <2>5. \A k \in 1 .. count : Spared(mem[k])'
    BY <1>1, <1>2, <2>2, <2>3, <2>4
  <2>6. QED
    BY <1>2, <2>5 DEF SparedInv
<1>3. ASSUME UNCHANGED <<file, tmp>>, pc' = "store" => pc = "store" PROVE SparedInv'
  BY <1>1, <1>3 DEF SparedInv, file
<1>4. CASE PreCheckOutlier
  <2>1. /\ pos_on[mem[pos].cpu] \in 1 .. count /\ mem[pos].cpu \in Cpus
        /\ pos_on[mem[pos].cpu] # 0 /\ pc = "precheck" /\ pc' = "precheck"
    BY <1>4 DEF PreCheckOutlier, Outlier, TypeOK
  <2>2. mem[pos_on[mem[pos].cpu]].event # TS_SEND_RESCHED_START
    BY <2>1 DEF OrderInv, MarksKeepConstraints
  <2>3. QED
    BY <1>2, <1>4, <2>1, <2>2 DEF PreCheckOutlier
<1>5. CASE BoundFound
  <2>1. pos \in 1 .. count /\ mem[pos].event # TS_SEND_RESCHED_START
    BY <1>5 DEF BoundFound, TypeOK, Cursors, OrderInv, MarksKeepConstraints,
                TS_RELEASE_LATENCY, TS_SEND_RESCHED_START
  <2>2. CASE Implausible(scan)
    BY <1>2, <1>5, <2>1, <2>2 DEF BoundFound
  <2>3. CASE ~Implausible(scan)
    BY <1>3, <1>5, <2>3 DEF BoundFound, file
  <2>4. QED
    BY <2>2, <2>3
<1>6. CASE SwapFirst
  <2>1. /\ scan \in 2 .. count /\ tmp' = mem[scan] /\ recorded' = recorded /\ count' = count
        /\ \A k \in 1 .. count : mem'[k] = IF k = scan THEN mem[scan - 1] ELSE mem[k]
    BY <1>6 DEF SwapFirst, TypeOK, Cursors
  <2>2. scan \in 1 .. count /\ scan - 1 \in 1 .. count
    BY <2>1 DEF TypeOK
  <2>3. Spared(tmp)' /\ \A k \in 1 .. count : Spared(mem[k])'
    BY <1>1, <2>1, <2>2
  <2>4. QED
    BY <2>1, <2>3 DEF SparedInv
<1>7. CASE SwapSecond
  <2>1. /\ pc = "store" /\ pc' = "shift" /\ recorded' = recorded /\ count' = count
        /\ \A k \in 1 .. count : mem'[k] = IF k = scan - 1 THEN tmp ELSE mem[k]
    BY <1>7 DEF SwapSecond, TypeOK
  <2>2. Spared(tmp)
    BY <2>1 DEF SparedInv
  <2>3. \A k \in 1 .. count : Spared(mem[k])'
    BY <1>1, <2>1, <2>2
  <2>4. QED
    BY <2>1, <2>3 DEF SparedInv
<1>8. CASE Start \/ PreCheckSkip \/ PreCheckKeep \/ PreCheckDone \/ Overrun \/ Kill
  BY <1>3, <1>8 DEF Start, PreCheckSkip, PreCheckKeep, PreCheckDone, Overrun, Kill
<1>9. CASE \/ ReorderInPlace \/ ReorderSearch \/ Find \/ LineUp \/ ReorderDone
           \/ MoveRefused \/ MovePasses \/ MoveBegins \/ MoveDone
  BY <1>3, <1>9
     DEF ReorderInPlace, ReorderSearch, Find, FindCandidate, FindNotInRange, FindGiveUp,
         FindDone, LineUp, ReorderDone, MoveRefused, MovePasses, MoveBegins, MoveDone
<1>10. CASE \/ FilterHole \/ FilterSchedStart \/ FilterLatency \/ FilterOther
            \/ BoundNext \/ BoundNone \/ FilterDone
  BY <1>3, <1>10
     DEF FilterHole, FilterSchedStart, FilterLatency, FilterOther, BoundNext, BoundNone,
         FilterDone
<1>11. CASE UNCHANGED vars
  BY <1>3, <1>11 DEF vars, file
<1>12. QED
  BY <1>4, <1>5, <1>6, <1>7, <1>8, <1>9, <1>10, <1>11
     DEF Next, Step, PreCheck, Reorder, Move, Filter

-----------------------------------------------------------------------------
\* A mark leaves what records are recognised and sorted by.
LEMMA MarkKeepsData ==
    ASSUME TypeOK, NEW k \in 1 .. count, MarkAsBad(k)
    PROVE  \A i \in 1 .. count : mem'[i].id = mem[i].id /\ mem'[i].seq_no = mem[i].seq_no
<1> DEFINE marked == [mem[k] EXCEPT !.event = UINT8_MAX]
<1>1. mem[k] \in Record
  BY DEF TypeOK
<1>2. marked.id = mem[k].id /\ marked.seq_no = mem[k].seq_no
  BY <1>1 DEF Record
<1>3. mem' = [mem EXCEPT ![k] = marked]
  BY DEF MarkAsBad
<1> HIDE DEF marked
<1>4. QED
  BY <1>2, <1>3 DEF TypeOK

\* The pre-check and the filter change nothing of that.
LEMMA MarksKeepData ==
    ASSUME TypeOK, Cursors, PreCheckOutlier \/ BoundFound
    PROVE  \A i \in 1 .. count : mem'[i].id = mem[i].id /\ mem'[i].seq_no = mem[i].seq_no
<1>1. CASE PreCheckOutlier
  <2>1. pos_on[mem[pos].cpu] \in 1 .. count
    BY <1>1 DEF PreCheckOutlier, Outlier, TypeOK
  <2>2. QED
    BY <1>1, <2>1, MarkKeepsData DEF PreCheckOutlier
<1>2. CASE BoundFound
  <2>1. pos \in 1 .. count
    BY <1>2 DEF BoundFound, TypeOK, Cursors
  <2>2. QED
    BY <1>2, <2>1, MarkKeepsData DEF BoundFound
<1>3. QED
  BY <1>1, <1>2

\* No step brings back a record that is lost.
LEMMA NothingBack ==
    ASSUME TypeOK, Cursors, FileInv, [Next]_vars
    PROVE  Kept' \subseteq Kept /\ Kept \subseteq 1 .. count
<1>1. Kept \subseteq 1 .. count
  BY DEF FileInv, IsRecorded, Kept, Ids
<1> SUFFICES Kept' \subseteq Kept
  BY <1>1
<1>2. ASSUME count' = count, \A i \in 1 .. count : mem'[i].id = mem[i].id,
             pc' = "store" => pc = "store" /\ tmp' = tmp
      PROVE  Kept' \subseteq Kept
  BY <1>2 DEF Kept, Ids
<1>3. CASE SwapFirst
  <2>1. /\ scan \in 2 .. count /\ tmp' = mem[scan] /\ count' = count
        /\ \A k \in 1 .. count : mem'[k] = IF k = scan THEN mem[scan - 1] ELSE mem[k]
    BY <1>3 DEF SwapFirst, TypeOK, Cursors
  <2>2. scan \in 1 .. count /\ scan - 1 \in 1 .. count
    BY <2>1 DEF TypeOK
  <2>3. tmp'.id \in Ids /\ Ids' \subseteq Ids
    BY <2>1, <2>2 DEF Ids
  <2>4. QED
    BY <2>3 DEF Kept
<1>4. CASE SwapSecond
  <2>1. /\ pc = "store" /\ pc' = "shift" /\ count' = count
        /\ \A k \in 1 .. count : mem'[k] = IF k = scan - 1 THEN tmp ELSE mem[k]
    BY <1>4 DEF SwapSecond, TypeOK
  <2>2. Ids' \subseteq Ids \cup {tmp.id}
    BY <2>1 DEF Ids
  <2>3. QED
    BY <2>1, <2>2 DEF Kept
<1>5. CASE PreCheckOutlier \/ BoundFound
  <2>1. \A i \in 1 .. count : mem'[i].id = mem[i].id
    BY <1>5, MarksKeepData
  <2>2. QED
    BY <1>2, <1>5, <2>1 DEF PreCheckOutlier, BoundFound
<1>6. CASE Start \/ PreCheckSkip \/ PreCheckKeep \/ PreCheckDone \/ Overrun \/ Kill
  BY <1>2, <1>6 DEF Start, PreCheckSkip, PreCheckKeep, PreCheckDone, Overrun, Kill, file
<1>7. CASE \/ ReorderInPlace \/ ReorderSearch \/ Find \/ LineUp \/ ReorderDone
           \/ MoveRefused \/ MovePasses \/ MoveBegins \/ MoveDone
  BY <1>2, <1>7
     DEF ReorderInPlace, ReorderSearch, Find, FindCandidate, FindNotInRange, FindGiveUp,
         FindDone, LineUp, ReorderDone, MoveRefused, MovePasses, MoveBegins, MoveDone, file
<1>8. CASE \/ FilterHole \/ FilterSchedStart \/ FilterLatency \/ FilterOther
           \/ BoundNext \/ BoundNone \/ FilterDone
  BY <1>2, <1>8
     DEF FilterHole, FilterSchedStart, FilterLatency, FilterOther, BoundNext, BoundNone,
         FilterDone, file
<1>9. CASE UNCHANGED vars
  BY <1>2, <1>9 DEF vars, file
<1>10. QED
  BY <1>3, <1>4, <1>5, <1>6, <1>7, <1>8, <1>9
     DEF Next, Step, PreCheck, Reorder, Move, Filter

-----------------------------------------------------------------------------
(* What is known of a file that can be repaired, as long as it is whole.   *)

\* Every number is fewer than LookAhead + 1 increments from the first.
LEMMA Ranks ==
    ASSUME TypeOK, FileInv, Repairable, NEW i \in 1 .. count
    PROVE  /\ mem[i].id \in 1 .. count /\ Rank(mem[i]) = FromFirst(mem[i].id)
           /\ Rank(mem[i]) \in Nat /\ Rank(mem[i]) <= LookAhead
<1>1. /\ mem[i].id \in 1 .. count
      /\ mem[i] \in {recorded[mem[i].id], [recorded[mem[i].id] EXCEPT !.event = UINT8_MAX]}
  BY DEF FileInv, IsRecorded
<1>2. recorded[mem[i].id] \in Record /\ recorded[1] \in Record
  <2>1. 1 \in 1 .. count
    BY DEF TypeOK
  <2>2. QED
    BY <1>1, <2>1 DEF TypeOK
<1>3. mem[i].seq_no = recorded[mem[i].id].seq_no
  BY <1>1, <1>2 DEF Record
<1>4. Rank(mem[i]) = FromFirst(mem[i].id)
  BY <1>3 DEF Rank, FromFirst
<1>5. FromFirst(mem[i].id) \in Nat
  BY <1>2, DistType DEF FromFirst, Record
<1>6. QED
  BY <1>1, <1>4, <1>5 DEF Repairable

\* Every record is in one place, except in the middle of a swap.
LEMMA InOnePlace ==
    ASSUME TypeOK, FileInv, Whole, pc # "store"
    PROVE  \A i, j \in 1 .. count : mem[i].id = mem[j].id => i = j
<1> DEFINE f == [i \in 1 .. count |-> mem[i].id]
           S == 1 .. count
<1>1. f \in [S -> S]
  BY DEF FileInv, IsRecorded
<1>2. \A n \in S : \E i \in S : f[i] = n
  BY DEF Whole, Kept, Ids
<1>3. f \in Surjection(S, S)
  BY <1>1, <1>2 DEF Surjection
<1>4. IsFiniteSet(S)
  BY LostFinite
<1>5. f \in Injection(S, S)
  <2> HIDE DEF f, S
  <2>1. QED
    BY <1>3, <1>4, FS_SurjSameCardinalityImpliesInj
<1>6. QED
  BY <1>5 DEF Injection, IsInjective

LEMMA RanksDiffer ==
    ASSUME TypeOK, FileInv, Repairable, Whole, pc # "store"
    PROVE  \A i, j \in 1 .. count : Rank(mem[i]) = Rank(mem[j]) => i = j
<1> SUFFICES ASSUME NEW i \in 1 .. count, NEW j \in 1 .. count, Rank(mem[i]) = Rank(mem[j])
             PROVE  i = j
  OBVIOUS
<1> DEFINE a == mem[i].id
           b == mem[j].id
<1>1. a \in 1 .. count /\ b \in 1 .. count /\ FromFirst(a) = FromFirst(b) /\ count \in Nat
  BY Ranks DEF TypeOK
<1>2. ~(a < b) /\ ~(b < a)
  BY <1>1 DEF Repairable
<1>3. a = b
  BY <1>1, <1>2
<1>4. QED
  BY <1>3, InOnePlace

\* Such a file is not longer than the window and the first record.
LEMMA FewRecords ==
    ASSUME TypeOK, FileInv, Repairable PROVE count <= LookAhead + 1
<1> DEFINE S == 1 .. count
           T == 0 .. LookAhead
           f == [i \in S |-> FromFirst(i)]
<1>1. count \in Nat /\ LookAhead \in Nat
  BY SeqNoAssumption DEF TypeOK
<1>2. \A i \in S : FromFirst(i) \in T
  <2> SUFFICES ASSUME NEW i \in S PROVE FromFirst(i) \in T
    OBVIOUS
  <2>1. recorded[i] \in Record /\ recorded[1] \in Record
    BY <1>1 DEF TypeOK
  <2>2. FromFirst(i) \in Nat
    BY <2>1, DistType DEF FromFirst, Record
  <2>3. QED
    BY <1>1, <2>2 DEF Repairable
<1>3. \A i, j \in S : FromFirst(i) = FromFirst(j) => i = j
  <2> SUFFICES ASSUME NEW i \in S, NEW j \in S, FromFirst(i) = FromFirst(j) PROVE i = j
    OBVIOUS
  <2>1. ~(i < j) /\ ~(j < i)
    BY DEF Repairable
  <2>2. QED
    BY <1>1, <2>1
<1>4. f \in Injection(S, T)
  BY <1>2, <1>3 DEF Injection, IsInjective
<1>5. /\ IsFiniteSet(S) /\ Cardinality(S) = count
      /\ IsFiniteSet(T) /\ Cardinality(T) = LookAhead + 1
  BY <1>1, FS_Interval
<1>6. Cardinality(S) <= Cardinality(T)
  <2> HIDE DEF f, S, T
  <2>1. QED
    BY <1>4, <1>5, FS_Injection
<1>7. QED
  BY <1>5, <1>6

\* What is left of the file is ahead of what has been passed, within reach of the search.
LEMMA Ahead ==
    ASSUME TypeOK, FileInv, HolesInv, Repairable, pc \in {"reorder"} \cup Moving,
           Sorted(pos - 1), pos > 1, NEW i \in pos .. count
    PROVE  /\ Rank(mem[pos - 1]) \in Nat /\ Rank(mem[i]) \in Nat
           /\ Rank(mem[pos - 1]) < Rank(mem[i])
           /\ Dist(Expected, mem[i].seq_no) = Rank(mem[i]) - Rank(mem[pos - 1]) - 1
           /\ in_range(Expected, mem[i].seq_no)
<1>1. pos \in Nat /\ count \in Nat /\ i \in 1 .. count /\ pos - 1 \in 1 .. count /\ pos - 1 < i
  BY DEF TypeOK
<1>2. Rank(mem[pos - 1]) < Rank(mem[i])
  BY <1>1 DEF Sorted
<1>3. /\ Rank(mem[i]) \in Nat /\ Rank(mem[i]) <= LookAhead /\ Rank(mem[pos - 1]) \in Nat
  BY <1>1, Ranks
<1>4. /\ recorded[1].seq_no \in SeqNumbers /\ mem[i].seq_no \in SeqNumbers
      /\ mem[pos - 1].seq_no \in SeqNumbers
  <2>1. 1 \in 1 .. count
    BY <1>1
  <2>2. recorded[1] \in Record /\ mem[i] \in Record /\ mem[pos - 1] \in Record
    BY <1>1, <2>1 DEF TypeOK
  <2>3. QED
    BY <2>2 DEF Record
<1>5. last_seqno = mem[pos - 1].seq_no
  BY DEF HolesInv
<1>6. Dist(Expected, mem[i].seq_no) = Rank(mem[i]) - Rank(mem[pos - 1]) - 1
  BY <1>2, <1>4, <1>5, DistFromNext DEF Expected, Rank
<1>7. Expected \in SeqNumbers
  BY ExpectedType
<1>8. Dist(Expected, mem[i].seq_no) < LookAhead
  BY <1>2, <1>3, <1>6, SeqNoAssumption
<1>9. QED
  BY <1>2, <1>3, <1>4, <1>6, <1>7, <1>8, InRangeIsDist

-----------------------------------------------------------------------------
(* The steps of a run on such a file.                                      *)
InRepair ==
    /\ TypeOK /\ Cursors /\ FileInv /\ OrderInv /\ SparedInv /\ SearchInv /\ HolesInv
    /\ Repairable /\ Whole /\ Sorting

LEMMA SameOrder ==
    ASSUME TypeOK, UNCHANGED <<recorded, count>>,
           \A i \in 1 .. count : mem'[i].seq_no = mem[i].seq_no
    PROVE  \A n \in Int : n <= count /\ Sorted(n) => Sorted(n)'
<1>1. \A i \in 1 .. count : Rank(mem[i])' = Rank(mem[i])
  BY DEF Rank
<1>2. SUFFICES ASSUME NEW n \in Int, n <= count, Sorted(n),
                      NEW i \in 1 .. n, NEW j \in 1 .. count, i < j
               PROVE  Rank(mem[i])' < Rank(mem[j])'
  BY DEF Sorted
<1>3. i \in 1 .. count
  BY <1>2 DEF TypeOK
<1>4. Rank(mem[i]) < Rank(mem[j])
  BY <1>2 DEF Sorted
<1>5. QED
  BY <1>1, <1>2, <1>3, <1>4

\* The cursor passes a record that is the least of what is left.
LEMMA PassKeepsOrder ==
    ASSUME InRepair, pc \in {"reorder", "lineup"}, pc' = "reorder", pos <= count,
           Least(mem[pos]), pos' = pos + 1, UNCHANGED file,
           stats'.aborted_moves = stats.aborted_moves
    PROVE  Sorting'
<1>1. pos \in Nat \ {0} /\ count \in Nat /\ pc \in {"reorder"} \cup Moving
  BY DEF InRepair, TypeOK, Moving
<1>2. Sorted(pos)
  <2> SUFFICES ASSUME NEW i \in 1 .. pos, NEW j \in 1 .. count, i < j
               PROVE  Rank(mem[i]) < Rank(mem[j])
    BY DEF Sorted
  <2>1. CASE i < pos
    BY <1>1, <2>1 DEF InRepair, Sorting, Sorted
  <2>2. CASE i = pos
    <3>1. Rank(mem[i]) <= Rank(mem[j])
      BY <1>1, <2>2 DEF Least
    <3>2. i \in 1 .. count
      BY <1>1
    <3>3. Rank(mem[i]) # Rank(mem[j])
      BY <3>2, RanksDiffer DEF InRepair
    <3>4. Rank(mem[i]) \in Nat /\ Rank(mem[j]) \in Nat
      BY <3>2, Ranks DEF InRepair
    <3>5. QED
      BY <3>1, <3>3, <3>4
  <2>3. QED
    BY <1>1, <2>1, <2>2
<1>3. PICK n \in Int : n = pos
  BY <1>1
<1>4. Sorted(n)'
  BY <1>2, <1>3, SameOrder DEF file, InRepair
<1>5. Sorted(pos - 1)'
  BY <1>1, <1>3, <1>4 DEF Sorted
<1>6. QED
  BY <1>5 DEF InRepair, Sorting, Moving, file

LEMMA LineUpKeepsOrder == ASSUME InRepair, LineUp PROVE Sorting'
<1>1. pc = "lineup" /\ pc' = "reorder" /\ pos' = pos + 1 /\ UNCHANGED file /\ pos <= count
  BY DEF LineUp, InRepair, Cursors
<1>2. Least(mem[pos])
  BY <1>1 DEF InRepair, Sorting
<1>3. stats'.aborted_moves = stats.aborted_moves
  BY DEF LineUp, Bump, InRepair, TypeOK
<1>4. QED
  BY <1>1, <1>2, <1>3, PassKeepsOrder

LEMMA InPlaceKeepsOrder == ASSUME InRepair, ReorderInPlace PROVE Sorting'
<1>1. /\ pc = "reorder" /\ pc' = "reorder" /\ pos' = pos + 1 /\ UNCHANGED file /\ stats' = stats
      /\ pos <= count /\ pos \in Nat \ {0} /\ count \in Nat
      /\ pos = 1 \/ mem[pos].seq_no = Expected
  BY DEF ReorderInPlace, InRepair, TypeOK
<1>2. \A i \in 1 .. count : Rank(mem[i]) \in Nat
  BY Ranks DEF InRepair
<1>3. CASE pos = 1
  <2>1. mem[1].id = 1 /\ 1 \in 1 .. count
    BY <1>1, <1>3 DEF InRepair, Sorting
  <2>2. Rank(mem[1]) = FromFirst(1)
    BY <2>1, Ranks DEF InRepair
  <2>3. recorded[1].seq_no \in SeqNumbers
    BY <2>1 DEF InRepair, TypeOK, Record
  <2>4. Rank(mem[1]) = 0
    BY <2>2, <2>3, DistType DEF FromFirst
  <2>5. Least(mem[pos])
    BY <1>2, <1>3, <2>4 DEF Least
  <2>6. QED
    BY <1>1, <2>5, PassKeepsOrder
<1>4. CASE pos # 1
  <2>1. Sorted(pos - 1) /\ pos > 1
    BY <1>1, <1>4 DEF InRepair, Sorting
  <2>2. Expected \in SeqNumbers
    BY ExpectedType DEF InRepair
  <2>3. Dist(Expected, mem[pos].seq_no) = 0
    BY <1>1, <1>4, <2>2, DistType
  <2>4. \A i \in pos .. count :
          /\ Rank(mem[pos - 1]) \in Nat /\ Rank(mem[i]) \in Nat
          /\ Rank(mem[pos - 1]) < Rank(mem[i])
          /\ Dist(Expected, mem[i].seq_no) = Rank(mem[i]) - Rank(mem[pos - 1]) - 1
    BY <1>1, <2>1, Ahead DEF InRepair
  <2>5. pos \in pos .. count
    BY <1>1
  <2>6. Rank(mem[pos]) = Rank(mem[pos - 1]) + 1
    BY <2>3, <2>4, <2>5
  <2>7. Least(mem[pos])
    BY <2>4, <2>6 DEF Least
  <2>8. QED
    BY <1>1, <2>7, PassKeepsOrder
<1>5. QED
  BY <1>3, <1>4

\* A step of the search or the check, which changes neither the file nor the cursor.
LEMMA LookKeepsOrder ==
    ASSUME InRepair, pc \in {"reorder"} \cup Moving, pc' \in {"find", "check", "shift", "lineup"},
           UNCHANGED <<file, pos>>, stats'.aborted_moves = stats.aborted_moves,
           pc' = "check" => Least(mem[min'])
    PROVE  (pc' = "shift" => Least(mem[scan'])) /\ (pc' = "lineup" => Least(mem[pos]))
             => Sorting'
<1>1. pos \in Nat \ {0} /\ count \in Nat /\ pos - 1 \in Int /\ pos - 1 <= count
  BY DEF InRepair, TypeOK
<1>2. Sorted(pos - 1)
  BY DEF InRepair, Sorting
<1>3. PICK n \in Int : n = pos - 1
  BY <1>1
<1>4. Sorted(n)'
  BY <1>1, <1>2, <1>3, SameOrder DEF file, InRepair
<1>5. Sorted(pos - 1)'
  BY <1>3, <1>4 DEF Sorted
<1>6. /\ Least(mem[min'])  => Least(mem[min])'
      /\ Least(mem[scan']) => Least(mem[scan])'
      /\ Least(mem[pos])   => Least(mem[pos])'
  BY DEF Least, Rank, file
<1>7. count' > 0 => mem'[1].id = 1
  BY DEF InRepair, Sorting, file
<1>8. stats'.aborted_moves = 0
  BY DEF InRepair, Sorting
<1>9. QED
  BY <1>5, <1>6, <1>7, <1>8 DEF Sorting

\* The search finds the least of what is left, all of which is within its reach.
LEMMA FindKeepsOrder == ASSUME InRepair, Find PROVE Sorting'
<1>1. /\ pc = "find" /\ pos \in 2 .. count /\ count \in Nat /\ UNCHANGED <<file, pos, stats>>
      /\ pc \in {"reorder"} \cup Moving /\ Sorted(pos - 1) /\ scan \in Nat /\ pos <= scan
  BY DEF Find, FindCandidate, FindNotInRange, FindGiveUp, FindDone, InRepair, TypeOK, Cursors,
         HolesInv, Moving, Sorting
<1>2. WindowEnd = count
  <2>1. count <= LookAhead + 1
    BY FewRecords DEF InRepair
  <2>2. QED
    BY <1>1, <2>1, SeqNoAssumption DEF WindowEnd
<1>3. \A i \in pos .. count :
        /\ Rank(mem[pos - 1]) \in Nat /\ Rank(mem[i]) \in Nat
        /\ Dist(Expected, mem[i].seq_no) = Rank(mem[i]) - Rank(mem[pos - 1]) - 1
        /\ in_range(Expected, mem[i].seq_no)
  BY <1>1, Ahead DEF InRepair
<1>4. CASE FindCandidate \/ FindNotInRange
  BY <1>1, <1>4, LookKeepsOrder DEF FindCandidate, FindNotInRange
<1>5. CASE FindGiveUp
  <2>1. scan \in pos .. count
    BY <1>1, <1>2, <1>5 DEF FindGiveUp, Searching
  <2>2. QED
    BY <1>3, <1>5, <2>1 DEF FindGiveUp
<1>6. CASE FindDone
  <2>1. min # 0
    <3>1. CASE scan <= WindowEnd
      BY <1>6, <3>1 DEF FindDone, Searching
    <3>2. CASE scan > WindowEnd
      <4>1. pos \in pos .. (scan - 1) /\ pos \in pos .. count
        BY <1>1, <1>2, <3>2
      <4>2. ClosestUpTo(scan - 1)
        BY <1>1 DEF InRepair, SearchInv
      <4>3. QED
        BY <1>3, <4>1, <4>2 DEF ClosestUpTo
    <3>3. QED
      BY <1>1, <1>2, <3>1, <3>2
  <2>2. min \in pos .. count
    BY <1>1, <2>1 DEF InRepair, TypeOK, Cursors
  <2>3. ClosestUpTo(WindowEnd)
    BY <1>6, <2>1, SearchComplete DEF InRepair
  <2>4. \A i \in pos .. count : Dist(Expected, mem[min].seq_no) <= Dist(Expected, mem[i].seq_no)
    BY <1>2, <1>3, <2>3 DEF ClosestUpTo
  <2>5. Least(mem[min])
    <3> SUFFICES ASSUME NEW i \in pos .. count PROVE Rank(mem[min]) <= Rank(mem[i])
      BY DEF Least
    <3>1. Dist(Expected, mem[min].seq_no) = Rank(mem[min]) - Rank(mem[pos - 1]) - 1
      BY <1>3, <2>2
    <3>2. Dist(Expected, mem[i].seq_no) = Rank(mem[i]) - Rank(mem[pos - 1]) - 1
      BY <1>3
    <3>3. /\ Rank(mem[min]) \in Nat /\ Rank(mem[i]) \in Nat /\ Rank(mem[pos - 1]) \in Nat
      BY <1>3, <2>2
    <3>4. QED
      BY <2>4, <3>1, <3>2, <3>3
  <2>6. min' = min /\ pc' = IF min \in {0, pos} THEN "lineup" ELSE "check"
    BY <1>6 DEF FindDone, finder
  <2>7. pc' \in {"lineup", "check"} /\ (pc' = "lineup" => min = pos)
    BY <2>1, <2>6
  <2>8. Least(mem[min']) /\ (pc' = "lineup" => Least(mem[pos]))
    BY <2>5, <2>6, <2>7
  <2>9. QED
    BY <1>1, <2>7, <2>8, LookKeepsOrder
<1>7. QED
  BY <1>4, <1>5, <1>6 DEF Find

(***************************************************************************)
(* No move is refused: a record that comes first among what is left was    *)
(* recorded before all of it that constrains it, and no record gets ahead  *)
(* of an earlier one that constrains it.                                   *)
(***************************************************************************)
LEMMA NoneRefused == ASSUME InRepair PROVE ~MoveRefused
<1> SUFFICES ASSUME MoveRefused PROVE FALSE
  OBVIOUS
<1>1. /\ pc = "check" /\ scan < min /\ Constrained(mem[scan], mem[min])
      /\ scan \in pos .. count /\ scan \in 1 .. count /\ min \in 1 .. count
  BY DEF MoveRefused, InRepair, TypeOK, Cursors
<1> DEFINE a == mem[scan].id
           b == mem[min].id
<1>2. /\ a \in 1 .. count /\ b \in 1 .. count
      /\ Rank(mem[scan]) = FromFirst(a) /\ Rank(mem[min]) = FromFirst(b)
      /\ Rank(mem[scan]) \in Nat /\ Rank(mem[min]) \in Nat
  BY <1>1, Ranks DEF InRepair
<1>3. a <= b
  BY <1>1 DEF InRepair, OrderInv, InOrder
<1>4. a # b
  BY <1>1, InOnePlace DEF InRepair, TypeOK
<1>5. a < b
  <2>1. a \in Int /\ b \in Int
    BY <1>2
  <2> HIDE DEF a, b
  <2>2. QED
    BY <1>3, <1>4, <2>1
<1>6. Constrained(recorded[a], recorded[b])
  <2>1. /\ mem[scan] \in {recorded[a], [recorded[a] EXCEPT !.event = UINT8_MAX]} /\ Spared(mem[scan])
        /\ mem[min] \in {recorded[b], [recorded[b] EXCEPT !.event = UINT8_MAX]} /\ Spared(mem[min])
    BY <1>1 DEF InRepair, FileInv, IsRecorded, SparedInv
  <2>2. recorded[a] \in Record /\ recorded[b] \in Record
    BY <1>2 DEF InRepair, TypeOK
  <2>3. /\ mem[scan].cpu = recorded[a].cpu /\ mem[scan].pid = recorded[a].pid
        /\ mem[scan].event # TS_SEND_RESCHED_START => recorded[a].event # TS_SEND_RESCHED_START
    BY <2>1, <2>2 DEF Spared, Record
  <2>4. /\ mem[min].cpu = recorded[b].cpu /\ mem[min].pid = recorded[b].pid
        /\ mem[min].event # TS_SEND_RESCHED_START => recorded[b].event # TS_SEND_RESCHED_START
    BY <2>1, <2>2 DEF Spared, Record
  <2>5. Constrained(mem[scan], mem[min])
    BY <1>1
  <2> HIDE DEF a, b
  <2>6. QED
    BY <2>3, <2>4, <2>5 DEF Constrained
<1>7. FromFirst(a) < FromFirst(b)
  BY <1>2, <1>5, <1>6 DEF InRepair, Repairable
<1>8. Rank(mem[min]) <= Rank(mem[scan])
  BY <1>1 DEF InRepair, Sorting, Least
<1>9. QED
  BY <1>2, <1>7, <1>8

LEMMA SwapFirstKeepsSorting == ASSUME InRepair, SwapFirst PROVE Sorting'
<1>1. /\ pc = "shift" /\ pc' = "store" /\ pos' = pos /\ recorded' = recorded /\ count' = count
      /\ stats' = stats /\ tmp' = mem[scan] /\ scan \in 1 .. count /\ pos \in 2 .. (scan - 1)
      /\ count \in Nat
  BY SMTT(60) DEF SwapFirst, InRepair, TypeOK, Cursors, HolesInv, Moving
<1>2. \A k \in 1 .. count : mem'[k] = IF k = scan THEN mem[scan - 1] ELSE mem[k]
  BY DEF SwapFirst, InRepair, TypeOK
<1>3. Sorted(pos - 1) /\ Least(mem[scan]) /\ stats.aborted_moves = 0 /\ mem[1].id = 1
  BY <1>1 DEF InRepair, Sorting, Moving
<1>4. Sorted(pos - 1)'
  <2> SUFFICES ASSUME NEW i \in 1 .. (pos - 1), NEW j \in 1 .. count, i < j
               PROVE  Rank(mem'[i]) < Rank(mem'[j])
    BY <1>1 DEF Sorted, Rank
  <2>1. mem'[i] = mem[i] /\ i \in 1 .. count /\ i < scan - 1
    BY <1>1, <1>2
  <2>2. scan - 1 \in 1 .. count /\ mem'[j] \in {mem[j], mem[scan - 1]}
    BY <1>1, <1>2
  <2>3. QED
    BY <1>3, <2>1, <2>2 DEF Sorted
<1>5. Least(tmp)'
  <2> SUFFICES ASSUME NEW i \in pos .. count PROVE Rank(mem[scan]) <= Rank(mem'[i])
    BY <1>1 DEF Least, Rank
  <2>1. scan - 1 \in pos .. count /\ mem'[i] \in {mem[i], mem[scan - 1]}
    BY <1>1, <1>2
  <2>2. QED
    BY <1>3, <2>1 DEF Least
<1>6. \A i \in 1 .. (pos - 1) : Rank(mem'[i]) < Rank(tmp')
  <2> SUFFICES ASSUME NEW i \in 1 .. (pos - 1) PROVE Rank(mem'[i]) < Rank(mem[scan])
    BY <1>1
  <2>1. mem'[i] = mem[i] /\ i < scan
    BY <1>1, <1>2
  <2>2. QED
    BY <1>1, <1>3, <2>1 DEF Sorted
<1>7. mem'[1] = mem[1]
  BY <1>1, <1>2
<1>8. \A i \in 1 .. (pos - 1) : Rank(mem[i])' < Rank(tmp)'
  BY <1>1, <1>6 DEF Rank
<1>9. QED
  BY <1>1, <1>3, <1>4, <1>5, <1>7, <1>8 DEF Sorting, Moving

LEMMA SwapSecondKeepsSorting == ASSUME InRepair, SwapSecond PROVE Sorting'
<1>1. /\ pc = "store" /\ pc' = "shift" /\ pos' = pos /\ recorded' = recorded /\ count' = count
      /\ stats' = stats /\ scan \in 1 .. count /\ pos \in 2 .. (scan - 1) /\ scan' = scan - 1
      /\ count \in Nat
  BY DEF SwapSecond, InRepair, TypeOK, Cursors, HolesInv, Moving
<1>2. \A k \in 1 .. count : mem'[k] = IF k = scan - 1 THEN tmp ELSE mem[k]
  BY DEF SwapSecond, InRepair, TypeOK
<1>3. /\ Sorted(pos - 1) /\ Least(tmp) /\ stats.aborted_moves = 0 /\ mem[1].id = 1
      /\ \A i \in 1 .. (pos - 1) : Rank(mem[i]) < Rank(tmp)
  BY <1>1 DEF InRepair, Sorting, Moving
<1>4. Sorted(pos - 1)'
  <2> SUFFICES ASSUME NEW i \in 1 .. (pos - 1), NEW j \in 1 .. count, i < j
               PROVE  Rank(mem'[i]) < Rank(mem'[j])
    BY <1>1 DEF Sorted, Rank
  <2>1. mem'[i] = mem[i]
    BY <1>1, <1>2
  <2>2. mem'[j] \in {mem[j], tmp}
    BY <1>2
  <2>3. QED
    BY <1>3, <2>1, <2>2 DEF Sorted
<1>5. Least(mem[scan])'
  <2>1. mem'[scan'] = tmp
    BY <1>1, <1>2
  <2> SUFFICES ASSUME NEW i \in pos .. count PROVE Rank(tmp) <= Rank(mem'[i])
    BY <1>1, <2>1 DEF Least, Rank
  <2>2. Rank(tmp) \in Nat
    <3>1. tmp.seq_no \in SeqNumbers /\ recorded[1].seq_no \in SeqNumbers
      BY <1>1 DEF InRepair, Cursors, TypeOK, Record
    <3>2. QED
      BY <3>1, DistType DEF Rank
  <2>3. mem'[i] \in {mem[i], tmp}
    BY <1>1, <1>2
  <2>4. QED
    BY <1>3, <2>2, <2>3 DEF Least
<1>6. mem'[1] = mem[1]
  BY <1>1, <1>2
<1>7. QED
  BY <1>1, <1>3, <1>4, <1>5, <1>6 DEF Sorting, Moving

LEMMA MoveKeepsOrder == ASSUME InRepair, Move PROVE Sorting'
<1>1. CASE MovePasses \/ MoveBegins
  <2>1. /\ pc = "check" /\ UNCHANGED <<file, pos, stats, min>> /\ Least(mem[min])
        /\ pc' \in {"check", "shift"} /\ (pc' = "shift" => scan' = min)
    BY <1>1 DEF MovePasses, MoveBegins, finder, InRepair, Sorting
  <2>2. pc \in {"reorder"} \cup Moving
    BY <2>1 DEF Moving
  <2>3. Least(mem[min']) /\ (pc' = "shift" => Least(mem[scan']))
    BY <2>1
  <2>4. QED
    BY <2>1, <2>2, <2>3, LookKeepsOrder
<1>2. CASE MoveDone
  <2>1. /\ pc = "shift" /\ UNCHANGED <<file, pos>> /\ Least(mem[pos]) /\ pc' = "lineup"
        /\ stats'.aborted_moves = stats.aborted_moves
    BY <1>2 DEF MoveDone, Bump, InRepair, Sorting, TypeOK
  <2>2. pc \in {"reorder"} \cup Moving
    BY <2>1 DEF Moving
  <2>3. QED
    BY <2>1, <2>2, LookKeepsOrder
<1>3. QED
  BY <1>1, <1>2, NoneRefused, SwapFirstKeepsSorting, SwapSecondKeepsSorting DEF Move

\* The passes before and after reorder leave the order as it is.
LEMMA ElseKeepsOrder ==
    ASSUME InRepair, recorded' = recorded, count' = count,
           \A i \in 1 .. count : mem'[i].id = mem[i].id /\ mem'[i].seq_no = mem[i].seq_no,
           stats'.aborted_moves \in {0, stats.aborted_moves},
           \/ pc' \in {"precheck", "killed", "undefined"}
           \/ pc' = "reorder" /\ pos' = 1
           \/ pc' \in {"filter", "bound", "done"} /\ pc \in {"filter", "bound", "done"}
           \/ pc' \in {"filter", "done"} /\ pc = "reorder" /\ pos = count + 1
    PROVE  Sorting'
<1>1. count \in Nat
  BY DEF InRepair, TypeOK
<1>2. count' > 0 => mem'[1].id = 1
  BY <1>1 DEF InRepair, Sorting
<1>3. stats'.aborted_moves = 0
  BY DEF InRepair, Sorting
<1>4. CASE pc' \in {"precheck", "killed", "undefined"}
  BY <1>2, <1>3, <1>4 DEF Sorting, Moving
<1>5. CASE pc' = "reorder" /\ pos' = 1
  BY <1>2, <1>3, <1>5 DEF Sorting, Sorted, Moving
<1>6. ASSUME pc' \in {"filter", "bound", "done"}, Sorted(count) PROVE Sorting'
  <2>1. PICK n \in Int : n = count
    BY <1>1
  <2>2. Sorted(n)'
    BY <1>1, <1>6, <2>1, SameOrder DEF InRepair
  <2>3. Sorted(count)'
    BY <2>1, <2>2 DEF Sorted
  <2>4. QED
    BY <1>2, <1>3, <1>6, <2>3 DEF Sorting, Moving
<1>7. CASE pc' \in {"filter", "bound", "done"} /\ pc \in {"filter", "bound", "done"}
  BY <1>6, <1>7 DEF InRepair, Sorting
<1>8. CASE pc' \in {"filter", "done"} /\ pc = "reorder" /\ pos = count + 1
  <2>1. Sorted(pos - 1) /\ pos - 1 = count
    BY <1>1, <1>8 DEF InRepair, Sorting
  <2>2. QED
    BY <1>6, <1>8, <2>1
<1>9. QED
  BY <1>4, <1>5, <1>7, <1>8

LEMMA SortNext ==
    ASSUME TypeOK, Cursors, FileInv, OrderInv, SparedInv, SearchInv, HolesInv, SortInv,
           [Next]_vars
    PROVE  SortInv'
<1>1. recorded' = recorded /\ count' = count
  BY DEF Next, Step, Start, Kill, PreCheck, Reorder, Filter, Overrun, PreCheckSkip, PreCheckOutlier,
         PreCheckKeep, PreCheckDone, ReorderInPlace, ReorderSearch, Find, FindCandidate,
         FindNotInRange, FindGiveUp, FindDone, Move, MoveRefused, MovePasses, MoveBegins, SwapFirst,
         SwapSecond, MoveDone, LineUp, ReorderDone, FilterHole, FilterSchedStart, FilterLatency,
         FilterOther, BoundNext, BoundNone, BoundFound, FilterDone, vars, file
<1> SUFFICES ASSUME Repairable', Whole' PROVE Sorting'
  BY DEF SortInv
<1>2. Repairable
  BY <1>1 DEF Repairable, FromFirst
<1>3. Whole
  BY <1>1, NothingBack DEF Whole
<1>4. InRepair
  BY <1>2, <1>3 DEF SortInv, InRepair
<1>5. CASE ReorderInPlace
  BY <1>4, <1>5, InPlaceKeepsOrder
<1>6. CASE ReorderSearch
  <2>1. /\ pc \in {"reorder"} \cup Moving /\ pc' = "find"
        /\ UNCHANGED <<file, pos>> /\ stats' = stats
    BY <1>6 DEF ReorderSearch
  <2>2. QED
    BY <1>4, <2>1, LookKeepsOrder
<1>7. CASE Find
  BY <1>4, <1>7, FindKeepsOrder
<1>8. CASE Move
  BY <1>4, <1>8, MoveKeepsOrder
<1>9. CASE LineUp
  BY <1>4, <1>9, LineUpKeepsOrder
<1>10. CASE ReorderDone
  <2>1. /\ pc = "reorder" /\ pos = count + 1 /\ pc' \in {"filter", "done"} /\ mem' = mem
        /\ stats' = stats
    BY <1>10 DEF ReorderDone, file, TypeOK
  <2>2. QED
    BY <1>1, <1>4, <2>1, ElseKeepsOrder
<1>11. CASE PreCheckOutlier \/ BoundFound
  <2>1. \A i \in 1 .. count : mem'[i].id = mem[i].id /\ mem'[i].seq_no = mem[i].seq_no
    BY <1>11, MarksKeepData
  <2>2. stats'.aborted_moves = stats.aborted_moves
    BY <1>11 DEF PreCheckOutlier, BoundFound, Bump, TypeOK
  <2>3. pc' = "precheck" \/ (pc' = "filter" /\ pc = "bound")
    BY <1>11 DEF PreCheckOutlier, BoundFound
  <2>4. QED
    BY <1>1, <1>4, <2>1, <2>2, <2>3, ElseKeepsOrder
<1>12. CASE Start \/ PreCheckSkip \/ PreCheckKeep \/ PreCheckDone \/ Overrun \/ Kill
  <2>1. /\ mem' = mem /\ stats'.aborted_moves \in {0, stats.aborted_moves}
        /\ pc' \in {"precheck", "killed", "undefined"} \/ (pc' = "reorder" /\ pos' = 1)
    BY <1>12 DEF Start, PreCheckSkip, PreCheckKeep, PreCheckDone, Overrun, Kill, file, NoStats
  <2>2. QED
    BY <1>1, <1>4, <2>1, ElseKeepsOrder
<1>13. CASE \/ FilterHole \/ FilterSchedStart \/ FilterLatency \/ FilterOther
            \/ BoundNext \/ BoundNone \/ FilterDone
  <2>1. /\ mem' = mem /\ stats' = stats
        /\ pc' \in {"filter", "bound", "done"} /\ pc \in {"filter", "bound", "done"}
    BY <1>13 DEF FilterHole, FilterSchedStart, FilterLatency, FilterOther, BoundNext, BoundNone,
                 FilterDone, file
  <2>2. QED
    BY <1>1, <1>4, <2>1, ElseKeepsOrder
<1>14. CASE UNCHANGED vars
  BY <1>4, <1>14 DEF InRepair, Sorting, Sorted, Least, Rank, vars, file, finder
<1>15. QED
  BY <1>5, <1>6, <1>7, <1>8, <1>9, <1>10, <1>11, <1>12, <1>13, <1>14
     DEF Next, Step, PreCheck, Reorder, Filter

LEMMA InitSort == Init => SparedInv /\ SortInv
<1> SUFFICES ASSUME Init PROVE SparedInv /\ SortInv
  OBVIOUS
<1>1. TypeOK /\ FileInv /\ pc = "idle" /\ mem = recorded /\ stats.aborted_moves = 0
  BY InitTypes, InitFile DEF Init, NoStats
<1>2. \A i \in 1 .. count : recorded[i].id = i
  BY <1>1 DEF FileInv
<1>3. SparedInv
  BY <1>1, <1>2 DEF SparedInv, Spared, UINT8_MAX, TS_SEND_RESCHED_START
<1>4. count > 0 => mem[1].id = 1
  BY <1>1, <1>2 DEF TypeOK
<1>5. QED
  BY <1>1, <1>3, <1>4 DEF SortInv, Sorting, Moving

-----------------------------------------------------------------------------
\* In a sorted file a record follows on if the number before its own was recorded.
LEMMA FollowsRecorded ==
    ASSUME TypeOK, FileInv, Repairable, Whole, pc # "store", Sorted(count), NEW i \in 2 .. count
    PROVE  FollowsOn(i) <=> \E j \in 1 .. count : FromFirst(j) = Rank(mem[i]) - 1
<1>1. count \in Nat /\ i \in 1 .. count /\ i - 1 \in 1 .. count /\ i - 1 < i /\ 1 \in 1 .. count
  BY DEF TypeOK
<1>2. \A k \in 1 .. count : /\ mem[k].id \in 1 .. count /\ Rank(mem[k]) = FromFirst(mem[k].id)
                            /\ Rank(mem[k]) \in Nat
  BY Ranks
<1>3. \A k, l \in 1 .. count : k < l => Rank(mem[k]) < Rank(mem[l])
  BY DEF Sorted
<1>4. FollowsOn(i) <=> Rank(mem[i]) = Rank(mem[i - 1]) + 1
  <2> DEFINE a == mem[i - 1].seq_no
             b == mem[i].seq_no
             o == recorded[1].seq_no
  <2>1. recorded[1] \in Record
    BY <1>1 DEF TypeOK
  <2>2. a \in SeqNumbers /\ b \in SeqNumbers /\ o \in SeqNumbers /\ next_seq_number(a) \in SeqNumbers
    BY <1>1, <2>1, FieldTypes, NextType DEF Record
  <2>3. Dist(next_seq_number(a), b) = Rank(mem[i]) - Rank(mem[i - 1]) - 1
    BY <1>1, <1>3, <2>2, DistFromNext DEF Rank
  <2>4. Dist(next_seq_number(a), b) = 0 <=> next_seq_number(a) = b
    BY <2>2, DistTells, DistType
  <2>5. QED
    BY <1>1, <1>2, <2>3, <2>4 DEF FollowsOn
<1>5. ASSUME NEW j \in 1 .. count, FromFirst(j) = Rank(mem[i]) - 1
      PROVE  Rank(mem[i]) = Rank(mem[i - 1]) + 1
  <2>1. PICK k \in 1 .. count : mem[k].id = j
    BY DEF Whole, Kept, Ids
  <2>2. Rank(mem[k]) = Rank(mem[i]) - 1
    BY <1>2, <1>5, <2>1
  <2>3. ~(i < k) /\ k # i
    BY <1>1, <1>2, <1>3, <2>2
  <2>4. ~(k < i - 1)
    <3>1. SUFFICES ASSUME k < i - 1 PROVE FALSE
      OBVIOUS
    <3>2. Rank(mem[k]) < Rank(mem[i - 1]) /\ Rank(mem[i - 1]) < Rank(mem[i])
      BY <1>1, <1>3, <3>1
    <3>3. /\ Rank(mem[k]) \in Nat /\ Rank(mem[i - 1]) \in Nat /\ Rank(mem[i]) \in Nat
      BY <1>1, <1>2
    <3>4. QED
      BY <2>2, <3>2, <3>3
  <2>5. k = i - 1
    BY <1>1, <2>3, <2>4
  <2>6. QED
    BY <1>1, <1>2, <2>2, <2>5
<1>6. Rank(mem[i]) = Rank(mem[i - 1]) + 1 => FromFirst(mem[i - 1].id) = Rank(mem[i]) - 1
  BY <1>1, <1>2
<1>7. QED
  BY <1>1, <1>2, <1>4, <1>5, <1>6

\* The holes of a sorted file are the runs of missing numbers, one to one.
LEMMA HolesAreRuns ==
    ASSUME TypeOK, FileInv, Repairable, Whole, pc # "store", Sorted(count),
           count > 0 => mem[1].id = 1
    PROVE  HolesBefore(count) = MissingRuns
<1> DEFINE H == {i \in 2 .. count : ~FollowsOn(i)}
           M == {i \in 1 .. count :
                   FromFirst(i) # 0 /\ \A j \in 1 .. count : FromFirst(j) # FromFirst(i) - 1}
           f == [i \in H |-> mem[i].id]
<1>1. count \in Nat /\ \A i \in 2 .. count : i \in 1 .. count
  BY DEF TypeOK
<1>2. \A i \in 2 .. count : i \in H <=> \A j \in 1 .. count : FromFirst(j) # Rank(mem[i]) - 1
  BY FollowsRecorded
<1>3. \A i \in 1 .. count : /\ mem[i].id \in 1 .. count /\ Rank(mem[i]) = FromFirst(mem[i].id)
                            /\ Rank(mem[i]) \in Nat
  BY Ranks
<1>4. \A i \in 2 .. count : Rank(mem[i]) # 0
  <2> SUFFICES ASSUME NEW i \in 2 .. count PROVE Rank(mem[i]) # 0
    OBVIOUS
  <2>1. 1 \in 1 .. count /\ i \in 1 .. count /\ 1 < i
    BY <1>1
  <2>2. Rank(mem[1]) < Rank(mem[i])
    BY <2>1 DEF Sorted
  <2>3. QED
    BY <1>3, <2>1, <2>2
<1>5. f \in [H -> M]
  <2> SUFFICES ASSUME NEW i \in H PROVE mem[i].id \in M
    OBVIOUS
  <2>1. /\ mem[i].id \in 1 .. count /\ Rank(mem[i]) = FromFirst(mem[i].id)
        /\ Rank(mem[i]) # 0 /\ \A j \in 1 .. count : FromFirst(j) # Rank(mem[i]) - 1
    BY <1>1, <1>2, <1>3, <1>4
  <2>2. QED
    BY <2>1
<1>6. \A m \in M : \E i \in H : f[i] = m
  <2> SUFFICES ASSUME NEW m \in M PROVE \E i \in H : mem[i].id = m
    OBVIOUS
  <2>1. PICK i \in 1 .. count : mem[i].id = m
    BY DEF Whole, Kept, Ids
  <2>2. Rank(mem[i]) = FromFirst(m)
    BY <1>3, <2>1
  <2>3. i # 1
    <3>1. SUFFICES ASSUME i = 1 PROVE FALSE
      OBVIOUS
    <3>2. count > 0 /\ 1 \in 1 .. count
      BY <1>1, <3>1
    <3>3. m = 1
      BY <2>1, <3>1, <3>2
    <3>4. recorded[1] \in Record
      BY <3>2 DEF TypeOK
    <3>5. FromFirst(1) = 0
      BY <3>4, DistType DEF FromFirst, Record
    <3>6. QED
      BY <3>3, <3>5
  <2>4. i \in 2 .. count
    BY <1>1, <2>3
  <2>5. \A j \in 1 .. count : FromFirst(j) # Rank(mem[i]) - 1
    BY <2>2
  <2>6. i \in H
    BY <1>2, <2>4, <2>5
  <2>7. QED
    BY <2>1, <2>6
<1>7. \A i, j \in H : f[i] = f[j] => i = j
  BY <1>1, InOnePlace
<1>8. f \in Bijection(H, M)
  BY <1>5, <1>6, <1>7 DEF Bijection, Injection, Surjection, IsInjective
<1>9. IsFiniteSet(H)
  BY <1>1, LostFinite
<1>10. Cardinality(H) = Cardinality(M)
  <2> HIDE DEF H, M, f
  <2>1. ExistsBijection(H, M)
    BY <1>8 DEF ExistsBijection
  <2>2. QED
    BY <1>9, <2>1, FS_Bijection
<1>11. QED
  BY <1>10 DEF HolesBefore, MissingRuns

(***************************************************************************)
(* For every file, every size of the numbers and of the window, and any    *)
(* runs and kills before: a run that comes to its end leaves a file that   *)
(* can be repaired, and has lost no record, in the order of its numbers,   *)
(* reports as many holes as there are runs of missing numbers, and refuses *)
(* no move.                                                                *)
(***************************************************************************)
THEOREM RepairTheorem == Spec => []Repairs
<1>1. Spec => [](TypeOK /\ Cursors)
  BY InitTypes, NextTypes, PTL DEF Spec
<1>2. Spec => [](FileInv /\ OrderInv)
  BY <1>1, InitFile, NextKeepsFile, InitInOrder, NextKeepsOrder, PTL DEF Spec
<1>3. Init => SearchInv /\ HolesInv
  BY DEF Init, SearchInv, HolesInv, Moving
<1>4. Spec => [](SearchInv /\ HolesInv)
  BY <1>1, <1>3, NextKeepsSearch, NextKeepsHoles, PTL DEF Spec
<1>5. Spec => []SparedInv
  BY <1>1, <1>2, InitSort, SparedNext, PTL DEF Spec
<1>6. Spec => []SortInv
  BY <1>1, <1>2, <1>4, <1>5, InitSort, SortNext, PTL DEF Spec
<1>7. TypeOK /\ FileInv /\ HolesInv /\ SortInv => Repairs
  <2> SUFFICES ASSUME TypeOK, FileInv, HolesInv, SortInv, pc = "done", Repairable, Lost = {}
               PROVE  /\ \A i \in 1 .. (count - 1) :
                           Dist(recorded[1].seq_no, mem[i].seq_no)
                             < Dist(recorded[1].seq_no, mem[i + 1].seq_no)
                      /\ stats.holes = MissingRuns /\ stats.aborted_moves = 0
    BY DEF Repairs
  <2>1. Whole
    BY DEF Lost, Whole, Kept, Ids, FileInv, IsRecorded
  <2>2. Sorted(count) /\ stats.aborted_moves = 0 /\ (count > 0 => mem[1].id = 1)
    BY <2>1 DEF SortInv, Sorting
  <2>3. stats.holes = MissingRuns
    BY <2>1, <2>2, HolesAreRuns DEF HolesInv
  <2>4. ASSUME NEW i \in 1 .. (count - 1) PROVE Rank(mem[i]) < Rank(mem[i + 1])
    <3>1. i \in 1 .. count /\ i + 1 \in 1 .. count /\ i < i + 1
      BY DEF TypeOK
    <3>2. QED
      BY <2>2, <3>1 DEF Sorted
  <2>5. QED
    BY <2>2, <2>3, <2>4 DEF Rank
<1>8. QED
  BY <1>1, <1>2, <1>4, <1>6, <1>7, PTL
=============================================================================
