------------------------------ MODULE MCFtSort ------------------------------
(***************************************************************************)
(* The small files on which TLC explores ftsort: 16 sequence numbers, a    *)
(* look-ahead of 3, three CPUs, files of up to five records.               *)
(***************************************************************************)
EXTENDS FtSort

\* The numbers 14 and 6 make a file cross the wrap-around of the counter and
\* the change of its sign.
Bases == {14, 6}

Injective(s) == \A i, j \in DOMAIN s : s[i] = s[j] => i = j

Rec(i, ts, pid, seq, cpu, ev) ==
    [id |-> i, timestamp |-> ts, pid |-> pid, seq_no |-> seq % SeqMod,
     cpu |-> cpu, event |-> ev]

-----------------------------------------------------------------------------
(* Files whose records are constrained in different ways: the first two    *)
(* kinds share a task, the third is a SEND_RESCHED_START, and the fourth   *)
(* shares a CPU with the first but is not of a real-time task (pid 0).     *)
Kinds == << [cpu |-> 0, pid |-> 1, event |-> TS_CXS_START],
            [cpu |-> 1, pid |-> 1, event |-> TS_CXS_END],
            [cpu |-> 0, pid |-> 1, event |-> TS_SEND_RESCHED_START],
            [cpu |-> 0, pid |-> 0, event |-> TS_SCHED_START],
            [cpu |-> 2, pid |-> 0, event |-> TS_RELEASE_START] >>

KindFile(offsets, kinds, base) ==
    [i \in DOMAIN offsets |->
       Rec(i, i, Kinds[kinds[i]].pid, base + offsets[i], Kinds[kinds[i]].cpu,
           Kinds[kinds[i]].event)]

KindFiles(offsets, kinds, bases) ==
    {KindFile(o, k, b) : o \in {f \in offsets : Injective(f)}, k \in kinds, b \in bases}

\* The first record anywhere, others close to it, just out of range or far.
AnyOrder == KindFiles({<<0>> \o f : f \in [1 .. 3 -> {-1, 1, 2, 4, 8}]},
                      {<<1>> \o k : k \in [1 .. 3 -> {1, 2, 3}]}, Bases)
              \cup {<<>>}

\* The first record is the first; the others are shuffled and one is missing,
\* within the window or one beyond it.
Shuffled == KindFiles({<<0>> \o f : f \in [1 .. 3 -> 1 .. 4]},
                      {<<5>> \o k : k \in [1 .. 3 -> 1 .. 4]}, {14})

-----------------------------------------------------------------------------
(* Files in sequence whose timestamps go up and down, with up to one record*)
(* of another CPU and one that the pre-check does not look at.             *)
Few(k, n, most) == Cardinality({i \in DOMAIN k : k[i] = n}) <= most

Disturbed ==
    {[i \in 1 .. 5 |-> Rec(i, ts[i], 0, i, IF kind[i] = 2 THEN 1 ELSE 0,
                           IF kind[i] = 3 THEN TS_SEND_RESCHED_START ELSE TS_CXS_START)] :
        ts \in [1 .. 5 -> 1 .. 3], kind \in {k \in [1 .. 5 -> 1 .. 3] : k[1] = 1 /\ Few(k, 2, 1) /\ Few(k, 3, 1)}}
    \cup {<<Rec(1, 1, 0, 1, 3, TS_SCHED_START)>>}   \* of a CPU without a slot

-----------------------------------------------------------------------------
(* Files with latencies between scheduler and release records, on two CPUs,*)
(* with a missing number at one of their places or at none.                *)
LatencyKinds == << <<0, TS_SCHED_START>>, <<1, TS_SCHED_START>>, <<0, TS_RELEASE_START>>,
                   <<0, TS_RELEASE_LATENCY>>, <<1, TS_RELEASE_LATENCY>> >>

Latencies ==
    {[i \in 1 .. 5 |->
        LET kind == LatencyKinds[kinds[i]]
        IN  Rec(i, IF kind[2] = TS_RELEASE_LATENCY THEN latency ELSE 10 * i, 0,
                IF i < hole THEN i ELSE i + 1, kind[1], kind[2])] :
        kinds \in {k \in [1 .. 5 -> 1 .. 5] : k[1] < 4 /\ k[5] < 4 /\ Few(k, 4, 2) /\ Few(k, 5, 1)},
        hole \in {3, 6}, latency \in {20, 31}}
    \cup {<<Rec(1, 9, 0, 1, 3, TS_RELEASE_LATENCY), Rec(2, 9, 0, 2, 0, TS_SCHED_START)>>}

Files == AnyOrder \cup Disturbed \cup Latencies \cup Shuffled

-----------------------------------------------------------------------------
(* Every file is sorted once; the shuffled ones also by a run that is      *)
(* killed and by another one.                                              *)
Again == recorded \in Shuffled

MCNext == Step \/ (Start /\ (runs = 0 \/ Again)) \/ (Kill /\ Again)
MCSpec == Init /\ [][MCNext]_vars /\ WF_vars(Step)
=============================================================================
