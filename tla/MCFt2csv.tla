------------------------------ MODULE MCFt2csv ------------------------------
(***************************************************************************)
(* Small files and command lines for ft2csv, one world for each way of     *)
(* looking for an END.  Every file begins with an END, so that the records *)
(* after it are looked at, except where the skipping is the question.      *)
(***************************************************************************)
EXTENDS Ft2csv

CONSTANT Worlds     \* which of the sets of files and options below are used

Rec(ts, pid, cpu, ev, type, irq) ==
    [timestamp |-> ts, pid |-> pid, seq_no |-> 0, cpu |-> cpu, event |-> ev,
     task_type |-> type, irq_flag |-> irq]

\* The sequence numbers of a file that lacks a record before position hole; they
\* cross the wrap-around of the counter.
Numbered(s, hole) ==
    [i \in DOMAIN s |->
       [s[i] EXCEPT !.seq_no = (SeqMod - 3 + (IF i < hole THEN i ELSE i + 1)) % SeqMod]]

Default == [id |-> 0, find_by_pid |-> "auto", interleaved |-> TRUE, best_effort |-> FALSE,
            interrupted |-> FALSE, max_interleaved_skipped |-> 0,
            avoid_cpu |-> -1, only_cpu |-> -1]

-----------------------------------------------------------------------------
(* Matching by CPU: context switches on CPU 0 and 1.                       *)
EidRec(kind, ts) ==
    CASE kind = "start"    -> Rec(ts, 1, 0, TS_CXS_START, TSK_RT, FALSE)
      [] kind = "start be" -> Rec(ts, 1, 0, TS_CXS_START, TSK_BE, FALSE)
      [] kind = "end"      -> Rec(ts, 2, 0, TS_CXS_END, TSK_RT, FALSE)
      [] kind = "end be"   -> Rec(ts, 2, 0, TS_CXS_END, TSK_UNKNOWN, FALSE)
      [] kind = "end irq"  -> Rec(ts, 2, 0, TS_CXS_END, TSK_RT, TRUE)
      [] kind = "end late" -> Rec(1, 2, 0, TS_CXS_END, TSK_RT, FALSE)
      [] kind = "other"    -> Rec(ts, 1, 0, TS_SCHED_START, TSK_RT, FALSE)
      [] kind = "irq"      -> Rec(ts, 1, 0, TS_SCHED_START, TSK_RT, TRUE)
      [] kind = "start 1"  -> Rec(ts, 3, 1, TS_CXS_START, TSK_RT, FALSE)
      [] kind = "end 1"    -> Rec(ts, 4, 1, TS_CXS_END, TSK_RT, FALSE)

EidKinds == {"start", "start be", "end", "end be", "end irq", "end late", "other", "irq",
             "start 1", "end 1"}

EidTraces ==
    {Numbered([i \in 1 .. 4 |-> EidRec(IF i = 1 THEN "end" ELSE k[i], i)], hole) :
       k \in [2 .. 4 -> EidKinds], hole \in {3, 5}}
    \cup {Numbered([i \in 1 .. 5 |-> EidRec(k[i], i)], 6) :
       k \in [1 .. 5 -> {"start", "end", "other", "end 1"}]}

EidCommands ==
    {[Default EXCEPT !.id = TS_CXS_START, !.interleaved = o[1], !.best_effort = o[2],
                     !.interrupted = o[3]] : o \in BOOLEAN \X BOOLEAN \X BOOLEAN}
    \cup {[Default EXCEPT !.id = TS_CXS_START, !.avoid_cpu = 1],
          [Default EXCEPT !.id = TS_CXS_START, !.only_cpu = 1]}

-----------------------------------------------------------------------------
(* Matching by task: system calls of two tasks on two CPUs.                *)
PlainRec(kind, ts) ==
    CASE kind = "start"   -> Rec(ts, 1, 0, TS_SYSCALL_IN_START, TSK_RT, FALSE)
      [] kind = "end"     -> Rec(ts, 1, 0, TS_SYSCALL_IN_END, TSK_RT, FALSE)
      [] kind = "end 1"   -> Rec(ts, 1, 1, TS_SYSCALL_IN_END, TSK_RT, TRUE)
      [] kind = "end late" -> Rec(1, 1, 0, TS_SYSCALL_IN_END, TSK_RT, FALSE)
      [] kind = "own"     -> Rec(ts, 1, 0, TS_SCHED_START, TSK_RT, FALSE)
      [] kind = "own irq" -> Rec(ts, 1, 0, TS_SCHED_START, TSK_RT, TRUE)
      [] kind = "other"   -> Rec(ts, 2, 0, TS_SYSCALL_IN_END, TSK_RT, FALSE)
      [] kind = "irq"     -> Rec(ts, 2, 0, TS_SCHED_START, TSK_RT, TRUE)
      [] kind = "irq 1"   -> Rec(ts, 2, 1, TS_SYSCALL_IN_START, TSK_RT, TRUE)

PlainKinds == {"start", "end", "end 1", "end late", "own", "own irq", "other", "irq", "irq 1"}

PlainTraces ==
    {Numbered([i \in 1 .. 5 |-> PlainRec(IF i = 1 THEN "end" ELSE k[i], i)], 6) :
       k \in {f \in [2 .. 5 -> PlainKinds] : f[5] \in {"end", "end 1", "end late", "own"}}}
    \cup {Numbered([i \in 1 .. 5 |-> PlainRec(IF i = 1 THEN "end" ELSE k[i], i)], 4) :
       k \in [2 .. 5 -> {"start", "end", "own", "irq"}]}

PlainCommands ==
    {[Default EXCEPT !.id = TS_SYSCALL_IN_START, !.find_by_pid = "pid", !.interrupted = o[1],
                     !.max_interleaved_skipped = o[2]] : o \in BOOLEAN \X (0 .. 2)}

-----------------------------------------------------------------------------
(* Following a task through its suspensions: files that differ in up to    *)
(* two places from one of a few sequences of events; the time stamps grow, *)
(* but one of them may be lower than those before it.                      *)
ExecRec(kind, ts) ==
    CASE kind = "start"   -> Rec(ts, 1, 0, TS_LOCK_START, TSK_RT, FALSE)
      [] kind = "end"     -> Rec(ts, 1, 0, TS_LOCK_END, TSK_RT, FALSE)
      [] kind = "suspend" -> Rec(ts, 1, 0, TS_LOCK_SUSPEND, TSK_RT, FALSE)
      [] kind = "resume"  -> Rec(ts, 1, 1, TS_LOCK_RESUME, TSK_RT, FALSE)
      [] kind = "out"     -> Rec(ts, 1, 0, TS_SCHED_START, TSK_RT, FALSE)
      [] kind = "in"      -> Rec(ts, 1, 1, TS_SCHED_END, TSK_RT, FALSE)
      [] kind = "end 1"   -> Rec(ts, 1, 1, TS_LOCK_END, TSK_RT, TRUE)
      [] kind = "irq"     -> Rec(ts, 2, 0, TS_SCHED_START, TSK_RT, TRUE)
      [] kind = "irq 1"   -> Rec(ts, 2, 1, TS_SCHED_END, TSK_RT, TRUE)

ExecKinds == {"start", "end", "suspend", "resume", "out", "in", "end 1", "irq", "irq 1"}

Templates == { <<"end", "start", "suspend", "out", "in", "resume", "end">>,
               <<"end", "start", "suspend", "resume", "suspend", "resume", "end">>,
               <<"end", "start", "end", "start", "suspend", "resume", "end">> }

Altered(t) == {[[t EXCEPT ![i] = a] EXCEPT ![j] = b] :
                 i \in 2 .. 7, j \in 2 .. 7, a \in ExecKinds, b \in ExecKinds}

ExecTraces ==
    {Numbered([i \in DOMAIN k |-> ExecRec(k[i], IF i = late THEN i ELSE 2 * i)], hole) :
       k \in UNION {Altered(t) : t \in Templates}, late \in {3, 6, 8}, hole \in {8}}
    \cup {Numbered([i \in DOMAIN k |-> ExecRec(k[i], i)], hole) :
       k \in Templates, hole \in 2 .. 8}

ExecCommands ==
    {[Default EXCEPT !.id = TS_LOCK_START, !.interrupted = x] : x \in BOOLEAN}

-----------------------------------------------------------------------------
(* Records that are measurements by themselves.                            *)
SingleTraces ==
    {Numbered([i \in 1 .. 3 |-> Rec(i, 1, k[i][1], k[i][2], k[i][3], FALSE)], 4) :
       k \in [1 .. 3 -> {0, 1} \X {TS_RELEASE_LATENCY, TS_SCHED_START} \X {TSK_BE, TSK_RT}]}

SingleCommands ==
    {[Default EXCEPT !.id = TS_RELEASE_LATENCY, !.best_effort = b, !.avoid_cpu = a,
                     !.only_cpu = o] :
       b \in BOOLEAN, a \in {-1, 0}, o \in {-1, 1}}

-----------------------------------------------------------------------------
World(name) ==
    CASE name = "eid"    -> [traces |-> EidTraces, commands |-> EidCommands]
      [] name = "plain"  -> [traces |-> PlainTraces, commands |-> PlainCommands]
      [] name = "exec"   -> [traces |-> ExecTraces, commands |-> ExecCommands]
      [] name = "single" -> [traces |-> SingleTraces, commands |-> SingleCommands]

WorldJobs == {World(name) : name \in Worlds}
=============================================================================
