# Feather-Trace tools: a TLA+ model

The Feather-Trace tools record, repair and evaluate traces of the LITMUS^RT
kernel: overhead traces (`ftcat`, `ftsort`, `ft2csv` and the `ft-*` scripts) and
schedule traces (`st-*`, `stdump`, the Python package `sched_trace`). This
directory holds TLA+ modules of the parts whose logic is hard to test, TLC
configurations that check them on small instances, and TLAPS proofs for
instances of any size.

    tlc -workers 2 -config FtSort.cfg MCFtSort       # model checking
    tlapm FtSortProofs.tla                           # proofs

`PROJECT.json` lists components, runs, findings, hazards and theorems, and maps
every definition to the lines it was translated from.

## 1. The system

### Parts, state and operations

| Part | State | Operations | Status |
|---|---|---|---|
| Feather-Trace devices (kernel) | events that are on, a bounded buffer, a counter of records | events occur; `ioctl`, `read` | external, inside `FtCat` |
| `ftcat` (`src/ftcat.c`) | `ids[]`, `event_count`, the handler flag, bytes written | switch events on, ping, read loop, signal handler | `FtCat` |
| `ft-trace-overheads` | `PIDS`, `COUNT`, the PID files, its trap | spawn tracers, count PID files, announce, wait, end | `TraceSession` |
| `st-trace-schedule` | the same | the same, for other devices and events | `TraceSession` |
| `ftsort` (`src/ftsort.c`) | the mapped file, per-CPU tables, cursors, statistics | pre-check, reorder, latency filter | `FtSort`, `SeqNo` |
| `ft2csv` (`src/ft2csv.c`) | position, counters, the search of the moment | match by CPU or task, follow suspensions, single records | `Ft2csv` |
| event numbers (`include/timestamp.h`, `src/timestamp.c`) | none | classify, name | `Timestamp` (numbers only) |
| binomial heap (`include/heap.h`) | trees, cached minimum, references | insert, union, peek, take, decrease, delete | `Heap`, `PriorityQueue` |
| loading of schedules (`src/load.c`, `eheap.c`, `util.c`, `include/sched_trace.h`) | event heap, task table, event lists | map files, unite heaps, take in order, split by task | `ScheduleTrace`, `ScheduleLoad`, `JobStats` (the split) |
| `st_job_stats` (`src/job_stats.c`) | task table, the task and event looked at | filter, pair releases and completions, count preemptions and migrations | `JobStats` |
| `stdump` (`src/stdump.c`) | the heap, the first time | print in order, find the release | `StDump` |
| `ftdump` | a file position | print | not modelled |
| `mapping.c` | a mapping | map a file private or shared | its effect, in `FtSort` |
| sample scripts (`ft-extract-samples`, `ft-combine-samples`, `ft-count-samples`, `ft-select-samples`, `ft-shuffle-truncate`) | sample files, `counts.csv` | append, count, shuffle, truncate | `SamplePipeline` |
| `ft-sort-traces` | none | run `ftsort` on each file | the repeated and killed runs of `FtSort` |
| `ft-compute-stats` | none | numpy statistics | not modelled |
| `sched_trace/`, `st-draw` | cached attributes, iterators | choose the interval, find active tasks, pair switches, draw | `StDraw` (all but the drawing itself) |
| Makefile, docs | | | quoted where the code disagrees |

### How they interact

    kernel device --read()--> ftcat --file--> ftsort --same file--> ft2csv --> samples --> scripts
                                |  ^ signals, PID files
                                |  ft-trace-overheads, st-trace-schedule <-- ENTER or SIGUSR1 -- user
                                |
                                +--files--> load (heap per file, united) --> st_job_stats, stdump
                                +--files--> sched_trace.file --> st-draw

Only the tracing session has processes that run at the same time: the script,
one `ftcat` per device, the kernel, the user. They meet through signals, PID
files, `wait` and the device buffers. The other tools are sequential programs
that communicate through files. What is hard in them is the data they meet:
records that are out of order, missing, from several CPUs and tasks, with time
stamps that run backwards and counters that wrap around. `ftsort`, which edits
its input in place, also has to leave something usable behind when it is killed,
and the sample scripts, which append to what an earlier run left, when one of them
is interrupted or repeated.

### What makes each part correct

- `ftcat`: a signal at any moment switches off exactly what is on; no record the
  device took is lost at a regular end; a signal ends the process.
- session: "tracing is on" is said only when it is; a session that ends leaves no
  process and complete files.
- `ftsort`: never reorders records of one CPU or one task, loses nothing, sorts
  what can be sorted, counts holes truthfully, marks only on evidence.
- `ft2csv`: writes exactly the samples the file contains, with the right times,
  and a report that adds up.
- heap: is a priority queue, with references that follow the items.
- loading: every record comes out of the heap once, in the order of time, and goes
  to the list of its task.
- `st_job_stats`: every job gets a row with its own completion, a real response
  time, and the switches of this job and no other.
- `stdump`: prints every record in order; reports the first release.
- `st-draw`: draws every time at which a task ran in the interval, once, however
  records of switches were lost.
- sample scripts: no sample is lost, none is doubled unless a step was repeated,
  and a finished selection has files of one size.

## 2. The modules

| Module | Content | Extends or uses |
|---|---|---|
| `Timestamp` | event numbers and ranges | |
| `SeqNo` | 32-bit sequence numbers, `in_range`, `is_lower_seqno`, the distance they approximate | |
| `FtSort`, `MCFtSort`, `FtSortProofs` | `ftsort`; its small files; theorems | `Timestamp`, `SeqNo` |
| `Ft2csv`, `MCFt2csv`, `Ft2csvProofs` | `ft2csv`; its small files; theorems | `Timestamp`, `SeqNo` |
| `FtCat` | a set of tracers with their devices, which is also the abstract specification of what a session may do to them | |
| `TraceSession`, `MCTracing`, `TraceSessionProofs` | the tracing scripts with their tracers; sessions and tracers run by hand; theorems about these and about tracers alone | `FtCat` |
| `PriorityQueue` | what a heap promises | |
| `Heap`, `MCHeap`, `HeapProofs` | `heap.h`, implementing `PriorityQueue`; symmetry; theorems | `PriorityQueue` as an instance |
| `ScheduleTrace` | the records and files of a schedule trace, the command line | |
| `ScheduleLoad` | `load` and `heap_take`, for the programs that use them, on an abstract heap | `ScheduleTrace`, `PriorityQueue` as an instance |
| `JobStats`, `JobStatsProofs` | `st_job_stats`; theorems | `ScheduleLoad`, `ScheduleProofs`, `Induction` |
| `StDump` | `stdump` | `ScheduleLoad` |
| `StDraw` | `st-draw` with `sched_trace` | `ScheduleTrace` |
| `ScheduleProofs` | theorems on loading, `stdump` and `st-draw` | `StDump`, `StDraw` |
| `MCSchedule` | the three programs side by side on small traces | `JobStats`, `StDump`, `StDraw` |
| `SamplePipeline`, `MCSamples`, `SamplePipelineProofs` | the sample scripts and their user; small campaigns; theorems | |
| `Induction` | lemmas that other proofs share: induction over numbers, sums | |

Definitions named `Mutant: ...` in their comment are never part of a
specification. Each is a plausible bug in the definition that follows it, and the
property named with it in `PROJECT.json` fails when it takes that place.

### FtSort

State: `mem` is the shared mapping, hence the file; `recorded` is what the tracer
wrote; `pos` and `scan` are the cursors of the outer and inner loop, `min` the
candidate of `find_lowest_seq_no`, `tmp` the copy of a swap; `prev_on`, `pos_on`
and `last_preemptable` the per-CPU tables; `stats` the report. One action is one
turn of a loop. A move stores record by record (`SwapFirst`, `SwapSecond`), so
that `Kill` can fall between two stores; `Start` runs the tool again on the file
it finds, and `MaxRuns` and `MaxKills` bound that. A record carries its recorded
position `id`, a ghost field only the properties read.

The tables have `MAX_CPUS` slots. A CPU number without one takes the process to
`pc = "undefined"` (`Overrun`): in the code it is an access out of bounds after
which anything may happen, and nothing is claimed of it. The code has UINT8_MAX =
255 slots although CPU numbers go up to 255
(`doc/howto-trace-and-process-overheads.md:79`).

Abstractions: the numbers of `SeqNo` are smaller than the code's (section 4); a
copy of one record is atomic; `-s` and `-e` are left out (section 8).

### Ft2csv

State: `start` is the record of the outermost loop, `first` and `pos` the
beginning and the cursor of the current search, `last_time` and `sum` those of
`accumulate_exec_time`, `stats` the counters, `out` the samples. `pc` names the
loop: `skip`, `scan` (`show_id`), `eid` (`next_id`), and one location for each call
of `next_pid`: `plain`, `exec`, `suspended`, `preempted`, `resuming`. One action is
one record looked at, with what is counted on the way.

The properties compare this with definitions that only speak of the file:
`IsEidSample`, `IsPlainSample` and `IsExecSample` say when two positions are a
sample, and `SamplesExact` that exactly those pairs are written. They also record
behaviour a reader may not expect: everything before the first END is skipped, -i
is read only when matching by CPU, `-s` lets two STARTs share an END, a SCHED_END
is not compared with the RESUME after it, and a sample dropped by an interrupt
on its way is in no counter when matching by CPU.

Time stamps are exact natural numbers. That no unsigned subtraction of the code
wraps around is a property (`Ft2csvTypeOK`: `sum` and `exec_time` are natural).
The list of events (-l) and the output format are left out.

### FtCat and TraceSession

`FtCat` models any number of tracers. `NoteEvent` and `EnableEvent` are the two
halves of `enable_event`, since a signal can come between them. The handler
(`Shutdown`) runs at any statement once installed and returns there. The device
is external, modelled as `ftcat` uses it: an event that is on may add a record or
lose it when the buffer is full; `read()` blocks while the buffer is empty and an
event is on, and returns 0 when it is empty and none is on. Tracers in `Faulty`
may fail to initialize.

`TraceSession` adds the script, command by command. A trap runs between two
commands, also between `ftcat ... &` and `PIDS="$PIDS $!"`. `Enter` stands for
the user's ENTER, which is only read once the announcement is out; `SendUsr1` for
the one SIGUSR1 of a session started with `-s`, which comes before the
announcement only if `EarlySignal`, as it does in both runs. `wait` with no
arguments waits for every child, as bash does. The scripts give their tracers no
limit (`stop_after` is 0); `ftcat -s` is for tracers run by hand. `MCTracing` has
both: sessions, and without a script (`spc = "none"`) the tracers of `ByHand`, started
with or without a limit and signalled at any moment, as often as one likes. The session implements `FtCat!Spec` (`TracersAsSpecified`),
in which signals come at any time, so what is checked and proved of tracers there
holds in a session. `st-trace-schedule` has the same commands in the same order,
with other devices and events on the command line of `ftcat`, so the module is a
model of either script.

### Heap and PriorityQueue

`Heap` keeps the nodes' fields in one record (`store`), so that the loops of
`heap.h` are operators on stores and each function of the header is one action. A
loop is a number of rounds (`Rounds`, by a recursive function): a round does what the
body of the loop does, or nothing once the condition of the loop is false, and the number
is one after which it is false, which the proofs show of every loop.
A linked list is a sequence. Nodes are places that exchange the items they hold;
`ref` says where an item is, for the items that were given a reference. Callers
behave as the header demands: they insert nodes that are in no heap and delete
from the heap that holds the node. `Queue` refines the store to sets of items
(`Contents`), and `IsPriorityQueue` is `PriorityQueue!Spec` under that mapping.

`heap_decrease` does not look at the cached minimum. The model's callers use it
only when nothing is cached or the cached item itself is decreased; no program of
the repository calls it. Section 6 says what happens otherwise.

### ScheduleTrace, ScheduleLoad, JobStats and StDump

`ScheduleTrace` holds what these programs read: `files` is a sequence of files, each
readable or not, with its records; a record is referred to by file and position
(`Rec`), as a pointer into the mapping does in the code. The first word of a payload
(`raw0`) is the time of the event, or what a record without a time tells (the period,
the name). `command` holds the options; `Jobs` the command lines of a run.

`ScheduleLoad` is `load` of `load.c`: one action maps a file or fails, one inserts a
record, one unites the heap of the file with that of the others (`h2`, `h`).
`earlier_event` is the order of `eheap.c`. A heap is here the set of its records, and
`heap_take` returns any earliest one: `Heap` shows that `heap.h` implements
`PriorityQueue`, and `LoadIsPriorityQueue` shows that loading and taking is a use of
`PriorityQueue`, so the two modules meet in that specification. It also shows that
`earlier_event`, which compares PIDs when neither record has a time, is the order of
one number (`Priority`), which a heap needs.

`JobStats` adds `split` (`SplitInfo`, `SplitTaskEvent`, `SplitSysEvent`: one record
each, with what `by_pid` does to the task table), the wait for the release (-r), and
the loop over tasks and their events. `Row` is what `print_stats` computes, with the
unsigned subtraction of the code (`% U64`), and `count_preemptions` its loop as a
recursive function. The properties speak of the files and not of the lists: which
completion answers a release (`AnsweredBy`), which switches belong to a row
(`SwitchesOf`). They are stated for the tasks with an entry whose events have
different times (`PlainTasks`), since events with equal times may be listed in any
order.

`StDump` is the loop of `stdump.c` in both modes: everything in order, or only the
first release (-r), with -f the first time instead. `StDumpSpec` is this program alone,
for the theorems; the runs check it beside the others (`MCSchedule`).

### StDraw

`StDraw` chooses the interval as `st-draw` does from -s, -e, -l, -r and -q
(`StartTime`, `EndTime`, with Python's reading of zero as nothing), finds the tasks
that get rows (`active_in_interval`), and then iterates over the switches of each
file: `FastForward`, `SwitchTo`, `NotDrawn` and `DrawAllocation` are the steps of
`scheduling_intervals` in `sched_trace/file.py` with the loop of `render` that uses
them; `DrawMark` is one release, completion, suspension or wake-up, and `NextKind` goes
from one of these kinds to the next. The iterators are `trace` and `pos`, the next record
to look at, and `Yielded`, the first one sought from there on. A task without a row ends
the program with a `KeyError` (`pc = "no row"`). `Ran` says in terms of the file when a
task ran, and `DrawingExact` that this is what is drawn. Left out is how things are
drawn.

### SamplePipeline

The user starts the scripts one after the other, and any of them again (`Start`);
one action is one file a script works on, and `Interrupt` leaves a beginning of the
file that was being written. `todo` is what the script has left, and `Due` what of it may
be next: traces come in the order of the command line, the events of a bash array in
any. `single`, `combined`, `counts` and `selected` are the
files between the scripts; a sample is named by its trace and number, so that the
properties can tell a lost sample from a doubled one. `Appended` is `>>`, the
new contents of `counts.csv` `>`. The order that shuffling gives is left out; which
samples are kept is any choice (`Taken`). `ft-shuffle-truncate` tests for a
file with another extension than the one it writes, so it never skips a file in this
use; `SelectedUniform` depends on that, as the mutant of `ShuffleTruncate` shows.

## 3. What is checked

### Runs that pass

| Run | Configuration | Question |
|---|---|---|
| `ftsort` | `FtSort.cfg` | files in any of four kinds of disorder, sorted once; shuffled ones also by two runs, one of them killed anywhere |
| `ft2csv` | `Ft2csv.cfg` | every way of matching, every option |
| `session` | `Session.cfg` | two tracers and the script, in both modes, ended at any moment; a tracer run by hand |
| `heap` | `Heap.cfg` | every sequence of operations on two heaps |
| `schedule` | `Schedule.cfg` | `st_job_stats`, `stdump` and `st-draw` on small traces |
| `samples` | `Samples.cfg` | the sample scripts, repeated and interrupted |

- `ftsort`: `PreCheckExact` (the marks are exactly the outliers of a definition
  that looks at the whole file), `ClosestChosen` (the search finds the closest
  number across wrap-around and sign change), `HolesCounted` (the count is still
  true at the end), `PrefixFrozen` (no step touches what the cursor has passed),
  `ImplausibleOnEvidence` (a latency is marked only because of records of its CPU
  in a stretch without holes), `SequentialityKept` (records of a CPU or task never change
  their order, not even in the middle of a move, nor by a second run on what a
  killed one left), `FileIsRecording` (at most one record is lost per kill, none
  otherwise, and only the event field changes), `Repairs` (a file that can be
  sorted is, with the right number of holes, also after a kill that lost
  nothing), `Terminates`, and the types.
- `ft2csv`: `SamplesExact` (of single records with -b only that what is written is a
  sample, since some are left out: `BestEffortKept`), `SampleSound`, `EndUsedOnce`, `ExecTimeExact`,
  `Accounted`, `RunEnds` and the types, on the four worlds of `MCFt2csv`.
- `session`: of a tracer, by hand or not, `HandlerCovers` (whatever is on, the handler
  switches off), `OutputComplete` (a regular end loses no record) and
  `SignalEndsTracer`. Of the script, `AnnouncedReady`; `NoTracerLeft` (when it ends, at
  whatever moment SIGUSR1 came, nothing of it runs on but at most the one tracer whose
  PID had not been noted); `GetsReady`, for tracers that do not fail; `EndsCleanly` (an
  announced session that is asked to end does so with all its tracers, and so does
  one that waits in vain for a tracer that failed, when it gets SIGUSR1 and the other
  tracers are ready); the refinement `TracersAsSpecified`, and the types (with those of
  `FtCat`).
- `heap`: `WellFormed` (binomial trees, roots of growing degrees, nothing in two
  places; no node before its parent; nothing before the cached minimum),
  `RefsFollow`, `IsPriorityQueue`.
- `schedule`: `LoadIsPriorityQueue`; `EveryRecordListed` (each record in the list of
  its task, once; the tasks beyond the table with the others) and `ListsInOrder`;
  `RowsExact` (a row for every job with the right completion, and no other, for a
  period of less than 2^32 ns: `OnlyGivenPeriod` is about the rest),
  `ResponsesReal` (no unsigned difference wraps around), `SwitchesExact`
  (preemptions and migrations of this job); `DumpExact`; `DrawingExact`; and
  `ScheduleEnds`.
- `samples`: `SamplesKept` (nothing is lost on the way, and nothing doubled unless a
  step was interrupted or repeated), `SelectedUniform` (a selection that came to its
  end is uniform, whatever earlier ones left).

`CHECK_DEADLOCK FALSE` is set wherever the programs end; the heap does not.

### Disagreements found

| Run | What the code does |
|---|---|
| `session_usr1_hangs` | SIGUSR1 during initialization: the handler of an `ftcat` switches off what was noted so far, `main` goes on switching on the rest, `read()` never returns 0 and the script waits forever. |
| `ft2csv_disturbed_end` | After a migration the IRQ flag of the END is not looked at, so a disturbed sample is kept. |
| `ft2csv_single_best_effort` | With -b, "don't skip non-rt time stamps", release latencies of tasks that are not real-time are left out all the same: `show_single` looks at the type of the task whatever the options are. |
| `schedule_period_wraps` | With -m the period to look for is multiplied by a million in 32 bits: from 4295 ms on it wraps around, so that rows of tasks with another period are shown, or of all. |
| `schedule_one_row` | The completion of a job is looked for among the next 20 completions of its task; a job that is further behind has no row. |
| `draw_missing_row` | `st-draw` gives rows to tasks with a switch or a release in the interval, but draws all that ran in it; a task that runs all through it ends the program with a `KeyError`. |

`PROJECT.json` quotes the line of the documentation or of the usage text that says
otherwise. A property of a passing run that would repeat such a case of the code is
stated without it (`SamplesExact`, `RowsExact`), and the case has a property of its
own.

## 4. Bounds, and why they are enough

- Sequence numbers: 16 for 2^32, a look-ahead of 3 (4 for `ft2csv`) for
  1024, an overflow cutoff of 5 for 32767. `SeqNoAssumption` states the relations
  the comparisons need (the real values satisfy them too); files start at 14 and
  at 6, so that they cross both the wrap-around and the change of sign. The
  theorems `InRangeIsDist` and `LowerIsCloser` show that within these relations
  the size makes no difference.
- Files of `ftsort`: four records in any order within, at the edge of and out of
  the window (numbers -1, 1, 2, 4 and 8 after the first) with all combinations
  of constraints; five records with three time stamps for the pre-check, with up
  to one record of another CPU and one that the pre-check skips (an outlier needs
  three records and a second one, marked or equal, two more); five records for the
  filter, where a mark needs three, with a number missing before the third or
  nowhere, and a latency that fits or does not (`MAX_CPUS` is 3, and one file has a
  record of CPU 3). `MaxNrNotInRange` is 1 for 5, so that the search does give up; in
  a file that can be sorted it never does (`RepairTheorem`). The shuffled files lack
  one of five numbers, which may be the last of the window or one beyond.
- `MaxRuns = 2`, `MaxKills = 1`, for shuffled files (`Again`): what a kill leaves behind is in the file, and the
  second run starts from it; a third would meet no other kind of file.
- Files of `ft2csv`: four or five records for a pair with what may come between
  (another START, an END too early, interrupts, another CPU or task, a hole); three
  single records; seven for two suspensions, of which any two records are replaced
  by any others and one time stamp may be late.
- Tracers: two, one of which can fail; two events, so that a signal can come before,
  between and after them; a buffer of two records and at most three occurrences, so
  that records are lost and the limit of `-s` (2) is reached. The proofs cover any number of tracers and events.
- Heap: four nodes give trees of degree 0, 1 and 2 and a path of two swaps; two
  priorities give ties; one item has no reference. Three trees of one degree need
  six nodes and no particular priorities, so `MCHeap` adds two spare nodes that
  are in heaps only while nothing is cached, all priorities agree and no item has
  left its node; the others may exchange their items, but a node that leaves the
  heaps with another's item is not used again (`Bounded`, a state constraint of
  `Heap.cfg`). Nodes with references, spare nodes and heaps are symmetric.
- Schedule traces (`MCSchedule`): the worlds ask one question each. `load`: any three
  records of nine kinds in two files, of three tasks where the table has two entries
  (512 in the code), with equal times and without a time, and files that are empty,
  missing or unreadable. `pairing`: any five releases and completions of two jobs of
  a task, of even times in another file than odd ones and each file backwards, where
  two completions are looked at (20 in the code); every filter, matching or not.
  `wrapped` (`SchedulePeriod.cfg`): products that wrap around 16 (2^32) to no period and
  to that of the task. `switches`: any four switches of two jobs on
  two CPUs between the release and the completion. `lost`: any four switches of two
  tasks, on another CPU or too early. `interval`: two tasks that run on two CPUs, any
  part of that time, every option. `MaxPid`, `MaxTime`, `MaxFiles` and `MaxRecords`
  only bound what a file may hold. Response times below `U64 = 64` stand for those
  below 2^64.
- Samples (`MCSamples`): three traces, of which two are combined, and two kinds of
  events, one of which may be absent or have no samples; two traces with an absent
  kind. Five starts are one more than the scripts, so that any one is repeated, with
  an interruption anywhere.

## 5. Fairness

- `ftsort`, `ft2csv`, `st_job_stats`, `stdump`, `st-draw`: weak fairness of the
  process. Each is a sequential program that never blocks.
- A tracer runs unless it blocks, and a signal sent is delivered: weak fairness
  of `Main(t)` and of `Handler(t)`. No fairness for events in the kernel, for
  users, or for failures.
- The script runs unless `read`, `wait` or the missing PID file holds it, and its
  trap is taken: weak fairness of `Script` and of `Trap`.
- None for the sample scripts: a user need not start anything.

Weak fairness is enough since no action of a process is disabled by others
again and again: `read()` that can return stays able to.

## 6. Behaviour to know of

What the models show beside the findings, where the properties are stated around it
or the code is left out:

- `ftsort` takes the first record of a file to be in place. A file with the numbers
  2, 0, 1, 3 becomes 2, 3, 0, 1: every lower number is out of range (`Repairs` is about
  files whose first record is the first).
- A second run of `ftsort` skips what the first one marked as an outlier, judges the
  other records afresh, and may mark more of them.
- `ft2csv` accepts the END of a task that migrated although its IRQ flag is set, and does not see
  interrupts on the second CPU either (`ft2csv_disturbed_end`).
- An item that `heap_decrease` moves before the cached minimum is returned after it: the
  next `heap_peek` or `heap_take` returns what was cached. Callers that only decrease
  the cached item, or while nothing is cached, are safe, and `Heap` has those.
- SIGUSR1 between `ftcat ... &` and `PIDS="$PIDS $!"` ends the script while the tracer
  just started goes on. `NoTracerLeft` says that it is the only one, and
  `SessionHang.cfg` shows what else an early signal does.
- `ftsort -e` swaps eight bytes of the 48-bit time stamp and stores the result into 48
  bits: on a little-endian machine the two high bytes of the time are lost and the
  other four move up by two. The PID is not swapped.
- `cached` in `sched_trace/__init__.py` keeps one value for each decorated method, not
  for each object: a second `SchedTrace` in one process gets the attributes of the
  first. `st-draw` has one.
- `ft-extract-samples` and `ft-combine-samples` append, so a step that is repeated
  doubles samples, and one that is interrupted and repeated doubles some of them. No
  script notices; `SamplesKept` says only that none is lost then.
- `ft-shuffle-truncate` looks for a file with the extension `sbn` and writes one with
  `sf32`, so the message about a file that exists never appears.

## 7. What is proved

For any values of the constants that satisfy the named assumptions
(`SeqNoAssumption`, `FtSortAssumption`, `Ft2csvAssumption`, `FtCatAssumption`,
`SessionAssumption`, `HeapAssumption`, `ScheduleAssumption`, `JobStatsAssumption`,
`PipelineAssumption`).

`FtSortProofs`
- `InRangeIsDist`, `LowerIsCloser`: `in_range` is a bound on the distance and
  `is_lower_seqno` orders by distance, wherever the counter wraps.
- `TypeCorrect`: with `Cursors`, which says where the cursors stand at each
  location (`pos <= min < scan` in the search, `pos <= scan <= min` in a move),
  without which the swap could leave the file.
- `SequentialityTheorem`: by `OrderInv`, the file in order, plus `MoveAllowed` (no
  record a move still has to pass is constrained against the one it moves; in the
  middle of a swap, the file with the copy put back is in order) plus
  `MarksKeepConstraints` (a mark does not turn a record into a constrained one).
  `SequentialityKept` alone is not inductive: `SwapFirst` preserves it only
  because of the check made before.
- `ClosestTheorem`: the candidate is closest among the records scanned so far.
- `PrefixFrozenTheorem`: an action property, from the cursors.
- `FileTheorem`: by `FileInv`. A record is kept if it is in the file or, in the middle
  of a swap, in `tmp` (`Kept`), so that neither store of a swap loses one; the loss is
  booked at the kill that discards `tmp`. `FileIsRecording` alone is not inductive: it
  does not say what `tmp` holds.
- `HolesTheorem`: by `HolesInv`, the count is right for the part before the cursor, and
  `last_seqno` is the number of the last record there; moves stay behind it
  (`PrefixFrozenTheorem`), so it stays right.
- `EvidenceTheorem`: by `FilterInv`, a time in `last_preemptable` is that of a scheduling
  event of the CPU with no missing record since.
- `PreCheckTheorem`: by `Latest` (the two positions kept per CPU are its last record and
  its last unmarked one before), `Judged` (all records but the last of a CPU carry the
  right mark) and `TestDecides` (the comparison of three time stamps is the definition
  of an outlier on the whole file).
- `RepairTheorem`: that `ftsort` sorts. By `SortInv`: as long as a file that can be
  repaired is whole, what the cursor has passed is in order and before all the rest
  (`Sorted`), and what the search returns, the check and the swaps carry, and the line-up
  passes is the least of the rest (`Least`), in the middle of a swap held in `tmp`. The
  other invariants come together here. By `SearchInv` the search returns the closest of
  its window, which holds all that is left (`FewRecords`), and none of it is out of
  range (`Ahead`), so the search never gives up and the limit on numbers out of range
  does not matter. By `OrderInv` no move is refused (`NoneRefused`); this needs
  `SparedInv`, since only with it constraints in the file are those of the recording. By
  `HolesInv` the holes are counted, and a bijection shows them to be the runs of missing
  numbers (`HolesAreRuns`). `Repairs` speaks of the end of a run only, and `Whole` is
  needed because a lost record does not come back (`NothingBack`).

`Ft2csvProofs`
- `TypeCorrect`, `SampleTheorem`, by `SearchInv`: no record is missing from the
  START up to the cursor, the search is at the right task, and the START's time
  plus `sum` is at most `last_time`. The last part is why no subtraction wraps
  around and no sample reports more time than passed.
- `EndTheorem`: by `EndInv`: between a START and the place its search has got to there
  is no other START that the same END could complete, samples are in the order of their
  STARTs, and so two samples cannot share an END. It needs `MeasuredApart`: the event
  measured is not itself part of the way a suspension is followed. Without this a START
  of `LOCK_RESUME` would also be met as the RESUME of an earlier search. Such a
  measurement pairs the events 39 and 40, which do not belong together, but nothing
  prevents it: `ft2csv -l` lists these two events as well, and `ft-extract-samples`
  extracts whatever is listed.
- `ReportAddsUp`: by `CountInv`, every record passed is in one counter, wherever the
  search stands.
- `SamplesTheorem`: by `SamplesInv`. What has been written are the samples whose START
  has been passed, and the search of the moment follows the way of the task from its
  START (`WayInv`, `ExecWay`): what it has passed over is what the definition of a sample
  lets lie in between. It is stated for files without an event 0, which `next_pid` takes
  for "no second event" (`NoEventZero`), and for commands whose event is not itself part
  of the way a suspension is followed (`PairsApart`); with either, other pairs are
  written. Of single records with -b it says that those written are samples.
- `ExecTimeTheorem`: by `TimeInv`, the time summed up so far is the time since the START
  without the time away. It is a sum over the records of the file, so the proof uses the
  sums of `Induction`. Only `NoEventZero` is needed.

`TraceSessionProofs`
- `TypeCorrect` (of tracers without a session): with `Noting`, an event has been noted
  before it is switched on.
- `OutputTheorem`: by `OutInv`. What the device took is what is in the output and the
  buffer, in this order (`NothingLost`); a tracer without a limit leaves its loop
  only with an empty buffer and no event on, so nothing can fill it before the
  process ends (`Drained`). Of sequences only associativity and a cut in two are
  needed, stated as lemmas.
- `SessionTypeCorrect`: the types of the tracers through `SessionImplementsTracers`, the
  bound of `COUNT` from `SessionInv`.
- `HandlerTheorem`: every event that is on has been noted.
- `SessionImplementsTracers`: every step of the session is a step of `FtCat!Next`
  or leaves the tracers alone.
- `AnnouncedTheorem`: by `SessionInv`: `COUNT` is the number of tracers spawned
  but for the one in hand, a tracer has pinged only with all its events on, and
  nobody is signalled before the session ends.
- `NoTracerLeftTheorem`, whenever SIGUSR1 comes: by `EndInv`, every tracer that runs is
  in the list of the script or the last one spawned, and a script that is past its
  `wait` has none left in its list.

`Induction`
- Nothing of the programs: induction over the natural numbers for the members of a set
  (`SetInduction`, from `LeastNumber`, which rests on finite sets being well-founded by
  inclusion), and sums over the positions of a file (`SumExists`, `SumChanges`).

`HeapProofs` (for any finite set of nodes smaller than `NOT_IN_HEAP`, any heaps, any
priorities that are natural numbers, any items with references)
- `HeapsWellFormed` and `ReferencesFollow`, the invariants of the run, and `HeapsRefine`,
  that a heap does what a priority queue does, operation by operation. All three by `Inv`
  (`Invariance`): there is an assignment `t` of nodes to the heap in whose trees they are,
  with which the store is sound (`Sound`). `WellFormed` is not inductive: it speaks of the
  nodes that the lists of children lead to (`InTrees`), and a step that moves trees about
  says nothing of what is reached afterwards. With `t` everything is said of a node and its
  parent or children: the children of a node of degree d are of the degrees d-1 to 0 and
  name it as their parent (`Family`), and a node with a parent is one of its children
  (`Fathered`), which `WellFormed` does not say. Since degrees grow upwards and are bounded
  by the number of nodes (`DegreeBound`), every node leads up to a root, and the lists lead
  to exactly the nodes of the heap (`RootBefore`, `ReachedIs`).
- The loops, each by what a round keeps and by a number that falls. `__heap_merge` makes a
  list that never falls and in which no three neighbours agree (`InMerge`); `__heap_union`
  starts from such a list (`InUnion`) and ends with growing degrees (`UnionEnds`); where
  three agree, which only linking two trees before them brings about, it goes on to the
  second (`UnionAdvances`). Of an item that moves up, `Hole` says that all the other nodes
  are in order, its children behind its parent too, and with `heap_decrease` `Over` that the
  item is not behind its children (`Moving`, `MovingStep`, `RoseEnds`).
- An operation is then a few of these: `UniteIs` (`__heap_union` on the trees of two heaps),
  `RemoveKeeps` (a root goes, its children become roots), `AddIs`, `UncacheIs`, `CacheIs`,
  `LeaveIs`, `DecreaseIs`, `DeleteIs`.

`ScheduleProofs`
- `LoadImplementsQueue`: loading and taking are a use of `PriorityQueue`, by `HeapInv`:
  the heaps hold records of the files mapped so far, of the own file in `h2` and of the
  earlier ones in `h`. That `earlier_event` is the order of one number, whatever the
  PIDs and times, is a lemma.
- `DumpIsExact`: by `DumpInv`, what has been printed is in order, not later than
  anything left in the heap, and with the heap everything that was read.
- `DumpImplementsQueue`: the heap of `stdump` is used as a queue too.
- `DrawingTheorem`: by `DrawInv`, the allocations drawn so far are, each once, those whose
  first switch has been passed by the iterator and is not the pending one, and likewise
  the other records drawn, kind by kind (`Lists`). The strengthening that it rests on is
  `ToIsLast`: no switch has been passed since the pending one, so the only switch away
  that can go with it is the next switch that the iterator yields (`RanIsYielded`), and
  at the end of a file there is none (`RanAhead`).

`JobStatsProofs`
- `ListsAreComplete`, `ListsAreInOrder`, `NoResponseWraps`: for every trace, number of
  files and size of the task table. By `IInv`: what has been read is in a heap or in a
  list (`Held`), once (`NothingTwice`), lists belong to their tasks, and what is still
  in the heap is not earlier than anything in a list (`HeapIsLater`), which makes an
  append keep the order. That `earlier_event` is an order is a lemma; that a completion
  at a later place in a list is not earlier is why the unsigned response is real.
- `StatsImplementQueue`: the heap of `st_job_stats` is used as a queue.
- `SwitchesTheorem`: the loop of `count_preemptions` is a function over the places of a
  list. By `Tells`, after each place its counters are the numbers of the switches that
  count up to there, and the CPU it remembers is that of the last switch away. Places
  become records by `PlacesInOrder`: the list of a plain task (one whose records differ
  in time) has the events of the task, each at one place, in the order of time.
- `RowsTheorem`: by `ListInv`, once the lists are made they hold all events, the name and
  the parameters of a task are its own and not lost, and the first system release is
  known (`OnlyEvents`, `InfosOwn`, `InfosKept`, `AllTaken`, `FromFirst`); and by `RowInv`,
  as far as the two loops have come every row is right (`RowsSound`), none is missing
  (`RowsComplete`), and none is there twice (`RowsOnce`, which needs `Progress`: no row is
  of a place that is still to come). The search for a completion looks at a bounded
  number of places; that the definition, which counts completions by their times, says
  the same is `MatchesAnswer`. A period that fits into 32 bits is compared as it is
  given (`SamePeriod`); `RowsExact` speaks of no other.

`SamplePipelineProofs`
- `KeptTheorem`: by `KeptInv` (what has been extracted is in the extracted files, what has
  been combined in the combined ones) and, as long as nothing was interrupted or
  repeated, `OnceInv` (a file holds exactly the samples of the traces that were combined
  into it, each once). `SamplesKept` alone says nothing before the scripts have ended.
- `SelectionTheorem`: by `CountsInv` (a count that exists is that of the files) and
  `SelectInv` (every file dealt with by the selection that is going on is right). Neither
  needs the counting to have been completed: an event without a count ends the
  selection.

Only model-checked: liveness (`Terminates`, `RunEnds`, `SignalEndsTracer`,
`GetsReady`, `EndsCleanly`, `ScheduleEnds`), which the provers do not handle under
fairness.

## 8. Not modelled

- `ftdump`: it prints one record after the other and keeps no state.
- `ft-compute-stats` and the statistics themselves: numerics of numpy, without
  control flow to check.
- Output formats of `ft2csv`, `st_job_stats` and `stdump`, the drawing of `st-draw`, the
  names of events: text and layout.
- `ftsort -s`: a private mapping, so that nothing of what is modelled reaches the
  file; `ftsort -e`: each record is changed once, before the run that is modelled,
  in the way section 6 describes.
- `crop_events` and `crop_events_all` of `load.c`, and
  `events_of_type_chrono` and `raw_iter` of `sched_trace`: nothing calls them.
- `cached`: a program with one `SchedTrace`, like `st-draw`, does not notice it.
- A program that fails on its own inside a sample script, which goes on then (a count
  that stays empty is written as 0): `Interrupt` ends the whole script.
- System calls, allocation failures, and the parsing of command lines, whose results
  are the `command`, `opts` and `Jobs` of the modules.
