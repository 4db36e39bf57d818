--------------------------- MODULE SamplePipeline ---------------------------
(***************************************************************************)
(* The scripts that a user runs one after the other on overhead traces:    *)
(* ft-extract-samples, ft-combine-samples, ft-count-samples and            *)
(* ft-select-samples, with ft-shuffle-truncate, which the last two call.   *)
(* They pass the samples on in files, most of which they append to.  Any   *)
(* of them may be interrupted, and the user may run it again, or go on     *)
(* without having noticed.                                                 *)
(*                                                                         *)
(* A sample is <<trace, number in it>>; a file is a sequence of samples,   *)
(* or NoFile.  The order that shuffling gives the samples is left out:     *)
(* which of them are taken is not.                                         *)
(***************************************************************************)
EXTENDS Integers, Sequences, FiniteSetsExt, Functions

CONSTANTS
    Campaigns,  \* sets of traces: [number, target], where number[trace][event] is how many
                \* samples ft2csv finds, NotPresent without such events, and target[trace]
                \* is the name with the keys stripped that are to be combined
    NotPresent,
    MaxStarts   \* bound: how often the user starts a script

\* Every trace of a campaign has a number for each kind of event, or none.
PipelineAssumption ==
    /\ NotPresent \notin Nat
    /\ \A c \in Campaigns : \A t \in DOMAIN c.number :
          c.number[t] \in [DOMAIN c.number[1] -> Nat \cup {NotPresent}]

ASSUME PipelineAssumption

VARIABLES
    campaign,
    single,     \* <trace>_overhead=<event>.float32
    combined,   \* combined-<target>_overhead=<event>.float32
    counts,     \* counts.csv: the number for each event that has a line
    selected,   \* combined-<target>_overhead=<event>.sf32
    step,       \* the script started last, 0 .. 4
    todo,       \* the set of what it has left to do, if it is running, else empty
    running,
    finished,   \* the steps whose last run came to its end
    again,      \* a script was interrupted, or started a second time
    starts      \* how many were started

vars == <<campaign, single, combined, counts, selected, step, todo, running, finished, again, starts>>

Files == <<single, combined, counts, selected>>

-----------------------------------------------------------------------------
Traces == DOMAIN campaign.number
Events == DOMAIN campaign.number[1]
Targets == {campaign.target[t] : t \in Traces}

NoFile == << <<>> >>    \* no sequence of samples

\* What ft2csv prints for one kind of event of a trace.
Samples(t, e) == [i \in 1 .. campaign.number[t][e] |-> <<t, i>>]

\* Mutant: the file is written anew.
AppendedAnew(f, added) == added

\* >>: the file is created if need be.
Appended(f, added) == IF f = NoFile THEN added ELSE f \o added

-----------------------------------------------------------------------------
(* The user starts a script when he started the one before, and again as   *)
(* often as he likes.                                                      *)
Exists(f, t, e) == f[<<t, e>>] # NoFile

\* What a script has to do: an event of a trace, a file, an event, a file of an event.
Work(k) ==
    CASE k = 1 -> {w \in Traces \X Events : campaign.number[w[1]][w[2]] # NotPresent}
      [] k = 2 -> {w \in Traces \X Events : Exists(single, w[1], w[2])}
      [] k = 3 -> {e \in Events : \E g \in Targets : Exists(combined, g, e)}
      [] k = 4 -> {w \in Targets \X Events : Exists(combined, w[1], w[2])}

Start(k) ==
    /\ ~running /\ step + 1 >= k /\ starts < MaxStarts
    /\ Work(k) # {} /\ todo' = Work(k)
    /\ running' = TRUE /\ step' = k /\ starts' = starts + 1
    /\ finished' = {s \in finished : s < k} /\ again' = (again \/ step >= k)
    /\ counts' = IF k = 3 THEN <<>> ELSE counts   \* > counts.csv
    /\ UNCHANGED <<campaign, single, combined, selected>>

\* What may be next.  Traces come in the order of the command line, their events in any, as
\* those of ${!MATCHES[@]} do; the files of an event are not separated (ft-select-samples).
Due ==
    LET begun == {w \in todo : \E u \in Work(4) \ todo : u[2] = w[2]}
    IN  CASE step \in {1, 2} -> {w \in todo : \A v \in todo : w[1] <= v[1]}
          [] step = 4 /\ begun # {} -> begun
          [] OTHER -> todo

Go(w) ==
    /\ running /\ w \in Due /\ todo' = todo \ {w}
    /\ UNCHANGED <<campaign, step, running, finished, again, starts>>

Extract ==
    /\ step = 1
    /\ \E w \in Due :
          /\ Go(w)
          /\ single' = [single EXCEPT ![w] = Appended(@, Samples(w[1], w[2]))]
    /\ UNCHANGED <<combined, counts, selected>>

TargetOf(w) == <<campaign.target[w[1]], w[2]>>

Combine ==
    /\ step = 2
    /\ \E w \in Due :
          /\ Go(w)
          /\ combined' = [combined EXCEPT ![TargetOf(w)] = Appended(@, single[w])]
    /\ UNCHANGED <<single, counts, selected>>

\* The number of samples in the smallest file of an event.
Smallest(e) == Min({Len(combined[<<g, e>>]) : g \in {t \in Targets : Exists(combined, t, e)}})

Count ==
    /\ step = 3
    /\ \E e \in Due :
          /\ Go(e)
          /\ counts' = [d \in {e} \cup DOMAIN counts |-> IF d = e THEN Smallest(e) ELSE counts[d]]
    /\ UNCHANGED <<single, combined, selected>>

-----------------------------------------------------------------------------
\* What may be the contents of a file of n samples of f.
Taken(f, n) ==
    {[i \in 1 .. n |-> f[p[i]]] :
       p \in {p \in [1 .. n -> DOMAIN f] : \A i, j \in 1 .. n : i < j => p[i] < p[j]}}

\* The samples of a file that are used: cutoff of a shuffled copy, or all if it has no more.
Used(w) == Min({counts[w[2]], Len(combined[w])})

\* Mutant: a file whose name exists is skipped, as the message says.
ShuffleTruncateSkips ==
    /\ step = 4
    /\ \E w \in Due :
          /\ Go(w) /\ w[2] \in DOMAIN counts
          /\ IF counts[w[2]] = 0 \/ combined[w] = <<>> \/ selected[w] # NoFile
             THEN selected' = selected
             ELSE \E f \in Taken(combined[w], Used(w)) : selected' = [selected EXCEPT ![w] = f]
    /\ UNCHANGED <<single, combined, counts>>

\* One file.  The name that is tested for is that of another extension, so none is skipped
\* but those without samples.
ShuffleTruncate ==
    /\ step = 4
    /\ \E w \in Due :
          /\ Go(w) /\ w[2] \in DOMAIN counts
          /\ IF counts[w[2]] = 0 \/ combined[w] = <<>> THEN selected' = selected
             ELSE \E f \in Taken(combined[w], Used(w)) : selected' = [selected EXCEPT ![w] = f]
    /\ UNCHANGED <<single, combined, counts>>

\* An event without a count: -c is given a file name, and set -e ends the script.
NoCount ==
    /\ running /\ step = 4
    /\ \E w \in Due : w[2] \notin DOMAIN counts
    /\ running' = FALSE /\ todo' = {}
    /\ UNCHANGED <<campaign, Files, step, finished, again, starts>>

Finish ==
    /\ running /\ todo = {}
    /\ running' = FALSE
    /\ finished' = finished \cup {step}
    /\ UNCHANGED <<campaign, Files, step, todo, again, starts>>

\* Killed: what was being written is a beginning of what it should be.
Begun(f) == {SubSeq(f, 1, n) : n \in 0 .. Len(f)}

Interrupt ==
    /\ running
    /\ running' = FALSE /\ todo' = {} /\ again' = TRUE
    /\ UNCHANGED <<campaign, step, finished, starts>>
    /\ \E w \in Due :
       \/ UNCHANGED Files
       \/ /\ step = 1
          /\ \E f \in Begun(Samples(w[1], w[2])) : single' = [single EXCEPT ![w] = Appended(@, f)]
          /\ UNCHANGED <<combined, counts, selected>>
       \/ /\ step = 2
          /\ \E f \in Begun(single[w]) :
                combined' = [combined EXCEPT ![TargetOf(w)] = Appended(@, f)]
          /\ UNCHANGED <<single, counts, selected>>
       \/ /\ step = 4 /\ w[2] \in DOMAIN counts /\ counts[w[2]] # 0
          /\ \E n \in 0 .. Used(w) : \E f \in Taken(combined[w], n) :
                selected' = [selected EXCEPT ![w] = f]
          /\ UNCHANGED <<single, combined, counts>>

-----------------------------------------------------------------------------
Init ==
    /\ campaign \in Campaigns
    /\ single = [w \in Traces \X Events |-> NoFile]
    /\ combined = [w \in Targets \X Events |-> NoFile]
    /\ selected = [w \in Targets \X Events |-> NoFile]
    /\ counts = <<>> /\ step = 0 /\ todo = {} /\ running = FALSE
    /\ finished = {} /\ again = FALSE /\ starts = 0

Next ==
    \/ \E k \in 1 .. 4 : Start(k)
    \/ Extract \/ Combine \/ Count \/ ShuffleTruncate \/ NoCount \/ Finish \/ Interrupt

Spec == Init /\ [][Next]_vars

-----------------------------------------------------------------------------
Times(x, f) == Cardinality({i \in DOMAIN f : f[i] = x})

\* Appending (ft-extract-samples:57, ft-combine-samples:75) loses no sample: when samples
\* were extracted and then combined to the end, every sample of every trace is in the
\* file it is combined into, whatever was interrupted before, and if no script was
\* interrupted or repeated, it is there once, with nothing else.
SamplesKept ==
    {1, 2} \subseteq finished =>
      \A t \in Traces, e \in Events : campaign.number[t][e] # NotPresent =>
         LET f == combined[<<campaign.target[t], e>>]
         IN  /\ f # NoFile
             /\ \A i \in 1 .. campaign.number[t][e] :
                  IF again THEN Times(<<t, i>>, f) >= 1 ELSE Times(<<t, i>>, f) = 1
             /\ ~again => \A j \in DOMAIN f : /\ campaign.target[f[j][1]] = campaign.target[t]
                                              /\ f[j][2] <= campaign.number[f[j][1]][e]

\* "It produces new files of uniform size containing the randomly selected samples"
\* (doc/howto-trace-and-process-overheads.md:188): once ft-select-samples came to its end,
\* the files of a kind of event have as many samples each as the smallest had when they
\* were counted, and none more often than the file they are taken from.  This is so even
\* if the counting was interrupted, or an earlier selection left files behind
\* (ft-shuffle-truncate:94-107, ft-select-samples:51-60).
SelectedUniform ==
    4 \in finished =>
      \A g \in Targets, e \in Events : Exists(combined, g, e) =>
         /\ e \in DOMAIN counts
         /\ counts[e] = Smallest(e)
         /\ counts[e] # 0 =>
              /\ Len(selected[<<g, e>>]) = counts[e]
              /\ \A x \in Range(selected[<<g, e>>]) :
                    Times(x, selected[<<g, e>>]) <= Times(x, combined[<<g, e>>])
=============================================================================
