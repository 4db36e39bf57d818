----------------------- MODULE SamplePipelineProofs -----------------------
(***************************************************************************)
(* Why the sample scripts lose no sample, double none unless a step was    *)
(* interrupted or repeated, and select as many from each file, for any     *)
(* traces and any number of starts and interruptions.                      *)
(***************************************************************************)
EXTENDS SamplePipeline, Induction

Sample == Traces \X Nat

FilesInv ==
    /\ single \in [Traces \X Events -> Seq(Sample) \cup {NoFile}]
    /\ combined \in [Targets \X Events -> Seq(Sample) \cup {NoFile}]
    /\ selected \in [Targets \X Events -> Seq(Sample) \cup {NoFile}]

\* Where the user and the scripts are, and what the files are made of.
ControlInv ==
    /\ campaign \in Campaigns
    /\ FilesInv
    /\ step \in 0 .. 4 /\ running \in BOOLEAN /\ again \in BOOLEAN
    /\ finished \subseteq 1 .. step
    /\ IF running THEN step # 0 /\ step \notin finished /\ todo \subseteq Work(step) ELSE todo = {}

\* A script has dealt with w.
Done(k, w) == k \in finished \/ (running /\ step = k /\ w \notin todo)

Holds(f, x) == \E j \in DOMAIN f : f[j] = x

\* What was extracted and combined so far is in the files.
KeptInv ==
    /\ \A w \in Work(1) : Done(1, w) =>
         /\ single[w] # NoFile
         /\ \A i \in 1 .. campaign.number[w[1]][w[2]] : Holds(single[w], <<w[1], i>>)
    /\ \A w \in Work(2) : Done(2, w) =>
         /\ combined[TargetOf(w)] # NoFile
         /\ \A j \in DOMAIN single[w] : Holds(combined[TargetOf(w)], single[w][j])

\* If nothing was interrupted or repeated, w has been dealt with by the k-th script.
Passed(k, w) == step >= k /\ ~(running /\ step = k /\ w \in todo)

\* A sample in the combined file v is one of a trace that was combined into it.
Belongs(x, v) ==
    LET w == <<x[1], v[2]>>
    IN  w \in Work(1) /\ TargetOf(w) = v /\ x[2] <= campaign.number[w[1]][w[2]] /\ Passed(2, w)

\* Then every file holds what it should, once.
OnceInv ==
    ~again =>
    /\ \A w \in Traces \X Events :
         single[w] = IF w \in Work(1) /\ Passed(1, w) THEN Samples(w[1], w[2]) ELSE NoFile
    /\ \A v \in Targets \X Events : combined[v] # NoFile =>
         /\ \A j \in DOMAIN combined[v] : Belongs(combined[v][j], v)
         /\ IsInjective(combined[v])

\* What a selection should make of the file w.
SelectedWell(w) ==
    /\ w[2] \in DOMAIN counts
    /\ counts[w[2]] # 0 =>
         /\ Len(selected[w]) = counts[w[2]]
         /\ \A x \in Range(selected[w]) : Times(x, selected[w]) <= Times(x, combined[w])

\* The counts are those of the files, and what was selected so far is right.
CountsInv ==
    step \in {3, 4} => \A e \in DOMAIN counts :
      counts[e] = Smallest(e) /\ \E g \in Targets : <<g, e>> \in Work(4)

SelectInv == \A w \in Work(4) : Done(4, w) => SelectedWell(w)

-----------------------------------------------------------------------------
(* Files                                                                   *)

LEMMA FileIsNotNoFile ==
    ASSUME NEW T, NEW f \in Seq(T \X Nat)
    PROVE  f # NoFile
<1> SUFFICES ASSUME f = NoFile PROVE FALSE
  OBVIOUS
<1>1. 1 \in DOMAIN f /\ f[1] = <<>>
  BY DEF NoFile
<1>2. f[1] \in T \X Nat
  BY <1>1, SMTT(60)
<1>3. PICK t \in T, n \in Nat : f[1] = <<t, n>>
  BY <1>2
<1>4. DOMAIN <<t, n>> = 1 .. 2 /\ DOMAIN <<>> = {}
  OBVIOUS
<1>5. <<t, n>> = <<>>
  BY <1>1, <1>3
<1>6. QED
  BY <1>4, <1>5

\* What was in a file stays, and what is appended is there, in this order.
LEMMA AppendedFile ==
    ASSUME NEW T, NEW f \in Seq(T \X Nat) \cup {NoFile}, NEW a \in Seq(T \X Nat)
    PROVE  /\ Appended(f, a) \in Seq(T \X Nat)
           /\ Appended(f, a) # NoFile
           /\ \A j \in DOMAIN a : Holds(Appended(f, a), a[j])
           /\ f # NoFile => \A j \in DOMAIN f : Holds(Appended(f, a), f[j])
<1>1. Appended(f, a) \in Seq(T \X Nat)
  BY DEF Appended
<1>2. Appended(f, a) # NoFile
  BY <1>1, FileIsNotNoFile
<1>3. CASE f = NoFile
  BY <1>1, <1>2, <1>3 DEF Appended, Holds
<1>4. CASE f # NoFile
  <2>1. Appended(f, a) = f \o a /\ f \in Seq(T \X Nat)
    BY <1>4 DEF Appended
  <2>2. \A j \in DOMAIN f : j \in DOMAIN (f \o a) /\ (f \o a)[j] = f[j]
    BY <2>1
  <2>3. \A j \in DOMAIN a : j + Len(f) \in DOMAIN (f \o a) /\ (f \o a)[j + Len(f)] = a[j]
    BY <2>1
  <2>4. QED
    BY <1>1, <1>2, <2>1, <2>2, <2>3 DEF Holds
<1>5. QED
  BY <1>3, <1>4

\* Nothing else is there, and nothing twice if nothing that is appended was there.
LEMMA AppendedOnce ==
    ASSUME NEW T, NEW f \in Seq(T \X Nat) \cup {NoFile}, NEW a \in Seq(T \X Nat),
           f # NoFile => IsInjective(f), IsInjective(a),
           f # NoFile => \A i \in DOMAIN f, j \in DOMAIN a : f[i] # a[j]
    PROVE  /\ IsInjective(Appended(f, a))
           /\ \A i \in DOMAIN Appended(f, a) :
                 Holds(a, Appended(f, a)[i]) \/ (f # NoFile /\ Holds(f, Appended(f, a)[i]))
<1>1. CASE f = NoFile
  BY <1>1 DEF Appended, Holds
<1>2. CASE f # NoFile
  <2>1. Appended(f, a) = f \o a /\ f \in Seq(T \X Nat)
    BY <1>2 DEF Appended
  <2>2. DOMAIN (f \o a) = 1 .. Len(f) + Len(a) /\ Len(f) \in Nat /\ Len(a) \in Nat
        /\ DOMAIN f = 1 .. Len(f) /\ DOMAIN a = 1 .. Len(a)
    BY <2>1
  <2>3. \A i \in DOMAIN (f \o a) : IF i <= Len(f) THEN i \in DOMAIN f /\ (f \o a)[i] = f[i]
             ELSE i - Len(f) \in DOMAIN a /\ (f \o a)[i] = a[i - Len(f)]
    BY <2>1, <2>2
  <2> DEFINE n == Len(f)
             g == f \o a
  <2>4. n \in Nat /\ DOMAIN g \subseteq Int
    BY <2>2
  <2> HIDE DEF n, g
  <2>5. ASSUME NEW i \in DOMAIN g, NEW j \in DOMAIN g, g[i] = g[j] PROVE i = j
    <3>1. CASE i <= n /\ j <= n
      BY <1>2, <2>3, <2>5, <3>1 DEF n, g, IsInjective
    <3>2. CASE ~(i <= n) /\ ~(j <= n)
      <4>1. i - n \in DOMAIN a /\ j - n \in DOMAIN a /\ a[i - n] = a[j - n]
        BY <2>3, <2>5, <3>2 DEF n, g
      <4>2. i - n = j - n
        BY <4>1 DEF IsInjective
      <4>3. QED
        BY <2>4, <4>2
    <3>3. CASE (i <= n) # (j <= n)
      BY <1>2, <2>3, <2>5, <3>3 DEF n, g
    <3>4. QED
      BY <3>1, <3>2, <3>3
  <2>6. IsInjective(g)
    BY <2>5 DEF IsInjective
  <2>7. QED
    BY <1>2, <2>1, <2>3, <2>6 DEF g, Holds
<1>3. QED
  BY <1>1, <1>2

LEMMA SamplesAreOnce ==
    ASSUME ControlInv, NEW w \in Work(1)
    PROVE  /\ w \in Traces \X Events /\ campaign.number[w[1]][w[2]] \in Nat
           /\ Samples(w[1], w[2]) \in Seq(Sample)
           /\ DOMAIN Samples(w[1], w[2]) = 1 .. campaign.number[w[1]][w[2]]
           /\ \A i \in 1 .. campaign.number[w[1]][w[2]] : Samples(w[1], w[2])[i] = <<w[1], i>>
           /\ IsInjective(Samples(w[1], w[2]))
<1>1. w \in Traces \X Events /\ campaign.number[w[1]][w[2]] # NotPresent
  BY DEF Work
<1>2. campaign.number[w[1]] \in [Events -> Nat \cup {NotPresent}]
  BY <1>1, PipelineAssumption DEF PipelineAssumption, ControlInv, Traces, Events
<1>3. w[1] \in Traces /\ w[2] \in Events
  BY <1>1
<1>4. campaign.number[w[1]][w[2]] \in Nat
  BY <1>1, <1>2, <1>3
<1> DEFINE n == campaign.number[w[1]][w[2]]
           s == Samples(w[1], w[2])
<1>5. s = [i \in 1 .. n |-> <<w[1], i>>]
  BY DEF Samples
<1> HIDE DEF n, s
<1>6. \A i \in 1 .. n : <<w[1], i>> \in Sample
  BY <1>3, <1>4 DEF Sample, n
<1>7. n \in Nat
  BY <1>4 DEF n
<1>8. s \in [1 .. n -> Sample] /\ DOMAIN s = 1 .. n /\ \A i \in 1 .. n : s[i] = <<w[1], i>>
  BY <1>5, <1>6
<1>9. s \in Seq(Sample) /\ DOMAIN s = 1 .. n /\ \A i \in 1 .. n : s[i] = <<w[1], i>>
  BY <1>7, <1>8
<1>10. IsInjective(s)
  BY <1>9 DEF IsInjective
<1>11. QED
  BY <1>1, <1>4, <1>9, <1>10 DEF n, s

-----------------------------------------------------------------------------
(* Where the user and the scripts are                                      *)

LEMMA DueIsLeft == Due \subseteq todo
BY DEF Due

LEMMA SameNames ==
    ASSUME UNCHANGED campaign
    PROVE  /\ Traces' = Traces /\ Events' = Events /\ Targets' = Targets /\ Sample' = Sample
           /\ Work(1)' = Work(1)
           /\ \A t, e : Samples(t, e)' = Samples(t, e)
           /\ \A w : TargetOf(w)' = TargetOf(w)
BY DEF Traces, Events, Targets, Sample, Work, Samples, TargetOf

LEMMA SameWork ==
    ASSUME UNCHANGED campaign
    PROVE  /\ UNCHANGED single => Work(2)' = Work(2)
           /\ UNCHANGED combined => Work(3)' = Work(3) /\ Work(4)' = Work(4)
BY SameNames DEF Work, Exists

\* Something of step 1, 2 or 4 that is left, and its files.
LEMMA LeftToDo ==
    ASSUME ControlInv, running, NEW w \in todo
    PROVE  /\ step = 1 => w \in Work(1) /\ w \in Traces \X Events
           /\ step = 2 => /\ w \in Work(2) /\ w \in Traces \X Events /\ single[w] \in Seq(Sample)
                          /\ single[w] # NoFile /\ TargetOf(w) \in Targets \X Events
           /\ step = 4 => /\ w \in Work(4) /\ w \in Targets \X Events /\ combined[w] \in Seq(Sample)
                          /\ combined[w] # NoFile
<1>1. w \in Work(step)
  BY DEF ControlInv
<1>2. step = 1 => w \in Work(1) /\ w \in Traces \X Events
  BY <1>1 DEF Work
<1>3. ASSUME step = 2
      PROVE  /\ w \in Work(2) /\ w \in Traces \X Events /\ single[w] \in Seq(Sample)
             /\ single[w] # NoFile /\ TargetOf(w) \in Targets \X Events
  <2>1. w \in Work(2) /\ w \in Traces \X Events /\ Exists(single, w[1], w[2])
    BY <1>1, <1>3 DEF Work
  <2>2. PICK t \in Traces, e \in Events : w = <<t, e>>
    BY <2>1
  <2>3. single[w] # NoFile
    BY <2>1, <2>2 DEF Exists
  <2>4. single[w] \in Seq(Sample)
    BY <2>1, <2>3 DEF ControlInv, FilesInv
  <2>5. TargetOf(w) \in Targets \X Events
    BY <2>2 DEF TargetOf, Targets
  <2>6. QED
    BY <2>1, <2>3, <2>4, <2>5
<1>4. ASSUME step = 4
      PROVE  /\ w \in Work(4) /\ w \in Targets \X Events /\ combined[w] \in Seq(Sample)
             /\ combined[w] # NoFile
  <2>1. w \in Work(4) /\ w \in Targets \X Events /\ Exists(combined, w[1], w[2])
    BY <1>1, <1>4 DEF Work
  <2>2. PICK g \in Targets, e \in Events : w = <<g, e>>
    BY <2>1
  <2>3. combined[w] # NoFile
    BY <2>1, <2>2 DEF Exists
  <2>4. QED
    BY <2>1, <2>3 DEF ControlInv, FilesInv
<1>5. QED
  BY <1>2, <1>3, <1>4

\* A beginning of a file is a file, and a choice of its samples too.
LEMMA BegunIsFile ==
    ASSUME NEW T, NEW f \in Seq(T), NEW b \in Begun(f)
    PROVE  b \in Seq(T)
<1>1. PICK n \in 0 .. Len(f) : b = SubSeq(f, 1, n)
  BY DEF Begun
<1>2. QED
  BY <1>1

LEMMA TakenIsFile ==
    ASSUME NEW T, NEW f \in Seq(T), NEW n \in Nat, NEW b \in Taken(f, n)
    PROVE  /\ b \in Seq(T) /\ Len(b) = n
           /\ \E p \in [1 .. n -> DOMAIN f] :
                 /\ \A i, j \in 1 .. n : i < j => p[i] < p[j]
                 /\ \A i \in 1 .. n : b[i] = f[p[i]]
<1>1. PICK p \in [1 .. n -> DOMAIN f] :
          /\ \A i, j \in 1 .. n : i < j => p[i] < p[j]
          /\ b = [i \in 1 .. n |-> f[p[i]]]
  BY DEF Taken
<1>2. \A i \in 1 .. n : p[i] \in DOMAIN f /\ f[p[i]] \in T
  OBVIOUS
<1>3. b \in [1 .. n -> T]
  BY <1>1, <1>2
<1>4. b \in Seq(T) /\ Len(b) = n
  BY <1>3
<1>5. QED
  BY <1>1, <1>4

\* What a script does with one file, to the end or interrupted.
ExtractOne(w, f) ==
    /\ single' = [single EXCEPT ![w] = Appended(@, f)]
    /\ UNCHANGED <<campaign, combined, selected>>

CombineOne(w, f) ==
    /\ combined' = [combined EXCEPT ![TargetOf(w)] = Appended(@, f)]
    /\ UNCHANGED <<campaign, single, selected>>

SelectOne(w, f) ==
    /\ selected' = [selected EXCEPT ![w] = f]
    /\ UNCHANGED <<campaign, single, combined>>

LEMMA SameFiles ==
    ASSUME ControlInv, UNCHANGED <<campaign, single, combined, selected>>
    PROVE  FilesInv'
BY SameNames DEF ControlInv, FilesInv

LEMMA ExtractKeepsFiles ==
    ASSUME ControlInv, NEW w \in Traces \X Events, NEW f \in Seq(Sample), ExtractOne(w, f)
    PROVE  FilesInv'
<1>1. Appended(single[w], f) \in Seq(Sample)
  BY AppendedFile DEF ControlInv, FilesInv, Sample
<1>2. QED
  BY <1>1, SameNames DEF ControlInv, FilesInv, ExtractOne

LEMMA CombineKeepsFiles ==
    ASSUME ControlInv, NEW w, TargetOf(w) \in Targets \X Events, NEW f \in Seq(Sample), CombineOne(w, f)
    PROVE  FilesInv'
<1>1. Appended(combined[TargetOf(w)], f) \in Seq(Sample)
  BY AppendedFile DEF ControlInv, FilesInv, Sample
<1>2. QED
  BY <1>1, SameNames DEF ControlInv, FilesInv, CombineOne

LEMMA SelectKeepsFiles ==
    ASSUME ControlInv, NEW w \in Targets \X Events, NEW f \in Seq(Sample), SelectOne(w, f)
    PROVE  FilesInv'
BY SameNames DEF ControlInv, FilesInv, SelectOne

LEMMA SmallestIsLeast ==
    ASSUME ControlInv, NEW w \in Work(4)
    PROVE  /\ Smallest(w[2]) \in Nat
           /\ combined[w] \in Seq(Sample) /\ Smallest(w[2]) <= Len(combined[w])
<1> DEFINE e     == w[2]
           sizes == {Len(combined[<<g, e>>]) : g \in {t \in Targets : Exists(combined, t, e)}}
<1>1. w[1] \in Targets /\ e \in Events /\ w = <<w[1], e>> /\ Exists(combined, w[1], e)
  BY DEF Work
<1>2. ASSUME NEW g \in Targets, Exists(combined, g, e) PROVE combined[<<g, e>>] \in Seq(Sample)
  BY <1>1, <1>2 DEF ControlInv, FilesInv, Exists
<1>3. sizes \subseteq Nat
  <2>1. ASSUME NEW n \in sizes PROVE n \in Nat
    <3>1. PICK g \in Targets : Exists(combined, g, e) /\ n = Len(combined[<<g, e>>])
      BY <2>1
    <3>2. combined[<<g, e>>] \in Seq(Sample)
      BY <1>2, <3>1
    <3>3. QED
      BY <3>1, <3>2
  <2>2. QED
    BY <2>1
<1>4. Len(combined[w]) \in sizes /\ combined[w] \in Seq(Sample)
  BY <1>1, <1>2
<1>5. Smallest(e) = Min(sizes)
  BY DEF Smallest
<1> HIDE DEF sizes, e
<1>6. \E n \in sizes : \A m \in sizes : n <= m
  BY <1>3, <1>4, LeastNumber
<1>7. Min(sizes) \in sizes /\ \A m \in sizes : Min(sizes) <= m
  BY <1>6 DEF Min
<1>8. QED
  BY <1>3, <1>4, <1>5, <1>7 DEF e

LEMMA LesserOfTwo ==
    ASSUME NEW m \in Nat, NEW n \in Nat
    PROVE  Min({m, n}) = IF m <= n THEN m ELSE n
<1> DEFINE k == IF m <= n THEN m ELSE n
<1>1. k \in {m, n} /\ \A j \in {m, n} : k <= j
  OBVIOUS
<1>2. \A i \in {m, n} : (\A j \in {m, n} : i <= j) => i = k
  OBVIOUS
<1> HIDE DEF k
<1>3. Min({m, n}) = k
  BY <1>1, <1>2 DEF Min
<1>4. QED
  BY <1>3 DEF k

\* No file that is selected from has fewer samples than were counted.
LEMMA UsedIsCount ==
    ASSUME ControlInv, CountsInv, step = 4, NEW w \in Work(4), w[2] \in DOMAIN counts
    PROVE  Used(w) = counts[w[2]] /\ Used(w) \in Nat /\ combined[w] \in Seq(Sample)
<1>1. counts[w[2]] = Smallest(w[2])
  BY DEF CountsInv
<1>2. counts[w[2]] \in Nat /\ counts[w[2]] <= Len(combined[w]) /\ combined[w] \in Seq(Sample)
  BY <1>1, SmallestIsLeast
<1>3. Len(combined[w]) \in Nat
  BY <1>2
<1>4. QED
  BY <1>2, <1>3, LesserOfTwo DEF Used

-----------------------------------------------------------------------------
(* Steps                                                                   *)

\* What the scripts and the user keep when something is worked on.
LEMMA GoKeepsControl ==
    ASSUME ControlInv, FilesInv', NEW w, Go(w),
           step = 2 => UNCHANGED single, step \in {3, 4} => UNCHANGED combined
    PROVE  ControlInv'
<1>1. UNCHANGED campaign /\ UNCHANGED <<step, running, finished, again>> /\ running
  BY DEF Go
<1>2. step \in 1 .. 4
  BY <1>1 DEF ControlInv
<1>3. Work(step)' = Work(step)
  BY <1>1, <1>2, SameNames, SameWork
<1>4. todo' \subseteq Work(step)'
  BY <1>1, <1>3 DEF Go, ControlInv
<1>5. QED
  BY <1>1, <1>4 DEF ControlInv

LEMMA ControlInit == Init => ControlInv /\ CountsInv
<1> SUFFICES ASSUME Init PROVE ControlInv /\ CountsInv
  OBVIOUS
<1>1. FilesInv
  BY DEF Init, FilesInv
<1>2. ControlInv
  <2>1. campaign \in Campaigns /\ step = 0 /\ todo = {} /\ ~running /\ finished = {}
    BY DEF Init
  <2>2. running \in BOOLEAN /\ again \in BOOLEAN
    BY DEF Init
  <2>3. QED
    BY <1>1, <2>1, <2>2 DEF ControlInv
<1>3. CountsInv
  BY DEF Init, CountsInv
<1>4. QED
  BY <1>2, <1>3

LEMMA ControlStep ==
    ASSUME ControlInv, CountsInv, [Next]_vars
    PROVE  ControlInv'
<1>1. ASSUME NEW k \in 1 .. 4, Start(k) PROVE ControlInv'
  <2>1. UNCHANGED campaign /\ UNCHANGED <<single, combined, selected>>
    BY <1>1 DEF Start
  <2>2. Work(k)' = Work(k)
    BY <2>1, SameNames, SameWork
  <2>3. FilesInv'
    BY <2>1, SameFiles
  <2>4. finished' \subseteq 1 .. step' /\ step' \in 0 .. 4 /\ step' # 0 /\ step' \notin finished'
    <3>1. finished \subseteq 1 .. step /\ step \in 0 .. 4
      BY DEF ControlInv
    <3>2. finished' = {s \in finished : s < k} /\ step' = k
      BY <1>1 DEF Start
    <3>3. k \in Int /\ 1 <= k /\ k <= 4
      BY <1>1
    <3>4. ASSUME NEW s \in finished' PROVE s \in 1 .. step' /\ s # step'
      <4>1. s \in finished /\ s < k
        BY <3>2, <3>4
      <4>2. s \in Int /\ 1 <= s
        BY <3>1, <4>1
      <4>3. QED
        BY <3>2, <3>3, <4>1, <4>2
    <3>5. QED
      BY <3>2, <3>3, <3>4
  <2>5. todo' \subseteq Work(step)'
    BY <1>1, <2>2 DEF Start
  <2>6. running' /\ running' \in BOOLEAN
    BY <1>1 DEF Start
  <2>7. again' \in BOOLEAN
    BY <1>1 DEF Start
  <2>8. QED
    BY <2>1, <2>3, <2>4, <2>5, <2>6, <2>7 DEF ControlInv
<1>2. CASE Extract
  <2>1. PICK w \in Due : Go(w) /\ single' = [single EXCEPT ![w] = Appended(@, Samples(w[1], w[2]))]
    BY <1>2 DEF Extract
  <2>2. w \in Work(1) /\ w \in Traces \X Events
    BY <1>2, <2>1, DueIsLeft, LeftToDo DEF Extract, Go
  <2>3. ExtractOne(w, Samples(w[1], w[2])) /\ Samples(w[1], w[2]) \in Seq(Sample)
    BY <1>2, <2>1, <2>2, SamplesAreOnce DEF ExtractOne, Extract, Go
  <2>4. FilesInv'
    BY <2>2, <2>3, ExtractKeepsFiles
  <2>5. QED
    BY <1>2, <2>1, <2>4, GoKeepsControl DEF Extract
<1>3. CASE Combine
  <2>1. PICK w \in Due : Go(w) /\ combined' = [combined EXCEPT ![TargetOf(w)] = Appended(@, single[w])]
    BY <1>3 DEF Combine
  <2>2. single[w] \in Seq(Sample) /\ TargetOf(w) \in Targets \X Events
    BY <1>3, <2>1, DueIsLeft, LeftToDo DEF Combine, Go
  <2>3. CombineOne(w, single[w])
    BY <1>3, <2>1 DEF CombineOne, Combine, Go
  <2>4. FilesInv'
    BY <2>2, <2>3, CombineKeepsFiles
  <2>5. QED
    BY <1>3, <2>1, <2>4, GoKeepsControl DEF Combine
<1>4. CASE Count
  <2>1. PICK e \in Due : Go(e)
    BY <1>4 DEF Count
  <2>2. FilesInv'
    BY <1>4, <2>1, SameFiles DEF Count, Go
  <2>3. QED
    BY <1>4, <2>1, <2>2, GoKeepsControl DEF Count
<1>5. CASE ShuffleTruncate
  <2>1. PICK w \in Due :
          /\ Go(w) /\ w[2] \in DOMAIN counts
          /\ \/ selected' = selected
             \/ \E f \in Taken(combined[w], Used(w)) : selected' = [selected EXCEPT ![w] = f]
    BY <1>5 DEF ShuffleTruncate
  <2>2. w \in Work(4) /\ w \in Targets \X Events
    BY <1>5, <2>1, DueIsLeft, LeftToDo DEF ShuffleTruncate, Go
  <2>3. Used(w) \in Nat /\ combined[w] \in Seq(Sample)
    BY <1>5, <2>1, <2>2, UsedIsCount DEF ShuffleTruncate
  <2>4. UNCHANGED <<campaign, single, combined>>
    BY <1>5, <2>1 DEF ShuffleTruncate, Go
  <2>5. ASSUME NEW f \in Taken(combined[w], Used(w)), selected' = [selected EXCEPT ![w] = f]
        PROVE  FilesInv'
    <3>1. f \in Seq(Sample)
      BY <2>3, <2>5, TakenIsFile
    <3>2. SelectOne(w, f)
      BY <2>4, <2>5 DEF SelectOne
    <3>3. QED
      BY <2>2, <3>1, <3>2, SelectKeepsFiles
  <2>6. FilesInv'
    BY <2>1, <2>4, <2>5, SameFiles
  <2>7. QED
    BY <1>5, <2>1, <2>6, GoKeepsControl DEF ShuffleTruncate
<1>6. CASE NoCount
  <2>1. FilesInv'
    BY <1>6, SameFiles DEF NoCount, Files
  <2>2. QED
    BY <1>6, <2>1 DEF NoCount, Files, ControlInv
<1>7. CASE Finish
  <2>1. FilesInv'
    BY <1>7, SameFiles DEF Finish, Files
  <2>2. UNCHANGED <<campaign, step, again, todo>> /\ running' = FALSE /\ running /\ todo = {}
        /\ finished' = finished \cup {step}
    BY <1>7 DEF Finish
  <2>3. finished' \subseteq 1 .. step'
    BY <2>2 DEF ControlInv
  <2>4. QED
    BY <2>1, <2>2, <2>3 DEF ControlInv
<1>8. CASE Interrupt
  <2>1. FilesInv'
    <3>1. PICK w \in Due :
       \/ UNCHANGED Files
       \/ /\ step = 1
          /\ \E f \in Begun(Samples(w[1], w[2])) : single' = [single EXCEPT ![w] = Appended(@, f)]
          /\ UNCHANGED <<combined, counts, selected>>
       \/ /\ step = 2
          /\ \E f \in Begun(single[w]) :
                combined' = [combined EXCEPT ![TargetOf(w)] = Appended(@, f)]
          /\ UNCHANGED <<single, counts, selected>>
       \/ /\ step = 4 /\ w[2] \in DOMAIN counts
          /\ \E n \in 0 .. Used(w) : \E f \in Taken(combined[w], n) :
                selected' = [selected EXCEPT ![w] = f]
          /\ UNCHANGED <<single, combined, counts>>
      BY <1>8 DEF Interrupt
    <3>2. w \in todo /\ running /\ UNCHANGED campaign
      BY <1>8, DueIsLeft DEF Interrupt
    <3>3. CASE UNCHANGED Files
      BY <3>2, <3>3, SameFiles DEF Files
    <3>4. ASSUME step = 1, NEW f \in Begun(Samples(w[1], w[2])),
                 single' = [single EXCEPT ![w] = Appended(@, f)], UNCHANGED <<combined, counts, selected>>
          PROVE  FilesInv'
      <4>1. w \in Work(1) /\ w \in Traces \X Events
        BY <3>2, <3>4, LeftToDo
      <4>2. f \in Seq(Sample)
        BY <3>4, <4>1, SamplesAreOnce, BegunIsFile
      <4>3. QED
        BY <3>2, <3>4, <4>1, <4>2, ExtractKeepsFiles DEF ExtractOne
    <3>5. ASSUME step = 2, NEW f \in Begun(single[w]),
                 combined' = [combined EXCEPT ![TargetOf(w)] = Appended(@, f)],
                 UNCHANGED <<single, counts, selected>>
          PROVE  FilesInv'
      <4>1. single[w] \in Seq(Sample) /\ TargetOf(w) \in Targets \X Events
        BY <3>2, <3>5, LeftToDo
      <4>2. f \in Seq(Sample)
        BY <3>5, <4>1, BegunIsFile
      <4>3. QED
        BY <3>2, <3>5, <4>1, <4>2, CombineKeepsFiles DEF CombineOne
    <3>6. ASSUME step = 4, w[2] \in DOMAIN counts, NEW n \in 0 .. Used(w),
                 NEW f \in Taken(combined[w], n), selected' = [selected EXCEPT ![w] = f],
                 UNCHANGED <<single, combined, counts>>
          PROVE  FilesInv'
      <4>1. w \in Work(4) /\ w \in Targets \X Events
        BY <3>2, <3>6, LeftToDo
      <4>2. Used(w) \in Nat /\ combined[w] \in Seq(Sample)
        BY <3>6, <4>1, UsedIsCount
      <4>3. n \in Nat
        BY <4>2
      <4>4. f \in Seq(Sample)
        BY <3>6, <4>2, <4>3, TakenIsFile
      <4>5. QED
        BY <3>2, <3>6, <4>1, <4>4, SelectKeepsFiles DEF SelectOne
    <3>7. QED
      BY <3>1, <3>3, <3>4, <3>5, <3>6
  <2>2. QED
    BY <1>8, <2>1 DEF Interrupt, ControlInv
<1>9. CASE UNCHANGED vars
  <2>1. UNCHANGED <<single, combined, selected, campaign, step, running, again, finished, todo>>
    BY <1>9 DEF vars
  <2>2. FilesInv'
    BY <2>1, SameFiles
  <2>3. step \in 1 .. 4 => Work(step)' = Work(step)
    BY <2>1, SameNames, SameWork
  <2>4. QED
    BY <2>1, <2>2, <2>3 DEF ControlInv
<1>10. QED
  BY <1>1, <1>2, <1>3, <1>4, <1>5, <1>6, <1>7, <1>8, <1>9 DEF Next

-----------------------------------------------------------------------------
(* A selection                                                             *)

\* A choice of samples has none more often than the file it is taken from.
LEMMA TakenNotMore ==
    ASSUME NEW T, NEW f \in Seq(T), NEW n \in Nat, NEW b \in Taken(f, n), NEW x
    PROVE  Times(x, b) <= Times(x, f)
<1>1. /\ b \in Seq(T) /\ Len(b) = n
      /\ \E p \in [1 .. n -> DOMAIN f] :
            /\ \A i, j \in 1 .. n : i < j => p[i] < p[j]
            /\ \A i \in 1 .. n : b[i] = f[p[i]]
  BY TakenIsFile
<1>2. PICK p \in [1 .. n -> DOMAIN f] :
          /\ \A i, j \in 1 .. n : i < j => p[i] < p[j]
          /\ \A i \in 1 .. n : b[i] = f[p[i]]
  BY <1>1
<1> DEFINE A == {i \in DOMAIN b : b[i] = x}
           B == {j \in DOMAIN f : f[j] = x}
           q == [i \in A |-> p[i]]
<1>3. A \subseteq 1 .. n /\ \A i \in A : p[i] \in B /\ f[p[i]] = x
  BY <1>1, <1>2
<1>4. \A i, j \in 1 .. n : p[i] = p[j] => i = j
  <2>1. \A i \in 1 .. n : p[i] \in Int
    OBVIOUS
  <2>2. QED
    BY <1>2, <2>1
<1>5. q \in [A -> B] /\ \A i, j \in A : q[i] = q[j] => i = j
  BY <1>3, <1>4
<1>6. IsFiniteSet(DOMAIN f)
  BY FS_Interval
<1>7. IsFiniteSet(B)
  BY <1>6, FS_Subset
<1> HIDE DEF A, B, q
<1>8. q \in Injection(A, B)
  BY <1>5 DEF Injection, IsInjective
<1>9. Cardinality(A) <= Cardinality(B)
  BY <1>7, <1>8, FS_Injection
<1>10. QED
  BY <1>9 DEF Times, A, B

LEMMA SameSmallest ==
    ASSUME UNCHANGED <<campaign, combined>>
    PROVE  \A e : Smallest(e)' = Smallest(e)
BY SameNames DEF Smallest, Exists

LEMMA CountsStep ==
    ASSUME ControlInv, CountsInv, [Next]_vars
    PROVE  CountsInv'
<1>0. UNCHANGED campaign
  BY DEF Next, Start, Extract, Combine, Count, ShuffleTruncate, NoCount, Finish, Interrupt, Go, vars
<1>1. ASSUME UNCHANGED <<combined, counts>>, step' \in {3, 4} => step \in {3, 4} PROVE CountsInv'
  BY <1>0, <1>1, SameNames, SameWork, SameSmallest DEF CountsInv
<1>2. ASSUME NEW k \in 1 .. 4, Start(k) PROVE CountsInv'
  <2>1. CASE k = 3
    <3>1. counts' = <<>>
      BY <1>2, <2>1 DEF Start
    <3>2. QED
      BY <3>1 DEF CountsInv
  <2>2. CASE k = 4
    <3>1. step \in {3, 4}
      BY <1>2, <2>2 DEF Start, ControlInv
    <3>2. QED
      BY <1>1, <1>2, <2>2, <3>1 DEF Start
  <2>3. CASE k \notin {3, 4}
    BY <1>2, <2>3 DEF Start, CountsInv
  <2>4. QED
    BY <2>1, <2>2, <2>3
<1>3. CASE Extract \/ Combine
  BY <1>3 DEF Extract, Combine, Go, CountsInv
<1>4. CASE Count
  <2>1. PICK e \in Due : Go(e) /\ counts' = [d \in {e} \cup DOMAIN counts |-> IF d = e THEN Smallest(e) ELSE counts[d]]
    BY <1>4 DEF Count
  <2>2. step = 3 /\ step' = 3 /\ UNCHANGED combined
    BY <1>4, <2>1 DEF Count, Go
  <2>3. e \in Work(3)
    BY <2>1, <2>2, DueIsLeft DEF Go, ControlInv
  <2>4. PICK g \in Targets : <<g, e>> \in Work(4)
    BY <2>3 DEF Work
  <2>5. DOMAIN counts' = {e} \cup DOMAIN counts
        /\ \A d \in DOMAIN counts' : counts'[d] = IF d = e THEN Smallest(e) ELSE counts[d]
    BY <2>1
  <2>6. QED
    BY <1>0, <2>2, <2>4, <2>5, SameNames, SameWork, SameSmallest DEF CountsInv
<1>5. CASE ShuffleTruncate \/ NoCount \/ Finish \/ UNCHANGED vars
  <2>1. UNCHANGED <<combined, counts>> /\ step' = step
    BY <1>5 DEF ShuffleTruncate, Go, NoCount, Finish, Files, vars
  <2>2. QED
    BY <1>1, <2>1
<1>6. CASE Interrupt
  <2>1. step' = step /\ (step \in {3, 4} => UNCHANGED <<combined, counts>>)
    BY <1>6 DEF Interrupt, Files
  <2>2. QED
    BY <1>1, <2>1 DEF CountsInv
<1>7. QED
  BY <1>2, <1>3, <1>4, <1>5, <1>6 DEF Next

LEMMA SelectStep ==
    ASSUME ControlInv, CountsInv, SelectInv, [Next]_vars
    PROVE  SelectInv'
<1>0. UNCHANGED campaign
  BY DEF Next, Start, Extract, Combine, Count, ShuffleTruncate, NoCount, Finish, Interrupt, Go, vars
<1>c. finished \subseteq 1 .. step /\ step \in 0 .. 4 /\ (running => step \notin finished)
  BY DEF ControlInv
<1>1. ASSUME \A w \in Work(4)' : ~Done(4, w)' PROVE SelectInv'
  BY <1>1 DEF SelectInv
<1>2. ASSUME UNCHANGED <<combined, counts, selected>>,
             \A w \in Work(4) : Done(4, w)' => Done(4, w)
      PROVE  SelectInv'
  BY <1>0, <1>2, SameWork, ZenonT(60) DEF SelectInv, SelectedWell, Times
<1>3. ASSUME NEW k \in 1 .. 4, Start(k) PROVE SelectInv'
  <2>1. 4 \notin finished' /\ step' = k /\ todo' = Work(k)
    BY <1>3 DEF Start
  <2>2. UNCHANGED combined
    BY <1>3 DEF Start
  <2>3. Work(4)' = Work(4)
    BY <1>0, <2>2, SameWork
  <2>4. QED
    BY <1>1, <2>1, <2>3 DEF Done
<1>4. CASE Extract \/ Combine \/ Count
  <2>1. step' = step /\ finished' = finished /\ step # 4
    <3>1. step \in {1, 2, 3} /\ \E w : Go(w)
      BY <1>4 DEF Extract, Combine, Count
    <3>2. QED
      BY <3>1 DEF Go
  <2>2. QED
    BY <1>c, <1>1, <2>1 DEF Done
<1>5. CASE ShuffleTruncate
  <2>1. PICK w \in Due :
          /\ Go(w) /\ w[2] \in DOMAIN counts
          /\ IF counts[w[2]] = 0 \/ combined[w] = <<>> THEN selected' = selected
             ELSE \E f \in Taken(combined[w], Used(w)) : selected' = [selected EXCEPT ![w] = f]
    BY <1>5 DEF ShuffleTruncate
  <2>2. step = 4 /\ UNCHANGED <<combined, counts, step, running, finished>> /\ todo' = todo \ {w} /\ running
    BY <1>5, <2>1 DEF ShuffleTruncate, Go
  <2>3. w \in Work(4) /\ w \in Targets \X Events
    BY <2>1, <2>2, DueIsLeft, LeftToDo
  <2>4. Used(w) = counts[w[2]] /\ Used(w) \in Nat /\ combined[w] \in Seq(Sample)
    BY <2>1, <2>2, <2>3, UsedIsCount
  <2>5. combined[w] = <<>> => counts[w[2]] = 0
    <3>1. counts[w[2]] = Smallest(w[2])
      BY <2>1, <2>2 DEF CountsInv
    <3>2. Smallest(w[2]) \in Nat /\ Smallest(w[2]) <= Len(combined[w])
      BY <2>3, SmallestIsLeast
    <3>3. QED
      BY <3>1, <3>2
  <2>6. SelectedWell(w)'
    <3>1. CASE counts[w[2]] = 0
      BY <2>1, <2>2, <3>1 DEF SelectedWell
    <3>2. CASE counts[w[2]] # 0
      <4>1. PICK f \in Taken(combined[w], Used(w)) : selected' = [selected EXCEPT ![w] = f]
        BY <2>1, <2>5, <3>2
      <4>2. selected'[w] = f
        BY <2>3, <4>1 DEF ControlInv, FilesInv
      <4>3. Len(f) = counts[w[2]] /\ \A x : Times(x, f) <= Times(x, combined[w])
        BY <2>4, TakenIsFile, TakenNotMore
      <4>4. \A x : Times(x, selected[w])' = Times(x, f) /\ Times(x, combined[w])' = Times(x, combined[w])
        BY <2>2, <4>2 DEF Times
      <4>5. QED
        BY <2>1, <2>2, <4>2, <4>3, <4>4 DEF SelectedWell
    <3>3. QED
      BY <3>1, <3>2
  <2>7. ASSUME NEW v \in Work(4), v # w, Done(4, v)' PROVE SelectedWell(v)'
    <3>1. Done(4, v)
      BY <2>2, <2>7 DEF Done
    <3>2. SelectedWell(v)
      BY <3>1 DEF SelectInv
    <3>3. selected'[v] = selected[v]
      BY <2>1, <2>7 DEF ControlInv, FilesInv, Work
    <3>4. QED
      BY <2>2, <3>2, <3>3 DEF SelectedWell, Times
  <2>8. Work(4)' = Work(4)
    BY <1>0, <2>2, SameWork
  <2>9. QED
    BY <2>6, <2>7, <2>8 DEF SelectInv
<1>6. CASE NoCount \/ Interrupt
  <2>1. finished' = finished /\ ~running' /\ running /\ (step = 4 \/ 4 \notin finished)
    BY <1>c, <1>6 DEF NoCount, Interrupt
  <2>2. QED
    BY <1>c, <1>1, <2>1 DEF Done
<1>7. CASE Finish
  <2>1. UNCHANGED <<combined, counts, selected>> /\ running /\ ~running' /\ todo = {}
        /\ finished' = finished \cup {step}
    BY <1>7 DEF Finish, Files
  <2>2. \A w : Done(4, w)' => Done(4, w)
    BY <2>1 DEF Done
  <2>3. QED
    BY <1>2, <2>1, <2>2
<1>8. CASE UNCHANGED vars
  <2>1. UNCHANGED <<combined, counts, selected, step, running, finished, todo>>
    BY <1>8 DEF vars
  <2>2. \A w : Done(4, w)' => Done(4, w)
    BY <2>1 DEF Done
  <2>3. QED
    BY <1>2, <2>1, <2>2
<1>9. QED
  BY <1>3, <1>4, <1>5, <1>6, <1>7, <1>8 DEF Next

\* Once a selection came to its end, the files of a kind of event have as many samples
\* each as the smallest had when they were counted, and none more often than the file
\* they are taken from, for any traces and whatever was interrupted before
\* (ft-select-samples:48-62, ft-shuffle-truncate:88-107).
THEOREM SelectionTheorem == Spec => []SelectedUniform
<1>1. Init => ControlInv /\ CountsInv /\ SelectInv
  <2>1. Init => SelectInv
    BY DEF Init, SelectInv, Done
  <2>2. QED
    BY <2>1, ControlInit
<1>2. ControlInv /\ CountsInv /\ SelectInv /\ [Next]_vars => (ControlInv /\ CountsInv /\ SelectInv)'
  BY ControlStep, CountsStep, SelectStep
<1>3. ControlInv /\ CountsInv /\ SelectInv => SelectedUniform
  <2> SUFFICES ASSUME ControlInv, CountsInv, SelectInv, 4 \in finished,
                      NEW g \in Targets, NEW e \in Events, Exists(combined, g, e)
               PROVE  /\ e \in DOMAIN counts
                      /\ counts[e] = Smallest(e)
                      /\ counts[e] # 0 =>
                           /\ Len(selected[<<g, e>>]) = counts[e]
                           /\ \A x \in Range(selected[<<g, e>>]) :
                                 Times(x, selected[<<g, e>>]) <= Times(x, combined[<<g, e>>])
    BY DEF SelectedUniform
  <2>1. <<g, e>> \in Work(4)
    BY DEF Work
  <2>2. SelectedWell(<<g, e>>)
    BY <2>1 DEF SelectInv, Done
  <2>3. step = 4
    BY DEF ControlInv
  <2>4. QED
    BY <2>2, <2>3 DEF SelectedWell, CountsInv
<1>4. QED
  BY <1>1, <1>2, <1>3, PTL DEF Spec

-----------------------------------------------------------------------------
(* No sample is lost                                                       *)

LEMMA KeptStep ==
    ASSUME ControlInv, KeptInv, [Next]_vars
    PROVE  KeptInv'
<1> DEFINE KeptOne(w) == /\ single[w] # NoFile
                         /\ \A i \in 1 .. campaign.number[w[1]][w[2]] : Holds(single[w], <<w[1], i>>)
           KeptTwo(w) == /\ combined[TargetOf(w)] # NoFile
                         /\ \A j \in DOMAIN single[w] : Holds(combined[TargetOf(w)], single[w][j])
<1>1. UNCHANGED campaign
  BY DEF Next, Start, Extract, Combine, Count, ShuffleTruncate, NoCount, Finish, Interrupt, Go, vars
<1>2. finished \subseteq 1 .. step /\ step \in 0 .. 4 /\ (running => step \notin finished)
  BY DEF ControlInv
<1>3. /\ \A w \in Work(1) : Done(1, w) => KeptOne(w)
      /\ \A w \in Work(2) : Done(2, w) => KeptTwo(w)
  BY DEF KeptInv
<1>4. SUFFICES /\ \A w \in Work(1)' : Done(1, w)' => KeptOne(w)'
               /\ \A w \in Work(2)' : Done(2, w)' => KeptTwo(w)'
  BY DEF KeptInv
<1>5. Work(1)' = Work(1) /\ \A w : TargetOf(w)' = TargetOf(w)
  BY <1>1, SameNames
<1>6. ASSUME UNCHANGED <<single, combined>>,
             \A w \in Work(1) : Done(1, w)' => Done(1, w),
             \A w \in Work(2) : Done(2, w)' => Done(2, w)
      PROVE  /\ \A w \in Work(1)' : Done(1, w)' => KeptOne(w)'
             /\ \A w \in Work(2)' : Done(2, w)' => KeptTwo(w)'
  <2>1. Work(2)' = Work(2)
    BY <1>1, <1>6, SameWork
  <2>2. \A w : (KeptOne(w)' <=> KeptOne(w)) /\ (KeptTwo(w)' <=> KeptTwo(w))
    BY <1>1, <1>5, <1>6 DEF Holds
  <2> HIDE DEF KeptOne, KeptTwo
  <2>3. QED
    BY <1>3, <1>5, <1>6, <2>1, <2>2
<1>7. ASSUME NEW k \in 1 .. 4, Start(k)
      PROVE  /\ \A w \in Work(1)' : Done(1, w)' => KeptOne(w)'
             /\ \A w \in Work(2)' : Done(2, w)' => KeptTwo(w)'
  <2>1. finished' \subseteq finished /\ step' = k /\ todo' = Work(k) /\ UNCHANGED <<single, combined>>
    BY <1>7 DEF Start
  <2> HIDE DEF KeptOne, KeptTwo
  <2>2. QED
    BY <1>6, <2>1 DEF Done
<1>8. CASE Extract
  <2>1. PICK w \in Due : Go(w) /\ single' = [single EXCEPT ![w] = Appended(@, Samples(w[1], w[2]))]
    BY <1>8 DEF Extract
  <2>2. step = 1 /\ running /\ UNCHANGED <<step, running, finished>> /\ todo' = todo \ {w}
    BY <1>8, <2>1 DEF Extract, Go
  <2>3. finished = {}
    BY <1>2, <2>2
  <2>4. w \in Work(1) /\ w \in Traces \X Events
    BY <2>1, <2>2, DueIsLeft, LeftToDo
  <2>5. KeptOne(w)'
    <3> DEFINE s == Samples(w[1], w[2])
               n == campaign.number[w[1]][w[2]]
    <3>1. s \in Seq(Sample) /\ DOMAIN s = 1 .. n /\ \A i \in 1 .. n : s[i] = <<w[1], i>>
      BY <2>4, SamplesAreOnce
    <3>2. single[w] \in Seq(Sample) \cup {NoFile}
      BY <2>4 DEF ControlInv, FilesInv
    <3> HIDE DEF s
    <3>3. single'[w] = Appended(single[w], s)
      BY <2>1, <2>4 DEF ControlInv, FilesInv, s
    <3>4. Appended(single[w], s) # NoFile /\ \A j \in DOMAIN s : Holds(Appended(single[w], s), s[j])
      BY <3>1, <3>2, AppendedFile DEF Sample
    <3>5. \A i \in 1 .. n : Holds(single'[w], <<w[1], i>>)
      BY <3>1, <3>3, <3>4
    <3>6. \A x : Holds(single[w], x)' <=> Holds(single'[w], x)
      BY DEF Holds
    <3>7. QED
      BY <1>1, <3>3, <3>4, <3>5, <3>6
  <2>6. ASSUME NEW v \in Work(1), v # w, Done(1, v)' PROVE KeptOne(v)'
    <3>1. Done(1, v)
      BY <2>2, <2>6 DEF Done
    <3>2. single'[v] = single[v]
      BY <2>1, <2>6 DEF ControlInv, FilesInv, Work
    <3>3. KeptOne(v)
      BY <1>3, <3>1
    <3>4. QED
      BY <1>1, <3>2, <3>3 DEF Holds
  <2>7. \A v : ~Done(2, v)'
    BY <2>2, <2>3 DEF Done
  <2> HIDE DEF KeptOne, KeptTwo
  <2>8. QED
    BY <1>5, <2>5, <2>6, <2>7
<1>9. CASE Combine
  <2>1. PICK w \in Due : Go(w) /\ combined' = [combined EXCEPT ![TargetOf(w)] = Appended(@, single[w])]
    BY <1>9 DEF Combine
  <2>2. step = 2 /\ running /\ UNCHANGED <<step, running, finished, single>> /\ todo' = todo \ {w}
    BY <1>9, <2>1 DEF Combine, Go
  <2>3. w \in Work(2) /\ single[w] \in Seq(Sample) /\ TargetOf(w) \in Targets \X Events
    BY <2>1, <2>2, DueIsLeft, LeftToDo
  <2> DEFINE u == TargetOf(w)
             g == Appended(combined[u], single[w])
  <2>4. combined[u] \in Seq(Sample) \cup {NoFile} /\ combined'[u] = g
    BY <2>1, <2>3 DEF ControlInv, FilesInv
  <2>5. /\ g # NoFile
        /\ \A j \in DOMAIN single[w] : Holds(g, single[w][j])
        /\ combined[u] # NoFile => \A j \in DOMAIN combined[u] : Holds(g, combined[u][j])
    BY <2>3, <2>4, AppendedFile DEF Sample
  <2> HIDE DEF g
  <2>6. \A v \in Targets \X Events : combined[v] # NoFile =>
          /\ combined'[v] # NoFile
          /\ \A x : Holds(combined[v], x) => Holds(combined'[v], x)
    <3> SUFFICES ASSUME NEW v \in Targets \X Events, combined[v] # NoFile
                 PROVE  combined'[v] # NoFile /\ \A x : Holds(combined[v], x) => Holds(combined'[v], x)
      OBVIOUS
    <3>1. CASE v = u
      BY <2>4, <2>5, <3>1 DEF Holds
    <3>2. CASE v # u
      <4>1. combined'[v] = combined[v]
        BY <2>1, <3>2 DEF ControlInv, FilesInv
      <4>2. QED
        BY <4>1
    <3>3. QED
      BY <3>1, <3>2
  <2>7. Work(2)' = Work(2)
    BY <1>1, <2>2, SameWork
  <2>8. \A v, x : Holds(combined[v], x)' <=> Holds(combined'[v], x)
    BY DEF Holds
  <2>9. KeptTwo(w)'
    BY <1>5, <2>2, <2>4, <2>5, <2>8
  <2>10. ASSUME NEW v \in Work(2), v # w, Done(2, v)' PROVE KeptTwo(v)'
    <3>1. Done(2, v)
      BY <2>2, <2>10 DEF Done
    <3>2. KeptTwo(v)
      BY <1>3, <3>1
    <3>3. TargetOf(v) \in Targets \X Events
      BY DEF Work, TargetOf, Targets
    <3>4. \A j \in DOMAIN single[v] : Holds(combined'[TargetOf(v)], single[v][j])
      BY <2>6, <3>2, <3>3
    <3>5. combined'[TargetOf(v)] # NoFile
      BY <2>6, <3>2, <3>3
    <3>6. \A x : Holds(combined[TargetOf(v)], x)' <=> Holds(combined'[TargetOf(v)], x)
      BY <1>5 DEF Holds
    <3>7. QED
      BY <1>5, <2>2, <3>4, <3>5, <3>6
  <2>11. ASSUME NEW v \in Work(1), Done(1, v)' PROVE KeptOne(v)'
    <3>1. Done(1, v)
      BY <2>2, <2>11 DEF Done
    <3>2. KeptOne(v)
      BY <1>3, <3>1
    <3>3. QED
      BY <1>1, <2>2, <3>2 DEF Holds
  <2> HIDE DEF KeptOne, KeptTwo
  <2>12. QED
    BY <1>5, <2>7, <2>9, <2>10, <2>11
<1>10. CASE Count \/ ShuffleTruncate
  <2>1. step \in {3, 4} /\ UNCHANGED <<single, combined>> /\ \E w : Go(w)
    BY <1>10 DEF Count, ShuffleTruncate
  <2>2. UNCHANGED <<step, running, finished>>
    BY <2>1 DEF Go
  <2> HIDE DEF KeptOne, KeptTwo
  <2>3. QED
    BY <1>6, <2>1, <2>2 DEF Done
<1>11. CASE NoCount \/ Finish
  <2>1. UNCHANGED <<single, combined>> /\ ~running' /\ running
        /\ (finished' = finished \/ (todo = {} /\ finished' = finished \cup {step}))
    BY <1>11 DEF NoCount, Finish, Files
  <2> HIDE DEF KeptOne, KeptTwo
  <2>2. QED
    BY <1>6, <2>1 DEF Done
<1>12. CASE Interrupt
  <2>1. finished' = finished /\ ~running' /\ running /\ (step \notin {1, 2} => UNCHANGED <<single, combined>>)
        /\ (step = 2 => UNCHANGED single)
    BY <1>12 DEF Interrupt, Files
  <2>2. \A k, w : Done(k, w)' => Done(k, w) /\ k < step
    <3>1. \A k, w : Done(k, w)' => k \in finished
      BY <2>1 DEF Done
    <3>2. \A k \in finished : k < step
      BY <1>2, <2>1
    <3>3. QED
      BY <3>1, <3>2 DEF Done
  <2>3. CASE step = 1
    BY <1>2, <2>1, <2>2, <2>3 DEF Done
  <2>4. CASE step = 2
    <3>1. \A w : ~Done(2, w)'
      BY <2>2, <2>4
    <3>2. \A w : KeptOne(w)' <=> KeptOne(w)
      BY <1>1, <2>1, <2>4 DEF Holds
    <3> HIDE DEF KeptOne, KeptTwo
    <3>3. QED
      BY <1>3, <1>5, <2>2, <3>1, <3>2
  <2> HIDE DEF KeptOne, KeptTwo
  <2>5. QED
    BY <1>6, <2>1, <2>2, <2>3, <2>4
<1>13. CASE UNCHANGED vars
  <2>1. UNCHANGED <<single, combined, step, running, finished, todo>>
    BY <1>13 DEF vars
  <2> HIDE DEF KeptOne, KeptTwo
  <2>2. QED
    BY <1>6, <2>1 DEF Done
<1> HIDE DEF KeptOne, KeptTwo
<1>14. QED
  BY <1>7, <1>8, <1>9, <1>10, <1>11, <1>12, <1>13 DEF Next

-----------------------------------------------------------------------------
(* None is doubled                                                         *)

LEMMA AgainStays ==
    ASSUME [Next]_vars, ~again'
    PROVE  ~again
<1>1. ASSUME NEW k \in 1 .. 4, Start(k) PROVE ~again
  <2>1. again' = (again \/ step >= k)
    BY <1>1 DEF Start
  <2>2. QED
    BY <2>1, Zenon
<1>2. CASE \E w : Go(w)
  BY <1>2 DEF Go
<1>3. CASE NoCount \/ Finish \/ Interrupt \/ UNCHANGED vars
  BY <1>3 DEF NoCount, Finish, Interrupt, vars
<1>4. QED
  BY <1>1, <1>2, <1>3 DEF Next, Extract, Combine, Count, ShuffleTruncate

LEMMA OnceStep ==
    ASSUME ControlInv, OnceInv, [Next]_vars, ~again'
    PROVE  OnceInv'
<1> DEFINE One(w) == single[w] = IF w \in Work(1) /\ Passed(1, w) THEN Samples(w[1], w[2]) ELSE NoFile
           Two(v) == combined[v] # NoFile => /\ \A j \in DOMAIN combined[v] : Belongs(combined[v][j], v)
                                            /\ IsInjective(combined[v])
<1>0. ~again
  BY AgainStays
<1>1. UNCHANGED campaign
  BY DEF Next, Start, Extract, Combine, Count, ShuffleTruncate, NoCount, Finish, Interrupt, Go, vars
<1>2. step \in 0 .. 4
  BY DEF ControlInv
<1>3. (\A w \in Traces \X Events : One(w)) /\ \A v \in Targets \X Events : Two(v)
  BY <1>0 DEF OnceInv
<1>4. SUFFICES (\A w \in Traces \X Events : One(w)') /\ \A v \in Targets \X Events : Two(v)'
  BY <1>1, SameNames DEF OnceInv
<1>5. /\ Work(1)' = Work(1) /\ \A w : TargetOf(w)' = TargetOf(w)
      /\ \A t, e : Samples(t, e)' = Samples(t, e)
  BY <1>1, SameNames
\* A file keeps what belongs to it.
<1>6. ASSUME \A w \in Work(1) : Passed(2, w) => Passed(2, w)'
      PROVE  \A x, v : Belongs(x, v) => Belongs(x, v)'
  BY <1>1, <1>5, <1>6 DEF Belongs
<1>7. ASSUME UNCHANGED combined, \A w \in Work(1) : Passed(2, w) => Passed(2, w)'
      PROVE  \A v \in Targets \X Events : Two(v)'
  <2>1. ASSUME NEW v \in Targets \X Events, combined'[v] # NoFile
        PROVE  (\A j \in DOMAIN combined[v] : Belongs(combined[v][j], v)') /\ IsInjective(combined[v])
    BY <1>3, <1>6, <1>7, <2>1
  <2>2. \A x, v, j : x = combined[v][j] => (Belongs(combined[v][j], v)' <=> Belongs(x, v)')
    BY <1>7 DEF Belongs
  <2>3. \A v : IsInjective(combined[v])' <=> IsInjective(combined[v])
    BY <1>7 DEF IsInjective
  <2>4. QED
    BY <1>7, <2>1, <2>2, <2>3
<1>8. ASSUME UNCHANGED single, \A w \in Work(1) : Passed(1, w)' <=> Passed(1, w)
      PROVE  \A w \in Traces \X Events : One(w)'
  BY <1>3, <1>5, <1>8
<1>9. ASSUME NEW k \in 1 .. 4, Start(k)
      PROVE  (\A w \in Traces \X Events : One(w)') /\ \A v \in Targets \X Events : Two(v)'
  <2>1. ~running /\ step = k - 1 /\ step' = k /\ todo' = Work(k) /\ UNCHANGED <<single, combined>> /\ running'
    <3>1. again' = (again \/ step >= k)
      BY <1>9 DEF Start
    <3>2. ~(step >= k)
      BY <3>1, Zenon
    <3>3. ~running /\ step + 1 >= k /\ step' = k /\ todo' = Work(k) /\ UNCHANGED <<single, combined>> /\ running'
      BY <1>9 DEF Start
    <3>4. k \in Int /\ step \in Int
      BY <1>2, <1>9
    <3>5. QED
      BY <3>2, <3>3, <3>4
  <2>2. \A w \in Work(1) : Passed(1, w)' <=> Passed(1, w)
    BY <2>1 DEF Passed
  <2>3. \A w \in Work(1) : Passed(2, w) => Passed(2, w)'
    BY <2>1 DEF Passed
  <2> HIDE DEF One, Two
  <2>4. QED
    BY <1>7, <1>8, <2>1, <2>2, <2>3
<1>10. CASE Extract
  <2>1. PICK w \in Due : Go(w) /\ single' = [single EXCEPT ![w] = Appended(@, Samples(w[1], w[2]))]
    BY <1>10 DEF Extract
  <2>2. /\ step = 1 /\ running /\ UNCHANGED <<step, running, combined>> /\ todo' = todo \ {w}
        /\ w \in todo
    BY <1>10, <2>1, DueIsLeft DEF Extract, Go
  <2>3. w \in Work(1) /\ w \in Traces \X Events
    BY <2>2, LeftToDo
  <2>4. One(w)'
    <3>1. single[w] = NoFile
      BY <1>3, <2>2, <2>3 DEF Passed
    <3>2. single'[w] = Samples(w[1], w[2])
      BY <2>1, <2>3, <3>1 DEF ControlInv, FilesInv, Appended
    <3>3. Passed(1, w)'
      BY <2>2 DEF Passed
    <3>4. QED
      BY <1>5, <2>3, <3>2, <3>3
  <2>5. ASSUME NEW v \in Traces \X Events, v # w PROVE One(v)'
    <3>1. single'[v] = single[v]
      BY <2>1, <2>5 DEF ControlInv, FilesInv
    <3>2. Passed(1, v)' <=> Passed(1, v)
      BY <2>2, <2>5 DEF Passed
    <3>3. QED
      BY <1>3, <1>5, <3>1, <3>2
  <2>6. \A v : ~Passed(2, v)
    BY <2>2 DEF Passed
  <2> HIDE DEF One, Two
  <2>7. QED
    BY <1>7, <2>2, <2>4, <2>5, <2>6
<1>11. CASE Combine
  <2>1. PICK w \in Due : Go(w) /\ combined' = [combined EXCEPT ![TargetOf(w)] = Appended(@, single[w])]
    BY <1>11 DEF Combine
  <2>2. /\ step = 2 /\ running /\ UNCHANGED <<step, running, single>> /\ todo' = todo \ {w}
        /\ w \in todo
    BY <1>11, <2>1, DueIsLeft DEF Combine, Go
  <2>3. w \in Traces \X Events /\ single[w] # NoFile /\ TargetOf(w) \in Targets \X Events
    BY <2>2, LeftToDo
  <2>4. w \in Work(1) /\ single[w] = Samples(w[1], w[2])
    BY <1>3, <2>3
  <2>u. PICK u \in Targets \X Events : u = TargetOf(w)
    BY <2>3
  <2> DEFINE n == campaign.number[w[1]][w[2]]
             s == Samples(w[1], w[2])
             f == combined[u]
             g == Appended(f, s)
  <2>5. s \in Seq(Sample) /\ DOMAIN s = 1 .. n /\ IsInjective(s) /\ \A i \in 1 .. n : s[i] = <<w[1], i>>
    BY <2>4, SamplesAreOnce
  <2>6. f \in Seq(Sample) \cup {NoFile} /\ combined'[u] = g
    BY <2>1, <2>u, <2>4 DEF ControlInv, FilesInv
  <2>7. f # NoFile => IsInjective(f) /\ \A j \in DOMAIN f : Belongs(f[j], u)
    BY <1>3
  <2>8. u[2] = w[2] /\ w = <<w[1], w[2]>>
    BY <2>3, <2>u DEF TargetOf
  <2>9. \A i \in 1 .. n : ~Belongs(<<w[1], i>>, u) /\ Belongs(<<w[1], i>>, u)'
    <3>1. ~Passed(2, w) /\ Passed(2, w)'
      BY <2>2 DEF Passed
    <3>2. n \in Nat
      BY <2>4, SamplesAreOnce
    <3>3. \A i \in 1 .. n : <<w[1], i>>[1] = w[1] /\ <<w[1], i>>[2] = i /\ i <= n
      BY <3>2
    <3>4. ASSUME NEW i \in 1 .. n PROVE ~Belongs(<<w[1], i>>, u)
      BY <2>8, <3>1, <3>3 DEF Belongs
    <3>5. ASSUME NEW i \in 1 .. n PROVE Belongs(<<w[1], i>>, u)'
      BY <1>1, <1>5, <2>u, <2>4, <2>8, <3>1, <3>3 DEF Belongs
    <3>6. QED
      BY <3>4, <3>5
  <2>10. \A x, v : Belongs(x, v) => Belongs(x, v)'
    <3>1. \A v : Passed(2, v) => Passed(2, v)'
      BY <2>2 DEF Passed
    <3>2. QED
      BY <1>6, <3>1
  <2> HIDE DEF n, s, f, g
  <2>11. f # NoFile => \A i \in DOMAIN f, j \in DOMAIN s : f[i] # s[j]
    BY <2>5, <2>7, <2>9
  <2>12. /\ IsInjective(g)
         /\ \A i \in DOMAIN g : Holds(s, g[i]) \/ (f # NoFile /\ Holds(f, g[i]))
    BY <2>5, <2>6, <2>7, <2>11, AppendedOnce DEF Sample, g
  <2>13. \A x : (\E i \in DOMAIN g : g[i] = x) => Belongs(x, u)'
    BY <2>5, <2>7, <2>9, <2>10, <2>12 DEF Holds
  <2>14. \A v : /\ \A x, j : x = combined'[v][j] => (Belongs(combined[v][j], v)' <=> Belongs(x, v)')
                /\ IsInjective(combined[v])' <=> IsInjective(combined'[v])
    BY DEF Belongs, IsInjective
  <2>15. ASSUME NEW v \in Targets \X Events PROVE Two(v)'
    <3>1. CASE v = u
      <4>1. combined'[v] = g
        BY <2>6, <3>1
      <4>2. \A j \in DOMAIN combined'[v] : Belongs(combined[v][j], v)'
        BY <2>13, <2>14, <3>1, <4>1
      <4>3. QED
        BY <2>12, <2>14, <4>1, <4>2
    <3>2. CASE v # u
      <4>1. combined'[v] = combined[v]
        BY <2>1, <2>u, <3>2 DEF ControlInv, FilesInv
      <4>2. ASSUME combined'[v] # NoFile
            PROVE  (\A j \in DOMAIN combined[v] : Belongs(combined[v][j], v)') /\ IsInjective(combined[v])'
        BY <1>3, <2>10, <2>14, <4>1, <4>2
      <4>3. QED
        BY <4>1, <4>2
    <3>3. QED
      BY <3>1, <3>2
  <2>16. \A v \in Work(1) : Passed(1, v)' <=> Passed(1, v)
    BY <2>2 DEF Passed
  <2> HIDE DEF One, Two
  <2>17. QED
    BY <1>8, <2>2, <2>15, <2>16
<1>12. CASE Count \/ ShuffleTruncate
  <2>1. step \in {3, 4} /\ UNCHANGED <<single, combined>> /\ \E w : Go(w)
    BY <1>12 DEF Count, ShuffleTruncate
  <2>2. UNCHANGED <<step, running>>
    BY <2>1 DEF Go
  <2>3. \A k \in {1, 2} : \A w : Passed(k, w)' <=> Passed(k, w)
    BY <2>1, <2>2 DEF Passed
  <2> HIDE DEF One, Two
  <2>4. QED
    BY <1>7, <1>8, <2>1, <2>3
<1>13. CASE NoCount \/ Finish \/ UNCHANGED vars
  <2>1. UNCHANGED <<single, combined, step>>
    BY <1>13 DEF NoCount, Finish, Files, vars
  <2>2. \A k \in {1, 2} : \A w : Passed(k, w)' <=> Passed(k, w)
    BY <1>13 DEF Passed, NoCount, Finish, vars
  <2> HIDE DEF One, Two
  <2>3. QED
    BY <1>7, <1>8, <2>1, <2>2
<1>14. CASE Interrupt
  BY <1>14 DEF Interrupt
<1> HIDE DEF One, Two
<1>15. QED
  BY <1>9, <1>10, <1>11, <1>12, <1>13, <1>14 DEF Next

\* A file that holds a sample has it at least once, and once if it has nothing twice.
LEMMA HowOften ==
    ASSUME NEW T, NEW f \in Seq(T), NEW x, Holds(f, x)
    PROVE  Times(x, f) >= 1 /\ (IsInjective(f) => Times(x, f) = 1)
<1> DEFINE A == {i \in DOMAIN f : f[i] = x}
<1>1. PICK j \in DOMAIN f : f[j] = x
  BY DEF Holds
<1>2. IsFiniteSet(A)
  BY FS_Interval, FS_Subset
<1>3. {j} \in SUBSET A
  BY <1>1
<1>4. IsInjective(f) => A = {j}
  BY <1>1 DEF IsInjective
<1>5. Cardinality({j}) = 1
  BY FS_Singleton
<1> HIDE DEF A
<1>6. Cardinality({j}) <= Cardinality(A)
  BY <1>2, <1>3, FS_Subset
<1>7. Cardinality(A) \in Nat
  BY <1>2, FS_CardinalityType
<1>8. QED
  BY <1>4, <1>5, <1>6, <1>7 DEF Times, A

\* When samples were extracted and combined to the end, every sample of every trace is in
\* the file it is combined into, whatever was interrupted before, and once, with nothing
\* else, if nothing was interrupted or repeated, for any traces
\* (ft-extract-samples:52-58, ft-combine-samples:71-76).
THEOREM KeptTheorem == Spec => []SamplesKept
<1> DEFINE Inv == ControlInv /\ CountsInv /\ KeptInv /\ OnceInv
<1>1. Init => Inv
  <2>1. Init => KeptInv
    BY DEF Init, KeptInv, Done
  <2>2. Init => OnceInv
    BY DEF Init, OnceInv, Passed
  <2>3. QED
    BY <2>1, <2>2, ControlInit
<1>2. Inv /\ [Next]_vars => Inv'
  <2>1. ControlInv /\ OnceInv /\ [Next]_vars => OnceInv'
    <3>1. ASSUME again' PROVE OnceInv'
      BY <3>1 DEF OnceInv
    <3>2. QED
      BY <3>1, OnceStep
  <2>2. QED
    BY <2>1, ControlStep, CountsStep, KeptStep
<1>3. Inv => SamplesKept
  <2> SUFFICES ASSUME Inv, {1, 2} \subseteq finished, NEW t \in Traces, NEW e \in Events,
                      campaign.number[t][e] # NotPresent
               PROVE  LET f == combined[<<campaign.target[t], e>>]
                      IN  /\ f # NoFile
                          /\ \A i \in 1 .. campaign.number[t][e] :
                               IF again THEN Times(<<t, i>>, f) >= 1 ELSE Times(<<t, i>>, f) = 1
                          /\ ~again => \A j \in DOMAIN f :
                               /\ campaign.target[f[j][1]] = campaign.target[t]
                               /\ f[j][2] <= campaign.number[f[j][1]][e]
    BY DEF SamplesKept
  <2> DEFINE w == <<t, e>>
             v == <<campaign.target[t], e>>
             f == combined[v]
             n == campaign.number[t][e]
  <2>1. w \in Work(1) /\ TargetOf(w) = v /\ v \in Targets \X Events /\ w \in Traces \X Events
    BY DEF Work, TargetOf, Targets
  <2>2. single[w] # NoFile /\ \A i \in 1 .. n : Holds(single[w], <<t, i>>)
    BY <2>1 DEF KeptInv, Done
  <2>3. w \in Work(2)
    BY <2>1, <2>2 DEF Work, Exists
  <2>4. f # NoFile /\ \A j \in DOMAIN single[w] : Holds(f, single[w][j])
    BY <2>1, <2>3 DEF KeptInv, Done
  <2>5. f \in Seq(Sample)
    BY <2>1, <2>4 DEF ControlInv, FilesInv
  <2>6. ~again => IsInjective(f) /\ \A j \in DOMAIN f : Belongs(f[j], v)
    BY <2>1, <2>4 DEF OnceInv
  <2>7. \A i \in 1 .. n : Holds(f, <<t, i>>)
    BY <2>2, <2>4 DEF Holds
  <2> HIDE DEF f, n
  <2>8. ASSUME NEW i \in 1 .. n
        PROVE  IF again THEN Times(<<t, i>>, f) >= 1 ELSE Times(<<t, i>>, f) = 1
    BY <2>5, <2>6, <2>7, HowOften
  <2>9. ASSUME ~again, NEW j \in DOMAIN f
        PROVE  campaign.target[f[j][1]] = campaign.target[t] /\ f[j][2] <= campaign.number[f[j][1]][e]
    <3>1. Belongs(f[j], v)
      BY <2>6, <2>9
    <3>2. TargetOf(<<f[j][1], e>>) = v
      BY <3>1 DEF Belongs
    <3>3. QED
      BY <3>1, <3>2 DEF Belongs, TargetOf
  <2>10. QED
    BY <2>4, <2>8, <2>9 DEF f, n
<1> HIDE DEF Inv
<1>4. QED
  BY <1>1, <1>2, <1>3, PTL DEF Spec
=============================================================================
