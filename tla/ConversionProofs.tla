--------------------------- MODULE ConversionProofs ---------------------------
(***************************************************************************)
(* For any number of jobs, processes and crashes: a job is done only when  *)
(* its own converter wrote a file, when no two jobs share an output path;  *)
(* what a done job's output holds was made from its source, when only jobs *)
(* of one source share a path; and each process converts a job only once.  *)
(***************************************************************************)
EXTENDS Conversion, FiniteSetTheorems, TLAPS

\* No two jobs are named after the same stem and format.
Distinct == \A i, j \in Jobs : OutOf[i] = OutOf[j] => i = j

\* The file at a path was written by a job that is named after it, and a
\* running converter belongs to a job.
WriteInv ==
  /\ status \in [Jobs -> Statuses]
  /\ made \in [Outs -> Jobs \cup {None}]
  /\ job \in [Workers -> Jobs \cup {None}]
  /\ pc \in [Workers -> {"idle", "next", "convert", "save"}]
  /\ \A w \in Workers : pc[w] \in {"convert", "save"} => job[w] \in Jobs
  /\ \A o \in Outs : made[o] # None => OutOf[made[o]] = o /\ made[o] \in wrote
  /\ DoneWrote

\* The initial state satisfies the invariant.
LEMMA InitWrite == Init => WriteInv
BY DEF Init, WriteInv, Statuses, DoneWrote

\* A commit makes no other job done than the one it ends.
LEMMA CommitDone ==
  ASSUME WriteInv, NEW w \in Workers, NEW j \in Jobs, NEW s \in Statuses,
         status' = Committed(w, j, s), wrote' = wrote, s = "done" => j \in wrote
  PROVE  (status \in [Jobs -> Statuses])' /\ DoneWrote'
<1>1. \A i \in Jobs : status'[i] = IF i = j THEN s ELSE IF i \in rejected[w] THEN "failed" ELSE status[i]
  BY DEF Committed
<1>2. (status \in [Jobs -> Statuses])'
  BY DEF Committed, WriteInv, Statuses
<1>3. QED
  BY <1>1, <1>2 DEF DoneWrote, WriteInv

\* The converter writes the path named after its own job.
LEMMA ConverterWrites == ASSUME WriteInv, NEW w \in Workers, Converter(w) PROVE WriteInv'
<1> USE DEF Converter, ConverterEnds
<1>1. UNCHANGED <<status, job>> /\ (pc \in [Workers -> {"idle", "next", "convert", "save"}])'
  BY DEF WriteInv
<1>2. job[w] \in Jobs /\ OutOf[job[w]] \in Outs
  BY ConversionAssumption DEF WriteInv
<1>3. (made \in [Outs -> Jobs \cup {None}])'
  BY <1>2 DEF WriteInv
<1>4. \A o \in Outs : made'[o] # None => OutOf[made'[o]] = o /\ made'[o] \in wrote'
  BY <1>2 DEF WriteInv
<1>5. \A v \in Workers : pc'[v] \in {"convert", "save"} => job'[v] \in Jobs
  BY <1>1, <1>2 DEF WriteInv
<1>6. DoneWrote'
  BY <1>1 DEF WriteInv, DoneWrote
<1>7. QED
  BY <1>1, <1>3, <1>4, <1>5, <1>6 DEF WriteInv

\* A job that saves success finds a file at its path; only it writes there.
LEMMA SaveDoneWrote == ASSUME Distinct, WriteInv, NEW w \in Workers, SaveDone(w) PROVE WriteInv'
<1> USE DEF SaveDone
<1>1. job[w] \in Jobs /\ OutOf[job[w]] \in Outs
  BY ConversionAssumption DEF WriteInv
<1>2. made[OutOf[job[w]]] \in Jobs
  BY <1>1 DEF Succeeded, WriteInv
<1>3. made[OutOf[job[w]]] = job[w]
  BY <1>1, <1>2, ConversionAssumption DEF WriteInv, Distinct
<1>4. job[w] \in wrote
  BY <1>1, <1>3, ConversionAssumption DEF WriteInv
<1>5. (status \in [Jobs -> Statuses])' /\ DoneWrote'
  BY <1>1, <1>4, CommitDone DEF disk, Statuses
<1>6. QED
  BY <1>5 DEF WriteInv, Ended, disk

\* The other commits.
LEMMA OtherCommits ==
  ASSUME WriteInv, NEW w \in Workers, SaveFailed(w) \/ \E j \in Jobs : Begin(w, j)
  PROVE  WriteInv'
<1>1. CASE SaveFailed(w)
  <2>1. job[w] \in Jobs
    BY <1>1 DEF SaveFailed, WriteInv
  <2>2. (status \in [Jobs -> Statuses])' /\ DoneWrote'
    BY <1>1, <2>1, CommitDone DEF SaveFailed, disk, Statuses
  <2>3. QED
    BY <1>1, <2>2 DEF SaveFailed, WriteInv, Ended, disk
<1>2. ASSUME NEW j \in Jobs, Begin(w, j) PROVE WriteInv'
  <2>1. (status \in [Jobs -> Statuses])' /\ DoneWrote'
    BY <1>2, CommitDone DEF Begin, disk, Statuses
  <2>2. QED
    BY <1>2, <2>1 DEF Begin, WriteInv, disk
<1>3. QED
  BY <1>1, <1>2

\* The steps that commit nothing of a running job.
LEMMA OtherSteps ==
  ASSUME WriteInv,
         \/ \E j \in Jobs : Enqueue(j)
         \/ \E f \in Sources : SourceGoes(f)
         \/ \E w \in Workers :
              Start(w) \/ Finish(w) \/ Abort(w) \/ \E j \in Jobs : RejectSource(w, j)
  PROVE  WriteInv'
<1>1. CASE \E j \in Jobs : Enqueue(j)
  BY <1>1 DEF Enqueue, WriteInv, DoneWrote, Statuses, disk
<1>2. CASE \E f \in Sources : SourceGoes(f)
  BY <1>2 DEF SourceGoes, WriteInv, DoneWrote
<1>3. ASSUME NEW w \in Workers, Start(w) \/ \E j \in Jobs : RejectSource(w, j) PROVE WriteInv'
  BY <1>3 DEF Start, RejectSource, WriteInv, DoneWrote, disk
<1>4. ASSUME NEW w \in Workers, Finish(w) \/ Abort(w) PROVE WriteInv'
  BY <1>4 DEF Finish, Abort, Closed, WriteInv, DoneWrote, disk
<1>5. QED
  BY <1>1, <1>2, <1>3, <1>4

\* A job is done only when its own converter wrote a file, however many
\* processes run the same job, when no two jobs share an output path.
THEOREM DoneMeansWritten == Distinct /\ Spec => []DoneWrote
<1> SUFFICES ASSUME Distinct PROVE Spec => []DoneWrote
  OBVIOUS
<1>1. WriteInv /\ [Next]_vars => WriteInv'
  <2> SUFFICES ASSUME WriteInv, [Next]_vars PROVE WriteInv'
    OBVIOUS
  <2>1. CASE UNCHANGED vars
    BY <2>1 DEF vars, WriteInv, DoneWrote
  <2>2. CASE Next
    BY <2>2, ConverterWrites, SaveDoneWrote, OtherCommits, OtherSteps DEF Next, Cycle
  <2>3. QED
    BY <2>1, <2>2
<1>2. WriteInv => DoneWrote
  BY DEF WriteInv
<1>3. QED
  BY InitWrite, <1>1, <1>2, PTL DEF Spec

-----------------------------------------------------------------------------
\* Jobs whose output has the same stem and format convert the same file: a
\* file converted again, but no two library files of one name.
OneSourceEach == \A i, j \in Jobs : OutOf[i] = OutOf[j] => SourceOf[i] = SourceOf[j]

\* A done job has its output path in the row and a file behind it, and the
\* file at a path is by a job named after it.
OutputInv ==
  /\ output \in [Jobs -> Outs \cup {None}]
  /\ made \in [Outs -> Jobs \cup {None}]
  /\ \A w \in Workers : pc[w] \in {"convert", "save"} => job[w] \in Jobs
  /\ pc \in [Workers -> {"idle", "next", "convert", "save"}]
  /\ job \in [Workers -> Jobs \cup {None}]
  /\ \A o \in Outs : made[o] # None => OutOf[made[o]] = o
  /\ \A j \in Jobs : status[j] = "done" => output[j] = OutOf[j] /\ made[OutOf[j]] # None

\* A commit makes no other job done than the one it ends.
LEMMA CommitOutput ==
  ASSUME OutputInv, NEW w \in Workers, NEW j \in Jobs, NEW s \in Statuses \ {"done"},
         status' = Committed(w, j, s), UNCHANGED <<output, made>>
  PROVE  \A i \in Jobs : status'[i] = "done" => output'[i] = OutOf[i] /\ made'[OutOf[i]] # None
<1>1. \A i \in Jobs : status'[i] = "done" => status[i] = "done"
  BY DEF Committed
<1>2. QED
  BY <1>1 DEF OutputInv

\* Success is saved with the path the converter was told to write.
LEMMA SaveDoneOutput == ASSUME OutputInv, NEW w \in Workers, SaveDone(w) PROVE OutputInv'
<1> USE DEF SaveDone, OutputInv
<1>1. job[w] \in Jobs /\ OutOf[job[w]] \in Outs
  BY ConversionAssumption
<1>2. made[OutOf[job[w]]] # None /\ UNCHANGED made
  BY DEF Succeeded, disk
<1>3. output' = [output EXCEPT ![job[w]] = OutOf[job[w]]]
  OBVIOUS
<1>4. \A i \in Jobs : i # job[w] /\ status'[i] = "done" => status[i] = "done"
  BY DEF Committed
<1>5. \A i \in Jobs : status'[i] = "done" => output'[i] = OutOf[i] /\ made'[OutOf[i]] # None
  BY <1>1, <1>2, <1>3, <1>4
<1>6. (output \in [Jobs -> Outs \cup {None}])'
  BY <1>1, <1>3
<1>7. QED
  BY <1>2, <1>5, <1>6 DEF Ended

\* The other steps of a cycle.
LEMMA CycleOutput ==
  ASSUME OutputInv, NEW w \in Workers, Cycle(w) \/ Abort(w), ~SaveDone(w)
  PROVE  OutputInv'
<1> USE DEF OutputInv
<1>1. CASE Start(w) \/ \E j \in Jobs : RejectSource(w, j)
  BY <1>1 DEF Start, RejectSource, disk
<1>2. CASE Finish(w) \/ Abort(w)
  BY <1>2 DEF Finish, Abort, Closed, disk
<1>3. ASSUME NEW j \in Jobs, Begin(w, j) PROVE OutputInv'
  <2>1. \A i \in Jobs : status'[i] = "done" => output'[i] = OutOf[i] /\ made'[OutOf[i]] # None
    BY <1>3, CommitOutput DEF Begin, disk, Statuses
  <2>2. QED
    BY <1>3, <2>1 DEF Begin, disk
<1>4. CASE Converter(w)
  <2>1. job[w] \in Jobs /\ OutOf[job[w]] \in Outs
    BY <1>4, ConversionAssumption DEF Converter, ConverterEnds
  <2>2. UNCHANGED <<status, output, job>>
    BY <1>4 DEF Converter, ConverterEnds
  <2>3. made' = made \/ made' = [made EXCEPT ![OutOf[job[w]]] = job[w]]
    BY <1>4 DEF Converter, ConverterEnds
  <2>4. pc' = [pc EXCEPT ![w] = "save"] /\ pc[w] = "convert"
    BY <1>4 DEF Converter, ConverterEnds
  <2>5. \A o \in Outs : made[o] # None => made'[o] # None
    BY <2>1, <2>3, ConversionAssumption
  <2>6. (made \in [Outs -> Jobs \cup {None}])' /\ \A o \in Outs : made'[o] # None => OutOf[made'[o]] = o
    BY <2>1, <2>3
  <2>7. QED
    BY <2>2, <2>4, <2>5, <2>6, ConversionAssumption
<1>5. CASE SaveFailed(w)
  <2>1. job[w] \in Jobs
    BY <1>5 DEF SaveFailed
  <2>2. \A i \in Jobs : status'[i] = "done" => output'[i] = OutOf[i] /\ made'[OutOf[i]] # None
    BY <1>5, <2>1, CommitOutput DEF SaveFailed, disk, Statuses
  <2>3. QED
    BY <1>5, <2>2 DEF SaveFailed, Ended, disk
<1>6. QED
  BY <1>1, <1>2, <1>3, <1>4, <1>5 DEF Cycle

\* What a done job's output path holds was made from the job's own source:
\* jobs that share a path, or processes that run one job twice, overwrite a
\* file only with another conversion of the same source.
THEOREM OutputIsOwn == OneSourceEach /\ Spec => []DoneIsOwn
<1> SUFFICES ASSUME OneSourceEach PROVE Spec => []DoneIsOwn
  OBVIOUS
<1>1. Init => OutputInv
  BY DEF Init, OutputInv
<1>2. OutputInv /\ [Next]_vars => OutputInv'
  <2> SUFFICES ASSUME OutputInv, [Next]_vars PROVE OutputInv'
    OBVIOUS
  <2>1. CASE UNCHANGED vars
    BY <2>1 DEF vars, OutputInv
  <2>2. ASSUME NEW j \in Jobs, Enqueue(j) PROVE OutputInv'
    BY <2>2 DEF Enqueue, OutputInv, disk
  <2>3. ASSUME NEW f \in Sources, SourceGoes(f) PROVE OutputInv'
    BY <2>3 DEF SourceGoes, OutputInv
  <2>4. ASSUME NEW w \in Workers, Cycle(w) \/ Abort(w) PROVE OutputInv'
    BY <2>4, SaveDoneOutput, CycleOutput
  <2>5. QED
    BY <2>1, <2>2, <2>3, <2>4 DEF Next
<1>3. OutputInv => DoneIsOwn
  <2> SUFFICES ASSUME OutputInv, NEW j \in Jobs, status[j] = "done"
               PROVE  made[output[j]] # None /\ SourceOf[made[output[j]]] = SourceOf[j]
    BY DEF DoneIsOwn
  <2>1. output[j] = OutOf[j] /\ OutOf[j] \in Outs /\ made[OutOf[j]] # None
    BY ConversionAssumption DEF OutputInv
  <2>2. made[OutOf[j]] \in Jobs /\ OutOf[made[OutOf[j]]] = OutOf[j]
    BY <2>1 DEF OutputInv
  <2>3. QED
    BY <2>1, <2>2 DEF OneSourceEach
<1>4. QED
  BY <1>1, <1>2, <1>3, PTL DEF Spec

-----------------------------------------------------------------------------
\* The processes that have selected a job and not come to it.
Holders(j) == {w \in Workers : j \in todo[w]}

\* ConvertedOnceEach is not inductive: a process that holds a job may still
\* start its converter.  A job that any process ever started is not queued
\* again, so nobody else selects it.
OnceInv ==
  /\ runs \in [Jobs -> Nat]
  /\ todo \in [Workers -> SUBSET Jobs]
  /\ \A j \in Jobs : status[j] \in {"absent", "queued"} => runs[j] = 0
  /\ \A j \in Jobs : runs[j] + Cardinality(Holders(j)) <= Cardinality(Workers)

\* Holders of a job are some of the processes.
LEMMA HoldersFinite ==
  ASSUME NEW j
  PROVE  /\ IsFiniteSet(Holders(j))
         /\ Cardinality(Holders(j)) \in Nat
         /\ Cardinality(Holders(j)) <= Cardinality(Workers)
<1>1. Holders(j) \in SUBSET Workers
  BY DEF Holders
<1>2. QED
  BY <1>1, ConversionAssumption, FS_Subset, FS_CardinalityType

\* A step after which nobody new holds a job keeps the bound.
LEMMA FewerHolders ==
  ASSUME OnceInv, UNCHANGED runs, (todo \in [Workers -> SUBSET Jobs])',
         \A j \in Jobs : status'[j] \in {"absent", "queued"} => status[j] \in {"absent", "queued"},
         \A j \in Jobs : runs[j] # 0 => Holders(j)' \subseteq Holders(j)
  PROVE  OnceInv'
<1>1. ASSUME NEW j \in Jobs PROVE (runs[j] + Cardinality(Holders(j)) <= Cardinality(Workers))'
  <2>1. /\ Cardinality(Workers) \in Nat
        /\ Cardinality(Holders(j)) \in Nat
        /\ runs[j] \in Nat
    BY HoldersFinite, FS_CardinalityType, ConversionAssumption DEF OnceInv
  <2>2. Holders(j)' \in SUBSET Workers
    BY DEF Holders
  <2>3. /\ Cardinality(Holders(j)') \in Nat
        /\ Cardinality(Holders(j)') <= Cardinality(Workers)
    BY <2>2, ConversionAssumption, FS_Subset, FS_CardinalityType
  <2>4. CASE runs[j] = 0
    BY <2>1, <2>3, <2>4
  <2>5. CASE runs[j] # 0
    <3>1. Cardinality(Holders(j)') <= Cardinality(Holders(j))
      BY <2>5, HoldersFinite, FS_Subset
    <3>2. QED
      BY <2>1, <2>3, <3>1 DEF OnceInv
  <2>6. QED
    BY <2>4, <2>5
<1>2. QED
  BY <1>1 DEF OnceInv

\* The start of a converter moves one process from the holders to the runs.
LEMMA BeginOnce == ASSUME OnceInv, NEW w \in Workers, NEW j \in Jobs, Begin(w, j) PROVE OnceInv'
<1> USE DEF Begin, OnceInv
<1>1. /\ runs' = [runs EXCEPT ![j] = @ + 1]
      /\ todo' = [todo EXCEPT ![w] = @ \ {j}]
      /\ j \in todo[w]
  OBVIOUS
<1>2. \A i \in Jobs : status'[i] \in {"absent", "queued"} => status[i] \in {"absent", "queued"} /\ i # j
  BY DEF Committed
<1>3. ASSUME NEW i \in Jobs PROVE (runs[i] + Cardinality(Holders(i)) <= Cardinality(Workers))'
  <2>1. /\ Cardinality(Workers) \in Nat
        /\ Cardinality(Holders(i)) \in Nat
        /\ runs[i] \in Nat
    BY HoldersFinite, FS_CardinalityType, ConversionAssumption
  <2>2. CASE i = j
    <3>1. Holders(j)' = Holders(j) \ {w} /\ w \in Holders(j)
      BY <1>1 DEF Holders
    <3>2. Cardinality(Holders(j)') = Cardinality(Holders(j)) - 1
      BY <3>1, HoldersFinite, FS_RemoveElement
    <3>3. runs'[j] = runs[j] + 1
      BY <1>1
    <3>4. QED
      BY <2>1, <2>2, <3>2, <3>3
  <2>3. CASE i # j
    <3>1. Holders(i)' = Holders(i) /\ runs'[i] = runs[i]
      BY <1>1, <2>3 DEF Holders
    <3>2. QED
      BY <3>1
  <2>4. QED
    BY <2>2, <2>3
<1>4. (runs \in [Jobs -> Nat])' /\ (todo \in [Workers -> SUBSET Jobs])'
  BY <1>1
<1>5. \A i \in Jobs : status'[i] \in {"absent", "queued"} => runs'[i] = 0
  BY <1>1, <1>2
<1>6. QED
  BY <1>3, <1>4, <1>5

\* Every other step.
LEMMA OtherOnce ==
  ASSUME OnceInv, NEW w \in Workers,
         \/ Start(w) \/ (\E j \in Jobs : RejectSource(w, j)) \/ Converter(w)
         \/ SaveDone(w) \/ SaveFailed(w) \/ Finish(w) \/ Abort(w)
  PROVE  OnceInv'
<1>1. CASE Start(w)
  <2>1. UNCHANGED <<status, runs>> /\ todo' = [todo EXCEPT ![w] = {j \in Jobs : Runnable(j)}]
    BY <1>1 DEF Start
  <2>2. \A j \in Jobs : runs[j] # 0 => Holders(j)' \subseteq Holders(j)
    BY <2>1 DEF Holders, Runnable, OnceInv
  <2>3. QED
    BY <2>1, <2>2, FewerHolders DEF OnceInv
<1>2. CASE Finish(w) \/ Abort(w) \/ \E j \in Jobs : RejectSource(w, j)
  <2>1. UNCHANGED <<status, runs>> /\ \E T \in SUBSET todo[w] : todo' = [todo EXCEPT ![w] = T]
    BY <1>2 DEF Finish, Abort, Closed, RejectSource
  <2>2. \A j \in Jobs : Holders(j)' \subseteq Holders(j)
    BY <2>1 DEF Holders, OnceInv
  <2>3. QED
    BY <2>1, <2>2, FewerHolders DEF OnceInv
<1>3. CASE Converter(w) \/ SaveDone(w) \/ SaveFailed(w)
  <2>1. UNCHANGED <<runs, todo>>
    BY <1>3 DEF Converter, ConverterEnds, SaveDone, SaveFailed
  <2>2. \A j \in Jobs : status'[j] \in {"absent", "queued"} => status[j] \in {"absent", "queued"}
    BY <1>3 DEF Converter, ConverterEnds, SaveDone, SaveFailed, Committed
  <2>3. \A j \in Jobs : Holders(j)' = Holders(j)
    BY <2>1 DEF Holders
  <2>4. QED
    BY <2>1, <2>2, <2>3, FewerHolders DEF OnceInv
<1>4. QED
  BY <1>1, <1>2, <1>3

\* Each process starts a converter at most once for a job, whichever processes
\* select it at the same time and wherever they crash.
THEOREM ConvertedOnce == Spec => []ConvertedOnceEach
<1>1. Init => OnceInv
  <2> SUFFICES ASSUME Init PROVE OnceInv
    OBVIOUS
  <2>1. \A j \in Jobs : Cardinality(Holders(j)) \in Nat /\ Cardinality(Holders(j)) <= Cardinality(Workers)
    BY HoldersFinite
  <2>2. QED
    BY <2>1 DEF Init, OnceInv
<1>2. OnceInv /\ [Next]_vars => OnceInv'
  <2> SUFFICES ASSUME OnceInv, [Next]_vars PROVE OnceInv'
    OBVIOUS
  <2>1. CASE UNCHANGED vars
    BY <2>1 DEF vars, OnceInv, Holders
  <2>2. ASSUME NEW j \in Jobs, Enqueue(j) PROVE OnceInv'
    <3>1. UNCHANGED <<runs, todo>> /\ status[j] = "absent" /\ \A i \in Jobs \ {j} : status'[i] = status[i]
      BY <2>2 DEF Enqueue
    <3>2. \A i \in Jobs : Holders(i)' = Holders(i)
      BY <3>1 DEF Holders
    <3>3. QED
      BY <3>1, <3>2, FewerHolders DEF OnceInv
  <2>3. ASSUME NEW f \in Sources, SourceGoes(f) PROVE OnceInv'
    BY <2>3 DEF SourceGoes, OnceInv, Holders
  <2>4. ASSUME NEW w \in Workers, Cycle(w) \/ Abort(w) PROVE OnceInv'
    BY <2>4, BeginOnce, OtherOnce DEF Cycle
  <2>5. QED
    BY <2>1, <2>2, <2>3, <2>4 DEF Next
<1>3. OnceInv => ConvertedOnceEach
  <2> SUFFICES ASSUME OnceInv, NEW j \in Jobs PROVE runs[j] <= Cardinality(Workers)
    BY DEF ConvertedOnceEach
  <2>1. runs[j] \in Nat /\ Cardinality(Holders(j)) \in Nat /\ Cardinality(Workers) \in Nat
    BY HoldersFinite, FS_CardinalityType, ConversionAssumption DEF OnceInv
  <2>2. QED
    BY <2>1 DEF OnceInv
<1>4. QED
  BY <1>1, <1>2, <1>3, PTL DEF Spec
=============================================================================
