------------------------------ MODULE Conversion ------------------------------
(***************************************************************************)
(* conversion.py: conversion_jobs are queued by the API and run by         *)
(* process_conversions, the last job of every monitoring cycle, in one or  *)
(* more processes.  The converter is a subprocess that writes one file,    *)
(* named after the source's stem and the target format.                    *)
(*                                                                         *)
(* A definition named Slip... is a plausible mistake in the definition     *)
(* that follows it.                                                        *)
(***************************************************************************)
EXTENDS Naturals, FiniteSets

CONSTANTS
  Jobs,       \* rows of conversion_jobs
  Sources,    \* library files
  Outs,       \* paths under conversion_out_dir
  SourceOf,   \* the file a job converts
  OutOf,      \* dest: stem and target format of a job
  Workers,    \* processes running scheduler_loop
  SourcesStay,\* library files are never deleted or oversized
  MaxFaults,  \* bound on processes killed and failed commits
  None

ASSUME ConversionAssumption ==
  /\ SourceOf \in [Jobs -> Sources]
  /\ OutOf \in [Jobs -> Outs]
  /\ SourcesStay \in BOOLEAN
  /\ MaxFaults \in Nat
  /\ IsFiniteSet(Workers)
  /\ None \notin Outs \cup Jobs

VARIABLES
  \* committed
  status,    \* conversion_jobs.status, "absent" before the row exists
  output,    \* conversion_jobs.output_path
  \* the disk
  usable,    \* sources that are a file below the size cap
  made,      \* output path -> the job whose converter wrote it last
  runs,      \* converters started for a job
  wrote,     \* jobs whose converter has written its file
  faults,
  \* process_conversions in a worker
  pc,        \* "idle", "next", "convert", "save"
  todo,      \* rows selected and not handled yet
  rejected,  \* rows set to "failed" in the Session, not committed
  job,       \* the job of the running converter
  clean      \* the converter returned 0

vars == <<status, output, usable, made, runs, wrote, faults, pc, todo, rejected, job, clean>>
disk == <<usable, made, wrote>>

Statuses == {"absent", "queued", "working", "done", "failed"}

Init ==
  /\ status = [j \in Jobs |-> "absent"]
  /\ output = [j \in Jobs |-> None]
  /\ usable = Sources
  /\ made = [o \in Outs |-> None]
  /\ runs = [j \in Jobs |-> 0]
  /\ wrote = {}
  /\ faults = 0
  /\ pc = [w \in Workers |-> "idle"]
  /\ todo = [w \in Workers |-> {}]
  /\ rejected = [w \in Workers |-> {}]
  /\ job = [w \in Workers |-> None]
  /\ clean = [w \in Workers |-> FALSE]

\* enqueue_conversion.
Enqueue(j) ==
  /\ status[j] = "absent"
  /\ status' = [status EXCEPT ![j] = "queued"]
  /\ UNCHANGED <<output, disk, runs, faults, pc, todo, rejected, job, clean>>

\* A library file is deleted, moved or replaced by one above the size cap.
SourceGoes(f) ==
  /\ ~SourcesStay
  /\ usable' = usable \ {f}
  /\ UNCHANGED <<status, output, made, wrote, runs, faults, pc, todo, rejected, job, clean>>

-----------------------------------------------------------------------------
SlipRetriesWorking(j) == status[j] \in {"queued", "working"}
Runnable(j) == status[j] = "queued"

Start(w) ==
  /\ pc[w] = "idle"
  /\ pc' = [pc EXCEPT ![w] = "next"]
  /\ todo' = [todo EXCEPT ![w] = {j \in Jobs : Runnable(j)}]
  /\ UNCHANGED <<status, output, disk, runs, faults, rejected, job, clean>>

Convertible(j) == SourceOf[j] \in usable

\* The early returns of _convert_one: the row fails in the Session only.
RejectSource(w, j) ==
  /\ pc[w] = "next"
  /\ j \in todo[w]
  /\ ~Convertible(j)
  /\ todo' = [todo EXCEPT ![w] = @ \ {j}]
  /\ rejected' = [rejected EXCEPT ![w] = @ \cup {j}]
  /\ UNCHANGED <<status, output, disk, runs, faults, pc, job, clean>>

SlipCommitsSuccessOnly(w, j, s) ==
  [i \in Jobs |-> IF i = j /\ s # "failed" THEN s ELSE status[i]]
\* A commit writes j's new status and with it every pending rejection.
Committed(w, j, s) ==
  [i \in Jobs |-> IF i = j THEN s ELSE IF i \in rejected[w] THEN "failed" ELSE status[i]]

\* status = "working" is committed and the converter starts.
Begin(w, j) ==
  /\ pc[w] = "next"
  /\ j \in todo[w]
  /\ Convertible(j)
  /\ status' = Committed(w, j, "working")
  /\ rejected' = [rejected EXCEPT ![w] = {}]
  /\ todo' = [todo EXCEPT ![w] = @ \ {j}]
  /\ job' = [job EXCEPT ![w] = j]
  /\ pc' = [pc EXCEPT ![w] = "convert"]
  /\ runs' = [runs EXCEPT ![j] = @ + 1]
  /\ UNCHANGED <<output, disk, faults, clean>>

\* The converter ends: it wrote its file, or returned 0 without writing, or
\* failed, timed out or did not run.
ConverterEnds(w, writes, ok) ==
  /\ pc[w] = "convert"
  /\ made' = IF writes THEN [made EXCEPT ![OutOf[job[w]]] = job[w]] ELSE made
  /\ wrote' = IF writes THEN wrote \cup {job[w]} ELSE wrote
  /\ clean' = [clean EXCEPT ![w] = ok]
  /\ pc' = [pc EXCEPT ![w] = "save"]
  /\ UNCHANGED <<status, output, usable, runs, faults, todo, rejected, job>>

SlipTrustsExitCode(w) == clean[w]
\* returncode == 0 and dest.is_file()
Succeeded(w) == clean[w] /\ made[OutOf[job[w]]] # None

Ended(w) ==
  /\ job' = [job EXCEPT ![w] = None]
  /\ clean' = [clean EXCEPT ![w] = FALSE]
  /\ pc' = [pc EXCEPT ![w] = "next"]

SaveDone(w) ==
  /\ pc[w] = "save"
  /\ Succeeded(w)
  /\ status' = Committed(w, job[w], "done")
  /\ output' = [output EXCEPT ![job[w]] = OutOf[job[w]]]
  /\ Ended(w)
  /\ UNCHANGED <<disk, runs, faults, todo, rejected>>

SaveFailed(w) ==
  /\ pc[w] = "save"
  /\ ~Succeeded(w)
  /\ status' = Committed(w, job[w], "failed")
  /\ Ended(w)
  /\ UNCHANGED <<output, disk, runs, faults, todo, rejected>>

\* The last job of the cycle: the Session is closed, not committed.
Closed(w) ==
  /\ pc' = [pc EXCEPT ![w] = "idle"]
  /\ todo' = [todo EXCEPT ![w] = {}]
  /\ rejected' = [rejected EXCEPT ![w] = {}]
  /\ job' = [job EXCEPT ![w] = None]
  /\ clean' = [clean EXCEPT ![w] = FALSE]
  /\ UNCHANGED <<status, output, disk, runs>>

Finish(w) ==
  /\ pc[w] = "next"
  /\ todo[w] = {}
  /\ Closed(w)
  /\ UNCHANGED faults

\* The process dies, or a commit finds the database locked.
Abort(w) ==
  /\ pc[w] # "idle"
  /\ faults < MaxFaults
  /\ faults' = faults + 1
  /\ Closed(w)

-----------------------------------------------------------------------------
Converter(w) == \E writes, ok \in BOOLEAN : ConverterEnds(w, writes, ok)

Cycle(w) ==
  \/ Start(w)
  \/ \E j \in Jobs : RejectSource(w, j) \/ Begin(w, j)
  \/ Converter(w)
  \/ SaveDone(w) \/ SaveFailed(w)
  \/ Finish(w)

Next ==
  \/ \E j \in Jobs : Enqueue(j)
  \/ \E f \in Sources : SourceGoes(f)
  \/ \E w \in Workers : Cycle(w) \/ Abort(w)

Spec == Init /\ [][Next]_vars

\* scheduler_loop repeats the cycle; a converter ends or times out.
FairSpec == Spec /\ \A w \in Workers : WF_vars(Cycle(w))

-----------------------------------------------------------------------------
\* Every variable holds values of its kind.
TypeOK ==
  /\ status \in [Jobs -> Statuses]
  /\ output \in [Jobs -> Outs \cup {None}]
  /\ usable \subseteq Sources
  /\ made \in [Outs -> Jobs \cup {None}]
  /\ runs \in [Jobs -> Nat]
  /\ wrote \subseteq Jobs
  /\ faults \in 0 .. MaxFaults
  /\ pc \in [Workers -> {"idle", "next", "convert", "save"}]
  /\ todo \in [Workers -> SUBSET Jobs]
  /\ rejected \in [Workers -> SUBSET Jobs]
  /\ job \in [Workers -> Jobs \cup {None}]
  /\ clean \in [Workers -> BOOLEAN]

\* A job is done only when its own converter wrote a file: "returned 0 but
\* produced nothing" is a failure.
DoneWrote == \A j \in Jobs : status[j] = "done" => j \in wrote

\* What a finished job's output path holds was made from its own source.
DoneIsOwn ==
  \A j \in Jobs : status[j] = "done" => made[output[j]] # None /\ SourceOf[made[output[j]]] = SourceOf[j]

\* Each process starts a converter at most once for a job: a job that was
\* cut off by a crash, or that another process took, is not picked up again.
ConvertedOnceEach == \A j \in Jobs : runs[j] <= Cardinality(Workers)

\* "Run every queued conversion job": a job whose source stays convertible
\* ends in every execution without a crash.  A job whose source goes away
\* before it is run may stay queued: its rejection is never committed when no
\* other job's commit follows it.
SoundJobsEnd ==
  \A j \in Jobs :
    status[j] = "queued" ~>
      \/ status[j] \in {"done", "failed"}
      \/ SourceOf[j] \notin usable
      \/ faults > 0
=============================================================================
