--------------------------- MODULE DumpIngestProofs ---------------------------
(***************************************************************************)
(* When a refreshed dump adds lines only after the last one, a run that    *)
(* reaches its end has mirrored the whole dump, and the stored last key    *)
(* never covers a line that is missing, for every dump, batch size and     *)
(* number of crashes, but for the lines an imported archive has replaced.  *)
(***************************************************************************)
EXTENDS DumpIngest, TLAPS

\* What is or was in the mirror.  Imports and runs only add to it.
Kept == rows \cup lost

\* Every line up to k has its row in S.
UpTo(k, S) == \A f \in file : f <= k => f \in S

\* The keys a run keeps are lines of the file, and what lies behind each of
\* them is, or was, in the mirror or in the buffer.
RunInv ==
  /\ {setting, last, key, newLast} \subseteq file \cup {0}
  /\ UpTo(setting, Kept)
  /\ pc = "read" => UpTo(last, Kept) /\ UpTo(newLast, Kept) /\ UpTo(key, Kept \cup buffer)

IInv == TypeOK /\ RunInv /\ Complete

\* The initial state satisfies the inductive invariant.
LEMMA InitIInv == Init => IInv
<1> SUFFICES ASSUME Init PROVE IInv
  OBVIOUS
<1>1. 0 \in 0 .. MaxKey /\ 0 \in 0 .. MaxCrashes /\ 0 \in 0 .. MaxImports
  BY DumpAssumption
<1>2. TypeOK
  BY <1>1 DEF Init, TypeOK
<1>3. RunInv
  BY <1>2 DEF Init, RunInv, UpTo, TypeOK, Keys, Kept
<1>4. QED
  BY <1>2, <1>3 DEF Init, IInv, Complete

\* A refresh that appends adds a line beyond every key a run has stored.
LEMMA RefreshInv == ASSUME AppendOnly, IInv, NEW k \in Keys, Refresh(k) PROVE IInv'
<1> USE DumpAssumption DEF Refresh, Keys, archiveVars, Kept
<1>1. TypeOK' /\ Complete'
  BY DEF IInv, TypeOK, Complete
<1>2. setting \in file \cup {0} /\ setting < k
  BY DEF IInv, RunInv, TypeOK
<1>3. UpTo(setting, Kept)'
  BY <1>2 DEF IInv, RunInv, UpTo, TypeOK
<1>4. RunInv'
  BY <1>3 DEF IInv, RunInv
<1>5. QED
  BY <1>1, <1>4 DEF IInv

\* Reading extends the covered prefix by one line.
LEMMA ReadInv == ASSUME IInv, NEW k \in Keys, Read(k) PROVE IInv'
<1> USE DumpAssumption DEF Read, Keys, archiveVars, Kept
<1>1. TypeOK' /\ Complete'
  BY DEF IInv, TypeOK, Complete, NextLine, Skipped
<1>2. \A f \in file : f <= k => f <= key \/ f = k
  BY DEF IInv, TypeOK, NextLine
<1>3. k \in Kept \cup buffer'
  BY DEF IInv, RunInv, UpTo, NextLine, Skipped
<1>4. UpTo(key, Kept \cup buffer)'
  BY <1>2, <1>3 DEF IInv, RunInv, UpTo
<1>5. RunInv'
  BY <1>4 DEF IInv, RunInv, UpTo, NextLine
<1>6. QED
  BY <1>1, <1>5 DEF IInv

\* The key a batch leaves pending is written by the next commit, when the
\* rows behind it are committed already.
LEMMA FlushInv == ASSUME IInv, Flush PROVE IInv'
<1> USE DumpAssumption DEF Flush, archiveVars, Kept
<1>1. TypeOK' /\ Complete'
  BY DEF IInv, TypeOK, Complete, Written
<1>2. RunInv'
  BY DEF IInv, RunInv, UpTo, TypeOK, Written
<1>3. QED
  BY <1>1, <1>2 DEF IInv

LEMMA FinalFlushInv == ASSUME IInv, FinalFlush PROVE IInv'
<1> USE DumpAssumption DEF FinalFlush, FinalRows, archiveVars, Kept
<1>1. TypeOK'
  BY DEF IInv, TypeOK, Written
<1>2. file \subseteq Kept'
  BY DEF IInv, RunInv, UpTo, EndOfFile
<1>3. RunInv' /\ Complete'
  BY <1>2 DEF IInv, RunInv, UpTo, TypeOK, Written, Complete
<1>4. QED
  BY <1>1, <1>3 DEF IInv

\* The steps that only reset a run or store its key.
LEMMA OtherInv == ASSUME IInv, Start \/ Finish \/ Conflict \/ Crash PROVE IInv'
<1> USE DumpAssumption DEF archiveVars, Kept
<1>1. CASE Start
  <2>1. TypeOK'
    <3>1. 0 \in 0 .. MaxKey
      BY DumpAssumption
    <3>2. QED
      BY <1>1, <3>1 DEF Start, IInv, TypeOK
  <2>2. \A f \in file : ~(f <= 0)
    BY DEF IInv, TypeOK, Keys
  <2>3. RunInv'
    BY <1>1, <2>2 DEF Start, IInv, RunInv, UpTo
  <2>4. Complete'
    BY <1>1 DEF Start, Complete
  <2>5. QED
    BY <2>1, <2>3, <2>4 DEF IInv
<1>2. CASE Finish
  BY <1>2 DEF Finish, IInv, TypeOK, RunInv, UpTo, Complete, Written
<1>3. CASE Conflict
  BY <1>3 DEF Conflict, IInv, TypeOK, RunInv, UpTo, Complete
<1>4. CASE Crash
  BY <1>4 DEF Crash, IInv, TypeOK, RunInv, UpTo, Complete
<1>5. QED
  BY <1>1, <1>2, <1>3, <1>4

\* An import adds rows, or puts the rows it removes among the lost ones.
LEMMA ArchiveInv == ASSUME IInv, Archive PROVE IInv'
<1>1. UNCHANGED <<file, setting, crashes, pc, last, key, buffer, newLast, ingested>>
  BY DEF Archive, Export, BeginImport, EndImport, runVars
<1>2. rows' \subseteq Keys /\ lost' \subseteq Keys /\ Kept \subseteq Kept'
  BY DEF Archive, Export, BeginImport, EndImport, IInv, TypeOK, Kept
<1>3. archive' \subseteq Keys /\ restore' \in {"none", "add", "replace"}
  BY DEF Archive, Export, BeginImport, EndImport, IInv, TypeOK
<1>4. imports' \in 0 .. MaxImports
  BY DumpAssumption DEF Archive, Export, BeginImport, EndImport, IInv, TypeOK
<1>5. TypeOK'
  BY <1>1, <1>2, <1>3, <1>4 DEF IInv, TypeOK
<1>6. RunInv'
  BY <1>1, <1>2 DEF IInv, RunInv, UpTo
<1>7. Complete'
  BY <1>1, <1>2 DEF IInv, Complete, Kept
<1>8. QED
  BY <1>5, <1>6, <1>7 DEF IInv

\* The invariant holds for ever when refreshes append.
THEOREM Invariance == AppendOnly /\ Spec => []IInv
<1> SUFFICES ASSUME AppendOnly PROVE Spec => []IInv
  OBVIOUS
<1>1. Init => IInv
  BY InitIInv
<1>2. IInv /\ [Next]_vars => IInv'
  <2> SUFFICES ASSUME IInv, [Next]_vars PROVE IInv'
    OBVIOUS
  <2>1. CASE UNCHANGED vars
    BY <2>1 DEF vars, archiveVars, runVars, Kept, IInv, TypeOK, RunInv, UpTo, Complete
  <2>2. CASE Next
    BY <2>2, RefreshInv, ReadInv, FlushInv, FinalFlushInv, OtherInv, ArchiveInv DEF Next, Run
  <2>3. QED
    BY <2>1, <2>2
<1>3. QED
  BY <1>1, <1>2, PTL DEF Spec

\* Skipping is safe: the stored last key never covers a line that is not in
\* the mirror, whatever crash cut the run off and whatever is exported, unless
\* an import has replaced it.
THEOREM SkippingIsSafe == AppendOnly /\ Spec => []LastIsIngested
<1>1. IInv => LastIsIngested
  BY DEF IInv, RunInv, UpTo, LastIsIngested, Kept
<1>2. QED
  BY <1>1, Invariance, PTL

\* A run that reaches the end of an appended dump has mirrored all of it, but for
\* what an import has replaced.
THEOREM RunsAreComplete == AppendOnly /\ Spec => []Complete
<1>1. IInv => Complete
  BY DEF IInv
<1>2. QED
  BY <1>1, Invariance, PTL
=============================================================================
