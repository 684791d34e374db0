------------------------ MODULE DownloadWatchProofs ------------------------
(***************************************************************************)
(* Theorems about DownloadWatch, for every value of its constants.         *)
(*                                                                         *)
(* IInv is the inductive invariant: the type invariant and four facts that *)
(* the properties rest on, each about two pieces of state that different   *)
(* steps write.  The second half holds under a condition on the constants, *)
(* each of which is an operator of this module:                            *)
(*                                                                         *)
(*   OwnIds             the client that takes the grabs returns the id of  *)
(*                      the download it starts                             *)
(*   OneReleasePerPath  no two releases verify for one library path        *)
(*   NamesVerifyOwn     a release verifies only for the book it was queued *)
(*                      for, and the template keeps books apart            *)
(*   OneProcess         a single process runs scheduler_loop               *)
(*                                                                         *)
(* The runs that expect a violation show what happens without them.        *)
(***************************************************************************)
EXTENDS DownloadWatchProps, FiniteSetTheorems, TLAPS

\* A pending grab holds the id its commit will write.
SessionInv ==
  \A w \in Workers, r \in Releases : dirty[w][r] = "downloading" => mem[w][r] \in Ids

\* A download the client knows is the download of some release.
DownloadInv ==
  \A d \in Ids : dl[d].state # "none" => dl[d].rel \in Releases /\ dl[d].client \in Clients

\* A library path links to a file that exists and, unless imports hard-link
\* or rename within one volume, never to a file of a download client.
LibraryInv ==
  \A p \in Paths : lib[p] # None =>
    /\ content[lib[p]] # None
    /\ (Mode = "copy" \/ ~SameVolume) => lib[p] \notin Ids

\* What an import under way has done so far.
JobInv ==
  \A w \in Workers :
    /\ pc[w] \in {"locate", "record", "log"} => job[w].item \in Releases
    /\ pc[w] = "locate" => job[w].path = None
    /\ pc[w] = "record" => job[w].path # None
    /\ job[w].path # None =>
         /\ \E f \in Formats : job[w].path = Dest[BookOf[job[w].item]][f]
         /\ lib[job[w].path] # None
         /\ pc[w] = "log" => files[job[w].path] # None

IInv ==
  /\ TypeOK /\ SessionInv /\ DownloadInv /\ LibraryInv /\ JobInv
  /\ ImportedHasFile /\ FileRowHasFile /\ HistoryTruthful

-----------------------------------------------------------------------------
\* The initial state satisfies the inductive invariant.
LEMMA InitIInv == Init => IInv
<1> SUFFICES ASSUME Init PROVE IInv
  OBVIOUS
<1> USE ConstantsAssumption DEF Init
<1>1. TypeOK
  BY DEF TypeOK, Statuses, DlStates, Inodes, NoDownload, NoJob
<1>2. SessionInv /\ DownloadInv /\ LibraryInv
  BY DEF SessionInv, DownloadInv, LibraryInv, NoDownload
<1>3. JobInv
  BY DEF JobInv, NoJob
<1>4. ImportedHasFile /\ FileRowHasFile /\ HistoryTruthful
  BY DEF ImportedHasFile, FileRowHasFile, HistoryTruthful
<1>5. QED
  BY <1>1, <1>2, <1>3, <1>4 DEF IInv

\* Closing a Session keeps the locals of every worker well typed and leaves
\* the closing worker with nothing pending and no import under way.
LEMMA ClosedInv ==
  ASSUME IInv, NEW w \in Workers, Closed(w)
  PROVE  /\ pc' \in [Workers -> {"idle", "grab", "poll", "scan", "locate", "record", "log"}]
         /\ todo' \in [Workers -> SUBSET Releases]
         /\ rows' \in [Workers -> SUBSET Clients]
         /\ mem' \in [Workers -> [Releases -> Ids \cup {None, Unheld}]]
         /\ seen' \in [Workers -> [Ids -> DlStates]]
         /\ job' \in [Workers -> [item : Releases \cup {None}, path : Paths \cup {None}]]
  BY DEF IInv, TypeOK, Closed, NoJob, DlStates

\* Quit preserves the invariant.
LEMMA QuitInv ==
  ASSUME IInv, NEW w \in Workers, Quit(w), faults' \in 0 .. MaxFaults
  PROVE  IInv'
<1> USE ConstantsAssumption
<1>1. TypeOK'
  BY ClosedInv DEF IInv, TypeOK, Quit, dbVars, diskVars, Clean
<1>2. SessionInv'
  BY DEF IInv, TypeOK, SessionInv, Quit, Closed, Clean
<1>3. DownloadInv' /\ LibraryInv'
  BY DEF IInv, DownloadInv, LibraryInv, Quit, diskVars
<1>4. JobInv'
  BY DEF IInv, TypeOK, JobInv, Quit, Closed, NoJob, dbVars, diskVars
<1>5. ImportedHasFile' /\ FileRowHasFile' /\ HistoryTruthful'
  BY DEF IInv, ImportedHasFile, FileRowHasFile, HistoryTruthful, Quit, dbVars, diskVars
<1>6. QED
  BY <1>1, <1>2, <1>3, <1>4, <1>5 DEF IInv

\* A step of a worker that writes neither rows, nor downloads, nor the disk
\* needs a proof only for the parts about the workers.
LEMMA LocalStep ==
  ASSUME IInv, UNCHANGED <<dbVars, dl, diskVars>>, TypeOK', SessionInv', JobInv'
  PROVE  IInv'
  BY DEF IInv, dbVars, diskVars, DownloadInv, LibraryInv, ImportedHasFile,
         FileRowHasFile, HistoryTruthful

\* Rows handed to the Session keep its identity map well typed.
LEMMA LoadedType ==
  ASSUME TypeOK, NEW w \in Workers, NEW sel
  PROVE  /\ Loaded(w, sel) \in [Releases -> Ids \cup {None, Unheld}]
         /\ \A r \in Releases : mem[w][r] \in Ids => Loaded(w, sel)[r] = mem[w][r]
  BY ConstantsAssumption DEF TypeOK, Loaded

-----------------------------------------------------------------------------
(* The steps that touch only the worker's own state.                       *)

LEMMA StartInv == ASSUME IInv, NEW w \in Workers, Start(w) PROVE IInv'
<1>1. TypeOK'
  BY LoadedType DEF IInv, TypeOK, Start, dbVars, diskVars
<1>2. SessionInv'
  BY LoadedType DEF IInv, TypeOK, SessionInv, Start
<1>3. JobInv'
  BY DEF IInv, TypeOK, JobInv, Start, dbVars, diskVars
<1>4. QED
  BY <1>1, <1>2, <1>3, LocalStep DEF Start

LEMMA PollOkInv ==
  ASSUME IInv, NEW w \in Workers, NEW c \in Clients, PollOk(w, c) PROVE IInv'
<1>1. Active(c) \subseteq Releases
  BY DEF Active
<1>2. [d \in Ids |-> IF dl[d].client = c THEN dl[d].state ELSE "none"] \in [Ids -> DlStates]
  BY DEF IInv, TypeOK, DlStates
<1>3. TypeOK'
  BY <1>1, <1>2, LoadedType DEF IInv, TypeOK, PollOk, dbVars, diskVars
<1>4. SessionInv'
  BY LoadedType DEF IInv, TypeOK, SessionInv, PollOk
<1>5. JobInv'
  BY DEF IInv, TypeOK, JobInv, PollOk, dbVars, diskVars
<1>6. QED
  BY <1>3, <1>4, <1>5, LocalStep DEF PollOk

LEMMA PollDeadInv ==
  ASSUME IInv, NEW w \in Workers, NEW c \in Clients, PollDead(w, c) PROVE IInv'
<1>1. TypeOK' /\ SessionInv' /\ JobInv'
  BY DEF IInv, TypeOK, SessionInv, JobInv, PollDead, dbVars, diskVars
<1>2. QED
  BY <1>1, LocalStep DEF PollDead

LEMMA ItemInv ==
  ASSUME IInv, NEW w \in Workers, NEW r \in Releases,
         AddRefused(w, r) \/ SkipItem(w, r) \/ ErrorItem(w, r)
  PROVE  IInv'
<1>1. /\ todo' = [todo EXCEPT ![w] = @ \ {r}]
      /\ dirty' = dirty \/ dirty' = [dirty EXCEPT ![w][r] = "failed"]
      /\ UNCHANGED <<dbVars, dl, diskVars, writer, faults, pc, rows, mem, seen, job>>
  BY DEF AddRefused, SkipItem, ErrorItem, Handled, Pending
<1>2. /\ dirty' \in [Workers -> [Releases -> {"clean", "downloading", "importing", "failed"}]]
      /\ \A v \in Workers, q \in Releases :
           dirty'[v][q] = "downloading" => dirty[v][q] = "downloading"
  <2>1. dirty \in [Workers -> [Releases -> {"clean", "downloading", "importing", "failed"}]]
    BY DEF IInv, TypeOK
  <2>2. CASE dirty' = dirty
    BY <2>1, <2>2
  <2>3. CASE dirty' = [dirty EXCEPT ![w][r] = "failed"]
    BY <2>1, <2>3
  <2>4. QED
    BY <1>1, <2>2, <2>3
<1>3. TypeOK'
  BY <1>1, <1>2 DEF IInv, TypeOK, dbVars, diskVars
<1>4. SessionInv'
  BY <1>1, <1>2 DEF IInv, SessionInv
<1>5. JobInv'
  BY <1>1 DEF IInv, TypeOK, JobInv, dbVars, diskVars
<1>6. QED
  BY <1>1, <1>3, <1>4, <1>5, LocalStep

LEMMA BeginImportInv ==
  ASSUME IInv, NEW w \in Workers, NEW r \in Releases, BeginImport(w, r) PROVE IInv'
<1> USE DEF BeginImport, Handled, Pending
<1>1. TypeOK'
  BY DEF IInv, TypeOK, dbVars, diskVars
<1>2. SessionInv'
  BY DEF IInv, TypeOK, SessionInv
<1>3. JobInv'
  BY DEF IInv, TypeOK, JobInv, dbVars, diskVars
<1>4. QED
  BY <1>1, <1>2, <1>3, LocalStep

LEMMA HookRaisesInv == ASSUME IInv, NEW w \in Workers, HookRaises(w) PROVE IInv'
<1> USE ConstantsAssumption DEF HookRaises, Pending, NoJob
<1>0. job[w].item \in Releases
  BY DEF IInv, JobInv
<1>1. TypeOK'
  BY <1>0 DEF IInv, TypeOK, dbVars, diskVars
<1>2. SessionInv'
  BY <1>0 DEF IInv, TypeOK, SessionInv
<1>3. JobInv'
  BY DEF IInv, TypeOK, JobInv, dbVars, diskVars
<1>4. QED
  BY <1>1, <1>2, <1>3, LocalStep

-----------------------------------------------------------------------------
(* The commits.                                                            *)

DirtyStates == {"clean", "downloading", "importing", "failed"}

\* What a commit of the pending rows d leaves behind.
LEMMA CommitInv ==
  ASSUME IInv, NEW w \in Workers,
         NEW d \in [Releases -> DirtyStates \cup {"imported"}], Commit(w, d),
         \A r \in Releases : d[r] = "downloading" => dirty[w][r] = "downloading"
  PROVE  /\ status' \in [Releases -> Statuses]
         /\ cid' \in [Releases -> Ids \cup {None}]
         /\ writer' \in Workers \cup {None}
         /\ dirty' \in [Workers -> [Releases -> DirtyStates]]
         /\ \A v \in Workers, r \in Releases :
              dirty'[v][r] = "downloading" => v # w /\ dirty[v][r] = "downloading"
         /\ \A r \in Releases : status'[r] = "imported" =>
              status[r] = "imported" \/ d[r] = "imported"
<1> USE DEF Commit
<1>1. status' \in [Releases -> Statuses]
  BY DEF IInv, TypeOK, Statuses, DirtyStates
<1>2. cid' \in [Releases -> Ids \cup {None}]
  BY DEF IInv, TypeOK, SessionInv, IdsWritten
<1>3. writer' \in Workers \cup {None}
  BY DEF IInv, TypeOK
<1>4. /\ dirty' \in [Workers -> [Releases -> DirtyStates]]
      /\ \A v \in Workers, r \in Releases :
           dirty'[v][r] = "downloading" => v # w /\ dirty[v][r] = "downloading"
  BY DEF IInv, TypeOK, DirtyStates, Clean
<1>5. \A r \in Releases : status'[r] = "imported" => status[r] = "imported" \/ d[r] = "imported"
  BY DEF IInv, TypeOK
<1>6. QED
  BY <1>1, <1>2, <1>3, <1>4, <1>5

\* What a worker has pending is never "imported", so a commit of it alone
\* imports nothing.
LEMMA PendingCommitInv ==
  ASSUME IInv, NEW w \in Workers, Commit(w, dirty[w]), UNCHANGED <<files, events, dl, diskVars>>
  PROVE  /\ status' \in [Releases -> Statuses]
         /\ cid' \in [Releases -> Ids \cup {None}]
         /\ writer' \in Workers \cup {None}
         /\ dirty' \in [Workers -> [Releases -> DirtyStates]]
         /\ \A v \in Workers, r \in Releases :
              dirty'[v][r] = "downloading" => v # w /\ dirty[v][r] = "downloading"
         /\ DownloadInv' /\ LibraryInv'
         /\ ImportedHasFile' /\ FileRowHasFile' /\ HistoryTruthful'
<1>1. dirty[w] \in [Releases -> DirtyStates]
  BY DEF IInv, TypeOK, DirtyStates
<1>2. dirty[w] \in [Releases -> DirtyStates \cup {"imported"}]
  BY <1>1
<1>3. /\ status' \in [Releases -> Statuses]
      /\ cid' \in [Releases -> Ids \cup {None}]
      /\ writer' \in Workers \cup {None}
      /\ dirty' \in [Workers -> [Releases -> DirtyStates]]
      /\ \A v \in Workers, r \in Releases :
           dirty'[v][r] = "downloading" => v # w /\ dirty[v][r] = "downloading"
      /\ \A r \in Releases : status'[r] = "imported" =>
           status[r] = "imported" \/ dirty[w][r] = "imported"
  BY <1>2, CommitInv
<1>4. \A r \in Releases : status'[r] = "imported" => status[r] = "imported"
  BY <1>1, <1>3 DEF DirtyStates
<1>5. DownloadInv' /\ LibraryInv'
  BY DEF IInv, DownloadInv, LibraryInv, diskVars
<1>6. ImportedHasFile' /\ FileRowHasFile' /\ HistoryTruthful'
  BY <1>4 DEF IInv, ImportedHasFile, FileRowHasFile, HistoryTruthful, diskVars
<1>7. QED
  BY <1>3, <1>5, <1>6

LEMMA CommitStepInv ==
  ASSUME IInv, NEW w \in Workers, GrabCommit(w) \/ WatchCommit(w) PROVE IInv'
<1>1. /\ Commit(w, dirty[w])
      /\ pc' = [pc EXCEPT ![w] = "poll"]
      /\ UNCHANGED <<files, events, dl, diskVars, faults, todo, mem, seen, job>>
  BY DEF GrabCommit, WatchCommit
<1>2. rows' \in [Workers -> SUBSET Clients]
  BY DEF GrabCommit, WatchCommit, IInv, TypeOK
<1>3. TypeOK'
  BY <1>1, <1>2, PendingCommitInv DEF IInv, TypeOK, DirtyStates, diskVars
<1>4. SessionInv'
  BY <1>1, PendingCommitInv DEF IInv, SessionInv
<1>5. JobInv'
  BY <1>1 DEF IInv, TypeOK, JobInv, diskVars
<1>6. QED
  BY <1>1, <1>3, <1>4, <1>5, PendingCommitInv DEF IInv

LEMMA GrabEscapesInv == ASSUME IInv, NEW w \in Workers, GrabEscapes(w) PROVE IInv'
<1>1. Commit(w, dirty[w]) /\ Closed(w) /\ UNCHANGED <<files, events, dl, diskVars>>
  BY DEF GrabEscapes
<1>2. faults' \in 0 .. MaxFaults
  BY ConstantsAssumption DEF IInv, TypeOK, GrabEscapes
<1>3. TypeOK'
  BY <1>1, <1>2, PendingCommitInv, ClosedInv DEF IInv, TypeOK, DirtyStates, diskVars
<1>4. SessionInv'
  BY <1>1, PendingCommitInv DEF IInv, TypeOK, SessionInv, Closed
<1>5. JobInv'
  BY <1>1 DEF IInv, TypeOK, JobInv, Closed, NoJob, diskVars
<1>6. QED
  BY <1>1, <1>3, <1>4, <1>5, PendingCommitInv DEF IInv

-----------------------------------------------------------------------------
(* The import hook.                                                        *)

LEMMA RejectInv == ASSUME IInv, NEW w \in Workers, Reject(w) PROVE IInv'
<1> DEFINE d == Rejected(w)
<1>1. /\ Commit(w, d)
      /\ pc[w] = "locate"
      /\ pc' = [pc EXCEPT ![w] = "log"]
      /\ UNCHANGED <<files, events, dl, diskVars, faults, todo, rows, mem, seen, job>>
  BY DEF Reject
<1>2. dirty[w] \in [Releases -> DirtyStates]
  BY DEF IInv, TypeOK, DirtyStates
<1>3. \A r \in Releases : d[r] = IF r = job[w].item THEN "failed" ELSE dirty[w][r]
  BY <1>2 DEF Rejected
<1>4. d \in [Releases -> DirtyStates \cup {"imported"}]
  BY <1>2 DEF Rejected, DirtyStates
<1> HIDE DEF d
<1>5. \A r \in Releases : d[r] = "downloading" => dirty[w][r] = "downloading"
  BY <1>3
<1>6. \A r \in Releases : d[r] # "imported"
  BY <1>2, <1>3 DEF DirtyStates
<1>7. TypeOK'
  BY <1>1, <1>4, <1>5, CommitInv DEF IInv, TypeOK, DirtyStates, diskVars
<1>8. SessionInv'
  BY <1>1, <1>4, <1>5, CommitInv DEF IInv, SessionInv
<1>9. JobInv'
  BY <1>1 DEF IInv, TypeOK, JobInv, diskVars
<1>10. \A r \in Releases : status'[r] = "imported" => status[r] = "imported"
  BY <1>1, <1>4, <1>5, <1>6, CommitInv
<1>11. QED
  BY <1>1, <1>7, <1>8, <1>9, <1>10
     DEF IInv, DownloadInv, LibraryInv, ImportedHasFile, FileRowHasFile, HistoryTruthful, diskVars

\* A file placed by an import is there to be hashed.
LEMMA PlacedFile ==
  ASSUME IInv, NEW w \in Workers, pc[w] = "record"
  PROVE  /\ job[w].item \in Releases /\ job[w].path \in Paths
         /\ lib[job[w].path] # None
         /\ content[lib[job[w].path]] \in Releases
         /\ \E f \in Formats : job[w].path = Dest[BookOf[job[w].item]][f]
<1>1. job[w].item \in Releases /\ job[w].path # None
  BY DEF IInv, JobInv
<1>2. job[w].path \in Paths
  BY <1>1 DEF IInv, TypeOK
<1>3. lib[job[w].path] # None /\ \E f \in Formats : job[w].path = Dest[BookOf[job[w].item]][f]
  BY <1>1 DEF IInv, JobInv
<1>4. content[lib[job[w].path]] # None
  BY <1>2, <1>3 DEF IInv, LibraryInv
<1>5. lib[job[w].path] \in Inodes
  BY <1>2, <1>3 DEF IInv, TypeOK
<1>6. content[lib[job[w].path]] \in Releases
  BY <1>4, <1>5 DEF IInv, TypeOK
<1>7. QED
  BY <1>1, <1>2, <1>3, <1>6

LEMMA RecordInv == ASSUME IInv, NEW w \in Workers, Record(w) PROVE IInv'
<1> USE ConstantsAssumption
<1> DEFINE d == [dirty[w] EXCEPT ![job[w].item] = "imported"]
           p == job[w].path
<1>1. /\ pc[w] = "record"
      /\ files[p] = None
      /\ files' = [files EXCEPT ![p] = content[lib[p]]]
      /\ Commit(w, d)
      /\ pc' = [pc EXCEPT ![w] = "log"]
      /\ UNCHANGED <<events, dl, diskVars, faults, todo, rows, mem, seen, job>>
  BY DEF Record
<1>2. dirty[w] \in [Releases -> DirtyStates]
  BY DEF IInv, TypeOK, DirtyStates
<1>3. \A r \in Releases : d[r] = IF r = job[w].item THEN "imported" ELSE dirty[w][r]
  BY <1>2
<1>4. d \in [Releases -> DirtyStates \cup {"imported"}]
  BY <1>2 DEF DirtyStates
<1> HIDE DEF d
<1>5. \A r \in Releases : d[r] = "downloading" => dirty[w][r] = "downloading"
  BY <1>3
<1>6. \A r \in Releases : d[r] = "imported" => r = job[w].item
  BY <1>2, <1>3 DEF DirtyStates
<1>7. /\ job[w].item \in Releases /\ p \in Paths
      /\ lib[p] # None
      /\ content[lib[p]] \in Releases
      /\ \E f \in Formats : p = Dest[BookOf[job[w].item]][f]
  BY <1>1, PlacedFile
<1> HIDE DEF p
<1>8. /\ files' \in [Paths -> Releases \cup {None}]
      /\ files'[p] # None
      /\ \A q \in Paths : q # p => files'[q] = files[q]
      /\ \A q \in Paths : files[q] # None => files'[q] # None
  BY <1>1, <1>7 DEF IInv, TypeOK
<1>9. TypeOK'
  BY <1>1, <1>4, <1>5, <1>8, CommitInv DEF IInv, TypeOK, DirtyStates, diskVars
<1>10. SessionInv'
  <2>1. \A v \in Workers, r \in Releases :
          dirty'[v][r] = "downloading" => dirty[v][r] = "downloading"
    BY <1>1, <1>4, <1>5, CommitInv
  <2>2. QED
    BY <1>1, <2>1 DEF IInv, SessionInv
<1>11. JobInv'
  <2>1. \A v \in Workers : job[v].path # None => job[v].path \in Paths
    BY DEF IInv, TypeOK
  <2>2. UNCHANGED <<job, lib>>
    BY <1>1 DEF diskVars
  <2>3. \A v \in Workers : pc'[v] = IF v = w THEN "log" ELSE pc[v]
    BY <1>1 DEF IInv, TypeOK
  <2>4. \A v \in Workers : job[v].path # None => files'[job[v].path] # None \/ v # w
    BY <1>8, <2>1 DEF p
  <2>5. \A v \in Workers : job[v].path # None /\ files[job[v].path] # None
          => files'[job[v].path] # None
    BY <1>8, <2>1
  <2>6. ASSUME NEW v \in Workers
        PROVE  /\ pc'[v] \in {"locate", "record", "log"} => job[v].item \in Releases
               /\ pc'[v] = "locate" => job[v].path = None
               /\ pc'[v] = "record" => job[v].path # None
               /\ job[v].path # None =>
                    /\ \E f \in Formats : job[v].path = Dest[BookOf[job[v].item]][f]
                    /\ lib[job[v].path] # None
                    /\ pc'[v] = "log" => files'[job[v].path] # None
    BY <1>7, <2>3, <2>4, <2>5 DEF IInv, JobInv
  <2>7. QED
    BY <2>2, <2>6 DEF JobInv
<1>12. \A r \in Releases : status'[r] = "imported" => status[r] = "imported" \/ r = job[w].item
  BY <1>1, <1>4, <1>5, <1>6, CommitInv
<1>13. \A r \in Releases, f \in Formats : Dest[BookOf[r]][f] \in Paths
  OBVIOUS
<1>14. ImportedHasFile'
  BY <1>7, <1>8, <1>12, <1>13 DEF IInv, ImportedHasFile
<1>15. HistoryTruthful'
  BY <1>1, <1>8, <1>13 DEF IInv, HistoryTruthful
<1>16. DownloadInv' /\ LibraryInv' /\ FileRowHasFile'
  BY <1>1, <1>7, <1>8 DEF IInv, DownloadInv, LibraryInv, FileRowHasFile, diskVars
<1>17. QED
  BY <1>9, <1>10, <1>11, <1>14, <1>15, <1>16 DEF IInv

LEMMA LogInv == ASSUME IInv, NEW w \in Workers, Log(w) PROVE IInv'
<1> USE ConstantsAssumption
<1>1. /\ pc[w] = "log"
      /\ events' = events \cup {<<EventKind(w), job[w].item>>}
      /\ job' = [job EXCEPT ![w] = NoJob]
      /\ pc' = [pc EXCEPT ![w] = "scan"]
      /\ UNCHANGED <<status, cid, files, dl, diskVars, writer, faults,
                     todo, rows, mem, dirty, seen>>
  BY DEF Log
<1>2. job[w].item \in Releases /\ EventKind(w) \in {"import", "fail"}
  BY <1>1 DEF IInv, JobInv, EventKind
<1>3. TypeOK'
  BY <1>1, <1>2 DEF IInv, TypeOK, NoJob, diskVars
<1>4. SessionInv' /\ DownloadInv' /\ LibraryInv' /\ ImportedHasFile' /\ FileRowHasFile'
  BY <1>1 DEF IInv, SessionInv, DownloadInv, LibraryInv, ImportedHasFile, FileRowHasFile, diskVars
<1>5. JobInv'
  BY <1>1 DEF IInv, TypeOK, JobInv, NoJob, diskVars
<1>6. EventKind(w) = "import" => \E f \in Formats : files[Dest[BookOf[job[w].item]][f]] # None
  BY <1>1 DEF IInv, JobInv, EventKind
<1>7. HistoryTruthful'
  BY <1>1, <1>6 DEF IInv, HistoryTruthful
<1>8. QED
  BY <1>3, <1>4, <1>5, <1>7 DEF IInv

\* Putting the file e at p loses no library file.
LEMMA TransferInv ==
  ASSUME IInv, NEW e \in Ids, NEW p \in Paths, content[e] # None, Transfer(e, p)
  PROVE  /\ lib' \in [Paths -> Inodes \cup {None}]
         /\ content' \in [Inodes -> Releases \cup {None}]
         /\ lib'[p] # None
         /\ \A q \in Paths : lib[q] # None => lib'[q] # None
         /\ LibraryInv'
<1> DEFINE i == IF lib[p] = None THEN p ELSE lib[p]
<1> USE ConstantsAssumption
<1>1. /\ lib \in [Paths -> Inodes \cup {None}]
      /\ content \in [Inodes -> Releases \cup {None}]
      /\ p \in Inodes /\ e \in Inodes /\ p \notin Ids /\ e # None /\ p # None
  BY DEF IInv, TypeOK, Inodes
<1>2. i \in Inodes /\ i # None
  BY <1>1
<1>3. Mode = "copy" \/ ~SameVolume => i \notin Ids
  BY <1>1 DEF IInv, LibraryInv
<1>4. CASE Link(e, p)
  <2>1. lib' = [lib EXCEPT ![p] = e] /\ content' = content
    BY <1>4 DEF Link
  <2>2. (Mode = "hardlink" /\ SameVolume) \/ (lib[p] = None /\ lib' = [lib EXCEPT ![p] = p])
        \/ (Mode = "move" /\ SameVolume)
    BY <1>1, <1>4, <2>1 DEF Transfer, Copy, Move, Link
  <2>3. QED
    BY <1>1, <2>1, <2>2 DEF IInv, LibraryInv
<1>5. CASE Copy(e, p)
  <2>1. lib' = [lib EXCEPT ![p] = i] /\ content' = [content EXCEPT ![i] = content[e]]
    BY <1>5 DEF Copy
  <2>2. QED
    BY <1>1, <1>2, <1>3, <2>1 DEF IInv, LibraryInv
<1>6. CASE Mode = "move" /\ SameVolume /\ Move(e, p)
  <2>1. lib' = [lib EXCEPT ![p] = e] /\ content' = content
    BY <1>6 DEF Move
  <2>2. QED
    BY <1>1, <1>6, <2>1 DEF IInv, LibraryInv
<1>7. CASE Mode = "move" /\ ~SameVolume /\ Move(e, p)
  <2>1. /\ lib' = [lib EXCEPT ![p] = i]
        /\ content' = [content EXCEPT ![i] = content[e], ![e] = None]
    BY <1>7 DEF Move
  <2>2. i # e
    BY <1>3, <1>7
  <2>3. QED
    BY <1>1, <1>2, <1>3, <1>7, <2>1, <2>2 DEF IInv, LibraryInv
<1>8. QED
  BY <1>4, <1>5, <1>6, <1>7 DEF Transfer

\* What a worker may pick to import: a finished download with its file.
LEMMA PickedFile ==
  ASSUME IInv, NEW r \in Releases, NEW d, NEW e \in Picked(r, d)
  PROVE  /\ e \in Ids /\ content[e] # None
         /\ DestOf(r, e) \in Paths
         /\ \E f \in Formats : DestOf(r, e) = Dest[BookOf[r]][f]
<1>1. e \in Ids /\ content[e] # None /\ dl[e].state = "complete"
  BY DEF Picked, Candidates, Present
<1>2. dl[e].rel \in Releases
  BY <1>1 DEF IInv, DownloadInv
<1>3. QED
  BY <1>1, <1>2, ConstantsAssumption DEF DestOf

LEMMA PlaceInv == ASSUME IInv, NEW w \in Workers, Place(w) PROVE IInv'
<1> USE ConstantsAssumption
<1> DEFINE r == job[w].item
<1>1. r \in Releases
  BY DEF Place, IInv, JobInv
<1>2. PICK e \in Picked(r, mem[w][r]) :
        Transfer(e, DestOf(r, e)) /\ job' = [job EXCEPT ![w].path = DestOf(r, e)]
  BY DEF Place
<1> DEFINE p == DestOf(r, e)
<1>3. /\ e \in Ids /\ content[e] # None /\ p \in Paths
      /\ \E f \in Formats : p = Dest[BookOf[r]][f]
  BY <1>1, <1>2, PickedFile
<1>4. /\ Transfer(e, p) /\ job' = [job EXCEPT ![w].path = p]
      /\ pc[w] = "locate" /\ pc' = [pc EXCEPT ![w] = "record"]
      /\ UNCHANGED <<dbVars, dl, writer, faults, todo, rows, mem, dirty, seen>>
  BY <1>2 DEF Place
<1> HIDE DEF p
<1>5. /\ lib' \in [Paths -> Inodes \cup {None}]
      /\ content' \in [Inodes -> Releases \cup {None}]
      /\ lib'[p] # None
      /\ \A q \in Paths : lib[q] # None => lib'[q] # None
      /\ LibraryInv'
  BY <1>3, <1>4, TransferInv
<1>6. TypeOK'
  <2>1. job[w] \in [item : Releases \cup {None}, path : Paths \cup {None}]
    BY DEF IInv, TypeOK
  <2>2. [job[w] EXCEPT !.path = p] \in [item : Releases \cup {None}, path : Paths \cup {None}]
    BY <1>3, <2>1
  <2>3. job' \in [Workers -> [item : Releases \cup {None}, path : Paths \cup {None}]]
    BY <1>4, <2>2 DEF IInv, TypeOK
  <2>4. pc' \in [Workers -> {"idle", "grab", "poll", "scan", "locate", "record", "log"}]
    BY <1>4 DEF IInv, TypeOK
  <2>5. QED
    BY <1>4, <1>5, <2>3, <2>4 DEF IInv, TypeOK, dbVars
<1>7. SessionInv' /\ DownloadInv' /\ ImportedHasFile' /\ HistoryTruthful'
  BY <1>4 DEF IInv, SessionInv, DownloadInv, ImportedHasFile, HistoryTruthful, dbVars
<1>8. FileRowHasFile'
  BY <1>4, <1>5 DEF IInv, FileRowHasFile, dbVars
<1>9. JobInv'
  <2>1. \A v \in Workers : job[v].path # None => job[v].path \in Paths
    BY DEF IInv, TypeOK
  <2>2. /\ job'[w].item = r /\ job'[w].path = p /\ pc'[w] = "record"
        /\ \A v \in Workers : v # w => job'[v] = job[v] /\ pc'[v] = pc[v]
    BY <1>4 DEF IInv, TypeOK
  <2>3. UNCHANGED files
    BY <1>4 DEF dbVars
  <2>4. QED
    BY <1>1, <1>3, <1>5, <2>1, <2>2, <2>3 DEF IInv, JobInv
<1>10. QED
  BY <1>5, <1>6, <1>7, <1>8, <1>9 DEF IInv

-----------------------------------------------------------------------------
(* Intake, the clients, and the whole next-state relation.                 *)

LEMMA EnqueueInv == ASSUME IInv, NEW r \in Releases, Enqueue(r) PROVE IInv'
<1>0. /\ status' = [status EXCEPT ![r] = "queued"]
      /\ events' = events \cup {<<"grab", r>>}
      /\ UNCHANGED <<cid, files, dl, lib, content, writer, faults>>
      /\ UNCHANGED <<pc, todo, rows, mem, dirty, seen, job>>
  BY DEF Enqueue, workVars, diskVars
<1>1. TypeOK'
  <2>1. status' \in [Releases -> Statuses]
    BY <1>0 DEF IInv, TypeOK, Statuses
  <2>2. events' \subseteq {"grab", "import", "fail"} \X Releases
    BY <1>0 DEF IInv, TypeOK
  <2>3. QED
    BY <1>0, <2>1, <2>2 DEF IInv, TypeOK
<1>2. SessionInv' /\ DownloadInv' /\ LibraryInv' /\ JobInv' /\ FileRowHasFile'
  BY <1>0 DEF IInv, SessionInv, DownloadInv, LibraryInv, JobInv, FileRowHasFile
<1>3. ImportedHasFile' /\ HistoryTruthful'
  BY <1>0 DEF IInv, TypeOK, ImportedHasFile, HistoryTruthful
<1>4. QED
  BY <1>1, <1>2, <1>3 DEF IInv

\* A client that takes a URL has a download of that release afterwards.
LEMMA StartsDownloadInv ==
  ASSUME IInv, NEW r \in Releases, NEW d \in Ids, StartsDownload(r, d)
  PROVE  /\ dl' \in [Ids -> [rel : Releases \cup {None}, client : Clients \cup {None},
                             state : DlStates]]
         /\ DownloadInv'
<1>1. /\ dl' = [dl EXCEPT ![d] = [rel |-> r, client |-> GrabClient, state |-> "active"]]
      /\ GrabClient \in Clients
  BY ConstantsAssumption DEF StartsDownload, GrabClient
<1>2. QED
  BY <1>1 DEF IInv, TypeOK, DownloadInv, DlStates

LEMMA AddInv ==
  ASSUME IInv, NEW w \in Workers, NEW r \in Releases, NEW d \in Ids,
         AddUrl(w, r, d) \/ AddLost(w, r, d)
  PROVE  IInv'
<1>1. /\ dl' \in [Ids -> [rel : Releases \cup {None}, client : Clients \cup {None},
                          state : DlStates]]
      /\ DownloadInv'
  BY StartsDownloadInv DEF AddUrl, AddLost, AlreadyHas, IInv, TypeOK, DownloadInv
<1>2. /\ todo' = [todo EXCEPT ![w] = @ \ {r}]
      /\ UNCHANGED <<dbVars, diskVars, writer, faults, pc, rows, seen, job>>
  BY DEF AddUrl, AddLost, Handled
<1>3. /\ mem' \in [Workers -> [Releases -> Ids \cup {None, Unheld}]]
      /\ dirty' \in [Workers -> [Releases -> {"clean", "downloading", "importing", "failed"}]]
      /\ SessionInv'
  <2>1. CASE AddUrl(w, r, d)
    <3>1. PICK e \in Ids : mem' = [mem EXCEPT ![w][r] = e]
      BY <2>1 DEF AddUrl, Returned
    <3>2. dirty' = [dirty EXCEPT ![w][r] = "downloading"]
      BY <2>1 DEF AddUrl, Pending
    <3>3. QED
      BY <3>1, <3>2 DEF IInv, TypeOK, SessionInv
  <2>2. CASE AddLost(w, r, d)
    <3>1. dirty' = [dirty EXCEPT ![w][r] = "failed"] /\ UNCHANGED mem
      BY <2>2 DEF AddLost, Pending
    <3>2. QED
      BY <3>1 DEF IInv, TypeOK, SessionInv
  <2>3. QED
    BY <2>1, <2>2
<1>4. TypeOK'
  BY <1>1, <1>2, <1>3 DEF IInv, TypeOK, dbVars, diskVars
<1>5. LibraryInv' /\ JobInv' /\ ImportedHasFile' /\ FileRowHasFile' /\ HistoryTruthful'
  BY <1>2 DEF IInv, LibraryInv, JobInv, ImportedHasFile, FileRowHasFile, HistoryTruthful,
              dbVars, diskVars
<1>6. QED
  BY <1>1, <1>3, <1>4, <1>5 DEF IInv

LEMMA DownloadEndsInv ==
  ASSUME IInv, NEW d \in Ids, DownloadFinishes(d) \/ DownloadErrors(d)
  PROVE  IInv'
<1> USE ConstantsAssumption
<1>1. dl[d].rel \in Releases /\ dl[d].client \in Clients /\ d \in Inodes
  BY DEF DownloadFinishes, DownloadErrors, IInv, DownloadInv, Inodes
<1>2. /\ dl' = [dl EXCEPT ![d].state = "complete"] \/ dl' = [dl EXCEPT ![d].state = "error"]
      /\ content' = [content EXCEPT ![d] = dl[d].rel] \/ content' = content
      /\ UNCHANGED <<dbVars, lib, writer, faults, workVars>>
  BY DEF DownloadFinishes, DownloadErrors, diskVars
<1>3. /\ dl' \in [Ids -> [rel : Releases \cup {None}, client : Clients \cup {None},
                          state : DlStates]]
      /\ DownloadInv'
  <2>1. PICK s \in {"complete", "error"} : dl' = [dl EXCEPT ![d].state = s]
    BY <1>2
  <2>2. /\ \A c \in Ids : c # d => dl'[c] = dl[c]
        /\ dl'[d].rel = dl[d].rel
        /\ dl'[d].client = dl[d].client
    BY <2>1 DEF IInv, TypeOK
  <2>3. dl' \in [Ids -> [rel : Releases \cup {None}, client : Clients \cup {None},
                        state : DlStates]]
    <3>1. dl[d] \in [rel : Releases \cup {None}, client : Clients \cup {None}, state : DlStates]
      BY DEF IInv, TypeOK
    <3>2. [dl[d] EXCEPT !.state = s] \in
            [rel : Releases \cup {None}, client : Clients \cup {None}, state : DlStates]
      BY <3>1 DEF DlStates
    <3>3. QED
      BY <2>1, <3>2 DEF IInv, TypeOK
  <2>4. DownloadInv'
    <3>1. dl'[d].rel \in Releases /\ dl'[d].client \in Clients
      BY <1>1, <2>2
    <3>2. \A c \in Ids : c # d /\ dl'[c].state # "none" =>
            dl'[c].rel \in Releases /\ dl'[c].client \in Clients
      BY <2>2 DEF IInv, DownloadInv
    <3>3. QED
      BY <3>1, <3>2 DEF DownloadInv
  <2>5. QED
    BY <2>3, <2>4
<1>4. content' \in [Inodes -> Releases \cup {None}]
  BY <1>1, <1>2 DEF IInv, TypeOK
<1>5. TypeOK'
  BY <1>2, <1>3, <1>4 DEF IInv, TypeOK, dbVars, workVars
<1>6. LibraryInv'
  BY <1>1, <1>2 DEF IInv, TypeOK, LibraryInv
<1>7. /\ SessionInv' /\ JobInv'
      /\ ImportedHasFile' /\ FileRowHasFile' /\ HistoryTruthful'
  BY <1>2 DEF IInv, SessionInv, JobInv, ImportedHasFile, FileRowHasFile, HistoryTruthful,
              dbVars, workVars
<1>8. QED
  BY <1>3, <1>5, <1>6, <1>7 DEF IInv

\* Every step of a cycle preserves the invariant.
LEMMA CycleInv == ASSUME IInv, NEW w \in Workers, Cycle(w) PROVE IInv'
<1>1. CASE Start(w)
  BY <1>1, StartInv
<1>2. CASE Grab(w)
  BY <1>2, AddInv, ItemInv, CommitStepInv DEF Grab
<1>3. CASE Watch(w)
  <2>1. CASE WatchDone(w)
    BY <2>1, QuitInv DEF WatchDone, IInv, TypeOK
  <2>2. QED
    BY <1>3, <2>1, PollDeadInv, PollOkInv, ItemInv, BeginImportInv, CommitStepInv DEF Watch
<1>4. CASE Import(w)
  <2>1. CASE RecordConflict(w)
    BY <2>1, QuitInv DEF RecordConflict, IInv, TypeOK
  <2>2. QED
    BY <1>4, <2>1, PlaceInv, RejectInv, RecordInv, LogInv DEF Import
<1>5. QED
  BY <1>1, <1>2, <1>3, <1>4 DEF Cycle

\* So does every fault.
LEMMA FaultInv == ASSUME IInv, NEW w \in Workers, Fault(w) PROVE IInv'
<1>1. CASE LockTimeout(w)
  BY <1>1, QuitInv DEF LockTimeout, IInv, TypeOK
<1>2. CASE Abort(w)
  <2>1. faults' \in 0 .. MaxFaults
    BY <1>2, ConstantsAssumption DEF Abort, IInv, TypeOK
  <2>2. QED
    BY <1>2, <2>1, QuitInv DEF Abort
<1>3. QED
  BY <1>1, <1>2, GrabEscapesInv, HookRaisesInv DEF Fault

LEMMA NextInv == ASSUME IInv, [Next]_vars PROVE IInv'
<1>1. CASE Next
  BY <1>1, EnqueueInv, CycleInv, FaultInv, DownloadEndsInv DEF Next
<1>2. CASE UNCHANGED vars
  <2>1. UNCHANGED <<dbVars, dl, diskVars, writer, faults, workVars>>
    BY <1>2 DEF vars
  <2>2. TypeOK' /\ SessionInv' /\ JobInv'
    BY <2>1 DEF IInv, TypeOK, SessionInv, JobInv, dbVars, diskVars, workVars
  <2>3. QED
    BY <2>1, <2>2, LocalStep
<1>3. QED
  BY <1>1, <1>2

-----------------------------------------------------------------------------
\* Whatever the clients, the workers and the faults do, the invariant holds.
THEOREM Invariance == Spec => []IInv
<1>1. Init => IInv
  BY InitIInv
<1>2. IInv /\ [Next]_vars => IInv'
  BY NextInv
<1>3. QED
  BY <1>1, <1>2, PTL DEF Spec

\* Every variable holds values of its kind.
THEOREM TypeCorrect == Spec => []TypeOK
<1>1. IInv => TypeOK
  BY DEF IInv
<1>2. QED
  BY <1>1, Invariance, PTL

\* An imported row has a files row of its book (import_download commits the
\* two together), for any number of workers, crashes and releases.
THEOREM ImportedRowsHaveFiles == Spec => []ImportedHasFile
<1>1. IInv => ImportedHasFile
  BY DEF IInv
<1>2. QED
  BY <1>1, Invariance, PTL

\* A files row never names a path that is missing from the library.
THEOREM FileRowsHaveFiles == Spec => []FileRowHasFile
<1>1. IInv => FileRowHasFile
  BY DEF IInv
<1>2. QED
  BY <1>1, Invariance, PTL

\* An import in the history is one whose book has a files row, although the
\* event has a transaction of its own.
THEOREM HistoryIsTruthful == Spec => []HistoryTruthful
<1>1. IInv => HistoryTruthful
  BY DEF IInv
<1>2. QED
  BY <1>1, Invariance, PTL

-----------------------------------------------------------------------------
\* A download no client has started belongs to nobody.
FreshInv == \A d \in Ids : dl[d].state = "none" => dl[d].rel = None

-----------------------------------------------------------------------------
(* What one step does to downloads, to pending grabs and to rows.          *)

\* A step leaves the downloads alone, starts one or ends one.
LEMMA DownloadSteps ==
  ASSUME [Next]_vars
  PROVE  \/ dl' = dl
         \/ \E w \in Workers, r \in Releases, d \in Ids :
              (AddUrl(w, r, d) \/ AddLost(w, r, d)) /\ StartsDownload(r, d)
         \/ \E d \in Ids, s \in {"complete", "error"} :
              dl[d].state = "active" /\ dl' = [dl EXCEPT ![d].state = s]
<1>1. ASSUME NEW w \in Workers, Cycle(w)
      PROVE  \/ dl' = dl
             \/ \E r \in Releases, d \in Ids :
                  (AddUrl(w, r, d) \/ AddLost(w, r, d)) /\ StartsDownload(r, d)
  <2>1. ASSUME NEW r \in Releases, NEW d \in Ids, AddUrl(w, r, d) \/ AddLost(w, r, d)
        PROVE  dl' = dl \/ StartsDownload(r, d)
    BY <2>1 DEF AddUrl, AddLost, AlreadyHas
  <2>2. CASE Start(w) \/ Watch(w) \/ Import(w)
    BY <2>2 DEF Start, Watch, PollDead, PollOk, SkipItem, ErrorItem, BeginImport, WatchCommit,
                WatchDone, Import, Place, Reject, Record, RecordConflict, Log, Quit
  <2>3. CASE (\E r \in Releases : AddRefused(w, r)) \/ GrabCommit(w)
    BY <2>3 DEF AddRefused, GrabCommit
  <2>4. QED
    BY <1>1, <2>1, <2>2, <2>3 DEF Cycle, Grab
<1>2. ASSUME NEW w \in Workers, Fault(w) PROVE dl' = dl
  BY <1>2 DEF Fault, GrabEscapes, HookRaises, LockTimeout, Abort, Quit
<1>3. ASSUME NEW d \in Ids, DownloadFinishes(d) \/ DownloadErrors(d)
      PROVE  \E s \in {"complete", "error"} :
               dl[d].state = "active" /\ dl' = [dl EXCEPT ![d].state = s]
  BY <1>3 DEF DownloadFinishes, DownloadErrors
<1>4. CASE UNCHANGED vars \/ \E r \in Releases : Enqueue(r)
  BY <1>4 DEF vars, Enqueue
<1>5. QED
  BY <1>1, <1>2, <1>3, <1>4 DEF Next

\* A download stays the download of the release it was started for.
LEMMA FreshStep ==
  ASSUME IInv, FreshInv, [Next]_vars
  PROVE  /\ FreshInv'
         /\ \A d \in Ids : dl[d].rel # None => dl'[d].rel = dl[d].rel
<1>1. ASSUME NEW r \in Releases, NEW d \in Ids, StartsDownload(r, d)
      PROVE  FreshInv' /\ \A c \in Ids : dl[c].rel # None => dl'[c].rel = dl[c].rel
  BY <1>1 DEF StartsDownload, FreshInv, IInv, TypeOK
<1>2. ASSUME NEW d \in Ids, NEW s \in {"complete", "error"},
             dl[d].state = "active", dl' = [dl EXCEPT ![d].state = s]
      PROVE  FreshInv' /\ \A c \in Ids : dl[c].rel # None => dl'[c].rel = dl[c].rel
  <2>1. /\ dl'[d].rel = dl[d].rel /\ dl'[d].state = s
        /\ \A c \in Ids : c # d => dl'[c] = dl[c]
    BY <1>2 DEF IInv, TypeOK
  <2>2. QED
    BY <2>1 DEF FreshInv
<1>3. CASE dl' = dl
  BY <1>3 DEF FreshInv
<1>4. QED
  BY <1>1, <1>2, <1>3, DownloadSteps

\* A grab is pending because it was, under the same id, or because the client
\* has just taken it.
LEMMA PendingSteps ==
  ASSUME IInv, [Next]_vars, NEW v \in Workers, NEW q \in Releases, dirty'[v][q] = "downloading"
  PROVE  \/ dirty[v][q] = "downloading" /\ mem'[v][q] = mem[v][q]
         \/ \E d \in Ids : AddUrl(v, q, d)
<1> DEFINE Kept == dirty[v][q] = "downloading" /\ mem'[v][q] = mem[v][q]
<1>1. CASE UNCHANGED vars \/ (\E r \in Releases : Enqueue(r))
           \/ \E d \in Ids : DownloadFinishes(d) \/ DownloadErrors(d)
  BY <1>1 DEF vars, Enqueue, DownloadFinishes, DownloadErrors, workVars
<1>2. ASSUME NEW w \in Workers, Start(w) \/ \E c \in Clients : PollOk(w, c) PROVE Kept
  <2>1. PICK sel : mem' = [mem EXCEPT ![w] = Loaded(w, sel)] /\ dirty' = dirty
    BY <1>2 DEF Start, PollOk
  <2>2. mem[v][q] \in Ids
    BY <2>1 DEF IInv, SessionInv
  <2>3. QED
    BY <2>1, <2>2, LoadedType DEF IInv, TypeOK
<1>3. ASSUME NEW w \in Workers, NEW r \in Releases, NEW d \in Ids, AddUrl(w, r, d), w # v \/ r # q
      PROVE  Kept
  <2>1. PICK e : mem' = [mem EXCEPT ![w][r] = e] /\ dirty' = [dirty EXCEPT ![w][r] = "downloading"]
    BY <1>3 DEF AddUrl, Pending
  <2>2. QED
    BY <1>3, <2>1 DEF IInv, TypeOK
<1>4. ASSUME NEW w \in Workers, NEW r \in Releases, NEW s \in {"failed", "importing"},
             Pending(w, r, s), mem' = mem
      PROVE  Kept
  BY <1>4 DEF Pending, IInv, TypeOK
<1>5. ASSUME NEW w \in Workers, dirty' = [dirty EXCEPT ![w] = Clean],
             mem' = [mem EXCEPT ![w] = [r \in Releases |-> Unheld]] \/ mem' = mem
      PROVE  Kept
  BY <1>5 DEF Clean, IInv, TypeOK
<1>6. ASSUME mem' = mem, dirty' = dirty PROVE Kept
  BY <1>6
<1>7. ASSUME NEW w \in Workers, Cycle(w) PROVE Kept \/ \E d \in Ids : AddUrl(v, q, d)
  <2>1. CASE Start(w)
    BY <1>2, <2>1
  <2>2. CASE Grab(w)
    BY <1>3, <1>4, <1>5, <2>2 DEF Grab, AddLost, AddRefused, GrabCommit, Commit
  <2>3. CASE Watch(w)
    BY <1>2, <1>4, <1>5, <1>6, <2>3
       DEF Watch, PollDead, SkipItem, ErrorItem, BeginImport, WatchCommit, WatchDone, Commit,
           Quit, Closed
  <2>4. CASE Import(w)
    BY <1>5, <1>6, <2>4 DEF Import, Place, Reject, Record, RecordConflict, Log, Commit, Quit, Closed
  <2>5. QED
    BY <1>7, <2>1, <2>2, <2>3, <2>4 DEF Cycle
<1>8. ASSUME NEW w \in Workers, Fault(w) PROVE Kept
  <2>1. CASE HookRaises(w)
    <3>1. job[w].item \in Releases
      BY <2>1 DEF HookRaises, IInv, JobInv
    <3>2. QED
      BY <1>4, <2>1, <3>1 DEF HookRaises
  <2>2. CASE GrabEscapes(w) \/ LockTimeout(w) \/ Abort(w)
    BY <1>5, <2>2 DEF GrabEscapes, LockTimeout, Abort, Quit, Commit, Closed
  <2>3. QED
    BY <1>8, <2>1, <2>2 DEF Fault
<1>9. QED
  BY <1>1, <1>7, <1>8 DEF Next

\* A row is being downloaded because it was, under the same id, or because a
\* pending grab of it was committed.
LEMMA DownloadingSteps ==
  ASSUME IInv, [Next]_vars, NEW r \in Releases, status'[r] = "downloading"
  PROVE  \/ status[r] = "downloading" /\ cid'[r] = cid[r]
         \/ \E w \in Workers : dirty[w][r] = "downloading" /\ cid'[r] = mem[w][r]
<1> DEFINE Kept == \/ status[r] = "downloading" /\ cid'[r] = cid[r]
                   \/ \E w \in Workers : dirty[w][r] = "downloading" /\ cid'[r] = mem[w][r]
<1>1. ASSUME NEW w \in Workers, NEW d, Commit(w, d),
             d[r] = "downloading" => dirty[w][r] = "downloading"
      PROVE  Kept
  BY <1>1 DEF Commit, IdsWritten
<1>2. ASSUME status' = status, cid' = cid PROVE Kept
  BY <1>2
<1>3. ASSUME NEW q \in Releases, Enqueue(q) PROVE Kept
  BY <1>3 DEF Enqueue, IInv, TypeOK
<1>4. ASSUME NEW w \in Workers, Reject(w) \/ Record(w) PROVE Kept
  <2>1. dirty[w] \in [Releases -> {"clean", "downloading", "importing", "failed"}]
    BY DEF IInv, TypeOK
  <2>2. PICK s \in {"failed", "imported"} : Commit(w, [dirty[w] EXCEPT ![job[w].item] = s])
    BY <1>4 DEF Reject, Record, Rejected
  <2>3. [dirty[w] EXCEPT ![job[w].item] = s][r] = "downloading" => dirty[w][r] = "downloading"
    BY <2>1
  <2>4. QED
    BY <1>1, <2>2, <2>3
<1>5. ASSUME NEW w \in Workers, GrabCommit(w) \/ WatchCommit(w) \/ GrabEscapes(w) PROVE Kept
  BY <1>1, <1>5 DEF GrabCommit, WatchCommit, GrabEscapes
<1>6. ASSUME NEW w \in Workers, Cycle(w) PROVE Kept
  BY <1>2, <1>4, <1>5, <1>6
     DEF Cycle, Start, Grab, AddUrl, AddLost, AddRefused, Watch, PollDead, PollOk, SkipItem,
         ErrorItem, BeginImport, WatchDone, Import, Place, RecordConflict, Log, Quit, dbVars
<1>7. ASSUME NEW w \in Workers, Fault(w) PROVE Kept
  BY <1>2, <1>5, <1>7 DEF Fault, HookRaises, LockTimeout, Abort, Quit, dbVars
<1>8. CASE UNCHANGED vars \/ \E d \in Ids : DownloadFinishes(d) \/ DownloadErrors(d)
  BY <1>2, <1>8 DEF vars, DownloadFinishes, DownloadErrors, dbVars
<1>9. QED
  BY <1>3, <1>6, <1>7, <1>8 DEF Next

-----------------------------------------------------------------------------
(* Rows are watched under the id of their own download.                    *)

OwnIds == FirstRow \notin ReadsBack

\* The id a pending grab will commit is that of a download of its release.
PendingOwn ==
  \A w \in Workers, r \in Releases :
    dirty[w][r] = "downloading" => mem[w][r] \in Ids /\ dl[mem[w][r]].rel = r

OwnInv == IInv /\ FreshInv /\ PendingOwn /\ OwnDownload

LEMMA OwnStep == ASSUME OwnIds, OwnInv, [Next]_vars PROVE OwnInv'
<1>1. IInv'
  BY NextInv DEF OwnInv
<1>2. FreshInv' /\ \A d \in Ids : dl[d].rel # None => dl'[d].rel = dl[d].rel
  BY FreshStep DEF OwnInv
<1>3. \A r \in Releases : r # None
  BY ConstantsAssumption
<1>4. PendingOwn'
  <2>1. ASSUME NEW w \in Workers, NEW r \in Releases, dirty'[w][r] = "downloading"
        PROVE  mem'[w][r] \in Ids /\ dl'[mem'[w][r]].rel = r
    <3>1. CASE dirty[w][r] = "downloading" /\ mem'[w][r] = mem[w][r]
      BY <1>2, <1>3, <3>1 DEF OwnInv, PendingOwn
    <3>2. ASSUME NEW d \in Ids, AddUrl(w, r, d)
          PROVE  mem'[w][r] \in Ids /\ dl'[mem'[w][r]].rel = r
      <4>1. mem' = [mem EXCEPT ![w][r] = d]
        BY <3>2 DEF AddUrl, Returned, OwnIds, GrabClient
      <4>2. mem'[w][r] = d
        BY <4>1 DEF OwnInv, IInv, TypeOK
      <4>3. dl'[d].rel = r
        BY <3>2 DEF AddUrl, StartsDownload, AlreadyHas, OwnInv, IInv, TypeOK
      <4>4. QED
        BY <4>2, <4>3
    <3>3. QED
      BY <2>1, <3>1, <3>2, PendingSteps DEF OwnInv
  <2>2. QED
    BY <2>1 DEF PendingOwn
<1>5. OwnDownload'
  <2>1. ASSUME NEW r \in Releases, status'[r] = "downloading"
        PROVE  cid'[r] \in Ids /\ dl'[cid'[r]].rel = r
    <3>1. \/ status[r] = "downloading" /\ cid'[r] = cid[r]
          \/ \E w \in Workers : dirty[w][r] = "downloading" /\ cid'[r] = mem[w][r]
      BY <2>1, DownloadingSteps DEF OwnInv
    <3>2. cid'[r] \in Ids /\ dl[cid'[r]].rel = r
      BY <3>1 DEF OwnInv, PendingOwn, OwnDownload
    <3>3. QED
      BY <1>2, <1>3, <3>2
  <2>2. QED
    BY <2>1 DEF OwnDownload
<1>6. QED
  BY <1>1, <1>2, <1>4, <1>5 DEF OwnInv

\* Every row that is watched is watched under the id of a download of that
\* very release, through any interleaving of processes, lost answers, crashes
\* and escaped exceptions, when the client returns the id itself.
THEOREM OwnDownloadIsWatched == OwnIds /\ Spec => []OwnDownload
<1> SUFFICES ASSUME OwnIds PROVE Spec => []OwnDownload
  OBVIOUS
<1>1. Init => OwnInv
  <2>1. Init => FreshInv /\ PendingOwn /\ OwnDownload
    BY DEF Init, FreshInv, PendingOwn, OwnDownload, NoDownload
  <2>2. QED
    BY <2>1, InitIInv DEF OwnInv
<1>2. OwnInv /\ [Next]_vars => OwnInv'
  BY OwnStep
<1>3. OwnInv => OwnDownload
  BY DEF OwnInv
<1>4. QED
  BY <1>1, <1>2, <1>3, PTL DEF Spec

-----------------------------------------------------------------------------
(* What the library holds under a path.                                    *)

\* A file of release x may be put at path p: it verifies for a book whose
\* path in its format is p.
Fits(x, p) == \E b \in Books : <<b, x>> \in Verifies /\ Dest[b][FormatOf[x]] = p

\* Releases that fit one path fit the same paths.
PathsApart ==
  \A p, q \in Paths, x, y \in Releases :
    Fits(x, p) /\ Fits(y, p) => (Fits(x, q) <=> Fits(y, q))

\* Every file in the library fits its path, and so does every files row; the
\* bytes a client holds, even overwritten through a hard link, fit where those
\* of its release would.
PlacedInv ==
  /\ \A p \in Paths : lib[p] # None => lib[p] \in Ids \cup {p} /\ Fits(content[lib[p]], p)
  /\ \A p \in Paths : files[p] # None => Fits(files[p], p)
  /\ \A d \in Ids : content[d] # None =>
       /\ dl[d].state # "none"
       /\ \A p \in Paths : Fits(content[d], p) <=> Fits(dl[d].rel, p)

\* A step leaves the disk alone, finishes a download or places a file.
LEMMA DiskSteps ==
  ASSUME [Next]_vars
  PROVE  \/ UNCHANGED diskVars
         \/ \E d \in Ids : DownloadFinishes(d)
         \/ \E w \in Workers : Place(w)
<1>1. ASSUME NEW w \in Workers, Cycle(w) PROVE UNCHANGED diskVars \/ Place(w)
  BY <1>1 DEF Cycle, Start, Grab, AddUrl, AddLost, AddRefused, GrabCommit, Watch, PollDead,
              PollOk, SkipItem, ErrorItem, BeginImport, WatchCommit, WatchDone, Import, Reject,
              Record, RecordConflict, Log, Quit
<1>2. ASSUME NEW w \in Workers, Fault(w) PROVE UNCHANGED diskVars
  BY <1>2 DEF Fault, GrabEscapes, HookRaises, LockTimeout, Abort, Quit
<1>3. CASE UNCHANGED vars \/ (\E r \in Releases : Enqueue(r)) \/ \E d \in Ids : DownloadErrors(d)
  BY <1>3 DEF vars, Enqueue, DownloadErrors
<1>4. QED
  BY <1>1, <1>2, <1>3 DEF Next

\* A step leaves the files rows alone or records the file an import placed.
LEMMA FilesSteps ==
  ASSUME [Next]_vars
  PROVE  files' = files \/ \E w \in Workers : Record(w)
<1>1. ASSUME NEW w \in Workers, Cycle(w) PROVE files' = files \/ Record(w)
  BY <1>1 DEF Cycle, Start, Grab, AddUrl, AddLost, AddRefused, GrabCommit, Watch, PollDead,
              PollOk, SkipItem, ErrorItem, BeginImport, WatchCommit, WatchDone, Import, Place,
              Reject, RecordConflict, Log, Quit, dbVars
<1>2. ASSUME NEW w \in Workers, Fault(w) PROVE files' = files
  BY <1>2 DEF Fault, GrabEscapes, HookRaises, LockTimeout, Abort, Quit, dbVars
<1>3. CASE UNCHANGED vars \/ (\E r \in Releases : Enqueue(r))
           \/ \E d \in Ids : DownloadFinishes(d) \/ DownloadErrors(d)
  BY <1>3 DEF vars, Enqueue, DownloadFinishes, DownloadErrors, dbVars
<1>4. QED
  BY <1>1, <1>2, <1>3 DEF Next

\* Putting a file that fits p at p, in any import mode, leaves every path with
\* a file that fits it, though the copy may write through a hard link.
LEMMA TransferFits ==
  ASSUME PathsApart, IInv, PlacedInv, NEW e \in Ids, NEW p \in Paths,
         content[e] # None, Fits(content[e], p), Transfer(e, p)
  PROVE  /\ \A q \in Paths : lib'[q] # None =>
              lib'[q] \in Ids \cup {q} /\ Fits(content'[lib'[q]], q)
         /\ \A d \in Ids : content'[d] # None =>
              /\ content[d] # None
              /\ \A q \in Paths : Fits(content'[d], q) <=> Fits(content[d], q)
<1> DEFINE i == IF lib[p] = None THEN p ELSE lib[p]
<1> USE ConstantsAssumption
<1>1. /\ lib \in [Paths -> Inodes \cup {None}]
      /\ content \in [Inodes -> Releases \cup {None}]
      /\ p \in Inodes /\ e \in Inodes /\ p \notin Ids /\ e # None /\ p # None
  BY DEF IInv, TypeOK, Inodes
<1>2. i \in Inodes /\ i \in Ids \cup {p}
  BY <1>1 DEF PlacedInv
<1>3. content[e] \in Releases
  BY <1>1
<1>4. \A q \in Paths : q # p /\ lib[q] = i =>
        i \in Ids /\ lib[p] = i /\ Fits(content[e], q)
  <2>1. ASSUME NEW q \in Paths, q # p, lib[q] = i
        PROVE  i \in Ids /\ lib[p] = i /\ Fits(content[e], q)
    <3>1. lib[q] # None /\ i \in Ids \cup {q} /\ Fits(content[i], q)
      BY <1>1, <1>2, <2>1 DEF PlacedInv
    <3>2. i \in Ids /\ lib[p] = i
      BY <1>1, <1>2, <2>1, <3>1
    <3>3. Fits(content[i], p) /\ content[i] \in Releases
      <4>1. Fits(content[i], p)
        BY <1>1, <3>2 DEF PlacedInv
      <4>2. content[i] # None
        BY <1>1, <3>2 DEF IInv, LibraryInv
      <4>3. QED
        BY <1>1, <1>2, <4>1, <4>2
    <3>4. QED
      BY <1>3, <3>1, <3>2, <3>3 DEF PathsApart
  <2>2. QED
    BY <2>1
<1>5. i \in Ids => /\ content[i] # None
                   /\ \A q \in Paths : Fits(content[e], q) <=> Fits(content[i], q)
  <2> SUFFICES ASSUME i \in Ids
               PROVE  /\ content[i] # None
                      /\ \A q \in Paths : Fits(content[e], q) <=> Fits(content[i], q)
    OBVIOUS
  <2>1. lib[p] = i /\ lib[p] # None
    BY <1>1
  <2>2. content[i] # None /\ Fits(content[i], p)
    BY <2>1 DEF PlacedInv, IInv, LibraryInv
  <2>3. content[i] \in Releases
    BY <1>1, <1>2, <2>2
  <2>4. QED
    BY <1>3, <2>2, <2>3 DEF PathsApart
<1>6. CASE lib' = [lib EXCEPT ![p] = e] /\ content' = content
  BY <1>1, <1>6 DEF PlacedInv
<1>7. CASE Copy(e, p)
  <2>1. lib' = [lib EXCEPT ![p] = i] /\ content' = [content EXCEPT ![i] = content[e]]
    BY <1>7 DEF Copy
  <2>2. /\ lib'[p] = i /\ content'[i] = content[e]
        /\ \A q \in Paths : q # p => lib'[q] = lib[q]
        /\ \A j \in Inodes : j # i => content'[j] = content[j]
    BY <1>1, <1>2, <2>1
  <2>3. \A q \in Paths : lib'[q] # None => lib'[q] \in Ids \cup {q} /\ Fits(content'[lib'[q]], q)
    <3> HIDE DEF i
    <3>1. ASSUME NEW q \in Paths, q # p, lib[q] # None
          PROVE  lib[q] \in Ids \cup {q} /\ Fits(content'[lib[q]], q)
      <4>1. lib[q] \in Inodes /\ lib[q] \in Ids \cup {q} /\ Fits(content[lib[q]], q)
        BY <1>1, <3>1 DEF PlacedInv
      <4>2. CASE lib[q] = i
        BY <1>4, <2>2, <3>1, <4>1, <4>2
      <4>3. CASE lib[q] # i
        BY <2>2, <4>1, <4>3
      <4>4. QED
        BY <4>1, <4>2, <4>3
    <3>2. QED
      BY <1>2, <2>2, <3>1
  <2>4. \A d \in Ids : content'[d] # None =>
          /\ content[d] # None
          /\ \A q \in Paths : Fits(content'[d], q) <=> Fits(content[d], q)
    BY <1>5, <2>2 DEF Inodes
  <2>5. QED
    BY <2>3, <2>4
<1>8. CASE Mode = "move" /\ ~SameVolume /\ Move(e, p)
  <2>1. /\ lib' = [lib EXCEPT ![p] = i]
        /\ content' = [content EXCEPT ![i] = content[e], ![e] = None]
    BY <1>8 DEF Move
  <2>2. i \notin Ids /\ i = p
    BY <1>1, <1>2, <1>8 DEF IInv, LibraryInv
  <2>3. /\ lib'[p] = p /\ content'[p] = content[e] /\ content'[e] = None
        /\ \A q \in Paths : q # p => lib'[q] = lib[q]
        /\ \A j \in Inodes : j # p /\ j # e => content'[j] = content[j]
    BY <1>1, <1>2, <2>1, <2>2
  <2>4. \A q \in Paths : lib[q] # None => lib[q] = q
    BY <1>8 DEF PlacedInv, IInv, LibraryInv
  <2>5. \A q \in Paths : lib'[q] # None => lib'[q] \in Ids \cup {q} /\ Fits(content'[lib'[q]], q)
    <3>1. ASSUME NEW q \in Paths, q # p, lib[q] # None
          PROVE  Fits(content'[lib[q]], q)
      <4>1. lib[q] = q /\ q \in Inodes /\ q # e /\ Fits(content[q], q)
        BY <2>4, <3>1 DEF PlacedInv, Inodes
      <4>2. QED
        BY <2>3, <3>1, <4>1
    <3>2. QED
      BY <2>3, <2>4, <3>1
  <2>6. \A d \in Ids : content'[d] # None => content'[d] = content[d]
    BY <1>1, <2>3 DEF Inodes
  <2>7. QED
    BY <2>5, <2>6
<1>9. QED
  BY <1>6, <1>7, <1>8 DEF Transfer, Link, Move

PlacingInv == IInv /\ FreshInv /\ PlacedInv

LEMMA PlacingStep == ASSUME PathsApart, PlacingInv, [Next]_vars PROVE PlacingInv'
<1> USE ConstantsAssumption
<1>1. IInv' /\ FreshInv' /\ \A d \in Ids : dl[d].rel # None => dl'[d].rel = dl[d].rel
  BY NextInv, FreshStep DEF PlacingInv
<1>2. /\ \A p \in Paths : lib[p] # None => lib[p] \in Ids \cup {p} /\ Fits(content[lib[p]], p)
      /\ \A d \in Ids : content[d] # None =>
           /\ dl[d].state # "none" /\ dl[d].rel # None
           /\ \A p \in Paths : Fits(content[d], p) <=> Fits(dl[d].rel, p)
  BY DEF PlacingInv, PlacedInv, IInv, DownloadInv
<1>3. /\ \A p \in Paths : lib'[p] # None => lib'[p] \in Ids \cup {p} /\ Fits(content'[lib'[p]], p)
      /\ \A d \in Ids : content'[d] # None =>
           dl[d].rel # None /\ \A p \in Paths : Fits(content'[d], p) <=> Fits(dl[d].rel, p)
  <2>1. CASE UNCHANGED diskVars
    BY <1>2, <2>1 DEF diskVars
  <2>2. ASSUME NEW c \in Ids, DownloadFinishes(c)
        PROVE  /\ \A p \in Paths : lib'[p] # None =>
                    lib'[p] \in Ids \cup {p} /\ Fits(content'[lib'[p]], p)
               /\ \A d \in Ids : content'[d] # None =>
                    dl[d].rel # None /\ \A p \in Paths : Fits(content'[d], p) <=> Fits(dl[d].rel, p)
    <3>1. content' = [content EXCEPT ![c] = dl[c].rel] /\ lib' = lib /\ dl[c].state = "active"
      BY <2>2 DEF DownloadFinishes
    <3>2. dl[c].rel \in Releases
      BY <3>1 DEF PlacingInv, IInv, DownloadInv
    <3>3. /\ content'[c] = dl[c].rel
          /\ \A j \in Inodes : j # c => content'[j] = content[j]
      BY <3>1 DEF PlacingInv, IInv, TypeOK, Inodes
    <3>4. \A p \in Paths : lib[p] # None => lib[p] \in Inodes /\ content[lib[p]] # None
      BY DEF PlacingInv, IInv, TypeOK, LibraryInv
    <3>5. \A p \in Paths : lib[p] = c /\ lib[p] # None => Fits(dl[c].rel, p)
      BY <1>2, <3>4
    <3>6. \A p \in Paths : lib'[p] # None => lib'[p] \in Ids \cup {p} /\ Fits(content'[lib'[p]], p)
      BY <1>2, <3>1, <3>3, <3>4, <3>5
    <3>7. QED
      BY <1>2, <3>2, <3>3, <3>6 DEF Inodes
  <2>3. ASSUME NEW w \in Workers, Place(w)
        PROVE  /\ \A p \in Paths : lib'[p] # None =>
                    lib'[p] \in Ids \cup {p} /\ Fits(content'[lib'[p]], p)
               /\ \A d \in Ids : content'[d] # None =>
                    dl[d].rel # None /\ \A p \in Paths : Fits(content'[d], p) <=> Fits(dl[d].rel, p)
    <3> DEFINE r == job[w].item
    <3>1. r \in Releases
      BY <2>3 DEF Place, PlacingInv, IInv, JobInv
    <3>2. PICK e \in Picked(r, mem[w][r]) : Verified(r, e) /\ Transfer(e, DestOf(r, e))
      BY <2>3 DEF Place
    <3>3. e \in Ids /\ content[e] # None /\ DestOf(r, e) \in Paths
      BY <3>1, <3>2, PickedFile DEF PlacingInv
    <3>4. BookOf[r] \in Books /\ Fits(dl[e].rel, DestOf(r, e))
      BY <3>1, <3>2 DEF Verified, DestOf, Fits
    <3>5. Fits(content[e], DestOf(r, e))
      BY <1>2, <3>3, <3>4
    <3>6. /\ \A q \in Paths : lib'[q] # None =>
               lib'[q] \in Ids \cup {q} /\ Fits(content'[lib'[q]], q)
          /\ \A d \in Ids : content'[d] # None =>
               /\ content[d] # None
               /\ \A q \in Paths : Fits(content'[d], q) <=> Fits(content[d], q)
      BY <3>2, <3>3, <3>5, TransferFits DEF PlacingInv
    <3>7. QED
      BY <1>2, <3>6
  <2>4. QED
    BY <2>1, <2>2, <2>3, DiskSteps
<1>4. \A d \in Ids : content'[d] # None => dl'[d].state # "none"
  BY <1>1, <1>3 DEF FreshInv
<1>5. \A p \in Paths : files'[p] # None => Fits(files'[p], p)
  <2>1. ASSUME NEW w \in Workers, Record(w) PROVE \A p \in Paths : files'[p] # None => Fits(files'[p], p)
    <3> DEFINE t == job[w].path
    <3>1. files' = [files EXCEPT ![t] = content[lib[t]]]
      BY <2>1 DEF Record
    <3>2. t \in Paths /\ lib[t] # None
      BY <2>1, PlacedFile DEF Record, PlacingInv
    <3>3. Fits(content[lib[t]], t)
      BY <1>2, <3>2
    <3> HIDE DEF t
    <3>4. files \in [Paths -> Releases \cup {None}]
      BY DEF PlacingInv, IInv, TypeOK
    <3>5. QED
      BY <3>1, <3>2, <3>3, <3>4 DEF PlacingInv, PlacedInv
  <2>2. QED
    BY <2>1, FilesSteps DEF PlacingInv, PlacedInv
<1>6. PlacedInv'
  BY <1>1, <1>3, <1>4, <1>5 DEF PlacedInv
<1>7. QED
  BY <1>1, <1>6 DEF PlacingInv

LEMMA PlacingInvariance ==
  ASSUME PathsApart
  PROVE  Spec => []PlacingInv
<1>1. Init => PlacingInv
  <2>1. Init => FreshInv /\ PlacedInv
    BY DEF Init, FreshInv, PlacedInv, NoDownload, Inodes
  <2>2. QED
    BY <2>1, InitIInv DEF PlacingInv
<1>2. PlacingInv /\ [Next]_vars => PlacingInv'
  BY PlacingStep
<1>3. QED
  BY <1>1, <1>2, PTL DEF Spec

OneReleasePerPath ==
  \A p \in Paths, x, y \in Releases : Fits(x, p) /\ Fits(y, p) => x = y

\* The sha256 in a files row stays that of the file at its path, whoever
\* imports what, as often as it may be, in every import mode: when no two
\* releases fit one path, nobody writes other bytes there.
THEOREM RowsMatchDisk == OneReleasePerPath /\ Spec => []RowMatchesDisk
<1> SUFFICES ASSUME OneReleasePerPath PROVE Spec => []RowMatchesDisk
  OBVIOUS
<1>1. PathsApart
  BY DEF OneReleasePerPath, PathsApart
<1>2. Spec => []PlacingInv
  BY <1>1, PlacingInvariance
<1>3. PlacingInv => RowMatchesDisk
  <2> SUFFICES ASSUME PlacingInv, NEW p \in Paths, files[p] # None PROVE content[lib[p]] = files[p]
    BY DEF RowMatchesDisk
  <2>1. lib[p] # None /\ files[p] \in Releases
    BY DEF PlacingInv, IInv, TypeOK, FileRowHasFile
  <2>2. content[lib[p]] \in Releases
    BY <2>1 DEF PlacingInv, IInv, TypeOK, LibraryInv
  <2>3. Fits(content[lib[p]], p) /\ Fits(files[p], p)
    BY <2>1 DEF PlacingInv, PlacedInv
  <2>4. QED
    BY <2>1, <2>2, <2>3 DEF OneReleasePerPath
<1>4. QED
  BY <1>2, <1>3, PTL

NamesVerifyOwn ==
  /\ \A b \in Books, r \in Releases : <<b, r>> \in Verifies => BookOf[r] = b
  /\ \A b, c \in Books, f, g \in Formats : Dest[b][f] = Dest[c][g] => b = c

\* What a files row records under a book's path is a release queued for that
\* book, even when several releases of it are imported over one another or
\* the client shares one directory: as long as a name verifies only for the
\* book it was queued for.
THEOREM ImportedIsTheQueuedBook == NamesVerifyOwn /\ Spec => []ImportedIsQueuedBook
<1> SUFFICES ASSUME NamesVerifyOwn PROVE Spec => []ImportedIsQueuedBook
  OBVIOUS
<1>1. \A x \in Releases, p \in Paths : Fits(x, p) <=>
        p = Dest[BookOf[x]][FormatOf[x]] /\ <<BookOf[x], x>> \in Verifies
  BY ConstantsAssumption DEF NamesVerifyOwn, Fits
<1>2. PathsApart
  BY <1>1 DEF PathsApart
<1>3. Spec => []PlacingInv
  BY <1>2, PlacingInvariance
<1>4. PlacingInv => ImportedIsQueuedBook
  <2> SUFFICES ASSUME PlacingInv, NEW b \in Books, NEW f \in Formats, files[Dest[b][f]] # None
               PROVE  BookOf[files[Dest[b][f]]] = b
    BY DEF ImportedIsQueuedBook
  <2> DEFINE p == Dest[b][f]
             x == files[p]
  <2>1. p \in Paths /\ x \in Releases
    BY ConstantsAssumption DEF PlacingInv, IInv, TypeOK
  <2>2. Fits(x, p)
    BY <2>1 DEF PlacingInv, PlacedInv
  <2>3. p = Dest[BookOf[x]][FormatOf[x]]
    BY <1>1, <2>1, <2>2
  <2>4. QED
    BY <2>1, <2>3, ConstantsAssumption DEF NamesVerifyOwn
<1>5. QED
  BY <1>3, <1>4, PTL

-----------------------------------------------------------------------------
(* One process: the rows follow the queue's state machine.                 *)

OneProcess == \A v, w \in Workers : v = w

\* What a worker has pending or still to do is about rows whose committed
\* status is the one it read: queued while it grabs, downloading after.
Solo(w) ==
  /\ pc[w] \in {"idle", "poll", "log"} => \A r \in Releases : dirty[w][r] = "clean"
  /\ pc[w] = "grab" => \A r \in Releases :
       /\ r \in todo[w] => status[r] = "queued" /\ dirty[w][r] = "clean"
       /\ dirty[w][r] # "clean" => status[r] = "queued" /\ dirty[w][r] \in {"downloading", "failed"}
  /\ pc[w] \in {"scan", "locate", "record", "log"} => \A r \in Releases :
       /\ r \in todo[w] => status[r] = "downloading" /\ dirty[w][r] = "clean"
       /\ dirty[w][r] # "clean" => status[r] = "downloading" /\ dirty[w][r] \in {"importing", "failed"}
  /\ pc[w] \in {"locate", "record"} => dirty[w][job[w].item] = "importing"

SoloInv == \A w \in Workers : Solo(w)

\* The rows a step leaves are ones the state machine allows.
Follows == \A r \in Releases : status'[r] \in Lifecycle!Reachable(status[r])

LEMMA StayFollows == ASSUME TypeOK, status' = status PROVE Follows
<1>1. \A s \in Statuses : s \in Lifecycle!Reachable(s)
  BY DEF Statuses, Lifecycle!Reachable
<1>2. QED
  BY <1>1 DEF Follows, TypeOK

\* A commit whose rows may become what it writes follows the state machine.
LEMMA CommitFollows ==
  ASSUME TypeOK, NEW w \in Workers, NEW d, Commit(w, d),
         \A r \in Releases : d[r] # "clean" => d[r] \in Lifecycle!Reachable(status[r])
  PROVE  Follows /\ \A r \in Releases : dirty'[w][r] = "clean"
<1>1. \A s \in Statuses : s \in Lifecycle!Reachable(s)
  BY DEF Statuses, Lifecycle!Reachable
<1>2. \A r \in Releases : status'[r] = IF d[r] = "clean" THEN status[r] ELSE d[r]
  BY DEF Commit
<1>3. \A r \in Releases : dirty'[w][r] = "clean"
  BY DEF Commit, Clean, TypeOK
<1>4. QED
  BY <1>1, <1>2, <1>3 DEF Follows, TypeOK

\* So does one of what a worker has pending.
LEMMA PendingFollows ==
  ASSUME TypeOK, NEW w \in Workers, Solo(w), pc[w] # "log"
  PROVE  \A r \in Releases : dirty[w][r] # "clean" => dirty[w][r] \in Lifecycle!Reachable(status[r])
<1>1. Lifecycle!Reachable("queued") = {"queued", "downloading", "failed"}
      /\ Lifecycle!Reachable("downloading") = {"downloading", "importing", "imported", "failed"}
  BY DEF Lifecycle!Reachable
<1>2. pc[w] \in {"idle", "grab", "poll", "scan", "locate", "record", "log"}
  BY DEF TypeOK
<1>3. QED
  BY <1>1, <1>2 DEF Solo

LEMMA SoloQuit ==
  ASSUME TypeOK, NEW w \in Workers, Quit(w)
  PROVE  Solo(w)' /\ Follows
<1>1. pc'[w] = "idle" /\ (\A r \in Releases : dirty'[w][r] = "clean") /\ status' = status
  BY DEF Quit, Closed, Clean, TypeOK, dbVars
<1>2. QED
  BY <1>1, StayFollows DEF Solo

\* The grabs of one process.
LEMMA SoloGrab ==
  ASSUME IInv, NEW w \in Workers, Solo(w), Start(w) \/ Grab(w)
  PROVE  Solo(w)' /\ Follows
<1> USE DEF IInv
<1>1. CASE Start(w)
  <2>1. /\ pc'[w] = "grab" /\ \A r \in todo'[w] : status[r] = "queued"
        /\ status' = status /\ dirty' = dirty /\ pc[w] = "idle"
    BY <1>1 DEF Start, Grabbable, TypeOK, dbVars
  <2>2. QED
    BY <2>1, StayFollows DEF Solo
<1>2. ASSUME NEW r \in Releases, NEW s \in {"downloading", "failed"}, pc[w] = "grab",
             Handled(w, r), Pending(w, r, s), UNCHANGED <<status, pc>>
      PROVE  Solo(w)' /\ Follows
  <2>1. /\ dirty'[w][r] = s /\ \A q \in Releases : q # r => dirty'[w][q] = dirty[w][q]
        /\ r \in todo[w] /\ todo'[w] = todo[w] \ {r} /\ pc'[w] = "grab" /\ status' = status
    BY <1>2 DEF Pending, Handled, TypeOK
  <2>2. QED
    BY <1>2, <2>1, StayFollows DEF Solo
<1>3. CASE GrabCommit(w)
  <2>1. pc[w] = "grab" /\ Commit(w, dirty[w]) /\ pc'[w] = "poll"
    BY <1>3 DEF GrabCommit, TypeOK
  <2>2. Follows /\ \A r \in Releases : dirty'[w][r] = "clean"
    BY <2>1, PendingFollows, CommitFollows
  <2>3. QED
    BY <2>1, <2>2 DEF Solo
<1>4. QED
  BY <1>1, <1>2, <1>3 DEF Grab, AddUrl, AddLost, AddRefused, dbVars

\* What one process watches.
LEMMA SoloWatch ==
  ASSUME IInv, NEW w \in Workers, Solo(w), Watch(w)
  PROVE  Solo(w)' /\ Follows
<1> USE DEF IInv
<1>1. ASSUME NEW c \in Clients, PollDead(w, c) PROVE Solo(w)' /\ Follows
  BY <1>1, StayFollows DEF PollDead, Solo, dbVars
<1>2. ASSUME NEW c \in Clients, PollOk(w, c) PROVE Solo(w)' /\ Follows
  <2>1. /\ pc[w] = "poll" /\ pc'[w] = "scan" /\ dirty' = dirty /\ status' = status
        /\ \A r \in todo'[w] : status[r] = "downloading"
    BY <1>2 DEF PollOk, Active, TypeOK, dbVars
  <2>2. QED
    BY <2>1, StayFollows DEF Solo
<1>3. ASSUME NEW r \in Releases, SkipItem(w, r) PROVE Solo(w)' /\ Follows
  <2>1. /\ pc[w] = "scan" /\ pc' = pc /\ dirty' = dirty /\ status' = status
        /\ todo'[w] = todo[w] \ {r}
    BY <1>3 DEF SkipItem, Handled, TypeOK, dbVars
  <2>2. QED
    BY <2>1, StayFollows DEF Solo
<1>4. ASSUME NEW r \in Releases, NEW s \in {"failed", "importing"}, pc[w] = "scan",
             Handled(w, r), Pending(w, r, s), status' = status,
             \/ pc'[w] = "scan"
             \/ pc'[w] = "locate" /\ s = "importing" /\ job'[w].item = r
      PROVE  Solo(w)' /\ Follows
  <2>1. /\ dirty'[w][r] = s /\ \A q \in Releases : q # r => dirty'[w][q] = dirty[w][q]
        /\ r \in todo[w] /\ todo'[w] = todo[w] \ {r}
    BY <1>4 DEF Pending, Handled, TypeOK
  <2>2. QED
    BY <1>4, <2>1, StayFollows DEF Solo
<1>5. ASSUME NEW r \in Releases, ErrorItem(w, r) PROVE Solo(w)' /\ Follows
  BY <1>4, <1>5 DEF ErrorItem, dbVars
<1>6. ASSUME NEW r \in Releases, BeginImport(w, r) PROVE Solo(w)' /\ Follows
  <2>1. pc'[w] = "locate" /\ job'[w].item = r /\ status' = status
    BY <1>6 DEF BeginImport, TypeOK, dbVars
  <2>2. QED
    BY <1>4, <1>6, <2>1 DEF BeginImport
<1>7. CASE WatchCommit(w)
  <2>1. pc[w] = "scan" /\ Commit(w, dirty[w]) /\ pc'[w] = "poll"
    BY <1>7 DEF WatchCommit, TypeOK
  <2>2. Follows /\ \A r \in Releases : dirty'[w][r] = "clean"
    BY <2>1, PendingFollows, CommitFollows
  <2>3. QED
    BY <2>1, <2>2 DEF Solo
<1>8. CASE WatchDone(w)
  BY <1>8, SoloQuit DEF WatchDone
<1>9. QED
  BY <1>1, <1>2, <1>3, <1>5, <1>6, <1>7, <1>8 DEF Watch

\* Its imports.
LEMMA SoloImport ==
  ASSUME IInv, NEW w \in Workers, Solo(w), Import(w)
  PROVE  Solo(w)' /\ Follows
<1> USE DEF IInv
<1>1. CASE Place(w)
  <2>1. /\ pc[w] = "locate" /\ pc'[w] = "record" /\ job'[w].item = job[w].item
        /\ UNCHANGED <<status, todo, dirty>>
    BY <1>1 DEF Place, TypeOK, dbVars
  <2>2. QED
    BY <2>1, StayFollows DEF Solo
<1>2. CASE Reject(w) \/ Record(w)
  <2>1. PICK s \in {"failed", "imported"} : Commit(w, [dirty[w] EXCEPT ![job[w].item] = s])
    BY <1>2 DEF Reject, Record, Rejected
  <2> DEFINE d == [dirty[w] EXCEPT ![job[w].item] = s]
             r == job[w].item
  <2>2. /\ pc[w] \in {"locate", "record"} /\ pc'[w] = "log" /\ todo' = todo /\ r \in Releases
    BY <1>2 DEF Reject, Record, TypeOK, JobInv
  <2>3. dirty[w] \in [Releases -> DirtyStates] /\ dirty[w][r] = "importing"
    BY <2>2 DEF TypeOK, DirtyStates, Solo
  <2>4. d[r] = s /\ \A q \in Releases : q # r => d[q] = dirty[w][q]
    BY <2>2, <2>3
  <2>5. status[r] = "downloading" /\ r \notin todo[w]
    BY <2>2, <2>3 DEF Solo
  <2>6. \A q \in Releases : d[q] # "clean" => d[q] \in Lifecycle!Reachable(status[q])
    <3>1. s \in Lifecycle!Reachable("downloading")
      BY DEF Lifecycle!Reachable
    <3>2. QED
      BY <2>2, <2>4, <2>5, <3>1, PendingFollows
  <2> HIDE DEF d
  <2>7. Follows /\ \A q \in Releases : dirty'[w][q] = "clean"
    BY <2>1, <2>6, CommitFollows DEF d
  <2>8. \A q \in todo[w] : status'[q] = status[q]
    <3>1. todo[w] \subseteq Releases
      BY DEF TypeOK
    <3>2. \A q \in todo[w] : d[q] = "clean"
      BY <2>2, <2>4, <2>5, <3>1 DEF Solo
    <3>3. QED
      BY <2>1, <3>1, <3>2 DEF Commit, d
  <2>9. QED
    BY <2>2, <2>7, <2>8 DEF Solo
<1>3. CASE RecordConflict(w)
  BY <1>3, SoloQuit DEF RecordConflict
<1>4. CASE Log(w)
  <2>1. pc[w] = "log" /\ pc'[w] = "scan" /\ UNCHANGED <<status, todo, dirty>>
    BY <1>4 DEF Log, TypeOK
  <2>2. QED
    BY <2>1, StayFollows DEF Solo
<1>5. QED
  BY <1>1, <1>2, <1>3, <1>4 DEF Import

LEMMA SoloFault ==
  ASSUME IInv, NEW w \in Workers, Solo(w), Fault(w)
  PROVE  Solo(w)' /\ Follows
<1> USE DEF IInv
<1>1. CASE GrabEscapes(w)
  <2>1. pc[w] = "grab" /\ Commit(w, dirty[w]) /\ pc'[w] = "idle"
    BY <1>1 DEF GrabEscapes, Closed, TypeOK
  <2>2. Follows /\ \A r \in Releases : dirty'[w][r] = "clean"
    BY <2>1, PendingFollows, CommitFollows
  <2>3. QED
    BY <2>1, <2>2 DEF Solo
<1>2. CASE HookRaises(w)
  <2> DEFINE r == job[w].item
  <2>1. /\ pc[w] \in {"locate", "record"} /\ pc'[w] = "scan" /\ UNCHANGED <<status, todo>>
        /\ r \in Releases /\ Pending(w, r, "failed")
    BY <1>2 DEF HookRaises, JobInv, TypeOK, dbVars
  <2>2. dirty'[w][r] = "failed" /\ \A q \in Releases : q # r => dirty'[w][q] = dirty[w][q]
    BY <2>1 DEF Pending, TypeOK
  <2>3. dirty[w][r] = "importing" /\ status[r] = "downloading" /\ r \notin todo[w]
    BY <2>1 DEF Solo
  <2>4. QED
    BY <2>1, <2>2, <2>3, StayFollows DEF Solo
<1>3. QED
  BY <1>1, <1>2, SoloQuit DEF Fault, LockTimeout, Abort

\* A release that gets its row is none a process has read.
LEMMA SoloOther ==
  ASSUME IInv, NEW w \in Workers, Solo(w),
         \/ UNCHANGED vars
         \/ \E r \in Releases : Enqueue(r)
         \/ \E d \in Ids : DownloadFinishes(d) \/ DownloadErrors(d)
  PROVE  Solo(w)'
<1>1. UNCHANGED <<pc, todo, dirty, job>>
  BY DEF vars, Enqueue, DownloadFinishes, DownloadErrors, workVars
<1>2. \A q \in Releases : status[q] # "absent" => status'[q] = status[q]
  BY DEF vars, Enqueue, DownloadFinishes, DownloadErrors, dbVars, IInv, TypeOK
<1>3. todo[w] \subseteq Releases
  BY DEF IInv, TypeOK
<1>4. QED
  BY <1>1, <1>2, <1>3 DEF Solo

LEMMA OtherFollows ==
  ASSUME IInv,
         \/ UNCHANGED vars
         \/ \E r \in Releases : Enqueue(r)
         \/ \E d \in Ids : DownloadFinishes(d) \/ DownloadErrors(d)
  PROVE  Follows
<1>1. CASE status' = status
  BY <1>1, StayFollows DEF IInv
<1>2. ASSUME NEW r \in Releases, Enqueue(r) PROVE Follows
  <2>1. \A s \in Statuses : s \in Lifecycle!Reachable(s)
    BY DEF Statuses, Lifecycle!Reachable
  <2>2. status[r] = "absent" /\ status' = [status EXCEPT ![r] = "queued"]
    BY <1>2 DEF Enqueue
  <2>3. "queued" \in Lifecycle!Reachable("absent")
    BY DEF Lifecycle!Reachable
  <2>4. QED
    BY <2>1, <2>2, <2>3 DEF Follows, IInv, TypeOK
<1>3. QED
  BY <1>1, <1>2 DEF vars, dbVars, DownloadFinishes, DownloadErrors

LEMMA SoloStep ==
  ASSUME OneProcess, IInv, SoloInv, [Next]_vars
  PROVE  SoloInv' /\ Follows
<1>1. ASSUME NEW w \in Workers, Cycle(w) \/ Fault(w) PROVE SoloInv' /\ Follows
  <2>1. Solo(w)' /\ Follows
    BY <1>1, SoloGrab, SoloWatch, SoloImport, SoloFault DEF Cycle, SoloInv
  <2>2. \A v \in Workers : v = w
    BY DEF OneProcess
  <2>3. QED
    BY <2>1, <2>2 DEF SoloInv
<1>2. CASE \/ UNCHANGED vars
           \/ \E r \in Releases : Enqueue(r)
           \/ \E d \in Ids : DownloadFinishes(d) \/ DownloadErrors(d)
  BY <1>2, SoloOther, OtherFollows DEF SoloInv
<1>3. QED
  BY <1>1, <1>2 DEF Next

\* With one process the committed rows follow the queue's state machine: every
\* step of DownloadWatch is a step of QueueLifecycle or leaves its rows alone.
THEOREM LifecycleImplemented == OneProcess /\ Spec => LifecycleSpec
<1> SUFFICES ASSUME OneProcess PROVE Spec => LifecycleSpec
  OBVIOUS
<1>1. Init => Lifecycle!Init /\ IInv /\ SoloInv
  BY InitIInv DEF Init, Lifecycle!Init, SoloInv, Solo
<1>2. IInv /\ SoloInv /\ [Next]_vars => IInv' /\ SoloInv'
  BY NextInv, SoloStep
<1>3. IInv /\ SoloInv /\ [Next]_vars => [Lifecycle!Next]_status
  <2> SUFFICES ASSUME IInv, SoloInv, [Next]_vars PROVE Lifecycle!Next
    OBVIOUS
  <2>1. status' \in [Releases -> Lifecycle!Statuses]
    BY NextInv DEF IInv, TypeOK, Statuses, Lifecycle!Statuses
  <2>2. QED
    BY <2>1, SoloStep DEF Follows, Lifecycle!Next, Lifecycle!Commit
<1>4. QED
  BY <1>1, <1>2, <1>3, PTL DEF Spec, LifecycleSpec, Lifecycle!Spec

-----------------------------------------------------------------------------
(* One process: what a release is downloaded again for.                    *)

Downloads(r) == {d \in Ids : dl[d].rel = r}

\* No grab of r is recorded, in its row or in a Session.
Ungrabbed(r) == status[r] \in {"absent", "queued"} /\ \A w \in Workers : dirty[w][r] = "clean"

\* A release nobody has grabbed was only downloaded when a fault lost the
\* record of it, and one that has was downloaded once more at most.
GrabInv ==
  \A r \in Releases :
    /\ IsFiniteSet(Downloads(r))
    /\ Cardinality(Downloads(r)) <= 1 + faults
    /\ Ungrabbed(r) => Cardinality(Downloads(r)) <= faults

\* Without a fault the record of a grab is not lost: it stays pending until
\* the commit that writes it, and nobody else holds the write lock.
LEMMA GrabKept ==
  ASSUME OneProcess, IInv, SoloInv, [Next]_vars, faults' = faults,
         NEW r \in Releases, Ungrabbed(r)'
  PROVE  Ungrabbed(r)
<1> USE DEF IInv
<1>1. status[r] \in {"absent", "queued"}
  <2>1. status'[r] \in Lifecycle!Reachable(status[r]) /\ status[r] \in Statuses
    BY SoloStep DEF Follows, TypeOK
  <2>2. QED
    BY <2>1 DEF Ungrabbed, Statuses, Lifecycle!Reachable
<1>2. SUFFICES ASSUME NEW w \in Workers, dirty[w][r] # "clean" PROVE FALSE
  BY <1>1 DEF Ungrabbed
<1>3. pc[w] = "grab" /\ dirty[w][r] \in {"downloading", "failed"} /\ r \notin todo[w]
  <2>1. pc[w] \in {"idle", "grab", "poll", "scan", "locate", "record", "log"}
    BY DEF TypeOK
  <2>2. QED
    BY <1>1, <1>2, <2>1 DEF SoloInv, Solo
<1>4. dirty'[w][r] = "clean"
  BY DEF Ungrabbed
<1>5. faults \in Nat /\ faults' # faults + 1
  BY DEF TypeOK
<1>6. CASE dirty' = dirty
  BY <1>2, <1>4, <1>6
<1>7. ASSUME NEW q \in Releases, NEW s \in {"downloading", "failed"}, Pending(w, q, s) PROVE FALSE
  BY <1>2, <1>4, <1>7 DEF Pending, TypeOK
<1>8. CASE GrabCommit(w)
  BY <1>3, <1>8 DEF GrabCommit, Commit, Ungrabbed
<1>9. CASE LockTimeout(w)
  BY <1>9, ConstantsAssumption DEF LockTimeout, CanFlush, OneProcess, TypeOK
<1>10. ASSUME Cycle(w) PROVE FALSE
  BY <1>3, <1>6, <1>7, <1>8, <1>10
     DEF Cycle, Start, Grab, AddUrl, AddLost, AddRefused, Watch, PollDead, PollOk, SkipItem,
         ErrorItem, BeginImport, WatchCommit, WatchDone, Import, Place, Reject, Record,
         RecordConflict, Log
<1>11. ASSUME Fault(w) PROVE FALSE
  BY <1>3, <1>5, <1>9, <1>11 DEF Fault, GrabEscapes, HookRaises, Abort
<1>12. CASE \/ UNCHANGED vars
            \/ \E q \in Releases : Enqueue(q)
            \/ \E d \in Ids : DownloadFinishes(d) \/ DownloadErrors(d)
  BY <1>6, <1>12 DEF vars, Enqueue, DownloadFinishes, DownloadErrors, workVars
<1>13. QED
  BY <1>10, <1>11, <1>12 DEF Next, OneProcess

\* Faults only grow.
LEMMA FaultsGrow == ASSUME IInv, [Next]_vars PROVE faults' \in Nat /\ faults \in Nat /\ faults' \in {faults, faults + 1}
<1>1. ASSUME NEW w \in Workers, Cycle(w) PROVE faults' = faults
  BY <1>1 DEF Cycle, Start, Grab, AddUrl, AddLost, AddRefused, GrabCommit, Watch, PollDead,
              PollOk, SkipItem, ErrorItem, BeginImport, WatchCommit, WatchDone, Import, Place,
              Reject, Record, RecordConflict, Log
<1>2. ASSUME NEW w \in Workers, Fault(w) PROVE faults' \in {faults, faults + 1}
  BY <1>2 DEF Fault, GrabEscapes, HookRaises, LockTimeout, Abort
<1>3. ASSUME \/ UNCHANGED vars
             \/ \E q \in Releases : Enqueue(q)
             \/ \E d \in Ids : DownloadFinishes(d) \/ DownloadErrors(d)
      PROVE  faults' = faults
  BY <1>3 DEF vars, workVars, Enqueue, DownloadFinishes, DownloadErrors
<1>4. faults' \in {faults, faults + 1}
  BY <1>1, <1>2, <1>3 DEF Next
<1>5. QED
  BY <1>4 DEF IInv, TypeOK

LEMMA GrabStep ==
  ASSUME OneProcess, IInv, FreshInv, SoloInv, GrabInv, [Next]_vars
  PROVE  GrabInv'
<1>1. faults' \in Nat /\ faults \in Nat /\ faults' \in {faults, faults + 1}
  BY FaultsGrow
<1>2. \A r \in Releases : Cardinality(Downloads(r)) \in Nat
  BY FS_CardinalityType DEF GrabInv
<1>3. ASSUME NEW r \in Releases, Downloads(r)' = Downloads(r)
      PROVE  /\ IsFiniteSet(Downloads(r))'
             /\ Cardinality(Downloads(r)') <= 1 + faults'
             /\ Ungrabbed(r)' => Cardinality(Downloads(r)') <= faults'
  <2>1. CASE faults' = faults
    BY <1>1, <1>3, <2>1, GrabKept DEF GrabInv
  <2>2. CASE faults' = faults + 1
    BY <1>1, <1>2, <1>3, <2>2 DEF GrabInv
  <2>3. QED
    BY <1>1, <2>1, <2>2
<1>4. ASSUME NEW w \in Workers, NEW q \in Releases, NEW d \in Ids,
             AddUrl(w, q, d) \/ AddLost(w, q, d), StartsDownload(q, d)
      PROVE  GrabInv'
  <2>1. dl' = [dl EXCEPT ![d] = [rel |-> q, client |-> GrabClient, state |-> "active"]] /\ dl[d].rel = None
    BY <1>4 DEF StartsDownload, FreshInv
  <2>2. \A c \in Ids : dl'[c].rel = IF c = d THEN q ELSE dl[c].rel
    BY <2>1 DEF IInv, TypeOK
  <2>3. \A r \in Releases : r # q => Downloads(r)' = Downloads(r)
    BY <2>1, <2>2, ConstantsAssumption DEF Downloads
  <2>4. Downloads(q)' = Downloads(q) \cup {d}
    BY <2>2 DEF Downloads
  <2>5. IsFiniteSet(Downloads(q)') /\ Cardinality(Downloads(q)') <= Cardinality(Downloads(q)) + 1
    <3>1. IsFiniteSet(Downloads(q)) /\ Cardinality(Downloads(q)) \in Nat
      BY <1>2 DEF GrabInv
    <3> DEFINE D == Downloads(q)
    <3>2. IsFiniteSet(D \cup {d}) /\ Cardinality(D \cup {d}) <= Cardinality(D) + 1
      <4> HIDE DEF D
      <4>1. /\ IsFiniteSet(D \cup {d})
            /\ \/ Cardinality(D \cup {d}) = Cardinality(D)
               \/ Cardinality(D \cup {d}) = Cardinality(D) + 1
        BY <3>1, FS_AddElement DEF D
      <4>2. Cardinality(D) \in Nat
        BY <3>1 DEF D
      <4>3. QED
        BY <4>1, <4>2
    <3>3. QED
      BY <2>4, <3>2
  <2>6. Ungrabbed(q)
    <3>1. pc[w] = "grab" /\ q \in todo[w]
      BY <1>4 DEF AddUrl, AddLost, Handled
    <3>2. status[q] = "queued" /\ dirty[w][q] = "clean"
      BY <3>1 DEF SoloInv, Solo
    <3>3. QED
      BY <3>2 DEF Ungrabbed, OneProcess
  <2>7. ~Ungrabbed(q)'
    <3>1. Pending(w, q, "downloading") \/ Pending(w, q, "failed")
      BY <1>4 DEF AddUrl, AddLost
    <3>2. dirty'[w][q] # "clean"
      BY <3>1 DEF Pending, IInv, TypeOK
    <3>3. QED
      BY <3>2 DEF Ungrabbed
  <2>8. /\ IsFiniteSet(Downloads(q)')
        /\ Cardinality(Downloads(q)') <= 1 + faults'
        /\ Ungrabbed(q)' => Cardinality(Downloads(q)') <= faults'
    <3>1. Cardinality(Downloads(q)) <= faults
      BY <2>6 DEF GrabInv
    <3>2. faults' = faults
      BY <1>4 DEF AddUrl, AddLost
    <3>3. Cardinality(Downloads(q)') \in Nat
      BY <2>5, FS_CardinalityType
    <3>4. QED
      BY <1>1, <1>2, <2>5, <2>7, <3>1, <3>2, <3>3
  <2>9. QED
    BY <1>3, <2>3, <2>8 DEF GrabInv
<1>5. CASE dl' = dl
  BY <1>3, <1>5 DEF GrabInv, Downloads
<1>6. ASSUME NEW d \in Ids, NEW s \in {"complete", "error"},
             dl[d].state = "active", dl' = [dl EXCEPT ![d].state = s]
      PROVE  GrabInv'
  <2>1. \A c \in Ids : dl'[c].rel = dl[c].rel
    BY <1>6 DEF IInv, TypeOK
  <2>2. \A r \in Releases : Downloads(r)' = Downloads(r)
    BY <2>1 DEF Downloads
  <2>3. QED
    BY <1>3, <2>2 DEF GrabInv
<1>7. QED
  BY <1>4, <1>5, <1>6, DownloadSteps

\* With one process a release is downloaded again at most once for every crash
\* or escaped exception, for any number of releases, ids and clients: no lock
\* timeout, lost answer or failed poll forgets a grab.
THEOREM GrabsAreBounded == OneProcess /\ Spec => []GrabsBounded
<1> SUFFICES ASSUME OneProcess PROVE Spec => []GrabsBounded
  OBVIOUS
<1> DEFINE Inv == IInv /\ FreshInv /\ SoloInv /\ GrabInv
<1>1. Init => Inv
  <2> SUFFICES ASSUME Init PROVE Inv
    OBVIOUS
  <2>1. IInv /\ FreshInv /\ SoloInv
    BY InitIInv DEF Init, FreshInv, SoloInv, Solo, NoDownload
  <2>2. \A r \in Releases : Downloads(r) = {}
    BY ConstantsAssumption DEF Init, Downloads, NoDownload
  <2>3. faults = 0
    BY DEF Init
  <2>4. IsFiniteSet({}) /\ Cardinality({}) = 0
    BY FS_EmptySet
  <2>5. \A r \in Releases : IsFiniteSet(Downloads(r)) /\ Cardinality(Downloads(r)) = 0
    BY <2>2, <2>4
  <2>6. GrabInv
    BY <2>3, <2>5 DEF GrabInv
  <2>7. QED
    BY <2>1, <2>6
<1>2. Inv /\ [Next]_vars => Inv'
  BY NextInv, FreshStep, SoloStep, GrabStep
<1>3. Inv => GrabsBounded
  BY DEF GrabInv, GrabsBounded, Downloads
<1>4. QED
  BY <1>1, <1>2, <1>3, PTL DEF Spec
=============================================================================
