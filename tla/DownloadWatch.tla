---------------------------- MODULE DownloadWatch ----------------------------
(***************************************************************************)
(* The acquisition core: tasks/download_watch.py (process_queue) with its  *)
(* import hook, acquisition/import_pipeline.py, run by one or more         *)
(* monitoring processes (scheduler_loop) over one SQLite database, one     *)
(* library directory and the download clients.                             *)
(*                                                                         *)
(* A worker's Session is kept apart from the committed rows: mem is its    *)
(* identity map, dirty its unflushed or uncommitted writes.  A flush takes *)
(* SQLite's single write lock (writer) and the commit gives it back.  A    *)
(* failed flush deactivates the Session, nothing in the code calls         *)
(* rollback(), so the rest of the cycle raises: Quit.                      *)
(*                                                                         *)
(* A definition named Slip... is the mistake a maintainer could make in    *)
(* the definition that follows it; no action uses it.                      *)
(***************************************************************************)
EXTENDS Naturals, FiniteSets

CONSTANTS
  Releases,    \* rows of queue_items, named by release_guid
  Books,       \* the books the releases were queued for
  Formats,     \* ebook formats
  Paths,       \* destination paths in the library
  Ids,         \* download ids the clients hand out: bounds the downloads
  Clients,     \* the enabled download_clients rows
  Workers,     \* processes running scheduler_loop
  BookOf,      \* the book a release was queued for
  FormatOf,    \* the format of a release
  Manual,      \* releases queued with manual = True (bookmarks)
  Dest,        \* render_template: the path of a book in a format
  Verifies,    \* <<book, release>>: the release's file passes _verify
  FirstRow,    \* the client row the unordered SELECT returns first
  ReadsBack,   \* clients whose add_url reads the id back from the queue
  SharedDir,   \* clients that report one save path for every download
  Mode,        \* settings.import_mode
  SameVolume,  \* downloads and library are on one filesystem
  MaxFaults,   \* bound on crashes and escaping exceptions
  None,        \* no value
  Unheld       \* the Session holds no instance of the row

ASSUME ConstantsAssumption ==
  /\ BookOf \in [Releases -> Books]
  /\ FormatOf \in [Releases -> Formats]
  /\ Dest \in [Books -> [Formats -> Paths]]
  /\ Verifies \subseteq Books \X Releases
  /\ FirstRow \in Clients
  /\ Mode \in {"hardlink", "copy", "move"}
  /\ MaxFaults \in Nat
  /\ None \notin Ids \cup Paths \cup Releases \cup Workers \cup Clients
  /\ Unheld \notin Ids \cup {None}
  /\ Ids \cap Paths = {}

VARIABLES
  \* committed rows
  status,   \* queue_items.status, "absent" before the row exists
  cid,      \* queue_items.client_download_id
  files,    \* files rows: path -> the release whose sha256 the row records
  events,   \* history_events: <<kind, release>>
  \* the download clients and the disk
  dl,       \* id -> the download behind it
  lib,      \* library path -> the inode it links to
  content,  \* inode -> the release whose bytes it holds
  \* SQLite's write lock
  writer,
  faults,   \* crashes and escaping exceptions so far
  \* one monitoring cycle of each worker
  pc, todo, rows, mem, dirty, seen, job

dbVars   == <<status, cid, files, events>>
diskVars == <<lib, content>>
workVars == <<pc, todo, rows, mem, dirty, seen, job>>
vars == <<dbVars, dl, diskVars, writer, faults, workVars>>

-----------------------------------------------------------------------------
Statuses   == {"absent", "queued", "downloading", "importing", "imported", "failed"}
DlStates   == {"none", "active", "complete", "error"}
Inodes     == Ids \cup Paths    \* a download's file is its id's, a copy the path's
NoDownload == [rel |-> None, client |-> None, state |-> "none"]
NoJob      == [item |-> None, path |-> None]

Init ==
  /\ status = [r \in Releases |-> "absent"]
  /\ cid = [r \in Releases |-> None]
  /\ files = [p \in Paths |-> None]
  /\ events = {}
  /\ dl = [d \in Ids |-> NoDownload]
  /\ lib = [p \in Paths |-> None]
  /\ content = [i \in Inodes |-> None]
  /\ writer = None
  /\ faults = 0
  /\ pc = [w \in Workers |-> "idle"]
  /\ todo = [w \in Workers |-> {}]
  /\ rows = [w \in Workers |-> {}]
  /\ mem = [w \in Workers |-> [r \in Releases |-> Unheld]]
  /\ dirty = [w \in Workers |-> [r \in Releases |-> "clean"]]
  /\ seen = [w \in Workers |-> [d \in Ids |-> "none"]]
  /\ job = [w \in Workers |-> NoJob]

-----------------------------------------------------------------------------
(* The Session.                                                            *)

Dirty(w)    == {r \in Releases : dirty[w][r] # "clean"}
CanFlush(w) == writer \in {None, w}

Clean == [r \in Releases |-> "clean"]

SlipWritesEveryRow(w, d) == mem[w]
\* Only a grab writes the download id of a row.
IdsWritten(w, d) ==
  [r \in Releases |-> IF d[r] = "downloading" THEN mem[w][r] ELSE cid[r]]

\* session.commit() with the worker's pending rows being d: every one is
\* written, the last write wins (no version column), and the lock is free.
Commit(w, d) ==
  /\ \A r \in Releases : d[r] # "clean" => CanFlush(w)
  /\ status' = [r \in Releases |-> IF d[r] = "clean" THEN status[r] ELSE d[r]]
  /\ cid' = IdsWritten(w, d)
  /\ writer' = IF writer = w THEN None ELSE writer
  /\ dirty' = [dirty EXCEPT ![w] = Clean]

\* The cycle is over: the Session is closed and what it had not committed
\* is rolled back.
Closed(w) ==
  /\ pc' = [pc EXCEPT ![w] = "idle"]
  /\ todo' = [todo EXCEPT ![w] = {}]
  /\ rows' = [rows EXCEPT ![w] = {}]
  /\ mem' = [mem EXCEPT ![w] = [r \in Releases |-> Unheld]]
  /\ seen' = [seen EXCEPT ![w] = [d \in Ids |-> "none"]]
  /\ job' = [job EXCEPT ![w] = NoJob]

Quit(w) ==
  /\ Closed(w)
  /\ dirty' = [dirty EXCEPT ![w] = Clean]
  /\ writer' = IF writer = w THEN None ELSE writer
  /\ UNCHANGED <<dbVars, dl, diskVars>>

\* The rows a SELECT returns: an instance the Session already holds keeps
\* the attributes it has (expire_on_commit=False, no populate_existing).
Loaded(w, sel) ==
  [r \in Releases |-> IF r \in sel /\ mem[w][r] = Unheld THEN cid[r] ELSE mem[w][r]]

-----------------------------------------------------------------------------
(* Intake: rss_sync and search_now commit a new row and its grab event.    *)

Enqueue(r) ==
  /\ status[r] = "absent"
  /\ writer = None
  /\ status' = [status EXCEPT ![r] = "queued"]
  /\ events' = events \cup {<<"grab", r>>}
  /\ UNCHANGED <<cid, files, dl, diskVars, writer, faults, workVars>>

-----------------------------------------------------------------------------
(* Phase 1 of process_queue: hand the queued rows to a client.             *)

SlipGrabsAgain(r) == status[r] \in {"queued", "downloading"} /\ r \notin Manual
Grabbable(r) == status[r] = "queued" /\ r \notin Manual

Start(w) ==
  LET queued == {r \in Releases : Grabbable(r)} IN
  /\ pc[w] = "idle"
  /\ pc' = [pc EXCEPT ![w] = "grab"]
  /\ todo' = [todo EXCEPT ![w] = queued]
  /\ mem' = [mem EXCEPT ![w] = Loaded(w, queued)]
  /\ UNCHANGED <<dbVars, dl, diskVars, writer, faults, rows, dirty, seen, job>>

GrabClient == FirstRow

\* The client starts a download of r under the unused id d.
StartsDownload(r, d) ==
  /\ dl[d].state = "none"
  /\ dl' = [dl EXCEPT ![d] = [rel |-> r, client |-> GrabClient, state |-> "active"]]

\* Torrent clients answer a URL they already have with the torrent they have.
AlreadyHas(r, d) ==
  /\ dl[d].rel = r
  /\ dl[d].client = GrabClient
  /\ UNCHANGED dl

SlipAnyClientsId(d) == {e \in Ids : dl[e].state # "none"} \cup {d}
\* The id add_url answers: that one, or the first of the client's list.
Returned(d) ==
  IF GrabClient \in ReadsBack
  THEN {d} \cup {e \in Ids : dl[e].state # "none" /\ dl[e].client = GrabClient}
  ELSE {d}

Pending(w, r, s) == dirty' = [dirty EXCEPT ![w][r] = s]
Handled(w, r)    == r \in todo[w] /\ todo' = [todo EXCEPT ![w] = @ \ {r}]

AddUrl(w, r, d) ==
  /\ pc[w] = "grab"
  /\ Handled(w, r)
  /\ StartsDownload(r, d) \/ AlreadyHas(r, d)
  /\ \E e \in Returned(d) : mem' = [mem EXCEPT ![w][r] = e]
  /\ Pending(w, r, "downloading")
  /\ UNCHANGED <<dbVars, diskVars, writer, faults, pc, rows, seen, job>>

\* The client took the URL and its answer was lost: DownloadError.
AddLost(w, r, d) ==
  /\ pc[w] = "grab"
  /\ Handled(w, r)
  /\ StartsDownload(r, d)
  /\ Pending(w, r, "failed")
  /\ UNCHANGED <<dbVars, diskVars, writer, faults, pc, rows, mem, seen, job>>

\* The client refuses the URL, or the row has none.
AddRefused(w, r) ==
  /\ pc[w] = "grab"
  /\ Handled(w, r)
  /\ Pending(w, r, "failed")
  /\ UNCHANGED <<dbVars, dl, diskVars, writer, faults, pc, rows, mem, seen, job>>

GrabCommit(w) ==
  /\ pc[w] = "grab"
  /\ todo[w] = {}
  /\ Commit(w, dirty[w])
  /\ pc' = [pc EXCEPT ![w] = "poll"]
  /\ rows' = [rows EXCEPT ![w] = Clients]
  /\ UNCHANGED <<files, events, dl, diskVars, faults, todo, mem, seen, job>>

\* add_url raises something that is not a DownloadError: process_queue is
\* left with its grabs pending, and the next job of run_cycles commits them.
GrabEscapes(w) ==
  /\ pc[w] = "grab"
  /\ todo[w] # {}
  /\ faults < MaxFaults
  /\ faults' = faults + 1
  /\ Commit(w, dirty[w])
  /\ Closed(w)
  /\ UNCHANGED <<files, events, dl, diskVars>>

-----------------------------------------------------------------------------
(* Phase 2: poll every client and act on the rows it should know.          *)

PollDead(w, c) ==
  /\ pc[w] = "poll"
  /\ c \in rows[w]
  /\ rows' = [rows EXCEPT ![w] = @ \ {c}]
  /\ UNCHANGED <<dbVars, dl, diskVars, writer, faults, pc, todo, mem, dirty, seen, job>>

SlipForgetsStatus(c) == {r \in Releases : cid[r] \in Ids /\ dl[cid[r]].client = c}
\* queue_items.client_name is the client of the download the row names.
Active(c) ==
  {r \in Releases : status[r] = "downloading" /\ cid[r] \in Ids /\ dl[cid[r]].client = c}

PollOk(w, c) ==
  /\ pc[w] = "poll"
  /\ c \in rows[w]
  /\ rows' = [rows EXCEPT ![w] = @ \ {c}]
  /\ seen' = [seen EXCEPT ![w] =
       [d \in Ids |-> IF dl[d].client = c THEN dl[d].state ELSE "none"]]
  /\ todo' = [todo EXCEPT ![w] = Active(c)]
  /\ mem' = [mem EXCEPT ![w] = Loaded(w, Active(c))]
  /\ pc' = [pc EXCEPT ![w] = "scan"]
  /\ UNCHANGED <<dbVars, dl, diskVars, writer, faults, dirty, job>>

SlipMissesErrors(w, r) ==
  IF mem[w][r] \in Ids /\ seen[w][mem[w][r]] = "complete" THEN "complete" ELSE "active"
\* by_id.get(queue_item.client_download_id or "")
ClientSays(w, r) == IF mem[w][r] \in Ids THEN seen[w][mem[w][r]] ELSE "none"

SkipItem(w, r) ==
  /\ pc[w] = "scan"
  /\ Handled(w, r)
  /\ ClientSays(w, r) \in {"none", "active"}
  /\ UNCHANGED <<dbVars, dl, diskVars, writer, faults, pc, rows, mem, dirty, seen, job>>

ErrorItem(w, r) ==
  /\ pc[w] = "scan"
  /\ Handled(w, r)
  /\ ClientSays(w, r) = "error"
  /\ Pending(w, r, "failed")
  /\ UNCHANGED <<dbVars, dl, diskVars, writer, faults, pc, rows, mem, seen, job>>

\* status = "importing", then the hook's first SELECT autoflushes it: the
\* write lock is taken here and held until the import commits.
BeginImport(w, r) ==
  /\ pc[w] = "scan"
  /\ Handled(w, r)
  /\ ClientSays(w, r) = "complete"
  /\ CanFlush(w)
  /\ writer' = w
  /\ Pending(w, r, "importing")
  /\ job' = [job EXCEPT ![w] = [item |-> r, path |-> None]]
  /\ pc' = [pc EXCEPT ![w] = "locate"]
  /\ UNCHANGED <<dbVars, dl, diskVars, faults, rows, mem, seen>>

WatchCommit(w) ==
  /\ pc[w] = "scan"
  /\ todo[w] = {}
  /\ Commit(w, dirty[w])
  /\ pc' = [pc EXCEPT ![w] = "poll"]
  /\ UNCHANGED <<files, events, dl, diskVars, faults, todo, rows, mem, seen, job>>

WatchDone(w) ==
  /\ pc[w] = "poll"
  /\ rows[w] = {}
  /\ Quit(w)
  /\ UNCHANGED faults

-----------------------------------------------------------------------------
(* The import hook, import_download.                                       *)

\* A download's payload is in the client's directory: finished, and not
\* moved away by an earlier import.
Present(e) ==
  /\ dl[e].state = "complete"
  /\ content[e] # None
  /\ Mode = "move" => \A p \in Paths : lib[p] # e

\* _locate_files: the save path of one download, or of the whole client.
Candidates(d) ==
  {e \in Ids : /\ Present(e)
               /\ e = d \/ (dl[d].client \in SharedDir /\ dl[e].client = dl[d].client)}

\* _pick_file: a file in the queued format when there is one, else the
\* first; the sort key is the file name, which is not modelled.
Picked(r, d) ==
  LET preferred == {e \in Candidates(d) : FormatOf[dl[e].rel] = FormatOf[r]}
  IN  IF preferred # {} THEN preferred ELSE Candidates(d)

SlipVerifiesAll(r, e) == TRUE
Verified(r, e) == <<BookOf[r], dl[e].rel>> \in Verifies

SlipNoExtension(r, e) == Dest[BookOf[r]][CHOOSE f \in Formats : TRUE]
DestOf(r, e) == Dest[BookOf[r]][FormatOf[dl[e].rel]]

\* os.link, which refuses a path that exists.
Link(e, p) ==
  /\ lib[p] = None
  /\ lib' = [lib EXCEPT ![p] = e]
  /\ UNCHANGED content

\* shutil.copy2 writes into the file the path names, whatever links to it;
\* copying a file onto itself is an error.
Copy(e, p) ==
  LET i == IF lib[p] = None THEN p ELSE lib[p] IN
  /\ i # e
  /\ lib' = [lib EXCEPT ![p] = i]
  /\ content' = [content EXCEPT ![i] = content[e]]

\* shutil.move: a rename replaces the path; across volumes it copies and
\* then unlinks the source.
Move(e, p) ==
  IF SameVolume
  THEN lib' = [lib EXCEPT ![p] = e] /\ UNCHANGED content
  ELSE LET i == IF lib[p] = None THEN p ELSE lib[p] IN
       /\ lib' = [lib EXCEPT ![p] = i]
       /\ content' = [content EXCEPT ![i] = content[e], ![e] = None]

Transfer(e, p) ==
  \/ Mode = "hardlink" /\ SameVolume /\ Link(e, p)
  \/ (Mode = "copy" \/ (Mode = "hardlink" /\ (SameVolume => lib[p] # None))) /\ Copy(e, p)
  \/ Mode = "move" /\ Move(e, p)

Place(w) ==
  LET r == job[w].item IN
  /\ pc[w] = "locate"
  /\ \E e \in Picked(r, mem[w][r]) :
       /\ Verified(r, e)
       /\ Transfer(e, DestOf(r, e))
       /\ job' = [job EXCEPT ![w].path = DestOf(r, e)]
  /\ pc' = [pc EXCEPT ![w] = "record"]
  /\ UNCHANGED <<dbVars, dl, writer, faults, todo, rows, mem, dirty, seen>>

SlipImportedAnyway(w) == [dirty[w] EXCEPT ![job[w].item] = "imported"]
Rejected(w) == [dirty[w] EXCEPT ![job[w].item] = "failed"]

SlipRemovesDestination(w) ==
  LET r == job[w].item IN
  /\ pc[w] = "locate"
  /\ Commit(w, Rejected(w))
  /\ lib' = [lib EXCEPT ![Dest[BookOf[r]][FormatOf[r]]] = None]
  /\ pc' = [pc EXCEPT ![w] = "log"]
  /\ UNCHANGED <<files, events, dl, content, faults, todo, rows, mem, seen, job>>
\* _fail: no file, a name that does not verify, or an OSError.
Reject(w) ==
  /\ pc[w] = "locate"
  /\ Commit(w, Rejected(w))
  /\ pc' = [pc EXCEPT ![w] = "log"]
  /\ UNCHANGED <<files, events, dl, diskVars, faults, todo, rows, mem, seen, job>>

\* The files row and status = "imported" in one commit.
Record(w) ==
  LET p == job[w].path IN
  /\ pc[w] = "record"
  /\ files[p] = None
  /\ files' = [files EXCEPT ![p] = content[lib[p]]]
  /\ Commit(w, [dirty[w] EXCEPT ![job[w].item] = "imported"])
  /\ pc' = [pc EXCEPT ![w] = "log"]
  /\ UNCHANGED <<events, dl, diskVars, faults, todo, rows, mem, seen, job>>

\* files.path is unique: the flush raises and deactivates the Session; the
\* handler's own writes fail with it.
RecordConflict(w) ==
  /\ pc[w] = "record"
  /\ files[job[w].path] # None
  /\ Quit(w)
  /\ UNCHANGED faults

SlipAlwaysImport(w) == "import"
EventKind(w) == IF job[w].path = None THEN "fail" ELSE "import"

\* The history event, in a transaction of its own.  The "failed" that
\* process_queue writes again after a _fail changes only the error text.
Log(w) ==
  /\ pc[w] = "log"
  /\ CanFlush(w)
  /\ events' = events \cup {<<EventKind(w), job[w].item>>}
  /\ job' = [job EXCEPT ![w] = NoJob]
  /\ pc' = [pc EXCEPT ![w] = "scan"]
  /\ UNCHANGED <<status, cid, files, dl, diskVars, writer, faults,
                 todo, rows, mem, dirty, seen>>

\* The hook raises outside the database (an unreadable directory, a file
\* gone before it is hashed): "hook failure is per-item".
HookRaises(w) ==
  /\ pc[w] \in {"locate", "record"}
  /\ faults < MaxFaults
  /\ faults' = faults + 1
  /\ Pending(w, job[w].item, "failed")
  /\ job' = [job EXCEPT ![w] = NoJob]
  /\ pc' = [pc EXCEPT ![w] = "scan"]
  /\ UNCHANGED <<dbVars, dl, diskVars, writer, todo, rows, mem, seen>>

-----------------------------------------------------------------------------
(* Faults and the world outside.                                           *)

\* The worker is about to write.
Flushing(w) ==
  \/ pc[w] \in {"grab", "scan"} /\ todo[w] = {} /\ Dirty(w) # {}
  \/ pc[w] = "scan" /\ \E r \in todo[w] : ClientSays(w, r) = "complete"
  \/ pc[w] = "log"

\* "database is locked" after the busy timeout: a failed flush.
LockTimeout(w) ==
  /\ Flushing(w)
  /\ ~CanFlush(w)
  /\ Quit(w)
  /\ UNCHANGED faults

\* The process dies, or an exception leaves the cycle with nothing pending
\* that a later job would commit.
Abort(w) ==
  /\ pc[w] # "idle"
  /\ faults < MaxFaults
  /\ faults' = faults + 1
  /\ Quit(w)

DownloadFinishes(d) ==
  /\ dl[d].state = "active"
  /\ dl' = [dl EXCEPT ![d].state = "complete"]
  /\ content' = [content EXCEPT ![d] = dl[d].rel]
  /\ UNCHANGED <<dbVars, lib, writer, faults, workVars>>

DownloadErrors(d) ==
  /\ dl[d].state = "active"
  /\ dl' = [dl EXCEPT ![d].state = "error"]
  /\ UNCHANGED <<dbVars, diskVars, writer, faults, workVars>>

-----------------------------------------------------------------------------
Grab(w) ==
  \/ \E r \in Releases, d \in Ids : AddUrl(w, r, d) \/ AddLost(w, r, d)
  \/ \E r \in Releases : AddRefused(w, r)
  \/ GrabCommit(w)

Watch(w) ==
  \/ \E c \in Clients : PollDead(w, c) \/ PollOk(w, c)
  \/ \E r \in Releases : SkipItem(w, r) \/ ErrorItem(w, r) \/ BeginImport(w, r)
  \/ WatchCommit(w)
  \/ WatchDone(w)

Import(w) == Place(w) \/ Reject(w) \/ Record(w) \/ RecordConflict(w) \/ Log(w)

Cycle(w) == Start(w) \/ Grab(w) \/ Watch(w) \/ Import(w)

Fault(w) == GrabEscapes(w) \/ HookRaises(w) \/ LockTimeout(w) \/ Abort(w)

Next ==
  \/ \E r \in Releases : Enqueue(r)
  \/ \E w \in Workers : Cycle(w) \/ Fault(w)
  \/ \E d \in Ids : DownloadFinishes(d) \/ DownloadErrors(d)

Spec == Init /\ [][Next]_vars

\* scheduler_loop runs cycles for ever, every call of a cycle returns, and a
\* client that is asked again and again answers now and then.
Fairness ==
  /\ \A w \in Workers : WF_vars(Cycle(w))
  /\ \A w \in Workers : \A c \in Clients : SF_vars(PollOk(w, c))

FairSpec == Spec /\ Fairness
=============================================================================
