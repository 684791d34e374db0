------------------------- MODULE DownloadWatchProps -------------------------
(***************************************************************************)
(* What DownloadWatch must satisfy.                                        *)
(***************************************************************************)
EXTENDS DownloadWatch

\* Every variable holds values of its kind (models.QueueItem, models.File,
\* clients.base.ClientItem and the locals of process_queue).
TypeOK ==
  /\ status \in [Releases -> Statuses]
  /\ cid \in [Releases -> Ids \cup {None}]
  /\ files \in [Paths -> Releases \cup {None}]
  /\ events \subseteq {"grab", "import", "fail"} \X Releases
  /\ dl \in [Ids -> [rel : Releases \cup {None}, client : Clients \cup {None}, state : DlStates]]
  /\ lib \in [Paths -> Inodes \cup {None}]
  /\ content \in [Inodes -> Releases \cup {None}]
  /\ writer \in Workers \cup {None}
  /\ faults \in 0 .. MaxFaults
  /\ pc \in [Workers -> {"idle", "grab", "poll", "scan", "locate", "record", "log"}]
  /\ todo \in [Workers -> SUBSET Releases]
  /\ rows \in [Workers -> SUBSET Clients]
  /\ mem \in [Workers -> [Releases -> Ids \cup {None, Unheld}]]
  /\ dirty \in [Workers -> [Releases -> {"clean", "downloading", "importing", "failed"}]]
  /\ seen \in [Workers -> [Ids -> DlStates]]
  /\ job \in [Workers -> [item : Releases \cup {None}, path : Paths \cup {None}]]

\* A row is "imported" only when its book has a files row, the one
\* import_download adds in the same commit.
ImportedHasFile ==
  \A r \in Releases : status[r] = "imported" =>
    \E f \in Formats : files[Dest[BookOf[r]][f]] # None

\* A files row names a path that exists in the library: the row is added
\* only after the link, copy or move, and nothing unlinks a library file.
FileRowHasFile == \A p \in Paths : files[p] # None => lib[p] # None

\* A row being watched is watched under the id of a download of that very
\* release (process_queue stores what add_url answers).
OwnDownload ==
  \A r \in Releases : status[r] = "downloading" => cid[r] \in Ids /\ dl[cid[r]].rel = r

\* The sha256 in a files row stays the digest of the file at its path: no
\* later import, of this row or another, writes the path behind the row's back.
RowMatchesDisk ==
  \A p \in Paths : files[p] # None => content[lib[p]] = files[p]

\* The history shows an import only of a release whose book has a files row,
\* although the event is committed after the row, in a second transaction.
HistoryTruthful ==
  \A r \in Releases : <<"import", r>> \in events =>
    \E f \in Formats : files[Dest[BookOf[r]][f]] # None

\* With one monitoring process a release is downloaded again only because a
\* crash or an escaping exception lost the commit that recorded its grab.
GrabsBounded ==
  \A r \in Releases : Cardinality({d \in Ids : dl[d].rel = r}) <= 1 + faults

\* What the library holds under a book's path is a release queued for that
\* book: "the download really is the queued book" (_verify).
ImportedIsQueuedBook ==
  \A b \in Books, f \in Formats :
    files[Dest[b][f]] # None => BookOf[files[Dest[b][f]]] = b

\* The committed rows follow the queue's state machine: DownloadWatch
\* implements QueueLifecycle, every other variable hidden.
Lifecycle == INSTANCE QueueLifecycle WITH Releases <- Releases, status <- status
LifecycleSpec == Lifecycle!Spec

\* A download that its client reports finished or broken is settled: its row
\* becomes imported or failed.
Settles ==
  \A r \in Releases :
    (/\ status[r] = "downloading"
     /\ cid[r] \in Ids
     /\ dl[cid[r]].state \in {"complete", "error"})
      ~> status[r] \in {"imported", "failed"}
=============================================================================
