----------------------------- MODULE Acquisition -----------------------------
(***************************************************************************)
(* The acquisition loop seen from the books: what rss_sync and search_now  *)
(* queue (wanted.py, search.py), what becomes of a grab with each kind of  *)
(* download client (ClientAdapters), and what the import gives back to the *)
(* catalogue, which decides the next grab (Decision).  The administrator   *)
(* edits books, indexers and clients through the API meanwhile.            *)
(*                                                                         *)
(* Sessions, locks and the order inside one monitoring cycle are the       *)
(* matter of DownloadWatch and MonitorCycle: here an action is one         *)
(* committed iteration of their loops.                                     *)
(***************************************************************************)
EXTENDS Decision, ClientAdapters, FiniteSets, SequencesExt

CONSTANTS
  Books, Releases, Indexers, Clients, Names,
  Facts,       \* release -> what its title and feed entry say
  BookOf,      \* release -> the book its title names
  FileFormats, \* release -> the formats _pick_file may end with
  OnFeed,      \* indexer -> the releases recent() returns
  Results,     \* indexer -> book -> the releases search() returns, in order
  RowOrder,    \* the indexers, in the order the SELECT returns them
  StartKinds,  \* kinds the client may be of at the start
  EditKinds,   \* kinds the administrator may enter later
  Priorities,  \* indexer priorities
  MaxEdits,    \* bound on the administrator's edits
  None

VARIABLES
  monitored,   \* books.monitored
  owned,       \* book -> formats of its files rows
  row,         \* queue_items, by release_guid
  indexer,     \* indexers rows
  client,      \* download_clients rows
  dl,          \* release -> its download, on the host of a client
  edits

vars == <<monitored, owned, row, indexer, client, dl, edits>>

NoRow      == [status |-> "absent", book |-> None, client |-> None, id |-> NoId]
NoDownload == [host |-> None, state |-> "none"]
Formats    == TextFormats \cup {NoFormat}
Entry      == [fmt : Formats, custom : Int, protocol : Protocols, manual : BOOLEAN,
               seeders : Int, age : Int, size : Int, junk : BOOLEAN]
Candidate  == [guid : Releases, fmt : Formats, custom : Int, protocol : Protocols,
               manual : BOOLEAN, priority : Int, seeders : Int, age : Int, size : Int]
Ids        == {NoId} \cup ({"hash", "number", "nzo", "nzbid"} \X Releases)

ASSUME AcquisitionAssumption ==
  /\ BookOf \in [Releases -> Books]
  /\ FileFormats \in [Releases -> SUBSET TextFormats]
  /\ StartKinds \cup EditKinds \subseteq Kinds
  /\ Facts \in [Releases -> Entry]
  /\ Results \in [Indexers -> [Books -> Seq(Releases)]]
  /\ RowOrder \in Seq(Indexers)
  /\ Names # {} /\ 1 \in Priorities /\ Priorities \subseteq Int /\ MaxEdits \in Nat
  /\ NoFormat \notin TextFormats /\ Nothing \notin Candidate

TypeOK ==
  /\ monitored \subseteq Books
  /\ owned \in [Books -> SUBSET TextFormats]
  /\ row \in [Releases ->
       [status : {"absent", "queued", "downloading", "imported", "failed"},
        book : Books \cup {None}, client : Names \cup {None}, id : Ids]]
  /\ indexer \in [Indexers -> [enabled : BOOLEAN, priority : Priorities]]
  /\ client \in [Clients -> {None} \cup [name : Names, kind : Kinds, enabled : BOOLEAN]]
  /\ dl \in [Releases -> [host : Clients \cup {None},
                          state : {"none", "active", "complete", "error", "gone"}]]
  /\ edits \in 0..MaxEdits

FirstClient == CHOOSE c \in Clients : TRUE
FirstName   == CHOOSE n \in Names : TRUE
Init ==
  /\ monitored = Books
  /\ owned = [b \in Books |-> {}]
  /\ row = [r \in Releases |-> NoRow]
  /\ indexer = [i \in Indexers |-> [enabled |-> TRUE, priority |-> 1]]
  /\ \E k \in StartKinds :
       client = [c \in Clients |->
                   IF c = FirstClient
                   THEN [name |-> FirstName, kind |-> k, enabled |-> TRUE] ELSE None]
  /\ dl = [r \in Releases |-> NoDownload]
  /\ edits = 0

-----------------------------------------------------------------------------
(* wanted.py.  The ownership rule asks about the format the title names,   *)
(* and asks is_upgrade only when the book has that very format.            *)
BookHasFormat(b, f) == f # NoFormat /\ f \in owned[b]

SlipIgnoresOwned(r) ==        \* ownership not looked up at all
  BookOf[r] \in monitored
SlipNeedsFile(r) ==           \* only upgrades: a book without a file never matches
  LET b == BookOf[r] IN
  b \in monitored /\ owned[b] # {} /\ IsUpgrade(BestFormat(owned[b]), Facts[r].fmt)
Matches(r) ==
  LET b == BookOf[r] IN
  /\ b \in monitored
  /\ BookHasFormat(b, Facts[r].fmt) => IsUpgrade(BestFormat(owned[b]), Facts[r].fmt)

WantedMissing == {b \in monitored : owned[b] = {}}
WantedCutoff  == {b \in monitored : owned[b] # {} /\ ~MeetsCutoff(BestFormat(owned[b]))}

Queued(b) == [status |-> "queued", book |-> b, client |-> None, id |-> NoId]

(* One indexer's turn in rss_sync: the releases on its page today that     *)
(* match and have no row yet are queued in one commit.                     *)
RssSync(i) ==
  \E page \in SUBSET OnFeed[i] :
  LET new == {r \in page : Matches(r) /\ row[r].status = "absent"} IN
  /\ indexer[i].enabled
  /\ new # {}
  /\ row' = [r \in Releases |-> IF r \in new THEN Queued(BookOf[r]) ELSE row[r]]
  /\ UNCHANGED <<monitored, owned, indexer, client, dl, edits>>

(* search_now: the releases of every enabled indexer that answers, in the  *)
(* order of the rows, junk left out.                                       *)
Turn(i, b) ==
  FlattenSeq([n \in DOMAIN Results[i][b] |->
    LET r == Results[i][b][n] IN
    IF Facts[r].junk THEN <<>> ELSE <<Normalized(r, Facts[r], indexer[i].priority)>>])
Candidates(b, up) ==
  FlattenSeq([n \in DOMAIN RowOrder |-> IF RowOrder[n] \in up THEN Turn(RowOrder[n], b) ELSE <<>>])

Enabled == {i \in Indexers : indexer[i].enabled}

(* The winner is queued for the book that was searched for, whatever its   *)
(* title says and whatever the book owns; a row under its guid, in any     *)
(* state, makes the search end as "already queued".                        *)
SearchNow(b, up) ==
  LET w == PickBest(Candidates(b, up)) IN
  /\ up \subseteq Enabled
  /\ w # Nothing
  /\ row[w.guid].status = "absent"
  /\ row' = [row EXCEPT ![w.guid] = Queued(b)]
  /\ UNCHANGED <<monitored, owned, indexer, client, dl, edits>>

-----------------------------------------------------------------------------
(* process_queue.  Live: what the host of c still knows about.             *)
Usable(c) == client[c] # None /\ client[c].enabled
Live(c) ==
  {q \in Releases : Usable(c) /\ dl[q].host = c /\ Shown(client[c].kind, dl[q].state)}

Add(c, r) ==
  /\ Usable(c)
  /\ row[r].status = "queued" /\ ~Facts[r].manual
  /\ dl' = [dl EXCEPT ![r] = [host |-> c, state |-> "active"]]
  /\ \E id \in AddReturns(client[c].kind, r, Live(c)) :
       row' = [row EXCEPT ![r].status = "downloading", ![r].client = client[c].name,
                          ![r].id = id]
  /\ UNCHANGED <<monitored, owned, indexer, client, edits>>

(* DownloadError: refused, unreachable, or read back from an empty list.   *)
AddFails(c, r) ==
  /\ Usable(c)
  /\ row[r].status = "queued" /\ ~Facts[r].manual
  /\ row' = [row EXCEPT ![r].status = "failed"]
  /\ UNCHANGED <<monitored, owned, indexer, client, dl, edits>>

(* The download q that by_id finds for row r in the list of client c.      *)
Found(c, r) ==
  {q \in Live(c) : row[r].status = "downloading"
                   /\ row[r].client = client[c].name
                   /\ ListedId(client[c].kind, q) = row[r].id}

SlipWatchError(c, r) ==       \* the release goes back to the queue for another try
  /\ \E q \in Found(c, r) : Status(client[c].kind, dl[q].state) = "error"
  /\ row' = [row EXCEPT ![r].status = "queued"]
  /\ UNCHANGED <<monitored, owned, indexer, client, dl, edits>>
WatchError(c, r) ==
  /\ \E q \in Found(c, r) : Status(client[c].kind, dl[q].state) = "error"
  /\ row' = [row EXCEPT ![r].status = "failed"]
  /\ UNCHANGED <<monitored, owned, indexer, client, dl, edits>>

(* The path of a book in a format is taken once the book owns the format:  *)
(* the insert of the second files row raises and nothing is committed.     *)
PathTaken(r, f) == f \in owned[row[r].book]

WatchImport(c, r) ==
  /\ \E q \in Found(c, r) :
       /\ Status(client[c].kind, dl[q].state) = "complete"
       /\ \/ /\ BookOf[q] = row[r].book
             /\ \E f \in FileFormats[q] :
                  /\ ~PathTaken(r, f)
                  /\ owned' = [owned EXCEPT ![row[r].book] = @ \cup {f}]
             /\ row' = [row EXCEPT ![r].status = "imported"]
          \/ /\ BookOf[q] # row[r].book      \* _verify: metadata mismatch
             /\ row' = [row EXCEPT ![r].status = "failed"]
             /\ UNCHANGED owned
  /\ UNCHANGED <<monitored, indexer, client, dl, edits>>

(* The client's own steps (external). *)
Finish(r) ==
  /\ dl[r].state = "active"
  /\ \E s \in {"complete", "error"} : dl' = [dl EXCEPT ![r].state = s]
  /\ UNCHANGED <<monitored, owned, row, indexer, client, edits>>

-----------------------------------------------------------------------------
(* The administrator, through the API.                                     *)
Edit == edits < MaxEdits /\ edits' = edits + 1

PatchBook(b) ==
  /\ Edit
  /\ monitored' = IF b \in monitored THEN monitored \ {b} ELSE monitored \cup {b}
  /\ UNCHANGED <<owned, row, indexer, client, dl>>

UpdateIndexer(i) ==
  /\ Edit
  /\ \E e \in BOOLEAN, p \in Priorities :
       indexer' = [indexer EXCEPT ![i] = [enabled |-> e, priority |-> p]]
  /\ UNCHANGED <<monitored, owned, row, client, dl>>

NameFree(n, c) == \A d \in Clients \ {c} : client[d] # None => client[d].name # n

(* create_client looks the name up first (409); update_client does not and *)
(* leaves it to the unique column (500).  Neither changes a row then.      *)
PutClient(c) ==
  /\ Edit
  /\ \E n \in Names, k \in EditKinds, e \in BOOLEAN :
       /\ NameFree(n, c)
       /\ client' = [client EXCEPT ![c] = [name |-> n, kind |-> k, enabled |-> e]]
  /\ UNCHANGED <<monitored, owned, row, indexer, dl>>

DeleteClient(c) ==
  /\ Edit
  /\ client[c] # None
  /\ client' = [client EXCEPT ![c] = None]
  /\ UNCHANGED <<monitored, owned, row, indexer, dl>>

Next ==
  \/ \E i \in Indexers : RssSync(i) \/ UpdateIndexer(i)
  \/ \E b \in Books, up \in SUBSET Indexers : SearchNow(b, up)
  \/ \E c \in Clients, r \in Releases :
       Add(c, r) \/ AddFails(c, r) \/ WatchError(c, r) \/ WatchImport(c, r)
  \/ \E r \in Releases : Finish(r)
  \/ \E b \in Books : PatchBook(b)
  \/ \E c \in Clients : PutClient(c) \/ DeleteClient(c)

Spec == Init /\ [][Next]_vars

(* The scheduler runs both jobs on their cadence for as long as a process  *)
(* is up; a client ends what it started.  Nobody has to search or edit.    *)
Fairness ==
  /\ WF_vars(\E i \in Indexers : RssSync(i))
  /\ WF_vars(\E r \in Releases : Finish(r))
  /\ WF_vars(\E c \in Clients, r \in Releases : Add(c, r) \/ AddFails(c, r))
  /\ WF_vars(\E c \in Clients, r \in Releases : WatchError(c, r) \/ WatchImport(c, r))

FairSpec == Spec /\ Fairness
-----------------------------------------------------------------------------
(* Properties. *)

(* Whatever indexers answer and however the administrator ranks them, the  *)
(* search settles on a release that is eligible and that no eligible one   *)
(* precedes in the order decision.py documents (format, custom formats,    *)
(* protocol, automation, indexer priority, seeders, age, size); a link the *)
(* user must follow by hand wins only when no allowed format was offered.  *)
Prefer(a, b) ==
  LET same(f) == a[f] = b[f] IN
  \/ FormatScore(a.fmt) > FormatScore(b.fmt)
  \/ /\ FormatScore(a.fmt) = FormatScore(b.fmt)
     /\ \/ a.custom > b.custom
        \/ same("custom") /\ ProtocolRank(a.protocol) > ProtocolRank(b.protocol)
        \/ /\ same("custom") /\ same("protocol")
           /\ \/ ~a.manual /\ b.manual
              \/ same("manual") /\ a.priority < b.priority
              \/ same("manual") /\ same("priority") /\ a.seeders > b.seeders
              \/ /\ same("manual") /\ same("priority") /\ same("seeders")
                 /\ a.age < b.age \/ (same("age") /\ a.size < b.size)

SearchPicksBest ==
  \A b \in Books, up \in SUBSET Enabled :
    LET cs == Candidates(b, up)
        ok == {c \in Range(cs) : Eligible(c)}
        w  == PickBest(cs)
    IN IF ok = {} THEN w = Nothing
       ELSE /\ w \in ok
            /\ \A c \in ok : ~Prefer(c, w)
            /\ FormatScore(w.fmt) = 0 => \A c \in Range(cs) : FormatScore(c.fmt) = 0

(* The RSS loop never asks for a format again that the book owns: what it  *)
(* imports changes what it wants.  The exception for upgrades in           *)
(* match_release can never fire, whichever formats a book has collected.   *)
OwnedNotRegrabbed ==
  [][\A i \in Indexers : RssSync(i) =>
       \A r \in Releases :
         row[r].status = "absent" /\ row'[r].status = "queued" /\ Facts[r].fmt # NoFormat
           => Facts[r].fmt \notin owned[row'[r].book]]_vars

(* A grab comes to an end, unless nobody can see its download any more:    *)
(* no enabled client bears the name the row stores, or the one that does   *)
(* does not list the download under the id the row stores, or the import   *)
(* finds the book's path taken.  Renaming, disabling or deleting a client, *)
(* SABnzbd, NZBGet and Transmission all come to this.                      *)
Watched(r) ==
  \E c \in Clients, q \in Releases :
    /\ client[c] # None /\ client[c].enabled /\ client[c].name = row[r].client
    /\ dl[q].host = c /\ row[r].id = Handle(client[c].kind, q)
    /\ client[c].kind \in {"qbittorrent", "deluge"}
    /\ \A f \in FileFormats[q] : ~PathTaken(r, f)
GrabsEnd == []<>(\A r \in Releases : row[r].status = "downloading" => ~Watched(r))

(* A monitored book without a file gets one, or the feeds of the enabled   *)
(* indexers have nothing left to offer it: every release has a row of its  *)
(* own already (failed, unwatched, or waiting without a client), as a      *)
(* guid is queued only once.                                               *)
Exhausted(b) ==
  \A i \in Enabled : \A r \in OnFeed[i] : BookOf[r] = b => row[r].status # "absent"
MissingIsServed == []<>(\A b \in WantedMissing : Exhausted(b))

(* Searches, feeds, edits and watching together move the rows of the queue *)
(* along its state machine and nowhere else: the second module that        *)
(* implements QueueLifecycle.                                              *)
Lifecycle == INSTANCE QueueLifecycle
               WITH Releases <- Releases, status <- [r \in Releases |-> row[r].status]
LifecycleSpec == Lifecycle!Spec

(* What docs/implementation-plan.md promises of the upgrade loop: a        *)
(* release queued for a book with files beats them and finds them below    *)
(* the cutoff.                                                             *)
UpgradesBeatOwned ==
  [][\A i \in Indexers : RssSync(i) =>
       \A r \in Releases :
         row[r].status = "absent" /\ row'[r].status = "queued"
           /\ owned[BookOf[r]] # {} /\ Facts[r].fmt # NoFormat
         => IsUpgrade(BestFormat(owned[BookOf[r]]), Facts[r].fmt)]_vars
=============================================================================
