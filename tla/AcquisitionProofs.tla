--------------------------- MODULE AcquisitionProofs ---------------------------
(***************************************************************************)
(* Theorems about Acquisition, for any catalogue, any indexers and clients *)
(* of any kind: the rows of the queue follow the state machine of          *)
(* QueueLifecycle, and the feeds are not asked again for what a book owns. *)
(***************************************************************************)
EXTENDS Acquisition, FiniteSetTheorems, TLAPS

\* The rows of queue_items.
Rows == [status : {"absent", "queued", "downloading", "imported", "failed"},
         book : Books \cup {None}, client : Names \cup {None}, id : Ids]

\* Every handle an adapter may return for a release is an id.
LEMMA AddReturnsIds ==
  ASSUME NEW kind \in Kinds, NEW r \in Releases, NEW Q \in SUBSET Releases
  PROVE  AddReturns(kind, r, Q) \subseteq Ids
<1>1. \A q \in Releases : Handle(kind, q) \in Ids
  BY DEF Handle, Ids, Kinds
<1>2. CASE kind \in {"qbittorrent", "nzbget"}
  BY <1>1, <1>2 DEF AddReturns
<1>3. CASE kind \in {"deluge", "transmission"}
  BY <1>1, <1>3 DEF AddReturns
<1>4. CASE kind = "sabnzbd"
  BY <1>1, <1>4 DEF AddReturns, Ids
<1>5. QED
  BY <1>2, <1>3, <1>4 DEF Kinds

\* The best format of a book that has one is a format of it that none of its
\* formats outscores: the CHOOSE of max(formats, key = format_score) exists.
LEMMA BestFormatIsBest ==
  ASSUME NEW S \in SUBSET TextFormats, S # {}
  PROVE  BestFormat(S) \in S /\ \A g \in S : FormatScore(g) <= FormatScore(BestFormat(S))
<1>1. /\ FormatScore("EPUB") = 100 /\ FormatScore("AZW3") = 90 /\ FormatScore("MOBI") = 80
      /\ FormatScore("PDF") = 60 /\ FormatScore("FB2") = 0 /\ FormatScore("OTHER") = 0
  BY DEF FormatScore, TextScore, Allowed
<1>2. \A g \in S : FormatScore(g) \in {0, 60, 80, 90, 100}
  BY <1>1 DEF TextFormats
<1>3. \E f \in S : \A g \in S : FormatScore(g) <= FormatScore(f)
  <2>1. CASE \E f \in S : FormatScore(f) = 100
    BY <1>2, <2>1
  <2>2. CASE \A f \in S : FormatScore(f) < 100
    <3>1. CASE \E f \in S : FormatScore(f) = 90
      BY <1>2, <2>2, <3>1
    <3>2. CASE \A f \in S : FormatScore(f) < 90
      BY <1>2, <3>2
    <3>3. QED
      BY <1>2, <2>2, <3>1, <3>2
  <2>3. QED
    BY <1>2, <2>1, <2>2
<1>4. QED
  BY <1>3 DEF BestFormat

\* A row whose columns are set is a row.
LEMMA RowEdits ==
  ASSUME NEW x \in Rows, NEW s \in {"downloading", "imported", "failed"}
  PROVE  /\ [x EXCEPT !.status = s] \in Rows
         /\ \A n \in Names, id \in Ids :
              [x EXCEPT !.status = s, !.client = n, !.id = id] \in Rows
BY DEF Rows

-----------------------------------------------------------------------------
\* The rows RssSync and SearchNow queue are rows, and so is what a monitoring
\* pass makes of a row.
LEMMA RowTypes ==
  ASSUME TypeOK, Next
  PROVE  row' \in [Releases -> Rows]
<1> USE DEF TypeOK, Rows
<1>1. ASSUME NEW i \in Indexers, RssSync(i) PROVE row' \in [Releases -> Rows]
  BY <1>1, AcquisitionAssumption DEF RssSync, Queued, Ids
<1>2. ASSUME NEW b \in Books, NEW up, SearchNow(b, up) PROVE row' \in [Releases -> Rows]
  <2>1. Queued(b) \in Rows
    BY DEF Queued, Ids
  <2>2. QED
    BY <1>2, <2>1 DEF SearchNow
<1>3. ASSUME NEW c \in Clients, NEW r \in Releases, Add(c, r) PROVE row' \in [Releases -> Rows]
  <2>1. client[c].name \in Names /\ client[c].kind \in Kinds
    BY <1>3 DEF Add, Usable
  <2>2. AddReturns(client[c].kind, r, Live(c)) \subseteq Ids
    BY <2>1, AddReturnsIds DEF Live
  <2>3. PICK id \in Ids :
          row' = [row EXCEPT ![r].status = "downloading", ![r].client = client[c].name,
                             ![r].id = id]
    BY <1>3, <2>2 DEF Add
  <2>4. [row[r] EXCEPT !.status = "downloading", !.client = client[c].name, !.id = id] \in Rows
    BY <2>1, RowEdits
  <2>5. row' = [row EXCEPT ![r] = [row[r] EXCEPT !.status = "downloading",
                                                !.client = client[c].name, !.id = id]]
    BY <2>3 DEF TypeOK
  <2>6. QED
    BY <2>4, <2>5
<1>4. ASSUME NEW c \in Clients, NEW r \in Releases,
             AddFails(c, r) \/ WatchError(c, r) \/ WatchImport(c, r)
      PROVE  row' \in [Releases -> Rows]
  <2>1. \E s \in {"failed", "imported"} : row' = [row EXCEPT ![r] = [row[r] EXCEPT !.status = s]]
    <3>1. CASE AddFails(c, r) \/ WatchError(c, r)
      BY <3>1 DEF AddFails, WatchError
    <3>2. CASE WatchImport(c, r)
      BY <3>2 DEF WatchImport
    <3>3. QED
      BY <1>4, <3>1, <3>2
  <2>2. \A s \in {"failed", "imported"} : [row[r] EXCEPT !.status = s] \in Rows
    BY RowEdits
  <2>3. QED
    BY <2>1, <2>2
<1>5. ASSUME row' = row PROVE row' \in [Releases -> Rows]
  BY <1>5
<1>6. QED
  BY <1>1, <1>2, <1>3, <1>4, <1>5
  DEF Next, UpdateIndexer, Finish, PatchBook, PutClient, DeleteClient

\* Type correctness of what the administrator edits and of the downloads.
LEMMA OtherTypes ==
  ASSUME TypeOK, Next
  PROVE  /\ monitored' \subseteq Books
         /\ indexer' \in [Indexers -> [enabled : BOOLEAN, priority : Priorities]]
         /\ client' \in [Clients -> {None} \cup [name : Names, kind : Kinds, enabled : BOOLEAN]]
         /\ edits' \in 0 .. MaxEdits
<1> USE AcquisitionAssumption DEF TypeOK, Edit
<1>1. ASSUME NEW i \in Indexers, UpdateIndexer(i)
      PROVE  indexer' \in [Indexers -> [enabled : BOOLEAN, priority : Priorities]]
  BY <1>1 DEF UpdateIndexer
<1>2. ASSUME NEW c \in Clients, PutClient(c) \/ DeleteClient(c)
      PROVE  client' \in [Clients -> {None} \cup [name : Names, kind : Kinds, enabled : BOOLEAN]]
  <2>1. \E new \in {None} \cup [name : Names, kind : Kinds, enabled : BOOLEAN] :
          client' = [client EXCEPT ![c] = new]
    <3>1. CASE PutClient(c)
      BY <3>1 DEF PutClient
    <3>2. CASE DeleteClient(c)
      BY <3>2 DEF DeleteClient
    <3>3. QED
      BY <1>2, <3>1, <3>2
  <2>2. QED
    BY <2>1
<1>3. ASSUME NEW b \in Books, PatchBook(b) PROVE monitored' \subseteq Books
  BY <1>3 DEF PatchBook
<1>4. QED
  <2>1. (\E i \in Indexers : UpdateIndexer(i)) \/ indexer' = indexer
    BY DEF Next, RssSync, SearchNow, Add, AddFails, WatchError, WatchImport, Finish,
           PatchBook, PutClient, DeleteClient
  <2>2. (\E c \in Clients : PutClient(c) \/ DeleteClient(c)) \/ client' = client
    BY DEF Next, RssSync, SearchNow, Add, AddFails, WatchError, WatchImport, Finish,
           UpdateIndexer, PatchBook
  <2>3. (\E b \in Books : PatchBook(b)) \/ monitored' = monitored
    BY DEF Next, RssSync, SearchNow, Add, AddFails, WatchError, WatchImport, Finish,
           UpdateIndexer, PutClient, DeleteClient
  <2>4. edits' = edits \/ (edits < MaxEdits /\ edits' = edits + 1)
    BY DEF Next, RssSync, SearchNow, Add, AddFails, WatchError, WatchImport, Finish,
           UpdateIndexer, PatchBook, PutClient, DeleteClient
  <2>5. QED
    BY <1>1, <1>2, <1>3, <2>1, <2>2, <2>3, <2>4

LEMMA HeldTypes ==
  ASSUME TypeOK, Next
  PROVE  /\ owned' \in [Books -> SUBSET TextFormats]
         /\ dl' \in [Releases -> [host : Clients \cup {None},
                                  state : {"none", "active", "complete", "error", "gone"}]]
<1> USE DEF TypeOK
<1>1. ASSUME NEW c \in Clients, NEW r \in Releases, WatchImport(c, r)
      PROVE  owned' \in [Books -> SUBSET TextFormats]
  <2>1. owned' = owned \/ \E f \in TextFormats : owned' = [owned EXCEPT ![row[r].book] = @ \cup {f}]
    BY <1>1, AcquisitionAssumption DEF WatchImport, Found, Live
  <2>2. QED
    BY <2>1
<1>2. ASSUME NEW c \in Clients, NEW r \in Releases, Add(c, r)
      PROVE  dl' \in [Releases -> [host : Clients \cup {None},
                                   state : {"none", "active", "complete", "error", "gone"}]]
  BY <1>2 DEF Add
<1>3. ASSUME NEW r \in Releases, Finish(r)
      PROVE  dl' \in [Releases -> [host : Clients \cup {None},
                                   state : {"none", "active", "complete", "error", "gone"}]]
  BY <1>3 DEF Finish
<1>4. QED
  BY <1>1, <1>2, <1>3
  DEF Next, RssSync, SearchNow, Add, AddFails, WatchError, WatchImport, Finish,
      UpdateIndexer, PatchBook, PutClient, DeleteClient

\* Type correctness: an administrator's edit, a handle of any adapter and the
\* book of any search leave rows, indexers and clients well formed.
THEOREM TypeCorrect == Spec => []TypeOK
<1>1. Init => TypeOK
  <2> SUFFICES ASSUME Init PROVE TypeOK
    OBVIOUS
  <2>1. FirstName \in Names
    BY AcquisitionAssumption DEF FirstName
  <2>2. client \in [Clients -> {None} \cup [name : Names, kind : Kinds, enabled : BOOLEAN]]
    BY <2>1, AcquisitionAssumption DEF Init
  <2>3. /\ row \in [Releases -> Rows] /\ owned \in [Books -> SUBSET TextFormats]
        /\ dl \in [Releases -> [host : Clients \cup {None},
                                state : {"none", "active", "complete", "error", "gone"}]]
    BY DEF Init, NoRow, NoDownload, Ids, Rows
  <2>4. /\ monitored \subseteq Books /\ edits \in 0 .. MaxEdits
        /\ indexer \in [Indexers -> [enabled : BOOLEAN, priority : Priorities]]
    BY AcquisitionAssumption DEF Init
  <2>5. QED
    BY <2>2, <2>3, <2>4 DEF TypeOK, Rows
<1>2. TypeOK /\ [Next]_vars => TypeOK'
  <2> SUFFICES ASSUME TypeOK, [Next]_vars PROVE TypeOK'
    OBVIOUS
  <2>1. CASE UNCHANGED vars
    BY <2>1 DEF vars, TypeOK
  <2>2. CASE Next
    BY <2>2, RowTypes, OtherTypes, HeldTypes DEF TypeOK, Rows
  <2>3. QED
    BY <2>1, <2>2
<1>3. QED
  BY <1>1, <1>2, PTL DEF Spec

-----------------------------------------------------------------------------
\* One step moves every row along an arrow of the state machine, or leaves it:
\* a feed or a search only gives a row to a release that has none, and a
\* monitoring pass finds only rows that are queued or downloading.
LEMMA RowSteps ==
  ASSUME TypeOK, Next, NEW q \in Releases
  PROVE  row'[q].status \in Lifecycle!Reachable(row[q].status)
<1> DEFINE Moved(s, t) == row[q].status = s /\ row'[q].status = t
<1> USE DEF TypeOK
<1>1. ASSUME NEW i \in Indexers, RssSync(i) PROVE row'[q] = row[q] \/ Moved("absent", "queued")
  BY <1>1 DEF RssSync, Queued
<1>2. ASSUME NEW b \in Books, NEW up, SearchNow(b, up)
      PROVE  row'[q] = row[q] \/ Moved("absent", "queued")
  BY <1>2 DEF SearchNow, Queued
<1>3. ASSUME NEW c \in Clients, NEW r \in Releases, Add(c, r)
      PROVE  row'[q] = row[q] \/ Moved("queued", "downloading")
  BY <1>3 DEF Add
<1>4. ASSUME NEW c \in Clients, NEW r \in Releases, AddFails(c, r)
      PROVE  row'[q] = row[q] \/ Moved("queued", "failed")
  BY <1>4 DEF AddFails
<1>5. ASSUME NEW c \in Clients, NEW r \in Releases, WatchError(c, r) \/ WatchImport(c, r)
      PROVE  row'[q] = row[q] \/ Moved("downloading", "failed") \/ Moved("downloading", "imported")
  BY <1>5 DEF WatchError, WatchImport, Found
<1>6. row'[q] = row[q] \/ Moved("absent", "queued") \/ Moved("queued", "downloading")
      \/ Moved("queued", "failed") \/ Moved("downloading", "failed")
      \/ Moved("downloading", "imported")
  BY <1>1, <1>2, <1>3, <1>4, <1>5
  DEF Next, UpdateIndexer, Finish, PatchBook, PutClient, DeleteClient
<1>7. row[q].status \in {"absent", "queued", "downloading", "imported", "failed"}
  OBVIOUS
<1>8. QED
  BY <1>6, <1>7 DEF Lifecycle!Reachable

\* Feeds, searches, edits and monitoring together implement QueueLifecycle:
\* the initial rows map to its initial state, and every step of the loop to a
\* step of it or a stutter.
THEOREM LifecycleRefined == Spec => LifecycleSpec
<1> DEFINE st == [r \in Releases |-> row[r].status]
<1>1. Init => Lifecycle!Init
  BY DEF Init, Lifecycle!Init, NoRow
<1>2. TypeOK /\ TypeOK' /\ [Next]_vars => [Lifecycle!Next]_st
  <2> SUFFICES ASSUME TypeOK, TypeOK', [Next]_vars PROVE [Lifecycle!Next]_st
    OBVIOUS
  <2>1. CASE UNCHANGED vars
    BY <2>1 DEF vars
  <2>2. CASE Next
    <3>1. st' \in [Releases -> Lifecycle!Statuses]
      BY DEF TypeOK, Lifecycle!Statuses
    <3>2. \A q \in Releases : st'[q] \in Lifecycle!Reachable(st[q])
      BY <2>2, RowSteps
    <3>3. QED
      BY <3>1, <3>2 DEF Lifecycle!Next, Lifecycle!Commit
  <2>3. QED
    BY <2>1, <2>2
<1>3. QED
  BY <1>1, <1>2, TypeCorrect, PTL DEF Spec, LifecycleSpec, Lifecycle!Spec

-----------------------------------------------------------------------------
\* is_upgrade is never asked about a format the book owns and answers yes: the
\* best owned format scores at least as much.
LEMMA OwnedIsNoUpgrade ==
  ASSUME NEW S \in SUBSET TextFormats, NEW f \in S
  PROVE  ~IsUpgrade(BestFormat(S), f)
<1>1. BestFormat(S) \in S /\ FormatScore(f) <= FormatScore(BestFormat(S))
  BY BestFormatIsBest
<1>2. BestFormat(S) # NoFormat
  BY <1>1, AcquisitionAssumption
<1>3. \A g \in TextFormats : FormatScore(g) \in Int
  BY DEF TextFormats, FormatScore, TextScore, Allowed
<1>4. QED
  BY <1>1, <1>2, <1>3 DEF IsUpgrade

\* The RSS loop never queues a release in a format its book owns, whatever the
\* book collected: the exception match_release makes for upgrades cannot fire.
THEOREM OwnedIsNotRegrabbed == Spec => OwnedNotRegrabbed
<1>1. ASSUME TypeOK, NEW i \in Indexers, RssSync(i), NEW r \in Releases,
             row[r].status = "absent", row'[r].status = "queued", Facts[r].fmt # NoFormat
      PROVE  Facts[r].fmt \notin owned[row'[r].book]
  <2>1. Matches(r) /\ row'[r] = Queued(BookOf[r])
    BY <1>1 DEF RssSync
  <2>2. row'[r].book = BookOf[r] /\ owned[BookOf[r]] \in SUBSET TextFormats
    BY <2>1, <1>1, AcquisitionAssumption DEF Queued, TypeOK
  <2>3. QED
    BY <1>1, <2>1, <2>2, OwnedIsNoUpgrade DEF Matches, BookHasFormat
<1>2. TypeOK /\ [Next]_vars =>
        [\A i \in Indexers : RssSync(i) =>
           \A r \in Releases :
             row[r].status = "absent" /\ row'[r].status = "queued" /\ Facts[r].fmt # NoFormat
               => Facts[r].fmt \notin owned[row'[r].book]]_vars
  BY <1>1
<1>3. QED
  BY <1>2, TypeCorrect, PTL DEF Spec, OwnedNotRegrabbed
-----------------------------------------------------------------------------
\* A set of numbers that is not empty has a least member: of the intervals
\* that end in a member one is minimal.
LEMMA LeastExists ==
  ASSUME NEW T \in SUBSET Nat, T # {}
  PROVE  \E n \in T : \A m \in T : n <= m
<1> DEFINE Ends == {0 .. n : n \in T}
<1>1. Ends \subseteq FiniteSubsetsOf(Nat)
  <2>1. ASSUME NEW n \in T PROVE 0 .. n \in FiniteSubsetsOf(Nat)
    BY FS_Interval DEF FiniteSubsetsOf
  <2>2. QED
    BY <2>1
<1>2. Ends # {}
  OBVIOUS
<1> HIDE DEF Ends
<1>3. PICK I \in Ends : \A J \in Ends : <<J, I>> \notin StrictSubsetOrdering(Nat)
  BY <1>1, <1>2, WFMin, FS_StrictSubsetOrderingWellFounded
<1>4. PICK n \in T : I = 0 .. n
  BY DEF Ends
<1>5. ASSUME NEW m \in T, m < n PROVE FALSE
  <2>1. 0 .. m \in Ends
    BY DEF Ends
  <2>2. 0 .. m \subseteq 0 .. n /\ n \in 0 .. n /\ n \notin 0 .. m
    BY <1>5
  <2>3. <<0 .. m, I>> \in StrictSubsetOrdering(Nat)
    BY <1>4, <2>2 DEF StrictSubsetOrdering
  <2>4. QED
    BY <1>3, <2>1, <2>3
<1>6. QED
  BY <1>5

\* Induction up to N, over a set: what holds at 0 and passes from each number
\* to the next holds at all of them.
LEMMA UpTo ==
  ASSUME NEW N \in Nat, NEW T, 0 \in T, \A n \in 1 .. N : n - 1 \in T => n \in T
  PROVE  0 .. N \subseteq T
<1> DEFINE Rest == (0 .. N) \ T
<1>1. SUFFICES ASSUME Rest # {} PROVE FALSE
  OBVIOUS
<1>2. Rest \in SUBSET Nat
  OBVIOUS
<1>3. PICK n \in Rest : \A m \in Rest : n <= m
  BY <1>1, <1>2, LeastExists
<1>4. n \in 1 .. N /\ n - 1 \in 0 .. N
  BY <1>3
<1>5. n - 1 \in T
  BY <1>3, <1>4
<1>6. QED
  BY <1>3, <1>4, <1>5

\* f holds the values of an iteration: step[n] says what becomes, at position
\* n, of the value before it.
Iterates(f, N, base, step) == f[0] = base /\ \A n \in 1 .. N : f[n] = step[n][f[n - 1]]

\* A definition by iteration has a solution.
LEMMA IterationExists ==
  ASSUME NEW N \in Nat, NEW S, NEW base \in S, NEW step \in [1 .. N -> [S -> S]]
  PROVE  \E f \in [0 .. N -> S] : Iterates(f, N, base, step)
<1> DEFINE Solves(f, n) == Iterates(f, n, base, step)
           T == {n \in 0 .. N : \E f \in [0 .. N -> S] : Solves(f, n)}
<1> USE DEF Iterates
<1>1. 0 \in T
  <2> DEFINE g == [n \in 0 .. N |-> base]
  <2>1. g \in [0 .. N -> S] /\ Solves(g, 0) /\ 0 \in 0 .. N
    OBVIOUS
  <2> HIDE DEF g, Solves
  <2>2. QED
    BY <2>1
<1>2. ASSUME NEW n \in 1 .. N, n - 1 \in T PROVE n \in T
  <2>1. PICK f \in [0 .. N -> S] : Solves(f, n - 1)
    BY <1>2
  <2> DEFINE g == [f EXCEPT ![n] = step[n][f[n - 1]]]
  <2>2. n - 1 \in 0 .. N /\ step[n][f[n - 1]] \in S
    OBVIOUS
  <2>3. g \in [0 .. N -> S]
    BY <2>2
  <2>4. g[0] = base
    BY <2>1
  <2>5. ASSUME NEW m \in 1 .. n PROVE g[m] = step[m][g[m - 1]]
    <3>1. m - 1 \in 0 .. N /\ m - 1 # n /\ g[m - 1] = f[m - 1]
      OBVIOUS
    <3>2. CASE m = n
      BY <3>1, <3>2
    <3>3. CASE m \in 1 .. (n - 1)
      BY <2>1, <3>1, <3>3
    <3>4. QED
      BY <3>2, <3>3
  <2>6. Solves(g, n) /\ n \in 0 .. N
    BY <2>4, <2>5
  <2>7. QED
    BY <2>3, <2>6
<1>3. N \in T
  <2>1. \A n \in 1 .. N : n - 1 \in T => n \in T
    BY <1>2
  <2> HIDE DEF T
  <2>2. 0 .. N \subseteq T
    BY <1>1, <2>1, UpTo
  <2>3. QED
    BY <2>2
<1>4. QED
  BY <1>3

\* The number of fields a candidate is ranked by.
LEMMA ScoreType ==
  ASSUME NEW c \in Candidate
  PROVE  /\ DOMAIN Score(c) = 1 .. 8 /\ \A i \in 1 .. 8 : Score(c)[i] \in Int
         /\ FormatScore(c.fmt) \in 0 .. 100
<1>1. FormatScore(c.fmt) \in 0 .. 100
  BY DEF FormatScore, TextScore, Allowed
<1>2. ProtocolRank(c.protocol) \in Int
  BY DEF Candidate, Protocols, ProtocolRank
<1>3. QED
  BY <1>1, <1>2 DEF Score, Candidate

\* The order of tuples, spelled out for eight fields.
LEMMA GreaterCases ==
  ASSUME NEW s, NEW t, DOMAIN s = 1 .. 8, DOMAIN t = 1 .. 8
  PROVE  Greater(s, t) <=>
           \/ s[1] > t[1]
           \/ s[1] = t[1] /\ s[2] > t[2]
           \/ s[1] = t[1] /\ s[2] = t[2] /\ s[3] > t[3]
           \/ s[1] = t[1] /\ s[2] = t[2] /\ s[3] = t[3] /\ s[4] > t[4]
           \/ s[1] = t[1] /\ s[2] = t[2] /\ s[3] = t[3] /\ s[4] = t[4] /\ s[5] > t[5]
           \/ s[1] = t[1] /\ s[2] = t[2] /\ s[3] = t[3] /\ s[4] = t[4] /\ s[5] = t[5] /\ s[6] > t[6]
           \/ s[1] = t[1] /\ s[2] = t[2] /\ s[3] = t[3] /\ s[4] = t[4] /\ s[5] = t[5] /\ s[6] = t[6]
              /\ s[7] > t[7]
           \/ s[1] = t[1] /\ s[2] = t[2] /\ s[3] = t[3] /\ s[4] = t[4] /\ s[5] = t[5] /\ s[6] = t[6]
              /\ s[7] = t[7] /\ s[8] > t[8]
<1> DEFINE First(i) == s[i] > t[i] /\ \A j \in 1 .. (i - 1) : s[j] = t[j]
<1>1. Greater(s, t) <=> \E i \in 1 .. 8 : First(i)
  BY DEF Greater
<1>2. (\E i \in 1 .. 8 : First(i)) <=>
        First(1) \/ First(2) \/ First(3) \/ First(4) \/ First(5) \/ First(6) \/ First(7) \/ First(8)
  <2> HIDE DEF First
  <2>1. \A i \in 1 .. 8 : i = 1 \/ i = 2 \/ i = 3 \/ i = 4 \/ i = 5 \/ i = 6 \/ i = 7 \/ i = 8
    OBVIOUS
  <2>2. QED
    BY <2>1
<1>3. QED
  BY <1>1, <1>2

\* max() ranks candidates by a strict order.
Beats(c, d) == Greater(Score(c), Score(d))

LEMMA BeatsIsStrict ==
  ASSUME NEW a \in Candidate, NEW b \in Candidate, NEW c \in Candidate
  PROVE  ~Beats(a, a) /\ (Beats(a, b) /\ Beats(b, c) => Beats(a, c))
<1> DEFINE p == Score(a)  q == Score(b)  r == Score(c)
<1>1. /\ DOMAIN p = 1 .. 8 /\ DOMAIN q = 1 .. 8 /\ DOMAIN r = 1 .. 8
      /\ \A i \in 1 .. 8 : p[i] \in Int /\ q[i] \in Int /\ r[i] \in Int
  BY ScoreType
<1> HIDE DEF p, q, r
<1>2. ~Greater(p, p)
  BY <1>1, GreaterCases
<1>3. Greater(p, q) /\ Greater(q, r) => Greater(p, r)
  BY <1>1, GreaterCases
<1>4. QED
  BY <1>2, <1>3 DEF Beats, p, q, r

\* What max() has found among the first n candidates.
Best(w, n, cs) ==
  \/ w = Nothing /\ \A m \in 1 .. n : ~Eligible(cs[m])
  \/ /\ \E m \in 1 .. n : w = cs[m]
     /\ Eligible(w)
     /\ \A m \in 1 .. n : Eligible(cs[m]) => ~Beats(cs[m], w)

\* One more candidate: the best so far stays, or is beaten and with it all that
\* did not beat it.
LEMMA BetterIsBest ==
  ASSUME NEW cs \in Seq(Candidate), NEW n \in 1 .. Len(cs), NEW w, Best(w, n - 1, cs)
  PROVE  Best(Better(w, cs[n]), n, cs)
<1>1. \A m \in 1 .. Len(cs) : cs[m] \in Candidate
  OBVIOUS
<1>2. cs[n] # Nothing
  BY <1>1, AcquisitionAssumption
<1>3. \A m \in 1 .. n : m = n \/ m \in 1 .. (n - 1)
  OBVIOUS
<1>4. 1 .. (n - 1) \subseteq 1 .. n /\ n \in 1 .. n /\ 1 .. n \subseteq 1 .. Len(cs)
  OBVIOUS
<1> DEFINE c == cs[n]
<1>5. CASE ~Eligible(c)
  BY <1>3, <1>4, <1>5 DEF Best, Better
<1>6. CASE Eligible(c) /\ w = Nothing
  <2>1. Better(w, c) = c
    BY <1>6 DEF Better
  <2>2. \A m \in 1 .. (n - 1) : ~Eligible(cs[m])
    BY <1>1, <1>4, <1>6, AcquisitionAssumption DEF Best
  <2>3. \A m \in 1 .. n : Eligible(cs[m]) => ~Beats(cs[m], c)
    BY <1>1, <1>3, <1>4, <2>2, BeatsIsStrict
  <2>4. QED
    BY <1>4, <1>6, <2>1, <2>3 DEF Best
<1>7. CASE Eligible(c) /\ w # Nothing
  <2>1. PICK k \in 1 .. (n - 1) : w = cs[k]
    BY <1>7 DEF Best
  <2>2. Eligible(w) /\ \A m \in 1 .. (n - 1) : Eligible(cs[m]) => ~Beats(cs[m], w)
    BY <1>7 DEF Best
  <2>3. w \in Candidate /\ c \in Candidate
    BY <1>1, <1>4, <2>1
  <2>4. CASE Beats(c, w)
    <3>1. Better(w, c) = c
      BY <1>7, <2>4 DEF Better, Beats
    <3>2. \A m \in 1 .. n : Eligible(cs[m]) => ~Beats(cs[m], c)
      BY <1>1, <1>3, <1>4, <2>2, <2>3, <2>4, BeatsIsStrict
    <3>3. QED
      BY <1>4, <1>7, <3>1, <3>2 DEF Best
  <2>5. CASE ~Beats(c, w)
    <3>1. Better(w, c) = w
      BY <1>7, <2>5 DEF Better, Beats
    <3>2. \A m \in 1 .. n : Eligible(cs[m]) => ~Beats(cs[m], w)
      BY <1>3, <2>2, <2>5
    <3>3. QED
      BY <1>4, <2>1, <2>2, <3>1, <3>2 DEF Best
  <2>6. QED
    BY <2>4, <2>5
<1>8. QED
  BY <1>5, <1>6, <1>7

\* pick_best finds the best of the candidates, however many there are.
LEMMA PickBestIsBest ==
  ASSUME NEW cs \in Seq(Candidate)
  PROVE  Best(PickBest(cs), Len(cs), cs)
<1> DEFINE N == Len(cs)
           S == Candidate \cup {Nothing}
           step == [n \in 1 .. N |-> [w \in S |-> Better(w, cs[n])]]
           Solution(f) == f = [n \in 0 .. N |-> IF n = 0 THEN Nothing ELSE Better(f[n - 1], cs[n])]
           best == CHOOSE f : Solution(f)
<1>1. N \in Nat /\ \A n \in 1 .. N : cs[n] \in Candidate
  OBVIOUS
<1>2. step \in [1 .. N -> [S -> S]]
  BY <1>1 DEF Better
<1>3. PICK f \in [0 .. N -> S] : Iterates(f, N, Nothing, step)
  <2>1. N \in Nat /\ Nothing \in S
    BY <1>1
  <2> HIDE DEF step, N, S
  <2>2. QED
    BY <1>2, <2>1, IterationExists
<1>4. \A n \in 1 .. N : f[n] = Better(f[n - 1], cs[n])
  <2> SUFFICES ASSUME NEW n \in 1 .. N PROVE f[n] = Better(f[n - 1], cs[n])
    OBVIOUS
  <2>1. n - 1 \in 0 .. N /\ f[n - 1] \in S
    BY <1>1
  <2>2. QED
    BY <1>3, <2>1 DEF Iterates
<1>5. Solution(f)
  BY <1>1, <1>3, <1>4 DEF Iterates
<1>6. Solution(best)
  <2> HIDE DEF Solution
  <2>1. QED
    BY <1>5
<1>7. PickBest(cs) = best[N]
  BY DEF PickBest
<1> HIDE DEF best
<1>8. best[0] = Nothing /\ \A n \in 1 .. N : best[n] = Better(best[n - 1], cs[n])
  BY <1>1, <1>6
<1> DEFINE T == {n \in 0 .. N : Best(best[n], n, cs)}
<1>9. 0 \in T
  BY <1>1, <1>8 DEF Best
<1>10. \A n \in 1 .. N : n - 1 \in T => n \in T
  BY <1>1, <1>8, BetterIsBest
<1>11. N \in T
  <2>1. N \in Nat /\ N \in 0 .. N
    BY <1>1
  <2> HIDE DEF T, N
  <2>2. 0 .. N \subseteq T
    BY <1>9, <1>10, <2>1, UpTo
  <2>3. QED
    BY <2>1, <2>2
<1>12. QED
  BY <1>7, <1>11

\* A function on the first n numbers is a sequence.
LEMMA IsSequence ==
  ASSUME NEW X, NEW n \in Nat, NEW f \in [1 .. n -> X]
  PROVE  f \in Seq(X)
OBVIOUS

\* Sequences of elements of X, one after the other, are a sequence of them.
LEMMA FlattenType ==
  ASSUME NEW X, NEW seqs \in Seq(Seq(X))
  PROVE  FlattenSeq(seqs) \in Seq(X)
<1> DEFINE N == Len(seqs)
           step == [n \in 1 .. N |-> [t \in Seq(X) |-> t \o seqs[n]]]
           Solution(f) == f = [n \in 1 .. N |-> IF n = 1 THEN seqs[n] ELSE f[n - 1] \o seqs[n]]
           flat == CHOOSE f : Solution(f)
<1>1. N \in Nat /\ \A n \in 1 .. N : seqs[n] \in Seq(X)
  OBVIOUS
<1>2. CASE N = 0
  BY <1>2 DEF FlattenSeq
<1>3. CASE N # 0
  <2>1. PICK f \in [0 .. N -> Seq(X)] : Iterates(f, N, <<>>, step)
    <3>1. N \in Nat /\ <<>> \in Seq(X) /\ step \in [1 .. N -> [Seq(X) -> Seq(X)]]
      BY <1>1
    <3> HIDE DEF step, N
    <3>2. QED
      BY <3>1, IterationExists
  <2>2. ASSUME NEW n \in 1 .. N
        PROVE  f[n] = IF n = 1 THEN seqs[n] ELSE f[n - 1] \o seqs[n]
    <3>1. f[n - 1] \in Seq(X) /\ seqs[n] \in Seq(X)
      <4>1. n - 1 \in 0 .. N
        BY <1>1
      <4> HIDE DEF N
      <4>2. QED
        BY <1>1, <4>1
    <3>2. f[n] = f[n - 1] \o seqs[n]
      BY <2>1, <3>1 DEF Iterates
    <3>3. CASE n = 1
      <4>1. f[n - 1] = <<>>
        BY <2>1, <3>3 DEF Iterates
      <4>2. QED
        BY <3>1, <3>2, <3>3, <4>1
    <3>4. QED
      BY <3>2, <3>3
  <2>3. Solution([n \in 1 .. N |-> f[n]])
    BY <1>1, <2>2
  <2>4. Solution(flat)
    <3> HIDE DEF Solution
    <3>1. QED
      BY <2>3
  <2>5. FlattenSeq(seqs) = flat[N]
    BY <1>3 DEF FlattenSeq
  <2> HIDE DEF flat
  <2>6. \A n \in 1 .. N : flat[n] = IF n = 1 THEN seqs[n] ELSE flat[n - 1] \o seqs[n]
    BY <1>1, <2>4
  <2> DEFINE T == {n \in 0 .. N : n = 0 \/ flat[n] \in Seq(X)}
  <2>7. 0 \in T
    BY <1>1
  <2>8. ASSUME NEW n \in 1 .. N, n - 1 \in T PROVE n \in T
    <3>1. seqs[n] \in Seq(X) /\ n \in 0 .. N /\ (n = 1 \/ flat[n - 1] \in Seq(X))
      BY <1>1, <2>8
    <3>2. flat[n] = IF n = 1 THEN seqs[n] ELSE flat[n - 1] \o seqs[n]
      BY <2>6
    <3> HIDE DEF N
    <3>3. flat[n] \in Seq(X)
      BY <3>1, <3>2
    <3>4. QED
      BY <3>1, <3>3
  <2>9. N \in T
    <3>1. N \in Nat /\ N \in 0 .. N
      BY <1>1
    <3>2. \A n \in 1 .. N : n - 1 \in T => n \in T
      BY <2>8
    <3> HIDE DEF T, N
    <3>3. 0 .. N \subseteq T
      BY <2>7, <3>1, <3>2, UpTo
    <3>4. QED
      BY <3>1, <3>3
  <2>10. QED
    BY <1>3, <2>5, <2>9
<1>4. QED
  BY <1>2, <1>3

\* What a search weighs are candidates.
LEMMA CandidatesType ==
  ASSUME TypeOK, NEW b \in Books, NEW up
  PROVE  Candidates(b, up) \in Seq(Candidate)
<1>1. ASSUME NEW i \in Indexers PROVE Turn(i, b) \in Seq(Candidate)
  <2> DEFINE Offer(r) == IF Facts[r].junk THEN <<>>
                         ELSE <<Normalized(r, Facts[r], indexer[i].priority)>>
             R == Results[i][b]
  <2>1. R \in Seq(Releases)
    <3>1. Results[i] \in [Books -> Seq(Releases)]
      BY AcquisitionAssumption
    <3>2. QED
      BY <3>1
  <2>2. indexer[i].priority \in Int
    BY AcquisitionAssumption DEF TypeOK
  <2>3. ASSUME NEW r \in Releases PROVE Offer(r) \in Seq(Candidate)
    <3>1. Normalized(r, Facts[r], indexer[i].priority) \in Candidate
      BY <2>2, AcquisitionAssumption DEF Normalized, Candidate, Entry
    <3>2. QED
      BY <3>1
  <2>4. [n \in DOMAIN R |-> Offer(R[n])] \in Seq(Seq(Candidate))
    <3> HIDE DEF R, Offer
    <3>1. Len(R) \in Nat /\ DOMAIN R = 1 .. Len(R) /\ \A n \in DOMAIN R : R[n] \in Releases
      BY <2>1
    <3>2. [n \in DOMAIN R |-> Offer(R[n])] \in [1 .. Len(R) -> Seq(Candidate)]
      BY <2>3, <3>1
    <3>3. QED
      BY <3>1, <3>2, IsSequence
  <2>5. QED
    BY <2>4, FlattenType DEF Turn
<1>2. [n \in DOMAIN RowOrder |-> IF RowOrder[n] \in up THEN Turn(RowOrder[n], b) ELSE <<>>]
        \in Seq(Seq(Candidate))
  <2>1. /\ Len(RowOrder) \in Nat /\ DOMAIN RowOrder = 1 .. Len(RowOrder)
        /\ \A n \in DOMAIN RowOrder : RowOrder[n] \in Indexers
    BY AcquisitionAssumption
  <2>2. [n \in DOMAIN RowOrder |-> IF RowOrder[n] \in up THEN Turn(RowOrder[n], b) ELSE <<>>]
          \in [1 .. Len(RowOrder) -> Seq(Candidate)]
    BY <1>1, <2>1
  <2>3. QED
    BY <2>1, <2>2, IsSequence
<1>3. QED
  BY <1>2, FlattenType DEF Candidates

\* Whoever precedes another candidate in the documented order beats it.
LEMMA PreferredBeats ==
  ASSUME NEW a \in Candidate, NEW c \in Candidate, Prefer(a, c)
  PROVE  Beats(a, c)
<1> DEFINE s == Score(a)  t == Score(c)
<1>1. /\ DOMAIN s = 1 .. 8 /\ DOMAIN t = 1 .. 8
      /\ FormatScore(a.fmt) \in Int /\ FormatScore(c.fmt) \in Int
  BY ScoreType
<1>2. /\ s[1] = FormatScore(a.fmt) /\ s[2] = a.custom /\ s[3] = ProtocolRank(a.protocol)
      /\ s[4] = (IF a.manual THEN 0 ELSE 1) /\ s[5] = -a.priority /\ s[6] = a.seeders
      /\ s[7] = -a.age /\ s[8] = -a.size
  BY DEF Score
<1>3. /\ t[1] = FormatScore(c.fmt) /\ t[2] = c.custom /\ t[3] = ProtocolRank(c.protocol)
      /\ t[4] = (IF c.manual THEN 0 ELSE 1) /\ t[5] = -c.priority /\ t[6] = c.seeders
      /\ t[7] = -c.age /\ t[8] = -c.size
  BY DEF Score
<1> HIDE DEF s, t
<1>4. Greater(s, t)
  BY <1>1, <1>2, <1>3, GreaterCases DEF Prefer, Candidate
<1>5. QED
  BY <1>4 DEF Beats, s, t

\* A search settles on a candidate that none precedes, for any offers of any
\* number of indexers, however they are ranked, and on a link to follow by
\* hand only when no allowed format was offered.
THEOREM SearchIsBest == Spec => []SearchPicksBest
<1> DEFINE Ok(cs) == {c \in Range(cs) : Eligible(c)}
           Settled(cs, w) ==
             IF Ok(cs) = {} THEN w = Nothing
             ELSE /\ w \in Ok(cs)
                  /\ \A c \in Ok(cs) : ~Prefer(c, w)
                  /\ FormatScore(w.fmt) = 0 => \A c \in Range(cs) : FormatScore(c.fmt) = 0
<1>1. TypeOK => SearchPicksBest
  <2> SUFFICES ASSUME TypeOK, NEW b \in Books, NEW up \in SUBSET Enabled
               PROVE  Settled(Candidates(b, up), PickBest(Candidates(b, up)))
    BY DEF SearchPicksBest
  <2> DEFINE cs == Candidates(b, up)
             ok == Ok(cs)
             w  == PickBest(cs)
  <2>1. cs \in Seq(Candidate)
    BY CandidatesType
  <2> HIDE DEF cs
  <2>2. Best(w, Len(cs), cs)
    BY <2>1, PickBestIsBest
  <2> HIDE DEF w
  <2>3. Range(cs) = {cs[n] : n \in 1 .. Len(cs)} /\ Range(cs) \subseteq Candidate
    BY <2>1 DEF Range
  <2>4. ASSUME w = Nothing PROVE Settled(cs, w)
    <3>1. ok = {}
      BY <2>2, <2>3, <2>4, AcquisitionAssumption DEF Best
    <3>2. QED
      BY <2>4, <3>1
  <2>5. ASSUME w # Nothing PROVE Settled(cs, w)
    <3>1. w \in ok /\ w \in Candidate /\ \A c \in ok : ~Beats(c, w)
      BY <2>2, <2>3, <2>5 DEF Best
    <3>2. \A c \in ok : ~Prefer(c, w)
      BY <2>3, <3>1, PreferredBeats
    <3>3. ASSUME FormatScore(w.fmt) = 0, NEW c \in Range(cs) PROVE FormatScore(c.fmt) = 0
      <4>1. CASE FormatScore(c.fmt) > 0
        <5>1. c \in ok /\ Prefer(c, w)
          BY <3>3, <4>1 DEF Eligible, Prefer
        <5>2. QED
          BY <3>2, <5>1
      <4>2. FormatScore(c.fmt) \in 0 .. 100
        BY <2>3, ScoreType
      <4>3. QED
        BY <4>1, <4>2
    <3>4. QED
      BY <3>1, <3>2, <3>3
  <2>6. QED
    BY <2>4, <2>5 DEF cs, w
<1>2. QED
  BY <1>1, TypeCorrect, PTL
=============================================================================
