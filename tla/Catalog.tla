------------------------------- MODULE Catalog -------------------------------
(***************************************************************************)
(* How books get into the catalogue and how its search index follows:      *)
(* discovery (discovery.py import_works, evaluate_lists, the import and    *)
(* request routes), the library scan (library_scan.py), the Calibre import *)
(* (calibre_import.py), edits through the API (patch_book) and the         *)
(* full-text index (fts.py), all writing the tables of one database.       *)
(*                                                                         *)
(* A title stands for its normal form (normalize_text) and an author name  *)
(* for one spelling of it, Fold giving its normal form: the code compares  *)
(* names sometimes by spelling and sometimes folded.  The subject rows are *)
(* left to Enrichment: nothing here reads them.                            *)
(***************************************************************************)
EXTENDS Naturals, SequencesExt

CONSTANTS
  Titles, Names,
  Fold,         \* spelling of an author's name -> its normal form
  Lists,        \* discovery_lists rows in table order: [query, works]
  Picks,        \* what POST /discovery/import may be sent
  Wishes,       \* the works requests resolve to
  Library,      \* files under the library root, sorted: [path, title, name, isbn, fmt]
  Calibre,      \* entries of a Calibre library: [path, title, name, fmt]
  Editors,      \* API sessions that edit books
  Edited,       \* bound: the books they open
  MaxEdits,     \* bound on edits
  None

VARIABLES
  db,         \* authors, books, editions, files and book_fts rows
  importer,   \* what each run of import_works has read
  at,         \* evaluate_lists' position in Lists
  wish,       \* history rows of kind "request": <<work, book>>
  editor,     \* the book each editor has loaded, and its text then
  edits

vars == <<db, importer, at, wish, editor, edits>>

Importers == {"lists", "api"}
Idle      == [works |-> None, known |-> {}]
Absent    == [heading |-> None, desc |-> None]
Wordings  == {"first", "edited"}

Works     == [title : Titles, name : Names \cup {None}]

ASSUME CatalogAssumption ==
  /\ DOMAIN Fold = Names /\ \A n \in Names : Fold[n] # None
  /\ None \notin Names \cup Titles \cup Nat /\ MaxEdits \in Nat
  /\ Lists \in Seq([query : {"good", "not json", "unknown key"}, works : Seq(Works)]) \ {<<>>}
  /\ Picks \subseteq Seq(Works) /\ Wishes \subseteq Works
  /\ Library \in Seq(ToSet(Library)) /\ Calibre \in Seq(ToSet(Calibre))
  /\ \A n \in DOMAIN Library : /\ Library[n].title \in Titles \cup {None}
                                /\ Library[n].name \in Names \cup {None}
  /\ \A n \in DOMAIN Calibre : Calibre[n].title \in Titles /\ Calibre[n].name \in Names

-----------------------------------------------------------------------------
(* Reading the tables. *)
BookIds(d)   == DOMAIN d.books
NameOf(d, b) == IF d.books[b].author = 0 THEN None ELSE d.authors[d.books[b].author]
Folded(name) == IF name = None THEN None ELSE Fold[name]
WorkKey(w)   == <<w.title, Folded(w.name)>>
BookKey(d, b) == <<d.books[b].title, Folded(NameOf(d, b))>>
Keys(d)      == {BookKey(d, b) : b \in BookIds(d)}
Text(d, b)   == [heading |-> d.books[b].heading, desc |-> d.books[b].desc]
BookOfFile(d, path) == d.editions[d.files[path]].book
First(S)     == CHOOSE n \in S : \A m \in S : n <= m

(* Writing them: each returns the database and leaves the new id last.     *)
Spelled(d, name) == {a \in DOMAIN d.authors : d.authors[a] = name}
SameName(d, name) == {a \in DOMAIN d.authors : Fold[d.authors[a]] = Fold[name]}
AddAuthor(d, name, found) ==
  IF name = None \/ found # {} THEN d ELSE [d EXCEPT !.authors = Append(@, name)]
AuthorId(d, name, found) ==
  IF name = None THEN 0 ELSE IF found # {} THEN First(found) ELSE Len(d.authors) + 1

AddBook(d, title, author) ==
  [d EXCEPT !.books = Append(@, [title |-> title, author |-> author, heading |-> "first",
                                 desc |-> None]),
            !.fts = Append(@, Absent)]
AddEdition(d, b, isbn, fmt) ==
  [d EXCEPT !.editions = Append(@, [book |-> b, isbn |-> isbn, fmt |-> fmt])]
AddFile(d, path, e) ==
  [d EXCEPT !.files = [p \in DOMAIN @ \cup {path} |-> IF p = path THEN e ELSE @[p]]]

ReindexBook(d, b, text) == [d EXCEPT !.fts[b] = text]

-----------------------------------------------------------------------------
(* discovery.py import_works: the keys of the books are read once; authors *)
(* are looked up by their spelling; nothing is indexed.                    *)
SlipImportWork(acc, w) ==              \* existing.add(key) forgotten
  LET found == Spelled(acc.d, w.name)
      d1    == AddAuthor(acc.d, w.name, found)
  IN IF WorkKey(w) \in acc.known THEN acc
     ELSE [acc EXCEPT !.d = AddBook(d1, w.title, AuthorId(acc.d, w.name, found))]
ImportWork(acc, w) ==
  LET found == Spelled(acc.d, w.name)
      d1    == AddAuthor(acc.d, w.name, found)
  IN IF WorkKey(w) \in acc.known THEN acc
     ELSE [d |-> AddBook(d1, w.title, AuthorId(acc.d, w.name, found)),
           known |-> acc.known \cup {WorkKey(w)}]
ImportWorks(d, known, works) ==
  LET acc[n \in 0..Len(works)] ==
        IF n = 0 THEN [d |-> d, known |-> known] ELSE ImportWork(acc[n - 1], works[n])
  IN acc[Len(works)].d

(* library_scan.py upsert_file: authors are compared folded, the first row *)
(* wins, and only the books of that row are looked at; an ISBN finds its   *)
(* edition wherever it is.                                                 *)
SlipFindBook(d, author, title) ==      \* the author is not part of the lookup
  {b \in BookIds(d) : d.books[b].title = title}
FindBook(d, author, title) ==
  {b \in BookIds(d) : d.books[b].author = author /\ d.books[b].title = title}
UpsertEdition(d, b, f) ==
  {e \in DOMAIN d.editions :
     IF f.isbn # None THEN d.editions[e].isbn = f.isbn
     ELSE d.editions[e].book = b /\ d.editions[e].fmt = f.fmt}
UpsertFile(d, f) ==
  LET same   == IF f.name = None THEN {} ELSE SameName(d, f.name)
      author == AuthorId(d, f.name, same)
      d1     == AddAuthor(d, f.name, same)
      books  == FindBook(d1, author, f.title)
      d2     == IF books # {} THEN d1 ELSE AddBook(d1, f.title, author)
      b      == IF books # {} THEN First(books) ELSE Len(d2.books)
      eds    == UpsertEdition(d2, b, f)
      d3     == IF eds # {} THEN d2 ELSE AddEdition(d2, b, f.isbn, f.fmt)
      e      == IF eds # {} THEN First(eds) ELSE Len(d3.editions)
  IN IF f.path \in DOMAIN d.files \/ f.title = None THEN d
     ELSE ReindexBook(AddFile(d3, f.path, e), b, Text(d3, b))
Scanned(d) ==
  LET done[n \in 0..Len(Library)] == IF n = 0 THEN d ELSE UpsertFile(done[n - 1], Library[n])
  IN done[Len(Library)]

(* calibre_import.py, one entry: authors by spelling, books by both names  *)
(* folded, and the first edition of the book whatever its format.          *)
CalibreEntry(d, f) ==
  LET found == Spelled(d, f.name)
      d1    == AddAuthor(d, f.name, found)
      books == {b \in BookIds(d1) : BookKey(d1, b) = WorkKey(f)}
      b     == IF books # {} THEN First(books) ELSE Len(d1.books) + 1
      d2    == IF books # {} THEN d1
               ELSE ReindexBook(AddBook(d1, f.title, AuthorId(d, f.name, found)), b,
                                [heading |-> "first", desc |-> None])
      eds   == {e \in DOMAIN d2.editions : d2.editions[e].book = b}
      d3    == IF eds # {} THEN d2 ELSE AddEdition(d2, b, None, f.fmt)
      e     == IF eds # {} THEN First(eds) ELSE Len(d3.editions)
  IN IF f.path \in DOMAIN d.files THEN d ELSE AddFile(d3, f.path, e)
Imported(d) ==
  LET done[n \in 0..Len(Calibre)] == IF n = 0 THEN d ELSE CalibreEntry(done[n - 1], Calibre[n])
  IN done[Len(Calibre)]

-----------------------------------------------------------------------------
EmptyDb == [authors |-> <<>>, books |-> <<>>, editions |-> <<>>, files |-> <<>>, fts |-> <<>>]
Init ==
  /\ db = EmptyDb
  /\ importer = [p \in Importers |-> Idle]
  /\ at = 1
  /\ wish = {}
  /\ editor = [u \in Editors |-> None]
  /\ edits = 0

(* The first half of import_works, up to the flush that takes SQLite's     *)
(* write lock.                                                             *)
ReadKeys(p, works) == importer' = [importer EXCEPT ![p] = [works |-> works, known |-> Keys(db)]]
WriteWorks(p) ==
  /\ importer[p] # Idle
  /\ db' = ImportWorks(db, importer[p].known, importer[p].works)
  /\ importer' = [importer EXCEPT ![p] = Idle]

(* evaluate_lists.  A query that is not JSON is skipped; one with a key    *)
(* search_works does not take raises, and the next run starts over.        *)
NextList == at' = (at % Len(Lists)) + 1
SearchList(up) ==
  /\ importer["lists"] = Idle
  /\ Lists[at].query = "good"
  /\ ReadKeys("lists", IF up THEN Lists[at].works ELSE <<>>)
  /\ UNCHANGED <<db, at, wish, editor, edits>>
WriteList == WriteWorks("lists") /\ NextList /\ UNCHANGED <<wish, editor, edits>>
SlipSkipList ==                        \* a query that is not JSON ends the run
  /\ importer["lists"] = Idle
  /\ Lists[at].query # "good"
  /\ at' = 1
  /\ UNCHANGED <<db, importer, wish, editor, edits>>
SkipList ==
  /\ importer["lists"] = Idle
  /\ Lists[at].query # "good"
  /\ IF Lists[at].query = "not json" THEN NextList ELSE at' = 1
  /\ UNCHANGED <<db, importer, wish, editor, edits>>

(* POST /discovery/import sends works the user picked.                     *)
DiscoveryImport(works) ==
  /\ importer["api"] = Idle
  /\ ReadKeys("api", works)
  /\ UNCHANGED <<db, at, wish, editor, edits>>
WritePicks ==
  importer["api"].works \in Picks /\ WriteWorks("api") /\ UNCHANGED <<at, wish, editor, edits>>

(* create_request: import the work it resolved, then look it up by name;   *)
(* a work without an author is looked up by its title alone.               *)
SlipFindRequested(d, w) ==             \* looked up by title alone
  {b \in BookIds(d) : d.books[b].title = w.title}
FindRequested(d, w) ==
  {b \in BookIds(d) : d.books[b].title = w.title
                      /\ (w.name # None => BookKey(d, b) = WorkKey(w))}
CreateRequest(w) ==
  /\ importer["api"] = Idle
  /\ ReadKeys("api", <<w>>)
  /\ UNCHANGED <<db, at, wish, editor, edits>>
AnswerRequest ==
  LET w == importer["api"].works[1] IN
  /\ importer["api"].works \in {<<v>> : v \in Wishes}
  /\ WriteWorks("api")
  /\ wish' = wish \cup {<<w, IF FindRequested(db', w) = {} THEN None
                             ELSE First(FindRequested(db', w))>>}
  /\ UNCHANGED <<at, editor, edits>>

(* One transaction each.  A scan in which some file's flush fails leaves   *)
(* the Session inactive and commits nothing: it is no step of this model.  *)
ScanLibrary ==
  /\ db' = Scanned(db)
  /\ UNCHANGED <<importer, at, wish, editor, edits>>
ImportCalibre ==
  /\ db' = Imported(db)
  /\ UNCHANGED <<importer, at, wish, editor, edits>>

(* patch_book: the session loads the row, sets the fields it was sent and  *)
(* commits the columns that changed; the index gets the text it holds.     *)
LoadBook(u, b) ==
  /\ editor[u] = None /\ edits < MaxEdits
  /\ editor' = [editor EXCEPT ![u] = [book |-> b, text |-> Text(db, b)]]
  /\ edits' = edits + 1
  /\ UNCHANGED <<db, importer, at, wish>>
SlipPatchBook(u, field) ==             \* only a new title rebuilds the index row
  LET b    == editor[u].book
      text == [editor[u].text EXCEPT !["heading"] = "edited"]
  IN /\ editor[u] # None
     /\ db' = IF field = "heading" THEN ReindexBook([db EXCEPT !.books[b].heading = "edited"], b, text)
              ELSE [db EXCEPT !.books[b].desc = "edited"]
     /\ editor' = [editor EXCEPT ![u] = None]
     /\ UNCHANGED <<importer, at, wish, edits>>
PatchBook(u, field) ==
  LET b    == editor[u].book
      text == [editor[u].text EXCEPT ![field] = "edited"]
      set  == IF field = "heading" THEN [db EXCEPT !.books[b].heading = "edited"]
              ELSE [db EXCEPT !.books[b].desc = "edited"]
  IN /\ editor[u] # None
     /\ db' = ReindexBook(set, b, text)
     /\ editor' = [editor EXCEPT ![u] = None]
     /\ UNCHANGED <<importer, at, wish, edits>>

Next ==
  \/ \E up \in BOOLEAN : SearchList(up)
  \/ WriteList \/ SkipList
  \/ \E works \in Picks : DiscoveryImport(works)
  \/ WritePicks
  \/ \E w \in Wishes : CreateRequest(w)
  \/ AnswerRequest
  \/ ScanLibrary \/ ImportCalibre
  \/ \E u \in Editors : \/ \E b \in BookIds(db) \cap Edited : LoadBook(u, b)
                        \/ \E field \in {"heading", "desc"} : PatchBook(u, field)

Spec == Init /\ [][Next]_vars

(* The scheduler runs evaluate_lists on its cadence, and the providers     *)
(* answer again and again.  Nobody has to scan, import, request or edit.   *)
Fairness ==
  /\ SF_vars(SearchList(TRUE))
  /\ WF_vars(WriteList) /\ WF_vars(SkipList)
FairSpec == Spec /\ Fairness
-----------------------------------------------------------------------------
(* Properties. *)

TypeOK ==
  /\ DOMAIN db.books = DOMAIN db.fts
  /\ \A b \in BookIds(db) :
       /\ db.books[b].title \in Titles
       /\ db.books[b].author \in 0..Len(db.authors)
       /\ Text(db, b) \in [heading : Wordings, desc : {None, "edited"}]
       /\ db.fts[b] \in {Absent} \cup [heading : Wordings, desc : {None, "edited"}]
  /\ \A e \in DOMAIN db.editions : db.editions[e].book \in BookIds(db)
  /\ \A path \in DOMAIN db.files : db.files[path] \in DOMAIN db.editions
  /\ at \in DOMAIN Lists /\ edits \in 0..MaxEdits
  /\ \A p \in Importers :
       importer[p] = Idle \/ importer[p].known \subseteq Titles \X ({None} \cup {Fold[n] : n \in Names})
  /\ \A u \in Editors : editor[u] = None \/ editor[u].book \in BookIds(db)

(* A work gets a second row only in one of the two ways the code leaves    *)
(* open: an import that read the keys before another writer's commit, or a *)
(* scan of a work whose author has two rows already, spelled differently   *)
(* (discovery and Calibre look authors up by spelling, the scan folds      *)
(* names and looks at the books of the first row only).                    *)
Copies(d, k) == {b \in BookIds(d) : BookKey(d, b) = k}
TwoSpellings(d, name) ==
  \E a, c \in DOMAIN d.authors : a # c /\ Fold[d.authors[a]] = name /\ Fold[d.authors[c]] = name
NoDuplicateWorks ==
  [][\A k \in Keys(db') :
       Copies(db', k) # Copies(db, k) /\ (\E b, c \in Copies(db', k) : b # c)
       => \/ \E p \in Importers : importer'[p] # importer[p] /\ k \in Keys(db) \ importer[p].known
          \/ TwoSpellings(db, k[2])]_vars

(* An indexed book is found by its present words: whatever changes its     *)
(* text or its index row leaves the two equal, except the commit of an     *)
(* edit that had loaded the book before another edit of it was committed.  *)
OldCopy(u, b) ==
  editor[u] # None /\ editor'[u] = None /\ editor[u].book = b /\ editor[u].text # Text(db, b)
IndexFollows ==
  [][\A b \in BookIds(db) :
       Text(db', b) # Text(db, b) \/ db'.fts[b] # db.fts[b]
       => db'.fts[b] = Text(db', b) \/ \E u \in Editors : OldCopy(u, b)]_vars

(* Every file row leads to a book (TypeOK: no id names a missing row).     *)
(* A file is filed under the work its own metadata names, by whichever     *)
(* path it came in, unless it shares its ISBN with a file of another work: *)
(* the edition found by ISBN wins over title and author, and the row just  *)
(* made for the work stays without a file.                                 *)
SharesIsbn(f) ==
  \E n \in DOMAIN Library : LET g == Library[n] IN
    g.isbn # None /\ g.isbn = f.isbn /\ WorkKey(g) # WorkKey(f)
FilesUnderTheirBook ==
  /\ TypeOK
  /\ \A n \in DOMAIN Library : LET f == Library[n] IN
       f.path \in DOMAIN db.files /\ ~SharesIsbn(f)
         => BookKey(db, BookOfFile(db, f.path)) = WorkKey(f)
  /\ \A n \in DOMAIN Calibre : LET f == Calibre[n] IN
       f.path \in DOMAIN db.files => BookKey(db, BookOfFile(db, f.path)) = WorkKey(f)

(* A request ends with a row of the work it asked for, never with "not     *)
(* resolved" after the work was imported and never, when the author is     *)
(* known, with another author's book of that title.                        *)
RequestAnswered ==
  \A r \in wish : /\ r[2] # None
                   /\ r[1].name # None => BookKey(db, r[2]) = WorkKey(r[1])

(* Every work of a discovery list reaches the catalogue, although lists    *)
(* with a broken query come before it and providers fail, unless one       *)
(* before it has a query with an unknown key, which ends every run there.  *)
ListsServed ==
  \A n \in DOMAIN Lists :
    Lists[n].query = "good" /\ (\A m \in 1..n : Lists[m].query # "unknown key")
    => \A w \in ToSet(Lists[n].works) : <>[](WorkKey(w) \in Keys(db))
=============================================================================
