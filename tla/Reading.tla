------------------------------- MODULE Reading -------------------------------
(***************************************************************************)
(* What a reader's devices keep on the server: reading positions           *)
(* (api/routes.py put_progress, koreader.py koreader_progress_upload) and  *)
(* a shelf (the shelf routes).  Every handler loads the row through a      *)
(* Session of its own and commits later; the Session writes only what the  *)
(* handler changed of what it loaded: the columns whose value differs, the *)
(* books added to or missing from the collection.                          *)
(*                                                                         *)
(* A definition named Slip... is a plausible mistake in the definition     *)
(* that follows it.                                                        *)
(***************************************************************************)
EXTENDS Naturals, FiniteSets

CONSTANTS
  Devices,   \* devices of one reader, each with one request at a time
  Positions, \* values of `position` (`progress` for KOReader)
  Places,    \* values of `location` (`device` for KOReader)
  Books,     \* books a shelf may hold
  NoRow      \* no reading_progress or koreader_progress row yet

Bodies == [position : Positions, place : Places]

ASSUME ReadingAssumption == NoRow \notin Bodies

VARIABLES
  row,      \* the row of one (book, profile) or (user, document)
  shelf,    \* books of one shelf, NoRow once it is deleted
  request   \* what each device's request is, and what it has loaded

readingVars == <<row, shelf, request>>

Free == [kind |-> "free"]

ReadingInit ==
  /\ row = NoRow
  /\ shelf = {}
  /\ request = [d \in Devices |-> Free]

Ends(d) == request' = [request EXCEPT ![d] = Free]
Loads(d, r) == request' = [request EXCEPT ![d] = r]

\* A device reports its position.
Report(d, body) ==
  /\ request[d] = Free
  /\ Loads(d, [kind |-> "send", body |-> body])
  /\ UNCHANGED <<row, shelf>>

SlipStored == NoRow
\* session.get, or the SELECT by user and document.
Stored == row

Look(d) ==
  /\ request[d].kind = "send"
  /\ Loads(d, [kind |-> "put", body |-> request[d].body, loaded |-> Stored])
  /\ UNCHANGED <<row, shelf>>

\* The UPDATE names the columns whose value differs from the loaded one.
Saved(loaded, body) ==
  [row EXCEPT !.position = IF body.position = loaded.position THEN @ ELSE body.position,
              !.place = IF body.place = loaded.place THEN @ ELSE body.place]

\* Commit.  The key is unique: an insert that lost the race fails with a 500
\* and the device sends its position again.
Put(d) ==
  /\ request[d].kind = "put"
  /\ LET q == request[d]
     IN \/ /\ q.loaded = NoRow /\ row = NoRow
           /\ row' = q.body
           /\ Ends(d)
        \/ /\ q.loaded = NoRow /\ row # NoRow
           /\ Loads(d, [kind |-> "send", body |-> q.body])
           /\ UNCHANGED row
        \/ /\ q.loaded # NoRow
           /\ row' = Saved(q.loaded, q.body)
           /\ Ends(d)
  /\ UNCHANGED shelf

\* _owned_shelf loads the shelf with its books; a deleted one is a 404.
Open(d, kind, books) ==
  /\ request[d] = Free
  /\ shelf # NoRow
  /\ Loads(d, [kind |-> kind, books |-> books, loaded |-> shelf])
  /\ UNCHANGED <<row, shelf>>

\* The association rows the commit inserts and deletes.
Added(q) == IF q.kind = "add" THEN q.books \ q.loaded ELSE {}
Removed(q) ==
  CASE q.kind = "add" -> {}
    [] q.kind = "remove" -> q.loaded \cap q.books
    [] q.kind = "delete" -> q.loaded

\* (shelf_id, book_id) is the primary key, a DELETE must find its row, and a
\* shelf must exist while it has books and have none when it goes.
Applies(q) ==
  /\ shelf = NoRow => Added(q) = {} /\ Removed(q) = {} /\ q.kind # "delete"
  /\ shelf # NoRow =>
       /\ Added(q) \cap shelf = {}
       /\ Removed(q) \subseteq shelf
       /\ q.kind = "delete" => shelf = Removed(q)

SlipContents(q) == IF q.kind = "delete" THEN NoRow ELSE (q.loaded \cup Added(q)) \ Removed(q)
Contents(q) ==
  IF q.kind = "delete" \/ shelf = NoRow THEN NoRow ELSE (shelf \cup Added(q)) \ Removed(q)

\* Commit of add_shelf_books, remove_shelf_books or delete_shelf; a failed one
\* is rolled back whole and answered with a 500.
Shelve(d) ==
  /\ request[d].kind \in {"add", "remove", "delete"}
  /\ shelf' = IF Applies(request[d]) THEN Contents(request[d]) ELSE shelf
  /\ Ends(d)
  /\ UNCHANGED row

\* create_shelf, once there is none.
CreateShelf ==
  /\ shelf = NoRow
  /\ shelf' = {}
  /\ UNCHANGED <<row, request>>

ReadingNext ==
  \/ CreateShelf
  \/ \E d \in Devices :
       \/ Look(d) \/ Put(d) \/ Shelve(d)
       \/ \E body \in Bodies : Report(d, body)
       \/ \E kind \in {"add", "remove"}, books \in SUBSET Books : Open(d, kind, books)
       \/ Open(d, "delete", {})

\* A request that was begun ends, and a device sends again after a failure.
ReadingFairness == \A d \in Devices : WF_readingVars(Look(d) \/ Put(d) \/ Shelve(d))

-----------------------------------------------------------------------------
ReadingTypeOK ==
  /\ row \in Bodies \cup {NoRow}
  /\ shelf = NoRow \/ shelf \subseteq Books
  /\ \A d \in Devices :
       request[d].kind \in {"free", "send", "put", "add", "remove", "delete"}

\* A position that is sent until it is accepted is accepted: the race of two
\* first reports costs a retry, not the report.
ReportsSettle == \A d \in Devices : request[d].kind = "send" ~> request[d] = Free

\* Two devices editing one shelf do not undo each other: a book comes and
\* goes only by a request that named it, or with the shelf.
EditsCompose ==
  [][ shelf # NoRow /\ shelf' # NoRow =>
        \A b \in Books : (b \in shelf) # (b \in shelf') =>
          \E d \in Devices : /\ request[d].kind \in {"add", "remove"}
                             /\ request'[d] = Free
                             /\ b \in request[d].books ]_readingVars
=============================================================================
