----------------------------- MODULE CatalogProofs -----------------------------
(***************************************************************************)
(* Theorems about Catalog, for any library, any discovery lists, requests  *)
(* and editors: a file is filed under the work it names, requests are      *)
(* answered, a second row of a work appears only in the two known ways,    *)
(* and the index follows the text.                                         *)
(*                                                                         *)
(* Every writer is a sequence of the same five small writes (an author, a  *)
(* book, an edition, a file, an index row).  Extends says what all of them *)
(* leave as it was; it is reflexive and transitive, so it passes from each *)
(* entry of a scan or an import to the next.                               *)
(***************************************************************************)
EXTENDS Catalog, FiniteSetTheorems, TLAPS

Texts     == [heading : Wordings, desc : {None, "edited"}]
BookRows  == [title : Titles, author : Nat, heading : Wordings, desc : {None, "edited"}]
IndexRows == {Absent} \cup Texts
Isbns     == {Library[n].isbn : n \in DOMAIN Library} \cup {None}
Fmts      == {Library[n].fmt : n \in DOMAIN Library} \cup {Calibre[n].fmt : n \in DOMAIN Calibre}
Editions  == [book : Nat, isbn : Isbns, fmt : Fmts]
Paths     == {Library[n].path : n \in DOMAIN Library} \cup {Calibre[n].path : n \in DOMAIN Calibre}
FileMaps  == UNION {[P -> Nat] : P \in SUBSET Paths}
Dbs       == [authors : Seq(Names), books : Seq(BookRows), editions : Seq(Editions),
              files : FileMaps, fts : Seq(IndexRows)]

\* Rows have their types and every id in them is the id of a row.
Sound(d) ==
  /\ d \in Dbs
  /\ Len(d.fts) = Len(d.books)
  /\ \A b \in BookIds(d) : d.books[b].author \in 0 .. Len(d.authors)
  /\ \A e \in DOMAIN d.editions : d.editions[e].book \in BookIds(d)
  /\ \A p \in DOMAIN d.files : d.files[p] \in DOMAIN d.editions

\* e has the rows of d, unchanged but for the texts of books.
Kept(d, e) ==
  /\ \A a \in DOMAIN d.authors : a \in DOMAIN e.authors /\ e.authors[a] = d.authors[a]
  /\ \A b \in BookIds(d) : /\ b \in BookIds(e)
                           /\ e.books[b].title = d.books[b].title
                           /\ e.books[b].author = d.books[b].author
  /\ \A x \in DOMAIN d.editions : x \in DOMAIN e.editions /\ e.editions[x] = d.editions[x]
  /\ \A p \in DOMAIN d.files : p \in DOMAIN e.files /\ e.files[p] = d.files[p]

\* No text differs, and an index row only by being made equal to the text.
IndexKept(d, e) ==
  \A b \in BookIds(d) : /\ Text(e, b) = Text(d, b)
                        /\ e.fts[b] = d.fts[b] \/ e.fts[b] = Text(e, b)

Extends(d, e) == Sound(e) /\ Kept(d, e) /\ IndexKept(d, e)

-----------------------------------------------------------------------------
(* Sequences, smallest numbers and induction.                              *)
LEMMA IsSequence ==
  ASSUME NEW X, NEW n \in Nat, NEW f \in [1 .. n -> X]
  PROVE  f \in Seq(X) /\ Len(f) = n
OBVIOUS

LEMMA SeqExcept ==
  ASSUME NEW X, NEW s \in Seq(X), NEW i \in DOMAIN s, NEW x \in X
  PROVE  /\ [s EXCEPT ![i] = x] \in Seq(X) /\ Len([s EXCEPT ![i] = x]) = Len(s)
         /\ DOMAIN [s EXCEPT ![i] = x] = DOMAIN s
<1>1. [s EXCEPT ![i] = x] \in [1 .. Len(s) -> X] /\ Len(s) \in Nat
  OBVIOUS
<1>2. QED
  BY <1>1, IsSequence

LEMMA SeqAppend ==
  ASSUME NEW X, NEW s \in Seq(X), NEW x \in X
  PROVE  /\ Append(s, x) \in Seq(X) /\ Len(Append(s, x)) = Len(s) + 1
         /\ Len(s) \in Nat /\ DOMAIN s = 1 .. Len(s)
         /\ DOMAIN Append(s, x) = 1 .. (Len(s) + 1)
         /\ Append(s, x)[Len(s) + 1] = x /\ \A i \in DOMAIN s : Append(s, x)[i] = s[i]
OBVIOUS

\* A set of numbers with an element has a smallest one.
LEMMA LeastExists ==
  ASSUME NEW T \in SUBSET Nat, T # {}
  PROVE  \E n \in T : \A m \in T : n <= m
<1> DEFINE Ends == {0 .. n : n \in T}
<1>1. Ends \subseteq FiniteSubsetsOf(Nat)
  <2>1. ASSUME NEW n \in T PROVE 0 .. n \in FiniteSubsetsOf(Nat)
    BY FS_Interval DEF FiniteSubsetsOf
  <2>2. QED
    BY <2>1
<1>2. Ends # {}
  OBVIOUS
<1> HIDE DEF Ends
<1>3. PICK I \in Ends : \A J \in Ends : <<J, I>> \notin StrictSubsetOrdering(Nat)
  BY <1>1, <1>2, WFMin, FS_StrictSubsetOrderingWellFounded
<1>4. PICK n \in T : I = 0 .. n
  BY DEF Ends
<1>5. ASSUME NEW m \in T, m < n PROVE FALSE
  <2>1. 0 .. m \in Ends
    BY DEF Ends
  <2>2. 0 .. m \subseteq 0 .. n /\ n \in 0 .. n /\ n \notin 0 .. m
    BY <1>5
  <2>3. <<0 .. m, I>> \in StrictSubsetOrdering(Nat)
    BY <1>4, <2>2 DEF StrictSubsetOrdering
  <2>4. QED
    BY <1>3, <2>1, <2>3
<1>6. QED
  BY <1>5

\* Induction up to N, over a set: what holds at 0 and passes from each number
\* to the next holds at all of them.
LEMMA UpTo ==
  ASSUME NEW N \in Nat, NEW T, 0 \in T, \A n \in 1 .. N : n - 1 \in T => n \in T
  PROVE  0 .. N \subseteq T
<1> DEFINE Rest == (0 .. N) \ T
<1>1. SUFFICES ASSUME Rest # {} PROVE FALSE
  OBVIOUS
<1>2. Rest \in SUBSET Nat
  OBVIOUS
<1>3. PICK n \in Rest : \A m \in Rest : n <= m
  BY <1>1, <1>2, LeastExists
<1>4. n \in 1 .. N /\ n - 1 \in 0 .. N
  BY <1>3
<1>5. n - 1 \in T
  BY <1>3, <1>4
<1>6. QED
  BY <1>3, <1>4, <1>5

\* f holds the values of an iteration: step[n] says what becomes, at position
\* n, of the value before it.
Iterates(f, N, base, step) == f[0] = base /\ \A n \in 1 .. N : f[n] = step[n][f[n - 1]]

\* A definition by iteration has a solution.
LEMMA IterationExists ==
  ASSUME NEW N \in Nat, NEW S, NEW base \in S, NEW step \in [1 .. N -> [S -> S]]
  PROVE  \E f \in [0 .. N -> S] : Iterates(f, N, base, step)
<1> DEFINE Solves(f, n) == Iterates(f, n, base, step)
           T == {n \in 0 .. N : \E f \in [0 .. N -> S] : Solves(f, n)}
<1> USE DEF Iterates
<1>1. 0 \in T
  <2> DEFINE g == [n \in 0 .. N |-> base]
  <2>1. g \in [0 .. N -> S] /\ Solves(g, 0) /\ 0 \in 0 .. N
    OBVIOUS
  <2> HIDE DEF g, Solves
  <2>2. QED
    BY <2>1
<1>2. ASSUME NEW n \in 1 .. N, n - 1 \in T PROVE n \in T
  <2>1. PICK f \in [0 .. N -> S] : Solves(f, n - 1)
    BY <1>2
  <2> DEFINE g == [f EXCEPT ![n] = step[n][f[n - 1]]]
  <2>2. n - 1 \in 0 .. N /\ step[n][f[n - 1]] \in S
    OBVIOUS
  <2>3. g \in [0 .. N -> S]
    BY <2>2
  <2>4. g[0] = base
    BY <2>1
  <2>5. ASSUME NEW m \in 1 .. n PROVE g[m] = step[m][g[m - 1]]
    <3>1. m - 1 \in 0 .. N /\ m - 1 # n /\ g[m - 1] = f[m - 1]
      OBVIOUS
    <3>2. CASE m = n
      BY <3>1, <3>2
    <3>3. CASE m \in 1 .. (n - 1)
      BY <2>1, <3>1, <3>3
    <3>4. QED
      BY <3>2, <3>3
  <2>6. Solves(g, n) /\ n \in 0 .. N
    BY <2>4, <2>5
  <2>7. QED
    BY <2>3, <2>6
<1>3. N \in T
  <2>1. \A n \in 1 .. N : n - 1 \in T => n \in T
    BY <1>2
  <2> HIDE DEF T
  <2>2. 0 .. N \subseteq T
    BY <1>1, <2>1, UpTo
  <2>3. QED
    BY <2>2
<1>4. QED
  BY <1>3

LEMMA FirstIn ==
  ASSUME NEW T \in SUBSET Nat, T # {}
  PROVE  First(T) \in T
BY LeastExists DEF First

-----------------------------------------------------------------------------
(* The five writes.                                                        *)
\* What every writer leaves as it was stays as it was.
LEMMA ExtendsSame == ASSUME NEW d, Sound(d) PROVE Extends(d, d)
BY DEF Extends, Kept, IndexKept

LEMMA ExtendsTransitive ==
  ASSUME NEW d, NEW e, NEW g, Extends(d, e), Extends(e, g)
  PROVE  Extends(d, g)
<1>1. Kept(d, g)
  BY DEF Extends, Kept
<1>2. IndexKept(d, g)
  <2> SUFFICES ASSUME NEW b \in BookIds(d)
               PROVE  /\ Text(g, b) = Text(d, b)
                      /\ g.fts[b] = d.fts[b] \/ g.fts[b] = Text(g, b)
    BY DEF IndexKept
  <2>1. b \in BookIds(e)
    BY DEF Extends, Kept
  <2>2. Text(e, b) = Text(d, b) /\ (e.fts[b] = d.fts[b] \/ e.fts[b] = Text(e, b))
    BY DEF Extends, IndexKept
  <2>3. Text(g, b) = Text(e, b) /\ (g.fts[b] = e.fts[b] \/ g.fts[b] = Text(g, b))
    BY <2>1 DEF Extends, IndexKept
  <2>4. QED
    BY <2>2, <2>3
<1>3. QED
  BY <1>1, <1>2 DEF Extends

\* Keys of books and the books of files do not change.
LEMMA KeysKept ==
  ASSUME NEW d, NEW e, Sound(d), Kept(d, e)
  PROVE  /\ \A b \in BookIds(d) : b \in BookIds(e) /\ BookKey(e, b) = BookKey(d, b)
         /\ Keys(d) \subseteq Keys(e)
         /\ \A p \in DOMAIN d.files : p \in DOMAIN e.files /\ BookOfFile(e, p) = BookOfFile(d, p)
                                      /\ BookOfFile(d, p) \in BookIds(d)
<1>1. ASSUME NEW b \in BookIds(d) PROVE b \in BookIds(e) /\ BookKey(e, b) = BookKey(d, b)
  <2>1. /\ b \in BookIds(e) /\ e.books[b].title = d.books[b].title
        /\ e.books[b].author = d.books[b].author
    BY DEF Kept
  <2>2. d.books[b].author \in 0 .. Len(d.authors) /\ DOMAIN d.authors = 1 .. Len(d.authors)
    BY DEF Sound, Dbs
  <2>3. NameOf(e, b) = NameOf(d, b)
    BY <2>1, <2>2 DEF NameOf, Kept
  <2>4. QED
    BY <2>1, <2>3 DEF BookKey
<1>2. Keys(d) \subseteq Keys(e)
  BY <1>1 DEF Keys
<1>3. QED
  BY <1>1, <1>2 DEF BookOfFile, Sound, Kept

LEMMA SameCopies ==
  ASSUME NEW d, NEW e, Sound(d), Kept(d, e), BookIds(e) = BookIds(d)
  PROVE  \A k : Copies(e, k) = Copies(d, k)
BY KeysKept DEF Copies

LEMMA OneMoreCopy ==
  ASSUME NEW d, NEW e, Sound(d), Kept(d, e), NEW b, BookIds(e) = BookIds(d) \cup {b},
         b \notin BookIds(d)
  PROVE  /\ Copies(e, BookKey(e, b)) = Copies(d, BookKey(e, b)) \cup {b}
         /\ \A k : k # BookKey(e, b) => Copies(e, k) = Copies(d, k)
         /\ Keys(e) = Keys(d) \cup {BookKey(e, b)}
<1>1. \A x \in BookIds(d) : x \in BookIds(e) /\ BookKey(e, x) = BookKey(d, x)
  BY KeysKept
<1>2. QED
  BY <1>1 DEF Copies, Keys

\* An author is found in one of the rows the lookup gave, or gets a new row.
LEMMA AuthorFound ==
  ASSUME NEW d, Sound(d), NEW name \in Names \cup {None}, NEW found \in SUBSET DOMAIN d.authors
  PROVE  LET e == AddAuthor(d, name, found)
             a == AuthorId(d, name, found)
         IN /\ Extends(d, e) /\ e.books = d.books /\ e.editions = d.editions
            /\ e.files = d.files /\ e.fts = d.fts
            /\ a \in 0 .. Len(e.authors)
            /\ name = None => a = 0 /\ e = d
            /\ name # None /\ found # {} => a = First(found) /\ a \in found /\ e = d
            /\ name # None /\ found = {} =>
                 /\ a = Len(d.authors) + 1 /\ e.authors = Append(d.authors, name)
                 /\ e.authors[a] = name
<1>1. d.authors \in Seq(Names) /\ Len(d.authors) \in Nat /\ DOMAIN d.authors = 1 .. Len(d.authors)
  BY DEF Sound, Dbs
<1>2. CASE name = None
  BY <1>1, <1>2, ExtendsSame DEF AddAuthor, AuthorId
<1>3. CASE name # None /\ found # {}
  <2>1. First(found) \in found
    BY <1>1, <1>3, FirstIn
  <2>2. QED
    BY <1>1, <1>3, <2>1, ExtendsSame DEF AddAuthor, AuthorId
<1>4. CASE name # None /\ found = {}
  <2> DEFINE e == AddAuthor(d, name, found)
             s == Append(d.authors, name)
  <2>1. /\ e.authors = s /\ e.books = d.books /\ e.editions = d.editions
        /\ e.files = d.files /\ e.fts = d.fts
    BY <1>4 DEF AddAuthor, Sound, Dbs
  <2>2. e \in Dbs
    <3>1. s \in Seq(Names)
      BY <1>1, <1>4, SeqAppend
    <3>2. QED
      BY <1>4, <3>1 DEF AddAuthor, Sound, Dbs
  <2>3. /\ Len(s) = Len(d.authors) + 1 /\ DOMAIN s = 1 .. (Len(d.authors) + 1)
        /\ s[Len(d.authors) + 1] = name /\ \A i \in DOMAIN d.authors : s[i] = d.authors[i]
    BY <1>1, <1>4, SeqAppend
  <2> HIDE DEF e, s
  <2>4. Sound(e)
    BY <1>1, <2>1, <2>2, <2>3 DEF Sound, BookIds
  <2>5. Kept(d, e) /\ IndexKept(d, e)
    BY <1>1, <2>1, <2>3 DEF Kept, IndexKept, BookIds, Text
  <2>6. AuthorId(d, name, found) = Len(d.authors) + 1
    BY <1>4 DEF AuthorId
  <2>7. QED
    BY <1>1, <1>4, <2>1, <2>3, <2>4, <2>5, <2>6 DEF Extends, e, s
<1>5. QED
  BY <1>2, <1>3, <1>4

\* A new book has the key of its title and author, and no index row.
LEMMA BookAdded ==
  ASSUME NEW d, Sound(d), NEW title \in Titles, NEW author \in 0 .. Len(d.authors)
  PROVE  LET e == AddBook(d, title, author)
             b == Len(d.books) + 1
         IN /\ Extends(d, e) /\ e.authors = d.authors
            /\ e.editions = d.editions /\ e.files = d.files
            /\ b \notin BookIds(d) /\ BookIds(e) = BookIds(d) \cup {b} /\ b = Len(e.books)
            /\ e.books[b].title = title /\ e.books[b].author = author
            /\ Text(e, b) = [heading |-> "first", desc |-> None]
<1> DEFINE row == [title |-> title, author |-> author, heading |-> "first", desc |-> None]
           e == AddBook(d, title, author)
           b == Len(d.books) + 1
           books == Append(d.books, row)
           fts == Append(d.fts, Absent)
<1>1. /\ e.authors = d.authors /\ e.books = books /\ e.editions = d.editions
      /\ e.files = d.files /\ e.fts = fts
  BY DEF AddBook, Sound, Dbs
<1>2. /\ d.books \in Seq(BookRows) /\ row \in BookRows /\ d.fts \in Seq(IndexRows)
      /\ Absent \in IndexRows /\ Len(d.authors) \in Nat
  BY DEF Sound, Dbs, BookRows, IndexRows, Wordings
<1>3. e \in Dbs
  <2>1. books \in Seq(BookRows) /\ fts \in Seq(IndexRows)
    BY <1>2, SeqAppend
  <2>2. QED
    BY <2>1 DEF AddBook, Sound, Dbs
<1>4. /\ Len(d.books) \in Nat /\ DOMAIN d.books = 1 .. Len(d.books)
      /\ Len(books) = b /\ DOMAIN books = 1 .. b /\ books[b] = row
      /\ \A i \in DOMAIN d.books : books[i] = d.books[i]
  <2> HIDE DEF row
  <2>1. QED
    BY <1>2, SeqAppend
<1>5. /\ DOMAIN d.fts = 1 .. Len(d.fts) /\ Len(fts) = Len(d.fts) + 1
      /\ \A i \in DOMAIN d.fts : fts[i] = d.fts[i]
  BY <1>2, SeqAppend
<1>6. Len(d.fts) = Len(d.books)
  BY DEF Sound
<1>7. row.title = title /\ row.author = author /\ row.heading = "first" /\ row.desc = None
  OBVIOUS
<1> HIDE DEF e, books, fts, row
<1>8. Sound(e)
  <2>1. \A x \in BookIds(e) : e.books[x].author \in 0 .. Len(e.authors)
    <3>1. \A x \in DOMAIN d.books : d.books[x].author \in 0 .. Len(d.authors)
      BY DEF Sound, BookIds
    <3>2. QED
      BY <1>1, <1>4, <1>7, <3>1 DEF BookIds
  <2>2. QED
    BY <1>1, <1>3, <1>4, <1>5, <1>6, <2>1 DEF Sound, BookIds
<1>9. Kept(d, e)
  BY <1>1, <1>4 DEF Kept, BookIds
<1>10. IndexKept(d, e)
  BY <1>1, <1>4, <1>5, <1>6 DEF IndexKept, BookIds, Text
<1>11. Text(e, b) = [heading |-> "first", desc |-> None]
  BY <1>1, <1>4, <1>7 DEF Text
<1>12. BookIds(e) = BookIds(d) \cup {b} /\ b \notin BookIds(d)
  BY <1>1, <1>4 DEF BookIds
<1>13. QED
  BY <1>1, <1>4, <1>7, <1>8, <1>9, <1>10, <1>11, <1>12 DEF Extends, e

LEMMA EditionAdded ==
  ASSUME NEW d, Sound(d), NEW b \in BookIds(d), NEW isbn \in Isbns, NEW fmt \in Fmts
  PROVE  LET e == AddEdition(d, b, isbn, fmt)
             x == Len(d.editions) + 1
         IN /\ Extends(d, e) /\ e.authors = d.authors /\ e.books = d.books
            /\ e.files = d.files /\ e.fts = d.fts
            /\ DOMAIN e.editions = DOMAIN d.editions \cup {x} /\ x = Len(e.editions)
            /\ e.editions[x] = [book |-> b, isbn |-> isbn, fmt |-> fmt]
            /\ \A y \in DOMAIN d.editions : e.editions[y] = d.editions[y]
<1> DEFINE row == [book |-> b, isbn |-> isbn, fmt |-> fmt]
           e == AddEdition(d, b, isbn, fmt)
           x == Len(d.editions) + 1
           eds == Append(d.editions, row)
<1>1. /\ e.authors = d.authors /\ e.books = d.books /\ e.editions = eds
      /\ e.files = d.files /\ e.fts = d.fts
  BY DEF AddEdition, Sound, Dbs
<1>2. d.editions \in Seq(Editions) /\ row \in Editions /\ row.book = b
  BY DEF Sound, Dbs, Editions, BookIds
<1> HIDE DEF row
<1>3. /\ eds \in Seq(Editions) /\ Len(d.editions) \in Nat /\ DOMAIN d.editions = 1 .. Len(d.editions)
      /\ Len(eds) = x /\ DOMAIN eds = 1 .. x /\ eds[x] = row
      /\ \A i \in DOMAIN d.editions : eds[i] = d.editions[i]
  BY <1>2, SeqAppend
<1>4. e \in Dbs
  BY <1>3 DEF AddEdition, Sound, Dbs, row
<1> HIDE DEF e, eds
<1>5. \A i \in DOMAIN eds : eds[i].book \in BookIds(d)
  BY <1>2, <1>3 DEF Sound
<1>6. Sound(e)
  BY <1>1, <1>3, <1>4, <1>5 DEF Sound, BookIds
<1>7. Kept(d, e) /\ IndexKept(d, e)
  BY <1>1, <1>3 DEF Kept, IndexKept, BookIds, Text
<1>8. QED
  BY <1>1, <1>3, <1>6, <1>7 DEF Extends, e, row

LEMMA FileAdded ==
  ASSUME NEW d, Sound(d), NEW path \in Paths, path \notin DOMAIN d.files, NEW x \in DOMAIN d.editions
  PROVE  LET e == AddFile(d, path, x)
         IN /\ Extends(d, e) /\ e.authors = d.authors /\ e.books = d.books
            /\ e.editions = d.editions /\ e.fts = d.fts
            /\ DOMAIN e.files = DOMAIN d.files \cup {path} /\ e.files[path] = x
            /\ \A p \in DOMAIN d.files : e.files[p] = d.files[p]
<1> DEFINE e == AddFile(d, path, x)
           files == [p \in DOMAIN d.files \cup {path} |-> IF p = path THEN x ELSE d.files[p]]
<1>1. /\ e.authors = d.authors /\ e.books = d.books /\ e.editions = d.editions
      /\ e.files = files /\ e.fts = d.fts
  BY DEF AddFile, Sound, Dbs
<1>2. PICK P \in SUBSET Paths : d.files \in [P -> Nat]
  BY DEF Sound, Dbs, FileMaps
<1>3. x \in Nat
  BY DEF Sound, Dbs
<1>4. files \in [P \cup {path} -> Nat] /\ P \cup {path} \in SUBSET Paths
  BY <1>2, <1>3
<1> HIDE DEF files
<1>5. files \in FileMaps
  BY <1>4 DEF FileMaps
<1>6. e \in Dbs
  BY <1>5 DEF AddFile, Sound, Dbs, files
<1>7. /\ DOMAIN files = DOMAIN d.files \cup {path} /\ files[path] = x
      /\ \A p \in DOMAIN d.files : files[p] = d.files[p]
  BY DEF files
<1> HIDE DEF e
<1>8. Sound(e)
  BY <1>1, <1>6, <1>7 DEF Sound, BookIds
<1>9. Kept(d, e) /\ IndexKept(d, e)
  BY <1>1, <1>7 DEF Kept, IndexKept, BookIds, Text
<1>10. QED
  BY <1>1, <1>7, <1>8, <1>9 DEF Extends, e

\* Indexing a book as its text stands.
LEMMA Reindexed ==
  ASSUME NEW d, Sound(d), NEW b \in BookIds(d)
  PROVE  LET e == ReindexBook(d, b, Text(d, b))
         IN /\ Extends(d, e) /\ e.authors = d.authors /\ e.books = d.books
            /\ e.editions = d.editions /\ e.files = d.files
<1> DEFINE e == ReindexBook(d, b, Text(d, b))
           fts == [d.fts EXCEPT ![b] = Text(d, b)]
<1>1. /\ e.authors = d.authors /\ e.books = d.books /\ e.editions = d.editions
      /\ e.files = d.files /\ e.fts = fts
  BY DEF ReindexBook, Sound, Dbs
<1>2. d.fts \in Seq(IndexRows) /\ b \in DOMAIN d.fts
  BY DEF Sound, Dbs, BookIds
<1>3. Text(d, b) \in IndexRows
  <2>1. d.books[b] \in BookRows
    BY DEF Sound, Dbs, BookIds
  <2>2. d.books[b].heading \in Wordings /\ d.books[b].desc \in {None, "edited"}
    BY <2>1 DEF BookRows
  <2>3. Text(d, b) \in Texts
    BY <2>2 DEF Text, Texts
  <2>4. QED
    BY <2>3 DEF IndexRows
<1>4. fts \in Seq(IndexRows) /\ Len(fts) = Len(d.fts)
  BY <1>2, <1>3, SeqExcept
<1>5. fts[b] = Text(d, b) /\ \A i \in DOMAIN d.fts \ {b} : fts[i] = d.fts[i]
  BY <1>2
<1>6. e \in Dbs
  BY <1>4 DEF ReindexBook, Sound, Dbs
<1>7. \A i \in BookIds(d) : i \in DOMAIN d.fts
  BY DEF Sound, Dbs, BookIds
<1> HIDE DEF e, fts
<1>8. Sound(e)
  BY <1>1, <1>4, <1>6 DEF Sound, BookIds
<1>9. Kept(d, e) /\ IndexKept(d, e)
  <2>1. \A i : Text(e, i) = Text(d, i)
    BY <1>1 DEF Text
  <2>2. QED
    BY <1>1, <1>5, <1>7, <2>1 DEF Kept, IndexKept, BookIds
<1>10. QED
  BY <1>1, <1>8, <1>9 DEF Extends, e

-----------------------------------------------------------------------------
(* What the writers do with them.                                          *)
\* A new work: its author, found or added, and a book of that author.
LEMMA WorkAdded ==
  ASSUME NEW d, Sound(d), NEW title \in Titles, NEW name \in Names \cup {None},
         NEW found \in SUBSET DOMAIN d.authors,
         name # None => \A a \in found : Fold[d.authors[a]] = Fold[name]
  PROVE  LET d1 == AddAuthor(d, name, found)
             e  == AddBook(d1, title, AuthorId(d, name, found))
             b  == Len(d.books) + 1
         IN /\ Extends(d, e) /\ e.editions = d.editions /\ e.files = d.files
            /\ e.authors = d1.authors
            /\ b = Len(d1.books) + 1 /\ b = Len(e.books)
            /\ b \notin BookIds(d) /\ BookIds(e) = BookIds(d) \cup {b}
            /\ BookKey(e, b) = <<title, Folded(name)>>
            /\ Text(e, b) = [heading |-> "first", desc |-> None]
<1> DEFINE d1 == AddAuthor(d, name, found)
           a  == AuthorId(d, name, found)
           e  == AddBook(d1, title, a)
           b  == Len(d.books) + 1
<1>1. /\ Extends(d, d1) /\ d1.books = d.books /\ d1.editions = d.editions /\ d1.files = d.files
      /\ a \in 0 .. Len(d1.authors)
      /\ name = None => a = 0
      /\ name # None /\ found # {} => a \in found /\ d1 = d
      /\ name # None /\ found = {} => a = Len(d.authors) + 1 /\ d1.authors[a] = name
  <2> HIDE DEF d1, a
  <2>1. LET e1 == AddAuthor(d, name, found)
             a1 == AuthorId(d, name, found)
         IN /\ Extends(d, e1) /\ e1.books = d.books /\ e1.editions = d.editions
            /\ e1.files = d.files /\ e1.fts = d.fts
            /\ a1 \in 0 .. Len(e1.authors)
            /\ name = None => a1 = 0 /\ e1 = d
            /\ name # None /\ found # {} => a1 = First(found) /\ a1 \in found /\ e1 = d
            /\ name # None /\ found = {} =>
                 /\ a1 = Len(d.authors) + 1 /\ e1.authors = Append(d.authors, name)
                 /\ e1.authors[a1] = name
    BY AuthorFound
  <2>2. QED
    BY <2>1 DEF d1, a
<1> HIDE DEF d1, a
<1>2. Sound(d1)
  BY <1>1 DEF Extends
<1>3. /\ Extends(d1, e) /\ e.authors = d1.authors
      /\ e.editions = d1.editions /\ e.files = d1.files
      /\ b \notin BookIds(d1) /\ BookIds(e) = BookIds(d1) \cup {b} /\ b = Len(e.books)
      /\ e.books[b].title = title /\ e.books[b].author = a
      /\ Text(e, b) = [heading |-> "first", desc |-> None]
  BY <1>1, <1>2, BookAdded
<1> HIDE DEF e
<1>4. Extends(d, e)
  BY <1>1, <1>3, ExtendsTransitive
<1>5. Folded(NameOf(e, b)) = Folded(name)
  <2>1. CASE name = None
    BY <1>1, <1>3, <2>1 DEF NameOf
  <2>2. CASE name # None
    <3>1. a # 0
      BY <1>1, <2>2 DEF Sound, Dbs
    <3>2. NameOf(e, b) = d1.authors[a]
      BY <1>3, <3>1 DEF NameOf
    <3>3. a \in DOMAIN d1.authors /\ d1.authors \in Seq(Names)
      BY <1>1, <1>2, <3>1 DEF Sound, Dbs
    <3>4. NameOf(e, b) # None /\ Fold[NameOf(e, b)] = Fold[name]
      <4>1. d1.authors[a] \in Names /\ None \notin Names
        <5>1. None \notin Names
          BY CatalogAssumption
        <5>2. QED
          BY <3>3, <5>1
      <4>2. CASE found # {}
        BY <1>1, <2>2, <3>2, <4>1, <4>2
      <4>3. CASE found = {}
        BY <1>1, <2>2, <3>2, <4>1, <4>3
      <4>4. QED
        BY <4>2, <4>3
    <3>5. QED
      BY <2>2, <3>4 DEF Folded
  <2>3. QED
    BY <2>1, <2>2
<1>6. BookKey(e, b) = <<title, Folded(name)>>
  BY <1>3, <1>5 DEF BookKey
<1>7. BookIds(d1) = BookIds(d)
  BY <1>1 DEF BookIds
<1>8. QED
  BY <1>1, <1>3, <1>4, <1>6, <1>7 DEF e, d1, a

\* A file of book b is put into one of the editions eds found for it, or into
\* a new edition of b.
Filing(d, b, eds, isbn, fmt, path) ==
  LET e == IF eds # {} THEN d ELSE AddEdition(d, b, isbn, fmt)
  IN AddFile(e, path, IF eds # {} THEN First(eds) ELSE Len(e.editions))

\* What becomes of d: nothing else of it changes.
FiledAs(d, e, b, eds, isbn, path) ==
  /\ Extends(d, e) /\ e.authors = d.authors /\ e.books = d.books
  /\ DOMAIN e.files = DOMAIN d.files \cup {path} /\ e.files[path] \in DOMAIN e.editions
  /\ eds # {} => e.editions = d.editions /\ e.files[path] \in eds
  /\ eds = {} => /\ DOMAIN e.editions = DOMAIN d.editions \cup {e.files[path]}
                 /\ e.editions[e.files[path]].book = b
                 /\ e.editions[e.files[path]].isbn = isbn

LEMMA FileFiled ==
  ASSUME NEW d, Sound(d), NEW b \in BookIds(d), NEW eds, eds \subseteq DOMAIN d.editions,
         NEW isbn \in Isbns, NEW fmt \in Fmts, NEW path \in Paths, path \notin DOMAIN d.files
  PROVE  FiledAs(d, Filing(d, b, eds, isbn, fmt, path), b, eds, isbn, path)
<1>1. CASE eds # {}
  <2>1. d.editions \in Seq(Editions)
    BY DEF Sound, Dbs
  <2>2. First(eds) \in eds
    BY <1>1, <2>1, FirstIn
  <2>3. Filing(d, b, eds, isbn, fmt, path) = AddFile(d, path, First(eds))
    BY <1>1 DEF Filing
  <2>4. QED
    BY <1>1, <2>2, <2>3, FileAdded DEF FiledAs
<1>2. CASE eds = {}
  <2> DEFINE d1 == AddEdition(d, b, isbn, fmt)
             x  == Len(d.editions) + 1
             e  == AddFile(d1, path, x)
  <2>1. /\ Extends(d, d1) /\ d1.authors = d.authors /\ d1.books = d.books
        /\ d1.files = d.files
        /\ DOMAIN d1.editions = DOMAIN d.editions \cup {x} /\ x = Len(d1.editions)
        /\ d1.editions[x] = [book |-> b, isbn |-> isbn, fmt |-> fmt]
    BY EditionAdded
  <2>2. Filing(d, b, eds, isbn, fmt, path) = e
    BY <1>2, <2>1 DEF Filing
  <2> HIDE DEF d1
  <2>3. /\ Extends(d1, e) /\ e.authors = d1.authors /\ e.books = d1.books
        /\ e.editions = d1.editions
        /\ DOMAIN e.files = DOMAIN d1.files \cup {path} /\ e.files[path] = x
    BY <2>1, FileAdded DEF Extends
  <2> HIDE DEF e, x
  <2>4. Extends(d, e)
    BY <2>1, <2>3, ExtendsTransitive
  <2>5. QED
    BY <1>2, <2>1, <2>2, <2>3, <2>4 DEF FiledAs
<1>3. QED
  BY <1>1, <1>2

\* Two rows of the author of a work, or one row of the work.
ScanDups(d, e) ==
  /\ \A k : Copies(e, k) = Copies(d, k) \/ (\A b, c \in Copies(e, k) : b = c)
                                        \/ TwoSpellings(d, k[2])
  /\ \A name : TwoSpellings(e, name) => TwoSpellings(d, name)

\* The book a scanned file belongs to.
LEMMA ScanBook ==
  ASSUME NEW d, Sound(d), NEW title \in Titles, NEW name \in Names \cup {None}
  PROVE  LET same   == IF name = None THEN {} ELSE SameName(d, name)
             author == AuthorId(d, name, same)
             d1     == AddAuthor(d, name, same)
             books  == FindBook(d1, author, title)
             e      == IF books # {} THEN d1 ELSE AddBook(d1, title, author)
             b      == IF books # {} THEN First(books) ELSE Len(e.books)
         IN /\ Extends(d, e) /\ e.editions = d.editions /\ e.files = d.files
            /\ b \in BookIds(e) /\ BookKey(e, b) = <<title, Folded(name)>>
            /\ ScanDups(d, e)
<1> DEFINE same   == IF name = None THEN {} ELSE SameName(d, name)
           author == AuthorId(d, name, same)
           d1     == AddAuthor(d, name, same)
           books  == FindBook(d1, author, title)
           e      == IF books # {} THEN d1 ELSE AddBook(d1, title, author)
           b      == IF books # {} THEN First(books) ELSE Len(e.books)
<1>1. same \in SUBSET DOMAIN d.authors /\ (name # None => \A a \in same : Fold[d.authors[a]] = Fold[name])
  BY DEF SameName
<1>2. name # None => same = SameName(d, name)
  OBVIOUS
<1> HIDE DEF same
<1>3. LET e1 == AddAuthor(d, name, same)
          a1 == AuthorId(d, name, same)
      IN /\ Extends(d, e1) /\ e1.books = d.books /\ e1.editions = d.editions
         /\ e1.files = d.files /\ e1.fts = d.fts
         /\ a1 \in 0 .. Len(e1.authors)
         /\ name = None => a1 = 0 /\ e1 = d
         /\ name # None /\ same # {} => a1 = First(same) /\ a1 \in same /\ e1 = d
         /\ name # None /\ same = {} =>
              /\ a1 = Len(d.authors) + 1 /\ e1.authors = Append(d.authors, name)
              /\ e1.authors[a1] = name
  BY <1>1, AuthorFound
<1>4. /\ Extends(d, d1) /\ d1.books = d.books /\ d1.editions = d.editions /\ d1.files = d.files
      /\ author \in 0 .. Len(d1.authors)
      /\ name = None => author = 0
      /\ name # None /\ same # {} => author \in same /\ d1 = d
      /\ name # None /\ same = {} => /\ author = Len(d.authors) + 1 /\ d1.authors[author] = name
                                     /\ d1.authors = Append(d.authors, name)
  BY <1>3
<1>5. BookIds(d1) = BookIds(d) /\ BookIds(d) \subseteq Nat /\ Sound(d1) /\ d.authors \in Seq(Names)
  BY <1>4 DEF BookIds, Extends, Sound, Dbs
<1> HIDE DEF d1, author
<1>6. \A n : TwoSpellings(d1, n) => TwoSpellings(d, n)
  <2>1. CASE d1.authors = d.authors
    BY <2>1 DEF TwoSpellings
  <2>2. CASE name # None /\ same = {}
    <3> SUFFICES ASSUME NEW n, TwoSpellings(d1, n) PROVE TwoSpellings(d, n)
      OBVIOUS
    <3>1. PICK x, y \in DOMAIN d1.authors :
            x # y /\ Fold[d1.authors[x]] = n /\ Fold[d1.authors[y]] = n
      BY DEF TwoSpellings
    <3>2. /\ DOMAIN d1.authors = 1 .. (Len(d.authors) + 1)
          /\ \A i \in DOMAIN d.authors : d1.authors[i] = d.authors[i]
          /\ DOMAIN d.authors = 1 .. Len(d.authors) /\ Len(d.authors) \in Nat
      BY <1>4, <1>5, <2>2, SeqAppend
    <3>3. \A i \in DOMAIN d.authors : Fold[d.authors[i]] # Fold[name]
      BY <1>2, <2>2 DEF SameName
    <3>4. x \in DOMAIN d.authors /\ y \in DOMAIN d.authors
      BY <1>4, <2>2, <3>1, <3>2, <3>3
    <3>5. QED
      BY <3>1, <3>2, <3>4 DEF TwoSpellings
  <2>3. d1.authors = d.authors \/ (name # None /\ same = {})
    BY <1>3 DEF d1
  <2>4. QED
    BY <2>1, <2>2, <2>3
<1>7. CASE books # {}
  <2>1. b \in books /\ e = d1
    BY <1>5, <1>7, FirstIn DEF FindBook
  <2>2. b \in BookIds(d1) /\ d1.books[b].author = author /\ d1.books[b].title = title
    BY <2>1 DEF FindBook
  <2>3. Folded(NameOf(d1, b)) = Folded(name)
    <3>1. CASE name = None
      BY <1>4, <2>2, <3>1 DEF NameOf
    <3>2. CASE name # None
      <4>1. author # 0 /\ author \in DOMAIN d1.authors /\ Fold[d1.authors[author]] = Fold[name]
        <5>1. CASE same # {}
          BY <1>1, <1>4, <1>5, <3>2, <5>1
        <5>2. CASE same = {}
          BY <1>4, <1>5, <3>2, <5>2, SeqAppend
        <5>3. QED
          BY <5>1, <5>2
      <4>2. NameOf(d1, b) = d1.authors[author]
        BY <2>2, <4>1 DEF NameOf
      <4>3. d1.authors[author] \in Names
        BY <1>5, <4>1 DEF Sound, Dbs
      <4>4. None \notin Names
        BY CatalogAssumption
      <4>5. QED
        BY <3>2, <4>1, <4>2, <4>3, <4>4 DEF Folded
    <3>3. QED
      BY <3>1, <3>2
  <2>4. BookKey(d1, b) = <<title, Folded(name)>>
    BY <2>2, <2>3 DEF BookKey
  <2>5. ScanDups(d, d1)
    BY <1>4, <1>5, <1>6, SameCopies DEF ScanDups, Extends
  <2>6. QED
    BY <1>4, <2>1, <2>2, <2>4, <2>5 DEF d1, author, same
<1>8. CASE books = {}
  <2> DEFINE x == Len(d.books) + 1
             key == <<title, Folded(name)>>
  <2>1. e = AddBook(d1, title, author)
    BY <1>8
  <2>2. /\ Extends(d, e) /\ e.editions = d.editions /\ e.files = d.files
        /\ e.authors = d1.authors /\ x = Len(e.books)
        /\ x \notin BookIds(d) /\ BookIds(e) = BookIds(d) \cup {x}
        /\ BookKey(e, x) = key
    BY <1>1, <2>1, WorkAdded DEF d1, author
  <2>3. b = x
    BY <1>8, <2>2
  <2> HIDE DEF e, x, b
  <2>4. \A k : k # key => Copies(e, k) = Copies(d, k)
    BY <2>2, OneMoreCopy DEF Extends
  <2>5. Copies(e, key) = Copies(d, key) \cup {x}
    BY <2>2, OneMoreCopy DEF Extends
  <2>6. ASSUME NEW c \in Copies(d, key) PROVE TwoSpellings(d, Folded(name))
    <3>1. c \in BookIds(d) /\ BookKey(d, c) = key
      BY DEF Copies
    <3>2. d.books[c].title = title /\ Folded(NameOf(d, c)) = Folded(name)
      BY <3>1 DEF BookKey
    <3>3. d.books[c].author # author
      BY <1>4, <1>5, <1>8, <3>1, <3>2 DEF FindBook
    <3>4. d.books[c].author \in 0 .. Len(d.authors) /\ Len(d.authors) \in Nat
          /\ DOMAIN d.authors = 1 .. Len(d.authors)
      BY <3>1 DEF Sound, Dbs
    <3>5. d.books[c].author # 0 => /\ d.books[c].author \in DOMAIN d.authors
                                   /\ NameOf(d, c) = d.authors[d.books[c].author]
                                   /\ NameOf(d, c) \in Names
      BY <1>5, <3>4 DEF NameOf
    <3>6. \A m \in Names : m # None /\ Fold[m] # None
      BY CatalogAssumption
    <3>7. CASE name = None
      BY <1>4, <3>2, <3>3, <3>5, <3>6, <3>7 DEF Folded
    <3>8. CASE name # None
      <4>1. Folded(name) = Fold[name] /\ Fold[name] # None
        BY <3>6, <3>8 DEF Folded
      <4>2. d.books[c].author # 0
        BY <3>2, <4>1 DEF Folded, NameOf
      <4>3. Fold[d.authors[d.books[c].author]] = Fold[name]
        BY <3>2, <3>5, <3>6, <4>1, <4>2 DEF Folded
      <4>4. same # {}
        BY <1>2, <3>5, <3>8, <4>2, <4>3 DEF SameName
      <4>5. author \in DOMAIN d.authors /\ Fold[d.authors[author]] = Fold[name]
        BY <1>1, <1>4, <3>8, <4>4
      <4>6. QED
        BY <3>3, <3>5, <4>1, <4>2, <4>3, <4>5 DEF TwoSpellings
    <3>9. QED
      BY <3>7, <3>8
  <2>7. ScanDups(d, e)
    <3>1. \A n : TwoSpellings(e, n) => TwoSpellings(d, n)
      BY <1>6, <2>2 DEF TwoSpellings
    <3>2. ASSUME NEW k
          PROVE  Copies(e, k) = Copies(d, k) \/ (\A y, z \in Copies(e, k) : y = z)
                                             \/ TwoSpellings(d, k[2])
      <4>1. CASE k = key /\ Copies(d, key) = {}
        BY <2>5, <4>1
      <4>2. CASE k = key /\ Copies(d, key) # {}
        <5>1. k[2] = Folded(name)
          BY <4>2
        <5>2. QED
          BY <2>6, <4>2, <5>1
      <4>3. QED
        BY <2>4, <4>1, <4>2
    <3>3. QED
      BY <3>1, <3>2 DEF ScanDups
  <2>8. QED
    BY <2>2, <2>3, <2>7 DEF e, b, d1, author, same
<1>9. QED
  BY <1>7, <1>8

-----------------------------------------------------------------------------
(* Files under their work.                                                 *)
\* The walk of scan_library meets a path once, and scan_calibre_library lists
\* it once.  The condition is the third: a file that lies in both libraries
\* is one work in both, and its ISBN no other's.
OneWorkPerPath ==
  /\ \A m, n \in DOMAIN Library : Library[m].path = Library[n].path => m = n
  /\ \A m, n \in DOMAIN Calibre :
       Calibre[m].path = Calibre[n].path => WorkKey(Calibre[m]) = WorkKey(Calibre[n])
  /\ \A m \in DOMAIN Library, n \in DOMAIN Calibre :
       Library[m].path = Calibre[n].path =>
         WorkKey(Library[m]) = WorkKey(Calibre[n]) /\ ~SharesIsbn(Library[m])

\* An edition with an ISBN belongs to the work of some file with that ISBN.
IsbnKnown(d, x) ==
  d.editions[x].isbn # None =>
    \E n \in DOMAIN Library : /\ Library[n].isbn = d.editions[x].isbn
                              /\ BookKey(d, d.editions[x].book) = WorkKey(Library[n])
FiledRight(d, f) == f.path \in DOMAIN d.files => BookKey(d, BookOfFile(d, f.path)) = WorkKey(f)
Filed(d) ==
  /\ \A x \in DOMAIN d.editions : IsbnKnown(d, x)
  /\ \A n \in DOMAIN Library : ~SharesIsbn(Library[n]) => FiledRight(d, Library[n])
  /\ \A n \in DOMAIN Calibre : FiledRight(d, Calibre[n])

LEMMA FiledStays ==
  ASSUME NEW d, NEW e, Sound(d), Filed(d), Kept(d, e), NEW path,
         DOMAIN e.files \subseteq DOMAIN d.files \cup {path},
         \A x \in DOMAIN e.editions : x \in DOMAIN d.editions \/ IsbnKnown(e, x),
         path \notin DOMAIN d.files =>
           /\ \A n \in DOMAIN Library : Library[n].path = path /\ ~SharesIsbn(Library[n])
                                        => FiledRight(e, Library[n])
           /\ \A n \in DOMAIN Calibre : Calibre[n].path = path => FiledRight(e, Calibre[n])
  PROVE  Filed(e)
<1>1. \A x \in DOMAIN d.editions : IsbnKnown(e, x)
  <2> SUFFICES ASSUME NEW x \in DOMAIN d.editions, e.editions[x].isbn # None
               PROVE  \E n \in DOMAIN Library :
                        /\ Library[n].isbn = e.editions[x].isbn
                        /\ BookKey(e, e.editions[x].book) = WorkKey(Library[n])
    BY DEF IsbnKnown
  <2>1. e.editions[x] = d.editions[x] /\ d.editions[x].book \in BookIds(d)
    BY DEF Kept, Sound
  <2>2. BookKey(e, e.editions[x].book) = BookKey(d, d.editions[x].book)
    BY <2>1, KeysKept
  <2>3. QED
    BY <2>1, <2>2 DEF Filed, IsbnKnown
<1>2. ASSUME NEW f, FiledRight(d, f), f.path \in DOMAIN d.files \/ f.path # path
      PROVE  FiledRight(e, f)
  <2> SUFFICES ASSUME f.path \in DOMAIN e.files
               PROVE  BookKey(e, BookOfFile(e, f.path)) = WorkKey(f)
    BY DEF FiledRight
  <2>1. f.path \in DOMAIN d.files
    BY <1>2
  <2>2. BookKey(d, BookOfFile(d, f.path)) = WorkKey(f)
    BY <1>2, <2>1 DEF FiledRight
  <2>3. BookOfFile(e, f.path) = BookOfFile(d, f.path) /\ BookOfFile(d, f.path) \in BookIds(d)
    BY <2>1, KeysKept
  <2>4. QED
    BY <2>2, <2>3, KeysKept
<1>3. QED
  BY <1>1, <1>2 DEF Filed

\* One file of a scan.
LEMMA Upserted ==
  ASSUME NEW d, Sound(d), NEW n \in DOMAIN Library
  PROVE  LET e == UpsertFile(d, Library[n])
         IN /\ Extends(d, e) /\ ScanDups(d, e)
            /\ OneWorkPerPath /\ Filed(d) => Filed(e)
<1> DEFINE f == Library[n]
           same   == IF f.name = None THEN {} ELSE SameName(d, f.name)
           author == AuthorId(d, f.name, same)
           d1     == AddAuthor(d, f.name, same)
           books  == FindBook(d1, author, f.title)
           d2     == IF books # {} THEN d1 ELSE AddBook(d1, f.title, author)
           b      == IF books # {} THEN First(books) ELSE Len(d2.books)
           eds    == UpsertEdition(d2, b, f)
           d4     == Filing(d2, b, eds, f.isbn, f.fmt, f.path)
           e      == ReindexBook(d4, b, Text(d4, b))
           path   == f.path
<1>1. CASE f.path \in DOMAIN d.files \/ f.title = None
  <2>1. UpsertFile(d, f) = d
    BY <1>1 DEF UpsertFile
  <2>2. QED
    BY <2>1, ExtendsSame DEF ScanDups
<1>2. CASE f.path \notin DOMAIN d.files /\ f.title # None
  <2>1. f.title \in Titles /\ f.name \in Names \cup {None}
    BY <1>2, CatalogAssumption
  <2>2. /\ Extends(d, d2) /\ d2.editions = d.editions /\ d2.files = d.files
        /\ b \in BookIds(d2) /\ BookKey(d2, b) = <<f.title, Folded(f.name)>> /\ ScanDups(d, d2)
    BY <2>1, ScanBook
  <2> HIDE DEF d2, b
  <2>3. eds \subseteq DOMAIN d2.editions
    BY DEF UpsertEdition
  <2>4. /\ eds # {} /\ f.isbn # None => \A x \in eds : d2.editions[x].isbn = f.isbn
        /\ f.isbn = None => \A x \in eds : d2.editions[x].book = b
    BY DEF UpsertEdition
  <2> HIDE DEF eds
  <2>5. f.isbn \in Isbns /\ f.fmt \in Fmts /\ path \in Paths
    BY DEF Isbns, Fmts, Paths
  <2>6. /\ Extends(d2, d4) /\ d4.authors = d2.authors /\ d4.books = d2.books
        /\ DOMAIN d4.files = DOMAIN d2.files \cup {path} /\ d4.files[path] \in DOMAIN d4.editions
        /\ eds # {} => d4.editions = d2.editions /\ d4.files[path] \in eds
        /\ eds = {} => /\ DOMAIN d4.editions = DOMAIN d2.editions \cup {d4.files[path]}
                       /\ d4.editions[d4.files[path]].book = b
                       /\ d4.editions[d4.files[path]].isbn = f.isbn
    <3>1. Sound(d2) /\ path \notin DOMAIN d2.files
      BY <1>2, <2>2 DEF Extends
    <3> HIDE DEF f, path, d4
    <3>2. FiledAs(d2, Filing(d2, b, eds, f.isbn, f.fmt, path), b, eds, f.isbn, path)
      BY <2>2, <2>3, <2>5, <3>1, FileFiled
    <3>3. d4 = Filing(d2, b, eds, f.isbn, f.fmt, path)
      BY DEF d4, path
    <3>4. QED
      BY <3>2, <3>3 DEF FiledAs
  <2>7. UpsertFile(d, f) = e
    <3> DEFINE d3 == IF eds # {} THEN d2 ELSE AddEdition(d2, b, f.isbn, f.fmt)
    <3>1. Text(d4, b) = Text(d2, b)
      BY <2>6 DEF Text
    <3>2. Text(d3, b) = Text(d2, b)
      BY <2>2, <2>5, EditionAdded DEF Text, Extends
    <3>3. UpsertFile(d, f) =
            ReindexBook(AddFile(d3, f.path, IF eds # {} THEN First(eds) ELSE Len(d3.editions)), b,
                        Text(d3, b))
      BY <1>2 DEF UpsertFile, eds, b, d2
    <3>4. QED
      BY <3>1, <3>2, <3>3 DEF Filing
  <2> HIDE DEF d4
  <2>8. Sound(d4) /\ b \in BookIds(d4)
    BY <2>2, <2>6 DEF Extends, BookIds
  <2>9. /\ Extends(d4, e) /\ e.authors = d4.authors /\ e.books = d4.books
        /\ e.editions = d4.editions /\ e.files = d4.files
    BY <2>8, Reindexed
  <2> HIDE DEF e
  <2>10. Extends(d, e)
    BY <2>2, <2>6, <2>9, ExtendsTransitive
  <2>11. Extends(d2, e) /\ Sound(d2)
    BY <2>2, <2>6, <2>9, ExtendsTransitive DEF Extends
  <2>12. ScanDups(d, e)
    <3>1. \A k : Copies(e, k) = Copies(d2, k)
      BY <2>6, <2>9, <2>11, SameCopies DEF Extends, BookIds
    <3>2. \A name : TwoSpellings(e, name) => TwoSpellings(d2, name)
      BY <2>6, <2>9 DEF TwoSpellings
    <3>3. QED
      BY <2>2, <3>1, <3>2 DEF ScanDups
  <2>13. ASSUME OneWorkPerPath, Filed(d) PROVE Filed(e)
    <3>1. BookKey(e, b) = WorkKey(f)
      BY <2>2, <2>11, KeysKept DEF Extends, WorkKey
    <3>2. Filed(d2)
      <4>1. \A x \in DOMAIN d2.editions : x \in DOMAIN d.editions
        BY <2>2
      <4>2. QED
        BY <1>2, <2>2, <2>13, <4>1, FiledStays DEF Extends, FiledRight
    <3>3. \A x \in DOMAIN e.editions : x \in DOMAIN d2.editions \/ IsbnKnown(e, x)
      <4>1. CASE eds # {}
        BY <2>6, <2>9, <4>1
      <4>2. CASE eds = {}
        <5>1. e.editions[e.files[path]].book = b /\ e.editions[e.files[path]].isbn = f.isbn
          BY <2>6, <2>9, <4>2
        <5>2. IsbnKnown(e, e.files[path])
          BY <3>1, <5>1 DEF IsbnKnown
        <5>3. QED
          BY <2>6, <2>9, <4>2, <5>2
      <4>3. QED
        BY <4>1, <4>2
    <3>4. ~SharesIsbn(f) => BookKey(e, BookOfFile(e, path)) = WorkKey(f)
      <4>1. SUFFICES ASSUME ~SharesIsbn(f) PROVE BookKey(e, BookOfFile(e, path)) = WorkKey(f)
        OBVIOUS
      <4>2. CASE eds = {} \/ f.isbn = None
        <5>1. BookOfFile(e, path) = b
          BY <2>4, <2>6, <2>9, <4>2 DEF BookOfFile
        <5>2. QED
          BY <3>1, <5>1
      <4>3. CASE eds # {} /\ f.isbn # None
        <5> DEFINE x == e.files[path]
        <5>1. x \in DOMAIN d2.editions /\ d2.editions[x].isbn = f.isbn /\ e.editions = d2.editions
          BY <2>3, <2>4, <2>6, <2>9, <4>3
        <5>2. PICK m \in DOMAIN Library : /\ Library[m].isbn = f.isbn
                                          /\ BookKey(d2, d2.editions[x].book) = WorkKey(Library[m])
          BY <3>2, <4>3, <5>1 DEF Filed, IsbnKnown
        <5>3. WorkKey(Library[m]) = WorkKey(f)
          BY <4>1, <4>3, <5>2 DEF SharesIsbn
        <5>4. d2.editions[x].book \in BookIds(d2)
          BY <2>11, <5>1 DEF Sound
        <5>5. BookKey(e, BookOfFile(e, path)) = BookKey(d2, d2.editions[x].book)
          BY <2>11, <5>1, <5>4, KeysKept DEF BookOfFile, Extends
        <5>6. QED
          BY <5>2, <5>3, <5>5
      <4>4. QED
        BY <4>2, <4>3
    <3>5. /\ \A m \in DOMAIN Library : Library[m].path = path /\ ~SharesIsbn(Library[m])
                                       => FiledRight(e, Library[m])
          /\ \A m \in DOMAIN Calibre : Calibre[m].path = path => FiledRight(e, Calibre[m])
      BY <2>13, <3>4 DEF OneWorkPerPath, FiledRight
    <3>6. DOMAIN e.files \subseteq DOMAIN d2.files \cup {path}
      BY <2>6, <2>9
    <3>7. QED
      BY <2>11, <3>2, <3>3, <3>5, <3>6, FiledStays DEF Extends
  <2>14. QED
    BY <2>7, <2>10, <2>12, <2>13
<1>3. QED
  BY <1>1, <1>2

\* A writer that adds no second row of any work.
NoDups(d, e) == \A k : Copies(e, k) = Copies(d, k) \/ \A b, c \in Copies(e, k) : b = c

\* The book a Calibre entry belongs to.
LEMMA CalibreBook ==
  ASSUME NEW d, Sound(d), NEW title \in Titles, NEW name \in Names
  PROVE  LET found == Spelled(d, name)
             d1    == AddAuthor(d, name, found)
             books == {b \in BookIds(d1) : BookKey(d1, b) = <<title, Folded(name)>>}
             b     == IF books # {} THEN First(books) ELSE Len(d1.books) + 1
             e     == IF books # {} THEN d1
                      ELSE ReindexBook(AddBook(d1, title, AuthorId(d, name, found)), b,
                                       [heading |-> "first", desc |-> None])
         IN /\ Extends(d, e) /\ e.editions = d.editions /\ e.files = d.files
            /\ b \in BookIds(e) /\ BookKey(e, b) = <<title, Folded(name)>>
            /\ NoDups(d, e)
<1> DEFINE found == Spelled(d, name)
           d1    == AddAuthor(d, name, found)
           key   == <<title, Folded(name)>>
           books == {b \in BookIds(d1) : BookKey(d1, b) = key}
           b     == IF books # {} THEN First(books) ELSE Len(d1.books) + 1
           new   == AddBook(d1, title, AuthorId(d, name, found))
           text  == [heading |-> "first", desc |-> None]
           e     == IF books # {} THEN d1 ELSE ReindexBook(new, b, text)
<1>1. found \in SUBSET DOMAIN d.authors /\ \A a \in found : Fold[d.authors[a]] = Fold[name]
  BY DEF Spelled
<1> HIDE DEF found
<1>2. Extends(d, d1) /\ d1.books = d.books /\ d1.editions = d.editions /\ d1.files = d.files
  BY <1>1, AuthorFound
<1>3. BookIds(d1) = BookIds(d) /\ BookIds(d) \subseteq Nat /\ \A k : Copies(d1, k) = Copies(d, k)
  <2>1. BookIds(d1) = BookIds(d)
    BY <1>2 DEF BookIds
  <2>2. BookIds(d) \subseteq Nat
    BY DEF BookIds, Sound, Dbs
  <2> HIDE DEF d1
  <2>3. \A k : Copies(d1, k) = Copies(d, k)
    BY <1>2, <2>1, SameCopies DEF Extends
  <2>4. QED
    BY <2>1, <2>2, <2>3
<1>4. books = Copies(d, key)
  BY <1>3 DEF Copies
<1>5. CASE books # {}
  <2>1. b \in books /\ e = d1
    BY <1>3, <1>5, FirstIn
  <2> HIDE DEF b, e
  <2>2. NoDups(d, d1)
    BY <1>3 DEF NoDups
  <2>3. QED
    BY <1>2, <1>3, <2>1, <2>2 DEF e, b, d1, found
<1>6. CASE books = {}
  <2> DEFINE x == Len(d.books) + 1
  <2>1. /\ Extends(d, new) /\ new.editions = d.editions /\ new.files = d.files
        /\ x = Len(d1.books) + 1
        /\ x \notin BookIds(d) /\ BookIds(new) = BookIds(d) \cup {x}
        /\ BookKey(new, x) = key /\ Text(new, x) = text
    BY <1>1, WorkAdded
  <2>2. b = x /\ e = ReindexBook(new, x, Text(new, x))
    BY <1>6, <2>1
  <2> HIDE DEF b, x, e, new
  <2>3. Sound(new) /\ x \in BookIds(new)
    BY <2>1 DEF Extends
  <2>4. /\ Extends(new, e) /\ e.books = new.books /\ e.editions = new.editions
        /\ e.files = new.files
    BY <2>2, <2>3, Reindexed
  <2>5. Extends(d, e)
    BY <2>1, <2>4, ExtendsTransitive
  <2>6. BookKey(e, x) = key
    BY <2>1, <2>3, <2>4, KeysKept DEF Extends
  <2>7. BookIds(e) = BookIds(d) \cup {x}
    BY <2>1, <2>4 DEF BookIds
  <2>8. NoDups(d, e)
    <3>1. Copies(e, key) = {x} /\ \A k : k # key => Copies(e, k) = Copies(d, k)
      BY <1>4, <1>6, <2>1, <2>5, <2>6, <2>7, OneMoreCopy DEF Extends
    <3>2. QED
      BY <3>1 DEF NoDups
  <2>9. QED
    BY <2>1, <2>2, <2>4, <2>5, <2>6, <2>7, <2>8 DEF e, b, new, found, x
<1>7. QED
  BY <1>5, <1>6

\* One entry of a Calibre library.
LEMMA CalibreEntered ==
  ASSUME NEW d, Sound(d), NEW n \in DOMAIN Calibre
  PROVE  LET e == CalibreEntry(d, Calibre[n])
         IN /\ Extends(d, e) /\ NoDups(d, e)
            /\ OneWorkPerPath /\ Filed(d) => Filed(e)
<1> DEFINE f == Calibre[n]
           path  == f.path
           found == Spelled(d, f.name)
           d1    == AddAuthor(d, f.name, found)
           books == {b \in BookIds(d1) : BookKey(d1, b) = WorkKey(f)}
           b     == IF books # {} THEN First(books) ELSE Len(d1.books) + 1
           d2    == IF books # {} THEN d1
                    ELSE ReindexBook(AddBook(d1, f.title, AuthorId(d, f.name, found)), b,
                                     [heading |-> "first", desc |-> None])
           eds   == {x \in DOMAIN d2.editions : d2.editions[x].book = b}
           e     == Filing(d2, b, eds, None, f.fmt, path)
<1>1. CASE f.path \in DOMAIN d.files
  <2>1. CalibreEntry(d, f) = d
    BY <1>1 DEF CalibreEntry
  <2>2. QED
    BY <2>1, ExtendsSame DEF NoDups
<1>2. CASE f.path \notin DOMAIN d.files
  <2>1. f.title \in Titles /\ f.name \in Names
    BY CatalogAssumption
  <2>2. /\ Extends(d, d2) /\ d2.editions = d.editions /\ d2.files = d.files
        /\ b \in BookIds(d2) /\ BookKey(d2, b) = WorkKey(f) /\ NoDups(d, d2)
    BY <2>1, CalibreBook DEF WorkKey
  <2>3. CalibreEntry(d, f) = e
    BY <1>2 DEF CalibreEntry, Filing
  <2> HIDE DEF d2, b
  <2>4. eds \subseteq DOMAIN d2.editions /\ \A x \in eds : d2.editions[x].book = b
    OBVIOUS
  <2> HIDE DEF eds
  <2>5. None \in Isbns /\ f.fmt \in Fmts /\ path \in Paths
    BY DEF Isbns, Fmts, Paths
  <2>6. Sound(d2) /\ path \notin DOMAIN d2.files
    BY <1>2, <2>2 DEF Extends
  <2>7. FiledAs(d2, e, b, eds, None, path)
    <3> HIDE DEF f, path
    <3>1. QED
      BY <2>2, <2>4, <2>5, <2>6, FileFiled
  <2> HIDE DEF e
  <2>8. Extends(d2, e) /\ Extends(d, e)
    BY <2>2, <2>7, ExtendsTransitive DEF FiledAs
  <2>9. NoDups(d, e)
    <3>1. \A k : Copies(e, k) = Copies(d2, k)
      BY <2>6, <2>7, <2>8, SameCopies DEF Extends, BookIds, FiledAs
    <3>2. QED
      BY <2>2, <3>1 DEF NoDups
  <2>10. ASSUME OneWorkPerPath, Filed(d) PROVE Filed(e)
    <3>1. Filed(d2)
      <4>1. \A x \in DOMAIN d2.editions : x \in DOMAIN d.editions
        BY <2>2
      <4>2. QED
        BY <1>2, <2>2, <2>10, <4>1, FiledStays DEF Extends, FiledRight
    <3>2. \A x \in DOMAIN e.editions : x \in DOMAIN d2.editions \/ IsbnKnown(e, x)
      BY <2>7 DEF FiledAs, IsbnKnown
    <3>3. BookOfFile(e, path) = b
      <4>1. CASE eds # {}
        BY <2>4, <2>7, <4>1 DEF FiledAs, BookOfFile
      <4>2. CASE eds = {}
        BY <2>7, <4>2 DEF FiledAs, BookOfFile
      <4>3. QED
        BY <4>1, <4>2
    <3>4. BookKey(e, b) = WorkKey(f)
      BY <2>2, <2>6, <2>8, KeysKept DEF Extends
    <3>5. /\ \A m \in DOMAIN Library : Library[m].path = path /\ ~SharesIsbn(Library[m])
                                       => FiledRight(e, Library[m])
          /\ \A m \in DOMAIN Calibre : Calibre[m].path = path => FiledRight(e, Calibre[m])
      BY <2>10, <3>3, <3>4 DEF OneWorkPerPath, FiledRight
    <3>6. DOMAIN e.files \subseteq DOMAIN d2.files \cup {path}
      BY <2>7 DEF FiledAs
    <3>7. QED
      BY <2>6, <2>8, <3>1, <3>2, <3>5, <3>6, FiledStays DEF Extends
  <2>11. QED
    BY <2>3, <2>8, <2>9, <2>10
<1>3. QED
  BY <1>1, <1>2

-----------------------------------------------------------------------------
(* From one file, entry or work to all of them.                            *)
LEMMA LibraryLength == Len(Library) \in Nat /\ DOMAIN Library = 1 .. Len(Library)
<1>1. Library \in Seq(ToSet(Library))
  BY CatalogAssumption
<1>2. QED
  BY <1>1

LEMMA CalibreLength == Len(Calibre) \in Nat /\ DOMAIN Calibre = 1 .. Len(Calibre)
<1>1. Calibre \in Seq(ToSet(Calibre))
  BY CatalogAssumption
<1>2. QED
  BY <1>1

\* A whole scan of the library.
LEMMA LibraryScanned ==
  ASSUME NEW d, Sound(d)
  PROVE  /\ Extends(d, Scanned(d)) /\ ScanDups(d, Scanned(d))
         /\ OneWorkPerPath /\ Filed(d) => Filed(Scanned(d))
<1> DEFINE N == Len(Library)
           T == {x \in Dbs : /\ Extends(d, x) /\ ScanDups(d, x)
                             /\ OneWorkPerPath /\ Filed(d) => Filed(x)}
           step == [m \in 1 .. N |-> [x \in T |-> UpsertFile(x, Library[m])]]
           Solution(f) == f = [m \in 0 .. N |-> IF m = 0 THEN d ELSE UpsertFile(f[m - 1], Library[m])]
           done == CHOOSE f : Solution(f)
           U == {m \in 0 .. N : done[m] \in T}
<1>1. N \in Nat /\ DOMAIN Library = 1 .. N
  BY LibraryLength
<1>2. ASSUME NEW m \in 1 .. N, NEW x \in T PROVE UpsertFile(x, Library[m]) \in T
  <2> DEFINE e == UpsertFile(x, Library[m])
  <2>1. x \in Dbs /\ Extends(d, x) /\ ScanDups(d, x)
        /\ (OneWorkPerPath /\ Filed(d) => Filed(x))
    BY <1>2
  <2>2. Extends(x, e) /\ ScanDups(x, e) /\ (OneWorkPerPath /\ Filed(x) => Filed(e))
    BY <1>1, <2>1, Upserted DEF Extends
  <2> HIDE DEF e
  <2>3. e \in Dbs /\ Extends(d, e)
    BY <2>1, <2>2, ExtendsTransitive DEF Extends, Sound
  <2>4. ScanDups(d, e)
    BY <2>1, <2>2 DEF ScanDups
  <2>5. QED
    BY <2>1, <2>2, <2>3, <2>4 DEF e
<1>3. d \in T
  BY ExtendsSame DEF Sound, ScanDups
<1>4. /\ step \in [1 .. N -> [T -> T]]
      /\ \A m \in 1 .. N : \A x \in T : step[m][x] = UpsertFile(x, Library[m])
  BY <1>2
<1>5. Scanned(d) = done[N]
  BY DEF Scanned
<1> HIDE DEF T, step, N
<1>6. PICK g \in [0 .. N -> T] : Iterates(g, N, d, step)
  BY <1>1, <1>3, <1>4, IterationExists
<1>7. g[0] = d /\ \A m \in 1 .. N : m - 1 \in 0 .. N /\ g[m] = UpsertFile(g[m - 1], Library[m])
  BY <1>1, <1>4, <1>6 DEF Iterates
<1>8. Solution(g)
  BY <1>1, <1>6, <1>7
<1>9. Solution(done)
  <2> HIDE DEF Solution
  <2>1. QED
    BY <1>8
<1> HIDE DEF done
<1>10. done[0] = d /\ \A m \in 1 .. N : done[m] = UpsertFile(done[m - 1], Library[m])
  BY <1>1, <1>9
<1>11. 0 \in U /\ \A m \in 1 .. N : m - 1 \in U => m \in U
  BY <1>1, <1>2, <1>3, <1>10
<1>12. done[N] \in T
  <2> HIDE DEF U
  <2>1. 0 .. N \subseteq U
    BY <1>1, <1>11, UpTo
  <2>2. QED
    BY <1>1, <2>1 DEF U
<1>13. QED
  BY <1>5, <1>12 DEF T

\* A whole import of a Calibre library.
LEMMA CalibreImported ==
  ASSUME NEW d, Sound(d)
  PROVE  /\ Extends(d, Imported(d)) /\ NoDups(d, Imported(d))
         /\ OneWorkPerPath /\ Filed(d) => Filed(Imported(d))
<1> DEFINE N == Len(Calibre)
           T == {x \in Dbs : /\ Extends(d, x) /\ NoDups(d, x)
                             /\ OneWorkPerPath /\ Filed(d) => Filed(x)}
           step == [m \in 1 .. N |-> [x \in T |-> CalibreEntry(x, Calibre[m])]]
           Solution(f) == f = [m \in 0 .. N |-> IF m = 0 THEN d ELSE CalibreEntry(f[m - 1], Calibre[m])]
           done == CHOOSE f : Solution(f)
           U == {m \in 0 .. N : done[m] \in T}
<1>1. N \in Nat /\ DOMAIN Calibre = 1 .. N
  BY CalibreLength
<1>2. ASSUME NEW m \in 1 .. N, NEW x \in T PROVE CalibreEntry(x, Calibre[m]) \in T
  <2> DEFINE e == CalibreEntry(x, Calibre[m])
  <2>1. x \in Dbs /\ Extends(d, x) /\ NoDups(d, x)
        /\ (OneWorkPerPath /\ Filed(d) => Filed(x))
    BY <1>2
  <2>2. Extends(x, e) /\ NoDups(x, e) /\ (OneWorkPerPath /\ Filed(x) => Filed(e))
    BY <1>1, <2>1, CalibreEntered DEF Extends
  <2> HIDE DEF e
  <2>3. e \in Dbs /\ Extends(d, e)
    BY <2>1, <2>2, ExtendsTransitive DEF Extends, Sound
  <2>4. NoDups(d, e)
    BY <2>1, <2>2 DEF NoDups
  <2>5. QED
    BY <2>1, <2>2, <2>3, <2>4 DEF e
<1>3. d \in T
  BY ExtendsSame DEF Sound, NoDups
<1>4. /\ step \in [1 .. N -> [T -> T]]
      /\ \A m \in 1 .. N : \A x \in T : step[m][x] = CalibreEntry(x, Calibre[m])
  BY <1>2
<1>5. Imported(d) = done[N]
  BY DEF Imported
<1> HIDE DEF T, step, N
<1>6. PICK g \in [0 .. N -> T] : Iterates(g, N, d, step)
  BY <1>1, <1>3, <1>4, IterationExists
<1>7. g[0] = d /\ \A m \in 1 .. N : m - 1 \in 0 .. N /\ g[m] = CalibreEntry(g[m - 1], Calibre[m])
  BY <1>1, <1>4, <1>6 DEF Iterates
<1>8. Solution(g)
  BY <1>1, <1>6, <1>7
<1>9. Solution(done)
  <2> HIDE DEF Solution
  <2>1. QED
    BY <1>8
<1> HIDE DEF done
<1>10. done[0] = d /\ \A m \in 1 .. N : done[m] = CalibreEntry(done[m - 1], Calibre[m])
  BY <1>1, <1>9
<1>11. 0 \in U /\ \A m \in 1 .. N : m - 1 \in U => m \in U
  BY <1>1, <1>2, <1>3, <1>10
<1>12. done[N] \in T
  <2> HIDE DEF U
  <2>1. 0 .. N \subseteq U
    BY <1>1, <1>11, UpTo
  <2>2. QED
    BY <1>1, <2>1 DEF U
<1>13. QED
  BY <1>5, <1>12 DEF T

AllKeys == Titles \X ({None} \cup {Fold[n] : n \in Names})
Accs    == [d : Dbs, known : SUBSET AllKeys]

LEMMA KeysType == ASSUME NEW d, Sound(d) PROVE Keys(d) \subseteq AllKeys
<1> SUFFICES ASSUME NEW b \in BookIds(d) PROVE BookKey(d, b) \in AllKeys
  BY DEF Keys
<1>1. d.books[b].title \in Titles /\ d.books[b].author \in 0 .. Len(d.authors)
  <2>1. d.books[b] \in BookRows /\ d.books[b].author \in 0 .. Len(d.authors)
    BY DEF Sound, Dbs, BookIds
  <2>2. QED
    BY <2>1 DEF BookRows
<1>2. NameOf(d, b) \in Names \cup {None}
  BY <1>1 DEF Sound, Dbs, NameOf
<1>3. Folded(NameOf(d, b)) \in {None} \cup {Fold[n] : n \in Names}
  BY <1>2 DEF Folded
<1>4. QED
  BY <1>1, <1>3 DEF BookKey, AllKeys

LEMMA WorkKeyType == ASSUME NEW w \in Works PROVE WorkKey(w) \in AllKeys
BY DEF Works, WorkKey, Folded, AllKeys

\* An import that knew the keys known adds a second row only of a work that
\* was in the catalogue without its knowing.
ImportDups(d, known, e, now) ==
  \A k : Copies(e, k) = Copies(d, k)
         \/ /\ k \in now \ known
            /\ k \in Keys(d) \/ \A b, c \in Copies(e, k) : b = c

\* Where an import has got to.
ImportAt(d, known, acc) ==
  /\ Extends(d, acc.d) /\ acc.d.editions = d.editions /\ acc.d.files = d.files
  /\ known \subseteq acc.known /\ acc.known \subseteq Keys(acc.d)
  /\ ImportDups(d, known, acc.d, acc.known)

LEMMA WorkImported ==
  ASSUME NEW d, Sound(d), NEW known, NEW acc \in Accs, ImportAt(d, known, acc), NEW w \in Works
  PROVE  LET e == ImportWork(acc, w)
         IN /\ e \in Accs /\ ImportAt(d, known, e)
            /\ acc.known \subseteq e.known /\ WorkKey(w) \in e.known
<1> DEFINE found == Spelled(acc.d, w.name)
           d1    == AddAuthor(acc.d, w.name, found)
           new   == AddBook(d1, w.title, AuthorId(acc.d, w.name, found))
           b     == Len(acc.d.books) + 1
           key   == WorkKey(w)
           e     == [d |-> new, known |-> acc.known \cup {key}]
<1>1. CASE key \in acc.known
  <2>1. ImportWork(acc, w) = acc
    BY <1>1 DEF ImportWork
  <2>2. QED
    BY <1>1, <2>1
<1>2. CASE key \notin acc.known
  <2>1. ImportWork(acc, w) = e
    BY <1>2 DEF ImportWork
  <2>2. /\ Sound(acc.d) /\ w.title \in Titles /\ w.name \in Names \cup {None}
        /\ found \in SUBSET DOMAIN acc.d.authors
        /\ w.name # None => \A a \in found : Fold[acc.d.authors[a]] = Fold[w.name]
    BY DEF ImportAt, Extends, Works, Spelled
  <2>3. key = <<w.title, Folded(w.name)>>
    BY DEF WorkKey
  <2> HIDE DEF found
  <2>4. /\ Extends(acc.d, new) /\ new.editions = acc.d.editions /\ new.files = acc.d.files
        /\ b \notin BookIds(acc.d) /\ BookIds(new) = BookIds(acc.d) \cup {b}
        /\ BookKey(new, b) = key
    BY <2>2, <2>3, WorkAdded
  <2> HIDE DEF new, b, key
  <2>5. Extends(d, new)
    BY <2>4, ExtendsTransitive DEF ImportAt
  <2>6. /\ Copies(new, key) = Copies(acc.d, key) \cup {b}
        /\ \A k : k # key => Copies(new, k) = Copies(acc.d, k)
        /\ Keys(new) = Keys(acc.d) \cup {key}
    BY <2>2, <2>4, OneMoreCopy DEF Extends
  <2>7. key \in AllKeys
    BY WorkKeyType DEF key
  <2>8. e \in Accs
    BY <2>5, <2>7 DEF Accs, Extends, Sound
  <2>9. e.d = new /\ e.known = acc.known \cup {key}
    OBVIOUS
  <2> HIDE DEF e
  <2>10. ImportDups(d, known, new, e.known)
    <3>1. Copies(acc.d, key) = Copies(d, key)
      BY <1>2 DEF ImportAt, ImportDups, key
    <3>2. key \notin Keys(d) => Copies(new, key) = {b}
      BY <2>6, <3>1 DEF Copies, Keys
    <3>3. key \in e.known \ known
      BY <1>2, <2>9 DEF ImportAt, key
    <3> SUFFICES ASSUME NEW k
                 PROVE  Copies(new, k) = Copies(d, k)
                        \/ /\ k \in e.known \ known
                           /\ k \in Keys(d) \/ \A x, y \in Copies(new, k) : x = y
      BY DEF ImportDups
    <3>4. CASE k = key
      BY <3>2, <3>3, <3>4
    <3>5. CASE k # key
      BY <2>6, <2>9, <3>5 DEF ImportAt, ImportDups
    <3>6. QED
      BY <3>4, <3>5
  <2>11. ImportAt(d, known, e)
    BY <2>4, <2>5, <2>6, <2>9, <2>10 DEF ImportAt
  <2>12. QED
    BY <2>1, <2>8, <2>9, <2>11 DEF e, key
<1>3. QED
  BY <1>1, <1>2

\* A whole import: every work is in the catalogue at the end.
ImportedAs(d, e, known, works) ==
  /\ Extends(d, e) /\ e.editions = d.editions /\ e.files = d.files
  /\ \A k : Copies(e, k) = Copies(d, k)
            \/ /\ k \notin known
               /\ k \in Keys(d) \/ \A b, c \in Copies(e, k) : b = c
  /\ \A m \in DOMAIN works : WorkKey(works[m]) \in Keys(e)

LEMMA WorksImported ==
  ASSUME NEW d, Sound(d), NEW known, known \subseteq Keys(d), NEW works \in Seq(Works)
  PROVE  ImportedAs(d, ImportWorks(d, known, works), known, works)
<1> DEFINE N == Len(works)
           base == [d |-> d, known |-> known]
           T == {x \in Accs : ImportAt(d, known, x)}
           step == [m \in 1 .. N |-> [x \in T |-> ImportWork(x, works[m])]]
           Solution(f) == f = [m \in 0 .. N |-> IF m = 0 THEN base ELSE ImportWork(f[m - 1], works[m])]
           done == CHOOSE f : Solution(f)
           U == {m \in 0 .. N : /\ done[m] \in T
                                /\ \A j \in 1 .. m : WorkKey(works[j]) \in done[m].known}
<1>1. N \in Nat /\ DOMAIN works = 1 .. N /\ \A m \in 1 .. N : works[m] \in Works
  OBVIOUS
<1>2. ASSUME NEW m \in 1 .. N, NEW x \in T
      PROVE  LET e == ImportWork(x, works[m])
             IN e \in T /\ x.known \subseteq e.known /\ WorkKey(works[m]) \in e.known
  BY <1>1, WorkImported
<1>3. base \in T
  <2>1. base \in Accs /\ base.d = d /\ base.known = known
    BY KeysType DEF Accs, Sound
  <2> HIDE DEF base
  <2>2. ImportDups(d, known, d, known) /\ Extends(d, d)
    BY ExtendsSame DEF ImportDups
  <2>3. ImportAt(d, known, base)
    BY <2>1, <2>2 DEF ImportAt
  <2>4. QED
    BY <2>1, <2>3
<1>4. /\ step \in [1 .. N -> [T -> T]]
      /\ \A m \in 1 .. N : \A x \in T : step[m][x] = ImportWork(x, works[m])
  BY <1>2
<1>5. ImportWorks(d, known, works) = done[N].d
  BY DEF ImportWorks
<1>6. \A x \in T : ImportAt(d, known, x)
  OBVIOUS
<1> HIDE DEF T, step, N, base
<1>7. PICK g \in [0 .. N -> T] : Iterates(g, N, base, step)
  BY <1>1, <1>3, <1>4, IterationExists
<1>8. g[0] = base /\ \A m \in 1 .. N : m - 1 \in 0 .. N /\ g[m] = ImportWork(g[m - 1], works[m])
  BY <1>1, <1>4, <1>7 DEF Iterates
<1>9. Solution(g)
  BY <1>1, <1>7, <1>8
<1>10. Solution(done)
  <2> HIDE DEF Solution
  <2>1. QED
    BY <1>9
<1> HIDE DEF done
<1>11. done[0] = base /\ \A m \in 1 .. N : done[m] = ImportWork(done[m - 1], works[m])
  BY <1>1, <1>10
<1>12. 0 \in U
  BY <1>1, <1>3, <1>11
<1>13. ASSUME NEW m \in 1 .. N, m - 1 \in U PROVE m \in U
  <2>1. /\ done[m - 1] \in T /\ m \in 0 .. N
        /\ \A j \in 1 .. (m - 1) : WorkKey(works[j]) \in done[m - 1].known
    BY <1>1, <1>13
  <2>2. /\ done[m] \in T /\ done[m - 1].known \subseteq done[m].known
        /\ WorkKey(works[m]) \in done[m].known
    BY <1>2, <1>11, <2>1
  <2>3. \A j \in 1 .. m : j = m \/ j \in 1 .. (m - 1)
    BY <1>1
  <2>4. QED
    BY <2>1, <2>2, <2>3
<1>14. N \in U
  <2> HIDE DEF U
  <2>1. 0 .. N \subseteq U
    BY <1>1, <1>12, <1>13, UpTo
  <2>2. QED
    BY <1>1, <2>1
<1>15. ImportAt(d, known, done[N]) /\ \A j \in 1 .. N : WorkKey(works[j]) \in done[N].known
  BY <1>6, <1>14
<1> HIDE DEF U
<1>16. QED
  BY <1>1, <1>5, <1>15 DEF ImportAt, ImportDups, ImportedAs

-----------------------------------------------------------------------------
(* The invariant and its steps.                                            *)
Jobs  == [works : Seq(Works), known : SUBSET AllKeys]
Loads == [book : Nat, text : Texts]

ImporterInv ==
  /\ DOMAIN importer = Importers
  /\ \A p \in Importers :
       importer[p] # Idle => importer[p] \in Jobs /\ importer[p].known \subseteq Keys(db)
EditorInv ==
  /\ DOMAIN editor = Editors
  /\ \A u \in Editors :
       editor[u] # None => editor[u] \in Loads /\ editor[u].book \in BookIds(db)
WishInv ==
  \A r \in wish : r[2] \in BookIds(db) /\ (r[1].name # None => BookKey(db, r[2]) = WorkKey(r[1]))
CatalogInv ==
  /\ Sound(db) /\ ImporterInv /\ EditorInv /\ WishInv
  /\ at \in DOMAIN Lists /\ edits \in 0 .. MaxEdits

\* An edit changes the text of its book and nothing else but the index row.
LEMMA Patched ==
  ASSUME CatalogInv, NEW u \in Editors, NEW field \in {"heading", "desc"}, PatchBook(u, field)
  PROVE  LET b == editor[u].book
         IN /\ Sound(db') /\ Kept(db, db') /\ b \in BookIds(db) /\ BookIds(db') = BookIds(db)
            /\ db'.editions = db.editions /\ db'.files = db.files /\ db'.authors = db.authors
            /\ \A x \in BookIds(db) \ {b} : Text(db', x) = Text(db, x) /\ db'.fts[x] = db.fts[x]
            /\ Text(db', b) = [Text(db, b) EXCEPT ![field] = "edited"]
            /\ db'.fts[b] = [editor[u].text EXCEPT ![field] = "edited"]
<1> DEFINE b == editor[u].book
           text == [editor[u].text EXCEPT ![field] = "edited"]
           old == db.books[b]
           row == IF field = "heading" THEN [old EXCEPT !.heading = "edited"]
                  ELSE [old EXCEPT !.desc = "edited"]
           books == [db.books EXCEPT ![b] = row]
           fts == [db.fts EXCEPT ![b] = text]
<1>1. Sound(db) /\ editor[u] \in Loads /\ b \in BookIds(db)
  BY DEF CatalogInv, EditorInv, PatchBook
<1>2. text \in Texts
  BY <1>1 DEF Loads, Texts, Wordings
<1>3. db.books \in Seq(BookRows) /\ db.fts \in Seq(IndexRows) /\ b \in DOMAIN db.books
      /\ b \in DOMAIN db.fts /\ DOMAIN db.fts = DOMAIN db.books
  BY <1>1 DEF Sound, Dbs, BookIds
<1>4. old \in BookRows
  BY <1>3
<1>5. /\ row \in BookRows /\ row.title = old.title /\ row.author = old.author
      /\ [heading |-> row.heading, desc |-> row.desc]
           = [[heading |-> old.heading, desc |-> old.desc] EXCEPT ![field] = "edited"]
  BY <1>4 DEF BookRows, Wordings
<1>6. /\ db'.authors = db.authors /\ db'.books = books /\ db'.editions = db.editions
      /\ db'.files = db.files /\ db'.fts = fts
      /\ db' = [db EXCEPT !.books = books, !.fts = fts]
  <2>1. db' = ReindexBook(IF field = "heading" THEN [db EXCEPT !.books[b].heading = "edited"]
                          ELSE [db EXCEPT !.books[b].desc = "edited"], b, text)
    BY DEF PatchBook
  <2>2. db \in Dbs
    BY <1>1 DEF Sound
  <2> HIDE DEF text, b
  <2>3. CASE field = "heading"
    BY <2>1, <2>2, <2>3 DEF ReindexBook, Dbs
  <2>4. CASE field = "desc"
    BY <2>1, <2>2, <2>4 DEF ReindexBook, Dbs
  <2>5. QED
    BY <2>3, <2>4
<1>7. text \in IndexRows
  BY <1>2 DEF IndexRows
<1> HIDE DEF b, text, row, old
<1>8. books \in Seq(BookRows) /\ Len(books) = Len(db.books) /\ DOMAIN books = DOMAIN db.books
  BY <1>3, <1>5, SeqExcept
<1>9. fts \in Seq(IndexRows) /\ Len(fts) = Len(db.fts) /\ DOMAIN fts = DOMAIN db.fts
  BY <1>3, <1>7, SeqExcept
<1>10. /\ books[b] = row /\ fts[b] = text
       /\ \A x \in DOMAIN db.books \ {b} : books[x] = db.books[x] /\ fts[x] = db.fts[x]
  BY <1>3
<1>11. db' \in Dbs
  <2> HIDE DEF books, fts
  <2>1. QED
    BY <1>1, <1>6, <1>8, <1>9 DEF Sound, Dbs
<1> HIDE DEF books, fts
<1>12. \A x \in DOMAIN db.books : books[x].title = db.books[x].title
                                  /\ books[x].author = db.books[x].author
  BY <1>5, <1>10 DEF old
<1>13. Sound(db')
  BY <1>1, <1>6, <1>8, <1>9, <1>11, <1>12 DEF Sound, BookIds
<1>14. Kept(db, db')
  BY <1>6, <1>8, <1>12 DEF Kept, BookIds
<1>15. Text(db', b) = [Text(db, b) EXCEPT ![field] = "edited"]
  BY <1>5, <1>6, <1>10 DEF Text, old
<1>16. \A x \in BookIds(db) \ {b} : Text(db', x) = Text(db, x) /\ db'.fts[x] = db.fts[x]
  BY <1>6, <1>10 DEF Text, BookIds
<1>17. QED
  BY <1>1, <1>6, <1>8, <1>10, <1>13, <1>14, <1>15, <1>16 DEF BookIds, b, text

\* What the second half of an import does.
LEMMA Wrote ==
  ASSUME CatalogInv, NEW p \in Importers, WriteWorks(p), importer[p].works \in Seq(Works)
  PROVE  ImportedAs(db, db', importer[p].known, importer[p].works)
<1>1. db' = ImportWorks(db, importer[p].known, importer[p].works) /\ importer[p] # Idle
  BY DEF WriteWorks
<1>2. Sound(db) /\ importer[p].known \subseteq Keys(db)
  BY <1>1 DEF CatalogInv, ImporterInv
<1>3. QED
  BY <1>1, <1>2, WorksImported

\* Every step but an edit extends the database.
LEMMA StepKeeps ==
  ASSUME CatalogInv, [Next]_vars
  PROVE  /\ Sound(db') /\ Kept(db, db')
         /\ \/ Extends(db, db')
            \/ \E u \in Editors : \E field \in {"heading", "desc"} : PatchBook(u, field)
<1>1. CASE \E u \in Editors : \E field \in {"heading", "desc"} : PatchBook(u, field)
  BY <1>1, Patched
<1>2. CASE UNCHANGED db
  BY <1>2, ExtendsSame DEF Extends, CatalogInv
<1>3. ASSUME NEW p \in Importers, WriteWorks(p) PROVE Extends(db, db')
  <2>1. importer[p].works \in Seq(Works)
    BY <1>3 DEF WriteWorks, CatalogInv, ImporterInv, Jobs
  <2>2. QED
    BY <1>3, <2>1, Wrote DEF ImportedAs
<1>4. CASE WriteList \/ WritePicks \/ AnswerRequest
  BY <1>3, <1>4 DEF WriteList, WritePicks, AnswerRequest, Importers, Extends
<1>5. CASE ScanLibrary
  BY <1>5, LibraryScanned DEF ScanLibrary, CatalogInv, Extends
<1>6. CASE ImportCalibre
  BY <1>6, CalibreImported DEF ImportCalibre, CatalogInv, Extends
<1>7. QED
  BY <1>1, <1>2, <1>4, <1>5, <1>6
     DEF Next, vars, SearchList, SkipList, DiscoveryImport, CreateRequest, LoadBook

LEMMA ListsType ==
  /\ Len(Lists) \in Nat \ {0} /\ DOMAIN Lists = 1 .. Len(Lists)
  /\ \A n \in DOMAIN Lists : Lists[n].works \in Seq(Works)
<1> DEFINE L == Seq(Works)
           R == [query : {"good", "not json", "unknown key"}, works : L]
<1>1. Lists \in Seq(R) /\ Lists # <<>>
  BY CatalogAssumption
<1>2. \A r \in R : r.works \in L
  OBVIOUS
<1> HIDE DEF R, L
<1>3. /\ Len(Lists) \in Nat \ {0} /\ DOMAIN Lists = 1 .. Len(Lists)
      /\ \A n \in DOMAIN Lists : Lists[n] \in R
  BY <1>1
<1>4. QED
  BY <1>2, <1>3 DEF L

LEMMA CatalogInit == Init => CatalogInv
<1> SUFFICES ASSUME Init PROVE CatalogInv
  OBVIOUS
<1>1. db \in Dbs
  <2>1. db.files \in [{} -> Nat] /\ {} \in SUBSET Paths
    BY DEF Init, EmptyDb
  <2>2. db.files \in FileMaps
    BY <2>1 DEF FileMaps
  <2>3. QED
    BY <2>2 DEF Init, EmptyDb, Dbs
<1>2. Sound(db)
  BY <1>1 DEF Init, EmptyDb, Sound, BookIds
<1>3. at \in DOMAIN Lists /\ edits \in 0 .. MaxEdits
  <2>1. MaxEdits \in Nat
    BY CatalogAssumption
  <2>2. QED
    BY <2>1, ListsType DEF Init
<1>4. QED
  BY <1>2, <1>3 DEF CatalogInv, Init, ImporterInv, EditorInv, WishInv

LEMMA CatalogStep == CatalogInv /\ [Next]_vars => CatalogInv'
<1> SUFFICES ASSUME CatalogInv, [Next]_vars PROVE CatalogInv'
  OBVIOUS
<1>1. Sound(db') /\ Kept(db, db') /\ Sound(db)
  BY StepKeeps DEF CatalogInv
<1>2. /\ \A b \in BookIds(db) : b \in BookIds(db') /\ BookKey(db', b) = BookKey(db, b)
      /\ Keys(db) \subseteq Keys(db')
  BY <1>1, KeysKept
<1>3. at' \in DOMAIN Lists
  <2>1. at \in DOMAIN Lists /\ Len(Lists) \in Nat \ {0} /\ DOMAIN Lists = 1 .. Len(Lists)
    BY ListsType DEF CatalogInv
  <2>2. (at % Len(Lists)) + 1 \in DOMAIN Lists /\ 1 \in DOMAIN Lists
    BY <2>1
  <2>3. at' \in {at, 1, (at % Len(Lists)) + 1}
    BY DEF Next, vars, SearchList, WriteList, SkipList, NextList, DiscoveryImport, WritePicks,
           CreateRequest, AnswerRequest, ScanLibrary, ImportCalibre, LoadBook, PatchBook
  <2>4. QED
    BY <2>1, <2>2, <2>3
<1>4. edits' \in 0 .. MaxEdits
  <2>1. edits' = edits \/ (edits < MaxEdits /\ edits' = edits + 1)
    BY DEF Next, vars, SearchList, WriteList, SkipList, DiscoveryImport, WritePicks,
           CreateRequest, AnswerRequest, ScanLibrary, ImportCalibre, LoadBook, PatchBook
  <2>2. MaxEdits \in Nat
    BY CatalogAssumption
  <2>3. QED
    BY <2>1, <2>2 DEF CatalogInv
<1>5. ImporterInv'
  <2>1. ASSUME NEW p \in Importers, NEW works \in Seq(Works), ReadKeys(p, works)
        PROVE  ImporterInv'
    <3> DEFINE job == [works |-> works, known |-> Keys(db)]
    <3>1. job \in Jobs /\ job.known \subseteq Keys(db')
      BY <1>1, <1>2, KeysType DEF Jobs
    <3>2. importer' = [importer EXCEPT ![p] = job]
      BY <2>1 DEF ReadKeys
    <3> HIDE DEF job
    <3>3. QED
      BY <1>2, <3>1, <3>2 DEF CatalogInv, ImporterInv
  <2>2. ASSUME NEW p \in Importers, WriteWorks(p) PROVE ImporterInv'
    BY <1>2, <2>2 DEF WriteWorks, CatalogInv, ImporterInv
  <2>3. CASE UNCHANGED importer
    BY <1>2, <2>3 DEF CatalogInv, ImporterInv
  <2>4. CASE \E up \in BOOLEAN : SearchList(up)
    <3>1. PICK up \in BOOLEAN : SearchList(up)
      BY <2>4
    <3> DEFINE works == IF up THEN Lists[at].works ELSE <<>>
    <3>2. works \in Seq(Works)
      BY ListsType DEF CatalogInv
    <3>3. ReadKeys("lists", works)
      BY <3>1 DEF SearchList
    <3> HIDE DEF works
    <3>4. QED
      BY <2>1, <3>2, <3>3 DEF Importers
  <2>5. CASE \E works \in Picks : DiscoveryImport(works)
    BY <2>1, <2>5, CatalogAssumption DEF DiscoveryImport, Importers
  <2>6. CASE \E w \in Wishes : CreateRequest(w)
    <3>1. PICK w \in Wishes : CreateRequest(w)
      BY <2>6
    <3>2. w \in Works
      BY CatalogAssumption
    <3>3. <<w>> \in Seq(Works) /\ ReadKeys("api", <<w>>)
      BY <3>1, <3>2 DEF CreateRequest
    <3>4. QED
      BY <2>1, <3>3 DEF Importers
  <2>7. CASE WriteList \/ WritePicks \/ AnswerRequest
    BY <2>2, <2>7 DEF WriteList, WritePicks, AnswerRequest, Importers
  <2>8. QED
    BY <2>3, <2>4, <2>5, <2>6, <2>7
       DEF Next, vars, SkipList, ScanLibrary, ImportCalibre, LoadBook, PatchBook
<1>6. EditorInv'
  <2>1. CASE UNCHANGED editor
    BY <1>2, <2>1 DEF CatalogInv, EditorInv
  <2>2. CASE \E u \in Editors : \E b \in BookIds(db) \cap Edited : LoadBook(u, b)
    <3>1. PICK u \in Editors, b \in BookIds(db) : LoadBook(u, b)
      BY <2>2
    <3> DEFINE load == [book |-> b, text |-> Text(db, b)]
    <3>2. load \in Loads
      <4>1. db.books[b] \in BookRows /\ b \in Nat
        BY <1>1 DEF Sound, Dbs, BookIds
      <4>2. Text(db, b) \in Texts
        BY <4>1 DEF Text, Texts, BookRows
      <4>3. QED
        BY <4>1, <4>2 DEF Loads
    <3>3. load.book \in BookIds(db') /\ editor' = [editor EXCEPT ![u] = load]
      BY <1>2, <3>1 DEF LoadBook
    <3> HIDE DEF load
    <3>4. QED
      BY <1>2, <3>2, <3>3 DEF CatalogInv, EditorInv
  <2>3. CASE \E u \in Editors : \E field \in {"heading", "desc"} : PatchBook(u, field)
    BY <1>2, <2>3 DEF CatalogInv, EditorInv, PatchBook
  <2>4. QED
    BY <2>1, <2>2, <2>3
       DEF Next, vars, SearchList, WriteList, SkipList, DiscoveryImport, WritePicks,
           CreateRequest, AnswerRequest, ScanLibrary, ImportCalibre
<1>7. WishInv'
  <2>1. CASE UNCHANGED wish
    BY <1>2, <2>1 DEF CatalogInv, WishInv
  <2>2. CASE AnswerRequest
    <3> DEFINE w == importer["api"].works[1]
               S == FindRequested(db', w)
    <3>1. PICK v \in Wishes : importer["api"].works = <<v>>
      BY <2>2 DEF AnswerRequest
    <3>2. v \in Works /\ w = v
      <4>1. Wishes \subseteq Works
        BY CatalogAssumption
      <4>2. QED
        BY <3>1, <4>1
    <3>3. importer["api"].works \in Seq(Works) /\ 1 \in DOMAIN importer["api"].works
      BY <3>1, <3>2
    <3>4. WorkKey(w) \in Keys(db')
      BY <2>2, <3>3, Wrote DEF AnswerRequest, Importers, ImportedAs
    <3>5. S # {}
      BY <3>4 DEF Keys, FindRequested, BookKey, WorkKey
    <3>6. BookIds(db') \subseteq Nat
      BY <1>1 DEF Sound, Dbs, BookIds
    <3>7. First(S) \in S
      BY <3>5, <3>6, FirstIn DEF FindRequested
    <3>8. wish' = wish \cup {<<w, First(S)>>}
      BY <2>2, <3>5 DEF AnswerRequest
    <3>9. /\ First(S) \in BookIds(db')
          /\ w.name # None => BookKey(db', First(S)) = WorkKey(w)
      BY <3>7 DEF FindRequested
    <3> HIDE DEF w, S
    <3>10. QED
      BY <1>2, <3>8, <3>9 DEF CatalogInv, WishInv
  <2>3. QED
    BY <2>1, <2>2
       DEF Next, vars, SearchList, WriteList, SkipList, DiscoveryImport, WritePicks,
           CreateRequest, ScanLibrary, ImportCalibre, LoadBook, PatchBook
<1>8. QED
  BY <1>1, <1>3, <1>4, <1>5, <1>6, <1>7 DEF CatalogInv

LEMMA CatalogAlways == Spec => []CatalogInv
BY CatalogInit, CatalogStep, PTL DEF Spec

-----------------------------------------------------------------------------
(* The theorems.                                                           *)
\* No id in the database, and no book an editor holds, names a missing row.
LEMMA InvType == CatalogInv => TypeOK
<1> SUFFICES ASSUME CatalogInv PROVE TypeOK
  OBVIOUS
<1>1. Sound(db) /\ db \in Dbs
  BY DEF CatalogInv, Sound
<1>2. DOMAIN db.books = DOMAIN db.fts
  BY <1>1 DEF Sound, Dbs
<1>3. ASSUME NEW b \in BookIds(db)
      PROVE  /\ db.books[b].title \in Titles
             /\ db.books[b].author \in 0 .. Len(db.authors)
             /\ Text(db, b) \in Texts /\ db.fts[b] \in {Absent} \cup Texts
  <2>1. db.books[b] \in BookRows /\ db.books[b].author \in 0 .. Len(db.authors)
    BY <1>1 DEF Sound, Dbs, BookIds
  <2>2. Text(db, b) \in Texts
    BY <2>1 DEF BookRows, Text, Texts
  <2>3. db.fts[b] \in IndexRows
    BY <1>1, <1>2 DEF Dbs, BookIds
  <2>4. QED
    BY <2>1, <2>2, <2>3 DEF BookRows, IndexRows
<1>4. /\ \A e \in DOMAIN db.editions : db.editions[e].book \in BookIds(db)
      /\ \A path \in DOMAIN db.files : db.files[path] \in DOMAIN db.editions
  BY <1>1 DEF Sound
<1>5. \A p \in Importers : importer[p] = Idle \/ importer[p].known \subseteq AllKeys
  BY DEF CatalogInv, ImporterInv, Jobs
<1>6. \A u \in Editors : editor[u] = None \/ editor[u].book \in BookIds(db)
  BY DEF CatalogInv, EditorInv
<1>7. at \in DOMAIN Lists /\ edits \in 0 .. MaxEdits
  BY DEF CatalogInv
<1>8. QED
  BY <1>2, <1>3, <1>4, <1>5, <1>6, <1>7 DEF TypeOK, Texts, AllKeys

\* Every request is answered with a row of the work it asked for: the keys an
\* import read earlier are still in the catalogue when it writes, so the work
\* has a row whether the import adds one or not.
THEOREM RequestsAreAnswered == Spec => []RequestAnswered
<1>1. CatalogInv => RequestAnswered
  <2> SUFFICES ASSUME CatalogInv, NEW r \in wish PROVE r[2] # None
    BY DEF RequestAnswered, CatalogInv, WishInv
  <2>1. r[2] \in Nat
    BY DEF CatalogInv, WishInv, Sound, Dbs, BookIds
  <2>2. QED
    BY <2>1, CatalogAssumption
<1>2. QED
  BY <1>1, CatalogAlways, PTL

\* A second row of a work appears only by an import that read the keys before
\* another writer's commit, or by a scan when its author has two rows.
THEOREM DuplicatesAreKnown == Spec => NoDuplicateWorks
<1>1. CatalogInv /\ [Next]_vars
      => [\A k \in Keys(db') :
            Copies(db', k) # Copies(db, k) /\ (\E b, c \in Copies(db', k) : b # c)
            => \/ \E p \in Importers : importer'[p] # importer[p] /\ k \in Keys(db) \ importer[p].known
               \/ TwoSpellings(db, k[2])]_vars
  <2> SUFFICES ASSUME CatalogInv, Next, NEW k \in Keys(db'),
                      Copies(db', k) # Copies(db, k), \E b, c \in Copies(db', k) : b # c
               PROVE  \/ \E p \in Importers : importer'[p] # importer[p]
                                              /\ k \in Keys(db) \ importer[p].known
                      \/ TwoSpellings(db, k[2])
    OBVIOUS
  <2>1. Sound(db)
    BY DEF CatalogInv
  <2>2. CASE BookIds(db') = BookIds(db)
    BY <2>1, <2>2, StepKeeps, SameCopies
  <2>3. ASSUME NEW p \in Importers, WriteWorks(p)
        PROVE  importer'[p] # importer[p] /\ k \in Keys(db) \ importer[p].known
    <3>1. importer[p].works \in Seq(Works)
      BY <2>3 DEF WriteWorks, CatalogInv, ImporterInv, Jobs
    <3>2. k \in Keys(db) \ importer[p].known
      BY <2>3, <3>1, Wrote DEF ImportedAs
    <3>3. importer'[p] # importer[p]
      BY <2>3 DEF WriteWorks, CatalogInv, ImporterInv
    <3>4. QED
      BY <3>2, <3>3
  <2>4. CASE WriteList \/ WritePicks \/ AnswerRequest
    BY <2>3, <2>4 DEF WriteList, WritePicks, AnswerRequest, Importers
  <2>5. CASE ScanLibrary
    BY <2>1, <2>5, LibraryScanned DEF ScanLibrary, ScanDups
  <2>6. CASE ImportCalibre
    BY <2>1, <2>6, CalibreImported DEF ImportCalibre, NoDups
  <2>7. CASE \E u \in Editors : \E field \in {"heading", "desc"} : PatchBook(u, field)
    BY <2>2, <2>7, Patched
  <2>8. CASE UNCHANGED db
    BY <2>2, <2>8
  <2>9. QED
    BY <2>4, <2>5, <2>6, <2>7, <2>8
       DEF Next, SearchList, SkipList, DiscoveryImport, CreateRequest, LoadBook
<1>2. QED
  BY <1>1, CatalogAlways, PTL DEF Spec, NoDuplicateWorks

\* What changes a book's text or its index row leaves the two equal, except
\* an edit of a copy of the row that another edit has outdated.
THEOREM IndexIsKept == Spec => IndexFollows
<1>1. CatalogInv /\ [Next]_vars
      => [\A b \in BookIds(db) :
            Text(db', b) # Text(db, b) \/ db'.fts[b] # db.fts[b]
            => db'.fts[b] = Text(db', b) \/ \E u \in Editors : OldCopy(u, b)]_vars
  <2> SUFFICES ASSUME CatalogInv, [Next]_vars, NEW b \in BookIds(db),
                      Text(db', b) # Text(db, b) \/ db'.fts[b] # db.fts[b]
               PROVE  db'.fts[b] = Text(db', b) \/ \E u \in Editors : OldCopy(u, b)
    OBVIOUS
  <2>1. CASE Extends(db, db')
    BY <2>1 DEF Extends, IndexKept
  <2>2. ASSUME NEW u \in Editors, NEW field \in {"heading", "desc"}, PatchBook(u, field)
        PROVE  db'.fts[b] = Text(db', b) \/ OldCopy(u, b)
    <3>1. LET x == editor[u].book
          IN /\ \A y \in BookIds(db) \ {x} : Text(db', y) = Text(db, y) /\ db'.fts[y] = db.fts[y]
             /\ Text(db', x) = [Text(db, x) EXCEPT ![field] = "edited"]
             /\ db'.fts[x] = [editor[u].text EXCEPT ![field] = "edited"]
      BY <2>2, Patched
    <3>2. b = editor[u].book
      BY <3>1
    <3>3. CASE editor[u].text = Text(db, b)
      BY <3>1, <3>2, <3>3
    <3>4. CASE editor[u].text # Text(db, b)
      BY <2>2, <3>2, <3>4 DEF OldCopy, PatchBook, CatalogInv, EditorInv
    <3>5. QED
      BY <3>3, <3>4
  <2>3. QED
    BY <2>1, <2>2, StepKeeps
<1>2. QED
  BY <1>1, CatalogAlways, PTL DEF Spec, IndexFollows

\* Every file lies under the work its own metadata names, when no path is of
\* two works, unless another work has its ISBN.
THEOREM FilesAreUnderTheirBook ==
  ASSUME OneWorkPerPath
  PROVE  Spec => []FilesUnderTheirBook
<1>1. Init => Filed(db)
  BY DEF Init, EmptyDb, Filed, FiledRight
<1>2. Filed(db) /\ CatalogInv /\ [Next]_vars => Filed(db)'
  <2> SUFFICES ASSUME Filed(db), CatalogInv, [Next]_vars PROVE Filed(db')
    OBVIOUS
  <2>1. Sound(db) /\ Kept(db, db')
    BY StepKeeps DEF CatalogInv
  <2>2. CASE db'.editions = db.editions /\ db'.files = db.files
    <3>1. \A f : FiledRight(db, f) => FiledRight(db', f)
      BY <2>1, <2>2, KeysKept DEF FiledRight
    <3>2. \A x \in DOMAIN db.editions : IsbnKnown(db', x)
      <4> SUFFICES ASSUME NEW x \in DOMAIN db.editions PROVE IsbnKnown(db', x)
        OBVIOUS
      <4>1. db.editions[x].book \in BookIds(db) /\ IsbnKnown(db, x)
        BY <2>1 DEF Sound, Filed
      <4>2. QED
        BY <2>1, <2>2, <4>1, KeysKept DEF IsbnKnown
    <3>3. QED
      BY <2>2, <3>1, <3>2 DEF Filed
  <2>3. ASSUME NEW p \in Importers, WriteWorks(p)
        PROVE  db'.editions = db.editions /\ db'.files = db.files
    <3>1. importer[p].works \in Seq(Works)
      BY <2>3 DEF WriteWorks, CatalogInv, ImporterInv, Jobs
    <3>2. QED
      BY <2>3, <3>1, Wrote DEF ImportedAs
  <2>4. CASE WriteList \/ WritePicks \/ AnswerRequest
    BY <2>2, <2>3, <2>4 DEF WriteList, WritePicks, AnswerRequest, Importers
  <2>5. CASE ScanLibrary
    BY <2>1, <2>5, LibraryScanned DEF ScanLibrary
  <2>6. CASE ImportCalibre
    BY <2>1, <2>6, CalibreImported DEF ImportCalibre
  <2>7. CASE \E u \in Editors : \E field \in {"heading", "desc"} : PatchBook(u, field)
    BY <2>2, <2>7, Patched
  <2>8. CASE UNCHANGED db
    BY <2>2, <2>8
  <2>9. QED
    BY <2>4, <2>5, <2>6, <2>7, <2>8
       DEF Next, vars, SearchList, SkipList, DiscoveryImport, CreateRequest, LoadBook
<1>3. Filed(db) /\ CatalogInv => FilesUnderTheirBook
  BY InvType DEF Filed, FiledRight, FilesUnderTheirBook
<1>4. QED
  BY <1>1, <1>2, <1>3, CatalogAlways, PTL DEF Spec
=============================================================================
