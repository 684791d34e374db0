--------------------------- MODULE EnrichmentProofs ---------------------------
(***************************************************************************)
(* Theorems about Enrichment, for any number of books and works, whatever  *)
(* the providers, the cache and the user do between two steps of a lookup. *)
(***************************************************************************)
EXTENDS Enrichment, FiniteSetTheorems, TLAPS

\* The slugs a book may have.
SlugNames == UNION ({Shelved[b] : b \in Books} \cup {Slugs[x] : x \in Works \cup Books})
Rows == [desc : Texts, key : Works \cup {None}, slugs : SUBSET SlugNames]

\* Each lookup is of some book, a second hop only of one Open Library knows.
LookInv ==
  \A p \in Processes :
    /\ look[p].hop # "idle" => look[p].book \in Books
    /\ look[p].hop = "work" => WorkOf[look[p].book] \in Works
    /\ look[p].hop = "idle" => look[p].seen = "unread"

\* While a run lasts its Session agrees with the database about every book
\* nobody edited meanwhile, and has no description the database lost.
SessionInv ==
  look["enricher"].hop # "idle" =>
    \A b \in Books : /\ b \notin late => mem[b] = row[b]
                     /\ mem[b].desc # None => row[b].desc # None

IInv ==
  /\ TypeOK
  /\ row \in [Books -> Rows] /\ mem \in [Books -> Rows]
  /\ LookInv /\ SessionInv

-----------------------------------------------------------------------------
\* A set of numbers that is not empty has a least member: of the intervals
\* that end in a member one is minimal.
LEMMA LeastExists ==
  ASSUME NEW T \in SUBSET Nat, T # {}
  PROVE  \E n \in T : \A m \in T : n <= m
<1> DEFINE Ends == {0 .. n : n \in T}
<1>1. Ends \subseteq FiniteSubsetsOf(Nat)
  <2>1. ASSUME NEW n \in T PROVE 0 .. n \in FiniteSubsetsOf(Nat)
    BY FS_Interval DEF FiniteSubsetsOf
  <2>2. QED
    BY <2>1
<1>2. Ends # {}
  OBVIOUS
<1> HIDE DEF Ends
<1>3. PICK I \in Ends : \A J \in Ends : <<J, I>> \notin StrictSubsetOrdering(Nat)
  BY <1>1, <1>2, WFMin, FS_StrictSubsetOrderingWellFounded
<1>4. PICK n \in T : I = 0 .. n
  BY DEF Ends
<1>5. ASSUME NEW m \in T, m < n PROVE FALSE
  <2>1. 0 .. m \in Ends
    BY DEF Ends
  <2>2. 0 .. m \subseteq 0 .. n /\ n \in 0 .. n /\ n \notin 0 .. m
    BY <1>5
  <2>3. <<0 .. m, I>> \in StrictSubsetOrdering(Nat)
    BY <1>4, <2>2 DEF StrictSubsetOrdering
  <2>4. QED
    BY <1>3, <2>1, <2>3
<1>6. QED
  BY <1>5

\* The next book of a run is one of the books that are left to do, if any.
LEMMA NextBookType ==
  ASSUME NEW m, NEW b \in Books \cup {0}
  PROVE  \/ NextBook(m, b) = Idle
         \/ NextBook(m, b) \in [book : Books, hop : {"isbn"}, seen : {"unread"}]
<1>1. CASE Todo(m, b) # {}
  <2>1. Todo(m, b) \in SUBSET Nat /\ Todo(m, b) \subseteq Books
    BY EnrichmentAssumption DEF Todo, Books
  <2>2. Smallest(Todo(m, b)) \in Todo(m, b)
    BY <1>1, <2>1, LeastExists DEF Smallest
  <2>3. QED
    BY <1>1, <2>1, <2>2 DEF NextBook
<1>2. QED
  BY <1>1 DEF NextBook

\* Slugs come from the providers' lists.
LEMMA SlugsType ==
  /\ \A x \in Works \cup Books : Slugs[x] \in SUBSET SlugNames
  /\ \A b \in Books : Shelved[b] \in SUBSET SlugNames
BY DEF SlugNames

\* What a lookup comes to: a hop that the book's work allows, or metadata of
\* the right type.
Metas == [key : Works \cup {None}, desc : {None, "provider"}, slugs : SUBSET SlugNames]
Outcome(b, out) ==
  \/ out.to = "work" /\ WorkOf[b] \in Works
  \/ out.to \in {"gb", "nothing"}
  \/ out.to = "apply" /\ out.meta \in Metas

LEMMA OutcomeType ==
  ASSUME NEW b \in Books, NEW hop \in {"isbn", "work", "gb"}, hop = "work" => WorkOf[b] \in Works
  PROVE  Outcome(b, Answered(hop, b)) /\ Outcome(b, Unreachable(hop, b))
<1> USE EnrichmentAssumption, SlugsType DEF Outcome, Metas, Meta, Apply, Hop, Nothing
<1>1. WorkOf[b] \in Works \cup {None}
  OBVIOUS
<1>2. CASE hop = "isbn"
  BY <1>1, <1>2 DEF Answered, Unreachable, DumpMeta
<1>3. CASE hop = "work"
  BY <1>1, <1>3 DEF Answered, Unreachable, WorkMerged, Edition
<1>4. CASE hop = "gb"
  BY <1>1, <1>4 DEF Answered, Unreachable, GoogleMeta
<1>5. QED
  BY <1>2, <1>3, <1>4

-----------------------------------------------------------------------------
\* What a lookup may be about to do, and the lookups that are under way.
Lookups == [book : 0 .. NBooks, hop : {"idle", "isbn", "work", "gb"},
            seen : {"unread", "absent", "stale"}]
MayLook(l) ==
  \/ l = Idle
  \/ l \in [book : Books, hop : {"isbn", "work", "gb"}, seen : {"unread"}]
     /\ (l.hop = "work" => WorkOf[l.book] \in Works)

LEMMA NextBookMayLook ==
  ASSUME NEW m, NEW b \in Books \cup {0}
  PROVE  MayLook(NextBook(m, b))
<1>1. CASE NextBook(m, b) \in [book : Books, hop : {"isbn"}, seen : {"unread"}]
  <2> DEFINE l == NextBook(m, b)
  <2> HIDE DEF l
  <2>1. l \in [book : Books, hop : {"isbn"}, seen : {"unread"}]
    BY <1>1 DEF l
  <2>2. MayLook(l)
    BY <2>1 DEF MayLook
  <2>3. QED
    BY <2>2 DEF l
<1>2. QED
  BY <1>1, NextBookType DEF MayLook

LEMMA LookSet ==
  ASSUME look \in [Processes -> Lookups], LookInv, NEW p \in Processes, NEW l, MayLook(l),
         look' = [look EXCEPT ![p] = l]
  PROVE  look' \in [Processes -> Lookups] /\ LookInv'
<1>1. l \in Lookups
  BY EnrichmentAssumption DEF MayLook, Lookups, Idle, Books
<1>2. /\ l.hop # "idle" => l.book \in Books
      /\ l.hop = "work" => WorkOf[l.book] \in Works
      /\ l.hop = "idle" => l.seen = "unread"
  BY DEF MayLook, Idle
<1>3. QED
  BY <1>1, <1>2 DEF LookInv

\* _apply and its commit.  The unique work_key keeps two books from one work,
\* and the Session is refreshed with what the commit wrote.
LEMMA ApplyInv ==
  ASSUME IInv, look["enricher"].hop # "idle", NEW meta \in Metas,
         ApplyMeta(look["enricher"].book, meta), UNCHANGED <<late, old, edits>>,
         cache' \in [Keys -> {"absent", "fresh", "stale"}]
  PROVE  IInv'
<1> DEFINE b == look["enricher"].book
           key == Gap(mem[b].key, meta.key)
           desc == Gap(mem[b].desc, meta.desc)
           full == [desc |-> Written(row[b].desc, mem[b].desc, desc),
                    key |-> Written(row[b].key, mem[b].key, key),
                    slugs |-> row[b].slugs \cup meta.slugs]
<1> USE DEF Processes
<1>1. b \in Books /\ row[b] \in Rows /\ mem[b] \in Rows
  BY DEF IInv, LookInv
<1>2. CASE Taken(b, key)
  <2>1. look' = [look EXCEPT !["enricher"] = Idle] /\ UNCHANGED <<row, fts, mem>>
    BY <1>2 DEF ApplyMeta
  <2>2. look' \in [Processes -> Lookups] /\ LookInv' /\ look'["enricher"].hop = "idle"
    BY <2>1, LookSet DEF IInv, TypeOK, Lookups, MayLook, Idle
  <2>3. QED
    BY <2>1, <2>2 DEF IInv, TypeOK, SessionInv, Lookups
<1>3. CASE ~Taken(b, key)
  <2>1. /\ row' = [row EXCEPT ![b] = full]
        /\ mem' = [mem EXCEPT ![b] = full]
        /\ look' = [look EXCEPT !["enricher"] = NextBook(mem', b)]
    BY <1>3 DEF ApplyMeta
  <2>2. full \in Rows
    BY <1>1 DEF Rows, Metas, Gap, Written, Texts
  <2>3. row' \in [Books -> Rows] /\ mem' \in [Books -> Rows]
    BY <1>1, <2>1, <2>2 DEF IInv
  <2>4. \A c, d \in Books : row'[c].key = row'[d].key => c = d \/ row'[c].key = None
    <3>1. \A c \in Books \ {b} : full.key = row[c].key => full.key = None
      <4>1. full.key = key \/ full.key = row[b].key
        BY DEF Written
      <4>2. \A c \in Books \ {b} : row[c].key = key => key = None
        BY <1>3 DEF Taken
      <4>3. \A c \in Books \ {b} : row[c].key = row[b].key => row[c].key = None
        BY <1>1 DEF IInv, TypeOK
      <4>4. QED
        BY <4>1, <4>2, <4>3
    <3>2. \A c \in Books : row'[c] = IF c = b THEN full ELSE row[c]
      BY <1>1, <2>1 DEF IInv
    <3>3. QED
      BY <3>1, <3>2 DEF IInv, TypeOK
  <2>5. look' \in [Processes -> Lookups] /\ LookInv'
    BY <1>1, <2>1, NextBookMayLook, LookSet DEF IInv, TypeOK, Lookups
  <2>6. SessionInv'
    <3>1. full.desc # None \/ row[b].desc = None
      BY <1>1, EnrichmentAssumption DEF Written, Gap, Metas
    <3>2. QED
      BY <1>1, <2>1, <3>1 DEF IInv, SessionInv
  <2>7. TypeOK'
    BY <2>3, <2>4, <2>5 DEF IInv, TypeOK, Rows, Lookups
  <2>8. QED
    BY <2>3, <2>5, <2>6, <2>7 DEF IInv
<1>4. QED
  BY <1>2, <1>3

\* A lookup that goes on, ends or is applied.
LEMMA FollowInv ==
  ASSUME IInv, NEW p \in Processes, look[p].hop # "idle", NEW out, Outcome(look[p].book, out),
         Follow(p, out), UNCHANGED <<late, old, edits>>,
         cache' \in [Keys -> {"absent", "fresh", "stale"}]
  PROVE  IInv'
<1> DEFINE b == look[p].book
<1> USE DEF Processes
<1>1. b \in Books
  BY DEF IInv, LookInv
<1>2. CASE out.to = "apply" /\ p = "enricher" /\ ApplyMeta(b, out.meta)
  BY <1>2, ApplyInv DEF Outcome
<1>3. ASSUME Stay, NEW l, look' = [look EXCEPT ![p] = l], MayLook(l)
      PROVE  IInv'
  <2>1. look' \in [Processes -> Lookups] /\ LookInv'
    BY <1>3, LookSet DEF IInv, TypeOK, Lookups
  <2>2. look'["enricher"].hop # "idle" => look["enricher"].hop # "idle"
    BY <1>3 DEF IInv, TypeOK
  <2>3. QED
    BY <1>3, <2>1, <2>2 DEF IInv, TypeOK, SessionInv, Stay, Lookups
<1>4. CASE out.to \in {"work", "gb"} /\ Stay
           /\ look' = [look EXCEPT ![p] = [book |-> b, hop |-> out.to, seen |-> "unread"]]
  BY <1>1, <1>3, <1>4 DEF Outcome, MayLook
<1>5. CASE look' = [look EXCEPT ![p] = NextBook(mem, b)] /\ Stay
  BY <1>1, <1>3, <1>5, NextBookMayLook
<1>6. CASE look' = [look EXCEPT ![p] = Idle] /\ Stay
  BY <1>3, <1>6 DEF MayLook
<1>7. QED
  BY <1>2, <1>4, <1>5, <1>6 DEF Follow

-----------------------------------------------------------------------------
\* The cache row a lookup asks for exists as a key.
LEMMA KeyType ==
  ASSUME IInv, NEW p \in Processes, look[p].hop # "idle"
  PROVE  Key(p) \in Keys /\ look[p].book \in Books /\ look[p].hop \in {"isbn", "work", "gb"}
         /\ Outcome(look[p].book, Answered(look[p].hop, look[p].book))
         /\ Outcome(look[p].book, Unreachable(look[p].hop, look[p].book))
<1>1. look[p].book \in Books /\ look[p].hop \in {"isbn", "work", "gb"}
      /\ (look[p].hop = "work" => WorkOf[look[p].book] \in Works)
  BY DEF IInv, TypeOK, LookInv
<1>2. Key(p) \in Keys
  BY <1>1 DEF Key, Keys
<1>3. QED
  BY <1>1, <1>2, OutcomeType

LEMMA LookupInv ==
  ASSUME IInv, NEW p \in Processes,
         ReadCache(p) \/ FetchAnswers(p) \/ FetchClashes(p) \/ FetchFails(p)
  PROVE  IInv'
<1>1. look[p].hop # "idle"
  BY DEF ReadCache, FetchAnswers, FetchClashes, FetchFails, IInv, LookInv
<1>2. UNCHANGED <<late, old, edits>>
  BY DEF ReadCache, FetchAnswers, FetchClashes, FetchFails
<1>3. cache' \in [Keys -> {"absent", "fresh", "stale"}]
  BY <1>1, KeyType DEF ReadCache, FetchAnswers, FetchClashes, FetchFails, IInv, TypeOK
<1>4. CASE ReadCache(p)
  <2>1. CASE cache[Key(p)] = "fresh"
    BY <1>1, <1>2, <1>3, <1>4, <2>1, KeyType, FollowInv DEF ReadCache
  <2>2. CASE cache[Key(p)] # "fresh"
    <3>1. cache[Key(p)] \in {"absent", "stale"}
      BY <1>1, <2>2, KeyType DEF IInv, TypeOK
    <3>2. look' = [look EXCEPT ![p].seen = cache[Key(p)]] /\ Stay
      BY <1>4, <2>2 DEF ReadCache
    <3>3. look' \in [Processes -> Lookups]
      BY <3>1, <3>2 DEF IInv, TypeOK, Lookups
    <3>4. \A q \in Processes : look'[q].hop = look[q].hop /\ look'[q].book = look[q].book
                               /\ (q # p => look'[q] = look[q])
      BY <3>2 DEF IInv, TypeOK
    <3>5. LookInv' /\ SessionInv'
      BY <1>1, <1>2, <3>2, <3>4 DEF IInv, LookInv, SessionInv, Stay, Processes
    <3>6. QED
      BY <1>2, <1>3, <3>2, <3>3, <3>5 DEF IInv, TypeOK, Stay, Lookups
  <2>3. QED
    BY <2>1, <2>2
<1>5. CASE FetchAnswers(p)
  BY <1>1, <1>2, <1>3, <1>5, KeyType, FollowInv DEF FetchAnswers
<1>6. CASE FetchFails(p)
  <2>1. Outcome(look[p].book, Offline(p))
    BY <1>1, KeyType DEF Offline
  <2>2. QED
    BY <1>1, <1>2, <1>3, <1>6, <2>1, FollowInv DEF FetchFails
<1>7. CASE FetchClashes(p)
  <2>1. look' = [look EXCEPT ![p] = Idle] /\ Stay
    BY <1>7 DEF FetchClashes
  <2>2. look' \in [Processes -> Lookups] /\ LookInv'
    BY <2>1, LookSet DEF IInv, TypeOK, Lookups, MayLook
  <2>3. look'["enricher"].hop # "idle" => look["enricher"].hop # "idle"
    BY <2>1 DEF IInv, TypeOK, Idle, Processes
  <2>4. QED
    BY <1>2, <1>3, <2>1, <2>2, <2>3 DEF IInv, TypeOK, SessionInv, Stay, Lookups
<1>8. QED
  BY <1>4, <1>5, <1>6, <1>7

\* The steps outside a lookup.
LEMMA OtherInv ==
  ASSUME IInv,
         \/ StartRun \/ \E b \in Requested : StartRequest(b)
         \/ (\E b \in Books : PatchBook(b)) \/ \E k \in Keys : Expire(k)
  PROVE  IInv'
<1> USE DEF Processes
<1>1. CASE StartRun
  <2>1. UNCHANGED <<row, cache, old, edits>> /\ mem' = row /\ late' = {}
        /\ look' = [look EXCEPT !["enricher"] = NextBook(row, 0)]
    BY <1>1 DEF StartRun
  <2>2. look' \in [Processes -> Lookups] /\ LookInv'
    BY <2>1, NextBookMayLook, LookSet DEF IInv, TypeOK, Lookups
  <2>3. QED
    BY <2>1, <2>2 DEF IInv, TypeOK, SessionInv, Lookups
<1>2. ASSUME NEW b \in Requested, StartRequest(b) PROVE IInv'
  <2>1. UNCHANGED <<row, cache, mem, late, old, edits>> /\ b \in Books
        /\ look' = [look EXCEPT !["request"] = [book |-> b, hop |-> "isbn", seen |-> "unread"]]
    BY <1>2, EnrichmentAssumption DEF StartRequest
  <2>2. look' \in [Processes -> Lookups] /\ LookInv'
    BY <2>1, LookSet DEF IInv, TypeOK, Lookups, MayLook
  <2>3. QED
    BY <2>1, <2>2 DEF IInv, TypeOK, SessionInv, Lookups
<1>3. ASSUME NEW b \in Books, PatchBook(b) PROVE IInv'
  <2>1. /\ row' = [row EXCEPT ![b].desc = "user"]
        /\ UNCHANGED <<cache, look, mem, old>>
        /\ edits' \in 0 .. MaxEdits
        /\ late' = IF look["enricher"] = Idle THEN late ELSE late \cup {b}
    BY <1>3, EnrichmentAssumption DEF PatchBook, IInv, TypeOK
  <2>2. row' \in [Books -> Rows] /\ \A c \in Books : /\ row'[c].key = row[c].key
                                                     /\ row'[c].desc \in {row[c].desc, "user"}
                                                     /\ c # b => row'[c] = row[c]
    BY <2>1 DEF IInv, Rows, Texts
  <2>3. TypeOK'
    BY <2>1, <2>2 DEF IInv, TypeOK, Texts
  <2>4. SessionInv'
    <3>1. look["enricher"].hop # "idle" => look["enricher"] # Idle
      BY DEF Idle
    <3>2. "user" # None
      BY EnrichmentAssumption
    <3>3. QED
      BY <2>1, <2>2, <3>1, <3>2 DEF IInv, SessionInv
  <2>5. QED
    BY <2>1, <2>2, <2>3, <2>4 DEF IInv, LookInv
<1>4. ASSUME NEW k \in Keys, Expire(k) PROVE IInv'
  <2>1. /\ UNCHANGED <<row, look, mem, late, edits>>
        /\ cache' = [cache EXCEPT ![k] = "stale"]
        /\ old' \in 0 .. MaxOld
    BY <1>4, EnrichmentAssumption DEF Expire, IInv, TypeOK
  <2>2. QED
    BY <2>1 DEF IInv, TypeOK, LookInv, SessionInv
<1>5. QED
  BY <1>1, <1>2, <1>3, <1>4

-----------------------------------------------------------------------------
\* The inductive invariant holds in every reachable state.
THEOREM Invariance == Spec => []IInv
<1>1. Init => IInv
  <2> SUFFICES ASSUME Init PROVE IInv
    OBVIOUS
  <2>1. row \in [Books -> Rows] /\ mem = row /\ \A b \in Books : row[b].desc = None /\ row[b].key = None
    BY SlugsType DEF Init, Rows, Texts
  <2>2. look = [p \in Processes |-> Idle] /\ Idle.hop = "idle" /\ Idle.seen = "unread"
    BY DEF Init, Idle
  <2>3. Idle \in [book : 0 .. NBooks, hop : {"idle", "isbn", "work", "gb"},
                  seen : {"unread", "absent", "stale"}]
    BY EnrichmentAssumption DEF Idle
  <2>4. cache \in [Keys -> {"absent", "fresh", "stale"}] /\ old \in 0 .. MaxOld /\ edits \in 0 .. MaxEdits
    BY EnrichmentAssumption DEF Init
  <2>5. TypeOK
    BY <2>1, <2>2, <2>3, <2>4 DEF TypeOK, Texts
  <2>6. LookInv
    BY <2>2 DEF LookInv
  <2>7. QED
    BY <2>1, <2>2, <2>5, <2>6 DEF IInv, SessionInv, Processes
<1>2. IInv /\ [Next]_vars => IInv'
  <2> SUFFICES ASSUME IInv, [Next]_vars PROVE IInv'
    OBVIOUS
  <2>1. CASE UNCHANGED vars
    BY <2>1 DEF vars, IInv, TypeOK, LookInv, SessionInv
  <2>2. CASE Next
    BY <2>2, LookupInv, OtherInv DEF Next
  <2>3. QED
    BY <2>1, <2>2
<1>3. QED
  BY <1>1, <1>2, PTL DEF Spec

\* Type correctness, and no two books are ever given one work: aborting on
\* the unique work_key is what the run relies on.
THEOREM TypeCorrect == Spec => []TypeOK
<1>1. IInv => TypeOK
  BY DEF IInv
<1>2. QED
  BY <1>1, Invariance, PTL

-----------------------------------------------------------------------------
\* Only _apply and the user's edit write a book, and _apply only the book the
\* run is at, to what its lookup came to.
LEMMA RowWriters ==
  ASSUME IInv, Next, row' # row
  PROVE  \/ \E b \in Books : row' = [row EXCEPT ![b].desc = "user"]
         \/ /\ look["enricher"].hop # "idle"
            /\ \E out \in {Answered(look["enricher"].hop, look["enricher"].book),
                           Offline("enricher")} :
                 /\ \/ out = Offline("enricher") /\ look["enricher"].seen # "unread"
                    \/ out = Answered(look["enricher"].hop, look["enricher"].book)
                 /\ out.to = "apply" /\ out.meta \in Metas
                 /\ ApplyMeta(look["enricher"].book, out.meta)
<1>1. ASSUME NEW p \in Processes,
             ReadCache(p) \/ FetchAnswers(p) \/ FetchClashes(p) \/ FetchFails(p)
      PROVE  /\ p = "enricher" /\ look[p].hop # "idle"
             /\ \E out \in {Answered(look[p].hop, look[p].book), Offline(p)} :
                  /\ \/ out = Offline(p) /\ look[p].seen # "unread"
                     \/ out = Answered(look[p].hop, look[p].book)
                  /\ out.to = "apply" /\ out.meta \in Metas
                  /\ ApplyMeta(look[p].book, out.meta)
  <2>1. look[p].hop # "idle"
    BY <1>1 DEF ReadCache, FetchAnswers, FetchClashes, FetchFails, IInv, LookInv
  <2>2. \A out : Follow(p, out) => out.to = "apply" /\ p = "enricher" /\ ApplyMeta(look[p].book, out.meta)
    BY DEF Follow, Stay
  <2>3. \/ Follow(p, Answered(look[p].hop, look[p].book))
        \/ look[p].seen # "unread" /\ Follow(p, Offline(p))
    BY <1>1 DEF ReadCache, FetchAnswers, FetchClashes, FetchFails, Stay
  <2>4. /\ Outcome(look[p].book, Answered(look[p].hop, look[p].book))
        /\ Outcome(look[p].book, Offline(p))
    BY <2>1, KeyType DEF Offline
  <2>5. \A out : Outcome(look[p].book, out) /\ out.to = "apply" => out.meta \in Metas
    BY DEF Outcome
  <2>6. QED
    BY <2>1, <2>2, <2>3, <2>4, <2>5
<1>2. CASE \E b \in Books : PatchBook(b)
  BY <1>2 DEF PatchBook
<1>3. CASE StartRun \/ (\E b \in Requested : StartRequest(b)) \/ (\E k \in Keys : Expire(k))
  BY <1>3 DEF StartRun, StartRequest, Expire
<1>4. QED
  BY <1>1, <1>2, <1>3 DEF Next

\* What _apply writes into the row of the book the run is at.
LEMMA ApplyWrites ==
  ASSUME IInv, look["enricher"].hop # "idle", NEW meta \in Metas,
         ApplyMeta(look["enricher"].book, meta), NEW c \in Books, row'[c] # row[c]
  PROVE  /\ c = look["enricher"].book
         /\ row'[c].desc = Written(row[c].desc, mem[c].desc, Gap(mem[c].desc, meta.desc))
         /\ row'[c].key = Written(row[c].key, mem[c].key, Gap(mem[c].key, meta.key))
<1> DEFINE b == look["enricher"].book
           full == [desc |-> Written(row[b].desc, mem[b].desc, Gap(mem[b].desc, meta.desc)),
                    key |-> Written(row[b].key, mem[b].key, Gap(mem[b].key, meta.key)),
                    slugs |-> row[b].slugs \cup meta.slugs]
<1>1. row' = [row EXCEPT ![b] = full]
  BY DEF ApplyMeta
<1>2. row' = [d \in Books |-> IF d = b THEN full ELSE row[d]]
  BY <1>1 DEF IInv
<1>3. c = b /\ row'[c] = full
  BY <1>2
<1>4. QED
  BY <1>3

\* A description the user wrote is only overwritten by a run that had read
\* the book before the edit: no later run or lookup touches it.
THEOREM UserTextIsKept == Spec => UserTextKept
<1>1. ASSUME IInv, [Next]_vars, NEW c \in Books, row[c].desc = "user", row'[c].desc # "user",
             c \notin late
      PROVE  FALSE
  <2>1. row'[c] # row[c] /\ row' # row /\ Next
    BY <1>1 DEF vars
  <2>2. CASE \E b \in Books : row' = [row EXCEPT ![b].desc = "user"]
    BY <1>1, <2>2 DEF IInv, Rows
  <2>3. ASSUME look["enricher"].hop # "idle", NEW meta \in Metas,
               ApplyMeta(look["enricher"].book, meta)
        PROVE  FALSE
    <3>1. row'[c].desc = Written(row[c].desc, mem[c].desc, Gap(mem[c].desc, meta.desc))
      BY <1>1, <2>1, <2>3, ApplyWrites
    <3>2. mem[c].desc = "user"
      BY <1>1, <2>3 DEF IInv, SessionInv
    <3>3. "user" # None
      BY EnrichmentAssumption
    <3>4. QED
      BY <1>1, <3>1, <3>2, <3>3 DEF Written, Gap
  <2>4. QED
    BY <1>1, <2>1, <2>2, <2>3, RowWriters
<1>2. IInv /\ [Next]_vars =>
        [\A b \in Books : row[b].desc = "user" /\ row'[b].desc # "user" => b \in late]_vars
  BY <1>1
<1>3. QED
  BY <1>2, Invariance, PTL DEF Spec, UserTextKept

\* A lookup that is answered, or that a stale cache row answers, never gives a
\* book a work without its description; only an outage with nothing cached can.
THEOREM OutageIsHarmless == Spec => OutageHarmless
<1>1. ASSUME IInv, [Next]_vars, NEW c \in Books, row'[c].key # row[c].key, row'[c].desc = None,
             look["enricher"].seen # "absent"
      PROVE  FALSE
  <2> DEFINE e == look["enricher"]
  <2>1. row'[c] # row[c] /\ row' # row /\ Next
    BY <1>1 DEF vars
  <2>2. CASE \E b \in Books : row' = [row EXCEPT ![b].desc = "user"]
    BY <1>1, <2>2 DEF IInv, Rows
  <2>3. ASSUME NEW out, out.to = "apply", out = Answered(e.hop, e.book), e.hop # "idle"
        PROVE  out.meta.desc = "provider"
    <3>1. e.hop \in {"isbn", "work", "gb"}
      BY <1>1, <2>3 DEF IInv, TypeOK, Processes
    <3>2. CASE e.hop = "isbn"
      BY <2>3, <3>2 DEF Answered, Hop
    <3>3. CASE e.hop = "work"
      BY <2>3, <3>3 DEF Answered, WorkMerged, Apply, Meta
    <3>4. CASE e.hop = "gb"
      BY <2>3, <3>4 DEF Answered, GoogleMeta, Apply, Meta, Nothing
    <3>5. QED
      BY <3>1, <3>2, <3>3, <3>4
  <2>4. e.seen # "unread" => Offline("enricher") = Answered(e.hop, e.book)
    BY <1>1 DEF Offline, IInv, TypeOK, Processes
  <2>5. ASSUME e.hop # "idle", NEW meta \in Metas, meta.desc = "provider", ApplyMeta(e.book, meta)
        PROVE  FALSE
    <3>1. row'[c].desc = Written(row[c].desc, mem[c].desc, Gap(mem[c].desc, meta.desc))
      BY <1>1, <2>1, <2>5, ApplyWrites
    <3>2. mem[c].desc # None => row[c].desc # None
      BY <1>1, <2>5 DEF IInv, SessionInv
    <3>3. "provider" # None
      BY EnrichmentAssumption
    <3>4. QED
      BY <1>1, <2>5, <3>1, <3>2, <3>3 DEF Written, Gap
  <2>6. QED
    BY <1>1, <2>1, <2>2, <2>3, <2>4, <2>5, RowWriters
<1>2. IInv /\ [Next]_vars =>
        [\A b \in Books : row'[b].key # row[b].key /\ row'[b].desc = None
                          => look["enricher"].seen = "absent"]_vars
  BY <1>1
<1>3. QED
  BY <1>2, Invariance, PTL DEF Spec, OutageHarmless
=============================================================================
