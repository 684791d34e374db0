----------------------------- MODULE Enrichment -----------------------------
(***************************************************************************)
(* Metadata enrichment: enrich.py's run over the library, the lookups of   *)
(* the Open Library and Google Books providers it makes, the offline dump  *)
(* behind them, and the metadata cache (cache.py) that all processes       *)
(* share.  A request (create_request) makes the same Open Library lookup   *)
(* meanwhile, the user edits descriptions, and cached rows grow old.       *)
(*                                                                         *)
(* The fetch is the long step, and no lock is held over it: the cache row  *)
(* is read before it and written after it.  The books are read once, at    *)
(* the start of a run, and stay as read in the Session (expire_on_commit   *)
(* is off) while the run writes only the columns it changes.               *)
(***************************************************************************)
EXTENDS Naturals, Sequences

CONSTANTS
  NBooks,      \* books 1..NBooks in id order, each with an edition that has an ISBN
  Works,
  WorkOf,      \* book -> the work Open Library gives its ISBN, or None (unknown ISBN)
  GoogleHas,   \* books whose ISBN Google Books knows
  Mirrored,    \* books whose ISBN the ingested dump resolves
  Slugs,       \* work or book -> the slugs of the subjects its provider lists
  Shelved,     \* book -> the slugs it has from discovery
  Requested,   \* bound: the books whose ISBN requests carry
  MaxOld,      \* bound on cache rows that pass their TTL
  MaxEdits,    \* bound on the user's edits
  None

Books == 1..NBooks

VARIABLES
  row,      \* books and subjects rows
  fts,      \* book_fts rows
  cache,    \* metadata_cache rows
  look,     \* the lookup each process is in
  mem,      \* the books as the enricher's Session holds them
  late,     \* history: books edited since the run loaded them
  old, edits

vars == <<row, fts, cache, look, mem, late, old, edits>>

Processes == {"enricher", "request"}
Keys      == ({"isbn", "gb"} \X Books) \cup ({"work"} \X Works)
Idle      == [book |-> 0, hop |-> "idle", seen |-> "unread"]
Texts     == {None, "user", "provider"}

ASSUME EnrichmentAssumption ==
  /\ NBooks \in Nat \ {0}
  /\ WorkOf \in [Books -> Works \cup {None}]
  /\ GoogleHas \subseteq Books /\ Mirrored \subseteq Books
  /\ Requested \subseteq Books
  /\ MaxOld \in Nat /\ MaxEdits \in Nat
  /\ None \notin Works \cup {"user", "provider"}

TypeOK ==
  /\ \A b \in Books : row[b].desc \in Texts /\ row[b].key \in Works \cup {None}
  /\ \A b, c \in Books : row[b].key = row[c].key => b = c \/ row[b].key = None
  /\ cache \in [Keys -> {"absent", "fresh", "stale"}]
  /\ look \in [Processes -> [book : 0..NBooks, hop : {"idle", "isbn", "work", "gb"},
                             seen : {"unread", "absent", "stale"}]]
  /\ old \in 0..MaxOld /\ edits \in 0..MaxEdits

Init ==
  /\ row = [b \in Books |-> [desc |-> None, key |-> None, slugs |-> Shelved[b]]]
  /\ fts = [b \in Books |-> [desc |-> None, slugs |-> Shelved[b]]]
  /\ cache = [k \in Keys |-> "absent"]
  /\ look = [p \in Processes |-> Idle]
  /\ mem = row /\ late = {}
  /\ old = 0 /\ edits = 0

-----------------------------------------------------------------------------
(* What a lookup comes to.  hop: go on with that request; apply: metadata  *)
(* found; nothing: the ISBN is unknown or its providers are unreachable.   *)
Hop(h)   == [to |-> h, meta |-> None]
Apply(m) == [to |-> "apply", meta |-> m]
Nothing  == [to |-> "nothing", meta |-> None]
Meta(key, desc, slugs) == [key |-> key, desc |-> desc, slugs |-> slugs]

(* An edition names its work; description and subjects live on the work.   *)
Edition(b)     == Apply(Meta(WorkOf[b], None, {}))
WorkMerged(b)  == Apply(Meta(WorkOf[b], "provider", Slugs[WorkOf[b]]))
GoogleMeta(b)  == Apply(Meta(None, "provider", Slugs[b]))
DumpMeta(b)    == Apply(Meta(WorkOf[b], None, IF WorkOf[b] = None THEN {} ELSE Slugs[WorkOf[b]]))

SlipAnswered(hop, b) ==    \* an ISBN unknown to Open Library is not looked up elsewhere
  CASE hop = "isbn" -> IF WorkOf[b] = None THEN Nothing ELSE Hop("work")
    [] hop = "work" -> WorkMerged(b)
    [] hop = "gb"   -> IF b \in GoogleHas THEN GoogleMeta(b) ELSE Nothing
Answered(hop, b) ==
  CASE hop = "isbn" -> IF WorkOf[b] = None THEN Hop("gb") ELSE Hop("work")
    [] hop = "work" -> WorkMerged(b)
    [] hop = "gb"   -> IF b \in GoogleHas THEN GoogleMeta(b) ELSE Nothing

(* ProviderError: the dump stands in for the first hop, the edition alone  *)
(* for the second.                                                         *)
Unreachable(hop, b) ==
  CASE hop = "isbn" -> IF b \in Mirrored THEN DumpMeta(b) ELSE Hop("gb")
    [] hop = "work" -> Edition(b)
    [] hop = "gb"   -> Nothing

Key(p) == <<look[p].hop, IF look[p].hop = "work" THEN WorkOf[look[p].book] ELSE look[p].book>>

-----------------------------------------------------------------------------
(* enrich_library goes through the books as it loaded them, and passes by  *)
(* those that have a work key or a description.                            *)
Enriched(r)  == r.key # None \/ r.desc # None
Todo(m, b)   == {c \in Books : c > b /\ ~Enriched(m[c])}
Smallest(S)  == CHOOSE b \in S : \A c \in S : b <= c
NextBook(m, b) ==
  IF Todo(m, b) = {} THEN Idle
  ELSE [book |-> Smallest(Todo(m, b)), hop |-> "isbn", seen |-> "unread"]

SlipStartRun ==                         \* the books as an earlier run's Session holds them
  /\ look["enricher"] = Idle
  /\ mem' = mem /\ late' = {}
  /\ look' = [look EXCEPT !["enricher"] = NextBook(mem, 0)]
  /\ UNCHANGED <<row, fts, cache, old, edits>>
StartRun ==
  /\ look["enricher"] = Idle
  /\ mem' = row /\ late' = {}
  /\ look' = [look EXCEPT !["enricher"] = NextBook(row, 0)]
  /\ UNCHANGED <<row, fts, cache, old, edits>>

StartRequest(b) ==
  /\ look["request"] = Idle
  /\ look' = [look EXCEPT !["request"] = [book |-> b, hop |-> "isbn", seen |-> "unread"]]
  /\ UNCHANGED <<row, fts, cache, mem, late, old, edits>>

(* _apply and the commit.  work_key is unique: when another book has the   *)
(* work already the flush raises IntegrityError, which is no ProviderError *)
(* and ends the run.  The index row is built from the Session's book,      *)
(* whose collection of subjects was loaded before the new ones.            *)
Gap(mine, theirs) == IF mine # None THEN mine ELSE theirs
Written(now, was, will) == IF will # was THEN will ELSE now   \* a column of the UPDATE
SlipTaken(b, key) == FALSE                 \* books.work_key not unique
Taken(b, key) == key # None /\ \E c \in Books \ {b} : row[c].key = key
ApplyMeta(b, meta) ==
  LET m    == mem[b]
      key  == Gap(m.key, meta.key)
      desc == Gap(m.desc, meta.desc)
      full == [desc |-> Written(row[b].desc, m.desc, desc),
               key |-> Written(row[b].key, m.key, key),
               slugs |-> row[b].slugs \cup meta.slugs]
  IN IF Taken(b, key)
     THEN /\ look' = [look EXCEPT !["enricher"] = Idle]
          /\ UNCHANGED <<row, fts, mem>>
     ELSE /\ row' = [row EXCEPT ![b] = full]
          /\ fts' = [fts EXCEPT ![b] = [desc |-> desc, slugs |-> m.slugs]]
          /\ mem' = [mem EXCEPT ![b] = full]        \* session.refresh
          /\ look' = [look EXCEPT !["enricher"] = NextBook(mem', b)]

Stay == UNCHANGED <<row, fts, mem>>
Follow(p, out) ==
  LET b == look[p].book IN
  \/ /\ out.to \in {"work", "gb"} /\ ~(p = "request" /\ out.to = "gb")
     /\ look' = [look EXCEPT ![p] = [book |-> b, hop |-> out.to, seen |-> "unread"]]
     /\ Stay
  \/ out.to = "apply" /\ p = "enricher" /\ ApplyMeta(b, out.meta)
  \/ /\ out.to = "nothing" /\ p = "enricher"
     /\ look' = [look EXCEPT ![p] = NextBook(mem, b)] /\ Stay
  \/ /\ p = "request" /\ out.to # "work"
     /\ look' = [look EXCEPT ![p] = Idle] /\ Stay

(* cached_fetch.  ReadCache: a row within its TTL is the answer.           *)
ReadCache(p) ==
  /\ look[p].hop # "idle" /\ look[p].seen = "unread"
  /\ IF cache[Key(p)] = "fresh" THEN Follow(p, Answered(look[p].hop, look[p].book))
     ELSE look' = [look EXCEPT ![p].seen = cache[Key(p)]] /\ Stay
  /\ UNCHANGED <<cache, late, old, edits>>

Insertable(p) == look[p].seen = "absent" => cache[Key(p)] = "absent"

FetchAnswers(p) ==
  /\ look[p].seen # "unread" /\ Insertable(p)
  /\ cache' = [cache EXCEPT ![Key(p)] = "fresh"]
  /\ Follow(p, Answered(look[p].hop, look[p].book))
  /\ UNCHANGED <<late, old, edits>>

(* Somebody else inserted the row during the fetch: IntegrityError ends    *)
(* the run, or the request.                                                *)
FetchClashes(p) ==
  /\ look[p].seen # "unread" /\ ~Insertable(p)
  /\ look' = [look EXCEPT ![p] = Idle]
  /\ Stay
  /\ UNCHANGED <<cache, late, old, edits>>

SlipOffline(p) == Unreachable(look[p].hop, look[p].book)   \* no stale-while-error
Offline(p) ==
  IF look[p].seen = "stale" THEN Answered(look[p].hop, look[p].book)
  ELSE Unreachable(look[p].hop, look[p].book)
FetchFails(p) ==
  /\ look[p].seen # "unread"
  /\ Follow(p, Offline(p))
  /\ UNCHANGED <<cache, late, old, edits>>

(* patch_book with a description: commits and rebuilds the index row.      *)
PatchBook(b) ==
  /\ edits < MaxEdits
  /\ edits' = edits + 1
  /\ row' = [row EXCEPT ![b].desc = "user"]
  /\ fts' = [fts EXCEPT ![b] = [desc |-> "user", slugs |-> row[b].slugs]]
  /\ late' = IF look["enricher"] = Idle THEN late ELSE late \cup {b}
  /\ UNCHANGED <<cache, look, mem, old>>

Expire(k) ==
  /\ old < MaxOld
  /\ cache[k] = "fresh"
  /\ cache' = [cache EXCEPT ![k] = "stale"]
  /\ old' = old + 1
  /\ UNCHANGED <<row, fts, look, mem, late, edits>>

Next ==
  \/ StartRun
  \/ \E b \in Requested : StartRequest(b)
  \/ \E b \in Books : PatchBook(b)
  \/ \E p \in Processes :
       ReadCache(p) \/ FetchAnswers(p) \/ FetchClashes(p) \/ FetchFails(p)
  \/ \E k \in Keys : Expire(k)

Spec == Init /\ [][Next]_vars

(* The run is repeated; a provider that is asked again and again answers.  *)
Enricher(hop, A) == look["enricher"].hop = hop /\ A
Fairness ==
  /\ WF_vars(StartRun)
  /\ WF_vars(ReadCache("enricher"))
  /\ WF_vars(FetchAnswers("enricher") \/ FetchClashes("enricher") \/ FetchFails("enricher"))
  /\ \A hop \in {"isbn", "work", "gb"} : SF_vars(Enricher(hop, FetchAnswers("enricher")))
FairSpec == Spec /\ Fairness
-----------------------------------------------------------------------------
(* Properties. *)

(* A description the user wrote stays, whatever the providers say and      *)
(* however many runs pass over the book, unless it was written during the  *)
(* run that overwrites it.                                                 *)
UserTextKept ==
  [][\A b \in Books :
       row[b].desc = "user" /\ row'[b].desc # "user" => b \in late]_vars

(* An outage costs nothing that was cached: a book is only given a work    *)
(* without the work's description when the lookup found no cache row for   *)
(* the ISBN (the dump answered) or none for the work.                      *)
OutageHarmless ==
  [][\A b \in Books :
       row'[b].key # row[b].key /\ row'[b].desc = None
       => look["enricher"].seen = "absent"]_vars

(* Every book that a provider knows is enriched in the end, in spite of    *)
(* failing lookups, rows inserted by others and aborted runs.  When two    *)
(* books are of one work only one of the two is promised it, and nothing   *)
(* is promised to the books after them: each run ends there.               *)
Twins(b)    == {c \in Books : WorkOf[b] # None /\ WorkOf[c] = WorkOf[b]} \cup {b}
Known(b)    == WorkOf[b] # None \/ b \in GoogleHas
LibraryEnriched ==
  \A b \in Books :
    Known(b) /\ (\A c \in 1..(b - 1) : Twins(c) = {c})
    => <>(\E c \in Twins(b) : Enriched(row[c]))
=============================================================================
