----------------------------- MODULE MonitorCycle -----------------------------
(***************************************************************************)
(* One monitoring cycle, scheduler.py run_cycles: rss_sync in full and the *)
(* three jobs after it by their outcome, all on ONE Session, beside the    *)
(* search_now requests of the API, over one SQLite database.               *)
(*                                                                         *)
(* A flush that fails (the unique release_guid, a locked database) leaves  *)
(* the Session inactive until rollback(), which the code never calls.      *)
(* pysqlite reads outside a transaction, so a SELECT sees what is          *)
(* committed, until the first flush takes the write lock.                  *)
(*                                                                         *)
(* A definition named Slip... is a plausible mistake in the definition     *)
(* that follows it.                                                        *)
(***************************************************************************)
EXTENDS Naturals, Sequences

CONSTANTS
  Guids,      \* release guids
  Indexers,   \* the enabled indexers
  Order,      \* ... as the SELECT sorts them: priority, then name
  Offers,     \* the releases on the recent page of an indexer
  Wanted,     \* guids match_release finds a book for
  Escapes,    \* indexers that can raise something else than IndexerError
  JobOrder,   \* the jobs run_cycles runs after rss_sync
  JobFlushFails, \* a flush of one of these jobs may fail by itself
  Workers,    \* processes running scheduler_loop
  Searchers,  \* requests running search_now
  None        \* no actor, no guid

ASSUME CycleAssumption ==
  /\ Order \in Seq(Indexers) /\ \A i \in Indexers : \E n \in DOMAIN Order : Order[n] = i
  /\ Offers \in [Indexers -> SUBSET Guids]
  /\ Wanted \subseteq Guids
  /\ Workers \cap Searchers = {}
  /\ None \notin Workers \cup Searchers \cup Guids
  /\ JobOrder \in Seq(STRING \ {"rss"})
  /\ JobFlushFails \in BOOLEAN

VARIABLES
  \* committed
  rows,      \* queue_items, by release_guid
  grabs,     \* number of grab events in history_events
  writer,    \* holder of SQLite's write lock
  \* a worker's cycle
  pc, left, batch, pend,
  usable,    \* its Session is active
  ended,     \* job -> "no", "ok", "error"
  broke,     \* jobs that raised by their own doing
  \* a search request
  pick       \* the winner about to be queued

dbVars   == <<rows, grabs>>
cycleVars == <<pc, left, batch, pend, usable, ended, broke>>
vars == <<dbVars, writer, cycleVars, pick>>

Jobs == {JobOrder[n] : n \in DOMAIN JobOrder}
AllJobs == Jobs \cup {"rss"}
NotEnded == [j \in AllJobs |-> "no"]

Init ==
  /\ rows = {}
  /\ grabs = [g \in Guids |-> 0]
  /\ writer = None
  /\ pc = [w \in Workers |-> "idle"]
  /\ left = [w \in Workers |-> <<>>]
  /\ batch = [w \in Workers |-> {}]
  /\ pend = [w \in Workers |-> {}]
  /\ usable = [w \in Workers |-> TRUE]
  /\ ended = [w \in Workers |-> NotEnded]
  /\ broke = [w \in Workers |-> {}]
  /\ pick = [s \in Searchers |-> None]

-----------------------------------------------------------------------------
(* The queue and the history, written in one transaction.                  *)

SlipLogsAgain(S) == [g \in Guids |-> IF g \in S \cup rows THEN grabs[g] + 1 ELSE grabs[g]]
Logged(S) == [g \in Guids |-> IF g \in S THEN grabs[g] + 1 ELSE grabs[g]]

\* A commit of the new rows S, each with its grab event.
Queue(S) ==
  /\ rows' = rows \cup S
  /\ grabs' = Logged(S)

\* An INSERT of S succeeds: the lock is free or held, no guid exists.
Insertable(a, S) == writer \in {None, a} /\ S \cap rows = {}

-----------------------------------------------------------------------------
(* rss_sync.                                                               *)

CycleStarts(w) ==
  /\ pc[w] = "idle"
  /\ pc' = [pc EXCEPT ![w] = "rss"]
  /\ left' = [left EXCEPT ![w] = Order]
  /\ UNCHANGED <<dbVars, writer, batch, pend, usable, ended, broke, pick>>

SlipAsksOnlyFirst(w) == <<>>
\* The for loop goes on with the next indexer.
Rest(w) == Tail(left[w])

\* The next indexer is asked; an IndexerError is swallowed, another
\* exception leaves rss_sync with nothing pending.
Ask(w) ==
  /\ pc[w] = "rss"
  /\ left[w] # <<>>
  /\ left' = [left EXCEPT ![w] = Rest(w)]

\* The releases parsed from the page of an indexer: one without a guid is
\* known by its link.
Page(i) == Offers[i]

Fetch(w) ==
  /\ Ask(w)
  /\ batch' = [batch EXCEPT ![w] = Page(Head(left[w]))]
  /\ pc' = [pc EXCEPT ![w] = "releases"]
  /\ UNCHANGED <<dbVars, writer, pend, usable, ended, broke, pick>>

FetchFails(w) ==
  /\ Ask(w)
  /\ UNCHANGED <<dbVars, writer, pc, batch, pend, usable, ended, broke, pick>>

\* rss_sync raises: run_cycles logs it and goes on to the next job.
RssRaises(w) ==
  /\ pc' = [pc EXCEPT ![w] = "jobs"]
  /\ ended' = [ended EXCEPT ![w]["rss"] = "error"]
  /\ broke' = [broke EXCEPT ![w] = @ \cup {"rss"}]

FetchEscapes(w) ==
  /\ Ask(w)
  /\ Head(left[w]) \in Escapes
  /\ RssRaises(w)
  /\ UNCHANGED <<dbVars, writer, batch, pend, usable, pick>>

SlipForgetsDuplicates(w, g) == TRUE
\* The duplicate SELECT sees committed rows and, after its autoflush, the
\* Session's own.
IsNew(w, g) == g \notin rows \cup pend[w]

\* One release: match_release's SELECT autoflushes what is pending.
Consider(w, g) ==
  /\ pc[w] = "releases"
  /\ g \in batch[w]
  /\ pend[w] # {} => Insertable(w, pend[w])
  /\ writer' = IF pend[w] = {} THEN writer ELSE w
  /\ batch' = [batch EXCEPT ![w] = @ \ {g}]
  /\ pend' = [pend EXCEPT ![w] = IF g \in Wanted /\ IsNew(w, g) THEN @ \cup {g} ELSE @]
  /\ UNCHANGED <<dbVars, pc, left, usable, ended, broke, pick>>

CommitReleases(w) ==
  /\ pc[w] = "releases"
  /\ batch[w] = {}
  /\ pend[w] # {} => Insertable(w, pend[w])
  /\ Queue(pend[w])
  /\ writer' = IF writer = w THEN None ELSE writer
  /\ pend' = [pend EXCEPT ![w] = {}]
  /\ pc' = [pc EXCEPT ![w] = "rss"]
  /\ UNCHANGED <<left, batch, usable, ended, broke, pick>>

\* The flush of the pending rows raises IntegrityError or OperationalError.
FlushFails(w) ==
  /\ pc[w] = "releases"
  /\ pend[w] # {}
  /\ ~Insertable(w, pend[w])
  /\ usable' = [usable EXCEPT ![w] = FALSE]
  /\ batch' = [batch EXCEPT ![w] = {}]
  /\ pend' = [pend EXCEPT ![w] = {}]
  /\ writer' = IF writer = w THEN None ELSE writer
  /\ RssRaises(w)
  /\ UNCHANGED <<dbVars, left, pick>>

RssEnds(w) ==
  /\ pc[w] = "rss"
  /\ left[w] = <<>>
  /\ pc' = [pc EXCEPT ![w] = "jobs"]
  /\ ended' = [ended EXCEPT ![w]["rss"] = "ok"]
  /\ UNCHANGED <<dbVars, writer, left, batch, pend, usable, broke, pick>>

-----------------------------------------------------------------------------
(* The jobs after it.                                                      *)

\* A job begins with a SELECT, which an inactive Session refuses.
Outcome(w, j) == IF usable[w] THEN "ok" ELSE "error"

Due(w, j) ==
  /\ pc[w] = "jobs"
  /\ ended[w][j] = "no"
  /\ \E n \in DOMAIN JobOrder :
       JobOrder[n] = j /\ \A k \in 1 .. n - 1 : ended[w][JobOrder[k]] # "no"

\* The job writes: it holds the lock until it commits, for an import as
\* long as the file takes to copy.
JobWrites(w, j) ==
  /\ Due(w, j)
  /\ usable[w]
  /\ writer = None
  /\ writer' = w
  /\ UNCHANGED <<dbVars, cycleVars, pick>>

RunJob(w, j) ==
  /\ Due(w, j)
  /\ ended' = [ended EXCEPT ![w][j] = Outcome(w, j)]
  /\ writer' = IF writer = w THEN None ELSE writer
  /\ UNCHANGED <<dbVars, pc, left, batch, pend, usable, broke, pick>>

\* The job raises by itself; in a flush that finds the database locked, or
\* a constraint violated, it takes the Session down with it.
JobRaises(w, j) ==
  /\ Due(w, j)
  /\ usable[w]
  /\ ended' = [ended EXCEPT ![w][j] = "error"]
  /\ broke' = [broke EXCEPT ![w] = @ \cup {j}]
  /\ \/ UNCHANGED usable
     \/ /\ JobFlushFails \/ writer \notin {None, w}
        /\ usable' = [usable EXCEPT ![w] = FALSE]
  /\ writer' = IF writer = w THEN None ELSE writer
  /\ UNCHANGED <<dbVars, pc, left, batch, pend, pick>>

CycleEnds(w) ==
  /\ pc[w] = "jobs"
  /\ \A j \in AllJobs : ended[w][j] # "no"
  /\ pc' = [pc EXCEPT ![w] = "idle"]
  /\ left' = [left EXCEPT ![w] = <<>>]
  /\ usable' = [usable EXCEPT ![w] = TRUE]
  /\ ended' = [ended EXCEPT ![w] = NotEnded]
  /\ broke' = [broke EXCEPT ![w] = {}]
  /\ UNCHANGED <<dbVars, writer, batch, pend, pick>>

-----------------------------------------------------------------------------
(* search_now: the winner is looked up, then inserted.                     *)

SearchFinds(s, g) ==
  /\ pick[s] = None
  /\ g \notin rows
  /\ pick' = [pick EXCEPT ![s] = g]
  /\ UNCHANGED <<dbVars, writer, cycleVars>>

SearchQueues(s) ==
  /\ pick[s] # None
  /\ Insertable(s, {pick[s]})
  /\ Queue({pick[s]})
  /\ pick' = [pick EXCEPT ![s] = None]
  /\ UNCHANGED <<writer, cycleVars>>

\* The insert raises and the request answers 500.
SearchFails(s) ==
  /\ pick[s] # None
  /\ ~Insertable(s, {pick[s]})
  /\ pick' = [pick EXCEPT ![s] = None]
  /\ UNCHANGED <<dbVars, writer, cycleVars>>

-----------------------------------------------------------------------------
Rss(w) ==
  \/ CycleStarts(w)
  \/ Fetch(w) \/ FetchFails(w) \/ FetchEscapes(w)
  \/ \E g \in Guids : Consider(w, g)
  \/ CommitReleases(w) \/ FlushFails(w) \/ RssEnds(w)

OtherJobs(w) == (\E j \in Jobs : JobWrites(w, j) \/ RunJob(w, j) \/ JobRaises(w, j)) \/ CycleEnds(w)

Search(s) == (\E g \in Guids : SearchFinds(s, g)) \/ SearchQueues(s) \/ SearchFails(s)

Next ==
  \/ \E w \in Workers : Rss(w) \/ OtherJobs(w)
  \/ \E s \in Searchers : Search(s)

Spec == Init /\ [][Next]_vars

\* scheduler_loop repeats the cycle, and an indexer that is asked again and
\* again answers now and then.
Fairness ==
  /\ \A w \in Workers : WF_vars(Rss(w) \/ OtherJobs(w))
  /\ \A w \in Workers : \A i \in Indexers :
       SF_vars(Fetch(w) /\ Head(left[w]) = i)
  /\ \A s \in Searchers : WF_vars(SearchQueues(s) \/ SearchFails(s))

FairSpec == Spec /\ Fairness

-----------------------------------------------------------------------------
\* Every variable holds values of its kind.
TypeOK ==
  /\ rows \subseteq Guids
  /\ grabs \in [Guids -> Nat]
  /\ writer \in Workers \cup {None}
  /\ pc \in [Workers -> {"idle", "rss", "releases", "jobs"}]
  /\ left \in [Workers -> Seq(Indexers)]
  /\ batch \in [Workers -> SUBSET Guids]
  /\ pend \in [Workers -> SUBSET Guids]
  /\ usable \in [Workers -> BOOLEAN]
  /\ ended \in [Workers -> [AllJobs -> {"no", "ok", "error"}]]
  /\ broke \in [Workers -> SUBSET AllJobs]
  /\ pick \in [Searchers -> Guids \cup {None}]

\* The history tells of a grab exactly once, and exactly for the releases
\* that are queued, however rss_sync and search_now race for a release.
OneGrabPerRow == \A g \in Guids : grabs[g] = IF g \in rows THEN 1 ELSE 0

\* Once the first release of a page is flushed the rest of the page cannot
\* fail: what a lock holder has pending is new, so rss_sync will commit it.
LockGuardsPending ==
  \A w \in Workers : writer = w => pend[w] \cap rows = {}

\* "A broken job is logged and isolated": a job fails only by its own doing.
JobsIsolated ==
  \A w \in Workers, j \in Jobs : ended[w][j] = "error" => j \in broke[w]

\* A wanted release that stays on the page of an indexer is queued, whichever
\* indexers fail and however often jobs end a cycle early, unless rss_sync's
\* own flushes keep finding the lock taken or a release just queued.
RssFlushFailed(w) ==
  ~usable[w] /\ ended[w]["rss"] = "error" /\ \A j \in Jobs : ended[w][j] = "no"
EventuallyQueued ==
  \A g \in Wanted : (\E i \in Indexers : g \in Offers[i]) =>
    <>(g \in rows) \/ []<>(\E w \in Workers : RssFlushFailed(w))
=============================================================================
