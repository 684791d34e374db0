-------------------------- MODULE MonitorCycleProofs --------------------------
(***************************************************************************)
(* The history tells of every grab exactly once, and what a process has    *)
(* flushed cannot clash any more, for any number of processes, requests,   *)
(* indexers and releases.                                                  *)
(***************************************************************************)
EXTENDS MonitorCycle, TLAPS

\* What the proof needs to know of the pending rows and the winners.
QueueInv ==
  /\ rows \subseteq Guids
  /\ grabs \in [Guids -> Nat]
  /\ pend \in [Workers -> SUBSET Guids]
  /\ pick \in [Searchers -> Guids \cup {None}]
  /\ OneGrabPerRow

\* Queueing releases that are new keeps one event per row: the unique guid
\* refuses the others before the events are written.
LEMMA QueueKeepsOne ==
  ASSUME QueueInv, NEW S \in SUBSET Guids, S \cap rows = {}, Queue(S)
  PROVE  rows' \subseteq Guids /\ (grabs \in [Guids -> Nat])' /\ OneGrabPerRow'
<1>1. \A g \in Guids : grabs'[g] = IF g \in S THEN grabs[g] + 1 ELSE grabs[g]
  BY DEF Queue, Logged
<1>2. (grabs \in [Guids -> Nat])'
  BY DEF Queue, Logged, QueueInv
<1>3. OneGrabPerRow'
  BY <1>1 DEF Queue, QueueInv, OneGrabPerRow
<1>4. QED
  BY <1>2, <1>3 DEF Queue, QueueInv

\* The steps of a cycle that write nothing.
LEMMA QuietCycle ==
  ASSUME QueueInv, NEW w \in Workers,
         \/ CycleStarts(w) \/ Fetch(w) \/ FetchFails(w) \/ FetchEscapes(w)
         \/ \E g \in Guids : Consider(w, g)
         \/ FlushFails(w) \/ RssEnds(w) \/ OtherJobs(w)
  PROVE  QueueInv'
<1>1. UNCHANGED <<rows, grabs, pick>>
  BY DEF CycleStarts, Fetch, FetchFails, FetchEscapes, Consider, FlushFails, RssEnds,
         OtherJobs, JobWrites, RunJob, JobRaises, CycleEnds, dbVars, cycleVars
<1>2. (pend \in [Workers -> SUBSET Guids])'
  <2>1. CASE \E g \in Guids : Consider(w, g)
    BY <2>1 DEF Consider, QueueInv
  <2>2. CASE FlushFails(w)
    BY <2>2 DEF FlushFails, QueueInv
  <2>3. CASE CycleStarts(w) \/ Fetch(w) \/ FetchFails(w) \/ FetchEscapes(w) \/ RssEnds(w) \/ OtherJobs(w)
    BY <2>3 DEF CycleStarts, Fetch, FetchFails, FetchEscapes, RssEnds, OtherJobs,
         JobWrites, RunJob, JobRaises, CycleEnds, cycleVars, QueueInv
  <2>4. QED
    BY <2>1, <2>2, <2>3
<1>3. QED
  BY <1>1, <1>2 DEF QueueInv, OneGrabPerRow

\* rss_sync's commit.
LEMMA CommitCycle ==
  ASSUME QueueInv, NEW w \in Workers, CommitReleases(w)
  PROVE  QueueInv'
<1>1. pend[w] \in SUBSET Guids /\ pend[w] \cap rows = {}
  BY DEF QueueInv, CommitReleases, Insertable
<1>2. rows' \subseteq Guids /\ (grabs \in [Guids -> Nat])' /\ OneGrabPerRow'
  BY <1>1, QueueKeepsOne DEF CommitReleases
<1>3. (pend \in [Workers -> SUBSET Guids])' /\ UNCHANGED pick
  BY DEF CommitReleases, QueueInv
<1>4. QED
  BY <1>2, <1>3 DEF QueueInv

\* A request looks its winner up and queues it later.
LEMMA SearchStep ==
  ASSUME QueueInv, NEW s \in Searchers, Search(s)
  PROVE  QueueInv'
<1>1. UNCHANGED pend
  BY DEF Search, SearchFinds, SearchQueues, SearchFails, cycleVars
<1>2. (pick \in [Searchers -> Guids \cup {None}])'
  BY DEF Search, SearchFinds, SearchQueues, SearchFails, QueueInv
<1>3. CASE SearchQueues(s)
  <2>1. {pick[s]} \in SUBSET Guids /\ {pick[s]} \cap rows = {}
    BY <1>3 DEF SearchQueues, Insertable, QueueInv
  <2>2. rows' \subseteq Guids /\ (grabs \in [Guids -> Nat])' /\ OneGrabPerRow'
    BY <1>3, <2>1, QueueKeepsOne DEF SearchQueues
  <2>3. QED
    BY <1>1, <1>2, <2>2 DEF QueueInv
<1>4. CASE SearchFails(s) \/ \E g \in Guids : SearchFinds(s, g)
  <2>1. UNCHANGED <<rows, grabs>>
    BY <1>4 DEF SearchFails, SearchFinds, dbVars
  <2>2. QED
    BY <1>1, <1>2, <2>1 DEF QueueInv, OneGrabPerRow
<1>5. QED
  BY <1>3, <1>4 DEF Search

\* One grab event for every queue row and no other, whatever race between
\* rss_sync and search_now is lost to the unique release_guid.
THEOREM GrabsAreTold == Spec => []OneGrabPerRow
<1>1. Init => QueueInv
  BY DEF Init, QueueInv, OneGrabPerRow
<1>2. QueueInv /\ [Next]_vars => QueueInv'
  <2> SUFFICES ASSUME QueueInv, [Next]_vars PROVE QueueInv'
    OBVIOUS
  <2>1. CASE UNCHANGED vars
    BY <2>1 DEF vars, dbVars, cycleVars, QueueInv, OneGrabPerRow
  <2>2. ASSUME NEW w \in Workers, Rss(w) \/ OtherJobs(w) PROVE QueueInv'
    BY <2>2, QuietCycle, CommitCycle DEF Rss
  <2>3. ASSUME NEW s \in Searchers, Search(s) PROVE QueueInv'
    BY <2>3, SearchStep
  <2>4. QED
    BY <2>1, <2>2, <2>3 DEF Next
<1>3. QueueInv => OneGrabPerRow
  BY DEF QueueInv
<1>4. QED
  BY <1>1, <1>2, <1>3, PTL DEF Spec

-----------------------------------------------------------------------------
(* LockGuardsPending is not inductive alone: a job after rss_sync takes    *)
(* the lock too, so nothing may be pending when the jobs run.              *)
PendingInv ==
  /\ pc \in [Workers -> {"idle", "rss", "releases", "jobs"}]
  /\ pend \in [Workers -> SUBSET Guids]
  /\ \A w \in Workers : pend[w] # {} => pc[w] = "releases"
  /\ LockGuardsPending

\* The steps of a cycle that leave the pending rows and the queue alone.  Of
\* those only a job's first write takes the lock.
LEMMA LockQuietCycle ==
  ASSUME PendingInv, NEW w \in Workers,
         \/ CycleStarts(w) \/ Fetch(w) \/ FetchFails(w) \/ FetchEscapes(w)
         \/ RssEnds(w) \/ OtherJobs(w)
  PROVE  PendingInv'
<1> USE DEF PendingInv, LockGuardsPending, dbVars, cycleVars
<1>1. CASE CycleStarts(w) \/ Fetch(w) \/ FetchFails(w) \/ FetchEscapes(w) \/ RssEnds(w)
  BY <1>1 DEF CycleStarts, Fetch, FetchFails, FetchEscapes, RssEnds, Ask, RssRaises
<1>2. ASSUME NEW j \in Jobs, JobWrites(w, j) PROVE PendingInv'
  <2>1. pend[w] = {}
    BY <1>2 DEF JobWrites, Due
  <2>2. QED
    BY <1>2, <2>1 DEF JobWrites
<1>3. ASSUME NEW j \in Jobs, RunJob(w, j) \/ JobRaises(w, j) PROVE PendingInv'
  <2>1. UNCHANGED <<rows, pc, pend>> /\ writer' \in {writer, None}
    BY <1>3 DEF RunJob, JobRaises
  <2>2. QED
    BY <2>1, CycleAssumption
<1>4. CASE CycleEnds(w)
  BY <1>4 DEF CycleEnds
<1>5. QED
  BY <1>1, <1>2, <1>3, <1>4 DEF OtherJobs

\* rss_sync's own flush and commit: the flush takes the lock only when what is
\* pending is new, and a duplicate is looked up before it becomes pending.
LEMMA LockRss ==
  ASSUME PendingInv, NEW w \in Workers,
         (\E g \in Guids : Consider(w, g)) \/ CommitReleases(w) \/ FlushFails(w)
  PROVE  PendingInv'
<1> USE DEF PendingInv, LockGuardsPending, dbVars, Insertable
<1>1. ASSUME NEW g \in Guids, Consider(w, g) PROVE PendingInv'
  <2>1. UNCHANGED <<rows, pc>> /\ pc[w] = "releases"
    BY <1>1 DEF Consider
  <2>2. pend' = [pend EXCEPT ![w] = IF g \in Wanted /\ IsNew(w, g) THEN @ \cup {g} ELSE @]
    BY <1>1 DEF Consider
  <2>3. (pend \in [Workers -> SUBSET Guids])'
    BY <2>2
  <2>4. \A v \in Workers : pend'[v] # {} => pc'[v] = "releases"
    BY <2>1, <2>2
  <2>5. ASSUME NEW v \in Workers, writer' = v PROVE pend'[v] \cap rows' = {}
    <3>1. pend[v] \cap rows = {}
      BY <1>1, <2>5 DEF Consider
    <3>2. CASE v = w
      BY <2>1, <2>2, <3>1, <3>2 DEF IsNew
    <3>3. CASE v # w
      BY <2>1, <2>2, <3>1, <3>3
    <3>4. QED
      BY <3>2, <3>3
  <2>6. QED
    BY <2>1, <2>3, <2>4, <2>5
<1>2. CASE CommitReleases(w)
  <2>1. \A v \in Workers \ {w} : writer' = v => pend[w] = {} /\ writer = v
    BY <1>2, CycleAssumption DEF CommitReleases
  <2>2. pend' = [pend EXCEPT ![w] = {}] /\ rows' = rows \cup pend[w]
    BY <1>2 DEF CommitReleases, Queue
  <2>3. LockGuardsPending'
    BY <2>1, <2>2
  <2>4. QED
    BY <1>2, <2>3 DEF CommitReleases
<1>3. CASE FlushFails(w)
  <2>1. pend' = [pend EXCEPT ![w] = {}] /\ UNCHANGED rows /\ writer' \in {writer, None}
    BY <1>3 DEF FlushFails
  <2>2. LockGuardsPending'
    BY <2>1, CycleAssumption
  <2>3. QED
    BY <1>3, <2>1, <2>2 DEF FlushFails, RssRaises
<1>4. QED
  BY <1>1, <1>2, <1>3

\* A request queues its winner only while no process holds the lock.
LEMMA LockSearch ==
  ASSUME PendingInv, NEW s \in Searchers, Search(s)
  PROVE  PendingInv'
<1> USE DEF PendingInv, LockGuardsPending, dbVars, cycleVars
<1>1. UNCHANGED <<writer, pc, pend>>
  BY DEF Search, SearchFinds, SearchQueues, SearchFails
<1>2. ASSUME NEW w \in Workers, writer = w PROVE UNCHANGED rows
  BY <1>2, CycleAssumption DEF Search, SearchFinds, SearchQueues, SearchFails, Insertable
<1>3. QED
  BY <1>1, <1>2

\* Once the first release of a page is flushed the rest of the page cannot
\* fail, whichever processes and requests write meanwhile.
THEOREM LockHolderIsSafe == Spec => []LockGuardsPending
<1>1. Init => PendingInv
  BY DEF Init, PendingInv, LockGuardsPending
<1>2. PendingInv /\ [Next]_vars => PendingInv'
  <2> SUFFICES ASSUME PendingInv, [Next]_vars PROVE PendingInv'
    OBVIOUS
  <2>1. CASE UNCHANGED vars
    BY <2>1 DEF vars, dbVars, cycleVars, PendingInv, LockGuardsPending
  <2>2. ASSUME NEW w \in Workers, Rss(w) \/ OtherJobs(w) PROVE PendingInv'
    BY <2>2, LockQuietCycle, LockRss DEF Rss
  <2>3. ASSUME NEW s \in Searchers, Search(s) PROVE PendingInv'
    BY <2>3, LockSearch
  <2>4. QED
    BY <2>1, <2>2, <2>3 DEF Next
<1>3. PendingInv => LockGuardsPending
  BY DEF PendingInv
<1>4. QED
  BY <1>1, <1>2, <1>3, PTL DEF Spec
=============================================================================
