------------------------------ MODULE DumpIngest ------------------------------
(***************************************************************************)
(* metadata/dumps.py, ingest_dump: one Open Library dump of one kind is    *)
(* streamed into dump_rows in batches; the last key ingested is remembered *)
(* in the settings table, and a later run skips the lines up to it.        *)
(* Beside it metadata/backup.py exports the catalogue's tables, dump_rows  *)
(* among them, and imports an archive again: into empty tables or, when    *)
(* told to, in place of what they hold.  The settings table is not in the  *)
(* archive.                                                                *)
(*                                                                         *)
(* Keys are numbers, their order the sort order of the dump; 0 stands for  *)
(* no key.  A definition named Slip... is a plausible mistake in the       *)
(* definition that follows it.                                             *)
(***************************************************************************)
EXTENDS Naturals, FiniteSets

CONSTANTS
  MaxKey,      \* bound on the keys
  Batch,       \* rows per insert, 5000 in the code
  AppendOnly,  \* a refreshed dump adds lines only after the last one
  MaxCrashes,  \* bound on crashes
  MaxImports   \* bound on imports of an archive

ASSUME DumpAssumption ==
  /\ MaxKey \in Nat /\ MaxCrashes \in Nat /\ MaxImports \in Nat
  /\ Batch \in Nat \ {0}
  /\ AppendOnly \in BOOLEAN

Keys == 1 .. MaxKey

VARIABLES
  file,      \* keys of the dump on disk
  rows,      \* committed dump_rows of this kind
  setting,   \* committed settings row dump_last_key:<kind>
  crashes,
  archive,   \* dump_rows of this kind in the last archive exported
  restore,   \* the import under way: "none", "add" or "replace"
  imports,
  lost,      \* history: rows an import has replaced
  \* locals and Session of the run
  pc,        \* "idle", "read", "close" (rows flushed, last key not), "raised"
  last,      \* the stored last key as read when the run began
  key,       \* the last line parsed
  buffer,    \* rows read and not inserted yet
  newLast,   \* the setting's value in the Session, 0 when untouched
  ingested   \* some line was ingested by this run

archiveVars == <<archive, restore, imports, lost>>
runVars == <<pc, last, key, buffer, newLast, ingested>>
vars == <<archiveVars, file, rows, setting, crashes, runVars>>

Init ==
  /\ file \in SUBSET Keys
  /\ rows = {}
  /\ setting = 0
  /\ crashes = 0
  /\ archive = {} /\ lost = {}
  /\ restore = "none" /\ imports = 0
  /\ pc = "idle"
  /\ last = 0 /\ key = 0 /\ newLast = 0
  /\ buffer = {}
  /\ ingested = FALSE

\* The monthly refresh replaces the file by one with more lines.
Refresh(k) ==
  /\ pc = "idle"
  /\ k \notin file
  /\ AppendOnly => \A f \in file : f < k
  /\ file' = file \cup {k}
  /\ UNCHANGED <<archiveVars, rows, setting, crashes, pc, last, key, buffer, newLast, ingested>>

Start ==
  /\ pc \in {"idle", "raised"}
  /\ pc' = "read"
  /\ last' = setting
  /\ key' = 0
  /\ buffer' = {}
  /\ newLast' = 0
  /\ ingested' = FALSE
  /\ UNCHANGED <<archiveVars, file, rows, setting, crashes>>

\* The next line of the sorted file.
NextLine(k) == k \in file /\ k > key /\ \A f \in file : f > key => k <= f

SlipSkipsNothing(k) == FALSE
\* Lines whose key sorts at or before the stored last key.
Skipped(k) == k <= last

BatchFull == Cardinality(buffer) >= Batch

Read(k) ==
  /\ pc = "read"
  /\ ~BatchFull
  /\ NextLine(k)
  /\ key' = k
  /\ buffer' = IF Skipped(k) THEN buffer ELSE buffer \cup {k}
  /\ ingested' = (ingested \/ ~Skipped(k))
  /\ UNCHANGED <<archiveVars, file, rows, setting, crashes, pc, last, newLast>>

\* The setting a commit writes: what the Session had pending.
Written == IF newLast = 0 THEN setting ELSE newLast

\* dump_rows.ol_key is the primary key and the insert has no ON CONFLICT.
Inserts == buffer \cap rows = {}

\* flush(): insert the buffer and commit, with the last key the PREVIOUS
\* batch left in the Session.
Flush ==
  /\ pc = "read"
  /\ BatchFull
  /\ Inserts
  /\ rows' = rows \cup buffer
  /\ setting' = Written
  /\ buffer' = {}
  /\ newLast' = key
  /\ UNCHANGED <<archiveVars, file, crashes, pc, last, key, ingested>>

EndOfFile == \A f \in file : f <= key

SlipForgetsTail == rows
\* The flush after the loop inserts the last, partial batch.
FinalRows == rows \cup buffer

FinalFlush ==
  /\ pc = "read"
  /\ EndOfFile
  /\ ~BatchFull
  /\ Inserts
  /\ rows' = FinalRows
  /\ setting' = Written
  /\ buffer' = {}
  /\ newLast' = IF ingested THEN key ELSE last
  /\ pc' = "close"
  /\ UNCHANGED <<archiveVars, file, crashes, last, key, ingested>>

Finish ==
  /\ pc = "close"
  /\ setting' = Written
  /\ newLast' = 0
  /\ pc' = "idle"
  /\ UNCHANGED <<archiveVars, file, rows, crashes, last, key, buffer, ingested>>

\* The insert violates the primary key: ingest_dump raises.
Conflict ==
  /\ pc = "read"
  /\ BatchFull \/ EndOfFile
  /\ ~Inserts
  /\ pc' = "raised"
  /\ buffer' = {}
  /\ newLast' = 0
  /\ UNCHANGED <<archiveVars, file, rows, setting, crashes, last, key, ingested>>

Crash ==
  /\ pc \in {"read", "close"}
  /\ crashes < MaxCrashes
  /\ crashes' = crashes + 1
  /\ pc' = "idle"
  /\ buffer' = {}
  /\ newLast' = 0
  /\ UNCHANGED <<archiveVars, file, rows, setting, last, key, ingested>>

\* build_export.
Export ==
  /\ restore = "none"
  /\ archive' = rows
  /\ UNCHANGED <<restore, imports, lost, file, rows, setting, crashes, runVars>>

\* import_archive looks whether the tables are empty before it writes ...
BeginImport(how) ==
  /\ restore = "none"
  /\ imports < MaxImports
  /\ how = "add" => rows = {}
  /\ restore' = how
  /\ imports' = imports + 1
  /\ UNCHANGED <<archive, lost, file, rows, setting, crashes, runVars>>

\* ... and deletes and inserts in one transaction, which is rolled back when
\* a row exists.
EndImport ==
  /\ restore # "none"
  /\ restore' = "none"
  /\ CASE restore = "replace" -> rows' = archive /\ lost' = lost \cup (rows \ archive)
       [] restore = "add" /\ archive \cap rows = {} -> rows' = rows \cup archive /\ UNCHANGED lost
       [] OTHER -> UNCHANGED <<rows, lost>>
  /\ UNCHANGED <<archive, imports, file, setting, crashes, runVars>>

Archive == Export \/ (\E how \in {"add", "replace"} : BeginImport(how)) \/ EndImport

Run == (\E k \in Keys : Read(k)) \/ Flush \/ FinalFlush \/ Finish \/ Conflict

Next == (\E k \in Keys : Refresh(k)) \/ Start \/ Run \/ Crash \/ Archive

Spec == Init /\ [][Next]_vars

\* An operator reruns the command after a crash, and a run is not suspended.
FairSpec == Spec /\ WF_vars(Run) /\ WF_vars(Start)

-----------------------------------------------------------------------------
\* Every variable holds values of its kind.
TypeOK ==
  /\ file \subseteq Keys /\ rows \subseteq Keys /\ buffer \subseteq Keys
  /\ setting \in 0 .. MaxKey /\ last \in 0 .. MaxKey
  /\ key \in 0 .. MaxKey /\ newLast \in 0 .. MaxKey
  /\ crashes \in 0 .. MaxCrashes
  /\ archive \subseteq Keys /\ lost \subseteq Keys
  /\ restore \in {"none", "add", "replace"} /\ imports \in 0 .. MaxImports
  /\ pc \in {"idle", "read", "close", "raised"}
  /\ ingested \in BOOLEAN

\* Skipping is safe: a line at or before the stored last key is in the
\* mirror, whenever the run that stored it was cut off ("resumable"), unless
\* an import of an archive replaced it: the stored key outlives the rows, and
\* no later run reads these lines again.
LastIsIngested == \A f \in file : f <= setting => f \in rows \cup lost

\* When the stream is over every line of the dump is in the mirror, but for
\* the lines an import has replaced.
Complete == pc = "close" => file \subseteq rows \cup lost

\* Rerunning the import brings a mirror that no crash ever cut off and no
\* archive was imported into up to the dump, again and again after every
\* refresh: "streaming and resumable".  A rerun that finds rows beyond the
\* stored key, as either leaves them, raises on the first of them for ever.
ResumesUncrashed ==
  <>(crashes > 0 \/ imports > 0) \/ []<>(pc = "idle" /\ file \subseteq rows)
=============================================================================
