------------------------------ MODULE Decision ------------------------------
(***************************************************************************)
(* Which release is worth having: acquisition/quality.py (formats, custom  *)
(* formats, cutoff, upgrades), acquisition/candidates.py (the junk filter  *)
(* and the normalised candidate) and acquisition/decision.py (pick_best).  *)
(* Pure operators: the state machine that calls them is Acquisition.       *)
(*                                                                         *)
(* A release is a record: the regular expressions that read a title are    *)
(* abstracted to the facts they yield (fmt, custom, junk).                 *)
(***************************************************************************)
EXTENDS Integers, Sequences

CONSTANTS
  NoFormat,   \* detect_format found nothing
  Nothing     \* pick_best returns None

(* The text taxonomy and the default profile, wanted.DEFAULT_PROFILE. *)
TextFormats == {"EPUB", "AZW3", "MOBI", "PDF", "FB2", "OTHER"}
TextScore(f) == CASE f = "EPUB" -> 100 [] f = "AZW3" -> 90 [] f = "MOBI" -> 80
                  [] f = "PDF"  -> 60  [] f = "FB2"  -> 50 [] OTHER -> 10
Allowed == {"EPUB", "AZW3", "MOBI", "PDF"}
Cutoff  == "EPUB"

(* 0 stands for "not allowed", whatever the taxonomy says. *)
FormatScore(f) == IF f \in Allowed THEN TextScore(f) ELSE 0

MeetsCutoff(f) == f # NoFormat /\ FormatScore(f) >= FormatScore(Cutoff)

(* quality.is_upgrade; NoFormat as current: the book has no file. *)
IsUpgrade(current, candidate) ==
  IF current = NoFormat
  THEN candidate # NoFormat /\ FormatScore(candidate) > 0
  ELSE /\ ~MeetsCutoff(current)
       /\ candidate # NoFormat
       /\ FormatScore(candidate) > FormatScore(current)

(* max(formats, key = format_score): the highest score a book owns. *)
BestFormat(owned) ==
  IF owned = {} THEN NoFormat
  ELSE CHOOSE f \in owned : \A g \in owned : FormatScore(g) <= FormatScore(f)

-----------------------------------------------------------------------------
Protocols == {"direct", "usenet", "torrent"}
ProtocolRank(p) == CASE p = "direct" -> 3 [] p = "usenet" -> 2 [] p = "torrent" -> 1

(* normalize_candidate: a release, what its title says, its indexer's rank. *)
Normalized(guid, r, priority) ==
  [guid |-> guid, fmt |-> r.fmt, custom |-> r.custom, protocol |-> r.protocol,
   manual |-> r.manual, priority |-> priority, seeders |-> r.seeders,
   age |-> r.age, size |-> r.size]

(* _score: the tuple max() compares. *)
SlipScore(c) ==               \* the priority without its sign: 100 beats 1
  <<FormatScore(c.fmt), c.custom, ProtocolRank(c.protocol),
    IF c.manual THEN 0 ELSE 1, c.priority, c.seeders, -c.age, -c.size>>
Score(c) ==
  <<FormatScore(c.fmt), c.custom, ProtocolRank(c.protocol),
    IF c.manual THEN 0 ELSE 1, -c.priority, c.seeders, -c.age, -c.size>>

(* Tuples are compared like words: the first difference decides. *)
Greater(s, t) ==
  \E i \in DOMAIN s : s[i] > t[i] /\ \A j \in 1..(i - 1) : s[j] = t[j]

Eligible(c) == FormatScore(c.fmt) > 0 \/ c.manual

(* One turn of max(): an earlier candidate keeps its place among equals.    *)
Better(best, c) ==
  IF Eligible(c) /\ (best = Nothing \/ Greater(Score(c), Score(best))) THEN c ELSE best

(* The first of several best, None when nothing is eligible. *)
PickBest(cs) ==
  LET best[n \in 0..Len(cs)] == IF n = 0 THEN Nothing ELSE Better(best[n - 1], cs[n])
  IN best[Len(cs)]
=============================================================================
