---------------------------- MODULE MCEnrichment ----------------------------
(* Values for Enrichment: a book only Google Books knows, and two books of  *)
(* one work, the first of which the dump resolves as well.                 *)
EXTENDS Enrichment
CONSTANTS w1
MCWorkOf == [b \in Books |-> IF b = 1 THEN None ELSE w1]
MCSlugs  == [x \in Works \cup Books |-> {"sci-fi"}]
MCShelved == [b \in Books |-> IF b = 2 THEN {"science-fiction"} ELSE {}]
=============================================================================
