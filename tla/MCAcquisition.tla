--------------------------- MODULE MCAcquisition ---------------------------
(* Values for Acquisition: an EPUB and a PDF of one book, a link without   *)
(* a format, and an EPUB of another book that the search for the first     *)
(* also returns.                                                           *)
EXTENDS Acquisition

CONSTANTS epub, pdf, link, other, b1, b2, i1, i2

MCBookOf == [r \in Releases |-> IF r = other THEN b2 ELSE b1]
MCFileFormats == [r \in Releases |-> IF r = pdf THEN {"PDF", "EPUB"} ELSE {"EPUB"}]

Fact(fmt, custom, protocol, manual, age) ==
  [fmt |-> fmt, custom |-> custom, protocol |-> protocol, manual |-> manual,
   seeders |-> 0, age |-> age, size |-> 1, junk |-> FALSE]
MCFacts == [r \in Releases |->
  CASE r = epub  -> Fact("EPUB", 0, "torrent", FALSE, 1)
    [] r = pdf   -> Fact("PDF", 10, "direct", FALSE, 2)
    [] r = link  -> Fact(NoFormat, 0, "direct", TRUE, 0)
    [] r = other -> Fact("EPUB", 0, "torrent", FALSE, 1)]

MCOnFeed == [i \in Indexers |-> IF i = i1 THEN {epub, pdf} ELSE {other}]
MCRowOrder == <<i2, i1>>
MCResults == [i \in Indexers |-> [b \in Books |->
  CASE i = i1 /\ b = b1 -> <<pdf, epub>>
    [] i = i2 /\ b = b1 -> <<link, other>>
    [] i = i2 /\ b = b2 -> <<other>>
    [] OTHER -> <<>>]]
=============================================================================
