--------------------------- MODULE MCDownloadWatch ---------------------------
(***************************************************************************)
(* Instances of DownloadWatch for TLC.  Releases e1 and p1 are the EPUB    *)
(* and the PDF of book b1, e2 is the EPUB of book b2, x1 is a second EPUB  *)
(* of b1 from another indexer.                                             *)
(***************************************************************************)
EXTENDS DownloadWatchProps, TLC

CONSTANTS e1, p1, e2, x1, b1, b2, c1, c2, epub, pdf, pa, pb, pc1

MCBookOf   == [r \in Releases |-> IF r = e2 THEN b2 ELSE b1]
MCFormatOf == [r \in Releases |-> IF r = p1 THEN pdf ELSE epub]

\* The naming template keeps titles and extensions apart.
MCDest ==
  [b \in Books |-> [f \in Formats |-> IF b = b2 THEN pc1 ELSE IF f = pdf THEN pb ELSE pa]]

\* File names verify for the book their release was queued for ...
ByTitle == {<<MCBookOf[r], r>> : r \in Releases}
\* ... and, when the author agrees, for the author's other books too.
ByAuthor == Books \X Releases

\* Workers are alike and so are fresh download ids (for safety runs only).
Symmetry == Permutations(Workers) \cup Permutations(Ids)
=============================================================================
