----------------------------- MODULE MCCatalog -----------------------------
(* Values for Catalog: two works, one of them by an author whose name      *)
(* comes in two spellings; a file without an author, one without a title,  *)
(* and two files of different works that carry one ISBN.                   *)
EXTENDS Catalog

CONSTANTS t1, t2, plain, caps, p1, p2, p3, p4, p5, i1, u1, u2

MCFold == [n \in Names |-> plain]

W(title, name) == [title |-> title, name |-> name]
F(path, title, name, isbn, fmt) ==
  [path |-> path, title |-> title, name |-> name, isbn |-> isbn, fmt |-> fmt]

MCLists == << [query |-> "not json", works |-> <<>>],
              [query |-> "good", works |-> <<W(t1, plain), W(t2, caps)>>],
              [query |-> "unknown key", works |-> <<>>],
              [query |-> "good", works |-> <<W(t2, plain)>>] >>
MCPicks  == {<<W(t2, plain), W(t2, plain)>>}
MCWishes == {W(t1, caps)}
MCLibrary == << F(p1, t1, None, None, "EPUB"), F(p2, t2, plain, i1, "EPUB"),
                F(p3, t1, caps, i1, "EPUB"), F(p4, None, None, None, "PDF") >>
MCCalibre == << [path |-> p5, title |-> t1, name |-> caps, fmt |-> "PDF"] >>
=============================================================================
