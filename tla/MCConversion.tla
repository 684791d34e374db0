----------------------------- MODULE MCConversion -----------------------------
(***************************************************************************)
(* Instances of Conversion for TLC: jobs j1 and j2 convert f1 to two       *)
(* formats; j3 converts f2, whose output has a name of its own.            *)
(***************************************************************************)
EXTENDS Conversion

CONSTANTS j1, j2, j3, f1, f2, o1, o2, o3

MCSourceOf == [j \in Jobs |-> IF j = j3 THEN f2 ELSE f1]
MCOutOf    == [j \in Jobs |-> IF j = j1 THEN o1 ELSE IF j = j2 THEN o2 ELSE o3]
=============================================================================
