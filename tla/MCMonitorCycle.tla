---------------------------- MODULE MCMonitorCycle ----------------------------
(***************************************************************************)
(* Instances of MonitorCycle for TLC: two indexers whose pages overlap in  *)
(* g1; nothing matches g3.                                                 *)
(***************************************************************************)
EXTENDS MonitorCycle

CONSTANTS i1, i2, g1, g2, g3

MCOrder  == <<i1, i2>>
MCOffers == [i \in Indexers |-> IF i = i1 THEN {g1, g3} ELSE {g1, g2}]
MCJobs   == <<"queue", "discovery", "conversions">>
=============================================================================
