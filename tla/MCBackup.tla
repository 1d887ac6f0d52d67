------------------------------ MODULE MCBackup ------------------------------
(* Instances of Backup for TLC: one session, or two that may overlap, to    *)
(* one Remote.                                                              *)
EXTENDS Backup
CONSTANTS r1, s1, s2

ToOneRemote  == [s \in {s1} |-> r1]
TwoSenders   == [s \in {s1, s2} |-> r1]
=============================================================================
