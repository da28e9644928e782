---------------------------- MODULE MCScanBatch -----------------------------
(* Small batches for TLC: all of one domain, or the first of another. *)
EXTENDS ScanBatch

MCCallers    == 1..2
MCOneDomain  == [s \in 1..NumSites |-> "a"]
MCTwoDomains == [s \in 1..NumSites |-> IF s = 1 THEN "b" ELSE "a"]
=============================================================================
