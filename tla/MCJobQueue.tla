----------------------------- MODULE MCJobQueue -----------------------------
(* Small instances of JobQueue for TLC. *)
EXTENDS JobQueue

\* Three submissions: s1 and s3 are different requests for one site.
MCSpecs    == {"s1", "s2", "s3"}
MCSpecOf   == [j \in 1..MaxJobs |-> <<"s1", "s2", "s3">>[j]]
MCSpecOfSite  == [j \in 1..MaxJobs |-> <<"s1", "s3", "s2">>[j]]
MCSpecOfTwice == [j \in 1..MaxJobs |-> <<"s1", "s2", "s1">>[j]]
MCSpecOfSame  == [j \in 1..MaxJobs |-> <<"s1", "s1", "s2">>[j]]
MCDomains  == {"a", "b"}
MCDomainsOf == [s \in MCSpecs |-> IF s = "s2" THEN {"b"} ELSE {"a"}]
=============================================================================
