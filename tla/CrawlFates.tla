----------------------------- MODULE CrawlFates -----------------------------
(***************************************************************************)
(* What a crawl promises of the addresses it meets: each is met once, waits*)
(* and gets one fate, captured, skipped or failed, for good; no more than  *)
(* MaxPages are captured; and a crawl that completes has decided every     *)
(* address it met or spent its budget.  How it orders them is left open.   *)
(***************************************************************************)
EXTENDS Naturals, FiniteSets

CONSTANTS Urls, MaxPages   \* as CrawlFrontier assumes them

VARIABLES fate, outcome

fateVars == <<fate, outcome>>

Fates == {"unseen", "waiting", "captured", "skipped", "failed"}
WithFate(f) == {u \in Urls : fate[u] = f}

FatesInit ==
  /\ fate = [u \in Urls |-> "unseen"]
  /\ outcome = "running"

\* Start: the addresses known from the outset.
Seed ==
  /\ outcome = "running" /\ WithFate("unseen") = Urls
  /\ fate' \in [Urls -> {"unseen", "waiting"}]
  /\ UNCHANGED outcome

\* A captured page may show addresses never met before.
CaptureOne(u) ==
  /\ outcome = "running" /\ fate[u] = "waiting"
  /\ Cardinality(WithFate("captured")) < MaxPages
  /\ fate' \in [Urls -> Fates]
  /\ fate'[u] = "captured"
  /\ \A v \in Urls \ {u} :
       \/ fate'[v] = fate[v]
       \/ fate[v] = "unseen" /\ fate'[v] = "waiting"
  /\ UNCHANGED outcome

Settle(u, f) ==
  /\ outcome = "running" /\ fate[u] = "waiting"
  /\ fate' = [fate EXCEPT ![u] = f]
  /\ UNCHANGED outcome

Complete ==
  /\ outcome = "running"
  /\ WithFate("waiting") = {} \/ Cardinality(WithFate("captured")) >= MaxPages
  /\ outcome' = "complete"
  /\ UNCHANGED fate

Stop ==
  /\ outcome = "running" /\ outcome' = "stopped"
  /\ UNCHANGED fate

FatesNext ==
  \/ \E u \in Urls : CaptureOne(u) \/ Settle(u, "skipped") \/ Settle(u, "failed")
  \/ Seed \/ Complete \/ Stop

FatesSpec == FatesInit /\ [][FatesNext]_fateVars
=============================================================================
