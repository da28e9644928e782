----------------------------- MODULE KeepAwake -----------------------------
(***************************************************************************)
(* May the container sleep?  When no request has come for a while, the     *)
(* Cloudflare Worker (deploy/cloudflare/src/index.js, onActivityExpired)   *)
(* asks the service's /health whether it has work, and stops the container *)
(* if not.  The answer is put together over several awaits of the server   *)
(* (server.mjs, health) while the queue goes on working; what the queue    *)
(* does to a job is reduced here to where the job is counted, JobQueue has *)
(* the rest.  Of the platform: it calls onActivityExpired when the timer   *)
(* runs out, starts a stopped container for a request, and keeps the       *)
(* object that counts the failed probes, or makes a new one.               *)
(***************************************************************************)
EXTENDS Naturals, FiniteSets

CONSTANTS
  Jobs,
  MaxProbeFailures,
  HealthLimit,  \* how many queued jobs /health counts at most (200)
  MaxRequests   \* bound: requests that find the container asleep

ASSUME KeepAwakeAssumption ==
  /\ IsFiniteSet(Jobs) /\ {MaxProbeFailures, HealthLimit} \subseteq Nat \ {0}
  /\ MaxRequests \in Nat

VARIABLES
  up,             \* the container runs
  record,         \* status of each job's record
  running,        \* jobs in the queue's running map
  ending,         \* jobs whose child has ended and whose outcome is not yet written
  probe,          \* "none", "listing", "answered", "stopping"
  toRead,         \* records the listing of /health has still to read
  waiting,        \* queued jobs it has found
  health,         \* its answer: [queueDepth, activeJobs]
  probeFailures,
  arrived,        \* history: jobs created since the listing began
  requests

jobVars   == <<record, running, ending>>
probeVars == <<toRead, waiting, health>>
vars      == <<up, jobVars, probe, probeVars, probeFailures, arrived, requests>>

KeepAwakeTypeOK ==
  /\ up \in BOOLEAN
  /\ record \in [Jobs -> {"none", "queued", "running", "ended"}]
  /\ running \subseteq Jobs /\ ending \subseteq Jobs /\ running \cap ending = {}
  /\ probe \in {"none", "listing", "answered", "stopping"}
  /\ toRead \subseteq Jobs /\ waiting \subseteq Jobs /\ arrived \subseteq Jobs
  /\ health \in [queueDepth : 0..Cardinality(Jobs), activeJobs : 0..Cardinality(Jobs)]
  /\ probeFailures \in Nat
  /\ requests \in 0..MaxRequests

Init ==
  /\ up = TRUE
  /\ record = [j \in Jobs |-> "none"] /\ running = {} /\ ending = {}
  /\ probe = "none" /\ toRead = {} /\ waiting = {}
  /\ health = [queueDepth |-> 0, activeJobs |-> 0]
  /\ probeFailures = 0 /\ arrived = {} /\ requests = 0

-----------------------------------------------------------------------------
(* The service *)

Create(j) ==
  /\ up /\ record[j] = "none"
  /\ record' = [record EXCEPT ![j] = "queued"]
  /\ arrived' = arrived \cup {j}
  /\ UNCHANGED <<up, running, ending, probe, probeVars, probeFailures, requests>>

\* Mutant: the record first, the running map after its write.
LaunchRecordFirst(j) ==
  /\ up /\ j \notin running \cup ending
  /\ \/ record[j] = "queued" /\ record' = [record EXCEPT ![j] = "running"] /\ UNCHANGED running
     \/ record[j] = "running" /\ running' = running \cup {j} /\ UNCHANGED record
  /\ UNCHANGED <<up, ending, probe, probeVars, probeFailures, arrived, requests>>

\* In the running map at once, its record a write later.  (A child gone before that write
\* leaves a record that can be listed again: the second launch is in JobQueue.)
Launch(j) ==
  /\ up /\ record[j] = "queued" /\ j \notin running \cup ending
  /\ running' = running \cup {j}
  /\ UNCHANGED <<up, record, ending, probe, probeVars, probeFailures, arrived, requests>>

MarkRunning(j) ==
  /\ up /\ j \in running \cup ending /\ record[j] = "queued"
  /\ record' = [record EXCEPT ![j] = "running"]
  /\ UNCHANGED <<up, running, ending, probe, probeVars, probeFailures, arrived, requests>>

\* Mutant: the job stays in the map until its outcome is written.
ChildEndsKept(j) ==
  /\ up /\ j \in running
  /\ ending' = ending \cup {j}
  /\ UNCHANGED <<up, running, record, probe, probeVars, probeFailures, arrived, requests>>

\* The close handler, to its first await.
ChildEnds(j) ==
  /\ up /\ j \in running
  /\ running' = running \ {j} /\ ending' = ending \cup {j}
  /\ UNCHANGED <<up, record, probe, probeVars, probeFailures, arrived, requests>>

\* The artefacts are uploaded, the outcome is written, behind the launch's write.
Outcome(j) ==
  /\ up /\ j \in ending /\ record[j] = "running"
  /\ record' = [record EXCEPT ![j] = "ended"] /\ ending' = ending \ {j}
  /\ UNCHANGED <<up, running, probe, probeVars, probeFailures, arrived, requests>>

-----------------------------------------------------------------------------
(* The probe *)

\* health() takes the ids on disk, then reads the records one by one, up to its limit.
Expire ==
  /\ up /\ probe = "none"
  /\ probe' = "listing"
  /\ toRead' = {j \in Jobs : record[j] # "none"} /\ waiting' = {} /\ arrived' = {}
  /\ UNCHANGED <<up, jobVars, health, probeFailures, requests>>

Read(j) ==
  /\ up /\ probe = "listing" /\ j \in toRead /\ Cardinality(waiting) < HealthLimit
  /\ toRead' = toRead \ {j}
  /\ waiting' = IF record[j] = "queued" THEN waiting \cup {j} ELSE waiting
  /\ UNCHANGED <<up, jobVars, probe, health, probeFailures, arrived, requests>>

\* The running jobs are counted after the last read, in the step that answers.
Answer ==
  /\ up /\ probe = "listing" /\ (toRead = {} \/ Cardinality(waiting) >= HealthLimit)
  /\ probe' = "answered"
  /\ health' = [queueDepth |-> Cardinality(waiting), activeJobs |-> Cardinality(running)]
  /\ UNCHANGED <<up, jobVars, toRead, waiting, probeFailures, arrived, requests>>

\* Renewed if there is work, stopped if not; the failures are forgotten either way.
Judge ==
  /\ probe = "answered"
  /\ probeFailures' = 0
  /\ probe' = IF health.activeJobs > 0 \/ health.queueDepth > 0 THEN "none" ELSE "stopping"
  /\ UNCHANGED <<up, jobVars, probeVars, arrived, requests>>

\* Mutant: a failed probe is not counted.
MissUncounted ==
  /\ probe \in {"listing", "answered"} /\ probe' = "none"
  /\ UNCHANGED <<up, jobVars, probeVars, probeFailures, arrived, requests>>

\* No answer, not a good one, or one cut short.
Miss ==
  /\ probe \in {"listing", "answered"}
  /\ probeFailures' = probeFailures + 1
  /\ probe' = IF probeFailures' < MaxProbeFailures THEN "none" ELSE "stopping"
  /\ UNCHANGED <<up, jobVars, probeVars, arrived, requests>>

-----------------------------------------------------------------------------
(* Asleep and awake *)

\* SIGTERM: the server drains, its children may still end and be recorded, or not.
Stop ==
  /\ probe = "stopping"
  /\ up' = FALSE /\ probe' = "none"
  /\ \E E \in SUBSET (running \cup ending) :
       record' = [j \in Jobs |-> IF j \in E THEN "ended" ELSE record[j]]
  /\ running' = {} /\ ending' = {}
  /\ UNCHANGED <<probeVars, probeFailures, arrived, requests>>

\* A request starts the container again: what was running is queued once more or given up.
\* The object with its count may have been evicted meanwhile.
Wake ==
  /\ ~up /\ requests < MaxRequests
  /\ up' = TRUE /\ requests' = requests + 1
  /\ \E R \in SUBSET {j \in Jobs : record[j] = "running"} :
       record' = [j \in Jobs |-> IF record[j] # "running" THEN record[j]
                                 ELSE IF j \in R THEN "queued" ELSE "ended"]
  /\ probeFailures' \in {probeFailures, 0}
  /\ UNCHANGED <<running, ending, probe, probeVars, arrived>>

Work  == \E j \in Jobs : Launch(j) \/ MarkRunning(j) \/ ChildEnds(j) \/ Outcome(j)
Probe == Expire \/ (\E j \in Jobs : Read(j)) \/ Answer \/ Judge \/ Miss \/ Stop
Next  == (\E j \in Jobs : Create(j)) \/ Work \/ Probe \/ Wake

Spec == Init /\ [][Next]_vars

\* Jobs are worked off within their ceilings, timers fire, fetches settle.
LiveSpec == Spec /\ WF_vars(Work) /\ WF_vars(Probe)

-----------------------------------------------------------------------------
(* Properties *)

Unfinished == {j \in Jobs : record[j] \in {"queued", "running"}}

\* The container is not put to sleep over a job it was asked about: what an answer of "no
\* work" leaves unfinished was created since the probe began, or its child had ended and
\* only its outcome was still to be written (index.js: "sleeping would kill it").
IdleAnswerSound ==
  probe = "answered" /\ health.queueDepth = 0 /\ health.activeJobs = 0
    => Unfinished \subseteq arrived \cup ending

\* index.js: "`activeJobs` counts every running job and
\* `queueDepth` every waiting one": an idle answer leaves nothing unfinished but what came
\* since the probe began.
EveryJobCounted ==
  probe = "answered" /\ health.queueDepth = 0 /\ health.activeJobs = 0
    => Unfinished \subseteq arrived

\* Once the requests are over the container goes to sleep for good: neither the probes'
\* failures nor a job's ending keep it awake (index.js: "Idle time before the instance
\* sleeps and billing stops").
EventuallySleeps == <>[]~up
=============================================================================
