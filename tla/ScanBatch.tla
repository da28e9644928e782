----------------------------- MODULE ScanBatch ------------------------------
(***************************************************************************)
(* The batch scan of one job (workers/scan.mjs, runScan): lanes that take  *)
(* candidates from one list, the politeness gate between them, batch.json  *)
(* as the resume record written through a promise chain, the abort signal, *)
(* and the process around it, which may be killed and started again on the *)
(* directory it left behind.  A lane is a caller of the gate.              *)
(*                                                                         *)
(* What a site's capture finds is an outcome: "ok" for the three a retried *)
(* scan skips (ok, dead, blocked), "again" for those it scans again        *)
(* (refused, robots_disallow, timeout, error).                             *)
(***************************************************************************)
EXTENDS PolitenessGate

CONSTANTS
  Concurrency,   \* cfg.concurrency: lanes
  NumSites,      \* candidates, deduplicated
  KeyOf,         \* the politeness domain of a candidate
  ForceAll,      \* spec.force: scan every candidate again
  MaxRestarts    \* bound: times the process is killed and the job requeued

Sites == 1..NumSites

ASSUME ScanAssumption ==
  /\ Concurrency \in Nat \ {0} /\ Callers = 1..Concurrency
  /\ NumSites \in Nat \ {0} /\ KeyOf \in [Sites -> Keys]
  /\ ForceAll \in BOOLEAN /\ MaxRestarts \in Nat

VARIABLES
  phase,     \* of runScan: "reading", "launching", "scanning", "closing", "exited"
  code,      \* exit code the run is heading for: 0, 1 or 3
  batch,     \* batch.sites in memory
  todo, idx, \* the candidates to scan, and the next one to take
  lane,      \* per lane: "idle", "vetting", "gating", "failing", "ended"
  site,      \* per lane: its candidate, 0 if none
  pending,   \* writes of batch.json in writeChain
  writing,   \* what the write in progress will leave, <<>> if none
  disk,      \* batch.json: outcomes, or Torn when it cannot be parsed
  saved,     \* history: sites whose "ok" was once in batch.json,
  lost,      \* and those of them that a file torn by a kill took away
  restarts

scanVars == <<phase, code, batch, todo, idx, lane, site, pending, writing, disk, saved, lost, restarts>>
allVars  == <<gateVars, scanVars>>

Outcome == {"none", "scanning", "ok", "again"}
Batch   == [Sites -> Outcome]
Fresh   == [s \in Sites |-> "none"]
Torn    == <<>>   \* a truncated file: no batch at all

ScanTypeOK ==
  /\ GateTypeOK
  /\ phase \in {"reading", "launching", "scanning", "closing", "exited"}
  /\ code \in {0, 1, 3}
  /\ batch \in Batch
  /\ todo \in Seq(Sites) /\ idx \in 1..(NumSites + 1)
  /\ lane \in [Callers -> {"idle", "vetting", "gating", "failing", "ended"}]
  /\ site \in [Callers -> Sites \cup {0}]
  /\ pending \in Nat
  /\ writing \in Batch \cup {<<>>}
  /\ disk \in Batch \cup {Torn}
  /\ saved \subseteq Sites /\ lost \subseteq saved
  /\ restarts \in 0..MaxRestarts

ScanInit ==
  /\ GateInit
  /\ phase = "reading" /\ code = 0
  /\ batch = Fresh /\ todo = <<>> /\ idx = 1
  /\ lane = [w \in Callers |-> "idle"] /\ site = [w \in Callers |-> 0]
  /\ pending = 0 /\ writing = <<>> /\ disk = Fresh
  /\ saved = {} /\ lost = {} /\ restarts = 0

Working(w) == lane[w] \in {"vetting", "gating", "failing"}

-----------------------------------------------------------------------------
(* The head of a lane's loop, reached in the callback that ends a site:     *)
(* return when the list is empty, throw when aborted, else take a candidate.*)
(* Promise.all ends with the last lane's return or the first lane's throw.  *)

\* Mutant: a candidate is taken, but the index moves on too late for the others.
Next1Late(w) ==
  LET last == \A v \in Callers \ {w} : lane[v] = "ended" IN
  /\ IF idx > Len(todo)
     THEN /\ lane' = [lane EXCEPT ![w] = "ended"] /\ site' = [site EXCEPT ![w] = 0]
          /\ phase' = IF last /\ phase = "scanning" THEN "closing" ELSE phase
          /\ UNCHANGED idx
     ELSE /\ lane' = [lane EXCEPT ![w] = "vetting"] /\ site' = [site EXCEPT ![w] = todo[idx]]
          /\ UNCHANGED phase
          /\ idx' = IF \E v \in Callers \ {w} : lane[v] = "vetting" THEN idx + 1 ELSE idx
  /\ UNCHANGED code

Next1(w) ==
  LET last == \A v \in Callers \ {w} : lane[v] = "ended" IN
  \/ /\ idx > Len(todo)
     /\ lane' = [lane EXCEPT ![w] = "ended"] /\ site' = [site EXCEPT ![w] = 0]
     /\ phase' = IF last /\ phase = "scanning" THEN "closing" ELSE phase
     /\ UNCHANGED <<code, idx>>
  \/ /\ idx <= Len(todo) /\ aborted
     /\ lane' = [lane EXCEPT ![w] = "ended"] /\ site' = [site EXCEPT ![w] = 0]
     /\ phase' = IF phase = "scanning" THEN "closing" ELSE phase
     /\ code' = IF phase = "scanning" THEN 3 ELSE code
     /\ UNCHANGED idx
  \/ /\ idx <= Len(todo) /\ ~aborted
     /\ lane' = [lane EXCEPT ![w] = "vetting"] /\ site' = [site EXCEPT ![w] = todo[idx]]
     /\ idx' = idx + 1
     /\ UNCHANGED <<phase, code>>

\* Record an outcome in memory and queue a write of the file.
Note(w, o) == batch' = [batch EXCEPT ![site[w]] = o] /\ pending' = pending + 1

-----------------------------------------------------------------------------
(* Start of the run *)

\* The candidates still to scan, in their order (one sequence).
Unscanned(b) ==
  LET T == {s \in Sites : ForceAll \/ b[s] # "ok"} IN
  {q \in [1..Cardinality(T) -> T] : \A i, j \in DOMAIN q : i < j => q[i] < q[j]}

\* Mutant: what is left to do is read from the file, the record starts afresh.
ReadForgets ==
  /\ phase = "reading"
  /\ batch' = Fresh
  /\ todo' \in Unscanned(IF disk = Torn THEN Fresh ELSE disk)
  /\ phase' = IF todo' = <<>> THEN "exited" ELSE "launching"
  /\ lost' = IF disk = Torn THEN saved ELSE lost
  /\ UNCHANGED <<gateVars, code, idx, lane, site, pending, writing, disk, saved, restarts>>

\* batch.json that cannot be parsed counts as a fresh batch.
Read ==
  /\ phase = "reading"
  /\ batch' = IF disk = Torn THEN Fresh ELSE disk
  /\ todo' \in Unscanned(batch')
  /\ phase' = IF todo' = <<>> THEN "exited" ELSE "launching"
  /\ lost' = IF disk = Torn THEN saved ELSE lost
  /\ UNCHANGED <<gateVars, code, idx, lane, site, pending, writing, disk, saved, restarts>>

\* The browser is up: as many lanes as there are candidates for start together and
\* take one each, or all throw when the signal came first.
Launch ==
  /\ phase = "launching"
  /\ IF aborted
     THEN /\ phase' = "closing" /\ code' = 3
          /\ lane' = [w \in Callers |-> "ended"]
          /\ UNCHANGED <<idx, site>>
     ELSE /\ phase' = "scanning"
          /\ lane' = [w \in Callers |-> IF w <= Len(todo) THEN "vetting" ELSE "ended"]
          /\ site' = [w \in Callers |-> IF w <= Len(todo) THEN todo[w] ELSE 0]
          /\ idx' = 1 + (IF Concurrency < Len(todo) THEN Concurrency ELSE Len(todo))
          /\ UNCHANGED code
  /\ UNCHANGED <<gateVars, batch, todo, pending, writing, disk, saved, lost, restarts>>

\* The browser does not start: no lane ever runs, and the error ends the process.
LaunchFails ==
  /\ phase = "launching"
  /\ phase' = "exited" /\ code' = 1
  /\ UNCHANGED <<gateVars, batch, todo, idx, lane, site, pending, writing, disk, saved, lost, restarts>>

-----------------------------------------------------------------------------
(* One candidate *)

\* The guard refuses it, or its robots.txt does.
Decline(w) ==
  /\ lane[w] = "vetting"
  /\ Note(w, "again") /\ Next1(w)
  /\ UNCHANGED <<gateVars, todo, writing, disk, saved, lost, restarts>>

\* Scanning it: into the record, and to the gate in the same callback.
Begin(w) ==
  /\ lane[w] = "vetting"
  /\ Note(w, "scanning")
  /\ lane' = [lane EXCEPT ![w] = "gating"]
  /\ Acquire(w, KeyOf[site[w]])
  /\ UNCHANGED <<phase, code, todo, idx, site, writing, disk, saved, lost, restarts>>

\* At the gate, on the way in.
AtGate(w) ==
  /\ Recheck(w) \/ WakeUp(w)
  /\ UNCHANGED scanVars

\* scanSite() is back with an outcome.
Capture(w, o) ==
  /\ lane[w] = "gating" /\ Release(w)
  /\ Note(w, o) /\ Next1(w)
  /\ UNCHANGED <<todo, writing, disk, saved, lost, restarts>>

\* Mutant: no `finally` around scanSite(), so the slot is kept.
CaptureThrowsHolding(w) ==
  /\ lane[w] = "gating" /\ at[w] = "in"
  /\ at' = [at EXCEPT ![w] = "out"]
  /\ lane' = [lane EXCEPT ![w] = "failing"]
  /\ UNCHANGED <<active, waiters, quiet, key, left, aborted>>
  /\ UNCHANGED <<phase, code, batch, todo, idx, site, pending, writing, disk, saved, lost, restarts>>

\* scanSite() threw: the slot is free, the failure is recorded after two more awaits.
CaptureThrows(w) ==
  /\ lane[w] = "gating" /\ Release(w)
  /\ lane' = [lane EXCEPT ![w] = "failing"]
  /\ UNCHANGED <<phase, code, batch, todo, idx, site, pending, writing, disk, saved, lost, restarts>>

\* Mutant: release() runs even when acquire() did not get the slot.
RefusedReleases(w) ==
  /\ lane[w] = "gating" /\ at[w] = "refused"
  /\ at' = [at EXCEPT ![w] = "out"]
  /\ active' = [active EXCEPT ![key[w]] = IF @ > 0 THEN @ - 1 ELSE 0]
  /\ quiet' = [quiet EXCEPT ![key[w]] = 0]
  /\ lane' = [lane EXCEPT ![w] = "failing"]
  /\ UNCHANGED <<waiters, key, left, aborted>>
  /\ UNCHANGED <<phase, code, batch, todo, idx, site, pending, writing, disk, saved, lost, restarts>>

\* acquire() threw: nothing is released, and the site fails like any other.
Refused(w) ==
  /\ lane[w] = "gating" /\ Leave(w)
  /\ lane' = [lane EXCEPT ![w] = "failing"]
  /\ UNCHANGED <<phase, code, batch, todo, idx, site, pending, writing, disk, saved, lost, restarts>>

RecordFailure(w) ==
  /\ lane[w] = "failing"
  /\ Note(w, "again") /\ Next1(w)
  /\ UNCHANGED <<gateVars, todo, writing, disk, saved, lost, restarts>>

-----------------------------------------------------------------------------
(* writeChain: one write at a time, of the batch as it is when the write     *)
(* starts.  writeFile() truncates the file first.                            *)

\* Mutant: the chain does not wait for the write it starts.
StartWriteLoose ==
  /\ phase # "exited" /\ pending > 0 /\ writing = <<>>
  /\ writing' = batch /\ disk' = Torn
  /\ pending' = pending - 1
  /\ UNCHANGED <<gateVars, phase, code, batch, todo, idx, lane, site, saved, lost, restarts>>

StartWrite ==
  /\ phase # "exited" /\ pending > 0 /\ writing = <<>>
  /\ writing' = batch /\ disk' = Torn
  /\ UNCHANGED <<gateVars, phase, code, batch, todo, idx, lane, site, pending, saved, lost, restarts>>

EndWrite ==
  /\ phase # "exited" /\ writing # <<>>
  /\ disk' = writing /\ writing' = <<>> /\ pending' = pending - 1
  /\ saved' = saved \cup {s \in Sites : writing[s] = "ok"}
  /\ lost' = {s \in lost : writing[s] # "ok"}
  /\ UNCHANGED <<gateVars, phase, code, batch, todo, idx, lane, site, restarts>>

\* Nobody handles the rejection while the chain is its only holder: the process dies.
WriteFails ==
  /\ phase # "exited" /\ writing # <<>>
  /\ phase' = "exited" /\ code' = 1
  /\ UNCHANGED <<gateVars, batch, todo, idx, lane, site, pending, writing, disk, saved, lost, restarts>>

-----------------------------------------------------------------------------
(* The end of the run, and of the process *)

\* Mutant: the end of the scan does not await the chain.
ExitUnawaited ==
  /\ phase = "closing"
  /\ phase' = "exited"
  /\ UNCHANGED <<gateVars, code, batch, todo, idx, lane, site, pending, writing, disk, saved, lost, restarts>>

\* The writes queued when Promise.all ended are awaited; after a throw the other
\* lanes may still be queueing more, which nobody waits for.
Exit ==
  /\ phase = "closing" /\ (code = 0 => pending = 0)
  /\ phase' = "exited"
  /\ UNCHANGED <<gateVars, code, batch, todo, idx, lane, site, pending, writing, disk, saved, lost, restarts>>

Signal == phase # "exited" /\ Abort /\ UNCHANGED scanVars

\* The server stops or crashes at any moment, this process with it or already ended
\* unrecorded: the requeued job runs again over the same directory.
Killed ==
  /\ restarts < MaxRestarts
  /\ restarts' = restarts + 1
  /\ NewGate
  /\ phase' = "reading" /\ code' = 0
  /\ batch' = Fresh /\ todo' = <<>> /\ idx' = 1
  /\ lane' = [w \in Callers |-> "idle"] /\ site' = [w \in Callers |-> 0]
  /\ pending' = 0 /\ writing' = <<>>
  /\ UNCHANGED <<disk, saved, lost>>

LaneStep(w) ==
  phase # "exited" /\ \/ Decline(w) \/ Begin(w) \/ AtGate(w)
                      \/ \E o \in {"ok", "again"} : Capture(w, o)
                      \/ CaptureThrows(w) \/ Refused(w) \/ RecordFailure(w)
TimeStep  == phase # "exited" /\ Tick /\ UNCHANGED scanVars
RunStep   == Read \/ Launch \/ Exit
WriteStep == StartWrite \/ EndWrite

ScanNext ==
  \/ RunStep \/ WriteStep \/ LaunchFails \/ WriteFails \/ TimeStep \/ Signal \/ Killed
  \/ \E w \in Callers : LaneStep(w)

ScanSpec == ScanInit /\ [][ScanNext]_allVars

\* Navigations, probes and writes have timeouts or end; timers fire.
ScanFairness ==
  /\ WF_allVars(RunStep) /\ WF_allVars(WriteStep) /\ WF_allVars(TimeStep)
  /\ \A w \in Callers : WF_allVars(LaneStep(w))

LiveScanSpec == ScanSpec /\ ScanFairness

-----------------------------------------------------------------------------
(* Properties *)

\* No two lanes are at one candidate: the list is read and advanced in one callback.
NoDoubleScan ==
  \A v, w \in Callers : v # w /\ Working(v) /\ Working(w) => site[v] # site[w]

\* A scan that succeeds left an outcome for every candidate in batch.json, although
\* no lane waits for its writes.
SuccessIsRecorded ==
  phase = "exited" /\ code = 0 =>
    disk # Torn /\ disk = batch /\ \A s \in Sites : batch[s] \in {"ok", "again"}

\* A retried scan skips what the earlier one recorded, and no later write takes it
\* back: only a file torn by a kill in the middle of a write loses anything.
ResumeSound ==
  ~ForceAll =>
  /\ disk # Torn => \A s \in saved \ lost : disk[s] = "ok"
  /\ \A w \in Callers : Working(w) => site[w] \notin saved \ lost

\* Unless it is aborted, every run of a batch ends, the resumed ones included: no lane
\* waits for ever at the gate, and the last write is done.
RunEnds == []<>(phase = "exited" \/ aborted)

\* run-job.mjs: SIGTERM is translated "into a cooperative abort so the worker can
\* close the browser": an aborted scan gets to its end.
AbortEndsRun == aborted ~> phase = "exited"

\* Refuted by TLC, and in no run.  runScan: "A scan that is interrupted and retried
\* skips sites that already reached a terminal outcome".
SavedNotRescanned == \A w \in Callers : Working(w) => site[w] \notin saved
=============================================================================
