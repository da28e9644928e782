---------------------------- MODULE RecordStore ----------------------------
(***************************************************************************)
(* One job in a service with a remote store (jobs/store.mjs over           *)
(* jobs/remote.mjs): the record on the instance's disk and its mirror in   *)
(* the remote, the artefact tree and its published copy, the cache of      *)
(* terminal records, and who works on them: submission, launch and end of  *)
(* the worker, progress flushes, DELETE and the collector, a reader, and a *)
(* boot after the instance lost its disk.  Jobs share nothing here.        *)
(*                                                                         *)
(* A record is its status, its attempt and `seq`, which numbers the writes *)
(* of the record (history: the code has no such field).                    *)
(***************************************************************************)
EXTENDS Integers, Sequences

CONSTANTS
  MaxAttempts,   \* recover()'s maxAttempts
  MaxRestarts,   \* bound: instances lost
  MaxFlushes,    \* bound: progress flushes of all attempts
  MaxFaults,     \* bound: remote operations that fail
  MaxRemovals,   \* bound: removals asked for
  None

ASSUME StoreAssumption == {MaxAttempts, MaxRestarts, MaxFlushes, MaxFaults, MaxRemovals} \subseteq Nat

VARIABLES
  local, tree,    \* job.json and the artefact tree on disk
  remote, arts,   \* the mirrored record and the published tree
  cache,          \* remoteCache
  mirrors,        \* mirrorChains: writes to mirror, the first one in flight
  chain, opAt, opGot,    \* recordChains: changes in turn, where the first one is, what it read
  answer,         \* of the submission: "none", "pending", "accepted", "failed", "lost"
  worker, result, \* the child process and its close handler; what it will report
  poll,           \* "idle", or "listed": it has read this job as queued
  remover, ahead, \* DELETE or the collector; mirrors its removal waits for
  reader, readGot,
  boot,           \* "recovering", "settling", "up"
  removals, gone, \* removals asked for; history: one has returned
  seq, restarts, flushes, faults

diskVars   == <<local, tree>>
remoteVars == <<remote, arts>>
opVars     == <<chain, opAt, opGot>>
workVars   == <<worker, result, poll>>
removeVars == <<remover, ahead, removals, gone>>
readVars   == <<reader, readGot>>
boundVars  == <<restarts, flushes, faults>>
storeVars  == <<diskVars, remoteVars, cache, mirrors, opVars, answer, workVars, removeVars,
                readVars, boot, seq, boundVars>>

Terminal == {"succeeded", "failed", "cancelled"}
RemoveAsked == removals > 0

Status   == {"queued", "running"} \cup Terminal
Record   == [status : Status, attempt : Nat, seq : Nat]
ASSUME NoneAssumption == None \notin Record

Maybe    == Record \cup {None}
Ops      == {"running", "flush", "cancel", "requeue", "giveup", "remove"} \cup Terminal
Trees    == {"none", "partial", "full"}

StoreTypeOK ==
  /\ local \in Maybe /\ remote \in Maybe /\ cache \in Maybe
  /\ tree \in Trees /\ arts \in Trees
  /\ mirrors \in Seq([rec : Record, strict : BOOLEAN])
  /\ chain \in Seq(Ops) /\ opAt \in {"head", "fetching", "fetched", "mirroring"} /\ opGot \in Maybe
  /\ answer \in {"none", "pending", "accepted", "failed", "lost"}
  /\ worker \in {"none", "alive", "dying", "ended", "publishing", "recording", "evicting"}
  /\ result \in Terminal /\ poll \in {"idle", "listed"}
  /\ remover \in {"idle", "cancelling", "marking", "waiting", "draining", "deleting", "pruning"}
  /\ ahead \in Nat
  /\ reader \in {"idle", "asked", "answered"} /\ readGot \in Maybe
  /\ boot \in {"recovering", "settling", "up"}
  /\ removals \in Nat /\ seq \in Nat
  /\ cache # None => cache.status \in Terminal
  /\ opAt = "mirroring" => mirrors # <<>>
  /\ chain = <<>> => opAt = "head"

StoreInit ==
  /\ local = None /\ tree = "none" /\ remote = None /\ arts = "none" /\ cache = None
  /\ mirrors = <<>> /\ chain = <<>> /\ opAt = "head" /\ opGot = None
  /\ answer = "none" /\ worker = "none" /\ result = "failed" /\ poll = "idle"
  /\ remover = "idle" /\ ahead = 0 /\ reader = "idle" /\ readGot = None
  /\ boot = "up" /\ removals = 0 /\ gone = FALSE
  /\ seq = 0 /\ restarts = 0 /\ flushes = 0 /\ faults = 0

\* get(): the disk, else the cache, else (in two steps) the remote.
Cached == IF local # None THEN local ELSE cache
Visible == IF Cached # None THEN Cached ELSE remote

Fault == faults < MaxFaults /\ faults' = faults + 1

-----------------------------------------------------------------------------
(* #write(): the record on disk, and a turn in the chain of its mirrors *)

Write(rec, strict) ==
  LET r == [rec EXCEPT !.seq = seq + 1] IN
  /\ local' = r /\ seq' = seq + 1
  /\ mirrors' = Append(mirrors, [rec |-> r, strict |-> strict])

\* create(): the tree's directory, the record, and the caller waits for its mirror.
Create ==
  /\ boot = "up" /\ answer = "none"
  /\ answer' = "pending"
  /\ Write([status |-> "queued", attempt |-> 0, seq |-> 0], TRUE)
  /\ UNCHANGED <<tree, remoteVars, cache, opVars, workVars, removeVars, readVars, boot, boundVars>>

\* The mirror at position i is settled: its writer goes on, and a removal that waits
\* for the chain as it found it has one less to wait for.
Settled(i, ok) ==
  /\ mirrors' = SubSeq(mirrors, 1, i - 1) \o SubSeq(mirrors, i + 1, Len(mirrors))
  /\ answer' = IF ~mirrors[i].strict THEN answer ELSE IF ok THEN "accepted" ELSE "failed"
  /\ IF mirrors[i].strict THEN UNCHANGED opVars
     ELSE chain' = Tail(chain) /\ opAt' = "head" /\ UNCHANGED opGot
  /\ ahead' = IF ahead > 0 THEN ahead - 1 ELSE 0
  /\ UNCHANGED <<diskVars, arts, cache, workVars, remover, removals, gone, readVars, boot, seq,
                 restarts, flushes>>

\* Mutant: every write starts its mirror at once.
MirrorUnchained ==
  \E i \in DOMAIN mirrors :
    remote' = mirrors[i].rec /\ Settled(i, TRUE) /\ UNCHANGED faults

Mirror ==
  /\ mirrors # <<>>
  /\ remote' = mirrors[1].rec /\ Settled(1, TRUE) /\ UNCHANGED faults

\* Mutant: a submission is answered as if its record had been stored.
MirrorFailureIgnored ==
  /\ mirrors # <<>> /\ Fault
  /\ remote' \in {remote, mirrors[1].rec}
  /\ Settled(1, TRUE)

\* The put failed after its retries: it may have landed nevertheless.  Only a
\* submission hears of it; no later write has to come and carry it.
MirrorFails ==
  /\ mirrors # <<>> /\ Fault
  /\ remote' \in {remote, mirrors[1].rec}
  /\ Settled(1, FALSE)

-----------------------------------------------------------------------------
(* #exclusive(): the first change of the chain reads, patches, writes *)

Enqueue(op) == chain' = Append(chain, op) /\ UNCHANGED <<opAt, opGot>>

Patch(op, job) ==
  CASE op = "running" -> [job EXCEPT !.status = "running", !.attempt = @ + 1]
    [] op = "flush"   -> job
    [] op = "cancel"  -> [job EXCEPT !.status = "cancelled"]
    [] op = "requeue" -> [job EXCEPT !.status = "queued"]
    [] op = "giveup"  -> [job EXCEPT !.status = "failed"]
    [] OTHER          -> [job EXCEPT !.status = op]

\* A merge of progress leaves the cache alone; an update clears it.
Change(job) ==
  /\ Write(Patch(Head(chain), job), FALSE)
  /\ opAt' = "mirroring" /\ UNCHANGED chain

OpLocal ==
  /\ chain # <<>> /\ Head(chain) # "remove" /\ opAt = "head" /\ Cached # None
  /\ Change(Cached)
  /\ cache' = IF Head(chain) = "flush" THEN cache ELSE None
  /\ UNCHANGED <<tree, remoteVars, opGot, answer, workVars, removeVars, readVars, boot, boundVars>>

OpAsksRemote ==
  /\ chain # <<>> /\ Head(chain) # "remove" /\ opAt = "head" /\ Cached = None
  /\ opAt' = "fetching"
  /\ UNCHANGED <<diskVars, remoteVars, cache, mirrors, chain, opGot, answer, workVars, removeVars,
                 readVars, boot, seq, boundVars>>

OpAnswered ==
  /\ opAt = "fetching"
  /\ opGot' = remote /\ opAt' = "fetched"
  /\ UNCHANGED <<diskVars, remoteVars, cache, mirrors, chain, answer, workVars, removeVars,
                 readVars, boot, seq, boundVars>>

\* The read failed: so does the change, which its caller logs (recover() fails with it,
\* and the instance is started again).
OpReadFails ==
  /\ opAt = "fetching" /\ Fault
  /\ chain' = Tail(chain) /\ opAt' = "head" /\ UNCHANGED opGot
  /\ boot' = IF boot = "settling" THEN "recovering" ELSE boot
  /\ remover' = IF Head(chain) = "cancel" THEN "idle" ELSE remover
  /\ worker' = IF Head(chain) = result /\ worker = "evicting" THEN "recording" ELSE worker
  /\ UNCHANGED <<diskVars, remoteVars, cache, mirrors, answer, result, poll, ahead, removals, gone,
                 readVars, seq, restarts, flushes>>

\* Mutant: every record read is kept.
FillAny(got) == IF got # None THEN got ELSE cache

Fill(got) == IF got # None /\ got.status \in Terminal THEN got ELSE cache

\* No record anywhere: nothing to change.  Else the record is written to this disk.
OpRemote ==
  /\ opAt = "fetched"
  /\ IF opGot = None
     THEN /\ chain' = Tail(chain) /\ opAt' = "head"
          /\ UNCHANGED <<local, mirrors, seq, cache>>
     ELSE /\ Change(opGot)
          /\ cache' = IF Head(chain) = "flush" THEN Fill(opGot) ELSE None
  /\ opGot' = None
  /\ UNCHANGED <<tree, remoteVars, answer, workVars, removeVars, readVars, boot, boundVars>>

-----------------------------------------------------------------------------
(* The queue: launch, progress, the end of the worker *)

\* The poll reads the disk only (localOnly) ...
List ==
  /\ boot = "up" /\ worker = "none" /\ poll = "idle"
  /\ local # None /\ local.status = "queued"
  /\ poll' = "listed"
  /\ UNCHANGED <<diskVars, remoteVars, cache, mirrors, opVars, answer, worker, result, removeVars,
                 readVars, boot, seq, boundVars>>

\* ... and launches what it listed, whatever the record has become since.  (A listing
\* that outlives a whole child is in JobQueue.)
Launch ==
  /\ poll = "listed" /\ worker = "none"
  /\ worker' = "alive" /\ poll' = "idle" /\ Enqueue("running")
  /\ UNCHANGED <<diskVars, remoteVars, cache, mirrors, answer, result, removeVars, readVars, boot,
                 seq, boundVars>>

Work ==
  /\ worker \in {"alive", "dying"} /\ tree = "none"
  /\ tree' = "partial"
  /\ UNCHANGED <<local, remoteVars, cache, mirrors, opVars, answer, workVars, removeVars, readVars,
                 boot, seq, boundVars>>

Flush ==
  /\ worker \in {"alive", "dying", "ended"} /\ flushes < MaxFlushes
  /\ flushes' = flushes + 1 /\ Enqueue("flush")
  /\ UNCHANGED <<diskVars, remoteVars, cache, mirrors, answer, workVars, removeVars, readVars, boot,
                 seq, restarts, faults>>

\* A child that was sent SIGTERM may report the abort (code 3), or have finished or
\* failed before it looked.
WorkerEnds(r) ==
  /\ worker = "dying" \/ (worker = "alive" /\ r # "cancelled")
  /\ worker' = "ended" /\ result' = r
  /\ tree' = IF r = "succeeded" THEN "full" ELSE tree
  /\ UNCHANGED <<local, remoteVars, cache, mirrors, opVars, answer, poll, removeVars, readVars,
                 boot, seq, boundVars>>

\* The close handler leaves a cancelled job alone.
CloseReads ==
  /\ worker = "ended"
  /\ worker' = IF Visible # None /\ Visible.status = "cancelled" THEN "none" ELSE "publishing"
  /\ cache' = IF Cached = None THEN Fill(remote) ELSE cache
  /\ UNCHANGED <<diskVars, remoteVars, mirrors, opVars, answer, result, poll, removeVars, readVars, boot,
                 seq, boundVars>>

\* Files of the tree are stored one by one, the first of them over those of an earlier try.
Upload ==
  /\ worker = "publishing" /\ tree # "none"
  /\ arts' = "partial"
  /\ UNCHANGED <<diskVars, remote, cache, mirrors, opVars, answer, workVars, removeVars, readVars,
                 boot, seq, boundVars>>

\* With the last of them the tree is published, before the outcome is recorded ...
Publish ==
  /\ worker = "publishing"
  /\ arts' = IF tree = "none" THEN arts ELSE tree
  /\ worker' = "evicting" /\ Enqueue(result)
  /\ UNCHANGED <<diskVars, remote, cache, mirrors, answer, result, poll, removeVars, readVars, boot,
                 seq, boundVars>>

\* Mutant: the outcome is recorded as the worker reported it.
PublishFailsUnnoticed ==
  /\ worker = "publishing" /\ Fault
  /\ arts' \in {arts, "partial"}
  /\ worker' = "evicting" /\ Enqueue(result)
  /\ UNCHANGED <<diskVars, remote, cache, mirrors, answer, result, poll, removeVars, readVars, boot,
                 seq, restarts, flushes>>

\* Mutant: the upload is outside any try: its error leaves the handler.
PublishFailureEscapes ==
  /\ worker = "publishing" /\ Fault
  /\ arts' \in {arts, "partial"}
  /\ worker' = "none"
  /\ UNCHANGED <<diskVars, remote, cache, mirrors, opVars, answer, result, poll, removeVars,
                 readVars, boot, seq, restarts, flushes>>

\* ... and a success whose files could not all be stored is recorded as a failure.
PublishFails ==
  /\ worker = "publishing" /\ Fault
  /\ arts' \in {arts, "partial"}
  /\ result' = (IF result = "succeeded" THEN "failed" ELSE result)
  /\ worker' = "recording" /\ Enqueue(result')
  /\ UNCHANGED <<diskVars, remote, cache, mirrors, answer, poll, removeVars, readVars, boot,
                 seq, restarts, flushes>>

Awaited(op) == op \notin {chain[i] : i \in DOMAIN chain}

\* The outcome is recorded; what was published leaves the disk.
CloseEnds ==
  /\ worker \in {"recording", "evicting"} /\ Awaited(result)
  /\ tree' = IF worker = "evicting" THEN "none" ELSE tree
  /\ worker' = "none" /\ result' = "failed"
  /\ UNCHANGED <<local, remoteVars, cache, mirrors, opVars, answer, poll, removeVars, readVars,
                 boot, seq, boundVars>>

\* The collector under disk pressure: the tree of any terminal job.
Evict ==
  /\ boot = "up" /\ tree # "none" /\ Visible # None /\ Visible.status \in Terminal
  /\ tree' = "none"
  /\ UNCHANGED <<local, remoteVars, cache, mirrors, opVars, answer, workVars, removeVars, readVars,
                 boot, seq, boundVars>>

-----------------------------------------------------------------------------
(* DELETE, and the collector's removal of an expired job *)

\* A job under way is cancelled first, by the queue if it holds the child.
AskRemoval ==
  /\ boot = "up" /\ answer # "none" /\ remover = "idle" /\ Visible # None
  /\ removals < MaxRemovals /\ removals' = removals + 1
  /\ IF worker = "alive" THEN remover' = "cancelling" /\ Enqueue("cancel")
     ELSE IF Visible.status \notin Terminal THEN remover' = "marking" /\ Enqueue("cancel")
     ELSE remover' = "waiting" /\ Enqueue("remove")
  /\ UNCHANGED <<diskVars, remoteVars, cache, mirrors, answer, workVars, ahead, gone, readVars, boot,
                 seq, boundVars>>

Kill ==
  /\ remover \in {"cancelling", "marking"} /\ Awaited("cancel")
  /\ worker' = IF remover = "cancelling" /\ worker = "alive" THEN "dying" ELSE worker
  /\ remover' = "waiting" /\ Enqueue("remove")
  /\ UNCHANGED <<diskVars, remoteVars, cache, mirrors, answer, result, poll, ahead, removals,
                 gone, readVars, boot, seq, boundVars>>

\* In turn with the changes of the record; then the cache, and the mirrors of that
\* moment are waited for.
RemoveLocal ==
  /\ chain # <<>> /\ Head(chain) = "remove" /\ opAt = "head"
  /\ local' = None /\ tree' = "none" /\ cache' = None
  /\ chain' = Tail(chain) /\ UNCHANGED <<opAt, opGot>>
  /\ remover' = "draining" /\ ahead' = Len(mirrors)
  /\ UNCHANGED <<remoteVars, mirrors, answer, workVars, removals, gone, readVars, boot, seq,
                 boundVars>>

RemoveRemote ==
  /\ remover = "draining" /\ ahead = 0
  /\ remote' = None /\ remover' = "pruning"
  /\ UNCHANGED <<diskVars, arts, cache, mirrors, opVars, answer, workVars, ahead, removals, gone,
                 readVars, boot, seq, boundVars>>

Prune ==
  /\ remover = "pruning"
  /\ arts' = "none" /\ remover' = "idle" /\ gone' = TRUE
  /\ UNCHANGED <<diskVars, remote, cache, mirrors, opVars, answer, workVars, ahead, removals,
                 readVars, boot, seq, boundVars>>

\* A remote operation of the removal fails: so does the request.
RemoveFails ==
  /\ (remover = "draining" /\ ahead = 0) \/ remover = "pruning"
  /\ Fault /\ remover' = "idle"
  /\ remote' \in IF remover = "draining" THEN {remote, None} ELSE {remote}
  /\ UNCHANGED <<diskVars, arts, cache, mirrors, opVars, answer, workVars, ahead, removals, gone,
                 readVars, boot, seq, restarts, flushes>>

-----------------------------------------------------------------------------
(* A reader with nothing on disk or in the cache: a request, or a listing *)

Read ==
  /\ boot = "up" /\ reader = "idle" /\ Cached = None
  /\ reader' = "asked"
  /\ UNCHANGED <<diskVars, remoteVars, cache, mirrors, opVars, answer, workVars, removeVars, readGot,
                 boot, seq, boundVars>>

ReadAnswered ==
  /\ reader = "asked"
  /\ readGot' = remote /\ reader' = "answered"
  /\ UNCHANGED <<diskVars, remoteVars, cache, mirrors, opVars, answer, workVars, removeVars, boot,
                 seq, boundVars>>

ReadEnds ==
  /\ reader = "answered"
  /\ cache' = Fill(readGot) /\ readGot' = None /\ reader' = "idle"
  /\ UNCHANGED <<diskVars, remoteVars, mirrors, opVars, answer, workVars, removeVars, boot,
                 seq, boundVars>>

-----------------------------------------------------------------------------
(* The instance goes, with its disk and its memory; another one boots *)

Lost ==
  /\ local' = None /\ tree' = "none" /\ cache' = None
  /\ remote' \in {remote} \cup {mirrors[i].rec : i \in DOMAIN mirrors \cap {1}}
  /\ mirrors' = <<>> /\ chain' = <<>> /\ opAt' = "head" /\ opGot' = None
  /\ answer' = IF answer = "pending" THEN "lost" ELSE answer
  /\ worker' = "none" /\ result' = "failed" /\ poll' = "idle" /\ remover' = "idle" /\ ahead' = 0
  /\ reader' = "idle" /\ readGot' = None
  /\ boot' = "recovering"
  /\ UNCHANGED <<arts, removals, gone, seq, flushes>>

InstanceLost == restarts < MaxRestarts /\ restarts' = restarts + 1 /\ Lost /\ UNCHANGED faults

\* Nobody handles an error of the close handler's read: the process dies of it.
CloseReadFails == worker = "ended" /\ Cached = None /\ Fault /\ Lost /\ UNCHANGED restarts

\* Mutant: recovery lists the disk only.
RecoverLocal ==
  /\ boot = "recovering" /\ boot' = "up"
  /\ UNCHANGED <<diskVars, remoteVars, cache, mirrors, opVars, answer, workVars, removeVars, readVars,
                 seq, boundVars>>

\* recover() finds the job by the remote's list and puts a record on this disk.
Recover ==
  /\ boot = "recovering"
  /\ cache' = Fill(remote)
  /\ IF remote # None /\ remote.status \notin Terminal
     THEN boot' = "settling" /\ Enqueue(IF remote.attempt < MaxAttempts THEN "requeue" ELSE "giveup")
     ELSE boot' = "up" /\ UNCHANGED opVars
  /\ UNCHANGED <<diskVars, remoteVars, mirrors, answer, workVars, removeVars, readVars, seq, boundVars>>

RecoverFails ==
  /\ boot = "recovering" /\ Fault
  /\ UNCHANGED <<diskVars, remoteVars, cache, mirrors, opVars, answer, workVars, removeVars, readVars,
                 boot, seq, restarts, flushes>>

RecoverEnds ==
  /\ boot = "settling" /\ chain = <<>>
  /\ boot' = "up"
  /\ UNCHANGED <<diskVars, remoteVars, cache, mirrors, opVars, answer, workVars, removeVars, readVars,
                 seq, boundVars>>

-----------------------------------------------------------------------------
OpStep     == OpLocal \/ OpAsksRemote \/ OpAnswered \/ OpRemote \/ RemoveLocal
QueueStep  == List \/ Launch \/ CloseReads \/ Publish \/ CloseEnds \/ \E r \in Terminal : WorkerEnds(r)
RemoveStep == Kill \/ RemoveRemote \/ Prune
BootStep   == Recover \/ RecoverEnds
Failure    == MirrorFails \/ OpReadFails \/ PublishFails \/ RemoveFails \/ RecoverFails
              \/ CloseReadFails \/ InstanceLost

StoreNext ==
  \/ Create \/ Mirror \/ OpStep \/ QueueStep \/ RemoveStep \/ BootStep \/ Failure
  \/ Work \/ Flush \/ Upload \/ Evict \/ AskRemoval \/ Read \/ ReadAnswered \/ ReadEnds

StoreSpec == StoreInit /\ [][StoreNext]_storeVars

\* Remote operations end, workers have a wall clock, the queue polls.
LiveStoreSpec ==
  /\ StoreSpec
  /\ WF_storeVars(Mirror) /\ WF_storeVars(OpStep) /\ WF_storeVars(QueueStep)
  /\ WF_storeVars(RemoveStep) /\ WF_storeVars(BootStep)

-----------------------------------------------------------------------------
(* Properties *)

\* store.mjs: "Creating a job must fail if the record cannot be made durable": a job
\* answered 202 has its record in the remote, whatever instance is lost, until its
\* removal is asked for.
AcceptedIsDurable == answer = "accepted" /\ ~RemoveAsked => remote # None

\* queue.mjs: "A client that sees `succeeded` goes straight to /scrape-runs, so the
\* artefacts must already be there": wherever a success can be read, here or by the next
\* instance, its tree is complete in the remote, whatever eviction follows.
SuccessIsServed ==
  ~RemoveAsked => \A r \in {local, cache, remote} \ {None} :
    r.status = "succeeded" => arts = "full"

\* store.mjs: "so mirrored writes land in the order they were made": the remote record
\* is never replaced by an older one, though a submission's mirror and the launch's are
\* under way together.
MirrorsInOrder ==
  [][remote # None /\ remote' # None => remote'.seq >= remote.seq]_storeVars

\* queue.mjs: "Every queued job of this boot is on local disk (created here, or requeued
\* here by recovery)": a job that is not over by the remote is on the disk the queue polls.
InFlightIsLocal ==
  boot = "up" /\ ~RemoveAsked /\ remote # None /\ remote.status \notin Terminal => local # None

\* An accepted job gets its outcome on record whatever fails of uploads and mirrors, and
\* however often the instance is lost, unless its removal is asked for.
AcceptedSettles ==
  answer = "accepted" ~> RemoveAsked \/ (Visible # None /\ Visible.status \in Terminal)

\* store.mjs ("Let any in-flight mirror land first, or it would resurrect the
\* record"): after a removal that succeeded nothing answers for the job any more.
RemovedStaysGone == gone => Visible = None
=============================================================================
