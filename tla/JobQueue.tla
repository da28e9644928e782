------------------------------ MODULE JobQueue ------------------------------
(***************************************************************************)
(* The job service of one process on local disk: the HTTP handlers that    *)
(* create and delete jobs (server.mjs), the worker pool that claims,       *)
(* launches, cancels and settles them (jobs/queue.mjs), the record store   *)
(* whose per-job promise chain serialises every change of a record         *)
(* (jobs/store.mjs), the garbage collector (jobs/gc.mjs) and boot-time     *)
(* recovery.                                                               *)
(*                                                                         *)
(* Node runs one callback at a time, so an action is what one callback     *)
(* does between two awaits.  A record changes only when the head of its    *)
(* chain is applied; everybody else reads the file as it is at that        *)
(* moment and acts on what was read in a later callback.                   *)
(***************************************************************************)
EXTENDS Integers, Sequences, FiniteSets

CONSTANTS
  MaxJobs,        \* bound: the number of jobs submitted
  Specs,          \* request specs (what hashSpec tells apart)
  SpecOf,         \* the spec of the n-th submission
  Domains,        \* politeness domains
  DomainsOf,      \* the domains a spec names
  Concurrency,    \* config.server.concurrentJobs
  ListLimit,      \* jobs one poll of the queue lists (50 in the code)
  DedupeLimit,    \* jobs findDuplicate looks at (200)
  RecoverLimit,   \* jobs recover() looks at (1000)
  MaxAttempts,    \* attempts before a lost job is failed (2)
  Clients,        \* concurrent DELETE requests
  MaxRuns,        \* bound: launched children whose handlers are still alive
  MaxRestarts,    \* bound: crashes and graceful stops
  FailingWrites,  \* may a record write or removal fail (a full disk)?
  QuickExit,      \* may a child be gone (spawn failure) before it is recorded as running?
  SweepLimit,     \* bound: jobs the collector lists at once, by age or disk pressure (1000; 0: never)
  CgroupStop      \* does SIGTERM reach the children too (systemd), or only the server?

Jobs   == 1..MaxJobs      \* ids are time-prefixed: the order of creation
RunIds == 1..MaxRuns

ASSUME NatAssumption ==
  /\ MaxJobs \in Nat /\ MaxRuns \in Nat /\ MaxRestarts \in Nat /\ SweepLimit \in Nat
  /\ Concurrency \in Nat \ {0}
  /\ ListLimit \in Nat \ {0} /\ DedupeLimit \in Nat \ {0} /\ RecoverLimit \in Nat \ {0}
  /\ MaxAttempts \in Nat \ {0}
ASSUME SpecAssumption ==
  /\ SpecOf \in [Jobs -> Specs]
  /\ DomainsOf \in [Specs -> SUBSET Domains]
ASSUME ClientAssumption == Clients \cap (RunIds \cup {0}) = {}
ASSUME FlagAssumption == {FailingWrites, QuickExit, CgroupStop} \subseteq BOOLEAN

InFlight == {"queued", "running"}
TERMINAL == {"succeeded", "failed", "cancelled"}
Status   == InFlight \cup TERMINAL \cup {"absent"}

\* A pending change of a record: the status to write ("absent" removes the
\* record, "purge" the artefact tree after it), the attempt to write (0: leave
\* it), and the run or client that made the call (0: the collector).
Change ==
  [to: {"running"}, attempt: 1..MaxAttempts, by: RunIds]
    \cup [to: TERMINAL \cup {"absent", "purge"}, attempt: {0}, by: RunIds \cup Clients \cup {0}]

\* A launched child with its handlers, and a DELETE request.
RunRecord == [job: Jobs \cup {0},
              pc: {"free", "spawned", "working", "closed", "settling", "recording"},
              watched: BOOLEAN, term: BOOLEAN, over: BOOLEAN,
              outcome: TERMINAL \cup {"none"}]
ClientRecord == [job: Jobs \cup {0},
                 pc: {"idle", "read", "cancelling", "dropping", "removing"},
                 seen: Status, run: RunIds \cup {0}]
Entry == [job: Jobs, attempt: 0..(MaxAttempts - 1)]   \* a listed job

VARIABLES
  status, attempt,   \* the record on disk, per job
  tree,              \* jobs whose artefact directory exists
  chain,             \* recordChains: changes of one record wait their turn
  running,           \* the Map of running jobs: job -> run, 0 if none
  run,               \* the closures of #launch: child process, flags and close handler
  loop, todo, listed,\* start()'s loop, and the listing it is reading
  nextJob, posting,  \* submissions, and those between look-up and create
  client,            \* DELETE requests
  gcTodo,            \* jobs a sweep read as terminal and has yet to remove
  mode, boot,        \* the server, and the jobs recover() has yet to visit
  restarts

disk   == <<status, attempt, tree>>
queue  == <<running, run, loop, todo, listed>>
server == <<nextJob, posting, client, gcTodo, mode, boot, restarts>>
vars   == <<disk, chain, queue, server>>

NoRun    == [job |-> 0, pc |-> "free", watched |-> FALSE, term |-> FALSE,
             over |-> FALSE, outcome |-> "none"]
NoClient == [job |-> 0, pc |-> "idle", seen |-> "absent", run |-> 0]

TypeOK ==
  /\ status \in [Jobs -> Status] /\ attempt \in [Jobs -> 0..MaxAttempts]
  /\ tree \in SUBSET Jobs
  /\ chain \in [Jobs -> Seq(Change)]
  /\ running \in [Jobs -> RunIds \cup {0}]
  /\ run \in [RunIds -> RunRecord]
  /\ loop \in {"asleep", "next", "listing"}
  /\ todo \in SUBSET Jobs
  /\ listed \in SUBSET Entry
  /\ nextJob \in 1..(MaxJobs + 1) /\ posting \in SUBSET Jobs
  /\ client \in [Clients -> ClientRecord]
  /\ gcTodo \in SUBSET Jobs
  /\ mode \in {"recovering", "up", "draining"} /\ boot \in SUBSET Jobs
  /\ restarts \in 0..MaxRestarts

-----------------------------------------------------------------------------
(* Helpers *)

Present        == {j \in Jobs : status[j] # "absent"}
Newest(S, n)   == {j \in S : Cardinality({k \in S : k > j}) < n}
jobDomains(j)  == DomainsOf[SpecOf[j]]
Overlap(j, k)  == jobDomains(j) \cap jobDomains(k) # {}
Active         == {j \in Jobs : running[j] # 0}
activeCount    == Cardinality(Active)
Live(r)        == run[r].pc \in {"spawned", "working"}
Enqueue(j, op) == chain' = [chain EXCEPT ![j] = Append(@, op)]
Pending(j, a)  == \E i \in 1..Len(chain[j]) : chain[j][i].by = a
GcRemoving     == \E j \in Jobs : Pending(j, 0)
Serving        == mode \in {"up", "draining"}

Init ==
  /\ status = [j \in Jobs |-> "absent"] /\ attempt = [j \in Jobs |-> 0]
  /\ tree = {}
  /\ chain = [j \in Jobs |-> <<>>]
  /\ running = [j \in Jobs |-> 0] /\ run = [r \in RunIds |-> NoRun]
  /\ loop = "asleep" /\ todo = {} /\ listed = {}
  /\ nextJob = 1 /\ posting = {}
  /\ client = [c \in Clients |-> NoClient]
  /\ gcTodo = {}
  /\ mode = "up" /\ boot = {}
  /\ restarts = 0

-----------------------------------------------------------------------------
(* POST: serialiseCreate(findDuplicate, create).  A request answered with an *)
(* existing job changes nothing.                                             *)

\* The code reads one record after the other; a job it found over stays over but for
\* a stale launch, and one in flight is an answer at once, so one step is enough.
findDuplicate(n) ==
  {j \in Newest(Present, DedupeLimit) : SpecOf[j] = SpecOf[n] /\ status[j] \in InFlight}

\* Mutant: look-up and create are not serialised.
LookUpUnserialised ==
  /\ Serving /\ nextJob <= MaxJobs
  /\ findDuplicate(nextJob) = {}
  /\ posting' = posting \cup {nextJob} /\ nextJob' = nextJob + 1
  /\ UNCHANGED <<disk, chain, queue, client, gcTodo, mode, boot, restarts>>

\* The look-up found no job in flight (a recent success may or may not still count).
LookUp ==
  /\ Serving /\ posting = {} /\ nextJob <= MaxJobs
  /\ findDuplicate(nextJob) = {}
  /\ posting' = {nextJob} /\ nextJob' = nextJob + 1
  /\ UNCHANGED <<disk, chain, queue, client, gcTodo, mode, boot, restarts>>

\* The directory is made first; it is left behind when the record cannot be written.
Create(j) ==
  /\ j \in posting /\ posting' = posting \ {j}
  /\ \/ status' = [status EXCEPT ![j] = "queued"] /\ tree' = tree \cup {j}
     \/ FailingWrites /\ UNCHANGED status /\ tree' \in {tree, tree \cup {j}}
  /\ UNCHANGED <<attempt, chain, queue, nextJob, client, gcTodo, mode, boot, restarts>>

-----------------------------------------------------------------------------
(* start(), #claimNext() and #launch() *)

\* store.list() reads the directory; the records are read one by one afterwards.
StartListing ==
  /\ loop' = "listing" /\ todo' = Present
  /\ UNCHANGED <<disk, chain, running, run, listed, server>>

\* A poke or the poll timer; with every slot taken the loop sleeps on.
Wake == loop = "asleep" /\ mode = "up" /\ activeCount < Concurrency /\ StartListing

\* The inner loop claims again without looking at `stopped`.
ClaimAgain == loop = "next" /\ StartListing

\* list() reads one record after another, newest first, up to the limit.
ReadNext ==
  /\ loop = "listing" /\ todo # {}
  /\ \E j \in Newest(todo, 1) :
       LET full == Cardinality(listed) + 1 >= ListLimit
       IN IF status[j] = "queued"
          THEN /\ listed' = listed \cup {[job |-> j, attempt |-> attempt[j]]}
               /\ todo' = IF full THEN {} ELSE todo \ {j}
          ELSE todo' = todo \ {j} /\ UNCHANGED listed
  /\ UNCHANGED <<disk, chain, running, run, loop, server>>

\* Mutant: no look at the domains of the running jobs.
EligibleAnyDomain(j) == running[j] = 0

Eligible(j) == running[j] = 0 /\ \A k \in Active : ~Overlap(j, k)
\* A closure nobody refers to any more: its number may be used again.
FreeRuns    == {r \in RunIds : run[r].pc = "free" /\ \A c \in Clients : client[c].run # r}
Claimable   == {e \in listed : Eligible(e.job)}

\* Spawn the child, enter the running map and queue the `running` record.
Launch(e, r) ==
  /\ loop = "listing" /\ todo = {}
  /\ e \in Claimable /\ \A d \in Claimable : e.job <= d.job
  /\ r \in FreeRuns /\ \A q \in FreeRuns : r <= q
  /\ run' = [run EXCEPT ![r] = [NoRun EXCEPT !.job = e.job, !.pc = "spawned", !.watched = TRUE]]
  /\ running' = [running EXCEPT ![e.job] = r]
  /\ Enqueue(e.job, [to |-> "running", attempt |-> e.attempt + 1, by |-> r])
  /\ loop' = IF activeCount + 1 < Concurrency THEN "next" ELSE "asleep"
  /\ listed' = {}
  /\ UNCHANGED <<disk, todo, server>>

ClaimNothing ==
  /\ loop = "listing" /\ todo = {} /\ Claimable = {}
  /\ loop' = "asleep" /\ listed' = {}
  /\ UNCHANGED <<disk, chain, running, run, todo, server>>

-----------------------------------------------------------------------------
(* The child process, its ceilings and its exit *)

\* run-job.mjs reads the record first and dies without it.
ChildBegin(r) ==
  /\ run[r].pc = "spawned" /\ status[run[r].job] # "absent"
  /\ run' = [run EXCEPT ![r].pc = "working"]
  /\ UNCHANGED <<disk, chain, running, loop, todo, listed, server>>

ChildWrite(r) ==   \* mkdir -p of the output tree
  /\ run[r].pc = "working" /\ run[r].job \notin tree
  /\ tree' = tree \cup {run[r].job}
  /\ UNCHANGED <<status, attempt, chain, queue, server>>

\* Mutant: a job over its ceiling gives its slot up at once.
OverrunFreesSlot(r) ==
  /\ Live(r) /\ run[r].watched /\ ~run[r].over
  /\ run' = [run EXCEPT ![r].over = TRUE, ![r].term = TRUE]
  /\ running' = [running EXCEPT ![run[r].job] = 0]
  /\ UNCHANGED <<disk, chain, loop, todo, listed, server>>

\* The wall clock ran out, or the artefacts outgrew their cap: SIGTERM, SIGKILL later.  A
\* measurement that was under way when a DELETE took the ceilings off still counts, and
\* one that comes back to the close handler before it has its outcome decides it.
Overrun(r) ==
  /\ \/ Live(r) /\ ~run[r].over /\ run' = [run EXCEPT ![r].over = TRUE, ![r].term = TRUE]
     \/ run[r].pc \in {"closed", "settling"} /\ run' = [run EXCEPT ![r].outcome = "failed"]
  /\ UNCHANGED <<disk, chain, running, loop, todo, listed, server>>

\* Mutant: the exit code outranks the ceilings.
OutcomesExitFirst(r) ==
  IF run[r].pc = "spawned" THEN {"failed"}
  ELSE {"succeeded", "failed"} \cup (IF run[r].term THEN {"cancelled"} ELSE {})

\* What an exit means: a ceiling that was hit outranks the exit code, and code 3
\* (cooperative abort) needs a SIGTERM that reached a working child.
Outcomes(r) ==
  CASE run[r].over -> {"failed"}
    [] ~run[r].over /\ run[r].pc = "spawned" -> {"failed"}
    [] OTHER -> {"succeeded", "failed"} \cup (IF run[r].term THEN {"cancelled"} ELSE {})

\* Mutant: the outcome is not worked out.
ChildCloseForgetsOutcome(r, outcome) ==
  /\ Live(r) /\ outcome \in Outcomes(r)
  /\ QuickExit \/ ~Pending(run[r].job, r)
  /\ run' = [run EXCEPT ![r] = [NoRun EXCEPT !.job = run[r].job, !.pc = "closed"]]
  /\ running' = [running EXCEPT ![run[r].job] = 0]
  /\ UNCHANGED <<disk, chain, loop, todo, listed, server>>

\* Mutant: the entry of a finished job stays in the running map.
ChildCloseKeepsEntry(r, outcome) ==
  /\ Live(r) /\ outcome \in Outcomes(r)
  /\ QuickExit \/ ~Pending(run[r].job, r)
  /\ run' = [run EXCEPT ![r] = [NoRun EXCEPT !.job = run[r].job, !.pc = "closed", !.outcome = outcome]]
  /\ UNCHANGED <<disk, chain, running, loop, todo, listed, server>>

\* The close event: timers off, out of the running map (by job id), read the record.
ChildClose(r, outcome) ==
  /\ Live(r) /\ outcome \in Outcomes(r)
  /\ QuickExit \/ ~Pending(run[r].job, r)
  /\ run' = [run EXCEPT ![r] = [NoRun EXCEPT !.job = run[r].job, !.pc = "closed", !.outcome = outcome]]
  /\ running' = [running EXCEPT ![run[r].job] = 0]
  /\ UNCHANGED <<disk, chain, loop, todo, listed, server>>

\* Mutant: any record that does not say `running` is taken for settled.
CloseReadRunningOnly(r) ==
  /\ run[r].pc = "closed"
  /\ run' = IF status[run[r].job] # "running"
            THEN [run EXCEPT ![r] = NoRun]
            ELSE [run EXCEPT ![r].pc = "settling"]
  /\ UNCHANGED <<disk, chain, running, loop, todo, listed, server>>

\* The record as the close handler read it: an explicit cancellation stands.
CloseRead(r) ==
  /\ run[r].pc = "closed"
  /\ run' = IF status[run[r].job] = "cancelled"
            THEN [run EXCEPT ![r] = NoRun]
            ELSE [run EXCEPT ![r].pc = "settling"]
  /\ UNCHANGED <<disk, chain, running, loop, todo, listed, server>>

RecordOutcome(r) ==
  /\ run[r].pc = "settling"
  /\ run' = [run EXCEPT ![r].pc = "recording"]
  /\ Enqueue(run[r].job, [to |-> run[r].outcome, attempt |-> 0, by |-> r])
  /\ UNCHANGED <<disk, running, loop, todo, listed, server>>

-----------------------------------------------------------------------------
(* #exclusive(): the change at the head of a record's chain runs alone.  An  *)
(* update of a record that is gone writes nothing.  remove() deletes the     *)
(* record, then the artefacts, as one change in two steps.                   *)

\* The caller that awaited the change is done: a close handler, or a request answered.
Done(op) ==
  /\ run' = IF op.by \in RunIds /\ op.to # "running" THEN [run EXCEPT ![op.by] = NoRun] ELSE run
  /\ client' = IF op.by \in Clients /\ op.to # "cancelled"
               THEN [client EXCEPT ![op.by] = NoClient] ELSE client

ApplyUpdate(j) ==
  /\ chain[j] # <<>>
  /\ LET op == Head(chain[j])
         found == status[j] # "absent"
     IN /\ op.to \notin {"absent", "purge"}
        /\ status' = IF found THEN [status EXCEPT ![j] = op.to] ELSE status
        /\ attempt' = IF found /\ op.attempt # 0 THEN [attempt EXCEPT ![j] = op.attempt] ELSE attempt
        /\ Done(op)
  /\ chain' = [chain EXCEPT ![j] = Tail(@)]
  /\ UNCHANGED <<tree, running, loop, todo, listed, nextJob, posting, gcTodo, mode, boot, restarts>>

\* Mutant: the artefacts go first, the record after them.
RemoveTreeFirst(j) ==
  /\ chain[j] # <<>> /\ Head(chain[j]).to = "absent" /\ j \in tree
  /\ tree' = tree \ {j}
  /\ UNCHANGED <<status, attempt, chain, queue, server>>

RemoveRecord(j) ==
  /\ chain[j] # <<>> /\ Head(chain[j]).to = "absent"
  /\ status' = [status EXCEPT ![j] = "absent"] /\ attempt' = [attempt EXCEPT ![j] = 0]
  /\ chain' = [chain EXCEPT ![j] = <<[Head(@) EXCEPT !.to = "purge"]>> \o Tail(@)]
  /\ UNCHANGED <<tree, queue, server>>

RemoveTree(j) ==
  /\ chain[j] # <<>> /\ Head(chain[j]).to = "purge"
  /\ tree' = tree \ {j}
  /\ Done(Head(chain[j]))
  /\ chain' = [chain EXCEPT ![j] = Tail(@)]
  /\ UNCHANGED <<status, attempt, running, loop, todo, listed, nextJob, posting, gcTodo, mode, boot, restarts>>

\* The write or removal fails: the caller gives up (a log line, or a 500; a sweep
\* ends there).
ApplyFails(j) ==
  /\ FailingWrites /\ chain[j] # <<>>
  /\ LET op == Head(chain[j])
     IN /\ run' = IF op.by \in RunIds /\ op.to # "running" THEN [run EXCEPT ![op.by] = NoRun] ELSE run
        /\ client' = IF op.by \in Clients THEN [client EXCEPT ![op.by] = NoClient] ELSE client
        /\ gcTodo' = IF op.by = 0 THEN {} ELSE gcTodo
  /\ chain' = [chain EXCEPT ![j] = Tail(@)]
  /\ UNCHANGED <<disk, running, loop, todo, listed, nextJob, posting, mode, boot, restarts>>

-----------------------------------------------------------------------------
(* DELETE: deleteJob() of server.mjs and cancel() of queue.mjs *)

DeleteRead(c, j) ==
  /\ Serving /\ client[c].pc = "idle" /\ status[j] # "absent"
  /\ client' = [client EXCEPT ![c] = [job |-> j, pc |-> "read", seen |-> status[j], run |-> 0]]
  /\ UNCHANGED <<disk, chain, queue, nextJob, posting, gcTodo, mode, boot, restarts>>

\* queue.cancel() finds the job running: ceilings off, CANCELLED queued.
Cancel(c) ==
  LET j == client[c].job IN
  /\ client[c].pc = "read" /\ running[j] # 0
  /\ run' = [run EXCEPT ![running[j]].watched = FALSE]
  /\ client' = [client EXCEPT ![c].pc = "cancelling", ![c].run = running[j]]
  /\ Enqueue(j, [to |-> "cancelled", attempt |-> 0, by |-> c])
  /\ UNCHANGED <<disk, running, loop, todo, listed, nextJob, posting, gcTodo, mode, boot, restarts>>

\* Not running here, and not over when the request read it.
CancelQueued(c) ==
  LET j == client[c].job IN
  /\ client[c].pc = "read" /\ running[j] = 0 /\ client[c].seen \notin TERMINAL
  /\ client' = [client EXCEPT ![c].pc = "dropping"]
  /\ Enqueue(j, [to |-> "cancelled", attempt |-> 0, by |-> c])
  /\ UNCHANGED <<disk, queue, nextJob, posting, gcTodo, mode, boot, restarts>>

Remove(c) ==
  /\ client' = [client EXCEPT ![c].pc = "removing", ![c].run = 0]
  /\ Enqueue(client[c].job, [to |-> "absent", attempt |-> 0, by |-> c])
  /\ UNCHANGED <<disk, loop, todo, listed, nextJob, posting, gcTodo, mode, boot, restarts>>

\* cancel() resumes: SIGTERM, out of the running map (by job id), then remove().
CancelResumes(c) ==
  LET j == client[c].job
      r == client[c].run IN
  /\ client[c].pc = "cancelling" /\ ~Pending(j, c)
  /\ run' = IF Live(r) THEN [run EXCEPT ![r].term = TRUE] ELSE run
  /\ running' = [running EXCEPT ![j] = 0]
  /\ Remove(c)

\* deleteJob() goes on to remove() at once, or when the cancellation is written.
DeleteResumes(c) ==
  LET j == client[c].job IN
  /\ \/ client[c].pc = "read" /\ running[j] = 0 /\ client[c].seen \in TERMINAL
     \/ client[c].pc = "dropping" /\ ~Pending(j, c)
  /\ Remove(c)
  /\ UNCHANGED <<running, run>>

-----------------------------------------------------------------------------
(* The collector: a sweep lists the jobs once, and removes those it read as  *)
(* terminal one after the other, waiting for each.                           *)

GcFind(j) ==
  /\ Serving /\ ~GcRemoving /\ status[j] \in TERMINAL /\ Cardinality(gcTodo) < SweepLimit
  /\ gcTodo' = gcTodo \cup {j}
  /\ UNCHANGED <<disk, chain, queue, nextJob, posting, client, mode, boot, restarts>>

GcRemove(j) ==
  /\ j \in gcTodo /\ ~GcRemoving
  /\ gcTodo' = gcTodo \ {j}
  /\ Enqueue(j, [to |-> "absent", attempt |-> 0, by |-> 0])
  /\ UNCHANGED <<disk, queue, nextJob, posting, client, mode, boot, restarts>>

\* Enough space is free again: the rest stays.
GcEnough ==
  /\ gcTodo # {} /\ ~GcRemoving
  /\ gcTodo' = {}
  /\ UNCHANGED <<disk, chain, queue, nextJob, posting, client, mode, boot, restarts>>

-----------------------------------------------------------------------------
(* Process life: graceful stop, crash, and recover() before serving again.   *)
(* The children die with the process (container or control group).           *)

Boot ==
  /\ chain' = [j \in Jobs |-> <<>>]
  /\ running' = [j \in Jobs |-> 0] /\ run' = [r \in RunIds |-> NoRun]
  /\ loop' = "asleep" /\ todo' = {} /\ listed' = {}
  /\ posting' = {} /\ client' = [c \in Clients |-> NoClient] /\ gcTodo' = {}
  /\ mode' = "recovering" /\ boot' = Newest(Present, RecoverLimit)
  /\ UNCHANGED <<disk, nextJob>>

Stop ==   \* SIGTERM: drain() stops the loop; requests are still served
  /\ mode = "up" /\ restarts < MaxRestarts
  /\ mode' = "draining" /\ restarts' = restarts + 1
  /\ run' = [r \in RunIds |-> IF CgroupStop /\ Live(r) THEN [run[r] EXCEPT !.term = TRUE] ELSE run[r]]
  /\ UNCHANGED <<disk, chain, running, loop, todo, listed, nextJob, posting, client, gcTodo, boot>>

Exit == mode = "draining" /\ Boot /\ UNCHANGED restarts   \* nothing running, or 15 s are up

Crash == restarts < MaxRestarts /\ restarts' = restarts + 1 /\ Boot

\* Mutant: a requeued job starts counting its attempts again.
RecoverAfresh(j) ==
  /\ mode = "recovering" /\ j \in Newest(boot, 1)
  /\ boot' = boot \ {j}
  /\ IF status[j] \in InFlight
     THEN /\ status' = [status EXCEPT ![j] = "queued"]
          /\ attempt' = [attempt EXCEPT ![j] = 0]
          /\ tree' = tree \cup {j}
     ELSE UNCHANGED disk
  /\ UNCHANGED <<chain, queue, nextJob, posting, client, gcTodo, mode, restarts>>

Recover(j) ==
  /\ mode = "recovering" /\ j \in Newest(boot, 1)
  /\ boot' = boot \ {j}
  /\ CASE status[j] \notin InFlight -> UNCHANGED <<status, tree>>
       [] status[j] \in InFlight /\ attempt[j] < MaxAttempts ->
            status' = [status EXCEPT ![j] = "queued"] /\ tree' = tree \cup {j}
       [] OTHER -> status' = [status EXCEPT ![j] = "failed"] /\ UNCHANGED tree
  /\ UNCHANGED <<attempt, chain, queue, nextJob, posting, client, gcTodo, mode, restarts>>

Recovered ==
  /\ mode = "recovering" /\ boot = {}
  /\ mode' = "up"
  /\ UNCHANGED <<disk, chain, queue, nextJob, posting, client, gcTodo, boot, restarts>>

-----------------------------------------------------------------------------
LoopStep ==
  \/ Wake \/ ClaimAgain \/ ReadNext \/ ClaimNothing
  \/ \E e \in listed, r \in RunIds : Launch(e, r)
ChildStep(r) ==
  \/ ChildBegin(r) \/ ChildWrite(r) \/ Overrun(r)
  \/ \E outcome \in TERMINAL : ChildClose(r, outcome)
HandlerStep(r) == CloseRead(r) \/ RecordOutcome(r)
StoreStep(j)   == ApplyUpdate(j) \/ RemoveRecord(j) \/ RemoveTree(j)
ClientStep(c)  == Cancel(c) \/ CancelQueued(c) \/ CancelResumes(c) \/ DeleteResumes(c)
GcStep         == GcEnough \/ \E j \in Jobs : GcFind(j) \/ GcRemove(j)
BootStep       == Exit \/ Recovered \/ \E j \in Jobs : Recover(j)

Next ==
  \/ LookUp \/ \E j \in Jobs : Create(j)
  \/ LoopStep
  \/ \E r \in RunIds : ChildStep(r) \/ HandlerStep(r)
  \/ \E j \in Jobs : StoreStep(j) \/ ApplyFails(j)
  \/ \E c \in Clients : ClientStep(c) \/ \E j \in Jobs : DeleteRead(c, j)
  \/ GcStep
  \/ Stop \/ Crash \/ BootStep

Spec == Init /\ [][Next]_vars

\* What the code's scheduling ensures: promises, timers and the poll are served; a
\* child that got SIGTERM is gone after SIGKILL at the latest.  A job need not finish
\* by itself: its wall clock (Overrun) does.
EndStep(r) ==
  \/ run[r].watched /\ Overrun(r)
  \/ HandlerStep(r)
  \/ run[r].term /\ \E outcome \in TERMINAL : ChildClose(r, outcome)

Fairness ==
  /\ WF_vars(\E j \in Jobs : Create(j))
  /\ \A j \in Jobs : WF_vars(StoreStep(j))
  /\ WF_vars(LoopStep)
  /\ \A r \in RunIds : WF_vars(EndStep(r))
  /\ \A c \in Clients : WF_vars(ClientStep(c))
  /\ WF_vars(BootStep)

LiveSpec == Spec /\ Fairness

-----------------------------------------------------------------------------
(* Properties *)

\* README "Concurrency": the running map never holds more than CONCURRENT_JOBS
\* jobs, and no two of them work one domain (claimNext and launch are one
\* callback, so nothing can happen between the check and the entry).
SlotsRespected   == activeCount <= Concurrency
DomainsRespected == \A j, k \in Active : j # k => ~Overlap(j, k)
RunningMapSound  == SlotsRespected /\ DomainsRespected

\* A DELETE is at work on the job, or already removed its record.
DeleteTouched(j) == status[j] = "absent" \/ \E c \in Clients : client[c].job = j

\* The same two limits for the child processes that are really alive, whatever
\* the map says: the map forgets a cancelled child, and nobody else's.
UndeletedChildrenWithinLimits ==
  LET kept == {r \in RunIds : Live(r) /\ ~DeleteTouched(run[r].job)}
  IN /\ Cardinality(kept) <= Concurrency
     /\ \A r, q \in kept : r # q => ~Overlap(run[r].job, run[q].job)

\* store.mjs recover(): "a job stuck in `running` forever is the single most
\* confusing state a polling client can hit".  While the server serves, a
\* `running` record has a child, a close handler or a removal that will end it.
RunningIsTracked ==
  \A j \in Jobs : Serving /\ status[j] = "running" =>
    \/ \E r \in RunIds : run[r].job = j
    \/ \E c \in Clients : client[c].job = j

\* gc.mjs: "a client never sees a job that claims success with nothing behind
\* it": removal, recovery and late children never leave a success without its tree.
SuccessHasTree == \A j \in Jobs : status[j] = "succeeded" => j \in tree

\* README "Dedupe is atomic": identical requests never wait twice.  (A job that has
\* started can be started again from a stale listing, when its spec is free again.)
OneWaitingPerSpec ==
  \A j, k \in {i \in Jobs : status[i] = "queued" /\ attempt[i] = 0} :
    SpecOf[j] = SpecOf[k] => j = k

\* A job becomes `cancelled` only while a DELETE of it is being served: neither a
\* ceiling nor a restart turns into a cancellation.  (The latter not with CgroupStop.)
CancelledOnlyByRequest ==
  [][\A j \in Jobs : status[j] # "cancelled" /\ status'[j] = "cancelled"
                        => \E c \in Clients : client[c].job = j]_vars

\* README "up to two attempts each": no write, however late, takes an attempt back.
AttemptsOnlyGrow ==
  [][\A j \in Jobs : status'[j] # "absent" => attempt'[j] >= attempt[j]]_vars

\* The poll always gets to every job, and every job ends: nothing stays queued or
\* `running` for good, across a restart and whatever is held back meanwhile.
EveryJobEnds == \A j \in Jobs : status[j] \in InFlight ~> status[j] \notin InFlight

\* queue.mjs: "Two jobs never work the same domain at once."
LiveChildrenExclusive ==
  \A r, q \in RunIds :
    Live(r) /\ Live(q) /\ run[r].job # run[q].job => ~Overlap(run[r].job, run[q].job)

-----------------------------------------------------------------------------
(* What the repository says and the code does not do; TLC refutes both, and no run *)
(* lists them. *)

\* store.mjs, of terminal records: "They never change, only disappear."
TerminalNeverChanges ==
  [][\A j \in Jobs : status[j] \in TERMINAL => status'[j] \in {status[j], "absent"}]_vars

\* gc.mjs: "Job records and their artefacts are always removed together": once
\* nobody works on a removed job any more, nothing of it is left.
RemovedTogether ==
  \A j \in Jobs : status[j] = "absent" /\ j \in tree =>
    \/ chain[j] # <<>>
    \/ \E r \in RunIds : run[r].job = j
    \/ \E c \in Clients : client[c].job = j
=============================================================================
