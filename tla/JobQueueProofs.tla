--------------------------- MODULE JobQueueProofs ---------------------------
(***************************************************************************)
(* Theorems about JobQueue for every value of its constants: any number of *)
(* jobs, specs, domains, slots, DELETE requests, failing writes and        *)
(* restarts.                                                               *)
(***************************************************************************)
EXTENDS JobQueue, SequenceTheorems, FiniteSetTheorems, TLAPS

-----------------------------------------------------------------------------
(* The inductive invariant.  TypeOK alone is not inductive: that a started   *)
(* job has an attempt left follows from what the records say of queued jobs, *)
(* and that an outcome is a final status from how far its run has come.      *)

\* A job nobody has created yet, or created but removed, has no attempts.
AbsentIsFresh == \A j \in Jobs : status[j] = "absent" => attempt[j] = 0

\* A submission not yet created has no record.
UnbornIsAbsent ==
  /\ \A j \in posting : j < nextJob /\ status[j] = "absent"
  /\ \A j \in Jobs : j >= nextJob => status[j] = "absent"

\* What is queued may start once more; what has started used an attempt.
QueuedMayStart  == \A j \in Jobs : status[j] = "queued" => attempt[j] < MaxAttempts
RunningHasBegun == \A j \in Jobs : status[j] = "running" => attempt[j] > 0

\* A run in use has its job, and its outcome once the child is gone; a request
\* at work has its job, and the run it cancels.
RunSound ==
  \A r \in RunIds :
    /\ run[r].pc # "free" => run[r].job \in Jobs
    /\ run[r].pc \in {"closed", "settling", "recording"} => run[r].outcome \in TERMINAL
ClientSound ==
  \A c \in Clients :
    /\ client[c].pc # "idle" => client[c].job \in Jobs
    /\ client[c].pc = "cancelling" => client[c].run \in RunIds

IInv ==
  /\ TypeOK
  /\ AbsentIsFresh /\ UnbornIsAbsent
  /\ QueuedMayStart /\ RunningHasBegun
  /\ RunSound /\ ClientSound

LEMMA InitIInv == Init => IInv
  <1> SUFFICES ASSUME Init PROVE IInv
    OBVIOUS
  <1>1. TypeOK
    BY NatAssumption DEF Init, TypeOK, NoRun, NoClient, RunRecord, ClientRecord, Status, InFlight,
       TERMINAL, Jobs, RunIds
  <1>2. AbsentIsFresh /\ UnbornIsAbsent /\ QueuedMayStart /\ RunningHasBegun
    BY DEF Init, AbsentIsFresh, UnbornIsAbsent, QueuedMayStart, RunningHasBegun, Jobs
  <1>3. RunSound /\ ClientSound
    BY DEF Init, RunSound, ClientSound, NoRun, NoClient
  <1> QED
    BY <1>1, <1>2, <1>3 DEF IInv

\* What a change appended to, taken from or put back on a chain leaves there.
LEMMA EnqueueType ==
  ASSUME chain \in [Jobs -> Seq(Change)], NEW j \in Jobs, NEW op \in Change
  PROVE  [chain EXCEPT ![j] = Append(@, op)] \in [Jobs -> Seq(Change)]
  OBVIOUS

LEMMA HeadTailType ==
  ASSUME chain \in [Jobs -> Seq(Change)], NEW j \in Jobs, chain[j] # <<>>
  PROVE  /\ Head(chain[j]) \in Change
         /\ [chain EXCEPT ![j] = Tail(@)] \in [Jobs -> Seq(Change)]
         /\ \A op \in Change : [chain EXCEPT ![j] = <<op>> \o Tail(@)] \in [Jobs -> Seq(Change)]
  OBVIOUS

\* A run or a request that moves on, or whose flags change, is still one.
LEMMA RunMoves ==
  ASSUME run \in [RunIds -> RunRecord], NEW r \in RunIds
  PROVE  /\ [run EXCEPT ![r].term = TRUE] \in [RunIds -> RunRecord]
         /\ [run EXCEPT ![r].watched = FALSE] \in [RunIds -> RunRecord]
         /\ [run EXCEPT ![r].over = TRUE, ![r].term = TRUE] \in [RunIds -> RunRecord]
         /\ [run EXCEPT ![r].pc = "working"] \in [RunIds -> RunRecord]
         /\ [run EXCEPT ![r].pc = "settling"] \in [RunIds -> RunRecord]
         /\ [run EXCEPT ![r].pc = "recording"] \in [RunIds -> RunRecord]
         /\ [run EXCEPT ![r] = NoRun] \in [RunIds -> RunRecord]
         /\ [run EXCEPT ![r].outcome = "failed"] \in [RunIds -> RunRecord]
         /\ [run[r] EXCEPT !.term = TRUE] \in RunRecord
  <1>1. run[r] \in RunRecord /\ NoRun \in RunRecord
    BY DEF RunRecord, NoRun
  <1>2. \A v \in RunRecord : [run EXCEPT ![r] = v] \in [RunIds -> RunRecord]
    OBVIOUS
  <1>3. /\ [run[r] EXCEPT !.term = TRUE] \in RunRecord
        /\ [run[r] EXCEPT !.watched = FALSE] \in RunRecord
        /\ [run[r] EXCEPT !.over = TRUE, !.term = TRUE] \in RunRecord
        /\ [run[r] EXCEPT !.outcome = "failed"] \in RunRecord
        /\ \A p \in {"working", "settling", "recording"} : [run[r] EXCEPT !.pc = p] \in RunRecord
    BY <1>1 DEF RunRecord, TERMINAL
  <1>4. /\ [run EXCEPT ![r].term = TRUE] \in [RunIds -> RunRecord]
        /\ [run EXCEPT ![r].watched = FALSE] \in [RunIds -> RunRecord]
    BY <1>2, <1>3
  <1>5. [run EXCEPT ![r].over = TRUE, ![r].term = TRUE] \in [RunIds -> RunRecord]
    BY <1>2, <1>3
  <1>6. /\ [run EXCEPT ![r].pc = "working"] \in [RunIds -> RunRecord]
        /\ [run EXCEPT ![r].pc = "settling"] \in [RunIds -> RunRecord]
        /\ [run EXCEPT ![r].pc = "recording"] \in [RunIds -> RunRecord]
    BY <1>2, <1>3
  <1>7. [run EXCEPT ![r].outcome = "failed"] \in [RunIds -> RunRecord]
    BY <1>2, <1>3
  <1> QED
    BY <1>1, <1>2, <1>3, <1>4, <1>5, <1>6, <1>7

LEMMA ClientMoves ==
  ASSUME client \in [Clients -> ClientRecord], NEW c \in Clients
  PROVE  /\ [client EXCEPT ![c].pc = "dropping"] \in [Clients -> ClientRecord]
         /\ [client EXCEPT ![c].pc = "removing", ![c].run = 0] \in [Clients -> ClientRecord]
         /\ \A r \in RunIds : [client EXCEPT ![c].pc = "cancelling", ![c].run = r] \in [Clients -> ClientRecord]
         /\ [client EXCEPT ![c] = NoClient] \in [Clients -> ClientRecord]
  <1>1. client[c] \in ClientRecord /\ NoClient \in ClientRecord
    BY DEF ClientRecord, NoClient, Status
  <1>2. \A v \in ClientRecord : [client EXCEPT ![c] = v] \in [Clients -> ClientRecord]
    OBVIOUS
  <1>3. /\ [client[c] EXCEPT !.pc = "dropping"] \in ClientRecord
        /\ [client[c] EXCEPT !.pc = "removing", !.run = 0] \in ClientRecord
        /\ \A r \in RunIds : [client[c] EXCEPT !.pc = "cancelling", !.run = r] \in ClientRecord
    BY <1>1 DEF ClientRecord
  <1>4. [client EXCEPT ![c].pc = "dropping"] \in [Clients -> ClientRecord]
    BY <1>2, <1>3
  <1>5. [client EXCEPT ![c].pc = "removing", ![c].run = 0] \in [Clients -> ClientRecord]
    BY <1>2, <1>3
  <1>6. ASSUME NEW r \in RunIds
        PROVE  [client EXCEPT ![c].pc = "cancelling", ![c].run = r] \in [Clients -> ClientRecord]
    BY <1>2, <1>3
  <1>7. [client EXCEPT ![c] = NoClient] \in [Clients -> ClientRecord]
    BY <1>1, <1>2
  <1> QED
    BY <1>4, <1>5, <1>6, <1>7

\* The values Boot and Init give the closures and requests.
LEMMA BootType == NoRun \in RunRecord /\ NoClient \in ClientRecord /\ \A n : Newest(Present, n) \subseteq Jobs
  BY DEF NoRun, NoClient, RunRecord, ClientRecord, Status, InFlight, TERMINAL, Newest, Present

\* Whoever awaited a change is let go.
LEMMA DoneType ==
  ASSUME TypeOK, NEW op, Done(op)
  PROVE  run' \in [RunIds -> RunRecord] /\ client' \in [Clients -> ClientRecord]
  <1>1. run' \in [RunIds -> RunRecord]
    BY RunMoves DEF TypeOK, Done
  <1>2. client' \in [Clients -> ClientRecord]
    BY ClientMoves DEF TypeOK, Done
  <1> QED
    BY <1>1, <1>2

LEMMA NextTypeOK ==
  ASSUME IInv, [Next]_vars
  PROVE  TypeOK'
  <1>1. CASE LookUp
    BY <1>1, NatAssumption DEF IInv, TypeOK, LookUp, disk, queue, server, Jobs
  <1>2. ASSUME NEW j \in Jobs, Create(j) PROVE TypeOK'
    BY <1>2 DEF IInv, TypeOK, Create, disk, queue, server, Status, InFlight
  <1>3. CASE Wake
    BY <1>3 DEF IInv, TypeOK, Wake, StartListing, disk, queue, server, Present
  <1>4. CASE ClaimAgain
    BY <1>4 DEF IInv, TypeOK, ClaimAgain, StartListing, disk, queue, server, Present
  <1>5. CASE ReadNext
    <2>1. PICK j \in todo : /\ \/ todo' = {} \/ todo' = todo \ {j}
                           /\ \/ listed' = listed
                              \/ /\ status[j] = "queued"
                                 /\ listed' = listed \cup {[job |-> j, attempt |-> attempt[j]]}
      BY <1>5 DEF ReadNext, Newest
    <2>2. status[j] = "queued" => attempt[j] \in 0..(MaxAttempts - 1)
      BY NatAssumption DEF IInv, TypeOK, QueuedMayStart
    <2>3. todo' \in SUBSET Jobs /\ listed' \in SUBSET Entry
      BY <2>1, <2>2 DEF IInv, TypeOK, Entry
    <2> QED
      BY <1>5, <2>3 DEF IInv, TypeOK, ReadNext, disk, server
  <1>6. CASE ClaimNothing
    BY <1>6 DEF IInv, TypeOK, ClaimNothing, disk, queue, server
  <1>7. ASSUME NEW e \in listed, NEW r \in RunIds, Launch(e, r) PROVE TypeOK'
    <2> DEFINE op == [to |-> "running", attempt |-> e.attempt + 1, by |-> r]
    <2>1. e.job \in Jobs /\ op \in Change
      BY NatAssumption DEF IInv, TypeOK, Entry, Change
    <2>2. chain' \in [Jobs -> Seq(Change)]
      BY <1>7, <2>1, EnqueueType DEF IInv, TypeOK, Launch, Enqueue
    <2>3. run' \in [RunIds -> RunRecord] /\ running' \in [Jobs -> RunIds \cup {0}]
      BY <1>7, <2>1 DEF IInv, TypeOK, Launch, NoRun, RunRecord
    <2> QED
      BY <1>7, <2>2, <2>3 DEF IInv, TypeOK, Launch, disk, server
  <1>8. ASSUME NEW r \in RunIds, ChildBegin(r) PROVE TypeOK'
    <2>1. run' \in [RunIds -> RunRecord]
      BY <1>8, RunMoves DEF IInv, TypeOK, ChildBegin
    <2> QED
      BY <1>8, <2>1 DEF IInv, TypeOK, ChildBegin, disk, server
  <1>9. ASSUME NEW r \in RunIds, ChildWrite(r) PROVE TypeOK'
    BY <1>9 DEF IInv, TypeOK, ChildWrite, disk, queue, server, RunRecord, RunSound
  <1>10. ASSUME NEW r \in RunIds, Overrun(r) PROVE TypeOK'
    <2>1. run' \in [RunIds -> RunRecord]
      <3>1. \/ run' = [run EXCEPT ![r].over = TRUE, ![r].term = TRUE]
            \/ run' = [run EXCEPT ![r].outcome = "failed"]
        BY <1>10 DEF Overrun
      <3>2. run \in [RunIds -> RunRecord]
        BY DEF IInv, TypeOK
      <3>3. /\ [run EXCEPT ![r].over = TRUE, ![r].term = TRUE] \in [RunIds -> RunRecord]
            /\ [run EXCEPT ![r].outcome = "failed"] \in [RunIds -> RunRecord]
        BY <3>2, RunMoves
      <3> QED
        BY <3>1, <3>3
    <2> QED
      BY <1>10, <2>1 DEF IInv, TypeOK, Overrun, disk, server
  <1>11. ASSUME NEW r \in RunIds, NEW outcome \in TERMINAL, ChildClose(r, outcome) PROVE TypeOK'
    <2>1. [NoRun EXCEPT !.job = run[r].job, !.pc = "closed", !.outcome = outcome] \in RunRecord
      BY DEF IInv, TypeOK, RunRecord, NoRun
    <2>2. run' \in [RunIds -> RunRecord] /\ running' \in [Jobs -> RunIds \cup {0}]
      BY <1>11, <2>1 DEF IInv, TypeOK, ChildClose
    <2> QED
      BY <1>11, <2>2 DEF IInv, TypeOK, ChildClose, disk, server
  <1>12. ASSUME NEW r \in RunIds, CloseRead(r) PROVE TypeOK'
    <2>1. run' \in [RunIds -> RunRecord]
      BY <1>12, RunMoves DEF IInv, TypeOK, CloseRead
    <2> QED
      BY <1>12, <2>1 DEF IInv, TypeOK, CloseRead, disk, server
  <1>13. ASSUME NEW r \in RunIds, RecordOutcome(r) PROVE TypeOK'
    <2>1. run[r].job \in Jobs /\ [to |-> run[r].outcome, attempt |-> 0, by |-> r] \in Change
      BY <1>13 DEF IInv, RunSound, RecordOutcome, Change
    <2>2. chain' \in [Jobs -> Seq(Change)]
      BY <1>13, <2>1, EnqueueType DEF IInv, TypeOK, RecordOutcome, Enqueue
    <2>3. run' \in [RunIds -> RunRecord]
      BY <1>13, RunMoves DEF IInv, TypeOK, RecordOutcome
    <2> QED
      BY <1>13, <2>2, <2>3 DEF IInv, TypeOK, RecordOutcome, disk, server
  <1>14. ASSUME NEW j \in Jobs, ApplyUpdate(j) PROVE TypeOK'
    <2>1. Head(chain[j]) \in Change /\ chain' \in [Jobs -> Seq(Change)]
      BY <1>14, HeadTailType DEF IInv, TypeOK, ApplyUpdate
    <2>2. run' \in [RunIds -> RunRecord] /\ client' \in [Clients -> ClientRecord]
      BY <1>14, DoneType DEF IInv, TypeOK, ApplyUpdate
    <2>3. /\ Head(chain[j]).to \in Status \cup {"purge"} /\ Head(chain[j]).attempt \in 0..MaxAttempts
      BY <2>1, NatAssumption DEF Change, Status, InFlight
    <2>4. status' \in [Jobs -> Status] /\ attempt' \in [Jobs -> 0..MaxAttempts]
      BY <1>14, <2>3 DEF IInv, TypeOK, ApplyUpdate
    <2> QED
      BY <1>14, <2>1, <2>2, <2>4 DEF IInv, TypeOK, ApplyUpdate
  <1>15. ASSUME NEW j \in Jobs, RemoveRecord(j) PROVE TypeOK'
    <2>1. [Head(chain[j]) EXCEPT !.to = "purge"] \in Change
      <3>1. Head(chain[j]) \in Change /\ Head(chain[j]).to = "absent"
        BY <1>15, HeadTailType DEF IInv, TypeOK, RemoveRecord
      <3> QED
        BY <3>1 DEF Change, TERMINAL
    <2>2. chain' \in [Jobs -> Seq(Change)]
      BY <1>15, <2>1, HeadTailType DEF IInv, TypeOK, RemoveRecord
    <2> QED
      BY <1>15, <2>2, NatAssumption DEF IInv, TypeOK, RemoveRecord, Status, queue, server
  <1>16. ASSUME NEW j \in Jobs, RemoveTree(j) PROVE TypeOK'
    <2>1. Head(chain[j]) \in Change /\ chain' \in [Jobs -> Seq(Change)]
      BY <1>16, HeadTailType DEF IInv, TypeOK, RemoveTree
    <2>2. run' \in [RunIds -> RunRecord] /\ client' \in [Clients -> ClientRecord]
      BY <1>16, DoneType DEF IInv, TypeOK, RemoveTree
    <2> QED
      BY <1>16, <2>1, <2>2 DEF IInv, TypeOK, RemoveTree
  <1>17. ASSUME NEW j \in Jobs, ApplyFails(j) PROVE TypeOK'
    <2>1. chain' \in [Jobs -> Seq(Change)]
      BY <1>17, HeadTailType DEF IInv, TypeOK, ApplyFails
    <2>2. run' \in [RunIds -> RunRecord]
      BY <1>17, RunMoves DEF IInv, TypeOK, ApplyFails
    <2>3. client' \in [Clients -> ClientRecord] /\ gcTodo' \in SUBSET Jobs
      BY <1>17, ClientMoves DEF IInv, TypeOK, ApplyFails
    <2> QED
      BY <1>17, <2>1, <2>2, <2>3 DEF IInv, TypeOK, ApplyFails, disk
  <1>18. ASSUME GcEnough \/ \E j \in Jobs : GcFind(j) PROVE TypeOK'
    BY <1>18 DEF IInv, TypeOK, GcFind, GcEnough, disk, queue, server
  <1>19. ASSUME NEW j \in Jobs, GcRemove(j) PROVE TypeOK'
    BY <1>19, EnqueueType DEF IInv, TypeOK, GcRemove, disk, queue, server, Enqueue, Change, TERMINAL
  <1>20. ASSUME NEW c \in Clients, Cancel(c) PROVE TypeOK'
    <2> DEFINE r == running[client[c].job]
    <2>1. /\ client[c].job \in Jobs /\ [to |-> "cancelled", attempt |-> 0, by |-> c] \in Change
          /\ r \in RunIds
      BY <1>20 DEF IInv, TypeOK, ClientSound, Cancel, Change, TERMINAL
    <2>2. chain' \in [Jobs -> Seq(Change)]
      BY <1>20, <2>1, EnqueueType DEF IInv, TypeOK, Cancel, Enqueue
    <2>3. client' \in [Clients -> ClientRecord]
      <3>1. client' = [client EXCEPT ![c].pc = "cancelling", ![c].run = r]
        BY <1>20 DEF Cancel
      <3> QED
        BY <2>1, <3>1, ClientMoves DEF IInv, TypeOK
    <2>4. run' \in [RunIds -> RunRecord]
      <3>1. run' = [run EXCEPT ![r].watched = FALSE]
        BY <1>20 DEF Cancel
      <3> QED
        BY <2>1, <3>1, RunMoves DEF IInv, TypeOK
    <2> QED
      BY <1>20, <2>2, <2>3, <2>4 DEF IInv, TypeOK, Cancel, disk
  <1>21. ASSUME NEW c \in Clients, CancelQueued(c) PROVE TypeOK'
    <2>1. client[c].job \in Jobs /\ [to |-> "cancelled", attempt |-> 0, by |-> c] \in Change
      BY <1>21 DEF IInv, ClientSound, CancelQueued, Change, TERMINAL
    <2>2. chain' \in [Jobs -> Seq(Change)]
      BY <1>21, <2>1, EnqueueType DEF IInv, TypeOK, CancelQueued, Enqueue
    <2>3. client' \in [Clients -> ClientRecord]
      <3>1. client' = [client EXCEPT ![c].pc = "dropping"]
        BY <1>21 DEF CancelQueued
      <3> QED
        BY <3>1, ClientMoves DEF IInv, TypeOK
    <2> QED
      BY <1>21, <2>2, <2>3 DEF IInv, TypeOK, CancelQueued, disk, queue
  <1>22. ASSUME NEW c \in Clients, CancelResumes(c) PROVE TypeOK'
    <2>1. client[c].job \in Jobs /\ [to |-> "absent", attempt |-> 0, by |-> c] \in Change
      BY <1>22 DEF IInv, ClientSound, CancelResumes, Change, TERMINAL
    <2>2. chain' \in [Jobs -> Seq(Change)]
      BY <1>22, <2>1, EnqueueType DEF IInv, TypeOK, CancelResumes, Enqueue, Remove
    <2>3. client' \in [Clients -> ClientRecord]
      <3>1. client' = [client EXCEPT ![c].pc = "removing", ![c].run = 0]
        BY <1>22 DEF CancelResumes, Remove
      <3> QED
        BY <3>1, ClientMoves DEF IInv, TypeOK
    <2>4. client[c].run \in RunIds
      BY <1>22 DEF IInv, ClientSound, CancelResumes
    <2>5. run' \in [RunIds -> RunRecord]
      <3>1. PICK r \in RunIds : run' = run \/ run' = [run EXCEPT ![r].term = TRUE]
        BY <1>22, <2>4 DEF CancelResumes
      <3>2. run \in [RunIds -> RunRecord]
        BY DEF IInv, TypeOK
      <3>3. [run EXCEPT ![r].term = TRUE] \in [RunIds -> RunRecord]
        BY <3>2, RunMoves
      <3> QED
        BY <3>1, <3>2, <3>3
    <2>6. running' \in [Jobs -> RunIds \cup {0}]
      BY <1>22, <2>1 DEF IInv, TypeOK, CancelResumes
    <2> QED
      BY <1>22, <2>2, <2>3, <2>5, <2>6 DEF IInv, TypeOK, CancelResumes, Remove, disk
  <1>23. ASSUME NEW c \in Clients, DeleteResumes(c) PROVE TypeOK'
    <2>1. client[c].job \in Jobs /\ [to |-> "absent", attempt |-> 0, by |-> c] \in Change
      BY <1>23 DEF IInv, ClientSound, DeleteResumes, Change, TERMINAL
    <2>2. chain' \in [Jobs -> Seq(Change)]
      BY <1>23, <2>1, EnqueueType DEF IInv, TypeOK, DeleteResumes, Enqueue, Remove
    <2>3. client' \in [Clients -> ClientRecord]
      <3>1. client' = [client EXCEPT ![c].pc = "removing", ![c].run = 0]
        BY <1>23 DEF DeleteResumes, Remove
      <3> QED
        BY <3>1, ClientMoves DEF IInv, TypeOK
    <2> QED
      BY <1>23, <2>2, <2>3 DEF IInv, TypeOK, DeleteResumes, Remove, disk
  <1>24. ASSUME NEW c \in Clients, NEW j \in Jobs, DeleteRead(c, j) PROVE TypeOK'
    BY <1>24 DEF IInv, TypeOK, DeleteRead, disk, queue, server, ClientRecord
  <1>25. CASE Stop
    <2>1. run' \in [RunIds -> RunRecord]
      <3>1. \A r \in RunIds : [run[r] EXCEPT !.term = TRUE] \in RunRecord
        BY RunMoves DEF IInv, TypeOK
      <3> QED
        BY <1>25, <3>1 DEF IInv, TypeOK, Stop
    <2>2. /\ restarts < MaxRestarts /\ mode' = "draining" /\ restarts' = restarts + 1
          /\ UNCHANGED <<disk, chain, running, loop, todo, listed, nextJob, posting, client, gcTodo, boot>>
      BY <1>25 DEF Stop
    <2> QED
      BY <2>1, <2>2, NatAssumption DEF IInv, TypeOK, disk
  <1>26. CASE Crash
    BY <1>26, BootType, NatAssumption DEF IInv, TypeOK, Crash, Boot, disk
  <1>27. CASE Exit
    BY <1>27, BootType DEF IInv, TypeOK, Exit, Boot, disk
  <1>28. CASE Recovered
    BY <1>28 DEF IInv, TypeOK, Recovered, disk, queue, server
  <1>29. ASSUME NEW j \in Jobs, Recover(j) PROVE TypeOK'
    BY <1>29 DEF IInv, TypeOK, Recover, disk, queue, server, Status, InFlight, TERMINAL, Newest
  <1>30. CASE UNCHANGED vars
    BY <1>30 DEF IInv, TypeOK, vars, disk, queue, server
  <1> QED
    BY <1>1, <1>2, <1>3, <1>4, <1>5, <1>6, <1>7, <1>8, <1>9, <1>10, <1>11, <1>12, <1>13, <1>14, <1>15, <1>16, <1>17, <1>18, <1>19, <1>20, <1>21, <1>22, <1>23, <1>24, <1>25, <1>26, <1>27, <1>28, <1>29, <1>30
       DEF Next, LoopStep, ChildStep, HandlerStep, StoreStep, ClientStep, GcStep, BootStep

\* What every record promises, in one formula.
Records == AbsentIsFresh /\ UnbornIsAbsent /\ QueuedMayStart /\ RunningHasBegun

\* Most actions leave the records and the submissions alone.
LEMMA RecordsTouched ==
  ASSUME [Next]_vars
  PROVE  \/ LookUp \/ Crash \/ Exit
         \/ \E j \in Jobs : Create(j) \/ ApplyUpdate(j) \/ RemoveRecord(j) \/ Recover(j)
         \/ UNCHANGED <<status, attempt, nextJob, posting>>
  BY ZenonT(60) DEF Next, vars, disk, queue, server, LoopStep, ChildStep, HandlerStep, StoreStep, ClientStep,
     BootStep, Wake, ClaimAgain, StartListing, ReadNext, ClaimNothing, Launch, ChildBegin, ChildWrite,
     Overrun, ChildClose, CloseRead, RecordOutcome, RemoveTree, ApplyFails, GcStep, GcFind, GcRemove, GcEnough, Cancel,
     CancelQueued, CancelResumes, DeleteResumes, Remove, DeleteRead, Stop, Recovered

LEMMA NextRecords ==
  ASSUME IInv, [Next]_vars
  PROVE  Records'
  <1> USE NatAssumption DEF Records, AbsentIsFresh, UnbornIsAbsent, QueuedMayStart, RunningHasBegun
  <1>1. CASE LookUp
    BY <1>1 DEF IInv, TypeOK, LookUp, disk, Jobs
  <1>2. CASE Crash \/ Exit
    BY <1>2 DEF IInv, TypeOK, Crash, Exit, Boot, disk
  <1>3. ASSUME NEW j \in Jobs, Create(j) PROVE Records'
    <2>1. /\ status' = [status EXCEPT ![j] = "queued"] \/ status' = status
          /\ j \in posting /\ posting' = posting \ {j} /\ nextJob' = nextJob /\ attempt' = attempt
      BY <1>3 DEF Create
    <2>2. CASE status' = [status EXCEPT ![j] = "queued"]
      BY <2>1, <2>2 DEF IInv, TypeOK, Jobs
    <2>3. CASE status' = status
      BY <2>1, <2>3 DEF IInv
    <2> QED
      BY <2>1, <2>2, <2>3
  <1>4. ASSUME NEW j \in Jobs, ApplyUpdate(j) PROVE Records'
    <2> DEFINE op == Head(chain[j])
    <2>1. \/ op.to = "running" /\ op.attempt \in 1..MaxAttempts
          \/ op.to \in TERMINAL /\ op.attempt = 0
      BY <1>4, HeadTailType DEF IInv, TypeOK, ApplyUpdate, Change
    <2>2. \/ status' = status /\ attempt' = attempt
          \/ /\ status[j] # "absent" /\ status' = [status EXCEPT ![j] = op.to]
             /\ attempt' = IF op.attempt # 0 THEN [attempt EXCEPT ![j] = op.attempt] ELSE attempt
      BY <1>4 DEF ApplyUpdate
    <2>3. nextJob' = nextJob /\ posting' = posting
      BY <1>4 DEF ApplyUpdate
    <2>4. CASE status' = status /\ attempt' = attempt
      BY <2>3, <2>4 DEF IInv
    <2>5. CASE /\ status[j] # "absent" /\ status' = [status EXCEPT ![j] = op.to]
               /\ op.to = "running" /\ attempt' = [attempt EXCEPT ![j] = op.attempt]
               /\ op.attempt \in 1..MaxAttempts
      <3> status \in [Jobs -> Status] /\ attempt \in [Jobs -> 0..MaxAttempts]
        BY DEF IInv, TypeOK
      <3>1. /\ \A k \in Jobs : k # j => status'[k] = status[k] /\ attempt'[k] = attempt[k]
            /\ status'[j] = "running" /\ attempt'[j] > 0
        BY <2>5
      <3>2. AbsentIsFresh' /\ QueuedMayStart' /\ RunningHasBegun'
        BY <3>1 DEF IInv
      <3>3. UnbornIsAbsent'
        BY <2>3, <2>5, <3>1 DEF IInv, TypeOK, Jobs
      <3> QED
        BY <3>2, <3>3
    <2>6. CASE /\ status[j] # "absent" /\ status' = [status EXCEPT ![j] = op.to]
               /\ op.to \in TERMINAL /\ attempt' = attempt
      BY <2>3, <2>6 DEF IInv, TypeOK, TERMINAL, Jobs
    <2> QED
      BY <2>1, <2>2, <2>4, <2>5, <2>6
  <1>5. ASSUME NEW j \in Jobs, RemoveRecord(j) PROVE Records'
    BY <1>5 DEF IInv, TypeOK, RemoveRecord, server, Jobs
  <1>6. ASSUME NEW j \in Jobs, Recover(j) PROVE Records'
    BY <1>6 DEF IInv, TypeOK, Recover, InFlight, Jobs
  <1>7. CASE UNCHANGED <<status, attempt, nextJob, posting>>
    BY <1>7 DEF IInv
  <1> QED
    BY <1>1, <1>2, <1>3, <1>4, <1>5, <1>6, <1>7, RecordsTouched

\* Most actions leave the runs and the requests alone.
LEMMA RunsTouched ==
  ASSUME [Next]_vars
  PROVE  \/ \E e \in listed, r \in RunIds : Launch(e, r)
         \/ \E r \in RunIds : \/ ChildBegin(r) \/ Overrun(r) \/ CloseRead(r) \/ RecordOutcome(r)
                             \/ \E outcome \in TERMINAL : ChildClose(r, outcome)
         \/ \E j \in Jobs : ApplyUpdate(j) \/ RemoveTree(j) \/ ApplyFails(j)
         \/ \E c \in Clients : \/ Cancel(c) \/ CancelQueued(c) \/ CancelResumes(c) \/ DeleteResumes(c)
                              \/ \E j \in Jobs : DeleteRead(c, j)
         \/ Stop \/ Crash \/ Exit
         \/ UNCHANGED <<run, client>>
  BY DEF Next, vars, disk, queue, server, LoopStep, ChildStep, HandlerStep, StoreStep, ClientStep,
     BootStep, LookUp, Create, Wake, ClaimAgain, StartListing, ReadNext, ClaimNothing, ChildWrite,
     RemoveRecord, GcStep, GcFind, GcRemove, GcEnough, Recovered, Recover

LEMMA NextSound ==
  ASSUME IInv, [Next]_vars
  PROVE  RunSound' /\ ClientSound'
  <1> USE DEF RunSound, ClientSound
  <1> run \in [RunIds -> RunRecord] /\ client \in [Clients -> ClientRecord]
    BY DEF IInv, TypeOK
  <1>1. ASSUME NEW e \in listed, NEW r \in RunIds, Launch(e, r) PROVE RunSound' /\ ClientSound'
    BY <1>1 DEF IInv, TypeOK, Launch, Entry, NoRun, server
  <1>2. ASSUME NEW r \in RunIds, ChildBegin(r) \/ Overrun(r) PROVE RunSound' /\ ClientSound'
    <2>1. client' = client
      BY <1>2 DEF ChildBegin, Overrun, server
    <2>2. /\ \A q \in RunIds : q # r => run'[q] = run[q]
          /\ run'[r].job = run[r].job /\ run[r].pc # "free"
          /\ \/ run'[r].pc \in {"spawned", "working"}
             \/ run'[r].pc = run[r].pc /\ run'[r].outcome = "failed"
      BY <1>2 DEF ChildBegin, Overrun, RunRecord, Live
    <2> QED
      BY <2>1, <2>2 DEF IInv, TERMINAL
  <1>3. ASSUME NEW r \in RunIds, CloseRead(r) \/ RecordOutcome(r) PROVE RunSound' /\ ClientSound'
    BY <1>3 DEF IInv, CloseRead, RecordOutcome, RunRecord, NoRun, server
  <1>4. ASSUME NEW r \in RunIds, NEW outcome \in TERMINAL, ChildClose(r, outcome)
        PROVE RunSound' /\ ClientSound'
    BY <1>4 DEF IInv, ChildClose, NoRun, Live, server
  <1>5. ASSUME NEW j \in Jobs, ApplyUpdate(j) \/ RemoveTree(j) \/ ApplyFails(j)
        PROVE RunSound' /\ ClientSound'
    <2>1. /\ \A r \in RunIds : run'[r] = run[r] \/ run'[r] = NoRun
          /\ \A c \in Clients : client'[c] = client[c] \/ client'[c] = NoClient
      BY <1>5 DEF ApplyUpdate, RemoveTree, ApplyFails, Done
    <2> QED
      BY <2>1 DEF IInv, NoRun, NoClient
  <1>6. ASSUME NEW c \in Clients, Cancel(c) \/ CancelQueued(c) \/ CancelResumes(c) \/ DeleteResumes(c)
        PROVE RunSound' /\ ClientSound'
    <2>1. \A r \in RunIds : run'[r].pc = run[r].pc /\ run'[r].job = run[r].job /\ run'[r].outcome = run[r].outcome
      BY <1>6 DEF Cancel, CancelQueued, CancelResumes, DeleteResumes, Remove, RunRecord, queue
    <2>2. RunSound'
      BY <2>1 DEF IInv
    <2>3. client[c].pc # "idle"
      BY <1>6 DEF Cancel, CancelQueued, CancelResumes, DeleteResumes
    <2>4. CASE Cancel(c)
      <3>1. client[c].job \in Jobs
        BY <2>3 DEF IInv
      <3>2. running[client[c].job] \in RunIds
        BY <3>1, <2>4 DEF IInv, TypeOK, Cancel
      <3>3. client \in [Clients -> ClientRecord]
        BY DEF IInv, TypeOK
      <3>4. client' = [client EXCEPT ![c] = [client[c] EXCEPT !.pc = "cancelling", !.run = running[client[c].job]]]
        BY <2>4 DEF Cancel
      <3>5. /\ client'[c].job = client[c].job /\ client'[c].run = running[client[c].job]
            /\ client'[c].pc = "cancelling"
            /\ \A d \in Clients : d # c => client'[d] = client[d]
        BY <3>3, <3>4 DEF ClientRecord
      <3> QED
        BY <2>2, <3>1, <3>2, <3>5 DEF IInv
    <2>5. CASE CancelQueued(c)
      BY <2>2, <2>3, <2>5 DEF IInv, CancelQueued, ClientRecord
    <2>6. CASE CancelResumes(c) \/ DeleteResumes(c)
      BY <2>2, <2>3, <2>6 DEF IInv, CancelResumes, DeleteResumes, Remove, ClientRecord
    <2> QED
      BY <1>6, <2>4, <2>5, <2>6
  <1>7. ASSUME NEW c \in Clients, NEW j \in Jobs, DeleteRead(c, j) PROVE RunSound' /\ ClientSound'
    BY <1>7 DEF IInv, DeleteRead, queue
  <1>8. CASE Stop
    BY <1>8 DEF IInv, Stop, RunRecord
  <1>9. CASE Crash \/ Exit
    BY <1>9 DEF Crash, Exit, Boot, NoRun, NoClient
  <1>10. CASE UNCHANGED <<run, client>>
    BY <1>10 DEF IInv
  <1> QED
    BY <1>1, <1>2, <1>3, <1>4, <1>5, <1>6, <1>7, <1>8, <1>9, <1>10, RunsTouched

\* The inductive invariant holds in every reachable state.
THEOREM Invariant == Spec => []IInv
  <1>1. IInv /\ [Next]_vars => IInv'
    BY NextTypeOK, NextRecords, NextSound DEF IInv, Records
  <1> QED
    BY InitIInv, <1>1, PTL DEF Spec

\* Every variable keeps its type: no callback reads or writes a record, a run or a
\* request that is not there, and no attempt goes beyond MaxAttempts.
THEOREM TypeCorrect == Spec => []TypeOK
  BY Invariant, PTL DEF IInv

-----------------------------------------------------------------------------
(* The running map.  The check for a free slot and for free domains and the  *)
(* entry into the map happen in one callback, but the slot was counted when  *)
(* the listing began; LoopHasRoom carries it over the awaits in between: only *)
(* the loop adds to the map.                                                 *)

LoopHasRoom == loop # "asleep" => activeCount < Concurrency

MapInv == IInv /\ LoopHasRoom /\ RunningMapSound

LEMMA ActiveFinite ==
  ASSUME NEW S \in SUBSET Jobs
  PROVE  IsFiniteSet(S) /\ Cardinality(S) \in Nat
  <1>1. IsFiniteSet(Jobs)
    BY FS_Interval, NatAssumption DEF Jobs
  <1>2. IsFiniteSet(S)
    BY <1>1, FS_Subset
  <1> QED
    BY <1>2, FS_CardinalityType

\* Nothing but Launch adds to the running map, and the loop wakes with room only.
LEMMA MapTouched ==
  ASSUME TypeOK, [Next]_vars
  PROVE  \/ \E e \in listed, r \in RunIds : Launch(e, r)
         \/ /\ \A j \in Jobs : running'[j] \in {running[j], 0}
            /\ loop' # "asleep" => loop # "asleep" \/ activeCount < Concurrency
  <1> running \in [Jobs -> RunIds \cup {0}]
    BY DEF TypeOK
  <1> QED
    BY ZenonT(60) DEF Next, vars, disk, queue, server, LoopStep, ChildStep, HandlerStep, StoreStep, ClientStep,
       BootStep, LookUp, Create, Wake, ClaimAgain, StartListing, ReadNext, ClaimNothing, ChildBegin,
       ChildWrite, Overrun, ChildClose, CloseRead, RecordOutcome, ApplyUpdate, RemoveRecord, RemoveTree,
       ApplyFails, Done, GcStep, GcFind, GcRemove, GcEnough, Cancel, CancelQueued, CancelResumes, DeleteResumes, Remove,
       DeleteRead, Stop, Crash, Exit, Boot, Recovered, Recover

LEMMA InitMap == Init => MapInv
  <1> SUFFICES ASSUME Init PROVE LoopHasRoom /\ RunningMapSound
    BY InitIInv DEF MapInv
  <1>1. Active = {}
    BY DEF Init, Active
  <1> QED
    BY <1>1, FS_EmptySet, NatAssumption
       DEF Init, LoopHasRoom, RunningMapSound, SlotsRespected, DomainsRespected, activeCount

LEMMA NextMap ==
  ASSUME MapInv, [Next]_vars
  PROVE  LoopHasRoom' /\ RunningMapSound'
  <1> USE DEF MapInv, RunningMapSound, SlotsRespected, LoopHasRoom, activeCount
  <1>1. Active \subseteq Jobs /\ Active' \subseteq Jobs
    BY DEF Active
  <1>2. ASSUME NEW e \in listed, NEW r \in RunIds, Launch(e, r)
        PROVE  LoopHasRoom' /\ RunningMapSound'
    <2>1. e.job \in Jobs /\ running \in [Jobs -> RunIds \cup {0}] /\ r # 0
      BY NatAssumption DEF IInv, TypeOK, Entry, RunIds
    <2>2. running[e.job] = 0 /\ \A k \in Active : ~Overlap(e.job, k)
      BY <1>2 DEF Launch, Claimable, Eligible
    <2>3. Active' = Active \cup {e.job} /\ e.job \notin Active
      BY <1>2, <2>1, <2>2 DEF Launch, Active
    <2>4. Cardinality(Active') = Cardinality(Active) + 1
      BY <1>1, <2>3, ActiveFinite, FS_AddElement
    <2>5. activeCount < Concurrency /\ (loop' # "asleep" => activeCount + 1 < Concurrency)
      BY <1>2 DEF Launch
    <2>6. DomainsRespected'
      BY <1>1, <2>2, <2>3 DEF DomainsRespected, Overlap, jobDomains
    <2> QED
      BY <1>1, <2>4, <2>5, <2>6, ActiveFinite, NatAssumption
  <1>3. ASSUME \A j \in Jobs : running'[j] \in {running[j], 0},
               loop' # "asleep" => loop # "asleep" \/ activeCount < Concurrency
        PROVE  LoopHasRoom' /\ RunningMapSound'
    <2>1. Active' \subseteq Active
      BY <1>3 DEF Active
    <2>2. Cardinality(Active') <= Cardinality(Active)
      BY <1>1, <2>1, ActiveFinite, FS_Subset
    <2>3. DomainsRespected'
      BY <2>1 DEF DomainsRespected, Overlap, jobDomains
    <2> QED
      BY <1>1, <1>3, <2>2, <2>3, ActiveFinite, NatAssumption
  <1> QED
    BY <1>2, <1>3, MapTouched DEF IInv

\* README "Concurrency": however submissions, launches, exits, deletions and restarts
\* interleave, the running map holds at most CONCURRENT_JOBS jobs, no two of one domain.
THEOREM RunningMapSafe == Spec => []RunningMapSound
  <1>1. MapInv /\ [Next]_vars => MapInv'
    BY NextTypeOK, NextRecords, NextSound, NextMap DEF MapInv, IInv, Records
  <1> QED
    BY InitMap, <1>1, PTL DEF Spec, MapInv

-----------------------------------------------------------------------------
(* Dedupe.  Between a look-up and its create there is at most one submission *)
(* and nothing of its spec waits; this needs the look-up to see every job.   *)

Waits(j) == status[j] = "queued" /\ attempt[j] = 0

PostingAlone ==
  /\ \A m, n \in posting : m = n
  /\ \A n \in posting : \A j \in Jobs : Waits(j) => SpecOf[j] # SpecOf[n]

WaitInv == IInv /\ PostingAlone /\ OneWaitingPerSpec

LEMMA NewestIsAll ==
  ASSUME NEW S \in SUBSET Jobs, NEW n \in Int, n >= MaxJobs
  PROVE  Newest(S, n) = S
  <1> SUFFICES ASSUME NEW j \in S PROVE Cardinality({k \in S : k > j}) < n
    BY DEF Newest
  <1> DEFINE T == {k \in S : k > j}
  <1>1. IsFiniteSet(Jobs) /\ Cardinality(Jobs) <= MaxJobs
    BY FS_Interval, NatAssumption DEF Jobs
  <1>2. IsFiniteSet(Jobs \ {j}) /\ Cardinality(Jobs \ {j}) = Cardinality(Jobs) - 1
    BY <1>1, FS_RemoveElement
  <1>3. T \in SUBSET (Jobs \ {j})
    <2>1. S \subseteq Jobs /\ \A k \in Jobs : k \in Int
      BY NatAssumption DEF Jobs
    <2>2. \A k \in T : k \in Jobs /\ k # j
      BY <2>1
    <2> QED
      BY <2>2
  <1>4. IsFiniteSet(T) /\ Cardinality(T) <= Cardinality(Jobs \ {j})
    BY <1>2, <1>3, FS_Subset
  <1> QED
    BY <1>1, <1>2, <1>4, FS_CardinalityType, NatAssumption

LEMMA InitWait == Init => WaitInv
  BY InitIInv DEF Init, WaitInv, PostingAlone, OneWaitingPerSpec, Waits

LEMMA NextWait ==
  ASSUME WaitInv, [Next]_vars, DedupeLimit >= MaxJobs
  PROVE  PostingAlone' /\ OneWaitingPerSpec'
  <1> USE DEF PostingAlone, OneWaitingPerSpec
  <1>1. CASE LookUp
    <2>1. nextJob \in Jobs
      BY <1>1, NatAssumption DEF WaitInv, IInv, TypeOK, LookUp, Jobs
    <2>2. \A j \in Jobs : Waits(j) => SpecOf[j] # SpecOf[nextJob]
      <3>1. Newest(Present, DedupeLimit) = Present
        BY NewestIsAll, NatAssumption DEF Present
      <3> QED
        BY <1>1, <3>1 DEF LookUp, findDuplicate, Present, Waits, InFlight
    <2> QED
      BY <1>1, <2>1, <2>2 DEF WaitInv, LookUp, disk, Waits
  <1>2. ASSUME NEW n \in Jobs, Create(n) PROVE PostingAlone' /\ OneWaitingPerSpec'
    <2>1. \A j \in Jobs : j # n => (Waits(j)' <=> Waits(j))
      BY <1>2 DEF WaitInv, IInv, TypeOK, Create, Waits
    <2>2. n \in posting /\ posting' = {}
      BY <1>2 DEF WaitInv, Create
    <2>3. \A j \in Jobs : j # n /\ Waits(j)' => SpecOf[j] # SpecOf[n]
      BY <2>1, <2>2 DEF WaitInv
    <2> QED
      BY <2>1, <2>2, <2>3 DEF WaitInv, Waits
  <1>3. ASSUME \A j \in Jobs : Waits(j)' => Waits(j), posting' \subseteq posting
        PROVE  PostingAlone' /\ OneWaitingPerSpec'
    BY <1>3 DEF WaitInv, Waits
  <1>4. CASE Crash \/ Exit
    BY <1>3, <1>4 DEF Crash, Exit, Boot, disk, Waits
  <1>5. ASSUME NEW j \in Jobs, ApplyUpdate(j) PROVE PostingAlone' /\ OneWaitingPerSpec'
    <2>1. Head(chain[j]) \in Change
      BY <1>5, HeadTailType DEF WaitInv, IInv, TypeOK, ApplyUpdate
    <2>2. Head(chain[j]).to # "queued" /\ status \in [Jobs -> Status] /\ attempt \in [Jobs -> 0..MaxAttempts]
      BY <2>1 DEF Change, TERMINAL, WaitInv, IInv, TypeOK
    <2>3. \A k \in Jobs : Waits(k)' => Waits(k)
      BY <1>5, <2>2 DEF ApplyUpdate, Waits
    <2> QED
      BY <1>3, <1>5, <2>3 DEF ApplyUpdate
  <1>6. ASSUME NEW j \in Jobs, RemoveRecord(j) PROVE PostingAlone' /\ OneWaitingPerSpec'
    BY <1>3, <1>6 DEF WaitInv, IInv, TypeOK, RemoveRecord, server, Waits
  <1>7. ASSUME NEW j \in Jobs, Recover(j) PROVE PostingAlone' /\ OneWaitingPerSpec'
    BY <1>3, <1>7 DEF WaitInv, IInv, TypeOK, Recover, RunningHasBegun, InFlight, Waits
  <1>8. CASE UNCHANGED <<status, attempt, nextJob, posting>>
    BY <1>3, <1>8 DEF Waits
  <1> QED
    BY <1>1, <1>2, <1>4, <1>5, <1>6, <1>7, <1>8, RecordsTouched

\* README "Dedupe is atomic", as long as there are no more jobs than findDuplicate
\* looks at: two identical requests never both wait for their first start.
THEOREM DedupeAtomic == DedupeLimit >= MaxJobs /\ Spec => []OneWaitingPerSpec
  <1> SUFFICES ASSUME DedupeLimit >= MaxJobs PROVE Spec => []OneWaitingPerSpec
    OBVIOUS
  <1>1. WaitInv /\ [Next]_vars => WaitInv'
    BY NextTypeOK, NextRecords, NextSound, NextWait DEF WaitInv, IInv, Records
  <1> QED
    BY InitWait, <1>1, PTL DEF Spec, WaitInv

-----------------------------------------------------------------------------
(* Attempts.  A listing may be stale and its launch write an old attempt     *)
(* late; what saves the record is that whatever was listed or is about to be *)
(* written for a job in one boot carries the same number.                    *)

\* An attempt some listing or pending change would still write for the job.
Owes(j, v) ==
  \/ \E e \in listed : e.job = j /\ v = e.attempt + 1
  \/ \E i \in 1..Len(chain[j]) : chain[j][i].to = "running" /\ v = chain[j][i].attempt

AttemptSound ==
  /\ \A j \in Jobs : \A v, w \in Int : Owes(j, v) /\ Owes(j, w) => v = w
  /\ \A j \in Jobs : \A v \in Int : Owes(j, v) /\ status[j] = "queued" => v = attempt[j] + 1
  /\ \A j \in Jobs : \A v \in Int : Owes(j, v) /\ status[j] # "absent" => attempt[j] <= v
  /\ \A j \in Jobs : \A v \in Int : Owes(j, v) => j < nextJob /\ j \notin posting
  /\ mode = "recovering" => loop = "asleep" /\ \A j \in Jobs : \A v \in Int : ~Owes(j, v)

AttInv == IInv /\ AttemptSound

LEMMA AppendOwes ==
  ASSUME NEW s \in Seq(Change), NEW op \in Change, NEW i \in 1..Len(Append(s, op))
  PROVE  (i \in 1..Len(s) /\ Append(s, op)[i] = s[i]) \/ Append(s, op)[i] = op
  OBVIOUS

LEMMA TailOwes ==
  ASSUME NEW s \in Seq(Change), s # <<>>, NEW i \in 1..Len(Tail(s))
  PROVE  i + 1 \in 1..Len(s) /\ Tail(s)[i] = s[i + 1]
  OBVIOUS

LEMMA RewriteOwes ==
  ASSUME NEW s \in Seq(Change), s # <<>>, NEW op \in Change, NEW i \in 1..Len(<<op>> \o Tail(s))
  PROVE  \/ (<<op>> \o Tail(s))[i] = op
         \/ i \in 1..Len(s) /\ (<<op>> \o Tail(s))[i] = s[i]
  OBVIOUS

\* What adds to a chain or a listing.
LEMMA OwesTouched ==
  ASSUME [Next]_vars
  PROVE  \/ ReadNext
         \/ \E e \in listed, r \in RunIds : Launch(e, r)
         \/ \E r \in RunIds : RecordOutcome(r)
         \/ (\E j \in Jobs : GcRemove(j)) \/ \E c \in Clients : ClientStep(c)
         \/ \E j \in Jobs : ApplyUpdate(j) \/ RemoveTree(j) \/ ApplyFails(j) \/ RemoveRecord(j)
         \/ Crash \/ Exit
         \/ chain' = chain /\ listed' \subseteq listed
  BY DEF Next, vars, disk, queue, server, LoopStep, ChildStep, HandlerStep, StoreStep,
     BootStep, LookUp, Create, Wake, ClaimAgain, StartListing, ClaimNothing, ChildBegin,
     ChildWrite, Overrun, ChildClose, CloseRead, GcStep, GcFind, GcEnough, DeleteRead, Stop, Recovered, Recover

\* Only reading a queued record adds to what is owed.
LEMMA OwesShrinks ==
  ASSUME IInv, [Next]_vars, NEW j \in Jobs, NEW v \in Int, Owes(j, v)'
  PROVE  Owes(j, v) \/ (ReadNext /\ status[j] = "queued" /\ v = attempt[j] + 1)
  <1> USE DEF Owes
  <1>a. chain \in [Jobs -> Seq(Change)] /\ chain[j] \in Seq(Change)
    BY DEF IInv, TypeOK
  <1>1. CASE ReadNext
    <2>1. chain' = chain
      BY <1>1 DEF ReadNext
    <2>2. ASSUME NEW e \in listed', e.job = j, v = e.attempt + 1
          PROVE  e \in listed \/ (status[j] = "queued" /\ v = attempt[j] + 1)
      BY <1>1, <2>2 DEF ReadNext
    <2> QED
      BY <1>1, <2>1, <2>2
  <1>2. ASSUME NEW e \in listed, NEW r \in RunIds, Launch(e, r) PROVE Owes(j, v)
    <2> DEFINE op == [to |-> "running", attempt |-> e.attempt + 1, by |-> r]
    <2>1. e.job \in Jobs /\ op \in Change
      BY NatAssumption DEF IInv, TypeOK, Entry, Change
    <2>2. PICK i \in 1..Len(chain'[j]) : chain'[j][i].to = "running" /\ v = chain'[j][i].attempt
      BY <1>2 DEF Launch
    <2>3. CASE j # e.job
      BY <1>a, <1>2, <2>1, <2>2, <2>3 DEF Launch, Enqueue
    <2>4. CASE j = e.job
      <3>1. chain'[j] = Append(chain[j], op)
        BY <1>a, <1>2, <2>4 DEF Launch, Enqueue
      <3>2. \/ i \in 1..Len(chain[j]) /\ chain'[j][i] = chain[j][i]
            \/ chain'[j][i] = op
        BY <1>a, <2>1, <2>2, <3>1, AppendOwes
      <3> QED
        BY <2>2, <2>4, <3>2
    <2> QED
      BY <2>3, <2>4
  <1>3. ASSUME NEW k \in Jobs, NEW op \in Change, op.to # "running", Enqueue(k, op), listed' = listed
        PROVE  Owes(j, v)
    <2>1. CASE \E e \in listed' : e.job = j /\ v = e.attempt + 1
      BY <1>3, <2>1
    <2>2. ASSUME NEW i \in 1..Len(chain'[j]), chain'[j][i].to = "running", v = chain'[j][i].attempt
          PROVE  Owes(j, v)
      <3>1. chain'[j] = chain[j] \/ chain'[j] = Append(chain[j], op)
        BY <1>a, <1>3 DEF Enqueue
      <3>2. i \in 1..Len(chain[j]) /\ chain'[j][i] = chain[j][i]
        BY <1>a, <1>3, <2>2, <3>1, AppendOwes
      <3> QED
        BY <2>2, <3>2
    <2> QED
      BY <2>1, <2>2
  <1>4. ASSUME NEW r \in RunIds, RecordOutcome(r) PROVE Owes(j, v)
    <2>1. run[r].job \in Jobs /\ [to |-> run[r].outcome, attempt |-> 0, by |-> r] \in Change
      BY <1>4 DEF IInv, RunSound, RecordOutcome, Change
    <2>2. run[r].outcome # "running"
      BY <1>4 DEF IInv, RunSound, RecordOutcome, TERMINAL
    <2> QED
      BY <1>3, <1>4, <2>1, <2>2 DEF RecordOutcome
  <1>5. ASSUME NEW k \in Jobs, GcRemove(k) PROVE Owes(j, v)
    <2>1. [to |-> "absent", attempt |-> 0, by |-> 0] \in Change
      BY DEF Change
    <2> QED
      BY <1>3, <1>5, <2>1 DEF GcRemove, queue
  <1>6. ASSUME NEW c \in Clients, ClientStep(c) PROVE Owes(j, v)
    <2>1. /\ client[c].job \in Jobs
          /\ \A to \in {"cancelled", "absent"} : [to |-> to, attempt |-> 0, by |-> c] \in Change
      BY <1>6 DEF IInv, ClientSound, ClientStep, Cancel, CancelQueued, CancelResumes, DeleteResumes,
                  Change, TERMINAL
    <2>2. PICK to \in {"cancelled", "absent"} :
            Enqueue(client[c].job, [to |-> to, attempt |-> 0, by |-> c]) /\ listed' = listed
      BY <1>6 DEF ClientStep, Cancel, CancelQueued, CancelResumes, DeleteResumes, Remove, queue
    <2> QED
      BY <1>3, <2>1, <2>2
  <1>7. ASSUME NEW k \in Jobs, ApplyUpdate(k) \/ RemoveTree(k) \/ ApplyFails(k) PROVE Owes(j, v)
    <2>1. chain[k] # <<>> /\ chain' = [chain EXCEPT ![k] = Tail(@)] /\ listed' = listed
      BY <1>7 DEF ApplyUpdate, RemoveTree, ApplyFails
    <2>2. ASSUME NEW i \in 1..Len(chain'[j]), chain'[j][i].to = "running", v = chain'[j][i].attempt
          PROVE  Owes(j, v)
      <3>1. chain'[j] = chain[j] \/ (chain[j] # <<>> /\ chain'[j] = Tail(chain[j]))
        BY <1>a, <2>1
      <3>2. \E n \in 1..Len(chain[j]) : chain'[j][i] = chain[j][n]
        BY <1>a, <2>2, <3>1, TailOwes
      <3> QED
        BY <2>2, <3>2
    <2> QED
      BY <2>1, <2>2
  <1>8. ASSUME NEW k \in Jobs, RemoveRecord(k) PROVE Owes(j, v)
    <2> DEFINE op == [Head(chain[k]) EXCEPT !.to = "purge"]
    <2>1. /\ chain[k] # <<>> /\ Head(chain[k]) \in Change /\ Head(chain[k]).to = "absent"
          /\ chain' = [chain EXCEPT ![k] = <<op>> \o Tail(@)] /\ listed' = listed
      BY <1>a, <1>8, HeadTailType DEF RemoveRecord, queue
    <2>2. op \in Change /\ op.to = "purge"
      BY <2>1 DEF Change
    <2>3. ASSUME NEW i \in 1..Len(chain'[j]), chain'[j][i].to = "running", v = chain'[j][i].attempt
          PROVE  Owes(j, v)
      <3>1. chain'[j] = chain[j] \/ (chain[j] # <<>> /\ chain'[j] = <<op>> \o Tail(chain[j]))
        BY <1>a, <2>1
      <3> HIDE DEF op
      <3>2. \/ chain'[j][i] = op
            \/ i \in 1..Len(chain[j]) /\ chain'[j][i] = chain[j][i]
        BY <1>a, <2>2, <2>3, <3>1, RewriteOwes
      <3> QED
        BY <2>2, <2>3, <3>2
    <2> QED
      BY <2>1, <2>3
  <1>9. CASE Crash \/ Exit
    BY <1>9 DEF Crash, Exit, Boot
  <1>10. CASE chain' = chain /\ listed' \subseteq listed
    BY <1>10
  <1> QED
    BY <1>1, <1>2, <1>4, <1>5, <1>6, <1>7, <1>8, <1>9, <1>10, OwesTouched

LEMMA RecoveringQuiet ==
  ASSUME [Next]_vars
  PROVE  \/ Crash \/ Exit
         \/ mode' = "recovering" => mode = "recovering" /\ (loop = "asleep" => loop' = "asleep")
  BY ZenonT(60) DEF Next, vars, disk, queue, server, LoopStep, ChildStep, HandlerStep, StoreStep, ClientStep,
     BootStep, LookUp, Create, Wake, ClaimAgain, StartListing, ReadNext, ClaimNothing, Launch, ChildBegin,
     ChildWrite, Overrun, ChildClose, CloseRead, RecordOutcome, ApplyUpdate, RemoveRecord, RemoveTree,
     ApplyFails, GcStep, GcFind, GcRemove, GcEnough, Cancel, CancelQueued, CancelResumes, DeleteResumes, Remove,
     DeleteRead, Stop, Recovered, Recover

AttemptStep == \A j \in Jobs : status'[j] # "absent" => attempt'[j] >= attempt[j]

LEMMA InitAttempts == Init => AttInv
  BY InitIInv DEF Init, AttInv, AttemptSound, Owes

LEMMA NextAttempts ==
  ASSUME AttInv, [Next]_vars
  PROVE  AttemptSound' /\ AttemptStep
  <1> USE DEF AttemptSound, AttemptStep
  <1> status \in [Jobs -> Status] /\ attempt \in [Jobs -> 0..MaxAttempts]
    BY DEF AttInv, IInv, TypeOK
  <1> \A j \in Jobs : attempt[j] \in Int
    BY NatAssumption
  <1>a. \A j \in Jobs : \A v \in Int :
          Owes(j, v)' => Owes(j, v) \/ (ReadNext /\ status[j] = "queued" /\ v = attempt[j] + 1)
    BY OwesShrinks DEF AttInv
  <1>b. ASSUME ~Crash, ~Exit
        PROVE  mode' = "recovering" => loop' = "asleep" /\ \A j \in Jobs : \A v \in Int : ~Owes(j, v)'
    BY <1>a, <1>b, RecoveringQuiet DEF AttInv, ReadNext
  <1>1. CASE Crash \/ Exit
    <2>1. \A j \in Jobs : \A v \in Int : ~Owes(j, v)'
      BY <1>1 DEF Crash, Exit, Boot, Owes
    <2>2. loop' = "asleep" /\ UNCHANGED <<status, attempt>>
      BY <1>1 DEF Crash, Exit, Boot, disk
    <2> QED
      BY <2>1, <2>2
  <1> DEFINE Other == ~ReadNext /\ ~Crash /\ ~Exit
  <1>2. CASE LookUp /\ Other
    <2>1. /\ status' = status /\ attempt' = attempt /\ posting' = {nextJob} /\ nextJob' = nextJob + 1
      BY <1>2 DEF LookUp, disk
    <2>2. nextJob \in Int /\ \A j \in Jobs : j \in Int
      BY NatAssumption DEF AttInv, IInv, TypeOK, Jobs
    <2> QED
      BY <1>a, <1>b, <1>2, <2>1, <2>2 DEF AttInv
  <1>3. ASSUME NEW n \in Jobs, Create(n), Other PROVE AttemptSound' /\ AttemptStep
    <2>1. /\ n \in posting /\ posting' = posting \ {n} /\ nextJob' = nextJob
          /\ status' = [status EXCEPT ![n] = "queued"] \/ status' = status
          /\ attempt' = attempt
      BY <1>3 DEF Create
    <2>2. \A v \in Int : ~Owes(n, v)
      BY <2>1 DEF AttInv
    <2>3. CASE status' = [status EXCEPT ![n] = "queued"]
      BY <1>a, <1>b, <1>3, <2>1, <2>2, <2>3 DEF AttInv
    <2>4. CASE status' = status
      BY <1>a, <1>b, <1>3, <2>1, <2>4 DEF AttInv
    <2> QED
      BY <2>1, <2>3, <2>4
  <1>4. ASSUME NEW j \in Jobs, ApplyUpdate(j), Other PROVE AttemptSound' /\ AttemptStep
    <2> DEFINE op == Head(chain[j])
    <2>1. /\ chain[j] # <<>>
          /\ UNCHANGED <<posting, nextJob>>
          /\ \/ status' = status /\ attempt' = attempt
             \/ /\ status[j] # "absent" /\ status' = [status EXCEPT ![j] = op.to]
                /\ attempt' = IF op.attempt # 0 THEN [attempt EXCEPT ![j] = op.attempt] ELSE attempt
      BY <1>4 DEF ApplyUpdate
    <2>2. \/ op.to = "running" /\ op.attempt \in Int /\ Owes(j, op.attempt)
          \/ op.to # "queued" /\ op.attempt = 0
      <3>1. chain[j] \in Seq(Change) /\ op = chain[j][1] /\ 1 \in 1..Len(chain[j]) /\ op \in Change
        BY <2>1 DEF AttInv, IInv, TypeOK
      <3>2. CASE op.to = "running"
        <4>1. op.attempt \in 1..MaxAttempts
          BY <3>1, <3>2 DEF Change, TERMINAL
        <4> QED
          BY <3>1, <3>2, <4>1, NatAssumption DEF Owes
      <3>3. CASE op.to # "running"
        BY <3>1, <3>3 DEF Change, TERMINAL
      <3> QED
        BY <3>2, <3>3
    <2> HIDE DEF op
    <2>3. CASE status' = status /\ attempt' = attempt
      BY <1>a, <1>b, <1>4, <2>1, <2>3 DEF AttInv
    <2>4. CASE /\ status[j] # "absent" /\ status' = [status EXCEPT ![j] = op.to]
               /\ op.to = "running" /\ attempt' = [attempt EXCEPT ![j] = op.attempt]
               /\ op.attempt \in Int /\ Owes(j, op.attempt)
      <3>1. attempt[j] <= op.attempt /\ \A v \in Int : Owes(j, v) => v = op.attempt
        BY <2>4 DEF AttInv
      <3>2. \A k \in Jobs : k # j => status'[k] = status[k] /\ attempt'[k] = attempt[k]
        BY <2>4
      <3>3. status'[j] = "running" /\ attempt'[j] = op.attempt
        BY <2>4
      <3> QED
        BY <1>a, <1>b, <1>4, <2>1, <2>4, <3>1, <3>2, <3>3 DEF AttInv
    <2>5. CASE /\ status[j] # "absent" /\ status' = [status EXCEPT ![j] = op.to]
               /\ op.to # "queued" /\ attempt' = attempt
      BY <1>a, <1>b, <1>4, <2>1, <2>5 DEF AttInv
    <2>6. CASE status[j] # "absent" /\ op.to = "running" /\ op.attempt = 0
               /\ status' = [status EXCEPT ![j] = op.to] /\ attempt' = attempt
      BY <1>a, <1>b, <1>4, <2>1, <2>6 DEF AttInv
    <2> QED
      BY <2>1, <2>2, <2>3, <2>4, <2>5, <2>6
  <1>5. ASSUME NEW j \in Jobs, RemoveRecord(j), Other PROVE AttemptSound' /\ AttemptStep
    <2>1. /\ UNCHANGED <<posting, nextJob>>
          /\ status' = [status EXCEPT ![j] = "absent"] /\ attempt' = [attempt EXCEPT ![j] = 0]
      BY <1>5 DEF RemoveRecord, queue, server
    <2> QED
      BY <1>a, <1>b, <1>5, <2>1 DEF AttInv
  <1>6. ASSUME NEW j \in Jobs, Recover(j), Other PROVE AttemptSound' /\ AttemptStep
    <2>1. mode = "recovering" /\ mode' = mode /\ loop' = loop /\ attempt' = attempt
      BY <1>6 DEF Recover, queue
    <2>2. loop = "asleep" /\ \A k \in Jobs : \A v \in Int : ~Owes(k, v)'
      BY <1>a, <1>6, <2>1 DEF AttInv
    <2> QED
      BY <2>1, <2>2
  <1>7. CASE ReadNext /\ ~Crash /\ ~Exit
    <2>1. \A j \in Jobs : status[j] = "queued" => j < nextJob /\ j \notin posting
      BY NatAssumption DEF AttInv, IInv, TypeOK, UnbornIsAbsent, Jobs
    <2>2. UNCHANGED <<status, attempt, nextJob, posting>>
      BY <1>7 DEF ReadNext, disk, server
    <2> QED
      BY <1>a, <1>b, <1>7, <2>1, <2>2 DEF AttInv
  <1>8. CASE UNCHANGED <<status, attempt, nextJob, posting>> /\ Other
    BY <1>a, <1>b, <1>8 DEF AttInv
  <1> QED
    BY <1>1, <1>2, <1>3, <1>4, <1>5, <1>6, <1>7, <1>8, RecordsTouched

\* README "up to two attempts each": whatever was read before a restart, a deletion or
\* a late write, the attempts recorded for a job never go back.
THEOREM AttemptsGrow == Spec => AttemptsOnlyGrow
  <1>1. AttInv /\ [Next]_vars => AttInv'
    BY NextTypeOK, NextRecords, NextSound, NextAttempts DEF AttInv, IInv, Records
  <1>2. AttInv /\ [Next]_vars => [\A j \in Jobs : status'[j] # "absent" => attempt'[j] >= attempt[j]]_vars
    BY NextAttempts DEF AttemptStep
  <1> QED
    BY InitAttempts, <1>1, <1>2, PTL DEF Spec, AttemptsOnlyGrow

=============================================================================
