----------------------- MODULE JobQueueTrackedProofs -----------------------
(***************************************************************************)
(* Who answers for a record: theorems about JobQueue that relate the       *)
(* records on disk to the closures, requests and pending changes that will *)
(* still write them, for every value of the constants.                     *)
(***************************************************************************)
EXTENDS JobQueueProofs

-----------------------------------------------------------------------------
(* Jobs that have been created.  Whatever works on a job works on one that   *)
(* has a record or had one, and a record that was removed never comes back.  *)

Born(j) == j < nextJob /\ j \notin posting

BornSound ==
  /\ \A j \in todo : Born(j)
  /\ \A e \in listed : Born(e.job)
  /\ \A r \in RunIds : run[r].job # 0 => Born(run[r].job)
  /\ \A c \in Clients : client[c].job # 0 => Born(client[c].job)
  /\ \A j \in gcTodo : Born(j)
  /\ \A j \in Jobs : chain[j] # <<>> => Born(j)

LEMMA PresentBorn ==
  ASSUME IInv, NEW j \in Jobs, status[j] # "absent"
  PROVE  Born(j)
  BY NatAssumption DEF IInv, TypeOK, UnbornIsAbsent, Born, Jobs

LEMMA BornStays ==
  ASSUME IInv, [Next]_vars, NEW j \in Jobs, Born(j)
  PROVE  Born(j)'
  <1> USE DEF Born
  <1>1. CASE LookUp
    <2>1. j \in Int /\ nextJob \in Int
      BY NatAssumption DEF IInv, TypeOK, Jobs
    <2> QED
      BY <1>1, <2>1 DEF LookUp
  <1>2. CASE Crash \/ Exit
    BY <1>2 DEF Crash, Exit, Boot
  <1>3. ASSUME NEW k \in Jobs, Create(k) \/ ApplyUpdate(k) \/ RemoveRecord(k) \/ Recover(k)
        PROVE Born(j)'
    BY <1>3 DEF Create, ApplyUpdate, RemoveRecord, Recover, server
  <1>4. CASE UNCHANGED <<status, attempt, nextJob, posting>>
    BY <1>4
  <1> QED
    BY <1>1, <1>2, <1>3, <1>4, RecordsTouched

LEMMA AbsentStays ==
  ASSUME IInv, [Next]_vars, NEW j \in Jobs, Born(j), status[j] = "absent"
  PROVE  status'[j] = "absent"
  <1> status \in [Jobs -> Status]
    BY DEF IInv, TypeOK
  <1>1. CASE LookUp \/ Crash \/ Exit
    BY <1>1 DEF LookUp, Crash, Exit, Boot, disk
  <1>2. ASSUME NEW k \in Jobs, Create(k) PROVE status'[j] = "absent"
    BY <1>2 DEF Create, Born
  <1>3. ASSUME NEW k \in Jobs, ApplyUpdate(k) PROVE status'[j] = "absent"
    BY <1>3 DEF ApplyUpdate
  <1>4. ASSUME NEW k \in Jobs, RemoveRecord(k) \/ Recover(k) PROVE status'[j] = "absent"
    BY <1>4 DEF RemoveRecord, Recover, InFlight
  <1>5. CASE UNCHANGED <<status, attempt, nextJob, posting>>
    BY <1>5
  <1> QED
    BY <1>1, <1>2, <1>3, <1>4, <1>5, RecordsTouched

\* What is listed or found was there.
LEMMA FoundPresent ==
  ASSUME IInv, [Next]_vars
  PROVE  /\ todo' \subseteq todo \cup Present
         /\ \A e \in listed' : e \in listed \/ (e.job \in Jobs /\ status[e.job] = "queued")
         /\ gcTodo' \subseteq gcTodo \cup Present
  <1>1. CASE ReadNext
    BY <1>1 DEF ReadNext, server, Newest, IInv, TypeOK
  <1>2. CASE Crash \/ Exit
    BY <1>2 DEF Crash, Exit, Boot
  <1>3. ASSUME NEW j \in Jobs, GcFind(j)
        PROVE  todo' = todo /\ listed' = listed /\ gcTodo' \subseteq gcTodo \cup Present
    BY <1>3 DEF GcFind, TERMINAL, Present, queue
  <1>4. CASE ~ReadNext /\ ~Crash /\ ~Exit /\ ~\E j \in Jobs : GcFind(j)
    BY <1>4 DEF Next, vars, disk, queue, server, LoopStep, ChildStep, HandlerStep, StoreStep, ClientStep,
       BootStep, LookUp, Create, Wake, ClaimAgain, StartListing, ClaimNothing, Launch, ChildBegin,
       ChildWrite, Overrun, ChildClose, CloseRead, RecordOutcome, ApplyUpdate, RemoveRecord, RemoveTree, Done,
       ApplyFails, GcStep, GcRemove, GcEnough, Cancel, CancelQueued, CancelResumes, DeleteResumes, Remove, DeleteRead, Stop,
       Recovered, Recover
  <1> QED
    BY <1>1, <1>2, <1>3, <1>4

\* A closure keeps its job until it is let go or its number is used again.
LEMMA RunJobKept ==
  ASSUME IInv, [Next]_vars, NEW r \in RunIds
  PROVE  \/ run'[r].job = run[r].job \/ run'[r] = NoRun
         \/ \E e \in listed : Launch(e, r)
  <1> run \in [RunIds -> RunRecord]
    BY DEF IInv, TypeOK
  <1> DEFINE Kept == run'[r].job = run[r].job \/ run'[r] = NoRun
  <1>1. ASSUME NEW e \in listed, NEW q \in RunIds, Launch(e, q), q # r PROVE Kept
    BY <1>1 DEF Launch
  <1>2. ASSUME NEW q \in RunIds, ChildBegin(q) \/ Overrun(q) \/ CloseRead(q) \/ RecordOutcome(q)
        PROVE Kept
    BY <1>2 DEF ChildBegin, Overrun, CloseRead, RecordOutcome, RunRecord
  <1>3. ASSUME NEW q \in RunIds, NEW outcome \in TERMINAL, ChildClose(q, outcome) PROVE Kept
    BY <1>3 DEF ChildClose, NoRun
  <1>4. ASSUME NEW j \in Jobs, ApplyUpdate(j) \/ RemoveTree(j) \/ ApplyFails(j) PROVE Kept
    BY <1>4 DEF ApplyUpdate, RemoveTree, ApplyFails, Done
  <1>5. ASSUME NEW c \in Clients, Cancel(c) \/ CancelQueued(c) \/ CancelResumes(c) \/ DeleteResumes(c)
                 \/ \E j \in Jobs : DeleteRead(c, j)
        PROVE Kept
    BY <1>5 DEF Cancel, CancelQueued, CancelResumes, DeleteResumes, DeleteRead, RunRecord, queue
  <1>6. CASE Stop
    BY <1>6 DEF Stop, RunRecord
  <1>7. CASE Crash \/ Exit
    BY <1>7 DEF Crash, Exit, Boot
  <1> QED
    BY <1>1, <1>2, <1>3, <1>4, <1>5, <1>6, <1>7, RunsTouched

\* So does a request.
LEMMA ClientJobKept ==
  ASSUME IInv, [Next]_vars, NEW c \in Clients
  PROVE  \/ client'[c].job = client[c].job \/ client'[c] = NoClient
         \/ client[c].pc = "idle" /\ client'[c].job \in Present
  <1> client \in [Clients -> ClientRecord]
    BY DEF IInv, TypeOK
  <1> DEFINE Kept == \/ client'[c].job = client[c].job \/ client'[c] = NoClient
                     \/ client[c].pc = "idle" /\ client'[c].job \in Present
  <1>1. ASSUME NEW e \in listed, NEW q \in RunIds, Launch(e, q) PROVE Kept
    BY <1>1 DEF Launch, server
  <1>2. ASSUME NEW q \in RunIds, \/ ChildBegin(q) \/ Overrun(q) \/ CloseRead(q) \/ RecordOutcome(q)
                                 \/ \E outcome \in TERMINAL : ChildClose(q, outcome)
        PROVE Kept
    BY <1>2 DEF ChildBegin, Overrun, CloseRead, RecordOutcome, ChildClose, server
  <1>3. ASSUME NEW j \in Jobs, ApplyUpdate(j) \/ RemoveTree(j) \/ ApplyFails(j) PROVE Kept
    BY <1>3 DEF ApplyUpdate, RemoveTree, ApplyFails, Done
  <1>4. ASSUME NEW d \in Clients, Cancel(d) \/ CancelQueued(d) \/ CancelResumes(d) \/ DeleteResumes(d)
        PROVE Kept
    BY <1>4 DEF Cancel, CancelQueued, CancelResumes, DeleteResumes, Remove, ClientRecord
  <1>5. ASSUME NEW d \in Clients, NEW j \in Jobs, DeleteRead(d, j) PROVE Kept
    BY <1>5 DEF DeleteRead, Present
  <1>6. CASE Stop
    BY <1>6 DEF Stop
  <1>7. CASE Crash \/ Exit
    BY <1>7 DEF Crash, Exit, Boot
  <1> QED
    BY <1>1, <1>2, <1>3, <1>4, <1>5, <1>6, <1>7, RunsTouched

\* A change that waits for its turn.
Pends(j, op) == \E i \in 1..Len(chain[j]) : chain[j][i] = op

LEMMA PendsType ==
  ASSUME IInv, NEW j \in Jobs, NEW op, Pends(j, op)
  PROVE  op \in Change /\ chain[j] # <<>>
  BY DEF IInv, TypeOK, Pends

\* Who adds to a chain, and what.
Added(j, op) ==
  \/ \E e \in listed, r \in RunIds :
       Launch(e, r) /\ j = e.job /\ op = [to |-> "running", attempt |-> e.attempt + 1, by |-> r]
  \/ \E r \in RunIds :
       RecordOutcome(r) /\ j = run[r].job /\ op = [to |-> run[r].outcome, attempt |-> 0, by |-> r]
  \/ GcRemove(j) /\ op = [to |-> "absent", attempt |-> 0, by |-> 0]
  \/ \E c \in Clients :
       /\ Cancel(c) \/ CancelQueued(c)
       /\ j = client[c].job /\ op = [to |-> "cancelled", attempt |-> 0, by |-> c]
  \/ \E c \in Clients :
       /\ CancelResumes(c) \/ DeleteResumes(c)
       /\ j = client[c].job /\ op = [to |-> "absent", attempt |-> 0, by |-> c]

LEMMA EnqueueAdds ==
  ASSUME IInv, NEW k \in Jobs, NEW new \in Change, Enqueue(k, new), NEW j \in Jobs
  PROVE  chain'[j] = IF j = k THEN Append(chain[j], new) ELSE chain[j]
  BY DEF IInv, TypeOK, Enqueue

\* How one step changes a chain.
LEMMA ChainSteps ==
  ASSUME IInv, [Next]_vars, NEW j \in Jobs
  PROVE  \/ chain'[j] = chain[j]
         \/ \E op \in Change : Added(j, op) /\ chain'[j] = Append(chain[j], op)
         \/ /\ chain[j] # <<>> /\ chain'[j] = Tail(chain[j])
            /\ ApplyUpdate(j) \/ RemoveTree(j) \/ ApplyFails(j)
         \/ /\ RemoveRecord(j)
            /\ chain[j] # <<>>
            /\ chain'[j] = <<[Head(chain[j]) EXCEPT !.to = "purge"]>> \o Tail(chain[j])
         \/ (Crash \/ Exit) /\ chain'[j] = <<>>
  <1>a. chain \in [Jobs -> Seq(Change)] /\ chain[j] \in Seq(Change)
    BY DEF IInv, TypeOK
  <1> DEFINE Goal == \/ chain'[j] = chain[j]
                     \/ \E op \in Change : Added(j, op) /\ chain'[j] = Append(chain[j], op)
  <1>1. CASE ReadNext
    BY <1>1 DEF ReadNext
  <1>2. ASSUME NEW e \in listed, NEW r \in RunIds, Launch(e, r) PROVE Goal
    <2> DEFINE op == [to |-> "running", attempt |-> e.attempt + 1, by |-> r]
    <2>1. e.job \in Jobs /\ op \in Change
      BY NatAssumption DEF IInv, TypeOK, Entry, Change
    <2>2. chain'[j] = IF j = e.job THEN Append(chain[j], op) ELSE chain[j]
      BY <1>2, <2>1, EnqueueAdds DEF Launch
    <2> QED
      BY <1>2, <2>1, <2>2 DEF Added
  <1>3. ASSUME NEW r \in RunIds, RecordOutcome(r) PROVE Goal
    <2> DEFINE op == [to |-> run[r].outcome, attempt |-> 0, by |-> r]
    <2>1. run[r].job \in Jobs /\ op \in Change
      BY <1>3 DEF IInv, RunSound, RecordOutcome, Change
    <2>2. chain'[j] = IF j = run[r].job THEN Append(chain[j], op) ELSE chain[j]
      BY <1>3, <2>1, EnqueueAdds DEF RecordOutcome
    <2> QED
      BY <1>3, <2>1, <2>2 DEF Added
  <1>4. ASSUME NEW k \in Jobs, GcRemove(k) PROVE Goal
    <2> DEFINE op == [to |-> "absent", attempt |-> 0, by |-> 0]
    <2>1. op \in Change
      BY DEF Change
    <2>2. chain'[j] = IF j = k THEN Append(chain[j], op) ELSE chain[j]
      BY <1>4, <2>1, EnqueueAdds DEF GcRemove
    <2> QED
      BY <1>4, <2>1, <2>2 DEF Added
  <1>5. ASSUME NEW c \in Clients, ClientStep(c) PROVE Goal
    <2>1. /\ client[c].job \in Jobs
          /\ \A to \in {"cancelled", "absent"} : [to |-> to, attempt |-> 0, by |-> c] \in Change
      BY <1>5 DEF IInv, ClientSound, ClientStep, Cancel, CancelQueued, CancelResumes, DeleteResumes,
                  Change, TERMINAL
    <2>2. CASE Cancel(c) \/ CancelQueued(c)
      <3> DEFINE op == [to |-> "cancelled", attempt |-> 0, by |-> c]
      <3>1. chain'[j] = IF j = client[c].job THEN Append(chain[j], op) ELSE chain[j]
        BY <2>1, <2>2, EnqueueAdds DEF Cancel, CancelQueued
      <3> QED
        BY <2>1, <2>2, <3>1 DEF Added
    <2>3. CASE CancelResumes(c) \/ DeleteResumes(c)
      <3> DEFINE op == [to |-> "absent", attempt |-> 0, by |-> c]
      <3>1. chain'[j] = IF j = client[c].job THEN Append(chain[j], op) ELSE chain[j]
        BY <2>1, <2>3, EnqueueAdds DEF CancelResumes, DeleteResumes, Remove
      <3> QED
        BY <2>1, <2>3, <3>1 DEF Added
    <2> QED
      BY <1>5, <2>2, <2>3 DEF ClientStep
  <1>6. ASSUME NEW k \in Jobs, ApplyUpdate(k) \/ RemoveTree(k) \/ ApplyFails(k)
        PROVE  \/ chain'[j] = chain[j]
               \/ j = k /\ chain[j] # <<>> /\ chain'[j] = Tail(chain[j])
    BY <1>a, <1>6 DEF ApplyUpdate, RemoveTree, ApplyFails
  <1>7. ASSUME NEW k \in Jobs, RemoveRecord(k)
        PROVE  \/ chain'[j] = chain[j]
               \/ /\ j = k /\ chain[j] # <<>>
                  /\ chain'[j] = <<[Head(chain[j]) EXCEPT !.to = "purge"]>> \o Tail(chain[j])
    BY <1>a, <1>7 DEF RemoveRecord
  <1>8. CASE Crash \/ Exit
    BY <1>8 DEF Crash, Exit, Boot
  <1>9. CASE chain' = chain
    BY <1>9
  <1> QED
    BY <1>1, <1>2, <1>3, <1>4, <1>5, <1>6, <1>7, <1>8, <1>9, OwesTouched

LEMMA PendsTouched ==
  ASSUME IInv, [Next]_vars, NEW j \in Jobs, NEW op, Pends(j, op)'
  PROVE  \/ Pends(j, op)
         \/ Added(j, op)
         \/ /\ RemoveRecord(j) /\ Pends(j, Head(chain[j]))
            /\ op = [Head(chain[j]) EXCEPT !.to = "purge"]
  <1> USE DEF Pends
  <1>a. chain \in [Jobs -> Seq(Change)] /\ chain[j] \in Seq(Change)
    BY DEF IInv, TypeOK
  <1>b. PICK i \in 1..Len(chain'[j]) : chain'[j][i] = op
    OBVIOUS
  <1>1. CASE chain'[j] = chain[j]
    BY <1>1
  <1>2. ASSUME NEW new \in Change, Added(j, new), chain'[j] = Append(chain[j], new)
        PROVE  Pends(j, op) \/ Added(j, op)
    BY <1>a, <1>b, <1>2, AppendOwes
  <1>3. CASE chain[j] # <<>> /\ chain'[j] = Tail(chain[j])
    BY <1>a, <1>b, <1>3, TailOwes
  <1>4. CASE /\ RemoveRecord(j)
             /\ chain[j] # <<>>
             /\ chain'[j] = <<[Head(chain[j]) EXCEPT !.to = "purge"]>> \o Tail(chain[j])
    <2> DEFINE new == [Head(chain[j]) EXCEPT !.to = "purge"]
    <2>1. Head(chain[j]) = chain[j][1] /\ 1 \in 1..Len(chain[j]) /\ Head(chain[j]).to = "absent"
      BY <1>a, <1>4 DEF RemoveRecord
    <2>2. new \in Change
      <3>1. Head(chain[j]) \in Change
        BY <1>a, <2>1
      <3> QED
        BY <2>1, <3>1 DEF Change, TERMINAL
    <2> HIDE DEF new
    <2>3. \/ chain'[j][i] = new
          \/ i \in 1..Len(chain[j]) /\ chain'[j][i] = chain[j][i]
      BY <1>a, <1>b, <1>4, <2>2, RewriteOwes DEF new
    <2> QED
      BY <1>b, <1>4, <2>1, <2>3 DEF new
  <1>5. CASE chain'[j] = <<>>
    BY <1>b, <1>5
  <1> QED
    BY <1>1, <1>2, <1>3, <1>4, <1>5, ChainSteps

LEMMA HeadPends ==
  ASSUME IInv, NEW j \in Jobs, chain[j] # <<>>
  PROVE  Pends(j, Head(chain[j])) /\ Head(chain[j]) \in Change
  <1>1. chain[j] \in Seq(Change)
    BY DEF IInv, TypeOK
  <1>2. Head(chain[j]) = chain[j][1] /\ 1 \in 1..Len(chain[j]) /\ chain[j][1] \in Change
    BY <1>1
  <1> QED
    BY <1>2 DEF Pends

LEMMA NextBorn ==
  ASSUME IInv, BornSound, [Next]_vars
  PROVE  BornSound'
  <1>a. Present \subseteq Jobs /\ todo \subseteq Jobs /\ listed \subseteq Entry
    BY DEF Present, IInv, TypeOK
  <1>b. \A j \in Present : Born(j)
    BY PresentBorn DEF Present
  <1>c. /\ \A r \in RunIds : run[r].job \in Jobs \cup {0}
        /\ \A c \in Clients : client[c].job \in Jobs \cup {0}
        /\ gcTodo \subseteq Jobs /\ 0 \notin Jobs
    BY DEF IInv, TypeOK, RunRecord, ClientRecord, Jobs
  <1>1. \A j \in todo' : Born(j)'
    BY <1>a, <1>b, FoundPresent, BornStays DEF BornSound
  <1>2. \A e \in listed' : Born(e.job)'
    <2> TAKE e \in listed'
    <2>1. e.job \in Jobs /\ Born(e.job)
      BY <1>a, FoundPresent, PresentBorn DEF BornSound, Entry
    <2> QED
      BY <2>1, BornStays
  <1>3. ASSUME NEW r \in RunIds, run'[r].job # 0 PROVE run'[r].job \in Jobs /\ Born(run'[r].job)
    <2>1. CASE run'[r].job = run[r].job
      BY <1>c, <1>3, <2>1 DEF BornSound
    <2>2. ASSUME NEW e \in listed, Launch(e, r) PROVE run'[r].job \in Jobs /\ Born(run'[r].job)
      BY <1>a, <2>2 DEF Launch, NoRun, BornSound, Entry, IInv, TypeOK
    <2> QED
      BY <1>3, <2>1, <2>2, RunJobKept DEF NoRun
  <1>4. ASSUME NEW c \in Clients, client'[c].job # 0
        PROVE  client'[c].job \in Jobs /\ Born(client'[c].job)
    BY <1>a, <1>b, <1>c, <1>4, ClientJobKept DEF BornSound, NoClient
  <1>5. \A j \in gcTodo' : j \in Jobs /\ Born(j)
    BY <1>a, <1>b, <1>c, FoundPresent DEF BornSound
  <1>6. \A j \in Jobs : chain'[j] # <<>> => Born(j)'
    <2> SUFFICES ASSUME NEW j \in Jobs, chain'[j] # <<>> PROVE Born(j)
      BY BornStays
    <2>1. CASE chain[j] # <<>>
      BY <2>1 DEF BornSound
    <2>2. ASSUME NEW op, Added(j, op) PROVE Born(j)
      <3>1. j # 0
        BY <1>c
      <3> QED
        BY <2>2, <3>1 DEF Added, BornSound, GcRemove
    <2> QED
      BY <2>1, <2>2, ChainSteps
  <1>7. \A j \in Jobs : Born(j) => j < nextJob' /\ j \notin posting'
    BY BornStays DEF Born
  <1> QED
    BY <1>1, <1>2, <1>3, <1>4, <1>5, <1>6, <1>7 DEF BornSound, Born

-----------------------------------------------------------------------------
(* A success and its tree.  The tree goes as the second half of a removal,   *)
(* when the record is gone already; nobody can have written it again since.  *)

\* A removal in two halves is at the head of its chain, and the record is gone.
PurgeFirst ==
  \A j \in Jobs : \A i \in 1..Len(chain[j]) :
    chain[j][i].to = "purge" => i = 1 /\ status[j] = "absent"

TreeKept == \A j \in Jobs : status[j] # "absent" => j \in tree

TreeInv == IInv /\ BornSound /\ PurgeFirst /\ TreeKept

LEMMA NextPurge ==
  ASSUME TreeInv, [Next]_vars
  PROVE  PurgeFirst'
  <1> SUFFICES ASSUME NEW j \in Jobs, NEW i \in 1..Len(chain'[j]), chain'[j][i].to = "purge"
               PROVE  i = 1 /\ status'[j] = "absent"
    BY DEF PurgeFirst
  <1>a. chain[j] \in Seq(Change) /\ IInv /\ BornSound /\ PurgeFirst
    BY DEF TreeInv, IInv, TypeOK
  <1>b. chain[j] # <<>> /\ status[j] = "absent" => status'[j] = "absent"
    BY <1>a, AbsentStays DEF BornSound
  <1>c. \A n \in 1..Len(chain[j]) : chain[j][n].to = "purge" => n = 1 /\ status'[j] = "absent"
    BY <1>a, <1>b DEF PurgeFirst
  <1>1. CASE chain'[j] = chain[j]
    BY <1>1, <1>c
  <1>2. ASSUME NEW op \in Change, Added(j, op), chain'[j] = Append(chain[j], op)
        PROVE  i = 1 /\ status'[j] = "absent"
    <2>1. op.to # "purge"
      <3>1. \A r \in RunIds : RecordOutcome(r) => run[r].outcome # "purge"
        BY <1>a DEF RecordOutcome, IInv, RunSound, TERMINAL
      <3> QED
        BY <1>2, <3>1 DEF Added
    <2>2. i \in 1..Len(chain[j]) /\ chain'[j][i] = chain[j][i]
      BY <1>a, <1>2, <2>1, AppendOwes
    <2> QED
      BY <1>c, <2>2
  <1>3. CASE chain[j] # <<>> /\ chain'[j] = Tail(chain[j])
    <2>1. i + 1 \in 1..Len(chain[j]) /\ chain'[j][i] = chain[j][i + 1]
      BY <1>a, <1>3, TailOwes
    <2> QED
      BY <1>c, <2>1
  <1>4. CASE RemoveRecord(j)
    <2>1. chain[j] # <<>> /\ chain'[j] = <<[Head(chain[j]) EXCEPT !.to = "purge"]>> \o Tail(chain[j])
      BY <1>4, <1>a DEF RemoveRecord, IInv, TypeOK
    <2>2. status'[j] = "absent"
      BY <1>4, <1>a DEF RemoveRecord, IInv, TypeOK
    <2>3. i > 1 => i \in 1..Len(chain[j]) /\ chain'[j][i] = chain[j][i]
      BY <1>a, <2>1
    <2> QED
      BY <1>c, <2>2, <2>3
  <1>5. CASE chain'[j] = <<>>
    BY <1>5
  <1> QED
    BY <1>1, <1>2, <1>3, <1>4, <1>5, <1>a, ChainSteps

LEMMA TreeTouched ==
  ASSUME [Next]_vars
  PROVE  tree \subseteq tree' \/ \E j \in Jobs : RemoveTree(j)
  BY DEF Next, vars, disk, queue, server, LoopStep, ChildStep, HandlerStep, StoreStep, ClientStep, BootStep,
     LookUp, Create, Wake, ClaimAgain, StartListing, ReadNext, ClaimNothing, Launch, ChildBegin,
     ChildWrite, Overrun, ChildClose, CloseRead, RecordOutcome, ApplyUpdate, RemoveRecord,
     ApplyFails, GcStep, GcFind, GcRemove, GcEnough, Cancel, CancelQueued, CancelResumes, DeleteResumes, Remove, DeleteRead,
     Stop, Crash, Exit, Boot, Recovered, Recover

LEMMA NextTree ==
  ASSUME TreeInv, [Next]_vars
  PROVE  TreeKept'
  <1> SUFFICES ASSUME NEW j \in Jobs, status'[j] # "absent" PROVE j \in tree'
    BY DEF TreeKept
  <1>a. IInv /\ BornSound /\ PurgeFirst /\ chain[j] \in Seq(Change) /\ status \in [Jobs -> Status]
    BY DEF TreeInv, IInv, TypeOK
  <1>1. CASE status[j] = "absent"
    <2>1. ~Born(j)
      BY <1>1, <1>a, AbsentStays
    <2>2. ASSUME NEW k \in Jobs, Create(k) PROVE j \in tree'
      BY <1>1, <1>a, <2>2 DEF Create
    <2>3. ASSUME NEW k \in Jobs, ApplyUpdate(k) \/ RemoveRecord(k) \/ Recover(k) PROVE FALSE
      BY <1>1, <1>a, <2>3 DEF ApplyUpdate, RemoveRecord, Recover, InFlight
    <2> QED
      BY <1>1, <2>2, <2>3, RecordsTouched DEF LookUp, Crash, Exit, Boot, disk
  <1>2. CASE status[j] # "absent"
    <2>1. j \in tree
      BY <1>2 DEF TreeInv, TreeKept
    <2>2. ASSUME NEW k \in Jobs, RemoveTree(k) PROVE j \in tree'
      <3>1. chain[k] \in Seq(Change) /\ chain[k] # <<>> /\ Head(chain[k]).to = "purge"
        BY <2>2 DEF RemoveTree, TreeInv, IInv, TypeOK
      <3>2. 1 \in 1..Len(chain[k]) /\ chain[k][1].to = "purge"
        BY <3>1
      <3>3. status[k] = "absent"
        BY <1>a, <3>2 DEF PurgeFirst
      <3> QED
        BY <1>2, <2>1, <2>2, <3>3 DEF RemoveTree
    <2> QED
      BY <2>1, <2>2, TreeTouched
  <1> QED
    BY <1>1, <1>2

LEMMA InitTree == Init => TreeInv
  <1> SUFFICES ASSUME Init PROVE TreeInv
    OBVIOUS
  <1>1. BornSound
    BY DEF Init, BornSound, NoRun, NoClient
  <1>2. PurgeFirst /\ TreeKept
    BY DEF Init, PurgeFirst, TreeKept
  <1> QED
    BY <1>1, <1>2, InitIInv DEF TreeInv

LEMMA NextIInv == IInv /\ [Next]_vars => IInv'
  BY NextTypeOK, NextRecords, NextSound DEF IInv, Records

LEMMA TreeInvariant == Spec => []TreeInv
  <1>1. TreeInv /\ [Next]_vars => TreeInv'
    BY NextIInv, NextBorn, NextPurge, NextTree DEF TreeInv
  <1> QED
    BY InitTree, <1>1, PTL DEF Spec

\* gc.mjs "a client never sees a job that claims success with nothing behind it": through
\* removals in two halves, failed writes, recovery and children that outlive their
\* record, a success has its tree.
THEOREM SuccessKeepsTree == Spec => []SuccessHasTree
  <1>1. TreeInv => SuccessHasTree
    BY DEF TreeInv, TreeKept, SuccessHasTree
  <1> QED
    BY TreeInvariant, <1>1, PTL

-----------------------------------------------------------------------------
(* Who waits for a pending change.  From here on writes do not fail: a       *)
(* caller whose write failed gives up, and nobody answers for the record.    *)

\* The outcome of a run is the last change it makes, and a request has one change
\* pending at a time.
Ordered(s) ==
  \A i, k \in 1..Len(s) :
    /\ i < k /\ s[i].by \in RunIds /\ s[i].to # "running" => s[k].by # s[i].by
    /\ i # k /\ s[i].by \in Clients => s[k].by # s[i].by

LEMMA OrderedTail ==
  ASSUME NEW s \in Seq(Change), s # <<>>, Ordered(s)
  PROVE  /\ Ordered(Tail(s))
         /\ Head(s).by \in Clients \/ (Head(s).by \in RunIds /\ Head(s).to # "running")
              => \A i \in 1..Len(Tail(s)) : Tail(s)[i].by # Head(s).by
  <1>1. \A i \in 1..Len(Tail(s)) : i + 1 \in 1..Len(s) /\ Tail(s)[i] = s[i + 1]
    BY TailOwes
  <1>2. Head(s) = s[1] /\ 1 \in 1..Len(s) /\ Len(Tail(s)) \in Nat
    OBVIOUS
  <1>3. Ordered(Tail(s))
    <2> SUFFICES ASSUME NEW i \in 1..Len(Tail(s)), NEW k \in 1..Len(Tail(s))
                 PROVE  LET t == Tail(s) IN
                        /\ i < k /\ t[i].by \in RunIds /\ t[i].to # "running" => t[k].by # t[i].by
                        /\ i # k /\ t[i].by \in Clients => t[k].by # t[i].by
      BY DEF Ordered
    <2>1. i + 1 \in 1..Len(s) /\ k + 1 \in 1..Len(s) /\ Tail(s)[i] = s[i + 1] /\ Tail(s)[k] = s[k + 1]
      BY <1>1
    <2>2. (i < k => i + 1 < k + 1) /\ (i # k => i + 1 # k + 1)
      BY <1>2
    <2> QED
      BY <2>1, <2>2 DEF Ordered
  <1>4. ASSUME NEW i \in 1..Len(Tail(s)),
               Head(s).by \in Clients \/ (Head(s).by \in RunIds /\ Head(s).to # "running")
        PROVE  Tail(s)[i].by # Head(s).by
    <2>1. 1 < i + 1
      BY <1>2
    <2> QED
      BY <1>1, <1>2, <1>4, <2>1 DEF Ordered
  <1> QED
    BY <1>3, <1>4

LEMMA OrderedAppend ==
  ASSUME NEW s \in Seq(Change), Ordered(s), NEW op \in Change,
         \A i \in 1..Len(s) : s[i].by = op.by => s[i].by \notin Clients
                                                 /\ (s[i].by \in RunIds => s[i].to = "running")
  PROVE  Ordered(Append(s, op))
  <1> SUFFICES ASSUME NEW i \in 1..(Len(s) + 1), NEW k \in 1..(Len(s) + 1)
               PROVE  LET t == Append(s, op) IN
                      /\ i < k /\ t[i].by \in RunIds /\ t[i].to # "running" => t[k].by # t[i].by
                      /\ i # k /\ t[i].by \in Clients => t[k].by # t[i].by
    BY DEF Ordered
  <1>1. /\ Len(s) \in Nat /\ \A n \in 1..Len(s) : Append(s, op)[n] = s[n]
        /\ Append(s, op)[Len(s) + 1] = op
    OBVIOUS
  <1>2. (i \in 1..Len(s) \/ i = Len(s) + 1) /\ (k \in 1..Len(s) \/ k = Len(s) + 1)
    BY <1>1
  <1> HIDE DEF Ordered
  <1>3. CASE i \in 1..Len(s) /\ k \in 1..Len(s)
    BY <1>1, <1>3 DEF Ordered
  <1>4. CASE i = Len(s) + 1 /\ k \in 1..Len(s)
    BY <1>1, <1>4
  <1>5. CASE i \in 1..Len(s) /\ k = Len(s) + 1
    BY <1>1, <1>5
  <1>6. CASE i = k
    BY <1>1, <1>6
  <1> QED
    BY <1>2, <1>3, <1>4, <1>5, <1>6

LEMMA OrderedRewrite ==
  ASSUME NEW s \in Seq(Change), s # <<>>, Ordered(s), Head(s).to = "absent", Head(s).by \notin RunIds
  PROVE  Ordered(<<[Head(s) EXCEPT !.to = "purge"]>> \o Tail(s))
  <1> DEFINE new == [Head(s) EXCEPT !.to = "purge"]
             t == <<new>> \o Tail(s)
  <1>1. Head(s) \in Change /\ Head(s) = s[1] /\ 1 \in 1..Len(s)
    OBVIOUS
  <1>2. new \in Change /\ new.by = s[1].by
    BY <1>1 DEF Change, TERMINAL
  <1> HIDE DEF new
  <1>3. /\ Len(t) = Len(s) /\ Len(s) \in Nat /\ t[1] = new
        /\ \A i \in 1..Len(s) : i # 1 => t[i] = s[i]
    BY <1>2
  <1>4. \A i \in 1..Len(s) : t[i].by = s[i].by /\ (t[i].to = s[i].to \/ t[i].by \notin RunIds)
    BY <1>1, <1>2, <1>3
  <1> HIDE DEF t
  <1>5. Ordered(t)
    BY <1>3, <1>4 DEF Ordered
  <1> QED
    BY <1>5 DEF t, new

-----------------------------------------------------------------------------
(* One step seen from a run, from a request, from the map and from a record  *)

LEMMA RunSteps ==
  ASSUME IInv, [Next]_vars, ~FailingWrites, NEW r \in RunIds
  PROVE  \/ run'[r] = run[r]
         \/ \E e \in listed : Launch(e, r)
         \/ ChildBegin(r) \/ Overrun(r) \/ CloseRead(r) \/ RecordOutcome(r)
         \/ \E outcome \in TERMINAL : ChildClose(r, outcome)
         \/ /\ run'[r] = NoRun
            /\ \E k \in Jobs : /\ ApplyUpdate(k) \/ RemoveTree(k)
                              /\ Head(chain[k]).by = r /\ Head(chain[k]).to # "running"
         \/ run'[r] = [run[r] EXCEPT !.watched = FALSE]
         \/ /\ run'[r] = [run[r] EXCEPT !.term = TRUE] /\ Live(r)
            /\ CgroupStop \/ \E c \in Clients : CancelResumes(c) /\ client[c].run = r
         \/ (Crash \/ Exit) /\ run'[r] = NoRun
  <1> run \in [RunIds -> RunRecord]
    BY DEF IInv, TypeOK
  <1>1. ASSUME NEW e \in listed, NEW q \in RunIds, Launch(e, q)
        PROVE  run'[r] = run[r] \/ Launch(e, r)
    BY <1>1 DEF Launch
  <1>2. ASSUME NEW q \in RunIds, ChildBegin(q) \/ Overrun(q) \/ CloseRead(q) \/ RecordOutcome(q)
        PROVE  run'[r] = run[r] \/ ChildBegin(r) \/ Overrun(r) \/ CloseRead(r) \/ RecordOutcome(r)
    <2>1. r # q => run'[r] = run[r]
      BY <1>2 DEF ChildBegin, Overrun, CloseRead, RecordOutcome
    <2> QED
      BY <1>2, <2>1
  <1>3. ASSUME NEW q \in RunIds, NEW outcome \in TERMINAL, ChildClose(q, outcome)
        PROVE  run'[r] = run[r] \/ ChildClose(r, outcome)
    <2>1. r # q => run'[r] = run[r]
      BY <1>3 DEF ChildClose
    <2> QED
      BY <1>3, <2>1
  <1>4. ASSUME NEW k \in Jobs, ApplyUpdate(k) \/ RemoveTree(k)
        PROVE  \/ run'[r] = run[r]
               \/ run'[r] = NoRun /\ Head(chain[k]).by = r /\ Head(chain[k]).to # "running"
    BY <1>4 DEF ApplyUpdate, RemoveTree, Done
  <1>5. ASSUME NEW c \in Clients, Cancel(c)
        PROVE  run'[r] = run[r] \/ run'[r] = [run[r] EXCEPT !.watched = FALSE]
    BY <1>5 DEF Cancel
  <1>6. ASSUME NEW c \in Clients, CancelResumes(c)
        PROVE  \/ run'[r] = run[r]
               \/ run'[r] = [run[r] EXCEPT !.term = TRUE] /\ Live(r) /\ client[c].run = r
    BY <1>6 DEF CancelResumes
  <1>7. ASSUME NEW c \in Clients, CancelQueued(c) \/ DeleteResumes(c) \/ \E j \in Jobs : DeleteRead(c, j)
        PROVE  run'[r] = run[r]
    BY <1>7 DEF CancelQueued, DeleteResumes, DeleteRead, queue
  <1>8. CASE Stop
    BY <1>8 DEF Stop
  <1>9. CASE Crash \/ Exit
    BY <1>9 DEF Crash, Exit, Boot
  <1>10. ASSUME NEW k \in Jobs, ApplyFails(k) PROVE FALSE
    BY <1>10 DEF ApplyFails
  <1> QED
    BY <1>1, <1>2, <1>3, <1>4, <1>5, <1>6, <1>7, <1>8, <1>9, <1>10, RunsTouched

LEMMA ClientSteps ==
  ASSUME IInv, [Next]_vars, ~FailingWrites, NEW c \in Clients
  PROVE  \/ client'[c] = client[c]
         \/ \E j \in Jobs : DeleteRead(c, j)
         \/ Cancel(c) \/ CancelQueued(c) \/ CancelResumes(c) \/ DeleteResumes(c)
         \/ /\ client'[c] = NoClient
            /\ \E k \in Jobs : /\ ApplyUpdate(k) \/ RemoveTree(k)
                              /\ Head(chain[k]).by = c /\ Head(chain[k]).to # "cancelled"
         \/ (Crash \/ Exit) /\ client'[c] = NoClient
  <1> client \in [Clients -> ClientRecord]
    BY DEF IInv, TypeOK
  <1>1. ASSUME NEW q \in RunIds, \/ ChildBegin(q) \/ Overrun(q) \/ CloseRead(q) \/ RecordOutcome(q)
                                 \/ \E outcome \in TERMINAL : ChildClose(q, outcome)
                                 \/ \E e \in listed : Launch(e, q)
        PROVE  client'[c] = client[c]
    BY <1>1 DEF ChildBegin, Overrun, CloseRead, RecordOutcome, ChildClose, Launch, server
  <1>2. ASSUME NEW k \in Jobs, ApplyUpdate(k) \/ RemoveTree(k)
        PROVE  \/ client'[c] = client[c]
               \/ client'[c] = NoClient /\ Head(chain[k]).by = c /\ Head(chain[k]).to # "cancelled"
    BY <1>2 DEF ApplyUpdate, RemoveTree, Done
  <1>3. ASSUME NEW d \in Clients, Cancel(d) \/ CancelQueued(d) \/ CancelResumes(d) \/ DeleteResumes(d),
               d # c
        PROVE  client'[c] = client[c]
    BY <1>3 DEF Cancel, CancelQueued, CancelResumes, DeleteResumes, Remove
  <1>4. ASSUME NEW d \in Clients, NEW j \in Jobs, DeleteRead(d, j), d # c PROVE client'[c] = client[c]
    BY <1>4 DEF DeleteRead
  <1>5. CASE Stop
    BY <1>5 DEF Stop
  <1>6. CASE Crash \/ Exit
    BY <1>6 DEF Crash, Exit, Boot
  <1>7. ASSUME NEW k \in Jobs, ApplyFails(k) PROVE FALSE
    BY <1>7 DEF ApplyFails
  <1> QED
    BY <1>1, <1>2, <1>3, <1>4, <1>5, <1>6, <1>7, RunsTouched

\* Nothing else touches the map.
LEMMA RunningTouched ==
  ASSUME [Next]_vars
  PROVE  \/ \E e \in listed, r \in RunIds : Launch(e, r)
         \/ \E r \in RunIds, outcome \in TERMINAL : ChildClose(r, outcome)
         \/ \E c \in Clients : CancelResumes(c)
         \/ Crash \/ Exit
         \/ UNCHANGED running
  BY ZenonT(60) DEF Next, vars, disk, queue, server, LoopStep, ChildStep, HandlerStep, StoreStep, ClientStep,
     BootStep, LookUp, Create, Wake, ClaimAgain, StartListing, ReadNext, ClaimNothing, ChildBegin,
     ChildWrite, Overrun, CloseRead, RecordOutcome, ApplyUpdate, RemoveRecord, RemoveTree,
     ApplyFails, GcStep, GcFind, GcRemove, GcEnough, Cancel, CancelQueued, DeleteResumes, DeleteRead, Stop, Recovered, Recover

LEMMA MapSteps ==
  ASSUME IInv, [Next]_vars, NEW j \in Jobs
  PROVE  \/ running'[j] = running[j]
         \/ \E e \in listed, r \in RunIds : Launch(e, r) /\ e.job = j /\ running'[j] = r /\ running[j] = 0
         \/ /\ running'[j] = 0
            /\ \/ \E r \in RunIds, outcome \in TERMINAL : ChildClose(r, outcome) /\ run[r].job = j
               \/ \E c \in Clients : CancelResumes(c) /\ client[c].job = j
               \/ Crash \/ Exit
  <1> running \in [Jobs -> RunIds \cup {0}]
    BY DEF IInv, TypeOK
  <1>1. ASSUME NEW e \in listed, NEW r \in RunIds, Launch(e, r)
        PROVE  running'[j] = running[j] \/ (e.job = j /\ running'[j] = r /\ running[j] = 0)
    BY <1>1 DEF Launch, Claimable, Eligible
  <1>2. ASSUME NEW r \in RunIds, NEW outcome \in TERMINAL, ChildClose(r, outcome)
        PROVE  running'[j] = running[j] \/ (running'[j] = 0 /\ run[r].job = j)
    BY <1>2 DEF ChildClose
  <1>3. ASSUME NEW c \in Clients, CancelResumes(c)
        PROVE  running'[j] = running[j] \/ (running'[j] = 0 /\ client[c].job = j)
    BY <1>3 DEF CancelResumes
  <1>4. CASE Crash \/ Exit
    BY <1>4 DEF Crash, Exit, Boot
  <1>5. CASE UNCHANGED running
    BY <1>5
  <1> QED
    BY <1>1, <1>2, <1>3, <1>4, <1>5, RunningTouched

LEMMA StatusSteps ==
  ASSUME IInv, [Next]_vars, NEW j \in Jobs
  PROVE  \/ status'[j] = status[j]
         \/ Create(j) /\ status'[j] = "queued"
         \/ ApplyUpdate(j) /\ status[j] # "absent" /\ status'[j] = Head(chain[j]).to
         \/ RemoveRecord(j) /\ status'[j] = "absent"
         \/ Recover(j) /\ status'[j] \in {"queued", "failed"}
  <1> status \in [Jobs -> Status]
    BY DEF IInv, TypeOK
  <1>1. CASE LookUp \/ Crash \/ Exit
    BY <1>1 DEF LookUp, Crash, Exit, Boot, disk
  <1>2. ASSUME NEW k \in Jobs, Create(k)
        PROVE  status'[j] = status[j] \/ (k = j /\ status'[j] = "queued")
    BY <1>2 DEF Create
  <1>3. ASSUME NEW k \in Jobs, ApplyUpdate(k)
        PROVE  \/ status'[j] = status[j]
               \/ k = j /\ status[j] # "absent" /\ status'[j] = Head(chain[j]).to
    BY <1>3 DEF ApplyUpdate
  <1>4. ASSUME NEW k \in Jobs, RemoveRecord(k)
        PROVE  status'[j] = status[j] \/ (k = j /\ status'[j] = "absent")
    BY <1>4 DEF RemoveRecord
  <1>5. ASSUME NEW k \in Jobs, Recover(k)
        PROVE  status'[j] = status[j] \/ (k = j /\ status'[j] \in {"queued", "failed"})
    BY <1>5 DEF Recover, InFlight
  <1>6. CASE UNCHANGED <<status, attempt, nextJob, posting>>
    BY <1>6
  <1> QED
    BY <1>1, <1>2, <1>3, <1>4, <1>5, <1>6, RecordsTouched

-----------------------------------------------------------------------------
(* Whoever made a pending change still waits for it.                         *)

OpSound(j, op) ==
  /\ op.to \in {"absent", "purge"} => op.by \notin RunIds
  /\ op.by \in Clients => /\ client[op.by].job = j
                          /\ client[op.by].pc \in {"cancelling", "dropping", "removing"}
                          /\ op.to \in {"cancelled", "absent", "purge"}
  /\ op.by \in RunIds /\ op.to # "running" => run[op.by].job = j /\ run[op.by].pc = "recording"

IdleSound ==
  /\ \A c \in Clients : client[c].pc = "idle" => client[c] = NoClient
  /\ \A r \in RunIds : run[r].pc = "free" => run[r] = NoRun

ActorSound ==
  /\ IdleSound
  /\ \A j \in Jobs : Ordered(chain[j])
  /\ \A j \in Jobs : \A op \in Change : Pends(j, op) => OpSound(j, op)

ActorInv == TreeInv /\ ActorSound

LEMMA RunIdsApart == \A x : ~(x \in Clients /\ x \in RunIds) /\ 0 \notin RunIds /\ 0 \notin Clients
  BY NatAssumption, ClientAssumption DEF RunIds

LEMMA NextIdle ==
  ASSUME IInv, IdleSound, [Next]_vars, ~FailingWrites
  PROVE  IdleSound'
  <1> run \in [RunIds -> RunRecord] /\ client \in [Clients -> ClientRecord]
    BY DEF IInv, TypeOK
  <1>1. ASSUME NEW c \in Clients, client'[c].pc = "idle" PROVE client'[c] = NoClient
    <2>1. ~Cancel(c) /\ ~CancelQueued(c) /\ ~CancelResumes(c) /\ ~DeleteResumes(c)
      BY <1>1 DEF Cancel, CancelQueued, CancelResumes, DeleteResumes, Remove, ClientRecord
    <2>2. \A j \in Jobs : ~DeleteRead(c, j)
      BY <1>1 DEF DeleteRead
    <2> QED
      BY <1>1, <2>1, <2>2, ClientSteps DEF IdleSound
  <1>2. ASSUME NEW r \in RunIds, run'[r].pc = "free" PROVE run'[r] = NoRun
    <2>1. ASSUME NEW e \in listed PROVE ~Launch(e, r)
      BY <1>2 DEF Launch, NoRun
    <2>2. ~ChildBegin(r) /\ ~Overrun(r) /\ ~RecordOutcome(r)
      BY <1>2 DEF ChildBegin, Overrun, RecordOutcome, RunRecord, Live
    <2>3. \A outcome \in TERMINAL : ~ChildClose(r, outcome)
      BY <1>2 DEF ChildClose, NoRun
    <2>4. CloseRead(r) => run'[r] = NoRun
      BY <1>2 DEF CloseRead, RunRecord
    <2>5. run'[r] = [run[r] EXCEPT !.watched = FALSE] \/ run'[r] = [run[r] EXCEPT !.term = TRUE]
            => run[r].pc = "free" /\ ~Live(r)
      BY <1>2 DEF RunRecord, Live
    <2>6. CASE run'[r] = [run[r] EXCEPT !.watched = FALSE]
      <3>1. run[r] = NoRun
        BY <2>5, <2>6 DEF IdleSound
      <3>2. \A x \in RunRecord : x.watched = FALSE => [x EXCEPT !.watched = FALSE] = x
        BY DEF RunRecord
      <3>3. NoRun \in RunRecord /\ NoRun.watched = FALSE
        BY BootType DEF NoRun
      <3> QED
        BY <2>6, <3>1, <3>2, <3>3
    <2> QED
      BY <1>2, <2>1, <2>2, <2>3, <2>4, <2>5, <2>6, RunSteps DEF IdleSound
  <1> QED
    BY <1>1, <1>2 DEF IdleSound

\* A change that was pending already keeps whoever made it.
LEMMA OldOpSound ==
  ASSUME ActorInv, [Next]_vars, ~FailingWrites, NEW j \in Jobs, NEW op \in Change,
         Pends(j, op), Pends(j, op)'
  PROVE  OpSound(j, op)'
  <1>a. IInv /\ ActorSound /\ OpSound(j, op)
    BY DEF ActorInv, TreeInv, ActorSound
  <1> run \in [RunIds -> RunRecord] /\ client \in [Clients -> ClientRecord]
    BY <1>a DEF IInv, TypeOK
  <1>b. chain'[j] # <<>> /\ ~Crash /\ ~Exit
    BY DEF Pends, Crash, Exit, Boot
  <1>c. ASSUME NEW k \in Jobs, ApplyUpdate(k) \/ RemoveTree(k), Head(chain[k]).by = op.by,
               op.by \in Clients \/ (op.by \in RunIds /\ op.to # "running"),
               Head(chain[k]).by \in Clients \/ (Head(chain[k]).by \in RunIds /\ Head(chain[k]).to # "running")
        PROVE  FALSE
    <2>1. chain[k] # <<>> /\ chain' = [chain EXCEPT ![k] = Tail(@)]
      BY <1>c DEF ApplyUpdate, RemoveTree
    <2>2. Pends(k, Head(chain[k])) /\ Head(chain[k]) \in Change
      BY <1>a, <2>1, HeadPends
    <2>3. k = j
      BY <1>a, <1>c, <2>2 DEF ActorSound, OpSound
    <2>4. chain[j] \in Seq(Change) /\ chain'[j] = Tail(chain[j]) /\ Ordered(chain[j])
      BY <1>a, <2>1, <2>3 DEF IInv, TypeOK, ActorSound
    <2>5. \A i \in 1..Len(Tail(chain[j])) : Tail(chain[j])[i].by # op.by
      BY <1>c, <2>1, <2>3, <2>4, OrderedTail
    <2> QED
      BY <2>4, <2>5 DEF Pends
  <1>1. ASSUME op.by \in Clients
        PROVE  /\ client'[op.by].job = j
               /\ client'[op.by].pc \in {"cancelling", "dropping", "removing"}
    <2> DEFINE c == op.by
    <2>1. client[c].job = j /\ client[c].pc \in {"cancelling", "dropping", "removing"} /\ Pending(j, c)
      BY <1>1, <1>a DEF OpSound, Pends, Pending
    <2>2. ~Cancel(c) /\ ~CancelQueued(c) /\ ~CancelResumes(c) /\ ~DeleteResumes(c)
      BY <2>1 DEF Cancel, CancelQueued, CancelResumes, DeleteResumes
    <2>3. \A k \in Jobs : ~DeleteRead(c, k)
      BY <2>1 DEF DeleteRead
    <2>4. ASSUME NEW k \in Jobs, ApplyUpdate(k) \/ RemoveTree(k), Head(chain[k]).by = c PROVE FALSE
      BY <1>1, <1>c, <2>4
    <2> QED
      BY <1>1, <1>a, <1>b, <2>1, <2>2, <2>3, <2>4, ClientSteps
  <1>2. ASSUME op.by \in RunIds, op.to # "running"
        PROVE  run'[op.by].job = j /\ run'[op.by].pc = "recording"
    <2> DEFINE r == op.by
    <2>1. run[r].job = j /\ run[r].pc = "recording"
      BY <1>2, <1>a DEF OpSound
    <2>2. /\ \A e \in listed : ~Launch(e, r)
          /\ ~ChildBegin(r) /\ ~Overrun(r) /\ ~CloseRead(r) /\ ~RecordOutcome(r) /\ ~Live(r)
          /\ \A outcome \in TERMINAL : ~ChildClose(r, outcome)
      BY <2>1 DEF Launch, FreeRuns, ChildBegin, Overrun, CloseRead, RecordOutcome, ChildClose, Live
    <2>3. ASSUME NEW k \in Jobs, ApplyUpdate(k) \/ RemoveTree(k),
                 Head(chain[k]).by = r, Head(chain[k]).to # "running"
          PROVE  FALSE
      BY <1>2, <1>c, <2>3
    <2>4. [run[r] EXCEPT !.watched = FALSE].job = j /\ [run[r] EXCEPT !.watched = FALSE].pc = "recording"
      BY <1>2, <2>1 DEF RunRecord
    <2> HIDE DEF r
    <2>5. run'[r] = run[r] \/ run'[r] = [run[r] EXCEPT !.watched = FALSE]
      BY <1>a, <1>b, <1>2, <2>2, <2>3, RunSteps DEF r
    <2> QED
      BY <2>1, <2>4, <2>5 DEF r
  <1> QED
    BY <1>1, <1>2, <1>a DEF OpSound

\* So does a new one.
LEMMA NewOpSound ==
  ASSUME IInv, [Next]_vars, NEW j \in Jobs, NEW op \in Change, Added(j, op)
  PROVE  OpSound(j, op)'
  <1> run \in [RunIds -> RunRecord] /\ client \in [Clients -> ClientRecord]
    BY DEF IInv, TypeOK
  <1> USE RunIdsApart
  <1>1. ASSUME NEW e \in listed, NEW r \in RunIds,
               op = [to |-> "running", attempt |-> e.attempt + 1, by |-> r]
        PROVE  OpSound(j, op)'
    BY <1>1 DEF OpSound
  <1>2. ASSUME NEW r \in RunIds, RecordOutcome(r), j = run[r].job,
               op = [to |-> run[r].outcome, attempt |-> 0, by |-> r]
        PROVE  OpSound(j, op)'
    <2>1. run'[r].job = j /\ run'[r].pc = "recording" /\ run[r].outcome \in TERMINAL
      BY <1>2 DEF RecordOutcome, RunRecord, IInv, RunSound
    <2> QED
      BY <1>2, <2>1 DEF OpSound, TERMINAL
  <1>3. ASSUME op = [to |-> "absent", attempt |-> 0, by |-> 0] PROVE OpSound(j, op)'
    BY <1>3 DEF OpSound
  <1>4. ASSUME NEW c \in Clients, Cancel(c) \/ CancelQueued(c), j = client[c].job,
               op = [to |-> "cancelled", attempt |-> 0, by |-> c]
        PROVE  OpSound(j, op)'
    <2>1. client'[c].job = j /\ client'[c].pc \in {"cancelling", "dropping"}
      BY <1>4 DEF Cancel, CancelQueued, ClientRecord
    <2> QED
      BY <1>4, <2>1 DEF OpSound
  <1>5. ASSUME NEW c \in Clients, CancelResumes(c) \/ DeleteResumes(c), j = client[c].job,
               op = [to |-> "absent", attempt |-> 0, by |-> c]
        PROVE  OpSound(j, op)'
    <2>1. client'[c].job = j /\ client'[c].pc = "removing"
      BY <1>5 DEF CancelResumes, DeleteResumes, Remove, ClientRecord
    <2> QED
      BY <1>5, <2>1 DEF OpSound
  <1> QED
    BY <1>1, <1>2, <1>3, <1>4, <1>5 DEF Added

\* Whoever makes a change has no other that conflicts with it.
LEMMA AddedAlone ==
  ASSUME ActorInv, NEW j \in Jobs, NEW op \in Change, Added(j, op),
         NEW i \in 1..Len(chain[j]), chain[j][i].by = op.by
  PROVE  op.by \notin Clients /\ (op.by \in RunIds => chain[j][i].to = "running")
  <1> USE RunIdsApart
  <1>1. chain[j][i] \in Change /\ Pends(j, chain[j][i]) /\ Pending(j, op.by)
    BY DEF ActorInv, TreeInv, IInv, TypeOK, Pends, Pending
  <1>2. OpSound(j, chain[j][i])
    BY <1>1 DEF ActorInv, ActorSound
  <1>3. ASSUME NEW e \in listed, NEW r \in RunIds, Launch(e, r), op.by = r
        PROVE  op.by \notin Clients /\ (op.by \in RunIds => chain[j][i].to = "running")
    <2>1. run[r].pc = "free"
      BY <1>3 DEF Launch, FreeRuns
    <2> QED
      BY <1>2, <1>3, <2>1 DEF OpSound
  <1>4. ASSUME NEW r \in RunIds, RecordOutcome(r), op.by = r
        PROVE  op.by \notin Clients /\ (op.by \in RunIds => chain[j][i].to = "running")
    BY <1>2, <1>4 DEF OpSound, RecordOutcome
  <1>5. ASSUME NEW c \in Clients, j = client[c].job, op.by = c,
               Cancel(c) \/ CancelQueued(c) \/ CancelResumes(c) \/ DeleteResumes(c)
        PROVE  FALSE
    BY <1>1, <1>2, <1>5 DEF OpSound, Cancel, CancelQueued, CancelResumes, DeleteResumes
  <1> QED
    BY <1>3, <1>4, <1>5 DEF Added

LEMMA NextActors ==
  ASSUME ActorInv, [Next]_vars, ~FailingWrites
  PROVE  ActorSound'
  <1>a. IInv /\ IdleSound
    BY DEF ActorInv, TreeInv, ActorSound
  <1>1. ASSUME NEW j \in Jobs PROVE Ordered(chain[j])'
    <2>a. chain[j] \in Seq(Change) /\ Ordered(chain[j])
      BY <1>a DEF IInv, TypeOK, ActorInv, ActorSound
    <2>1. ASSUME NEW op \in Change, Added(j, op), chain'[j] = Append(chain[j], op)
          PROVE  Ordered(chain'[j])
      BY <2>a, <2>1, AddedAlone, OrderedAppend
    <2>2. CASE chain[j] # <<>> /\ chain'[j] = Tail(chain[j])
      BY <2>a, <2>2, OrderedTail
    <2>3. CASE RemoveRecord(j) /\ chain[j] # <<>>
               /\ chain'[j] = <<[Head(chain[j]) EXCEPT !.to = "purge"]>> \o Tail(chain[j])
      <3>1. Head(chain[j]).to = "absent" /\ Pends(j, Head(chain[j])) /\ Head(chain[j]) \in Change
        BY <1>a, <2>3, HeadPends DEF RemoveRecord
      <3>2. Head(chain[j]).by \notin RunIds
        BY <3>1 DEF ActorInv, ActorSound, OpSound
      <3> QED
        BY <2>a, <2>3, <3>1, <3>2, OrderedRewrite
    <2>4. CASE chain'[j] = <<>>
      BY <2>4 DEF Ordered
    <2> QED
      BY <1>a, <2>a, <2>1, <2>2, <2>3, <2>4, ChainSteps
  <1>2. ASSUME NEW j \in Jobs, NEW op \in Change, Pends(j, op)' PROVE OpSound(j, op)'
    <2>1. ASSUME RemoveRecord(j), Pends(j, Head(chain[j])), op = [Head(chain[j]) EXCEPT !.to = "purge"]
          PROVE  OpSound(j, op)'
      <3>1. /\ Head(chain[j]).to = "absent" /\ Head(chain[j]) \in Change
            /\ client' = client /\ run' = run
        BY <1>a, <2>1, PendsType DEF RemoveRecord, server, queue
      <3>2. OpSound(j, Head(chain[j]))
        BY <2>1, <3>1 DEF ActorInv, ActorSound
      <3>3. op.by = Head(chain[j]).by /\ op.to = "purge"
        BY <2>1, <3>1 DEF Change
      <3> QED
        BY <3>1, <3>2, <3>3 DEF OpSound
    <2> QED
      BY <1>a, <1>2, <2>1, PendsTouched, OldOpSound, NewOpSound
  <1> QED
    BY <1>1, <1>2, <1>a, NextIdle DEF ActorSound

\* A deletion at work on a job lasts until its record is gone.
LEMMA TouchedStays ==
  ASSUME ActorInv, [Next]_vars, ~FailingWrites, ~Crash, ~Exit,
         NEW j \in Jobs, DeleteTouched(j), Born(j)
  PROVE  DeleteTouched(j)'
  <1>a. IInv /\ IdleSound /\ PurgeFirst
    BY DEF ActorInv, ActorSound, TreeInv
  <1> client \in [Clients -> ClientRecord] /\ status \in [Jobs -> Status]
    BY <1>a DEF IInv, TypeOK
  <1>1. CASE status[j] = "absent"
    BY <1>a, <1>1, AbsentStays DEF DeleteTouched
  <1>2. ASSUME NEW c \in Clients, client[c].job = j PROVE DeleteTouched(j)'
    <2>1. ASSUME NEW k \in Jobs, DeleteRead(c, k) PROVE FALSE
      BY <1>2, <1>a, <2>1 DEF DeleteRead, IdleSound, NoClient, Jobs
    <2>2. ASSUME Cancel(c) \/ CancelQueued(c) \/ CancelResumes(c) \/ DeleteResumes(c)
          PROVE  client'[c].job = j
      BY <1>2, <2>2 DEF Cancel, CancelQueued, CancelResumes, DeleteResumes, Remove, ClientRecord
    <2>3. ASSUME NEW k \in Jobs, ApplyUpdate(k) \/ RemoveTree(k),
                 Head(chain[k]).by = c, Head(chain[k]).to # "cancelled"
          PROVE  status[j] = "absent"
      <3>1. /\ chain[k] # <<>> /\ chain[k] \in Seq(Change)
            /\ Pends(k, Head(chain[k])) /\ Head(chain[k]) \in Change
        BY <1>a, <2>3, HeadPends DEF ApplyUpdate, RemoveTree, IInv, TypeOK
      <3>2. k = j /\ Head(chain[k]).to \in {"cancelled", "absent", "purge"}
        BY <1>2, <2>3, <3>1 DEF ActorInv, ActorSound, OpSound
      <3>3. Head(chain[k]).to = "purge"
        BY <2>3, <3>2 DEF ApplyUpdate, RemoveTree
      <3>4. 1 \in 1..Len(chain[j]) /\ chain[j][1].to = "purge"
        BY <3>1, <3>2, <3>3
      <3> QED
        BY <1>a, <3>4 DEF PurgeFirst
    <2>4. client'[c].job = j \/ status[j] = "absent"
      BY <1>2, <1>a, <2>1, <2>2, <2>3, ClientSteps
    <2> QED
      BY <1>1, <2>4 DEF DeleteTouched
  <1> QED
    BY <1>1, <1>2 DEF DeleteTouched

-----------------------------------------------------------------------------
(* The running map and the children.  The map forgets a child when it closes *)
(* and when a DELETE cancels it: a child nobody deletes is in the map.       *)

MapExact ==
  /\ \A j \in Jobs : running[j] # 0 => run[running[j]].job = j /\ Live(running[j])
  /\ \A c \in Clients : client[c].run # 0 =>
       run[client[c].run].pc = "free" \/ run[client[c].run].job = client[c].job
  /\ \A r \in RunIds : Live(r) /\ ~DeleteTouched(run[r].job) => running[run[r].job] = r

MapExactInv == ActorInv /\ MapExact

\* A child stays alive, with its job, until it closes.
LEMMA LiveStays ==
  ASSUME ActorInv, [Next]_vars, ~FailingWrites, ~Crash, ~Exit,
         NEW r \in RunIds, Live(r), \A outcome \in TERMINAL : ~ChildClose(r, outcome)
  PROVE  run'[r].job = run[r].job /\ Live(r)'
  <1>a. IInv /\ ActorSound
    BY DEF ActorInv, TreeInv
  <1> run \in [RunIds -> RunRecord]
    BY <1>a DEF IInv, TypeOK
  <1> USE DEF Live
  <1> DEFINE Goal == run'[r].job = run[r].job /\ run'[r].pc \in {"spawned", "working"}
  <1>1. (\A e \in listed : ~Launch(e, r)) /\ ~CloseRead(r) /\ ~RecordOutcome(r)
    BY DEF Launch, FreeRuns, CloseRead, RecordOutcome
  <1>2. ASSUME NEW k \in Jobs, ApplyUpdate(k) \/ RemoveTree(k),
               Head(chain[k]).by = r, Head(chain[k]).to # "running"
        PROVE  FALSE
    <2>1. Pends(k, Head(chain[k])) /\ Head(chain[k]) \in Change
      BY <1>a, <1>2, HeadPends DEF ApplyUpdate, RemoveTree
    <2> QED
      BY <1>a, <1>2, <2>1 DEF ActorSound, OpSound
  <1>3. ChildBegin(r) \/ Overrun(r) => Goal
    BY DEF ChildBegin, Overrun, RunRecord
  <1>4. /\ [run[r] EXCEPT !.watched = FALSE].job = run[r].job
        /\ [run[r] EXCEPT !.watched = FALSE].pc \in {"spawned", "working"}
        /\ [run[r] EXCEPT !.term = TRUE].job = run[r].job
        /\ [run[r] EXCEPT !.term = TRUE].pc \in {"spawned", "working"}
    BY DEF RunRecord
  <1>5. \/ run'[r] = run[r] \/ ChildBegin(r) \/ Overrun(r)
        \/ run'[r] = [run[r] EXCEPT !.watched = FALSE] \/ run'[r] = [run[r] EXCEPT !.term = TRUE]
    BY <1>a, <1>1, <1>2, RunSteps
  <1> QED
    BY <1>3, <1>4, <1>5

LEMMA NextMapEntries ==
  ASSUME MapExactInv, [Next]_vars, ~FailingWrites, NEW j \in Jobs, NEW r \in RunIds, running'[j] = r
  PROVE  run'[r].job = j /\ Live(r)'
  <1>a. IInv /\ ActorInv /\ MapExact
    BY DEF MapExactInv, ActorInv, TreeInv
  <1> run \in [RunIds -> RunRecord] /\ running \in [Jobs -> RunIds \cup {0}]
    BY <1>a DEF IInv, TypeOK
  <1> USE RunIdsApart
  <1>1. ASSUME NEW e \in listed, NEW q \in RunIds, Launch(e, q), e.job = j, r = q
        PROVE  run'[r].job = j /\ run'[r].pc = "spawned"
    BY <1>1 DEF Launch, NoRun
  <1>2. CASE running'[j] = running[j]
    <2>1. run[r].job = j /\ Live(r) /\ r = running[j]
      BY <1>2, <1>a DEF MapExact
    <2>2. \A outcome \in TERMINAL : ~ChildClose(r, outcome)
      BY <1>2, <2>1 DEF ChildClose
    <2>3. ~Crash /\ ~Exit
      BY <1>2, <2>1 DEF Crash, Exit, Boot
    <2> QED
      BY <1>a, <2>1, <2>2, <2>3, LiveStays
  <1> QED
    BY <1>a, <1>1, <1>2, MapSteps DEF Live

\* The run a request cancels keeps its number until the request lets go of it.
LEMMA NextCancelled ==
  ASSUME MapExactInv, [Next]_vars, ~FailingWrites, NEW c \in Clients, client'[c].run # 0
  PROVE  run'[client'[c].run].pc = "free" \/ run'[client'[c].run].job = client'[c].job
  <1>a. IInv /\ ActorSound /\ MapExact
    BY DEF MapExactInv, ActorInv, TreeInv
  <1> /\ run \in [RunIds -> RunRecord] /\ running \in [Jobs -> RunIds \cup {0}]
      /\ client \in [Clients -> ClientRecord]
    BY <1>a DEF IInv, TypeOK
  <1> DEFINE r == client'[c].run
  <1>1. ASSUME NEW q \in RunIds, client[c].run = q
        PROVE  run'[q].pc = "free" \/ run'[q].job = client[c].job
    <2>1. \A e \in listed : ~Launch(e, q)
      BY <1>1 DEF Launch, FreeRuns
    <2>2. CASE run[q].pc = "free"
      <3>1. /\ ~ChildBegin(q) /\ ~Overrun(q) /\ ~CloseRead(q) /\ ~RecordOutcome(q) /\ ~Live(q)
            /\ \A outcome \in TERMINAL : ~ChildClose(q, outcome)
        BY <2>2 DEF ChildBegin, Overrun, CloseRead, RecordOutcome, ChildClose, Live
      <3>2. [run[q] EXCEPT !.watched = FALSE].pc = "free" /\ NoRun.pc = "free"
        BY <2>2 DEF RunRecord, NoRun
      <3>3. \/ run'[q] = run[q] \/ run'[q] = NoRun
            \/ run'[q] = [run[q] EXCEPT !.watched = FALSE]
        BY <1>a, <2>1, <2>2, <3>1, RunSteps
      <3> QED
        BY <2>2, <3>2, <3>3
    <2>3. CASE run[q].pc # "free"
      <3>1. run[q].job = client[c].job
        BY <1>1, <1>a, <2>3, RunIdsApart DEF MapExact
      <3>2. run'[q].job = run[q].job \/ run'[q] = NoRun
        BY <1>a, <2>1, RunJobKept
      <3> QED
        BY <3>1, <3>2 DEF NoRun
    <2> QED
      BY <2>2, <2>3
  <1>2. ASSUME Cancel(c) PROVE run'[r].job = client'[c].job
    <2>1. /\ client[c].job \in Jobs /\ running[client[c].job] \in RunIds
          /\ r = running[client[c].job] /\ client'[c].job = client[c].job
      BY <1>2, <1>a DEF Cancel, ClientRecord, IInv, ClientSound
    <2>2. run[r].job = client[c].job
      BY <1>a, <2>1, RunIdsApart DEF MapExact
    <2>3. run'[r].job = run[r].job
      BY <1>2, <2>1 DEF Cancel, RunRecord
    <2> QED
      BY <2>1, <2>2, <2>3
  <1>3. CancelQueued(c) => client[c].run = r /\ client'[c].job = client[c].job
    BY DEF CancelQueued, ClientRecord
  <1>4. CancelResumes(c) \/ DeleteResumes(c) => r = 0
    BY DEF CancelResumes, DeleteResumes, Remove, ClientRecord
  <1>5. ASSUME NEW j \in Jobs, DeleteRead(c, j) PROVE r = 0
    BY <1>5 DEF DeleteRead
  <1>6. client'[c] = NoClient => r = 0
    BY DEF NoClient
  <1> HIDE DEF r
  <1>7. client'[c] = client[c] => client[c].run = r /\ client'[c].job = client[c].job
    BY DEF r
  <1>8. ASSUME client[c].run = r, client'[c].job = client[c].job
        PROVE  run'[r].pc = "free" \/ run'[r].job = client'[c].job
    <2>1. r \in RunIds
      BY <1>8 DEF ClientRecord, r
    <2> QED
      BY <1>1, <1>8, <2>1
  <1> QED
    BY <1>a, <1>2, <1>3, <1>4, <1>5, <1>6, <1>7, <1>8, ClientSteps DEF r

\* A child that is alive was just launched, or was alive and has the same job.
LEMMA LiveBefore ==
  ASSUME IInv, [Next]_vars, ~FailingWrites, NEW r \in RunIds, Live(r)'
  PROVE  \/ \E e \in listed : Launch(e, r)
         \/ /\ Live(r) /\ run'[r].job = run[r].job
            /\ ~Crash /\ ~Exit /\ \A outcome \in TERMINAL : ~ChildClose(r, outcome)
  <1> run \in [RunIds -> RunRecord]
    BY DEF IInv, TypeOK
  <1> USE DEF Live
  <1>1. \A outcome \in TERMINAL : ~ChildClose(r, outcome)
    BY DEF ChildClose, NoRun
  <1>2. ~CloseRead(r) /\ ~RecordOutcome(r) /\ run'[r] # NoRun /\ ~Crash /\ ~Exit
    BY DEF CloseRead, RecordOutcome, NoRun, RunRecord, Crash, Exit, Boot
  <1>3. ChildBegin(r) \/ Overrun(r) => run[r].pc \in {"spawned", "working"} /\ run'[r].job = run[r].job
    BY DEF ChildBegin, Overrun, RunRecord
  <1>4. \/ run'[r] = [run[r] EXCEPT !.watched = FALSE] \/ run'[r] = [run[r] EXCEPT !.term = TRUE]
        => run[r].pc \in {"spawned", "working"} /\ run'[r].job = run[r].job
    BY DEF RunRecord
  <1> QED
    BY <1>1, <1>2, <1>3, <1>4, RunSteps

LEMMA NextKept ==
  ASSUME MapExactInv, [Next]_vars, ~FailingWrites,
         NEW r \in RunIds, NEW j, Live(r)', run'[r].job = j, ~DeleteTouched(j)'
  PROVE  running'[j] = r
  <1>a. IInv /\ ActorInv /\ MapExact /\ BornSound
    BY DEF MapExactInv, ActorInv, TreeInv
  <1> running \in [Jobs -> RunIds \cup {0}] /\ run \in [RunIds -> RunRecord]
    BY <1>a DEF IInv, TypeOK
  <1>1. ASSUME NEW e \in listed, Launch(e, r) PROVE running'[j] = r
    BY <1>1, <1>a DEF Launch, NoRun, IInv, TypeOK, Entry
  <1>2. ASSUME Live(r), run'[r].job = run[r].job, ~Crash, ~Exit,
               \A outcome \in TERMINAL : ~ChildClose(r, outcome)
        PROVE  running'[j] = r
    <2>1. run[r].job = j /\ j \in Jobs /\ Born(j)
      BY <1>2, <1>a DEF Live, IInv, RunSound, BornSound, Jobs
    <2>2. ~DeleteTouched(j)' /\ ~DeleteTouched(j)
      BY <1>2, <1>a, <2>1, TouchedStays
    <2>3. running[j] = r /\ run[r].job = j
      BY <1>2, <1>a, <2>1, <2>2 DEF MapExact
    <2>4. \A e \in listed, q \in RunIds : Launch(e, q) /\ e.job = j => running[j] # 0
      BY <2>3, RunIdsApart
    <2>5. ASSUME NEW q \in RunIds, NEW outcome \in TERMINAL, ChildClose(q, outcome), run[q].job = j
          PROVE  FALSE
      <3>1. Live(q)
        BY <2>5 DEF ChildClose
      <3>2. running[j] = q
        BY <1>a, <2>2, <2>5, <3>1 DEF MapExact
      <3> QED
        BY <1>2, <2>3, <2>5, <3>2
    <2>6. \A c \in Clients : client[c].job # j
      BY <2>2 DEF DeleteTouched
    <2>7. running'[j] = running[j]
      BY <1>2, <1>a, <2>1, <2>4, <2>5, <2>6, MapSteps
    <2> QED
      BY <1>2, <2>3, <2>7
  <1> QED
    BY <1>a, <1>1, <1>2, LiveBefore

LEMMA InitActors == Init => MapExactInv
  <1> SUFFICES ASSUME Init PROVE MapExactInv
    OBVIOUS
  <1>1. IdleSound
    BY DEF Init, IdleSound
  <1>2. \A j \in Jobs : chain[j] = <<>>
    BY DEF Init
  <1>3. ActorSound
    BY <1>1, <1>2 DEF ActorSound, Ordered, Pends
  <1>4. MapExact
    BY DEF Init, MapExact, NoRun, NoClient, Live
  <1> QED
    BY <1>3, <1>4, InitTree DEF MapExactInv, ActorInv

LEMMA NextMapExact ==
  ASSUME MapExactInv, [Next]_vars, ~FailingWrites
  PROVE  MapExactInv'
  <1>1. ActorInv'
    BY NextIInv, NextBorn, NextPurge, NextTree, NextActors DEF MapExactInv, ActorInv, TreeInv
  <1>2. MapExact'
    <2>a. running' \in [Jobs -> RunIds \cup {0}]
      BY NextTypeOK DEF MapExactInv, ActorInv, TreeInv, TypeOK
    <2>1. \A j \in Jobs : running'[j] # 0 => run'[running'[j]].job = j /\ run'[running'[j]].pc \in {"spawned", "working"}
      BY <2>a, NextMapEntries DEF Live
    <2>2. \A r \in RunIds : \A j : Live(r)' /\ run'[r].job = j /\ ~DeleteTouched(j)' => running'[j] = r
      BY NextKept
    <2> QED
      BY <2>1, <2>2, NextCancelled DEF MapExact, Live, DeleteTouched
  <1> QED
    BY <1>1, <1>2 DEF MapExactInv

\* queue.mjs "Two jobs never work the same domain at once", and README "Concurrency", for
\* the child processes themselves: but for those a DELETE is getting rid of, the children
\* alive respect both limits.  Not so when a removal fails: the request is then over, its
\* record stands, and its child is alive for up to ten more seconds outside the map.
THEOREM ChildrenWithinLimits == ~FailingWrites /\ Spec => []UndeletedChildrenWithinLimits
  <1> SUFFICES ASSUME ~FailingWrites PROVE Spec => []UndeletedChildrenWithinLimits
    OBVIOUS
  <1>1. MapExactInv /\ [Next]_vars => MapExactInv'
    BY NextMapExact
  <1>2. MapExactInv /\ RunningMapSound => UndeletedChildrenWithinLimits
    <2> SUFFICES ASSUME MapExactInv, RunningMapSound PROVE UndeletedChildrenWithinLimits
      OBVIOUS
    <2> DEFINE kept == {r \in RunIds : Live(r) /\ ~DeleteTouched(run[r].job)}
               f == [r \in kept |-> run[r].job]
    <2>1. \A r \in kept : run[r].job \in Active /\ running[run[r].job] = r
      <3> TAKE r \in kept
      <3>1. running[run[r].job] = r /\ r # 0
        BY RunIdsApart DEF MapExactInv, MapExact
      <3>2. run[r].job \in Jobs
        BY DEF MapExactInv, ActorInv, TreeInv, IInv, RunSound, Live
      <3> QED
        BY <3>1, <3>2 DEF Active
    <2>2. f \in Injection(kept, Active)
      BY <2>1 DEF Injection, IsInjective
    <2>3. IsFiniteSet(Active) /\ Cardinality(Active) \in Nat /\ Cardinality(Active) <= Concurrency
      BY ActiveFinite DEF Active, RunningMapSound, SlotsRespected, activeCount
    <2>4. Cardinality(kept) <= Cardinality(Active) /\ IsFiniteSet(kept)
      <3> HIDE DEF f, kept
      <3> QED
        BY <2>2, <2>3, FS_Injection
    <2>5. Cardinality(kept) <= Concurrency
      BY <2>3, <2>4, FS_CardinalityType, NatAssumption
    <2>6. ASSUME NEW r \in kept, NEW q \in kept, r # q PROVE ~Overlap(run[r].job, run[q].job)
      BY <2>1, <2>6 DEF RunningMapSound, DomainsRespected
    <2> QED
      BY <2>5, <2>6 DEF UndeletedChildrenWithinLimits
  <1> QED
    BY InitActors, RunningMapSafe, <1>1, <1>2, PTL DEF Spec

-----------------------------------------------------------------------------
(* Cancellations.  Only a request makes one up; a child reports one when it  *)
(* was asked to stop by a request, and a job whose record says `cancelled`   *)
(* is looked at again (from a stale listing) only while the request lasts.   *)
(* The children must not get the SIGTERM of the service itself, for they     *)
(* report that as a cancellation, too.                                       *)

CancelSound ==
  /\ \A r \in RunIds :
       run[r].job # 0 /\ (run[r].outcome = "cancelled" \/ (run[r].term /\ ~run[r].over))
         => DeleteTouched(run[r].job)
  /\ \A j \in Jobs : \A op \in Change : Pends(j, op) /\ op.to = "cancelled" => DeleteTouched(j)
  /\ \A j \in Jobs :
       status[j] = "cancelled" /\ ((\E e \in listed : e.job = j) \/ \E r \in RunIds : run[r].job = j)
         => DeleteTouched(j)

CancelInv == MapExactInv /\ CancelSound

LEMMA NextAsked ==
  ASSUME CancelInv, [Next]_vars, ~FailingWrites, ~CgroupStop, ~Crash, ~Exit,
         NEW r \in RunIds, NEW j \in Jobs, run'[r].job = j,
         run'[r].outcome = "cancelled" \/ (run'[r].term /\ ~run'[r].over)
  PROVE  DeleteTouched(j)'
  <1>a. IInv /\ ActorInv /\ MapExact /\ CancelSound /\ BornSound /\ j # 0
    BY RunIdsApart DEF CancelInv, MapExactInv, ActorInv, TreeInv, Jobs
  <1> run \in [RunIds -> RunRecord]
    BY <1>a DEF IInv, TypeOK
  <1> SUFFICES run[r].job = j /\ DeleteTouched(j)
    BY <1>a, TouchedStays DEF BornSound
  <1> DEFINE Asked == run[r].job = j /\ (run[r].outcome = "cancelled" \/ (run[r].term /\ ~run[r].over))
  <1>1. Asked => DeleteTouched(j)
    BY <1>a DEF CancelSound
  <1>2. CASE run'[r] = run[r]
    BY <1>1, <1>2
  <1>3. ASSUME NEW e \in listed, Launch(e, r) PROVE FALSE
    BY <1>3 DEF Launch, NoRun
  <1>4. CASE ChildBegin(r) \/ Overrun(r) \/ CloseRead(r) \/ RecordOutcome(r)
    <2>1. run'[r] # NoRun
      BY <1>a DEF NoRun
    <2> QED
      BY <1>1, <1>4, <2>1 DEF ChildBegin, Overrun, CloseRead, RecordOutcome, RunRecord
  <1>5. ASSUME NEW outcome \in TERMINAL, ChildClose(r, outcome) PROVE Asked
    <2>1. run'[r] = [NoRun EXCEPT !.job = run[r].job, !.pc = "closed", !.outcome = outcome]
      BY <1>5 DEF ChildClose
    <2>2. outcome = "cancelled" /\ run[r].job = j
      BY <2>1 DEF NoRun
    <2> QED
      BY <1>5, <2>2 DEF ChildClose, Outcomes
  <1>6. run'[r] # NoRun
    BY <1>a DEF NoRun
  <1>7. CASE run'[r] = [run[r] EXCEPT !.watched = FALSE]
    BY <1>1, <1>7 DEF RunRecord
  <1>8. ASSUME NEW c \in Clients, client[c].run = r, Live(r), run'[r] = [run[r] EXCEPT !.term = TRUE]
        PROVE  run[r].job = j /\ DeleteTouched(j)
    <2>1. run[r].job = j
      BY <1>8 DEF RunRecord
    <2>2. run[r].job = client[c].job
      BY <1>8, <1>a, RunIdsApart DEF MapExact, Live
    <2> QED
      BY <2>1, <2>2 DEF DeleteTouched
  <1> QED
    BY <1>a, <1>1, <1>2, <1>3, <1>4, <1>5, <1>6, <1>7, <1>8, RunSteps

LEMMA NextCancelSound ==
  ASSUME CancelInv, [Next]_vars, ~FailingWrites, ~CgroupStop
  PROVE  CancelSound'
  <1>a. IInv /\ ActorInv /\ MapExact /\ CancelSound /\ BornSound
    BY DEF CancelInv, MapExactInv, ActorInv, TreeInv
  <1>b. run' \in [RunIds -> RunRecord] /\ \A j \in Jobs : j # 0
    BY <1>a, NextTypeOK DEF TypeOK, Jobs
  <1>1. CASE Crash \/ Exit
    <2>1. /\ \A r \in RunIds : run'[r].job = 0
          /\ listed' = {} /\ \A j \in Jobs : chain'[j] = <<>>
      BY <1>1 DEF Crash, Exit, Boot, NoRun
    <2> QED
      BY <1>b, <2>1 DEF CancelSound, Pends
  <1>2. CASE ~Crash /\ ~Exit
    <2>1. \A r \in RunIds : \A j \in Jobs :
            run'[r].job = j /\ (run'[r].outcome = "cancelled" \/ (run'[r].term /\ ~run'[r].over))
              => DeleteTouched(j)'
      BY <1>2, NextAsked
    <2>2. ASSUME NEW j \in Jobs, NEW op \in Change, Pends(j, op)', op.to = "cancelled"
          PROVE  DeleteTouched(j)'
      <3>1. Born(j)
        <4>1. Added(j, op) => Born(j)
          BY <1>a, <1>b DEF BornSound, Added, GcRemove
        <4>2. Pends(j, op) \/ Pends(j, Head(chain[j])) => Born(j)
          BY <1>a, PendsType DEF BornSound
        <4> QED
          BY <1>a, <2>2, <4>1, <4>2, PendsTouched
      <3>2. DeleteTouched(j)
        <4>1. Pends(j, op) => DeleteTouched(j)
          BY <1>a, <2>2 DEF CancelSound
        <4>2. Added(j, op) => DeleteTouched(j)
          BY <1>a, <1>b, <2>2 DEF Added, CancelSound, DeleteTouched
        <4>3. op # [Head(chain[j]) EXCEPT !.to = "purge"] \/ ~Pends(j, Head(chain[j]))
          BY <1>a, <2>2, PendsType DEF Change
        <4> QED
          BY <1>a, <2>2, <4>1, <4>2, <4>3, PendsTouched
      <3> QED
        BY <1>2, <1>a, <3>1, <3>2, TouchedStays
    <2>3. ASSUME NEW j \in Jobs, status'[j] = "cancelled",
                 (\E e \in listed' : e.job = j) \/ \E r \in RunIds : run'[r].job = j
          PROVE  DeleteTouched(j)'
      <3>1. CASE status[j] = "cancelled"
        <4>1. ASSUME NEW e \in listed', e.job = j PROVE e \in listed
          BY <1>a, <2>3, <3>1, <4>1, FoundPresent
        <4>2. ASSUME NEW r \in RunIds, run'[r].job = j
              PROVE  (\E e \in listed : e.job = j) \/ \E q \in RunIds : run[q].job = j
          <5>1. run'[r] # NoRun
            BY <1>b, <4>2 DEF NoRun
          <5>2. ASSUME NEW e \in listed, Launch(e, r) PROVE e.job = j
            BY <4>2, <5>2, <1>a DEF Launch, NoRun, IInv, TypeOK
          <5> QED
            BY <1>a, <4>2, <5>1, <5>2, RunJobKept
        <4>3. (\E e \in listed : e.job = j) \/ \E q \in RunIds : run[q].job = j
          BY <2>3, <4>1, <4>2
        <4>4. DeleteTouched(j) /\ Born(j)
          BY <1>a, <1>b, <3>1, <4>3 DEF CancelSound, BornSound
        <4> QED
          BY <1>2, <1>a, <4>4, TouchedStays
      <3>2. CASE status[j] # "cancelled"
        <4>1. /\ chain[j] # <<>> /\ Pends(j, Head(chain[j])) /\ Head(chain[j]) \in Change
              /\ Head(chain[j]).to = "cancelled"
          <5>1. ApplyUpdate(j) /\ status'[j] = Head(chain[j]).to
            BY <1>a, <2>3, <3>2, StatusSteps
          <5> QED
            BY <1>a, <2>3, <5>1, HeadPends DEF ApplyUpdate
        <4>2. DeleteTouched(j) /\ Born(j)
          BY <1>a, <4>1 DEF CancelSound, BornSound
        <4> QED
          BY <1>2, <1>a, <4>2, TouchedStays
      <3> QED
        BY <3>1, <3>2
    <2>4. \A r \in RunIds : run'[r].job # 0 => run'[r].job \in Jobs
      BY <1>b DEF RunRecord
    <2> QED
      BY <2>1, <2>2, <2>3, <2>4 DEF CancelSound, DeleteTouched
  <1> QED
    BY <1>1, <1>2

LEMMA InitCancel == Init => CancelSound
  BY DEF Init, CancelSound, Pends, NoRun

\* README "DELETE": a record comes to say `cancelled` only while a DELETE of the job is
\* served, whichever of the request, the exit of the child and a stale launch gets to
\* write last.  Not so when SIGTERM reaches the whole control group, nor when a write
\* fails and the request gives up before its child has closed.
THEOREM CancelledByRequest ==
  ~FailingWrites /\ ~CgroupStop /\ Spec => CancelledOnlyByRequest
  <1> SUFFICES ASSUME ~FailingWrites, ~CgroupStop PROVE Spec => CancelledOnlyByRequest
    OBVIOUS
  <1> DEFINE Asked == \A j \in Jobs : status[j] # "cancelled" /\ status'[j] = "cancelled"
                                        => \E c \in Clients : client[c].job = j
  <1>1. CancelInv /\ [Next]_vars => CancelInv'
    BY NextMapExact, NextCancelSound DEF CancelInv
  <1>2. CancelInv /\ [Next]_vars => [Asked]_vars
    <2> SUFFICES ASSUME CancelInv, [Next]_vars, NEW j \in Jobs,
                        status[j] # "cancelled", status'[j] = "cancelled"
                 PROVE  \E c \in Clients : client[c].job = j
      OBVIOUS
    <2>a. IInv
      BY DEF CancelInv, MapExactInv, ActorInv, TreeInv
    <2>1. ApplyUpdate(j) /\ status[j] # "absent" /\ status'[j] = Head(chain[j]).to
      BY <2>a, StatusSteps
    <2>2. Pends(j, Head(chain[j])) /\ Head(chain[j]) \in Change
      BY <2>a, <2>1, HeadPends DEF ApplyUpdate
    <2> QED
      BY <2>1, <2>2 DEF CancelInv, CancelSound, DeleteTouched
  <1>3. Init => CancelInv
    BY InitActors, InitCancel DEF CancelInv
  <1> QED
    BY <1>1, <1>2, <1>3, PTL DEF Spec, CancelledOnlyByRequest

-----------------------------------------------------------------------------
(* Running records.  A record says `running` from when its change is applied *)
(* until its run writes an outcome, and the run does not let go before: it   *)
(* does when it reads `cancelled`, which is what CancelSound is for if the   *)
(* child may be gone before its `running` is written.                        *)

\* The run whose launch is yet to be recorded is there, and still alive unless
\* children may be gone at once.
LaunchKept(j, r) ==
  /\ ~QuickExit => run[r].job = j /\ Live(r)
  /\ QuickExit  => DeleteTouched(j) \/ run[r].job = j

Tracked ==
  /\ \A j \in Jobs : \A op \in Change :
       Pends(j, op) /\ op.to = "running" => op.by \in RunIds /\ LaunchKept(j, op.by)
  /\ \A j \in Jobs : Serving /\ status[j] = "running" =>
       DeleteTouched(j) \/ \E r \in RunIds : run[r].job = j
  /\ mode = "recovering" => \A j \in Jobs : status[j] = "running" => j \in boot

TrackInv == MapExactInv /\ AttInv /\ Tracked /\ (QuickExit => CancelSound)

LEMMA ModeTouched ==
  ASSUME [Next]_vars
  PROVE  Crash \/ Exit \/ Stop \/ Recovered \/ mode' = mode
  BY ZenonT(60) DEF Next, vars, disk, queue, server, LoopStep, ChildStep, HandlerStep, StoreStep, ClientStep,
     BootStep, LookUp, Create, Wake, ClaimAgain, StartListing, ReadNext, ClaimNothing, Launch, ChildBegin,
     ChildWrite, Overrun, ChildClose, CloseRead, RecordOutcome, ApplyUpdate, RemoveRecord, RemoveTree,
     ApplyFails, GcStep, GcFind, GcRemove, GcEnough, Cancel, CancelQueued, CancelResumes, DeleteResumes, Remove,
     DeleteRead, Recover

LEMMA BootTouched ==
  ASSUME [Next]_vars
  PROVE  \/ Crash \/ Exit \/ boot' = boot
         \/ \E j \in Jobs : Recover(j) /\ boot' = boot \ {j}
  BY ZenonT(60) DEF Next, vars, disk, queue, server, LoopStep, ChildStep, HandlerStep, StoreStep, ClientStep,
     BootStep, LookUp, Create, Wake, ClaimAgain, StartListing, ReadNext, ClaimNothing, Launch, ChildBegin,
     ChildWrite, Overrun, ChildClose, CloseRead, RecordOutcome, ApplyUpdate, RemoveRecord, RemoveTree,
     ApplyFails, GcStep, GcFind, GcRemove, GcEnough, Cancel, CancelQueued, CancelResumes, DeleteResumes, Remove,
     DeleteRead, Stop, Recovered, Recover

\* A run keeps its job while a later change of the run is pending, or the job is running.
LEMMA RunLetsGo ==
  ASSUME ActorInv, [Next]_vars, ~FailingWrites, ~Crash, ~Exit,
         NEW j \in Jobs, NEW r \in RunIds, run[r].job = j, run'[r].job # j
  PROVE  \/ status[j] = "cancelled"
         \/ \E op \in Change : ApplyUpdate(j) /\ op = Head(chain[j]) /\ op.by = r /\ op.to # "running"
  <1>a. IInv /\ ActorSound /\ j # 0
    BY RunIdsApart DEF ActorInv, TreeInv, Jobs
  <1> run \in [RunIds -> RunRecord]
    BY <1>a DEF IInv, TypeOK
  <1>1. run[r].pc # "free"
    BY <1>a DEF ActorSound, IdleSound, NoRun
  <1>2. \A e \in listed : ~Launch(e, r)
    BY <1>1 DEF Launch, FreeRuns
  <1>3. ~ChildBegin(r) /\ ~Overrun(r) /\ ~RecordOutcome(r)
    BY DEF ChildBegin, Overrun, RecordOutcome, RunRecord
  <1>4. \A outcome \in TERMINAL : ~ChildClose(r, outcome)
    BY DEF ChildClose, NoRun
  <1>5. CloseRead(r) => status[j] = "cancelled"
    BY DEF CloseRead, RunRecord
  <1>6. ASSUME NEW k \in Jobs, ApplyUpdate(k) \/ RemoveTree(k),
               Head(chain[k]).by = r, Head(chain[k]).to # "running"
        PROVE  ApplyUpdate(j) /\ Head(chain[j]) \in Change /\ k = j
    <2>1. Pends(k, Head(chain[k])) /\ Head(chain[k]) \in Change
      BY <1>a, <1>6, HeadPends DEF ApplyUpdate, RemoveTree
    <2>2. OpSound(k, Head(chain[k]))
      BY <1>a, <2>1 DEF ActorSound
    <2> QED
      BY <1>6, <2>1, <2>2 DEF OpSound, RemoveTree
  <1>7. /\ [run[r] EXCEPT !.watched = FALSE].job = run[r].job
        /\ [run[r] EXCEPT !.term = TRUE].job = run[r].job
    BY DEF RunRecord
  <1> QED
    BY <1>a, <1>2, <1>3, <1>4, <1>5, <1>6, <1>7, RunSteps

LEMMA NextLaunchKept ==
  ASSUME TrackInv, [Next]_vars, ~FailingWrites,
         NEW j \in Jobs, NEW op \in Change, Pends(j, op), Pends(j, op)', op.to = "running"
  PROVE  op.by \in RunIds /\ LaunchKept(j, op.by)'
  <1>a. IInv /\ ActorInv /\ ActorSound /\ BornSound /\ op.by \in RunIds /\ LaunchKept(j, op.by)
    BY DEF TrackInv, MapExactInv, ActorInv, TreeInv, Tracked
  <1>b. Born(j) /\ ~Crash /\ ~Exit
    <2>1. chain[j] # <<>> /\ chain'[j] # <<>>
      BY DEF Pends
    <2> QED
      BY <1>a, <2>1 DEF BornSound, Crash, Exit, Boot
  <1>c. DeleteTouched(j) => DeleteTouched(j)'
    BY <1>a, <1>b, TouchedStays
  <1> DEFINE r == op.by
  <1>1. CASE ~QuickExit
    <2>1. run[r].job = j /\ Live(r) /\ Pending(j, r)
      BY <1>1, <1>a DEF LaunchKept, Pends, Pending
    <2>2. \A outcome \in TERMINAL : ~ChildClose(r, outcome)
      BY <1>1, <2>1 DEF ChildClose
    <2> HIDE DEF r
    <2>3. run'[r].job = j /\ Live(r)'
      BY <1>a, <1>b, <2>1, <2>2, LiveStays DEF r
    <2> QED
      BY <1>1, <1>a, <2>3 DEF LaunchKept, r
  <1>2. CASE QuickExit
    <2> SUFFICES ASSUME ~DeleteTouched(j), run'[r].job # j PROVE FALSE
      BY <1>2, <1>a, <1>c DEF LaunchKept
    <2>1. run[r].job = j
      BY <1>2, <1>a DEF LaunchKept
    <2>2. status[j] # "cancelled"
      BY <1>2, <1>a, <2>1 DEF TrackInv, CancelSound
    <2>3. ASSUME ApplyUpdate(j), Head(chain[j]).by = r, Head(chain[j]).to # "running" PROVE FALSE
      <3>1. chain[j] # <<>> /\ chain[j] \in Seq(Change) /\ Ordered(chain[j]) /\ chain'[j] = Tail(chain[j])
        BY <1>a, <2>3 DEF ApplyUpdate, IInv, TypeOK, ActorSound
      <3>2. \A i \in 1..Len(Tail(chain[j])) : Tail(chain[j])[i].by # r
        BY <1>a, <2>3, <3>1, OrderedTail
      <3> QED
        BY <3>1, <3>2 DEF Pends
    <2> QED
      BY <1>a, <1>b, <2>1, <2>2, <2>3, RunLetsGo
  <1> QED
    BY <1>1, <1>2

LEMMA NextLaunched ==
  ASSUME TrackInv, [Next]_vars, ~FailingWrites,
         NEW j \in Jobs, NEW op \in Change, Pends(j, op)', op.to = "running"
  PROVE  op.by \in RunIds /\ LaunchKept(j, op.by)'
  <1>a. IInv
    BY DEF TrackInv, MapExactInv, ActorInv, TreeInv
  <1>1. ASSUME NEW e \in listed, NEW r \in RunIds, Launch(e, r), j = e.job,
               op = [to |-> "running", attempt |-> e.attempt + 1, by |-> r]
        PROVE  op.by \in RunIds /\ LaunchKept(j, op.by)'
    <2>1. run'[r].job = j /\ run'[r].pc = "spawned"
      BY <1>1, <1>a DEF Launch, NoRun, IInv, TypeOK
    <2> QED
      BY <1>1, <2>1 DEF LaunchKept, Live
  <1>2. \A r \in RunIds : RecordOutcome(r) => run[r].outcome # "running"
    BY <1>a DEF RecordOutcome, IInv, RunSound, TERMINAL
  <1>3. op # [Head(chain[j]) EXCEPT !.to = "purge"] \/ ~Pends(j, Head(chain[j]))
    BY <1>a, PendsType DEF Change
  <1>4. ASSUME Added(j, op)
        PROVE  \E e \in listed, r \in RunIds :
                 /\ Launch(e, r) /\ j = e.job
                 /\ op = [to |-> "running", attempt |-> e.attempt + 1, by |-> r]
    BY <1>2, <1>4 DEF Added
  <1> QED
    BY <1>a, <1>1, <1>3, <1>4, PendsTouched, NextLaunchKept

LEMMA NextServed ==
  ASSUME TrackInv, [Next]_vars, ~FailingWrites, NEW j \in Jobs, Serving', status'[j] = "running"
  PROVE  DeleteTouched(j)' \/ \E r \in RunIds : run'[r].job = j
  <1>a. IInv /\ ActorInv /\ BornSound /\ Tracked
    BY DEF TrackInv, MapExactInv, ActorInv, TreeInv
  <1>b. ~Crash /\ ~Exit
    BY DEF Serving, Crash, Exit, Boot
  <1>c. ASSUME DeleteTouched(j), status[j] # "absent" PROVE DeleteTouched(j)'
    BY <1>a, <1>b, <1>c, TouchedStays, PresentBorn
  <1>1. CASE status[j] = "running"
    <2>1. Serving
      <3>1. CASE mode = "recovering"
        <4>1. Recovered
          BY <1>b, <3>1, ModeTouched DEF Serving, Stop
        <4> QED
          BY <1>1, <1>a, <3>1, <4>1 DEF Recovered, Tracked
      <3> QED
        BY <1>a, <3>1 DEF Serving, IInv, TypeOK
    <2>2. ASSUME NEW r \in RunIds, run[r].job = j PROVE run'[r].job = j
      <3>1. ASSUME NEW op \in Change, ApplyUpdate(j), op = Head(chain[j]) PROVE op.to = "running"
        BY <1>1, <1>a, <3>1 DEF ApplyUpdate, IInv, TypeOK
      <3> QED
        BY <1>1, <1>a, <1>b, <2>2, <3>1, RunLetsGo
    <2> QED
      BY <1>1, <1>a, <1>c, <2>1, <2>2 DEF Tracked
  <1>2. CASE status[j] # "running"
    <2>1. ApplyUpdate(j) /\ status[j] # "absent" /\ Head(chain[j]).to = "running"
      BY <1>2, <1>a, StatusSteps
    <2>2. chain[j] # <<>> /\ run' = run /\ Head(chain[j]) \in Change /\ Pends(j, Head(chain[j]))
      BY <1>a, <2>1, HeadPends DEF ApplyUpdate, Done
    <2>3. Head(chain[j]).by \in RunIds /\ LaunchKept(j, Head(chain[j]).by)
      BY <1>a, <2>1, <2>2 DEF Tracked
    <2> QED
      BY <1>c, <2>1, <2>2, <2>3 DEF LaunchKept
  <1> QED
    BY <1>1, <1>2

LEMMA NextBoot ==
  ASSUME TrackInv, [Next]_vars, RecoverLimit >= MaxJobs,
         NEW j \in Jobs, mode' = "recovering", status'[j] = "running"
  PROVE  j \in boot'
  <1>a. IInv /\ AttemptSound /\ Tracked
    BY DEF TrackInv, AttInv
  <1> status \in [Jobs -> Status]
    BY <1>a DEF IInv, TypeOK
  <1>1. CASE Crash \/ Exit
    <2>1. boot' = Present /\ status' = status
      BY <1>1, NewestIsAll, NatAssumption DEF Crash, Exit, Boot, disk, Present
    <2> QED
      BY <2>1 DEF Present
  <1>2. CASE ~Crash /\ ~Exit
    <2>1. mode = "recovering"
      BY <1>2, RecoveringQuiet
    <2>2. ~ApplyUpdate(j) \/ Head(chain[j]).to # "running"
      <3> SUFFICES ASSUME ApplyUpdate(j), Head(chain[j]).to = "running" PROVE FALSE
        OBVIOUS
      <3>1. chain[j] \in Seq(Change) /\ chain[j] # <<>>
        BY <1>a DEF ApplyUpdate, IInv, TypeOK
      <3>2. 1 \in 1..Len(chain[j]) /\ chain[j][1].to = "running" /\ chain[j][1] \in Change
        BY <3>1
      <3>3. chain[j][1].attempt \in Int
        BY <3>2, NatAssumption DEF Change, TERMINAL
      <3>4. Owes(j, chain[j][1].attempt)
        BY <3>2 DEF Owes
      <3> QED
        BY <1>a, <2>1, <3>3, <3>4 DEF AttemptSound
    <2>3. status[j] = "running"
      BY <1>a, <2>2, StatusSteps
    <2>4. j \in boot
      BY <1>a, <2>1, <2>3 DEF Tracked
    <2>5. ~Recover(j)
      BY <2>3 DEF Recover, InFlight
    <2> QED
      BY <1>2, <2>4, <2>5, BootTouched
  <1> QED
    BY <1>1, <1>2

LEMMA NextTracked ==
  ASSUME TrackInv, [Next]_vars, ~FailingWrites, ~(CgroupStop /\ QuickExit), RecoverLimit >= MaxJobs
  PROVE  TrackInv'
  <1>1. MapExactInv'
    BY NextMapExact DEF TrackInv
  <1>2. AttInv'
    BY NextIInv, NextAttempts DEF TrackInv, AttInv
  <1>3. Tracked'
    <2>1. \A j \in Jobs : \A op \in Change :
            Pends(j, op)' /\ op.to = "running" => op.by \in RunIds /\ LaunchKept(j, op.by)'
      BY NextLaunched
    <2>2. \A j \in Jobs : Serving' /\ status'[j] = "running" =>
            DeleteTouched(j)' \/ \E r \in RunIds : run'[r].job = j
      BY NextServed
    <2>3. mode' = "recovering" => \A j \in Jobs : status'[j] = "running" => j \in boot'
      BY NextBoot
    <2> QED
      BY <2>1, <2>2, <2>3 DEF Tracked
  <1>4. QuickExit => CancelSound'
    BY NextCancelSound DEF TrackInv, CancelInv
  <1> QED
    BY <1>1, <1>2, <1>3, <1>4 DEF TrackInv

LEMMA InitTracked == Init => TrackInv
  <1> SUFFICES ASSUME Init PROVE TrackInv
    OBVIOUS
  <1>1. Tracked
    BY DEF Init, Tracked, Pends
  <1> QED
    BY <1>1, InitActors, InitAttempts, InitCancel DEF TrackInv

\* store.mjs "a job stuck in `running` forever is the single most confusing state a
\* polling client can hit": while the server serves, a `running` record has a child, a
\* close handler or a removal that will end it.  Recovery must look at every job; writes
\* must not fail (a lost outcome leaves the record behind); and a child that is gone
\* before it is recorded as running must not meet a cancellation by the SIGTERM of the
\* service: its handler lets that stand, and the `running` of its launch comes last.
THEOREM RunningTracked ==
  /\ ~FailingWrites /\ ~(CgroupStop /\ QuickExit) /\ RecoverLimit >= MaxJobs
  /\ Spec
  => []RunningIsTracked
  <1> SUFFICES ASSUME ~FailingWrites, ~(CgroupStop /\ QuickExit), RecoverLimit >= MaxJobs
               PROVE  Spec => []RunningIsTracked
    OBVIOUS
  <1>1. TrackInv /\ [Next]_vars => TrackInv'
    BY NextTracked
  <1>2. TrackInv => RunningIsTracked
    BY DEF TrackInv, Tracked, RunningIsTracked, DeleteTouched
  <1> QED
    BY InitTracked, <1>1, <1>2, PTL DEF Spec
=============================================================================
