------------------------- MODULE RecordStoreProofs -------------------------
(***************************************************************************)
(* An accepted job is durable, a success is served, mirrors land in order, *)
(* and what is in flight is on the disk, for any number of instances lost, *)
(* remote operations failed, progress flushes and removals: proofs about   *)
(* RecordStore.  The work is in two places: who may still write a record   *)
(* (ChainSound), and where a success may be known (SuccessSound).          *)
(***************************************************************************)
EXTENDS RecordStore, SequenceTheorems, TLAPS

\* From its launch until its outcome is decided, and until it is recorded.
Working == worker \in {"alive", "dying", "ended", "publishing"}
Recording == worker \in {"recording", "evicting"}

\* Under way are at most the mirror of the submission and, behind it, that of the change at
\* the head of the record's chain.
MirrorsSound ==
  /\ \A i \in DOMAIN mirrors :
       IF mirrors[i].strict THEN i = 1 /\ answer = "pending"
       ELSE i = Len(mirrors) /\ opAt = "mirroring"
  /\ opAt = "mirroring" => mirrors # <<>> /\ ~mirrors[Len(mirrors)].strict

\* Before the submission there is nothing.
FreshSound ==
  answer = "none" =>
    /\ local = None /\ remote = None /\ cache = None /\ mirrors = <<>>
    /\ chain = <<>> /\ worker = "none" /\ boot # "settling" /\ remover = "idle"
    /\ readGot = None /\ opGot = None /\ poll = "idle"

\* A new instance has nothing but the remote; recovery makes one change, to a job it found.
BootSound ==
  /\ boot # "up" =>
       worker = "none" /\ poll = "idle" /\ remover = "idle" /\ reader = "idle" /\ readGot = None
  /\ boot = "recovering" => /\ chain = <<>> /\ mirrors = <<>> /\ local = None /\ opGot = None
  /\ boot = "settling" =>
       /\ chain = <<>> => local # None
       /\ chain # <<>> => Len(chain) = 1 /\ chain[1] \in {"requeue", "giveup"} /\ remote # None
       /\ opAt = "fetched" => opGot # None
       /\ IF opAt = "mirroring" THEN local # None ELSE mirrors = <<>>
  /\ opAt \in {"fetching", "fetched"} => local = None /\ Head(chain) # "remove"
  /\ opAt # "fetched" => opGot = None
  /\ reader # "answered" => readGot = None

\* Writes are numbered in the order of the mirrors, the remote before them all.
OrderSound ==
  /\ remote # None => remote.seq <= seq
  /\ \A i \in DOMAIN mirrors : mirrors[i].rec.seq <= seq
  /\ \A i \in DOMAIN mirrors : remote # None => remote.seq <= mirrors[i].rec.seq
  /\ \A i, j \in DOMAIN mirrors : i <= j => mirrors[i].rec.seq <= mirrors[j].rec.seq

\* Whatever removes or cancels was asked to.
Removals ==
  (remover # "idle" \/ \E i \in DOMAIN chain : chain[i] \in {"cancel", "remove"}) => RemoveAsked

\* Without a removal, what is mirrored or worked on is on the disk.
Kept ==
  ~RemoveAsked =>
    /\ answer = "accepted" => remote # None
    /\ mirrors # <<>> => local # None
    /\ worker # "none" => local # None
    /\ InFlightIsLocal

\* Without a removal, the changes that wait are those of the present attempt, the outcome
\* last, and the record does not say "over" before it.
ChainSound ==
  ~RemoveAsked =>
    /\ worker = "none" /\ boot = "up" => chain = <<>>
    /\ Working => /\ \A i \in DOMAIN chain : chain[i] \in {"running", "flush"}
                  /\ local.status \in {"queued", "running"}
    /\ Recording => \A i \in DOMAIN chain : IF i = Len(chain) THEN chain[i] = result
                                            ELSE chain[i] \in {"running", "flush"}
    /\ worker \in {"ended", "publishing"} /\ result = "succeeded" => tree = "full"
    /\ worker = "recording" => result # "succeeded"
    /\ worker = "evicting" /\ result = "succeeded" => arts = "full"
    /\ poll = "listed" => worker = "none" /\ local # None /\ local.status = "queued"

\* A record that says the job succeeded.
Success(r) == r # None /\ r.status = "succeeded"

\* Nobody has, knows or writes such a record.
NoSuccess ==
  /\ ~Success(local) /\ ~Success(remote) /\ ~Success(cache) /\ ~Success(opGot) /\ ~Success(readGot)
  /\ \A i \in DOMAIN mirrors : ~Success(mirrors[i].rec)

\* Without a removal, there is no success before an outcome is recorded; once there is one,
\* the published tree is complete, and the disk, if it has a record at all, says so too.
SuccessSound ==
  ~RemoveAsked =>
    /\ Working \/ worker = "recording" \/ boot = "settling" => NoSuccess
    /\ worker = "evicting" /\ result # "succeeded" => NoSuccess
    /\ worker = "evicting" /\ (IF opAt = "mirroring" THEN Len(chain) > 1 ELSE chain # <<>>) => NoSuccess
    /\ NoSuccess \/ arts = "full"
    /\ NoSuccess \/ local = None \/ Success(local)
    /\ boot = "recovering" /\ ~NoSuccess => Success(remote)

\* The inductive invariant.
IInv ==
  /\ StoreTypeOK
  /\ MirrorsSound /\ FreshSound /\ BootSound /\ OrderSound
  /\ Removals /\ Kept /\ ChainSound /\ SuccessSound

\* A record is there.
LEMMA RecordIsSome == ASSUME NEW r \in Record PROVE r # None
  BY NoneAssumption

LEMMA MirrorRecords ==
  ASSUME IInv, NEW i \in DOMAIN mirrors
  PROVE  i \in 1..Len(mirrors) /\ Len(mirrors) \in Nat /\ mirrors[i].rec \in Record /\ mirrors[i].rec.seq \in Nat
<1> DEFINE S == [rec : Record, strict : BOOLEAN]
<1>1. mirrors \in Seq(S)
  BY DEF IInv, StoreTypeOK
<1>2. i \in 1..Len(mirrors) /\ Len(mirrors) \in Nat
  BY <1>1, LenProperties
<1> HIDE DEF S
<1>3. mirrors[i] \in S
  BY <1>1, <1>2, ElementOfSeq
<1> QED
  BY <1>2, <1>3 DEF S, Record

\* A sequence of one element has none left.
LEMMA NoneLeft == ASSUME NEW S, NEW s \in Seq(S), Len(s) = 0 PROVE s = <<>>
  BY EmptySeq

LEMMA TailOfMirrors ==
  ASSUME NEW S, NEW s \in Seq(S), s # <<>>
  PROVE  SubSeq(s, 1, 0) \o SubSeq(s, 2, Len(s)) = Tail(s)
<1>1. SubSeq(s, 1, 0) = <<>>
  BY SubSeqEmpty
<1>2. SubSeq(s, 2, Len(s)) = Tail(s) /\ Tail(s) \in Seq(S)
  BY TailIsSubSeq, HeadTailProperties
<1> QED
  BY <1>1, <1>2, ConcatEmptySeq

\* What a settled mirror leaves of the chain, and of the change that wrote it.
FirstSettled ==
  /\ mirrors # <<>>
  /\ UNCHANGED <<diskVars, arts, cache, workVars, remover, removals, gone, readVars, boot, seq>>
  /\ ahead' \in Nat
  /\ mirrors' \in Seq([rec : Record, strict : BOOLEAN])
  /\ Len(mirrors') = Len(mirrors) - 1
  /\ \A i \in DOMAIN mirrors' : i + 1 \in DOMAIN mirrors /\ mirrors'[i] = mirrors[i + 1]
  /\ 1 \in DOMAIN mirrors /\ mirrors[1].rec \in Record
  /\ Len(mirrors) > 1 => mirrors' # <<>>
  /\ Len(mirrors) = 1 => mirrors' = <<>>
  /\ mirrors[1].strict =>
       /\ answer = "pending" /\ answer' \in {"accepted", "failed"}
       /\ chain' = chain /\ opAt' = opAt /\ opGot' = opGot
       /\ opAt = "mirroring" => Len(mirrors) > 1
  /\ ~mirrors[1].strict =>
       /\ answer' = answer /\ Len(mirrors) = 1 /\ opAt = "mirroring"
       /\ opAt' = "head" /\ opGot' = opGot /\ opGot = None
       /\ chain # <<>> /\ chain' \in Seq(Ops) /\ Len(chain') = Len(chain) - 1
       /\ \A i \in DOMAIN chain' : i + 1 \in DOMAIN chain /\ chain'[i] = chain[i + 1]
       /\ Len(chain) = 1 => chain' = <<>>

LEMMA SettledFirst == ASSUME IInv, mirrors # <<>>, NEW ok \in BOOLEAN, Settled(1, ok) PROVE FirstSettled
<1> DEFINE S == [rec : Record, strict : BOOLEAN]
<1>1. mirrors \in Seq(S)
  BY DEF IInv, StoreTypeOK
<1>2. mirrors' = Tail(mirrors)
  BY <1>1, TailOfMirrors DEF Settled
<1>3. /\ Tail(mirrors) \in Seq(S)
      /\ Len(Tail(mirrors)) = Len(mirrors) - 1
      /\ \A i \in 1..Len(Tail(mirrors)) : Tail(mirrors)[i] = mirrors[i + 1]
  BY <1>1, HeadTailProperties
<1>4. Len(mirrors) \in Nat \ {0} /\ DOMAIN mirrors = 1..Len(mirrors) /\ mirrors[1] \in S
  <2>1. Len(mirrors) \in Nat \ {0}
    BY <1>1, EmptySeq
  <2>2. DOMAIN mirrors = 1..Len(mirrors)
    BY <1>1, LenProperties
  <2>3. mirrors[1] \in S
    <3>1. 1 \in 1..Len(mirrors)
      BY <2>1
    <3> HIDE DEF S
    <3> QED
      BY <1>1, <3>1, ElementOfSeq
  <2> QED
    BY <2>1, <2>2, <2>3
<1>5. DOMAIN mirrors' = 1..Len(mirrors')
  BY <1>2, <1>3
<1>6. \A i \in DOMAIN mirrors' : i + 1 \in DOMAIN mirrors /\ mirrors'[i] = mirrors[i + 1]
  BY <1>2, <1>3, <1>4, <1>5
<1>7. Len(mirrors) > 1 => mirrors' # <<>>
  <2> SUFFICES ASSUME mirrors' = <<>> PROVE Len(mirrors) <= 1
    BY <1>4
  <2>1. Len(mirrors') = 0
    BY EmptySeq
  <2> QED
    BY <1>2, <1>3, <1>4, <2>1
<1>12. Len(mirrors) = 1 => mirrors' = <<>>
  BY <1>2, <1>3, NoneLeft
<1>8. 1 \in DOMAIN mirrors
  BY <1>4
<1>9. ASSUME mirrors[1].strict
      PROVE  /\ answer = "pending" /\ answer' \in {"accepted", "failed"}
             /\ chain' = chain /\ opAt' = opAt /\ opGot' = opGot
             /\ opAt = "mirroring" => Len(mirrors) > 1
  BY <1>4, <1>8, <1>9 DEF Settled, opVars, IInv, MirrorsSound
<1>10. ASSUME ~mirrors[1].strict
       PROVE  /\ answer' = answer /\ Len(mirrors) = 1 /\ opAt = "mirroring"
              /\ opAt' = "head" /\ opGot' = opGot /\ opGot = None
              /\ chain # <<>> /\ chain' \in Seq(Ops) /\ Len(chain') = Len(chain) - 1
              /\ \A i \in DOMAIN chain' : i + 1 \in DOMAIN chain /\ chain'[i] = chain[i + 1]
              /\ Len(chain) = 1 => chain' = <<>>
  <2>1. /\ answer' = answer /\ Len(mirrors) = 1 /\ opAt = "mirroring"
        /\ opAt' = "head" /\ opGot' = opGot /\ chain' = Tail(chain)
    BY <1>8, <1>10 DEF Settled, IInv, MirrorsSound
  <2>2. opGot = None /\ chain # <<>> /\ chain \in Seq(Ops)
    BY <2>1 DEF IInv, StoreTypeOK, BootSound
  <2>3. /\ Tail(chain) \in Seq(Ops) /\ Len(Tail(chain)) = Len(chain) - 1
        /\ \A i \in 1..Len(Tail(chain)) : Tail(chain)[i] = chain[i + 1]
    BY <2>2, HeadTailProperties
  <2>4. Len(chain) \in Nat /\ DOMAIN chain = 1..Len(chain) /\ DOMAIN Tail(chain) = 1..Len(Tail(chain))
    BY <2>2, <2>3, LenProperties
  <2>5. Len(chain) = 1 => chain' = <<>>
    BY <2>1, <2>3, NoneLeft
  <2> QED
    BY <2>1, <2>2, <2>3, <2>4, <2>5
<1>11. /\ UNCHANGED <<diskVars, arts, cache, workVars, remover, removals, gone, readVars, boot, seq>>
       /\ ahead' \in Nat
  <2>1. ahead' = IF ahead > 0 THEN ahead - 1 ELSE 0
    BY DEF Settled
  <2> QED
    BY <2>1 DEF Settled, IInv, StoreTypeOK
<1> QED
  BY <1>2, <1>3, <1>4, <1>6, <1>7, <1>8, <1>9, <1>10, <1>11, <1>12 DEF FirstSettled

LEMMA MirrorSettles ==
  ASSUME IInv, Mirror \/ MirrorFails
  PROVE  /\ FirstSettled
         /\ remote' \in {remote, mirrors[1].rec}
         /\ answer' = "accepted" => answer = "accepted" \/ remote' = mirrors[1].rec
<1>1. mirrors # <<>> /\ \E ok \in BOOLEAN : Settled(1, ok)
  BY DEF Mirror, MirrorFails
<1>2. CASE Mirror
  BY <1>1, <1>2, SettledFirst DEF Mirror
<1>3. CASE MirrorFails
  BY <1>1, <1>3, SettledFirst DEF MirrorFails, Settled
<1> QED
  BY <1>2, <1>3

\* What a write does: the record is on the disk, and its mirror is the last in the chain.
Written(status, strict) ==
  /\ seq' = seq + 1 /\ seq' \in Nat
  /\ local' \in Record /\ local'.status = status /\ local'.seq = seq + 1
  /\ mirrors' \in Seq([rec : Record, strict : BOOLEAN])
  /\ Len(mirrors') = Len(mirrors) + 1 /\ mirrors' # <<>>
  /\ \A i \in DOMAIN mirrors : i \in DOMAIN mirrors' /\ mirrors'[i] = mirrors[i]
  /\ \A i \in DOMAIN mirrors' : i \in DOMAIN mirrors \/ i = Len(mirrors) + 1
  /\ mirrors'[Len(mirrors) + 1] = [rec |-> local', strict |-> strict]

LEMMA WriteAdds ==
  ASSUME IInv, NEW rec \in Record, NEW strict \in BOOLEAN, Write(rec, strict)
  PROVE  Written(rec.status, strict)
<1> DEFINE S == [rec : Record, strict : BOOLEAN]
           e == [rec |-> local', strict |-> strict]
<1>1. seq \in Nat /\ mirrors \in Seq(S)
  BY DEF IInv, StoreTypeOK
<1>2. seq' = seq + 1 /\ seq' \in Nat /\ local' = [rec EXCEPT !.seq = seq + 1]
  BY <1>1 DEF Write
<1>3. local' \in Record /\ local'.status = rec.status /\ local'.seq = seq + 1
  BY <1>1, <1>2 DEF Record
<1>4. mirrors' = Append(mirrors, e)
  BY DEF Write
<1>5. e \in S
  BY <1>3
<1> HIDE DEF S, e
<1>6. /\ mirrors' \in Seq(S) /\ Len(mirrors') = Len(mirrors) + 1
      /\ \A i \in 1..Len(mirrors) : mirrors'[i] = mirrors[i]
      /\ mirrors'[Len(mirrors) + 1] = e
  BY <1>1, <1>4, <1>5, AppendProperties
<1>7. /\ Len(mirrors) \in Nat
      /\ DOMAIN mirrors = 1..Len(mirrors) /\ DOMAIN mirrors' = 1..Len(mirrors')
  BY <1>1, <1>6, LenProperties
<1>8. mirrors' # <<>>
  <2> SUFFICES ASSUME mirrors' = <<>> PROVE FALSE
    OBVIOUS
  <2>1. Len(mirrors') = 0
    BY EmptySeq
  <2> QED
    BY <1>6, <1>7, <2>1
<1>9. /\ \A i \in DOMAIN mirrors : i \in DOMAIN mirrors' /\ mirrors'[i] = mirrors[i]
      /\ \A i \in DOMAIN mirrors' : i \in DOMAIN mirrors \/ i = Len(mirrors) + 1
  BY <1>6, <1>7
<1> QED
  BY <1>2, <1>3, <1>6, <1>8, <1>9 DEF Written, S, e

LEMMA CreateWrites == ASSUME IInv, Create PROVE Written("queued", TRUE)
<1> DEFINE r == [status |-> "queued", attempt |-> 0, seq |-> 0]
<1>1. r \in Record /\ r.status = "queued"
  BY DEF Record, Status, Terminal
<1>2. Write(r, TRUE)
  BY DEF Create
<1> HIDE DEF r
<1> QED
  BY <1>1, <1>2, WriteAdds

\* A record patched is a record, with the status its change names.
LEMMA PatchStatus ==
  ASSUME NEW op \in Ops \ {"remove"}, NEW job \in Record
  PROVE  /\ Patch(op, job) \in Record
         /\ op = "running" => Patch(op, job).status = "running"
         /\ op = "flush" => Patch(op, job).status = job.status
         /\ op = "cancel" => Patch(op, job).status = "cancelled"
         /\ op = "requeue" => Patch(op, job).status = "queued"
         /\ op = "giveup" => Patch(op, job).status = "failed"
         /\ op \in Terminal => Patch(op, job).status = op
<1> USE DEF Ops, Record, Status, Terminal
<1>1. CASE op = "running"
  <2>1. Patch(op, job) = [job EXCEPT !.status = "running", !.attempt = @ + 1]
    BY <1>1 DEF Patch
  <2>2. job.attempt + 1 \in Nat /\ job.seq \in Nat
    OBVIOUS
  <2>3. Patch(op, job) = [status |-> "running", attempt |-> job.attempt + 1, seq |-> job.seq]
    BY <2>1
  <2> QED
    BY <1>1, <2>2, <2>3
<1>2. CASE op = "flush"
  BY <1>2 DEF Patch
<1>3. CASE op = "cancel"
  BY <1>3 DEF Patch
<1>4. CASE op = "requeue"
  BY <1>4 DEF Patch
<1>5. CASE op = "giveup"
  BY <1>5 DEF Patch
<1>6. CASE op \in Terminal
  BY <1>6 DEF Patch
<1> QED
  BY <1>1, <1>2, <1>3, <1>4, <1>5, <1>6

\* The change at the head of the chain, applied to a record found here or in the remote.
Changed(job) ==
  /\ 1 \in DOMAIN chain /\ chain[1] \in Ops \ {"remove"}
  /\ opAt' = "mirroring" /\ chain' = chain
  /\ Written(local'.status, FALSE)
  /\ chain[1] = "running" => local'.status = "running"
  /\ chain[1] = "flush" => local'.status = job.status
  /\ chain[1] = "cancel" => local'.status = "cancelled"
  /\ chain[1] = "requeue" => local'.status = "queued"
  /\ chain[1] = "giveup" => local'.status = "failed"
  /\ chain[1] \in Terminal => local'.status = chain[1]

LEMMA ChangeAdds ==
  ASSUME IInv, chain # <<>>, Head(chain) # "remove", NEW job \in Record, Change(job)
  PROVE  Changed(job)
<1>1. chain \in Seq(Ops)
  BY DEF IInv, StoreTypeOK
<1>2. Head(chain) = chain[1] /\ 1 \in DOMAIN chain /\ chain[1] \in Ops \ {"remove"}
  BY <1>1
<1> DEFINE r == Patch(chain[1], job)
<1>3. Write(r, FALSE) /\ opAt' = "mirroring" /\ chain' = chain
  BY <1>2 DEF Change
<1>4. /\ r \in Record
      /\ chain[1] = "running" => r.status = "running"
      /\ chain[1] = "flush" => r.status = job.status
      /\ chain[1] = "cancel" => r.status = "cancelled"
      /\ chain[1] = "requeue" => r.status = "queued"
      /\ chain[1] = "giveup" => r.status = "failed"
      /\ chain[1] \in Terminal => r.status = chain[1]
  BY <1>2, PatchStatus
<1> HIDE DEF r
<1>5. Written(r.status, FALSE)
  BY <1>3, <1>4, WriteAdds
<1>6. local'.status = r.status
  BY <1>5 DEF Written
<1> QED
  BY <1>2, <1>3, <1>4, <1>5, <1>6 DEF Changed

LEMMA LocalChanges == ASSUME IInv, OpLocal PROVE Cached \in Record /\ Changed(Cached)
<1>1. Cached \in Record /\ chain # <<>> /\ Head(chain) # "remove" /\ Change(Cached)
  BY DEF OpLocal, Cached, IInv, StoreTypeOK, Maybe
<1> QED
  BY <1>1, ChangeAdds

LEMMA RemoteChanges == ASSUME IInv, OpRemote, opGot # None PROVE opGot \in Record /\ Changed(opGot)
<1>1. opGot \in Record /\ chain # <<>> /\ Head(chain) # "remove" /\ Change(opGot)
  BY DEF OpRemote, IInv, StoreTypeOK, Maybe, BootSound
<1> QED
  BY <1>1, ChangeAdds

\* A change takes its turn at the end of the chain, and leaves it from the head.
Enqueued(op) ==
  /\ chain' \in Seq(Ops) /\ Len(chain') = Len(chain) + 1 /\ chain' # <<>>
  /\ \A i \in DOMAIN chain : i \in DOMAIN chain' /\ chain'[i] = chain[i]
  /\ \A i \in DOMAIN chain' : i \in DOMAIN chain \/ i = Len(chain) + 1
  /\ chain'[Len(chain) + 1] = op
  /\ opAt' = opAt /\ opGot' = opGot

LEMMA EnqueueAdds == ASSUME IInv, NEW op \in Ops, Enqueue(op) PROVE Enqueued(op)
<1>1. chain \in Seq(Ops) /\ chain' = Append(chain, op) /\ opAt' = opAt /\ opGot' = opGot
  BY DEF IInv, StoreTypeOK, Enqueue
<1>2. /\ chain' \in Seq(Ops) /\ Len(chain') = Len(chain) + 1
      /\ \A i \in 1..Len(chain) : chain'[i] = chain[i]
      /\ chain'[Len(chain) + 1] = op
  BY <1>1, AppendProperties
<1>3. Len(chain) \in Nat /\ DOMAIN chain = 1..Len(chain) /\ DOMAIN chain' = 1..Len(chain')
  BY <1>1, <1>2, LenProperties
<1>4. chain' # <<>>
  <2> SUFFICES ASSUME chain' = <<>> PROVE FALSE
    OBVIOUS
  <2>1. Len(chain') = 0
    BY EmptySeq
  <2> QED
    BY <1>2, <1>3, <2>1
<1>5. /\ \A i \in DOMAIN chain : i \in DOMAIN chain' /\ chain'[i] = chain[i]
      /\ \A i \in DOMAIN chain' : i \in DOMAIN chain \/ i = Len(chain) + 1
  BY <1>2, <1>3
<1> QED
  BY <1>1, <1>2, <1>4, <1>5 DEF Enqueued

\* Whatever could not be published is not recorded as a success.
LEMMA PublishFailureAdds ==
  ASSUME IInv, PublishFails
  PROVE  result' \in Terminal \ {"succeeded"} /\ Enqueued(result')
<1>1. result \in Terminal
  BY DEF IInv, StoreTypeOK
<1>2. result' = (IF result = "succeeded" THEN "failed" ELSE result) /\ Enqueue(result')
  BY DEF PublishFails
<1>3. result' \in Terminal \ {"succeeded"} /\ result' \in Ops
  BY <1>1, <1>2 DEF Terminal, Ops
<1> QED
  BY <1>2, <1>3, EnqueueAdds

Dropped ==
  /\ Len(chain) = 1 => chain' = <<>>
  /\ chain' \in Seq(Ops) /\ Len(chain') = Len(chain) - 1
  /\ 1 \in DOMAIN chain /\ Head(chain) = chain[1]
  /\ \A i \in DOMAIN chain' : i + 1 \in DOMAIN chain /\ chain'[i] = chain[i + 1]

LEMMA TailDrops == ASSUME IInv, chain # <<>>, chain' = Tail(chain) PROVE Dropped
<1>1. chain \in Seq(Ops)
  BY DEF IInv, StoreTypeOK
<1>2. /\ Tail(chain) \in Seq(Ops) /\ Len(Tail(chain)) = Len(chain) - 1
      /\ \A i \in 1..Len(Tail(chain)) : Tail(chain)[i] = chain[i + 1]
  BY <1>1, HeadTailProperties
<1>3. Len(chain) \in Nat \ {0}
  BY <1>1, EmptySeq
<1>4. DOMAIN chain = 1..Len(chain) /\ DOMAIN chain' = 1..Len(chain')
  BY <1>1, <1>2, LenProperties
<1>5. 1 \in DOMAIN chain /\ Head(chain) = chain[1]
  BY <1>1, <1>3, <1>4
<1>6. Len(chain) = 1 => chain' = <<>>
  BY <1>2, NoneLeft
<1> QED
  BY <1>2, <1>3, <1>4, <1>5, <1>6 DEF Dropped

\* What a loss leaves of the remote record.
LEMMA LossLeaves ==
  ASSUME IInv, Lost
  PROVE  /\ remote' \in Maybe
         /\ remote' = remote \/ (1 \in DOMAIN mirrors /\ remote' = mirrors[1].rec /\ remote' \in Record)
<1>1. remote' = remote \/ (1 \in DOMAIN mirrors /\ remote' = mirrors[1].rec)
  BY DEF Lost
<1>2. remote \in Maybe /\ mirrors \in Seq([rec : Record, strict : BOOLEAN])
  BY DEF IInv, StoreTypeOK
<1>3. 1 \in DOMAIN mirrors => mirrors[1].rec \in Record
  <2> DEFINE S == [rec : Record, strict : BOOLEAN]
  <2>1. mirrors \in Seq(S) /\ DOMAIN mirrors = 1..Len(mirrors)
    BY <1>2, LenProperties
  <2> HIDE DEF S
  <2>2. 1 \in DOMAIN mirrors => mirrors[1] \in S
    BY <2>1, ElementOfSeq
  <2> QED
    BY <2>2 DEF S
<1> QED
  BY <1>1, <1>2, <1>3 DEF Maybe

\* The order of the mirrors, through a write and through a mirror.
LEMMA OrderWritten ==
  ASSUME IInv, remote' = remote, NEW s, NEW b, Written(s, b)
  PROVE  OrderSound'
<1>1. /\ seq \in Nat /\ seq' = seq + 1 /\ Len(mirrors) \in Nat
      /\ remote # None => remote.seq \in Nat /\ remote.seq <= seq
  BY LenProperties DEF IInv, StoreTypeOK, OrderSound, Written, Maybe, Record
<1>2. ASSUME NEW i \in DOMAIN mirrors'
      PROVE  /\ mirrors'[i].rec.seq \in Nat
             /\ i \in DOMAIN mirrors => mirrors'[i] = mirrors[i] /\ mirrors'[i].rec.seq <= seq
             /\ i \notin DOMAIN mirrors => i = Len(mirrors) + 1 /\ mirrors'[i].rec.seq = seq + 1
  <2>1. CASE i \in DOMAIN mirrors
    BY <2>1, MirrorRecords DEF Written, IInv, OrderSound
  <2>2. CASE i \notin DOMAIN mirrors
    BY <1>1, <1>2, <2>2 DEF Written
  <2> QED
    BY <2>1, <2>2
<1>3. ASSUME NEW i \in DOMAIN mirrors', remote # None PROVE remote.seq <= mirrors'[i].rec.seq
  <2>1. CASE i \in DOMAIN mirrors
    BY <1>2, <1>3, <2>1 DEF IInv, OrderSound
  <2>2. CASE i \notin DOMAIN mirrors
    BY <1>1, <1>2, <1>3, <2>2
  <2> QED
    BY <2>1, <2>2
<1>4. ASSUME NEW i \in DOMAIN mirrors', NEW j \in DOMAIN mirrors', i <= j
      PROVE  mirrors'[i].rec.seq <= mirrors'[j].rec.seq
  <2>1. CASE j \notin DOMAIN mirrors
    BY <1>1, <1>2, <1>4, <2>1
  <2>2. CASE j \in DOMAIN mirrors
    <3>1. i \in DOMAIN mirrors
      BY <1>1, <1>2, <1>4, <2>2, MirrorRecords
    <3> QED
      BY <1>2, <1>4, <2>2, <3>1 DEF IInv, OrderSound
  <2> QED
    BY <2>1, <2>2
<1>5. ASSUME NEW i \in DOMAIN mirrors' PROVE mirrors'[i].rec.seq <= seq'
  BY <1>1, <1>2, <1>5
<1> QED
  BY <1>1, <1>3, <1>4, <1>5 DEF OrderSound

LEMMA OrderSettled ==
  ASSUME IInv, FirstSettled, remote' \in {remote, mirrors[1].rec}
  PROVE  OrderSound'
<1>1. seq' = seq /\ 1 \in DOMAIN mirrors /\ mirrors[1].rec \in Record /\ mirrors[1].rec # None
  BY RecordIsSome DEF FirstSettled
<1>2. ASSUME NEW i \in DOMAIN mirrors'
      PROVE  i \in Nat /\ i >= 1 /\ i + 1 \in DOMAIN mirrors /\ mirrors'[i] = mirrors[i + 1]
  BY <1>2, LenProperties DEF FirstSettled
<1>3. ASSUME NEW i \in DOMAIN mirrors', NEW j \in DOMAIN mirrors', i <= j
      PROVE  mirrors'[i].rec.seq <= mirrors'[j].rec.seq
  BY <1>2, <1>3 DEF IInv, OrderSound
<1>4. ASSUME NEW i \in DOMAIN mirrors'
      PROVE  mirrors'[i].rec.seq <= seq' /\ (remote' # None => remote'.seq <= mirrors'[i].rec.seq)
  BY <1>1, <1>2, <1>4 DEF IInv, OrderSound
<1>5. remote' # None => remote'.seq <= seq'
  BY <1>1 DEF IInv, OrderSound
<1> QED
  BY <1>3, <1>4, <1>5 DEF OrderSound

\* Without a success on the way none appears, but where one is written.
LEMMA NoSuccessSettled ==
  ASSUME IInv, FirstSettled, remote' \in {remote, mirrors[1].rec}, opGot' = opGot, NoSuccess
  PROVE  NoSuccess'
<1>1. \A i \in DOMAIN mirrors' : i + 1 \in DOMAIN mirrors /\ mirrors'[i] = mirrors[i + 1]
  BY DEF FirstSettled
<1>2. local' = local /\ cache' = cache /\ readGot' = readGot /\ 1 \in DOMAIN mirrors
  BY DEF FirstSettled, diskVars, readVars
<1> QED
  BY <1>1, <1>2 DEF NoSuccess, Success

LEMMA NoSuccessWritten ==
  ASSUME IInv, NEW s, s # "succeeded", NEW b, Written(s, b), remote' = remote, readGot' = readGot,
         cache' \in {cache, opGot, None}, opGot' \in {opGot, None}, NoSuccess
  PROVE  NoSuccess'
<1>1. ~Success(local)'
  BY DEF Written, Success
<1>2. ASSUME NEW i \in DOMAIN mirrors' PROVE ~Success(mirrors[i].rec)'
  <2>1. CASE i \in DOMAIN mirrors
    BY <2>1 DEF Written, NoSuccess, Success
  <2>2. CASE i = Len(mirrors) + 1
    BY <1>1, <2>2 DEF Written, Success
  <2> QED
    BY <1>2, <2>1, <2>2 DEF Written
<1> QED
  BY <1>1, <1>2 DEF NoSuccess, Success

LEMMA InitHolds == StoreInit => IInv
<1> SUFFICES ASSUME StoreInit PROVE IInv
  OBVIOUS
<1> USE DEF StoreInit
<1>1. StoreTypeOK
  BY DEF StoreTypeOK, Maybe, Trees, Terminal
<1>2. MirrorsSound /\ OrderSound
  BY DEF MirrorsSound, OrderSound
<1>3. FreshSound /\ BootSound /\ Removals
  BY DEF FreshSound, BootSound, Removals
<1>4. Kept /\ ChainSound
  BY DEF Kept, InFlightIsLocal, ChainSound, Working, Recording
<1>5. SuccessSound
  BY DEF SuccessSound, NoSuccess, Success, Working
<1> QED
  BY <1>1, <1>2, <1>3, <1>4, <1>5 DEF IInv

LEMMA StoreTypeOKKeeps ==
  ASSUME IInv, StoreNext PROVE StoreTypeOK'
<1> USE DEF IInv, StoreTypeOK, MirrorsSound, Terminal, Status, Record, Maybe, Ops, Trees,
     diskVars, remoteVars, opVars, workVars, removeVars, readVars, boundVars
<1>1. CASE Mirror \/ MirrorFails
  <2>1. FirstSettled
    BY <1>1, MirrorSettles
  <2>2. /\ remote' \in {remote, mirrors[1].rec}
        /\ answer' = "accepted" => answer = "accepted" \/ remote' = mirrors[1].rec
    BY <1>1, MirrorSettles
  <2>3. CASE mirrors[1].strict
    BY <2>1, <2>2, <2>3 DEF FirstSettled
  <2>4. CASE ~mirrors[1].strict
    <3>1. /\ answer' = answer /\ opAt' = "head" /\ opGot' = opGot /\ chain' \in Seq(Ops)
          /\ mirrors' \in Seq([rec : Record, strict : BOOLEAN]) /\ ahead' \in Nat
          /\ UNCHANGED <<diskVars, arts, cache, workVars, remover, removals, gone, readVars, boot, seq>>
      BY <2>1, <2>4 DEF FirstSettled
    <3>2. remote' \in Maybe
      BY <2>1, <2>2 DEF FirstSettled
    <3> QED
      BY <3>1, <3>2
  <2> QED
    BY <2>3, <2>4
<1>2. CASE OpRemote
  <2>1. CASE opGot = None
    BY <1>2, <2>1, TailDrops DEF OpRemote, Dropped
  <2>2. CASE opGot # None
    BY <1>2, <2>2, RemoteChanges, RecordIsSome, MirrorRecords DEF OpRemote, Fill, Changed, Written
  <2> QED
    BY <2>1, <2>2
<1>3. ASSUME NEW r \in Terminal, WorkerEnds(r) PROVE StoreTypeOK'
  BY <1>3 DEF WorkerEnds
<1>4. CASE Create
  BY <1>4, CreateWrites, RecordIsSome, MirrorRecords DEF Create, Written
<1>5. CASE OpLocal
  BY <1>5, LocalChanges, RecordIsSome, MirrorRecords DEF OpLocal, Cached, Changed, Written
<1>6. CASE OpAsksRemote
  BY <1>6 DEF OpAsksRemote, Cached
<1>7. CASE OpAnswered
  BY <1>7 DEF OpAnswered
<1>8. CASE Work \/ List \/ Upload
  BY <1>8 DEF Work, List, Upload
<1>9. CASE CloseReads
  BY <1>9 DEF CloseReads, Visible, Cached, Fill
<1>10. CASE CloseEnds
  BY <1>10 DEF CloseEnds, Awaited
<1>11. CASE Evict
  BY <1>11 DEF Evict, Visible, Cached
<1>12. CASE RemoveRemote
  BY <1>12 DEF RemoveRemote
<1>13. CASE Prune
  BY <1>13 DEF Prune
<1>14. CASE RemoveFails
  BY <1>14 DEF RemoveFails, Fault
<1>15. CASE Read
  BY <1>15 DEF Read, Cached
<1>16. CASE ReadAnswered
  BY <1>16 DEF ReadAnswered
<1>17. CASE ReadEnds
  BY <1>17 DEF ReadEnds, Fill
<1>18. CASE RecoverFails
  BY <1>18 DEF RecoverFails, Fault
<1>19. CASE RecoverEnds
  BY <1>19 DEF RecoverEnds
<1>20. CASE OpReadFails
  BY <1>20, TailDrops DEF OpReadFails, Fault, Dropped
<1>21. CASE RemoveLocal
  BY <1>21, TailDrops DEF RemoveLocal, Dropped
<1>22. CASE Launch
  BY <1>22, EnqueueAdds DEF Launch, Enqueued
<1>23. CASE Flush
  BY <1>23, EnqueueAdds DEF Flush, Enqueued, Ops
<1>24. CASE Publish
  BY <1>24, EnqueueAdds DEF Publish, Enqueued, Ops
<1>25. CASE PublishFails
  BY <1>25, PublishFailureAdds DEF PublishFails, Enqueued, Fault
<1>26. CASE AskRemoval
  BY <1>26, EnqueueAdds DEF AskRemoval, Enqueued, Ops, Visible, Cached
<1>27. CASE Kill
  BY <1>27, EnqueueAdds DEF Kill, Enqueued, Ops, Awaited
<1>28. CASE Recover
  BY <1>28, EnqueueAdds DEF Recover, Fill, Enqueued, Ops
<1>29. CASE InstanceLost
  BY <1>29, LossLeaves DEF InstanceLost, Lost
<1>30. CASE CloseReadFails
  BY <1>30, LossLeaves, RecordIsSome DEF CloseReadFails, Lost, Fault, Cached
<1> QED
  BY <1>1, <1>2, <1>3, <1>4, <1>5, <1>6, <1>7, <1>8, <1>9, <1>10, <1>11, <1>12, <1>13,
     <1>14, <1>15, <1>16, <1>17, <1>18, <1>19, <1>20, <1>21, <1>22, <1>23, <1>24, <1>25,
     <1>26, <1>27, <1>28, <1>29, <1>30 DEF StoreNext, OpStep, QueueStep, RemoveStep,
     BootStep, Failure

LEMMA MirrorsSoundKeeps ==
  ASSUME IInv, StoreNext PROVE MirrorsSound'
<1> USE DEF IInv, Terminal, StoreTypeOK, MirrorsSound, FreshSound, Ops, Maybe, Record, diskVars,
     remoteVars, opVars, workVars, removeVars, readVars, boundVars
<1>1. CASE Mirror \/ MirrorFails
  <2>1. FirstSettled
    BY <1>1, MirrorSettles
  <2>2. /\ remote' \in {remote, mirrors[1].rec}
        /\ answer' = "accepted" => answer = "accepted" \/ remote' = mirrors[1].rec
    BY <1>1, MirrorSettles
  <2>3. CASE mirrors[1].strict
    <3>1. ASSUME NEW i \in DOMAIN mirrors'
          PROVE  ~mirrors'[i].strict /\ i = Len(mirrors') /\ opAt' = "mirroring"
      <4>1. i \in 1..Len(mirrors') /\ Len(mirrors') = Len(mirrors) - 1 /\ Len(mirrors) \in Nat
        BY <2>1, LenProperties DEF FirstSettled
      <4>2. i + 1 \in DOMAIN mirrors /\ mirrors'[i] = mirrors[i + 1] /\ opAt' = opAt
        BY <2>1, <2>3, RecordIsSome, MirrorRecords DEF FirstSettled
      <4>3. ~mirrors[i + 1].strict /\ i + 1 = Len(mirrors) /\ opAt = "mirroring"
        BY <4>1, <4>2
      <4> QED
        BY <4>1, <4>2, <4>3
    <3>2. opAt' = "mirroring" => mirrors' # <<>> /\ Len(mirrors') \in DOMAIN mirrors'
      BY <2>1, <2>3, EmptySeq, LenProperties DEF FirstSettled
    <3> QED
      BY <3>1, <3>2
  <2>4. CASE ~mirrors[1].strict
    BY <2>1, <2>2, <2>4, RecordIsSome, MirrorRecords DEF FirstSettled
  <2> QED
    BY <2>3, <2>4
<1>2. CASE OpLocal
  <2>1. Written(local'.status, FALSE) /\ opAt' = "mirroring" /\ opAt # "mirroring"
    BY <1>2, LocalChanges DEF Changed, OpLocal
  <2>2. Len(mirrors) \in Nat
    BY LenProperties
  <2>3. ASSUME NEW i \in DOMAIN mirrors, mirrors'[i] = mirrors[i] PROVE mirrors'[i].strict /\ i = 1 /\ answer = "pending"
    BY <2>1, <2>3
  <2>4. Len(mirrors') = Len(mirrors) + 1 /\ ~mirrors'[Len(mirrors')].strict /\ mirrors' # <<>>
    BY <2>1 DEF Written
  <2>5. ASSUME NEW i \in DOMAIN mirrors'
          PROVE  IF mirrors'[i].strict THEN i = 1 /\ answer = "pending" ELSE i = Len(mirrors') /\ opAt' = "mirroring"
    BY <2>1, <2>3, <2>4, <2>5 DEF Written
  <2> QED
    BY <2>1, <2>4, <2>5, <1>2, LocalChanges DEF OpLocal
<1>3. CASE OpRemote
  <2>1. CASE opGot = None
    BY <1>3, <2>1, TailDrops DEF OpRemote, Dropped
  <2>2. CASE opGot # None
    <3>1. Written(local'.status, FALSE) /\ opAt' = "mirroring" /\ opAt # "mirroring"
      BY <1>3, <2>2, RemoteChanges DEF Changed, OpRemote
    <3>2. Len(mirrors) \in Nat
      BY LenProperties
    <3>3. ASSUME NEW i \in DOMAIN mirrors, mirrors'[i] = mirrors[i] PROVE mirrors'[i].strict /\ i = 1 /\ answer = "pending"
      BY <3>1, <3>3
    <3>4. Len(mirrors') = Len(mirrors) + 1 /\ ~mirrors'[Len(mirrors')].strict /\ mirrors' # <<>>
      BY <3>1 DEF Written
    <3>5. ASSUME NEW i \in DOMAIN mirrors'
          PROVE  IF mirrors'[i].strict THEN i = 1 /\ answer = "pending" ELSE i = Len(mirrors') /\ opAt' = "mirroring"
      BY <3>1, <3>3, <3>4, <3>5 DEF Written
    <3> QED
      BY <3>1, <3>4, <3>5, <1>3, <2>2, RemoteChanges DEF OpRemote
  <2> QED
    BY <2>1, <2>2
<1>4. ASSUME NEW r \in Terminal, WorkerEnds(r) PROVE MirrorsSound'
  BY <1>4 DEF WorkerEnds
<1>5. CASE Create
  BY <1>5, CreateWrites, RecordIsSome, MirrorRecords DEF Create, Written
<1>6. CASE OpAsksRemote \/ OpAnswered \/ Work \/ List \/ Upload \/ CloseReads
  BY <1>6 DEF OpAsksRemote, Cached, OpAnswered, Work, List, Upload, CloseReads, Visible, Fill
<1>7. CASE CloseEnds \/ Evict \/ RemoveRemote \/ Prune
  BY <1>7 DEF CloseEnds, Awaited, Evict, Visible, Cached, RemoveRemote, Prune
<1>8. CASE RemoveFails \/ Read \/ ReadAnswered \/ ReadEnds
  BY <1>8 DEF RemoveFails, Fault, Read, Cached, ReadAnswered, ReadEnds, Fill
<1>9. CASE RecoverFails \/ RecoverEnds
  BY <1>9 DEF RecoverFails, Fault, RecoverEnds
<1>10. CASE OpReadFails \/ RemoveLocal
  BY <1>10, TailDrops DEF OpReadFails, Fault, Dropped, RemoveLocal
<1>11. CASE Launch \/ Flush \/ Publish
  BY <1>11, EnqueueAdds DEF Launch, Enqueued, Ops, Flush, Publish
<1>12. CASE PublishFails \/ AskRemoval \/ Kill
  BY <1>12, EnqueueAdds, PublishFailureAdds DEF PublishFails, Enqueued, Ops, Fault, AskRemoval, Visible,
     Cached, Kill, Awaited
<1>13. CASE Recover
  BY <1>13, EnqueueAdds DEF Recover, Fill, Enqueued, Ops
<1>14. CASE InstanceLost \/ CloseReadFails
  BY <1>14, LossLeaves, RecordIsSome DEF InstanceLost, Lost, CloseReadFails, Fault, Cached
<1> QED
  BY <1>1, <1>2, <1>3, <1>4, <1>5, <1>6, <1>7, <1>8, <1>9, <1>10, <1>11, <1>12, <1>13, <1>14
     DEF StoreNext, OpStep, QueueStep, RemoveStep, BootStep, Failure

LEMMA FreshSoundKeeps ==
  ASSUME IInv, StoreNext PROVE FreshSound'
<1> USE DEF IInv, Terminal, StoreTypeOK, FreshSound, MirrorsSound, Removals, BootSound, diskVars,
     remoteVars, opVars, workVars, removeVars, readVars, boundVars
<1>1. CASE Mirror \/ MirrorFails
  <2>1. FirstSettled
    BY <1>1, MirrorSettles
  <2>2. /\ remote' \in {remote, mirrors[1].rec}
        /\ answer' = "accepted" => answer = "accepted" \/ remote' = mirrors[1].rec
    BY <1>1, MirrorSettles
  <2>3. CASE mirrors[1].strict
    BY <2>1, <2>2, <2>3, RecordIsSome, MirrorRecords DEF FirstSettled
  <2>4. CASE ~mirrors[1].strict
    BY <2>1, <2>2, <2>4, RecordIsSome, MirrorRecords DEF FirstSettled
  <2> QED
    BY <2>3, <2>4
<1>2. CASE OpRemote
  <2>1. CASE opGot = None
    BY <1>2, <2>1, TailDrops DEF OpRemote, Dropped
  <2>2. CASE opGot # None
    BY <1>2, <2>2, RemoteChanges, RecordIsSome, MirrorRecords DEF OpRemote, Fill, Changed, Written
  <2> QED
    BY <2>1, <2>2
<1>3. ASSUME NEW r \in Terminal, WorkerEnds(r) PROVE FreshSound'
  BY <1>3 DEF WorkerEnds
<1>4. CASE Create
  BY <1>4, CreateWrites, RecordIsSome, MirrorRecords DEF Create, Written
<1>5. CASE OpLocal
  BY <1>5, LocalChanges, RecordIsSome, MirrorRecords DEF OpLocal, Cached, Changed, Written
<1>6. CASE OpAsksRemote \/ OpAnswered \/ Work \/ List \/ Upload \/ CloseReads
  BY <1>6 DEF OpAsksRemote, Cached, OpAnswered, Work, List, Upload, CloseReads, Visible, Fill
<1>7. CASE CloseEnds \/ Evict \/ RemoveRemote \/ Prune
  BY <1>7 DEF CloseEnds, Awaited, Evict, Visible, Cached, RemoveRemote, Prune
<1>8. CASE RemoveFails \/ Read \/ ReadAnswered \/ ReadEnds
  BY <1>8 DEF RemoveFails, Fault, Read, Cached, ReadAnswered, ReadEnds, Fill
<1>9. CASE RecoverFails \/ RecoverEnds
  BY <1>9 DEF RecoverFails, Fault, RecoverEnds
<1>10. CASE OpReadFails \/ RemoveLocal
  BY <1>10, TailDrops DEF OpReadFails, Fault, Dropped, RemoveLocal
<1>11. CASE Launch \/ Flush \/ Publish
  BY <1>11, EnqueueAdds DEF Launch, Enqueued, Ops, Flush, Publish
<1>12. CASE PublishFails \/ AskRemoval \/ Kill
  BY <1>12, EnqueueAdds, PublishFailureAdds DEF PublishFails, Enqueued, Ops, Fault, AskRemoval, Visible,
     Cached, Kill, Awaited
<1>13. CASE Recover
  BY <1>13, EnqueueAdds DEF Recover, Fill, Enqueued, Ops
<1>14. CASE InstanceLost \/ CloseReadFails
  BY <1>14, LossLeaves, RecordIsSome DEF InstanceLost, Lost, CloseReadFails, Fault, Cached
<1> QED
  BY <1>1, <1>2, <1>3, <1>4, <1>5, <1>6, <1>7, <1>8, <1>9, <1>10, <1>11, <1>12, <1>13, <1>14
     DEF StoreNext, OpStep, QueueStep, RemoveStep, BootStep, Failure

LEMMA BootSoundKeeps ==
  ASSUME IInv, StoreNext PROVE BootSound'
<1> USE DEF IInv, StoreTypeOK, FreshSound, BootSound, MirrorsSound, Terminal, Maybe, Record,
     diskVars, remoteVars, opVars, workVars, removeVars, readVars, boundVars
<1>1. CASE Mirror \/ MirrorFails
  <2>1. FirstSettled
    BY <1>1, MirrorSettles
  <2>2. /\ remote' \in {remote, mirrors[1].rec}
        /\ answer' = "accepted" => answer = "accepted" \/ remote' = mirrors[1].rec
    BY <1>1, MirrorSettles
  <2>3. CASE mirrors[1].strict
    BY <2>1, <2>2, <2>3, RecordIsSome, MirrorRecords DEF FirstSettled
  <2>4. CASE ~mirrors[1].strict
    BY <2>1, <2>2, <2>4, RecordIsSome, MirrorRecords DEF FirstSettled
  <2> QED
    BY <2>3, <2>4
<1>2. CASE OpRemote
  <2>1. CASE opGot = None
    BY <1>2, <2>1, TailDrops DEF OpRemote, Dropped
  <2>2. CASE opGot # None
    BY <1>2, <2>2, RemoteChanges, RecordIsSome, MirrorRecords DEF OpRemote, Fill, Changed, Written
  <2> QED
    BY <2>1, <2>2
<1>3. ASSUME NEW r \in Terminal, WorkerEnds(r) PROVE BootSound'
  BY <1>3 DEF WorkerEnds
<1>4. CASE Create
  BY <1>4, CreateWrites, RecordIsSome, MirrorRecords DEF Create, Written
<1>5. CASE OpLocal
  BY <1>5, LocalChanges, RecordIsSome, MirrorRecords DEF OpLocal, Cached, Changed, Written
<1>6. CASE OpAsksRemote \/ OpAnswered \/ Work \/ List \/ Upload \/ CloseReads
  BY <1>6 DEF OpAsksRemote, Cached, OpAnswered, Work, List, Upload, CloseReads, Visible, Fill
<1>7. CASE CloseEnds \/ Evict \/ RemoveRemote \/ Prune
  BY <1>7 DEF CloseEnds, Awaited, Evict, Visible, Cached, RemoveRemote, Prune
<1>8. CASE RemoveFails \/ Read \/ ReadAnswered \/ ReadEnds
  BY <1>8 DEF RemoveFails, Fault, Read, Cached, ReadAnswered, ReadEnds, Fill
<1>9. CASE RecoverFails \/ RecoverEnds
  BY <1>9 DEF RecoverFails, Fault, RecoverEnds
<1>10. CASE OpReadFails \/ RemoveLocal
  BY <1>10, TailDrops DEF OpReadFails, Fault, Dropped, RemoveLocal
<1>11. CASE Launch
  BY <1>11, EnqueueAdds DEF Launch, Enqueued, Ops
<1>12. CASE Flush
  BY <1>12, EnqueueAdds DEF Flush, Enqueued, Ops
<1>13. CASE Publish
  BY <1>13, EnqueueAdds DEF Publish, Enqueued, Ops
<1>14. CASE PublishFails
  BY <1>14, PublishFailureAdds DEF PublishFails, Enqueued, Ops, Fault
<1>15. CASE AskRemoval
  BY <1>15, EnqueueAdds DEF AskRemoval, Enqueued, Ops, Visible, Cached
<1>16. CASE Kill
  BY <1>16, EnqueueAdds DEF Kill, Enqueued, Ops, Awaited
<1>17. CASE Recover
  BY <1>17, EnqueueAdds DEF Recover, Fill, Enqueued, Ops
<1>18. CASE InstanceLost \/ CloseReadFails
  BY <1>18, LossLeaves, RecordIsSome DEF InstanceLost, Lost, CloseReadFails, Fault, Cached
<1> QED
  BY <1>1, <1>2, <1>3, <1>4, <1>5, <1>6, <1>7, <1>8, <1>9, <1>10, <1>11, <1>12, <1>13,
     <1>14, <1>15, <1>16, <1>17, <1>18 DEF StoreNext, OpStep, QueueStep, RemoveStep,
     BootStep, Failure

LEMMA OrderSoundKeeps ==
  ASSUME IInv, StoreNext PROVE OrderSound'
<1> USE DEF IInv, StoreTypeOK, OrderSound, MirrorsSound, Maybe, Record, diskVars,
     remoteVars, opVars, workVars, removeVars, readVars, boundVars
<1>1. CASE Mirror \/ MirrorFails
  BY <1>1, MirrorSettles, OrderSettled DEF Mirror, MirrorFails
<1>2. CASE OpRemote
  <2>1. CASE opGot = None
    BY <1>2, <2>1, TailDrops DEF OpRemote, Dropped
  <2>2. CASE opGot # None
    BY <1>2, <2>2, RemoteChanges, OrderWritten DEF OpRemote, Changed
  <2> QED
    BY <2>1, <2>2
<1>3. ASSUME NEW r \in Terminal, WorkerEnds(r) PROVE OrderSound'
  BY <1>3 DEF WorkerEnds
<1>4. CASE Create
  BY <1>4, CreateWrites, OrderWritten DEF Create
<1>5. CASE OpLocal
  BY <1>5, LocalChanges, OrderWritten DEF OpLocal, Changed
<1>6. CASE OpAsksRemote \/ OpAnswered \/ Work \/ List \/ Upload \/ CloseReads
  BY <1>6 DEF OpAsksRemote, Cached, OpAnswered, Work, List, Upload, CloseReads, Visible, Fill
<1>7. CASE CloseEnds \/ Evict \/ RemoveRemote \/ Prune
  BY <1>7 DEF CloseEnds, Awaited, Evict, Visible, Cached, RemoveRemote, Prune
<1>8. CASE RemoveFails \/ Read \/ ReadAnswered \/ ReadEnds
  BY <1>8 DEF RemoveFails, Fault, Read, Cached, ReadAnswered, ReadEnds, Fill
<1>9. CASE RecoverFails \/ RecoverEnds
  BY <1>9 DEF RecoverFails, Fault, RecoverEnds
<1>10. CASE OpReadFails \/ RemoveLocal
  BY <1>10, TailDrops DEF OpReadFails, Fault, Dropped, RemoveLocal
<1>11. CASE Launch \/ Flush \/ Publish
  BY <1>11, EnqueueAdds DEF Launch, Enqueued, Ops, Flush, Publish
<1>12. CASE PublishFails \/ AskRemoval \/ Kill
  BY <1>12, EnqueueAdds, PublishFailureAdds DEF PublishFails, Enqueued, Ops, Fault, AskRemoval, Visible,
     Cached, Kill, Awaited
<1>13. CASE Recover
  BY <1>13, EnqueueAdds DEF Recover, Fill, Enqueued, Ops
<1>14. CASE InstanceLost \/ CloseReadFails
  BY <1>14, LossLeaves, RecordIsSome DEF InstanceLost, Lost, CloseReadFails, Fault, Cached
<1> QED
  BY <1>1, <1>2, <1>3, <1>4, <1>5, <1>6, <1>7, <1>8, <1>9, <1>10, <1>11, <1>12, <1>13, <1>14
     DEF StoreNext, OpStep, QueueStep, RemoveStep, BootStep, Failure

LEMMA RemovalsKeeps ==
  ASSUME IInv, StoreNext PROVE Removals'
<1> USE DEF IInv, Terminal, StoreTypeOK, Removals, RemoveAsked, BootSound, diskVars, remoteVars,
     opVars, workVars, removeVars, readVars, boundVars
<1>1. CASE Mirror \/ MirrorFails
  <2>1. FirstSettled
    BY <1>1, MirrorSettles
  <2>2. /\ remote' \in {remote, mirrors[1].rec}
        /\ answer' = "accepted" => answer = "accepted" \/ remote' = mirrors[1].rec
    BY <1>1, MirrorSettles
  <2>3. CASE mirrors[1].strict
    BY <2>1, <2>2, <2>3, RecordIsSome, MirrorRecords DEF FirstSettled
  <2>4. CASE ~mirrors[1].strict
    BY <2>1, <2>2, <2>4, RecordIsSome, MirrorRecords DEF FirstSettled
  <2> QED
    BY <2>3, <2>4
<1>2. CASE OpRemote
  <2>1. CASE opGot = None
    BY <1>2, <2>1, TailDrops DEF OpRemote, Dropped
  <2>2. CASE opGot # None
    BY <1>2, <2>2, RemoteChanges, RecordIsSome, MirrorRecords DEF OpRemote, Fill, Changed, Written
  <2> QED
    BY <2>1, <2>2
<1>3. ASSUME NEW r \in Terminal, WorkerEnds(r) PROVE Removals'
  BY <1>3 DEF WorkerEnds
<1>4. CASE Create
  BY <1>4, CreateWrites, RecordIsSome, MirrorRecords DEF Create, Written
<1>5. CASE OpLocal
  BY <1>5, LocalChanges, RecordIsSome, MirrorRecords DEF OpLocal, Cached, Changed, Written
<1>6. CASE OpAsksRemote \/ OpAnswered \/ Work \/ List \/ Upload \/ CloseReads
  BY <1>6 DEF OpAsksRemote, Cached, OpAnswered, Work, List, Upload, CloseReads, Visible, Fill
<1>7. CASE CloseEnds \/ Evict \/ RemoveRemote \/ Prune
  BY <1>7 DEF CloseEnds, Awaited, Evict, Visible, Cached, RemoveRemote, Prune
<1>8. CASE RemoveFails \/ Read \/ ReadAnswered \/ ReadEnds
  BY <1>8 DEF RemoveFails, Fault, Read, Cached, ReadAnswered, ReadEnds, Fill
<1>9. CASE RecoverFails \/ RecoverEnds
  BY <1>9 DEF RecoverFails, Fault, RecoverEnds
<1>10. CASE OpReadFails \/ RemoveLocal
  BY <1>10, TailDrops DEF OpReadFails, Fault, Dropped, RemoveLocal
<1>11. CASE Launch \/ Flush \/ Publish
  BY <1>11, EnqueueAdds DEF Launch, Enqueued, Ops, Flush, Publish
<1>12. CASE PublishFails \/ AskRemoval \/ Kill
  BY <1>12, EnqueueAdds, PublishFailureAdds DEF PublishFails, Enqueued, Ops, Fault, AskRemoval, Visible,
     Cached, Kill, Awaited
<1>13. CASE Recover
  BY <1>13, EnqueueAdds DEF Recover, Fill, Enqueued, Ops
<1>14. CASE InstanceLost \/ CloseReadFails
  BY <1>14, LossLeaves, RecordIsSome DEF InstanceLost, Lost, CloseReadFails, Fault, Cached
<1> QED
  BY <1>1, <1>2, <1>3, <1>4, <1>5, <1>6, <1>7, <1>8, <1>9, <1>10, <1>11, <1>12, <1>13, <1>14
     DEF StoreNext, OpStep, QueueStep, RemoveStep, BootStep, Failure

LEMMA KeptKeeps ==
  ASSUME IInv, StoreNext PROVE Kept'
<1> USE DEF IInv, StoreTypeOK, FreshSound, Kept, InFlightIsLocal, BootSound, MirrorsSound,
     Removals, RemoveAsked, Terminal, Maybe, Record, diskVars, remoteVars, opVars, workVars,
     removeVars, readVars, boundVars
<1>1. CASE Mirror \/ MirrorFails
  <2>1. FirstSettled
    BY <1>1, MirrorSettles
  <2>2. /\ remote' \in {remote, mirrors[1].rec}
        /\ answer' = "accepted" => answer = "accepted" \/ remote' = mirrors[1].rec
    BY <1>1, MirrorSettles
  <2>3. CASE mirrors[1].strict
    BY <2>1, <2>2, <2>3, RecordIsSome, MirrorRecords DEF FirstSettled
  <2>4. CASE ~mirrors[1].strict
    BY <2>1, <2>2, <2>4, RecordIsSome, MirrorRecords DEF FirstSettled
  <2> QED
    BY <2>3, <2>4
<1>2. CASE OpRemote
  <2>1. CASE opGot = None
    BY <1>2, <2>1, TailDrops DEF OpRemote, Dropped
  <2>2. CASE opGot # None
    BY <1>2, <2>2, RemoteChanges, RecordIsSome, MirrorRecords DEF OpRemote, Fill, Changed, Written
  <2> QED
    BY <2>1, <2>2
<1>3. ASSUME NEW r \in Terminal, WorkerEnds(r) PROVE Kept'
  BY <1>3 DEF WorkerEnds
<1>4. CASE Create
  BY <1>4, CreateWrites, RecordIsSome, MirrorRecords DEF Create, Written
<1>5. CASE OpLocal
  BY <1>5, LocalChanges, RecordIsSome, MirrorRecords DEF OpLocal, Cached, Changed, Written
<1>6. CASE OpAsksRemote \/ OpAnswered \/ Work \/ List \/ Upload \/ CloseReads
  BY <1>6 DEF OpAsksRemote, Cached, OpAnswered, Work, List, Upload, CloseReads, Visible, Fill
<1>7. CASE CloseEnds \/ Evict \/ RemoveRemote \/ Prune
  BY <1>7 DEF CloseEnds, Awaited, Evict, Visible, Cached, RemoveRemote, Prune
<1>8. CASE RemoveFails \/ Read \/ ReadAnswered \/ ReadEnds
  BY <1>8 DEF RemoveFails, Fault, Read, Cached, ReadAnswered, ReadEnds, Fill
<1>9. CASE RecoverFails \/ RecoverEnds
  BY <1>9 DEF RecoverFails, Fault, RecoverEnds
<1>10. CASE OpReadFails \/ RemoveLocal
  BY <1>10, TailDrops DEF OpReadFails, Fault, Dropped, RemoveLocal
<1>11. CASE Launch \/ Flush \/ Publish
  BY <1>11, EnqueueAdds DEF Launch, Enqueued, Ops, Flush, Publish, ChainSound
<1>12. CASE PublishFails \/ AskRemoval \/ Kill
  BY <1>12, EnqueueAdds, PublishFailureAdds DEF PublishFails, Enqueued, Ops, Fault, AskRemoval, Visible,
     Cached, Kill, Awaited
<1>13. CASE Recover
  BY <1>13, EnqueueAdds DEF Recover, Fill, Enqueued, Ops
<1>14. CASE InstanceLost \/ CloseReadFails
  BY <1>14, LossLeaves, RecordIsSome DEF InstanceLost, Lost, CloseReadFails, Fault, Cached
<1> QED
  BY <1>1, <1>2, <1>3, <1>4, <1>5, <1>6, <1>7, <1>8, <1>9, <1>10, <1>11, <1>12, <1>13, <1>14
     DEF StoreNext, OpStep, QueueStep, RemoveStep, BootStep, Failure

LEMMA ChainSoundKeeps ==
  ASSUME IInv, StoreNext PROVE ChainSound'
<1> USE DEF IInv, StoreTypeOK, ChainSound, FreshSound, Kept, BootSound, MirrorsSound,
     Removals, RemoveAsked, Terminal, Working, Recording, Maybe, Record, diskVars,
     remoteVars, opVars, workVars, removeVars, readVars, boundVars
<1>1. CASE Mirror \/ MirrorFails
  <2>1. FirstSettled
    BY <1>1, MirrorSettles
  <2>2. /\ remote' \in {remote, mirrors[1].rec}
        /\ answer' = "accepted" => answer = "accepted" \/ remote' = mirrors[1].rec
    BY <1>1, MirrorSettles
  <2>3. CASE mirrors[1].strict
    BY <2>1, <2>2, <2>3, RecordIsSome, MirrorRecords DEF FirstSettled
  <2>4. CASE ~mirrors[1].strict
    <3>1. chain \in Seq(Ops) /\ chain' \in Seq(Ops) /\ chain # <<>> /\ Len(chain') = Len(chain) - 1
      BY <2>1, <2>4 DEF FirstSettled
    <3>2. Len(chain) \in Nat /\ DOMAIN chain' = 1..Len(chain')
      BY <3>1, LenProperties
    <3>3. ASSUME NEW i \in DOMAIN chain'
          PROVE  /\ i + 1 \in DOMAIN chain /\ chain'[i] = chain[i + 1]
                 /\ i = Len(chain') <=> i + 1 = Len(chain)
      <4>1. i + 1 \in DOMAIN chain /\ chain'[i] = chain[i + 1]
        BY <2>1, <2>4, <3>3 DEF FirstSettled
      <4>2. i = Len(chain') <=> i + 1 = Len(chain)
        BY <3>1, <3>2, <3>3
      <4> QED
        BY <4>1, <4>2
    <3>4. /\ local' = local /\ tree' = tree /\ arts' = arts /\ worker' = worker /\ result' = result
          /\ removals' = removals /\ boot' = boot /\ poll' = poll
      BY <2>1 DEF FirstSettled
    <3>5. worker = "none" /\ boot = "up" /\ ~RemoveAsked => FALSE
      BY <3>1 DEF ChainSound
    <3>6. /\ ~RemoveAsked /\ Working => \A i \in DOMAIN chain' : chain'[i] \in {"running", "flush"}
          /\ ~RemoveAsked /\ Recording =>
               \A i \in DOMAIN chain' : IF i = Len(chain') THEN chain'[i] = result
                                        ELSE chain'[i] \in {"running", "flush"}
      BY <3>3 DEF ChainSound
    <3> HIDE DEF IInv, StoreTypeOK, FreshSound, Kept, BootSound, MirrorsSound, Removals
    <3>7. ChainSound
      BY DEF IInv
    <3> QED
      BY <3>4, <3>5, <3>6, <3>7
  <2> QED
    BY <2>3, <2>4
<1>2. CASE OpRemote
  <2>1. CASE opGot = None
    BY <1>2, <2>1, TailDrops DEF OpRemote, Dropped
  <2>2. CASE opGot # None
    BY <1>2, <2>2, RemoteChanges, RecordIsSome, MirrorRecords DEF OpRemote, Fill, Changed, Written
  <2> QED
    BY <2>1, <2>2
<1>3. ASSUME NEW r \in Terminal, WorkerEnds(r) PROVE ChainSound'
  BY <1>3 DEF WorkerEnds
<1>4. CASE Create
  BY <1>4, CreateWrites, RecordIsSome, MirrorRecords DEF Create, Written
<1>5. CASE OpLocal
  BY <1>5, LocalChanges, RecordIsSome, MirrorRecords DEF OpLocal, Cached, Changed, Written
<1>6. CASE OpAsksRemote \/ OpAnswered
  BY <1>6 DEF OpAsksRemote, Cached, OpAnswered
<1>7. CASE Work \/ List \/ Upload \/ CloseReads
  BY <1>7 DEF Work, List, Upload, CloseReads, Visible, Cached, Fill
<1>8. CASE CloseEnds
  BY <1>8 DEF CloseEnds, Awaited
<1>9. CASE Evict
  BY <1>9 DEF Evict, Visible, Cached
<1>10. CASE RemoveRemote \/ Prune
  BY <1>10 DEF RemoveRemote, Prune
<1>11. CASE RemoveFails \/ Read
  BY <1>11 DEF RemoveFails, Fault, Read, Cached
<1>12. CASE ReadAnswered \/ ReadEnds
  BY <1>12 DEF ReadAnswered, ReadEnds, Fill
<1>13. CASE RecoverFails \/ RecoverEnds
  BY <1>13 DEF RecoverFails, Fault, RecoverEnds
<1>14. CASE OpReadFails \/ RemoveLocal
  BY <1>14, TailDrops DEF OpReadFails, Fault, Dropped, RemoveLocal
<1>15. CASE Launch
  BY <1>15, EnqueueAdds DEF Launch, Enqueued, Ops
<1>16. CASE Flush
  BY <1>16, EnqueueAdds DEF Flush, Enqueued, Ops
<1>17. CASE Publish
  BY <1>17, EnqueueAdds DEF Publish, Enqueued, Ops
<1>18. CASE PublishFails
  BY <1>18, PublishFailureAdds DEF PublishFails, Enqueued, Ops, Fault
<1>19. CASE AskRemoval
  BY <1>19, EnqueueAdds DEF AskRemoval, Enqueued, Ops, Visible, Cached
<1>20. CASE Kill
  BY <1>20, EnqueueAdds DEF Kill, Enqueued, Ops, Awaited
<1>21. CASE Recover
  BY <1>21, EnqueueAdds DEF Recover, Fill, Enqueued, Ops
<1>22. CASE InstanceLost \/ CloseReadFails
  BY <1>22, LossLeaves, RecordIsSome DEF InstanceLost, Lost, CloseReadFails, Fault, Cached
<1> QED
  BY <1>1, <1>2, <1>3, <1>4, <1>5, <1>6, <1>7, <1>8, <1>9, <1>10, <1>11, <1>12, <1>13,
     <1>14, <1>15, <1>16, <1>17, <1>18, <1>19, <1>20, <1>21, <1>22 DEF StoreNext, OpStep,
     QueueStep, RemoveStep, BootStep, Failure

LEMMA SuccessSoundKeeps ==
  ASSUME IInv, StoreNext PROVE SuccessSound'
<1> USE DEF IInv, StoreTypeOK, SuccessSound, NoSuccess, Success, ChainSound, FreshSound,
     Kept, BootSound, MirrorsSound, Removals, RemoveAsked, Terminal, Working, Recording,
     Maybe, Record, diskVars, remoteVars, opVars, workVars, removeVars, readVars, boundVars
<1>1. CASE Mirror \/ MirrorFails
  <2>1. FirstSettled
    BY <1>1, MirrorSettles
  <2>2. /\ remote' \in {remote, mirrors[1].rec}
        /\ answer' = "accepted" => answer = "accepted" \/ remote' = mirrors[1].rec
    BY <1>1, MirrorSettles
  <2>3. CASE mirrors[1].strict
    <3>1. opGot' = opGot /\ (NoSuccess => NoSuccess')
      BY <2>1, <2>2, <2>3, NoSuccessSettled DEF FirstSettled
    <3>2. /\ local' = local /\ arts' = arts /\ worker' = worker /\ result' = result
          /\ removals' = removals /\ boot' = boot /\ mirrors # <<>>
      BY <2>1 DEF FirstSettled
    <3>3. (IF opAt' = "mirroring" THEN Len(chain') > 1 ELSE chain' # <<>>)
            => (IF opAt = "mirroring" THEN Len(chain) > 1 ELSE chain # <<>>)
      BY <2>1, <2>3, LenProperties DEF FirstSettled
    <3>4. Success(local)' <=> Success(local)
      BY <3>2
    <3> HIDE DEF NoSuccess, Success
    <3> QED
      BY <3>1, <3>2, <3>3, <3>4
  <2>4. CASE ~mirrors[1].strict
    <3>1. opGot' = opGot /\ (NoSuccess => NoSuccess')
      BY <2>1, <2>2, <2>4, NoSuccessSettled DEF FirstSettled
    <3>2. /\ local' = local /\ arts' = arts /\ worker' = worker /\ result' = result
          /\ removals' = removals /\ boot' = boot /\ mirrors # <<>>
      BY <2>1 DEF FirstSettled
    <3>3. (IF opAt' = "mirroring" THEN Len(chain') > 1 ELSE chain' # <<>>)
            => (IF opAt = "mirroring" THEN Len(chain) > 1 ELSE chain # <<>>)
      BY <2>1, <2>4, LenProperties DEF FirstSettled
    <3>4. Success(local)' <=> Success(local)
      BY <3>2
    <3> HIDE DEF NoSuccess, Success
    <3> QED
      BY <3>1, <3>2, <3>3, <3>4
  <2> QED
    BY <2>3, <2>4
<1>2. CASE OpLocal
  <2> SUFFICES ASSUME ~RemoveAsked PROVE SuccessSound'
    BY <1>2 DEF OpLocal
  <2>1. /\ Changed(Cached) /\ Written(local'.status, FALSE)
        /\ remote' = remote /\ readGot' = readGot /\ cache' \in {cache, opGot, None} /\ opGot' = opGot
        /\ arts' = arts /\ worker' = worker /\ result' = result /\ removals' = removals /\ boot' = boot
        /\ opAt = "head" /\ chain # <<>> /\ chain' = chain /\ opAt' = "mirroring"
    BY <1>2, LocalChanges DEF OpLocal, Changed
  <2>2. local'.status # "succeeded" => (NoSuccess => NoSuccess')
    BY <2>1, NoSuccessWritten
  <2>3. local' # None
    BY <2>1, RecordIsSome DEF Written
  <2>4. CASE chain[1] = "succeeded"
    BY <2>1, <2>3, <2>4 DEF Changed
  <2>5. CASE chain[1] # "succeeded"
    BY <2>1, <2>2, <2>3, <2>5 DEF Changed, Cached
  <2> QED
    BY <2>4, <2>5
<1>3. CASE OpRemote
  <2>1. CASE opGot = None
    BY <1>3, <2>1, TailDrops DEF OpRemote, Dropped
  <2>2. CASE opGot # None
    BY <1>3, <2>2, RemoteChanges, RecordIsSome, MirrorRecords DEF OpRemote, Fill, Changed, Written
  <2> QED
    BY <2>1, <2>2
<1>4. ASSUME NEW r \in Terminal, WorkerEnds(r) PROVE SuccessSound'
  BY <1>4 DEF WorkerEnds
<1>5. CASE Create
  BY <1>5, CreateWrites, RecordIsSome, MirrorRecords DEF Create, Written
<1>6. CASE OpAsksRemote \/ OpAnswered \/ Work \/ List \/ Upload \/ CloseReads
  BY <1>6 DEF OpAsksRemote, Cached, OpAnswered, Work, List, Upload, CloseReads, Visible, Fill
<1>7. CASE CloseEnds \/ Evict \/ RemoveRemote \/ Prune
  BY <1>7 DEF CloseEnds, Awaited, Evict, Visible, Cached, RemoveRemote, Prune
<1>8. CASE RemoveFails \/ Read \/ ReadAnswered \/ ReadEnds
  BY <1>8 DEF RemoveFails, Fault, Read, Cached, ReadAnswered, ReadEnds, Fill
<1>9. CASE RecoverFails \/ RecoverEnds
  BY <1>9 DEF RecoverFails, Fault, RecoverEnds
<1>10. CASE OpReadFails \/ RemoveLocal
  BY <1>10, TailDrops DEF OpReadFails, Fault, Dropped, RemoveLocal
<1>11. CASE Launch
  BY <1>11, EnqueueAdds DEF Launch, Enqueued, Ops
<1>12. CASE Flush
  BY <1>12, EnqueueAdds DEF Flush, Enqueued, Ops
<1>13. CASE Publish
  BY <1>13, EnqueueAdds DEF Publish, Enqueued, Ops
<1>14. CASE PublishFails
  BY <1>14, PublishFailureAdds DEF PublishFails, Enqueued, Ops, Fault
<1>15. CASE AskRemoval
  BY <1>15, EnqueueAdds DEF AskRemoval, Enqueued, Ops, Visible, Cached
<1>16. CASE Kill
  BY <1>16, EnqueueAdds DEF Kill, Enqueued, Ops, Awaited
<1>17. CASE Recover
  BY <1>17, EnqueueAdds DEF Recover, Fill, Enqueued, Ops
<1>18. CASE InstanceLost \/ CloseReadFails
  <2>1. /\ local' = None /\ cache' = None /\ opGot' = None /\ readGot' = None /\ mirrors' = <<>>
        /\ arts' = arts /\ worker' = "none" /\ removals' = removals /\ boot' = "recovering"
    BY <1>18 DEF InstanceLost, CloseReadFails, Lost
  <2>2. remote' = remote \/ (1 \in DOMAIN mirrors /\ remote' = mirrors[1].rec)
    BY <1>18, LossLeaves DEF InstanceLost, CloseReadFails
  <2>3. (NoSuccess => ~Success(remote)') /\ (NoSuccess' <=> ~Success(remote)')
    BY <2>1, <2>2
  <2>4. NoSuccess => NoSuccess'
    BY <2>3
  <2> HIDE DEF NoSuccess, Success
  <2> QED
    BY <2>1, <2>3, <2>4
<1> QED
  BY <1>1, <1>2, <1>3, <1>4, <1>5, <1>6, <1>7, <1>8, <1>9, <1>10, <1>11, <1>12, <1>13,
     <1>14, <1>15, <1>16, <1>17, <1>18 DEF StoreNext, OpStep, QueueStep, RemoveStep,
     BootStep, Failure

LEMMA StutterKeeps == ASSUME IInv, UNCHANGED storeVars PROVE IInv'
<1> USE DEF storeVars, diskVars, remoteVars, opVars, workVars, removeVars, readVars, boundVars
<1>1. StoreTypeOK' /\ MirrorsSound' /\ OrderSound'
  BY DEF IInv, StoreTypeOK, MirrorsSound, OrderSound
<1>2. FreshSound' /\ BootSound' /\ Removals'
  BY DEF IInv, FreshSound, BootSound, Removals, RemoveAsked
<1>3. Kept' /\ ChainSound'
  BY DEF IInv, Kept, InFlightIsLocal, ChainSound, Working, Recording, RemoveAsked
<1>4. SuccessSound'
  BY DEF IInv, SuccessSound, NoSuccess, Success, Working, RemoveAsked
<1> QED
  BY <1>1, <1>2, <1>3, <1>4 DEF IInv

LEMMA NextKeeps == ASSUME IInv, [StoreNext]_storeVars PROVE IInv'
<1>1. CASE StoreNext
  BY <1>1, StoreTypeOKKeeps, MirrorsSoundKeeps, FreshSoundKeeps, BootSoundKeeps,
     OrderSoundKeeps, RemovalsKeeps, KeptKeeps, ChainSoundKeeps, SuccessSoundKeeps DEF IInv
<1>2. CASE UNCHANGED storeVars
  BY <1>2, StutterKeeps
<1> QED
  BY <1>1, <1>2

\* The inductive invariant holds always.
THEOREM StoreInvariant == StoreSpec => []IInv
  BY InitHolds, NextKeeps, PTL DEF StoreSpec

\* Types, for any number of losses, failures, flushes and removals: the cache holds
\* terminal records only, a change that waits for its mirror finds it in the chain.
THEOREM StoreTypeCorrect == StoreSpec => []StoreTypeOK
<1>1. IInv => StoreTypeOK
  BY DEF IInv
<1> QED
  BY <1>1, StoreInvariant, PTL

\* A job answered 202 is in the remote until its removal is asked for, however many
\* instances are lost and operations fail.
THEOREM AcceptedStaysDurable == StoreSpec => []AcceptedIsDurable
<1>1. IInv => AcceptedIsDurable
  BY DEF IInv, Kept, AcceptedIsDurable
<1> QED
  BY <1>1, StoreInvariant, PTL

\* A record of a success, on the disk, in the cache or in the remote, has the complete
\* tree in the remote, whatever fails and whatever instance is lost in between.
THEOREM SuccessAlwaysServed == StoreSpec => []SuccessIsServed
<1>1. IInv => SuccessIsServed
  BY DEF IInv, SuccessSound, NoSuccess, Success, SuccessIsServed
<1> QED
  BY <1>1, StoreInvariant, PTL

\* What the remote says is under way is on the disk the queue polls.
THEOREM InFlightAlwaysLocal == StoreSpec => []InFlightIsLocal
<1>1. IInv => InFlightIsLocal
  BY DEF IInv, Kept, InFlightIsLocal
<1> QED
  BY <1>1, StoreInvariant, PTL

\* The remote record is never replaced by an older one.
LEMMA StepInOrder ==
  ASSUME IInv, StoreNext, remote # None, remote' # None
  PROVE  remote'.seq >= remote.seq
<1> USE DEF diskVars, remoteVars, opVars, workVars, removeVars, readVars, boundVars
<1>0. remote.seq \in Nat
  BY DEF IInv, StoreTypeOK, Maybe, Record
<1>1. CASE remote' = remote
  BY <1>0, <1>1
<1>2. CASE 1 \in DOMAIN mirrors /\ remote' = mirrors[1].rec
  BY <1>0, <1>2, MirrorRecords DEF IInv, OrderSound
<1>3. CASE Mirror \/ MirrorFails
  BY <1>1, <1>2, <1>3, MirrorSettles DEF FirstSettled
<1>4. CASE InstanceLost \/ CloseReadFails
  BY <1>1, <1>2, <1>4, LossLeaves DEF InstanceLost, CloseReadFails
<1>5. CASE RemoveRemote \/ RemoveFails
  BY <1>1, <1>5 DEF RemoveRemote, RemoveFails
<1>6. CASE Create \/ OpStep \/ BootStep \/ List \/ Launch \/ CloseReads \/ Publish \/ CloseEnds
  BY <1>1, <1>6 DEF Create, OpStep, OpLocal, OpAsksRemote, OpAnswered, OpRemote, RemoveLocal,
     BootStep, Recover, RecoverEnds, List, Launch, CloseReads, Publish, CloseEnds
<1>7. CASE Kill \/ Prune \/ OpReadFails \/ PublishFails \/ RecoverFails
           \/ \E r \in Terminal : WorkerEnds(r)
  BY <1>1, <1>7 DEF Kill, Prune, OpReadFails, PublishFails, RecoverFails, WorkerEnds
<1>8. CASE Work \/ Flush \/ Upload \/ Evict \/ AskRemoval \/ Read \/ ReadAnswered \/ ReadEnds
  BY <1>1, <1>8 DEF Work, Flush, Upload, Evict, AskRemoval, Read, ReadAnswered, ReadEnds
<1> QED
  BY <1>3, <1>4, <1>5, <1>6, <1>7, <1>8 DEF StoreNext, QueueStep, RemoveStep, Failure

\* Mirrors land in the order their records were written.
THEOREM MirrorsAlwaysInOrder == StoreSpec => MirrorsInOrder
<1>1. IInv /\ [StoreNext]_storeVars
        => [remote # None /\ remote' # None => remote'.seq >= remote.seq]_storeVars
  BY StepInOrder
<1> QED
  BY <1>1, StoreInvariant, PTL DEF StoreSpec, MirrorsInOrder
=============================================================================
