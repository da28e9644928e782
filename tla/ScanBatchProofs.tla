-------------------------- MODULE ScanBatchProofs ---------------------------
(***************************************************************************)
(* The batch scan uses its gate as the gate's own specification says, no   *)
(* two of its lanes are ever at one candidate, a success leaves the outcome*)
(* of every candidate on disk, and a resume keeps what batch.json says is  *)
(* done.                                                                   *)
(***************************************************************************)
EXTENDS ScanBatch, PolitenessGateProofs, SequenceTheorems, Functions

-----------------------------------------------------------------------------
(* The list and the lanes: what a lane works on was taken from the list      *)
(* below idx, and no entry of the list is taken twice.                       *)

LaneStates == {"idle", "vetting", "gating", "failing", "ended"}

ListSound ==
  /\ todo \in Seq(Sites) /\ idx \in Nat \ {0}
  /\ lane \in [Callers -> LaneStates] /\ site \in [Callers -> Sites \cup {0}]
  /\ \A i, j \in 1..Len(todo) : i # j => todo[i] # todo[j]

NotBefore == phase \in {"reading", "launching"} => \A w \in Callers : ~Working(w)

Taken == \A w \in Callers : Working(w) => \E i \in 1..Len(todo) : i < idx /\ site[w] = todo[i]

ListInv == ListSound /\ NotBefore /\ Taken /\ NoDoubleScan

LEMMA ScanCallers == Callers = 1..Concurrency /\ Concurrency \in Nat \ {0}
  BY ScanAssumption

LEMMA InitList == ScanInit => ListInv
  <1> SUFFICES ASSUME ScanInit PROVE ListInv
    OBVIOUS
  <1>1. \A w \in Callers : ~Working(w)
    BY DEF ScanInit, Working
  <1>2. ListSound
    BY DEF ScanInit, ListSound, LaneStates
  <1> QED
    BY <1>1, <1>2 DEF ListInv, NotBefore, Taken, NoDoubleScan

\* What is still to scan is a list without repetition.
LEMMA UnscannedList ==
  ASSUME NEW b, NEW q \in Unscanned(b)
  PROVE  q \in Seq(Sites) /\ \A i, j \in 1..Len(q) : i # j => q[i] # q[j]
  <1>1. PICK T \in SUBSET Sites : /\ q \in [1..Cardinality(T) -> T]
                                  /\ \A i, j \in DOMAIN q : i < j => q[i] < q[j]
    BY DEF Unscanned
  <1>2. NumSites \in Nat
    BY ScanAssumption
  <1>3. Cardinality(T) \in Nat
    <2>1. IsFiniteSet(Sites)
      BY <1>2, FS_Interval DEF Sites
    <2> QED
      BY <2>1, FS_Subset, FS_CardinalityType
  <1>4. PICK n \in Nat : n = Cardinality(T)
    BY <1>3
  <1>5. q \in [1..n -> Sites]
    BY <1>1, <1>4
  <1>6. q \in Seq(Sites) /\ Len(q) = n
    BY <1>5, SeqDef
  <1>7. ASSUME NEW i \in 1..n, NEW j \in 1..n, i # j PROVE q[i] # q[j]
    <2>1. q[i] \in Int /\ q[j] \in Int
      BY <1>2, <1>5 DEF Sites
    <2>2. i < j \/ j < i
      BY <1>7, <1>4
    <2>3. CASE i < j
      <3>1. q[i] < q[j]
        BY <1>1, <1>5, <2>3
      <3> QED
        BY <2>1, <3>1
    <2>4. CASE j < i
      <3>1. q[j] < q[i]
        BY <1>1, <1>5, <2>4
      <3> QED
        BY <2>1, <3>1
    <2> QED
      BY <2>2, <2>3, <2>4
  <1> QED
    BY <1>6, <1>7

\* A lane that is done with its candidate and goes on.
LEMMA Next1List ==
  ASSUME ListInv, NEW w \in Callers, Working(w), Next1(w), UNCHANGED todo
  PROVE  ListInv'
  <1>0. ListSound /\ Taken /\ NoDoubleScan /\ phase \notin {"reading", "launching"}
    BY DEF ListInv, NotBefore
  <1>1. \A v \in Callers \ {w} : lane'[v] = lane[v] /\ site'[v] = site[v]
    BY <1>0 DEF Next1, ListSound
  <1>2. phase' \notin {"reading", "launching"}
    BY <1>0 DEF Next1
  <1>3. CASE lane' = [lane EXCEPT ![w] = "ended"] /\ site' = [site EXCEPT ![w] = 0] /\ UNCHANGED idx
    <2>1. ~Working(w)'
      BY <1>0, <1>3 DEF Working, ListSound
    <2>2. ListSound'
      BY <1>0, <1>3 DEF ListSound, LaneStates
    <2>3. Taken' /\ NoDoubleScan'
      BY <1>0, <1>1, <1>3, <2>1 DEF Taken, NoDoubleScan, Working
    <2> QED
      BY <1>2, <2>2, <2>3 DEF ListInv, NotBefore
  <1>4. CASE /\ idx <= Len(todo) /\ idx' = idx + 1
             /\ lane' = [lane EXCEPT ![w] = "vetting"] /\ site' = [site EXCEPT ![w] = todo[idx]]
    <2>1. idx \in 1..Len(todo) /\ todo[idx] \in Sites
      BY <1>0, <1>4, LenProperties, ElementOfSeq DEF ListSound
    <2>2. ListSound'
      BY <1>0, <1>4, <2>1 DEF ListSound, LaneStates
    <2>3. site'[w] = todo[idx]
      BY <1>0, <1>4 DEF ListSound
    <2>4. Taken'
      <3> SUFFICES ASSUME NEW v \in Callers, Working(v)'
                   PROVE  \E i \in 1..Len(todo') : i < idx' /\ site'[v] = todo'[i]
        BY DEF Taken
      <3>1. CASE v = w
        <4>1. idx < idx'
          BY <1>4, <2>1
        <4> QED
          BY <2>1, <2>3, <3>1, <4>1
      <3>2. CASE v # w
        <4>1. PICK i \in 1..Len(todo) : i < idx /\ site[v] = todo[i]
          BY <1>0, <1>1, <3>2 DEF Taken, Working
        <4>2. i < idx'
          BY <1>4, <2>1, <4>1
        <4> QED
          BY <1>1, <3>2, <4>1, <4>2
      <3> QED
        BY <3>1, <3>2
    <2>5. \A v \in Callers \ {w} : Working(v) => site[v] # site'[w]
      <3> SUFFICES ASSUME NEW v \in Callers \ {w}, Working(v) PROVE site[v] # site'[w]
        OBVIOUS
      <3>1. PICK i \in 1..Len(todo) : i < idx /\ site[v] = todo[i]
        BY <1>0 DEF Taken
      <3>2. i # idx
        BY <2>1, <3>1
      <3> QED
        BY <1>0, <2>1, <2>3, <3>1, <3>2 DEF ListSound
    <2>6. NoDoubleScan'
      BY <1>0, <1>1, <2>5 DEF NoDoubleScan, Working
    <2> QED
      BY <1>2, <2>2, <2>4, <2>6 DEF ListInv, NotBefore
  <1> QED
    BY <1>3, <1>4 DEF Next1

\* A lane whose candidate and the list stay as they are.
LEMMA SameWork ==
  ASSUME ListInv, UNCHANGED <<todo, idx, site>>,
         lane' \in [Callers -> LaneStates], \A w \in Callers : Working(w)' => Working(w),
         phase' \in {"reading", "launching"} => \A w \in Callers : ~Working(w)
  PROVE  ListInv'
  <1>1. ListSound'
    BY DEF ListInv, ListSound
  <1>2. NotBefore'
    BY DEF NotBefore
  <1>3. Taken' /\ NoDoubleScan'
    BY DEF ListInv, Taken, NoDoubleScan
  <1> QED
    BY <1>1, <1>2, <1>3 DEF ListInv

LEMMA LaneList ==
  ASSUME ListInv, NEW w \in Callers, LaneStep(w)
  PROVE  ListInv'
  <1>0. lane \in [Callers -> LaneStates] /\ NotBefore
    BY DEF ListInv, ListSound
  <1>1. CASE Decline(w) \/ RecordFailure(w) \/ \E o \in {"ok", "again"} : Capture(w, o)
    <2>1. Working(w) /\ Next1(w) /\ UNCHANGED todo
      BY <1>1 DEF Decline, RecordFailure, Capture, Working
    <2> QED
      BY <2>1, Next1List
  <1>2. CASE Begin(w) \/ CaptureThrows(w) \/ Refused(w)
    <2>1. PICK x \in {"gating", "failing"} : lane' = [lane EXCEPT ![w] = x]
      BY <1>2 DEF Begin, CaptureThrows, Refused
    <2>2. Working(w) /\ UNCHANGED <<phase, todo, idx, site>>
      BY <1>2 DEF Begin, CaptureThrows, Refused, Working
    <2>3. lane' \in [Callers -> LaneStates] /\ \A v \in Callers : Working(v)' => Working(v)
      BY <1>0, <2>1, <2>2 DEF Working, LaneStates
    <2>4. phase' \in {"reading", "launching"} => \A v \in Callers : ~Working(v)
      BY <1>0, <2>2 DEF NotBefore
    <2> QED
      BY <2>2, <2>3, <2>4, SameWork
  <1>3. CASE AtGate(w)
    <2>1. UNCHANGED <<phase, todo, idx, site, lane>>
      BY <1>3 DEF AtGate, scanVars
    <2>2. lane' \in [Callers -> LaneStates] /\ \A v \in Callers : Working(v)' => Working(v)
      BY <1>0, <2>1 DEF Working
    <2>3. phase' \in {"reading", "launching"} => \A v \in Callers : ~Working(v)
      BY <1>0, <2>1 DEF NotBefore
    <2> QED
      BY <2>1, <2>2, <2>3, SameWork
  <1> QED
    BY <1>1, <1>2, <1>3 DEF LaneStep

LEMMA NextList == ListInv /\ [ScanNext]_allVars => ListInv'
  <1> SUFFICES ASSUME ListInv, [ScanNext]_allVars PROVE ListInv'
    OBVIOUS
  <1>0. ListSound /\ NotBefore /\ lane \in [Callers -> LaneStates]
    BY DEF ListInv, ListSound
  <1>s. ASSUME UNCHANGED <<todo, idx, site, lane>>,
               phase' \in {"reading", "launching"} => phase \in {"reading", "launching"}
        PROVE  ListInv'
    <2>1. lane' \in [Callers -> LaneStates] /\ \A w \in Callers : Working(w)' => Working(w)
      BY <1>0, <1>s DEF Working
    <2>2. phase' \in {"reading", "launching"} => \A w \in Callers : ~Working(w)
      BY <1>0, <1>s DEF NotBefore
    <2> QED
      BY <1>s, <2>1, <2>2, SameWork
  <1>1. CASE Read
    <2>1. todo' \in Unscanned(batch') /\ phase = "reading" /\ UNCHANGED <<idx, lane, site>>
      BY <1>1 DEF Read
    <2>2. todo' \in Seq(Sites) /\ \A i, j \in 1..Len(todo') : i # j => todo'[i] # todo'[j]
      BY <2>1, UnscannedList
    <2>3. \A w \in Callers : ~Working(w) /\ ~Working(w)'
      BY <1>0, <2>1 DEF NotBefore, Working
    <2>4. ListSound'
      BY <1>0, <2>1, <2>2 DEF ListSound
    <2> QED
      BY <2>3, <2>4 DEF ListInv, NotBefore, Taken, NoDoubleScan
  <1>2. CASE Launch /\ aborted
    <2>1. lane' = [w \in Callers |-> "ended"] /\ UNCHANGED <<todo, idx, site>> /\ phase' = "closing"
      BY <1>2 DEF Launch
    <2>2. lane' \in [Callers -> LaneStates] /\ \A w \in Callers : ~Working(w)'
      BY <2>1 DEF LaneStates, Working
    <2> QED
      BY <2>1, <2>2, SameWork
  <1>3. CASE Launch /\ ~aborted
    <2>1. /\ phase' = "scanning" /\ todo' = todo
          /\ lane' = [w \in Callers |-> IF w <= Len(todo) THEN "vetting" ELSE "ended"]
          /\ site' = [w \in Callers |-> IF w <= Len(todo) THEN todo[w] ELSE 0]
          /\ idx' = 1 + (IF Concurrency < Len(todo) THEN Concurrency ELSE Len(todo))
      BY <1>3 DEF Launch
    <2>2. Len(todo) \in Nat /\ \A i \in 1..Len(todo) : todo[i] \in Sites
      BY <1>0, LenProperties, ElementOfSeq DEF ListSound
    <2>3. \A w \in Callers : w \in Nat \ {0} /\ w <= Concurrency
      BY ScanCallers
    <2>4. \A w \in Callers : Working(w)' => w \in 1..Len(todo) /\ w < idx' /\ site'[w] = todo[w]
      BY <2>1, <2>2, <2>3, ScanCallers DEF Working
    <2>5. /\ idx' \in Nat \ {0} /\ lane' \in [Callers -> LaneStates]
          /\ site' \in [Callers -> Sites \cup {0}]
      BY <2>1, <2>2, <2>3, ScanCallers DEF LaneStates
    <2>6. ListSound'
      BY <1>0, <2>1, <2>5 DEF ListSound
    <2>7. Taken'
      BY <2>1, <2>4 DEF Taken
    <2>8. NoDoubleScan'
      BY <1>0, <2>4 DEF NoDoubleScan, ListSound
    <2> QED
      BY <2>1, <2>6, <2>7, <2>8 DEF ListInv, NotBefore
  <1>4. CASE Exit \/ WriteStep \/ LaunchFails \/ WriteFails
    BY <1>4, <1>s DEF Exit, WriteStep, StartWrite, EndWrite, LaunchFails, WriteFails
  <1>5. CASE TimeStep \/ Signal \/ UNCHANGED allVars
    BY <1>5, <1>s DEF TimeStep, Signal, scanVars, allVars
  <1>6. CASE Killed
    <2>1. \A w \in Callers : ~Working(w)'
      BY <1>6 DEF Killed, Working
    <2>2. ListSound'
      BY <1>6 DEF Killed, ListSound, LaneStates
    <2> QED
      BY <2>1, <2>2 DEF ListInv, NotBefore, Taken, NoDoubleScan
  <1>7. CASE \E w \in Callers : LaneStep(w)
    BY <1>7, LaneList
  <1> QED
    BY <1>1, <1>2, <1>3, <1>4, <1>5, <1>6, <1>7 DEF ScanNext, RunStep

LEMMA ListInvariant == ScanSpec => []ListInv
  BY InitList, NextList, PTL DEF ScanSpec

\* scan.mjs, the lanes of runScan: whatever the number of lanes and candidates, and
\* however their captures interleave, no candidate is taken by two lanes.
THEOREM LanesDistinct == ScanSpec => []NoDoubleScan
  <1>1. ListInv => NoDoubleScan
    BY DEF ListInv
  <1> QED
    BY ListInvariant, <1>1, PTL

-----------------------------------------------------------------------------
(* The scan implements the gate: the mapping is the identity on gateVars.    *)

LEMMA ScanGateStep ==
  ASSUME ListInv, [ScanNext]_allVars
  PROVE  [GateNext]_gateVars
  <1>1. CASE RunStep \/ WriteStep \/ LaunchFails \/ WriteFails \/ UNCHANGED allVars
    BY <1>1 DEF RunStep, Read, Launch, Exit, WriteStep, StartWrite, EndWrite, LaunchFails, WriteFails, allVars
  <1>2. CASE TimeStep \/ Signal \/ Killed
    BY <1>2 DEF TimeStep, Signal, Killed, GateNext
  <1>3. ASSUME NEW w \in Callers, LaneStep(w) PROVE [GateNext]_gateVars
    <2>1. CASE Decline(w) \/ RecordFailure(w)
      BY <2>1 DEF Decline, RecordFailure
    <2>2. CASE Begin(w)
      <3>1. site[w] \in Sites
        <4>1. Working(w)
          BY <2>2 DEF Begin, Working
        <4>2. PICK i \in 1..Len(todo) : site[w] = todo[i]
          BY <4>1 DEF ListInv, Taken
        <4> QED
          BY <4>2, ElementOfSeq DEF ListInv, ListSound
      <3>2. KeyOf[site[w]] \in Keys
        BY <3>1, ScanAssumption
      <3> QED
        BY <2>2, <3>2 DEF Begin, GateNext
    <2>3. CASE AtGate(w)
      BY <2>3 DEF AtGate, GateNext
    <2>4. CASE CaptureThrows(w) \/ \E o \in {"ok", "again"} : Capture(w, o)
      BY <2>4 DEF CaptureThrows, Capture, GateNext
    <2>5. CASE Refused(w)
      BY <2>5 DEF Refused, GateNext
    <2> QED
      BY <1>3, <2>1, <2>2, <2>3, <2>4, <2>5 DEF LaneStep
  <1> QED
    BY <1>1, <1>2, <1>3 DEF ScanNext

\* runScan() calls acquire() and release() only as the gate expects: every run of the
\* scan is a run of the gate, so what is proved of the gate holds of the scan.
THEOREM ScanImplementsGate == ScanSpec => GateSpec
  <1>1. ScanInit => GateInit
    BY DEF ScanInit
  <1>2. ListInv /\ [ScanNext]_allVars => [GateNext]_gateVars
    BY ScanGateStep
  <1> QED
    BY ListInvariant, <1>1, <1>2, PTL DEF ScanSpec, GateSpec

\* Hence no domain is ever asked more than the cap allows by the lanes together.
THEOREM ScanWithinCap == ScanSpec => []CapRespected
  BY ScanImplementsGate, CapKept, PTL

-----------------------------------------------------------------------------
(* The record and its file, whatever the order of outcomes and writes.       *)

RecordTyped ==
  /\ phase \in {"reading", "launching", "scanning", "closing", "exited"}
  /\ code \in {0, 1, 3} /\ restarts \in 0..MaxRestarts
  /\ batch \in Batch /\ pending \in Nat
  /\ writing \in Batch \cup {Torn} /\ disk \in Batch \cup {Torn}
  /\ saved \subseteq Sites /\ lost \subseteq saved
  /\ Len(todo) <= NumSites /\ idx <= Len(todo) + 1

\* The chain: once its last write is done, batch.json is the record in memory.
ChainSound ==
  /\ phase \in {"reading", "launching"} => pending = 0 /\ idx = 1
  /\ phase = "reading" => todo = <<>>
  /\ pending = 0 => writing = Torn
  /\ writing # Torn => disk = Torn /\ (writing = batch \/ pending > 1)
  /\ phase # "reading" /\ pending = 0 => disk = batch \/ (disk = Torn /\ batch = Fresh)

\* A candidate has its outcome, is in the hands of a lane, or is still on the list.
Listed(s)  == \E i \in 1..Len(todo) : todo[i] = s
Decided(s) == batch[s] \in {"ok", "again"} \/ \E w \in Callers : Working(w) /\ site[w] = s

Accounted ==
  /\ phase # "reading" => \A s \in Sites : batch[s] = "ok" \/ Listed(s)
  /\ \A i \in 1..Len(todo) : i < idx => Decided(todo[i])

\* A run heads for exit code 0 only when every lane came to the end of the list.
EndsDone ==
  phase \in {"closing", "exited"} /\ code = 0 =>
    /\ idx > Len(todo) /\ \A w \in Callers : ~Working(w)
    /\ phase = "exited" => pending = 0

RecordInv == RecordTyped /\ ChainSound /\ Accounted /\ EndsDone

-----------------------------------------------------------------------------
(* Lemmas on the list and on the steps of a lane.                            *)

LEMMA SitesFinite == NumSites \in Nat \ {0} /\ IsFiniteSet(Sites) /\ Cardinality(Sites) = NumSites
  <1>1. NumSites \in Nat \ {0}
    BY ScanAssumption
  <1>2. IsFiniteSet(1..NumSites) /\ Cardinality(1..NumSites) = NumSites
    BY <1>1, FS_Interval
  <1> QED
    BY <1>1, <1>2 DEF Sites

LEMMA TornIsNoBatch == Torn \notin Batch
  <1>1. 1 \in Sites
    BY SitesFinite DEF Sites
  <1>2. 1 \notin DOMAIN Torn
    BY DEF Torn
  <1> QED
    BY <1>1, <1>2 DEF Batch

\* The list names exactly the candidates that are not "ok" on record, or all of them.
LEMMA UnscannedExact ==
  ASSUME NEW b, NEW q \in Unscanned(b)
  PROVE  /\ Len(q) <= NumSites
         /\ \A i \in 1..Len(q) : ForceAll \/ b[q[i]] # "ok"
         /\ \A s \in Sites : ForceAll \/ b[s] # "ok" => \E i \in 1..Len(q) : q[i] = s
  <1> DEFINE T == {s \in Sites : ForceAll \/ b[s] # "ok"}
  <1>1. /\ q \in [1..Cardinality(T) -> T]
        /\ \A i, j \in DOMAIN q : i < j => q[i] < q[j]
    BY DEF Unscanned
  <1>2. IsFiniteSet(T) /\ Cardinality(T) \in Nat /\ Cardinality(T) <= NumSites
    BY SitesFinite, FS_Subset, FS_CardinalityType
  <1>t. T \subseteq Sites /\ \A s \in T : ForceAll \/ b[s] # "ok"
    OBVIOUS
  <1>u. \A s \in Sites : ForceAll \/ b[s] # "ok" => s \in T
    OBVIOUS
  <1> HIDE DEF T
  <1>3. PICK n \in Nat : n = Cardinality(T)
    BY <1>2
  <1>4. q \in [1..n -> T] /\ Len(q) = n
    <2>1. q \in Seq(T)
      BY <1>1, <1>3, SeqDef
    <2> QED
      BY <1>1, <1>3, <2>1
  <1>5. \A i, j \in 1..n : i # j => q[i] # q[j]
    BY <1>4, UnscannedList
  <1>6. q \in Injection(1..n, T)
    BY <1>4, <1>5 DEF Injection, IsInjective
  <1>7. Cardinality(1..n) = n
    BY <1>3, FS_Interval
  <1>8. q \in Surjection(1..n, T)
    BY <1>2, <1>3, <1>6, <1>7, FS_Injection
  <1>9. \A s \in T : \E i \in 1..n : q[i] = s
    BY <1>8 DEF Surjection
  <1> QED
    BY <1>2, <1>3, <1>4, <1>9, <1>t, <1>u

\* What a lane's step does to the record: a candidate gets its outcome and the lane goes
\* on, a candidate is marked, a lane moves on with its candidate, or nothing.
Finishes(w) == Working(w) /\ Next1(w) /\ \E o \in {"ok", "again"} : Note(w, o)

Marks(w) ==
  /\ lane[w] = "vetting" /\ Note(w, "scanning") /\ lane' = [lane EXCEPT ![w] = "gating"]
  /\ UNCHANGED <<phase, code, idx, site>>

FailsOn(w) ==
  /\ Working(w) /\ lane' = [lane EXCEPT ![w] = "failing"]
  /\ UNCHANGED <<phase, code, batch, idx, site, pending>>

LEMMA LaneWork ==
  ASSUME NEW w \in Callers, LaneStep(w)
  PROVE  /\ phase # "exited" /\ UNCHANGED <<todo, writing, disk, saved, lost, restarts>>
         /\ Finishes(w) \/ Marks(w) \/ FailsOn(w) \/ UNCHANGED scanVars
  <1>1. phase # "exited"
    BY DEF LaneStep
  <1>2. CASE Decline(w) \/ RecordFailure(w) \/ \E o \in {"ok", "again"} : Capture(w, o)
    BY <1>1, <1>2 DEF Decline, RecordFailure, Capture, Finishes, Working
  <1>3. CASE Begin(w)
    BY <1>1, <1>3 DEF Begin, Marks
  <1>4. CASE CaptureThrows(w) \/ Refused(w)
    BY <1>1, <1>4 DEF CaptureThrows, Refused, FailsOn, Working
  <1>5. CASE AtGate(w)
    BY <1>1, <1>5 DEF AtGate, scanVars
  <1> QED
    BY <1>2, <1>3, <1>4, <1>5 DEF LaneStep

\* Going on: to the end, which is the end of the run for the last lane or after a throw,
\* or to the next candidate of the list.
LEMMA Next1Cases ==
  ASSUME ListInv, NEW w \in Callers, Next1(w)
  PROVE  /\ \A v \in Callers \ {w} : lane'[v] = lane[v] /\ site'[v] = site[v]
         /\ \/ /\ ~Working(w)' /\ idx' = idx
               /\ phase' = phase \/ (phase = "scanning" /\ phase' = "closing")
               /\ code' = code \/ code' = 3
               /\ phase' # phase /\ code' = 0 =>
                    idx > Len(todo) /\ \A v \in Callers \ {w} : lane[v] = "ended"
            \/ /\ idx <= Len(todo) /\ idx' = idx + 1 /\ UNCHANGED <<phase, code>>
               /\ Working(w)' /\ site'[w] = todo[idx]
  <1>1. lane \in [Callers -> LaneStates] /\ site \in [Callers -> Sites \cup {0}]
    BY DEF ListInv, ListSound
  <1>2. \A v \in Callers \ {w} : lane'[v] = lane[v] /\ site'[v] = site[v]
    BY <1>1 DEF Next1
  <1>3. CASE idx > Len(todo) /\ lane' = [lane EXCEPT ![w] = "ended"]
             /\ phase' = (IF (\A v \in Callers \ {w} : lane[v] = "ended") /\ phase = "scanning" THEN "closing" ELSE phase)
             /\ UNCHANGED <<code, idx>>
    BY <1>1, <1>2, <1>3 DEF Working
  <1>4. CASE /\ lane' = [lane EXCEPT ![w] = "ended"] /\ UNCHANGED idx
             /\ phase' = (IF phase = "scanning" THEN "closing" ELSE phase)
             /\ code' = (IF phase = "scanning" THEN 3 ELSE code)
    BY <1>1, <1>2, <1>4 DEF Working
  <1>5. CASE /\ idx <= Len(todo) /\ idx' = idx + 1 /\ UNCHANGED <<phase, code>>
             /\ lane' = [lane EXCEPT ![w] = "vetting"] /\ site' = [site EXCEPT ![w] = todo[idx]]
    BY <1>1, <1>2, <1>5 DEF Working
  <1> QED
    BY <1>3, <1>4, <1>5 DEF Next1

\* A lane works on a candidate that is on the list, below idx.
LEMMA SiteTaken ==
  ASSUME ListInv, NEW w \in Callers, Working(w)
  PROVE  /\ site[w] \in Sites /\ phase \notin {"reading", "launching"}
         /\ \E i \in 1..Len(todo) : i < idx /\ site[w] = todo[i]
  BY ElementOfSeq DEF ListInv, ListSound, Taken, NotBefore

-----------------------------------------------------------------------------
(* The invariant of the record is kept.                                      *)

LEMMA InitRecord == ScanInit => RecordInv
  <1> SUFFICES ASSUME ScanInit PROVE RecordInv
    OBVIOUS
  <1>1. Fresh \in Batch
    BY DEF Fresh, Batch, Outcome
  <1>2. RecordTyped
    BY <1>1, ScanAssumption DEF ScanInit, RecordTyped, Torn
  <1>3. ChainSound
    BY DEF ScanInit, ChainSound, Torn
  <1>4. Accounted /\ EndsDone
    BY DEF ScanInit, Accounted, EndsDone
  <1> QED
    BY <1>2, <1>3, <1>4 DEF RecordInv

LEMMA ReadRecord ==
  ASSUME ListInv, RecordInv, Read
  PROVE  RecordInv'
  <1>1. /\ batch' = (IF disk = Torn THEN Fresh ELSE disk) /\ todo' \in Unscanned(batch')
        /\ phase' = (IF todo' = <<>> THEN "exited" ELSE "launching")
        /\ lost' = (IF disk = Torn THEN saved ELSE lost)
        /\ UNCHANGED <<code, idx, lane, site, pending, writing, disk, saved, restarts>>
        /\ phase = "reading"
    BY DEF Read
  <1>2. RecordTyped /\ ChainSound /\ pending = 0 /\ idx = 1 /\ writing = Torn
    BY <1>1 DEF RecordInv, ChainSound
  <1>3. /\ todo' \in Seq(Sites) /\ Len(todo') <= NumSites
        /\ \A s \in Sites : ForceAll \/ batch'[s] # "ok" => \E i \in 1..Len(todo') : todo'[i] = s
    BY <1>1, UnscannedList, UnscannedExact
  <1>4. Fresh \in Batch
    BY DEF Fresh, Batch, Outcome
  <1>5. Len(todo') \in Nat
    BY <1>3, LenProperties
  <1>6. RecordTyped'
    BY <1>1, <1>2, <1>3, <1>4, <1>5 DEF RecordTyped
  <1>7. ChainSound'
    BY <1>1, <1>2 DEF ChainSound
  <1>8. \A w \in Callers : ~Working(w)'
    BY <1>1 DEF ListInv, NotBefore, Working
  <1>9. Accounted'
    BY <1>1, <1>2, <1>3, <1>5 DEF Accounted, Listed, Decided
  <1>10. EndsDone'
    BY <1>1, <1>2, <1>8 DEF EndsDone
  <1> QED
    BY <1>6, <1>7, <1>9, <1>10 DEF RecordInv

LEMMA LaunchRecord ==
  ASSUME ListInv, RecordInv, Launch
  PROVE  RecordInv'
  <1>0. /\ todo \in Seq(Sites) /\ Len(todo) \in Nat /\ idx \in Nat \ {0}
        /\ RecordTyped /\ ChainSound /\ Accounted
    BY LenProperties DEF ListInv, ListSound, RecordInv
  <1>1. /\ phase = "launching" /\ phase' \in {"scanning", "closing"}
        /\ UNCHANGED <<batch, todo, pending, writing, disk, saved, lost, restarts>>
    BY DEF Launch
  <1>2. CASE aborted
    <2>1. phase' = "closing" /\ code' = 3 /\ UNCHANGED idx
      BY <1>2 DEF Launch
    <2>2. RecordTyped' /\ ChainSound' /\ EndsDone'
      BY <1>0, <1>1, <2>1 DEF RecordTyped, ChainSound, EndsDone
    <2>3. \A s \in Sites : Decided(s) => Decided(s)'
      BY <1>1 DEF Decided, ListInv, NotBefore
    <2>4. \A i \in 1..Len(todo) : todo[i] \in Sites
      BY <1>0, ElementOfSeq
    <2>5. Accounted'
      BY <1>0, <1>1, <2>1, <2>3, <2>4 DEF Accounted, Listed
    <2> QED
      BY <2>2, <2>5 DEF RecordInv
  <1>3. CASE ~aborted
    <2>1. /\ phase' = "scanning" /\ UNCHANGED code
          /\ lane' = [w \in Callers |-> IF w <= Len(todo) THEN "vetting" ELSE "ended"]
          /\ site' = [w \in Callers |-> IF w <= Len(todo) THEN todo[w] ELSE 0]
          /\ idx' = 1 + (IF Concurrency < Len(todo) THEN Concurrency ELSE Len(todo))
      BY <1>3 DEF Launch
    <2>2. idx' <= Len(todo) + 1 /\ idx' <= Concurrency + 1
      BY <1>0, <2>1, ScanCallers
    <2>3. RecordTyped' /\ ChainSound' /\ EndsDone'
      BY <1>0, <1>1, <2>1, <2>2 DEF RecordTyped, ChainSound, EndsDone
    <2>4. ASSUME NEW i \in 1..Len(todo), i < idx' PROVE Decided(todo[i])'
      <3>1. i \in Callers /\ i <= Len(todo)
        BY <1>0, <2>1, <2>2, <2>4, ScanCallers
      <3>2. lane'[i] = "vetting" /\ site'[i] = todo[i]
        BY <2>1, <3>1
      <3> QED
        BY <1>1, <3>1, <3>2 DEF Decided, Working
    <2>5. Accounted'
      BY <1>0, <1>1, <2>1, <2>4 DEF Accounted, Listed, Decided
    <2> QED
      BY <2>3, <2>5 DEF RecordInv
  <1> QED
    BY <1>2, <1>3

\* A candidate marked or decided: only its own entry changes, and a write is queued.
LEMMA NoteRecord ==
  ASSUME ListInv, RecordInv, NEW w \in Callers, Working(w), phase # "exited",
         NEW o \in {"scanning", "ok", "again"}, Note(w, o), UNCHANGED <<todo, writing, disk>>
  PROVE  /\ batch' \in Batch /\ pending' \in Nat /\ pending' > 0
         /\ batch'[site[w]] = o /\ \A s \in Sites \ {site[w]} : batch'[s] = batch[s]
         /\ writing' # Torn => disk' = Torn /\ pending' > 1
         /\ \A s \in Sites : batch'[s] = "ok" \/ Listed(s)
  <1>1. site[w] \in Sites /\ Listed(site[w]) /\ phase # "reading"
    BY SiteTaken DEF Listed
  <1>2. /\ batch \in [Sites -> Outcome] /\ pending \in Nat /\ (pending = 0 => writing = Torn)
        /\ writing # Torn => disk = Torn
        /\ \A s \in Sites : batch[s] = "ok" \/ Listed(s)
    BY <1>1 DEF RecordInv, RecordTyped, ChainSound, Accounted, Batch
  <1>3. batch' = [batch EXCEPT ![site[w]] = o] /\ pending' = pending + 1
    BY DEF Note
  <1>4. /\ batch' \in Batch
        /\ batch'[site[w]] = o /\ \A s \in Sites \ {site[w]} : batch'[s] = batch[s]
    BY <1>1, <1>2, <1>3 DEF Batch, Outcome
  <1> QED
    BY <1>1, <1>2, <1>3, <1>4

LEMMA FinishRecord ==
  ASSUME ListInv, RecordInv, NEW w \in Callers, Finishes(w), phase # "exited",
         UNCHANGED <<todo, writing, disk, saved, lost, restarts>>
  PROVE  RecordInv'
  <1>0. /\ todo \in Seq(Sites) /\ Len(todo) \in Nat /\ idx \in Nat \ {0}
        /\ RecordTyped /\ ChainSound /\ Accounted /\ EndsDone /\ Working(w)
        /\ \A i \in 1..Len(todo) : todo[i] \in Sites
    BY LenProperties, ElementOfSeq DEF ListInv, ListSound, RecordInv, Finishes
  <1>n. PICK o \in {"ok", "again"} : Note(w, o)
    BY DEF Finishes
  <1>1. /\ batch' \in Batch /\ pending' \in Nat /\ pending' > 0
        /\ batch'[site[w]] = o /\ \A s \in Sites \ {site[w]} : batch'[s] = batch[s]
        /\ writing' # Torn => disk' = Torn /\ pending' > 1
        /\ \A s \in Sites : batch'[s] = "ok" \/ Listed(s)
    BY <1>0, <1>n, NoteRecord
  <1>2. Next1(w) /\ site[w] \in Sites /\ phase \notin {"reading", "launching"}
    BY <1>0, SiteTaken DEF Finishes
  <1>3. /\ \A v \in Callers \ {w} : lane'[v] = lane[v] /\ site'[v] = site[v]
        /\ \/ /\ ~Working(w)' /\ idx' = idx
              /\ phase' = phase \/ (phase = "scanning" /\ phase' = "closing")
              /\ code' = code \/ code' = 3
              /\ phase' # phase /\ code' = 0 =>
                   idx > Len(todo) /\ \A v \in Callers \ {w} : lane[v] = "ended"
           \/ /\ idx <= Len(todo) /\ idx' = idx + 1 /\ UNCHANGED <<phase, code>>
              /\ Working(w)' /\ site'[w] = todo[idx]
    BY <1>2, Next1Cases
  <1>4. phase' \in {"scanning", "closing"} /\ code' \in {0, 1, 3} /\ idx' <= Len(todo) + 1
    BY <1>0, <1>2, <1>3 DEF RecordTyped
  <1>5. RecordTyped'
    BY <1>0, <1>1, <1>4 DEF RecordTyped
  <1>6. ChainSound'
    BY <1>1, <1>4 DEF ChainSound
  <1>7. ASSUME NEW s \in Sites, Decided(s) PROVE Decided(s)'
    <2>1. CASE s = site[w]
      BY <1>1, <2>1 DEF Decided
    <2>2. CASE s # site[w] /\ batch[s] \in {"ok", "again"}
      BY <1>1, <2>2 DEF Decided
    <2>3. ASSUME NEW v \in Callers, Working(v), site[v] = s, s # site[w] PROVE Decided(s)'
      <3>1. v # w
        BY <2>3
      <3>2. Working(v)' /\ site'[v] = s
        BY <1>3, <2>3, <3>1 DEF Working
      <3> QED
        BY <3>2 DEF Decided
    <2> QED
      BY <1>7, <2>1, <2>2, <2>3 DEF Decided
  <1>8. ASSUME NEW i \in 1..Len(todo), i < idx' PROVE Decided(todo[i])'
    <2>1. CASE i < idx
      BY <1>0, <1>7, <2>1 DEF Accounted
    <2>2. CASE i = idx /\ idx' = idx + 1 /\ Working(w)' /\ site'[w] = todo[idx]
      BY <2>2 DEF Decided
    <2> QED
      BY <1>0, <1>3, <1>8, <2>1, <2>2
  <1>9. Accounted'
    BY <1>1, <1>8 DEF Accounted, Listed
  <1>10. EndsDone'
    <2> SUFFICES ASSUME phase' \in {"closing", "exited"}, code' = 0
                 PROVE  idx' > Len(todo) /\ (\A v \in Callers : ~Working(v)') /\ phase' # "exited"
      BY DEF EndsDone
    <2>1. ~(phase \in {"closing", "exited"} /\ code = 0)
      BY <1>0 DEF EndsDone
    <2>2. /\ phase' # phase /\ ~Working(w)' /\ idx' = idx /\ idx > Len(todo)
          /\ \A v \in Callers \ {w} : lane[v] = "ended"
      BY <1>2, <1>3, <1>4, <2>1
    <2>3. \A v \in Callers : ~Working(v)'
      BY <1>3, <2>2 DEF Working
    <2> QED
      BY <1>4, <2>2, <2>3
  <1> QED
    BY <1>5, <1>6, <1>9, <1>10 DEF RecordInv

\* Candidates stay in the hands of the lanes that have them.
LEMMA SameHands ==
  ASSUME ListInv, NEW w \in Callers, Working(w), NEW x \in {"gating", "failing"},
         lane' = [lane EXCEPT ![w] = x], UNCHANGED site
  PROVE  \A v \in Callers : (Working(v)' <=> Working(v)) /\ site'[v] = site[v]
  BY DEF ListInv, ListSound, Working

LEMMA MarkRecord ==
  ASSUME ListInv, RecordInv, NEW w \in Callers, Marks(w) \/ FailsOn(w), phase # "exited",
         UNCHANGED <<todo, writing, disk, saved, lost, restarts>>
  PROVE  RecordInv'
  <1>0. /\ RecordTyped /\ ChainSound /\ Accounted /\ EndsDone /\ Working(w)
        /\ UNCHANGED <<phase, code, idx, site>>
        /\ todo \in Seq(Sites) /\ \A i \in 1..Len(todo) : todo[i] \in Sites
    BY ElementOfSeq DEF RecordInv, Marks, FailsOn, Working, ListInv, ListSound
  <1>1. \A v \in Callers : (Working(v)' <=> Working(v)) /\ site'[v] = site[v]
    BY <1>0, SameHands DEF Marks, FailsOn
  <1>2. ~(phase \in {"closing", "exited"} /\ code = 0) 
          /\ phase \notin {"reading", "launching"} /\ site[w] \in Sites
    BY <1>0, SiteTaken DEF EndsDone
  <1>3. EndsDone'
    BY <1>0, <1>2 DEF EndsDone
  <1>4. CASE FailsOn(w)
    <2>1. UNCHANGED <<batch, pending>>
      BY <1>4 DEF FailsOn
    <2>2. RecordTyped' /\ ChainSound'
      BY <1>0, <2>1 DEF RecordTyped, ChainSound
    <2>3. \A s \in Sites : Decided(s) => Decided(s)'
      BY <1>1, <2>1 DEF Decided
    <2>4. Accounted'
      BY <1>0, <2>1, <2>3 DEF Accounted, Listed
    <2> QED
      BY <1>3, <2>2, <2>4 DEF RecordInv
  <1>5. CASE Marks(w)
    <2>n. Note(w, "scanning")
      BY <1>5 DEF Marks
    <2>1. /\ batch' \in Batch /\ pending' \in Nat /\ pending' > 0
          /\ \A s \in Sites \ {site[w]} : batch'[s] = batch[s]
          /\ writing' # Torn => disk' = Torn /\ pending' > 1
          /\ \A s \in Sites : batch'[s] = "ok" \/ Listed(s)
      BY <1>0, <2>n, NoteRecord
    <2>2. RecordTyped' /\ ChainSound'
      BY <1>0, <1>2, <2>1 DEF RecordTyped, ChainSound
    <2>3. Decided(site[w])'
      BY <1>0, <1>1 DEF Decided
    <2>4. \A s \in Sites \ {site[w]} : Decided(s) => Decided(s)'
      BY <1>1, <2>1 DEF Decided
    <2>5. Accounted'
      BY <1>0, <2>1, <2>3, <2>4 DEF Accounted, Listed
    <2> QED
      BY <1>3, <2>2, <2>5 DEF RecordInv
  <1> QED
    BY <1>4, <1>5

\* The chain, the end and the kill; the lanes and the list are as they were, or new.
LEMMA WriteRecord ==
  ASSUME ListInv, RecordInv, WriteStep \/ LaunchFails \/ WriteFails \/ Exit
  PROVE  RecordInv'
  <1>0. RecordTyped /\ ChainSound /\ Accounted /\ EndsDone /\ Torn \notin Batch
    BY TornIsNoBatch DEF RecordInv
  <1>1. UNCHANGED <<batch, todo, idx, lane, site, restarts>> /\ phase # "exited"
    BY DEF WriteStep, StartWrite, EndWrite, LaunchFails, WriteFails, Exit
  <1>2. \A w \in Callers : Working(w)' <=> Working(w)
    BY <1>1 DEF Working
  <1>3. \A s : (Decided(s)' <=> Decided(s)) /\ (Listed(s)' <=> Listed(s))
    BY <1>1, <1>2 DEF Decided, Listed
  <1>4. CASE StartWrite
    <2>1. /\ pending > 0 /\ writing' = batch /\ disk' = Torn
          /\ UNCHANGED <<phase, code, pending, saved, lost>>
      BY <1>4 DEF StartWrite
    <2>2. RecordTyped'
      BY <1>0, <1>1, <2>1 DEF RecordTyped
    <2>3. ChainSound'
      BY <1>0, <1>1, <2>1 DEF ChainSound, RecordTyped
    <2>4. Accounted' /\ EndsDone'
      BY <1>0, <1>1, <1>2, <1>3, <2>1 DEF Accounted, EndsDone
    <2> QED
      BY <2>2, <2>3, <2>4 DEF RecordInv
  <1>5. CASE EndWrite
    <2>1. /\ writing # Torn /\ disk' = writing /\ writing' = Torn /\ pending' = pending - 1
          /\ saved' = saved \cup {s \in Sites : writing[s] = "ok"}
          /\ lost' = {s \in lost : writing[s] # "ok"}
          /\ UNCHANGED <<phase, code>>
      BY <1>5 DEF EndWrite, Torn
    <2>2. pending \in Nat /\ pending > 0 /\ (writing = batch \/ pending > 1)
          /\ phase \notin {"reading", "launching"}
      BY <1>0, <2>1 DEF RecordTyped, ChainSound
    <2>3. RecordTyped'
      BY <1>0, <1>1, <2>1, <2>2 DEF RecordTyped
    <2>4. ChainSound'
      BY <1>1, <2>1, <2>2 DEF ChainSound
    <2>5. Accounted' /\ EndsDone'
      BY <1>0, <1>1, <1>2, <1>3, <2>1 DEF Accounted, EndsDone
    <2> QED
      BY <2>3, <2>4, <2>5 DEF RecordInv
  <1>6. CASE LaunchFails \/ WriteFails \/ Exit
    <2>1. /\ phase' = "exited" /\ UNCHANGED <<pending, writing, disk, saved, lost>>
          /\ code' \in {code, 1}
          /\ code' = 0 => phase = "closing" /\ code = 0 /\ pending = 0
          /\ phase # "reading"
      BY <1>0, <1>6 DEF LaunchFails, WriteFails, Exit, ChainSound, Torn
    <2>2. RecordTyped' /\ ChainSound' /\ Accounted'
      BY <1>0, <1>1, <1>3, <2>1 DEF RecordTyped, ChainSound, Accounted
    <2>3. EndsDone'
      BY <1>0, <1>1, <1>2, <2>1 DEF EndsDone
    <2> QED
      BY <2>2, <2>3 DEF RecordInv
  <1> QED
    BY <1>4, <1>5, <1>6 DEF WriteStep

LEMMA KilledRecord ==
  ASSUME RecordInv, Killed
  PROVE  RecordInv'
  <1>1. /\ restarts < MaxRestarts /\ restarts' = restarts + 1
        /\ phase' = "reading" /\ code' = 0 /\ batch' = Fresh /\ todo' = <<>> /\ idx' = 1
        /\ pending' = 0 /\ writing' = Torn /\ UNCHANGED <<disk, saved, lost>>
    BY DEF Killed, Torn
  <1>2. Fresh \in Batch
    BY DEF Fresh, Batch, Outcome
  <1>3. RecordTyped'
    BY <1>1, <1>2, ScanAssumption DEF RecordInv, RecordTyped
  <1>4. ChainSound' /\ Accounted' /\ EndsDone'
    BY <1>1 DEF ChainSound, Accounted, EndsDone
  <1> QED
    BY <1>3, <1>4 DEF RecordInv

LEMMA NextRecord ==
  ASSUME ListInv, RecordInv, [ScanNext]_allVars
  PROVE  RecordInv'
  <1>1. CASE UNCHANGED scanVars
    <2>1. \A w \in Callers : Working(w)' <=> Working(w)
      BY <1>1 DEF scanVars, Working
    <2>2. \A s : (Decided(s)' <=> Decided(s)) /\ (Listed(s)' <=> Listed(s))
      BY <1>1, <2>1 DEF scanVars, Decided, Listed
    <2>3. RecordTyped' /\ ChainSound'
      BY <1>1 DEF RecordInv, scanVars, RecordTyped, ChainSound
    <2>4. Accounted' /\ EndsDone'
      BY <1>1, <2>1, <2>2 DEF RecordInv, scanVars, Accounted, EndsDone
    <2> QED
      BY <2>3, <2>4 DEF RecordInv
  <1>2. ASSUME NEW w \in Callers, LaneStep(w) PROVE RecordInv'
    BY <1>1, <1>2, LaneWork, FinishRecord, MarkRecord
  <1>3. CASE RunStep \/ WriteStep \/ LaunchFails \/ WriteFails
    BY <1>3, ReadRecord, LaunchRecord, WriteRecord DEF RunStep
  <1>4. CASE TimeStep \/ Signal \/ UNCHANGED allVars
    BY <1>1, <1>4 DEF TimeStep, Signal, allVars
  <1> QED
    BY <1>2, <1>3, <1>4, KilledRecord DEF ScanNext

LEMMA RecordInvariant == ScanSpec => [](ListInv /\ RecordInv)
  <1>1. ScanInit => ListInv /\ RecordInv
    BY InitList, InitRecord
  <1>2. ListInv /\ RecordInv /\ [ScanNext]_allVars => (ListInv /\ RecordInv)'
    BY NextList, NextRecord
  <1> QED
    BY <1>1, <1>2, PTL DEF ScanSpec

\* Every variable of the scan keeps its type, the gate's among them.
THEOREM ScanTypeCorrect == ScanSpec => []ScanTypeOK
  <1>1. ListInv /\ RecordInv /\ GateTypeOK => ScanTypeOK
    <2> SUFFICES ASSUME ListInv, RecordInv, GateTypeOK PROVE ScanTypeOK
      OBVIOUS
    <2>1. Len(todo) \in Nat /\ idx \in 1..(NumSites + 1)
      BY SitesFinite, LenProperties DEF ListInv, ListSound, RecordInv, RecordTyped
    <2> QED
      BY <2>1 DEF ScanTypeOK, ListInv, ListSound, LaneStates, RecordInv, RecordTyped, Torn
  <1> QED
    BY <1>1, RecordInvariant, ScanImplementsGate, GateTypeCorrect, PTL

\* scan.mjs, writeChain: no lane waits for the write of its outcome, yet a scan that
\* succeeds leaves in batch.json an outcome for every candidate, whatever the order in
\* which captures end, writes start and the process was killed before.
THEOREM SuccessRecorded == ScanSpec => []SuccessIsRecorded
  <1>1. ListInv /\ RecordInv => SuccessIsRecorded
    <2> SUFFICES ASSUME ListInv, RecordInv, phase = "exited", code = 0
                 PROVE  disk # Torn /\ disk = batch /\ \A s \in Sites : batch[s] \in {"ok", "again"}
      BY DEF SuccessIsRecorded
    <2>1. idx > Len(todo) /\ (\A w \in Callers : ~Working(w)) /\ pending = 0
      BY DEF RecordInv, EndsDone
    <2>2. Len(todo) \in Nat /\ idx \in Nat
      BY LenProperties DEF ListInv, ListSound
    <2>3. ASSUME NEW s \in Sites PROVE batch[s] \in {"ok", "again"}
      <3>1. CASE \E i \in 1..Len(todo) : todo[i] = s
        <4>1. PICK i \in 1..Len(todo) : todo[i] = s
          BY <3>1
        <4>2. Decided(s)
          BY <2>1, <2>2, <4>1 DEF RecordInv, Accounted
        <4> QED
          BY <2>1, <4>2 DEF Decided
      <3> QED
        BY <3>1 DEF RecordInv, Accounted, Listed
    <2>4. 1 \in Sites /\ batch # Fresh
      BY <2>3, SitesFinite DEF Sites, Fresh
    <2>5. disk = batch /\ batch \in Batch
      BY <2>1, <2>4 DEF RecordInv, RecordTyped, ChainSound
    <2> QED
      BY <2>3, <2>5, TornIsNoBatch
  <1> QED
    BY <1>1, RecordInvariant, PTL

-----------------------------------------------------------------------------
(* A retried scan, unless it is told to scan everything again.               *)

\* Sites whose "ok" is on record and not in a file a kill has torn.
Kept == saved \ lost

\* What is kept is on the disk, in the write under way and in memory; what is on the
\* list or in a lane is not "ok" in memory.
KeptSound ==
  /\ disk # Torn => \A s \in Kept : disk[s] = "ok"
  /\ phase # "reading" => \A s \in Kept : batch[s] = "ok"
  /\ writing # Torn => \A s \in Sites : (s \in Kept => writing[s] = "ok") /\ (writing[s] = "ok" => batch[s] = "ok")

ListOpen ==
  /\ \A i \in 1..Len(todo) : i >= idx => batch[todo[i]] # "ok"
  /\ \A w \in Callers : Working(w) => batch[site[w]] # "ok"

ResumeInv == ~ForceAll => KeptSound /\ ListOpen

LEMMA InitResume == ScanInit => ResumeInv
  BY DEF ScanInit, ResumeInv, KeptSound, ListOpen, Kept, Working, Torn

\* A candidate that a lane has is not kept, so its new entry takes nothing back, and
\* it is neither another lane's nor on the list from idx on.
LEMMA NoteResume ==
  ASSUME ListInv, RecordInv, KeptSound, ListOpen, NEW w \in Callers, Working(w), phase # "exited",
         NEW o \in {"scanning", "ok", "again"}, Note(w, o),
         UNCHANGED <<todo, writing, disk, saved, lost>>
  PROVE  /\ KeptSound'
         /\ \A i \in 1..Len(todo) : i >= idx => batch'[todo[i]] # "ok"
         /\ \A v \in Callers \ {w} : Working(v) => batch'[site[v]] # "ok"
         /\ o # "ok" => batch'[site[w]] # "ok"
  <1>1. /\ site[w] \in Sites /\ phase # "reading"
        /\ \E i \in 1..Len(todo) : i < idx /\ site[w] = todo[i]
    BY SiteTaken
  <1>2. batch'[site[w]] = o /\ \A s \in Sites \ {site[w]} : batch'[s] = batch[s]
    BY NoteRecord
  <1>3. batch[site[w]] # "ok" /\ \A s \in Kept : batch[s] = "ok" /\ s # site[w]
    BY <1>1 DEF KeptSound, ListOpen
  <1>4. Kept' = Kept /\ Kept \subseteq Sites
    BY DEF Kept, RecordInv, RecordTyped
  <1>5. \A s \in Sites : writing # Torn /\ writing[s] = "ok" => batch'[s] = "ok"
    BY <1>2, <1>3 DEF KeptSound
  <1>6. KeptSound'
    BY <1>2, <1>3, <1>4, <1>5 DEF KeptSound
  <1>7. ASSUME NEW i \in 1..Len(todo), i >= idx PROVE batch'[todo[i]] # "ok"
    <2>1. todo[i] \in Sites /\ idx \in Nat
      BY ElementOfSeq DEF ListInv, ListSound
    <2>2. PICK j \in 1..Len(todo) : j < idx /\ site[w] = todo[j]
      BY <1>1
    <2>3. j # i
      BY <1>7, <2>1, <2>2
    <2>4. todo[i] # site[w]
      BY <2>2, <2>3 DEF ListInv, ListSound
    <2> QED
      BY <1>2, <1>7, <2>1, <2>4 DEF ListOpen
  <1>8. ASSUME NEW v \in Callers \ {w}, Working(v) PROVE batch'[site[v]] # "ok"
    <2>1. site[v] \in Sites /\ site[v] # site[w]
      BY <1>8, SiteTaken DEF ListInv, NoDoubleScan
    <2> QED
      BY <1>2, <1>8, <2>1 DEF ListOpen
  <1> QED
    BY <1>2, <1>6, <1>7, <1>8

LEMMA LaneResume ==
  ASSUME ListInv, RecordInv, KeptSound, ListOpen, NEW w \in Callers, LaneStep(w)
  PROVE  KeptSound' /\ ListOpen'
  <1>0. /\ phase # "exited" /\ UNCHANGED <<todo, writing, disk, saved, lost>>
        /\ Finishes(w) \/ Marks(w) \/ FailsOn(w) \/ UNCHANGED scanVars
    BY LaneWork
  <1>1. CASE Finishes(w)
    <2>1. PICK o \in {"ok", "again"} : Note(w, o)
      BY <1>1 DEF Finishes
    <2>2. Working(w) /\ Next1(w)
      BY <1>1 DEF Finishes
    <2>3. /\ KeptSound'
          /\ \A i \in 1..Len(todo) : i >= idx => batch'[todo[i]] # "ok"
          /\ \A v \in Callers \ {w} : Working(v) => batch'[site[v]] # "ok"
      BY <1>0, <2>1, <2>2, NoteResume
    <2>4. /\ \A v \in Callers \ {w} : lane'[v] = lane[v] /\ site'[v] = site[v]
          /\ \/ ~Working(w)' /\ idx' = idx
             \/ idx <= Len(todo) /\ idx' = idx + 1 /\ Working(w)' /\ site'[w] = todo[idx]
      BY <2>2, Next1Cases
    <2>5. idx \in Nat \ {0} /\ Len(todo) \in Nat
      BY LenProperties DEF ListInv, ListSound
    <2>6. \A v \in Callers \ {w} : Working(v)' => batch'[site'[v]] # "ok"
      BY <2>3, <2>4 DEF Working
    <2>7. Working(w)' => batch'[site'[w]] # "ok"
      BY <2>3, <2>4, <2>5
    <2>8. \A i \in 1..Len(todo) : i >= idx' => batch'[todo[i]] # "ok"
      BY <2>3, <2>4, <2>5
    <2>9. ListOpen'
      BY <1>0, <2>6, <2>7, <2>8 DEF ListOpen
    <2> QED
      BY <2>3, <2>9
  <1>2. CASE Marks(w) \/ FailsOn(w)
    <2>1. Working(w) /\ UNCHANGED <<phase, idx, site>>
      BY <1>2 DEF Marks, FailsOn, Working
    <2>2. \A v \in Callers : (Working(v)' <=> Working(v)) /\ site'[v] = site[v]
      BY <1>2, <2>1, SameHands DEF Marks, FailsOn
    <2>3. CASE Marks(w)
      <3>1. Note(w, "scanning")
        BY <2>3 DEF Marks
      <3>2. /\ KeptSound'
            /\ \A i \in 1..Len(todo) : i >= idx => batch'[todo[i]] # "ok"
            /\ \A v \in Callers : Working(v) => batch'[site[v]] # "ok"
        BY <1>0, <2>1, <3>1, NoteResume
      <3> QED
        BY <1>0, <2>1, <2>2, <3>2 DEF ListOpen
    <2>4. CASE FailsOn(w)
      BY <1>0, <2>1, <2>2, <2>4 DEF FailsOn, KeptSound, ListOpen, Kept
    <2> QED
      BY <1>2, <2>3, <2>4
  <1>3. CASE UNCHANGED scanVars
    BY <1>3 DEF scanVars, KeptSound, ListOpen, Kept, Working
  <1> QED
    BY <1>0, <1>1, <1>2, <1>3

LEMMA ReadResume ==
  ASSUME ListInv, RecordInv, KeptSound, ~ForceAll, Read
  PROVE  KeptSound' /\ ListOpen'
  <1>1. /\ batch' = (IF disk = Torn THEN Fresh ELSE disk) /\ todo' \in Unscanned(batch')
        /\ lost' = (IF disk = Torn THEN saved ELSE lost)
        /\ UNCHANGED <<idx, lane, site, writing, disk, saved>> /\ phase = "reading"
    BY DEF Read
  <1>2. writing' = Torn
    BY <1>1 DEF RecordInv, ChainSound
  <1>3. \A w \in Callers : ~Working(w)'
    BY <1>1 DEF ListInv, NotBefore, Working
  <1>4. \A i \in 1..Len(todo') : batch'[todo'[i]] # "ok"
    BY <1>1, UnscannedExact
  <1>5. KeptSound'
    BY <1>1, <1>2 DEF KeptSound, Kept
  <1> QED
    BY <1>3, <1>4, <1>5 DEF ListOpen

LEMMA LaunchResume ==
  ASSUME ListInv, RecordInv, KeptSound, ListOpen, Launch
  PROVE  KeptSound' /\ ListOpen'
  <1>0. Len(todo) \in Nat /\ idx \in Nat \ {0} /\ phase = "launching"
    BY LenProperties DEF ListInv, ListSound, Launch
  <1>1. UNCHANGED <<batch, todo, writing, disk, saved, lost>>
    BY DEF Launch
  <1>2. KeptSound'
    BY <1>0, <1>1 DEF KeptSound, Kept
  <1>3. CASE aborted
    <2>1. (\A w \in Callers : ~Working(w)') /\ UNCHANGED idx
      BY <1>3 DEF Launch, Working
    <2> QED
      BY <1>1, <1>2, <2>1 DEF ListOpen
  <1>4. CASE ~aborted
    <2>1. /\ lane' = [w \in Callers |-> IF w <= Len(todo) THEN "vetting" ELSE "ended"]
          /\ site' = [w \in Callers |-> IF w <= Len(todo) THEN todo[w] ELSE 0]
          /\ idx' = 1 + (IF Concurrency < Len(todo) THEN Concurrency ELSE Len(todo))
      BY <1>4 DEF Launch
    <2>2. \A i \in 1..Len(todo) : batch[todo[i]] # "ok"
      BY <1>0 DEF ListOpen, RecordInv, ChainSound
    <2>3. \A w \in Callers : Working(w)' => w \in 1..Len(todo) /\ site'[w] = todo[w]
      BY <1>0, <2>1, ScanCallers DEF Working
    <2> QED
      BY <1>1, <1>2, <2>2, <2>3 DEF ListOpen
  <1> QED
    BY <1>3, <1>4

LEMMA WriteResume ==
  ASSUME ListInv, RecordInv, KeptSound, ListOpen, WriteStep \/ LaunchFails \/ WriteFails \/ Exit
  PROVE  KeptSound' /\ ListOpen'
  <1>1. UNCHANGED <<batch, todo, idx, lane, site>>
    BY DEF WriteStep, StartWrite, EndWrite, LaunchFails, WriteFails, Exit
  <1>2. ListOpen'
    BY <1>1 DEF ListOpen, Working
  <1>3. RecordTyped /\ ChainSound /\ Torn \notin Batch
    BY TornIsNoBatch DEF RecordInv
  <1>4. CASE StartWrite
    <2>1. writing' = batch /\ disk' = Torn /\ phase # "reading" /\ UNCHANGED <<phase, saved, lost>>
      BY <1>3, <1>4 DEF StartWrite, ChainSound
    <2> QED
      BY <1>1, <1>2, <2>1 DEF KeptSound, Kept
  <1>5. CASE EndWrite
    <2>1. /\ writing # Torn /\ disk' = writing /\ writing' = Torn
          /\ saved' = saved \cup {s \in Sites : writing[s] = "ok"}
          /\ lost' = {s \in lost : writing[s] # "ok"} /\ UNCHANGED phase
      BY <1>5 DEF EndWrite, Torn
    <2>2. \A s \in Kept' : s \in Sites /\ (s \in Kept \/ writing[s] = "ok")
      BY <1>3, <2>1 DEF Kept, RecordTyped
    <2>3. \A s \in Kept' : writing[s] = "ok" /\ batch[s] = "ok"
      BY <2>1, <2>2 DEF KeptSound
    <2> QED
      BY <1>1, <1>2, <2>1, <2>3 DEF KeptSound
  <1>6. CASE LaunchFails \/ WriteFails \/ Exit
    <2>1. phase' = "exited" /\ phase # "reading" /\ UNCHANGED <<writing, disk, saved, lost>>
      BY <1>3, <1>6 DEF LaunchFails, WriteFails, Exit, ChainSound, Torn
    <2> QED
      BY <1>1, <1>2, <2>1 DEF KeptSound, Kept
  <1> QED
    BY <1>4, <1>5, <1>6 DEF WriteStep

LEMMA NextResume ==
  ASSUME ListInv, RecordInv, ResumeInv, [ScanNext]_allVars
  PROVE  ResumeInv'
  <1> SUFFICES ASSUME ~ForceAll PROVE KeptSound' /\ ListOpen'
    BY DEF ResumeInv
  <1>0. KeptSound /\ ListOpen
    BY DEF ResumeInv
  <1>1. CASE Read
    BY <1>0, <1>1, ReadResume
  <1>2. CASE Launch \/ Exit \/ WriteStep \/ LaunchFails \/ WriteFails
    BY <1>0, <1>2, LaunchResume, WriteResume
  <1>3. ASSUME NEW w \in Callers, LaneStep(w) PROVE KeptSound' /\ ListOpen'
    BY <1>0, <1>3, LaneResume
  <1>4. CASE TimeStep \/ Signal \/ UNCHANGED allVars
    <2>1. UNCHANGED scanVars
      BY <1>4 DEF TimeStep, Signal, allVars
    <2> QED
      BY <1>0, <2>1 DEF scanVars, KeptSound, ListOpen, Kept, Working
  <1>5. CASE Killed
    BY <1>0, <1>5 DEF Killed, KeptSound, ListOpen, Kept, Working, Torn
  <1> QED
    BY <1>1, <1>2, <1>3, <1>4, <1>5 DEF ScanNext, RunStep

\* scan.mjs: a requeued scan skips what an earlier process recorded as done, and no later
\* write of batch.json takes it back, however often the process is killed, save for what a
\* file torn in the middle of a write held.
THEOREM ResumeKept == ScanSpec => []ResumeSound
  <1>1. ScanInit => ResumeInv
    BY InitResume
  <1>2. ListInv /\ RecordInv /\ ResumeInv /\ [ScanNext]_allVars => ResumeInv'
    BY NextResume
  <1>3. ListInv /\ ResumeInv => ResumeSound
    <2> SUFFICES ASSUME ListInv, KeptSound, ListOpen
                 PROVE  /\ disk # Torn => \A s \in Kept : disk[s] = "ok"
                        /\ \A w \in Callers : Working(w) => site[w] \notin Kept
      BY DEF ResumeInv, ResumeSound, Kept
    <2>1. ASSUME NEW w \in Callers, Working(w) PROVE site[w] \notin Kept
      BY <2>1, SiteTaken DEF KeptSound, ListOpen
    <2> QED
      BY <2>1 DEF KeptSound
  <1> QED
    BY RecordInvariant, <1>1, <1>2, <1>3, PTL DEF ScanSpec
=============================================================================
