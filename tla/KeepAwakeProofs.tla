-------------------------- MODULE KeepAwakeProofs --------------------------
(***************************************************************************)
(* The container is never put to sleep over work it was asked about, for   *)
(* any number of jobs and requests: proofs about KeepAwake.  What has to   *)
(* be carried along is where each unfinished job is counted while the      *)
(* listing goes on: still to be read, found waiting, in the running map,   *)
(* or excused.                                                             *)
(***************************************************************************)
EXTENDS KeepAwake, FiniteSetTheorems, TLAPS

\* A job whose record says `running` is in the running map or about to be recorded, and
\* in both it is not over.  A container asleep has neither.
CountedInv ==
  /\ \A j \in running \cup ending : record[j] \in {"queued", "running"}
  /\ up => \A j \in Jobs : record[j] = "running" => j \in running \cup ending
  /\ ~up => running = {} /\ ending = {}

\* While a probe is under way the container runs, and every unfinished job the listing has
\* passed is found waiting, counted as running, or excused.
ProbeInv ==
  /\ probe \in {"listing", "answered", "stopping"} => up
  /\ probe = "listing" =>
       Unfinished \subseteq toRead \cup waiting \cup running \cup arrived \cup ending

IInv == KeepAwakeTypeOK /\ CountedInv /\ ProbeInv /\ IdleAnswerSound

LEMMA SizeInRange ==
  ASSUME NEW S, S \subseteq Jobs
  PROVE  Cardinality(S) \in 0..Cardinality(Jobs) /\ (Cardinality(S) = 0 => S = {})
<1>1. IsFiniteSet(Jobs)
  BY KeepAwakeAssumption
<1>2. IsFiniteSet(S) /\ Cardinality(S) <= Cardinality(Jobs)
  BY <1>1, FS_Subset
<1>3. Cardinality(S) \in Nat /\ Cardinality(Jobs) \in Nat
  BY <1>1, <1>2, FS_CardinalityType
<1> QED
  BY <1>2, <1>3, FS_EmptySet

LEMMA InitHolds == Init => IInv
<1> SUFFICES ASSUME Init PROVE IInv
  OBVIOUS
<1>1. 0 \in 0..Cardinality(Jobs)
  BY SizeInRange, FS_EmptySet
<1>2. KeepAwakeTypeOK
  BY <1>1, KeepAwakeAssumption DEF Init, KeepAwakeTypeOK
<1>3. CountedInv /\ ProbeInv /\ IdleAnswerSound
  BY DEF Init, CountedInv, ProbeInv, IdleAnswerSound
<1> QED
  BY <1>2, <1>3 DEF IInv

\* What the queue does to a job leaves it counted.
LEMMA WorkKeeps ==
  ASSUME IInv, NEW j \in Jobs, Create(j) \/ Launch(j) \/ MarkRunning(j) \/ ChildEnds(j) \/ Outcome(j)
  PROVE  IInv'
<1> USE DEF IInv, KeepAwakeTypeOK, CountedInv, ProbeInv, IdleAnswerSound, Unfinished, probeVars
<1>1. CASE Create(j)
  BY <1>1 DEF Create
<1>2. CASE Launch(j)
  BY <1>2 DEF Launch
<1>3. CASE MarkRunning(j)
  BY <1>3 DEF MarkRunning
<1>4. CASE ChildEnds(j)
  BY <1>4 DEF ChildEnds
<1>5. CASE Outcome(j)
  BY <1>5 DEF Outcome
<1> QED
  BY <1>1, <1>2, <1>3, <1>4, <1>5

\* The listing passes a job only into one of the counts, and an answer of no work has
\* both counts empty.
LEMMA ProbeKeeps ==
  ASSUME IInv, Probe
  PROVE  IInv'
<1> USE DEF IInv, KeepAwakeTypeOK, CountedInv, ProbeInv, IdleAnswerSound, Unfinished, jobVars, probeVars
<1>1. CASE Expire
  BY <1>1 DEF Expire
<1>2. ASSUME NEW j \in Jobs, Read(j) PROVE IInv'
  BY <1>2 DEF Read
<1>3. CASE Answer
  <2>1. /\ Cardinality(waiting) \in 0..Cardinality(Jobs) /\ (Cardinality(waiting) = 0 => waiting = {})
        /\ Cardinality(running) \in 0..Cardinality(Jobs) /\ (Cardinality(running) = 0 => running = {})
    BY SizeInRange
  <2>2. HealthLimit > 0 /\ (toRead = {} \/ Cardinality(waiting) >= HealthLimit)
    BY <1>3, KeepAwakeAssumption DEF Answer
  <2>3. Cardinality(waiting) = 0 => toRead = {} /\ waiting = {}
    BY <2>1, <2>2, KeepAwakeAssumption
  <2> QED
    BY <1>3, <2>1, <2>3 DEF Answer
<1>4. CASE Judge
  BY <1>4 DEF Judge
<1>5. CASE Miss
  BY <1>5 DEF Miss
<1>6. CASE Stop
  BY <1>6 DEF Stop
<1> QED
  BY <1>1, <1>2, <1>3, <1>4, <1>5, <1>6 DEF Probe

LEMMA WakeKeeps ==
  ASSUME IInv, Wake
  PROVE  IInv'
<1> USE DEF IInv, KeepAwakeTypeOK, CountedInv, ProbeInv, IdleAnswerSound, Unfinished, probeVars
<1>1. requests' \in 0..MaxRequests /\ probeFailures' \in Nat
  BY KeepAwakeAssumption DEF Wake
<1>2. PICK R \in SUBSET {j \in Jobs : record[j] = "running"} :
        record' = [j \in Jobs |-> IF record[j] # "running" THEN record[j]
                                  ELSE IF j \in R THEN "queued" ELSE "ended"]
  BY DEF Wake
<1>3. record' \in [Jobs -> {"none", "queued", "ended"}]
  BY <1>2
<1>4. probe = "none" /\ running = {} /\ ending = {}
  BY DEF Wake
<1> QED
  BY <1>1, <1>3, <1>4 DEF Wake

LEMMA NextKeeps == IInv /\ [Next]_vars => IInv'
<1> SUFFICES ASSUME IInv, [Next]_vars PROVE IInv'
  OBVIOUS
<1>1. CASE Next
  BY <1>1, WorkKeeps, ProbeKeeps, WakeKeeps DEF Next, Work
<1>2. CASE UNCHANGED vars
  BY <1>2 DEF vars, jobVars, probeVars, IInv, KeepAwakeTypeOK, CountedInv, ProbeInv,
              IdleAnswerSound, Unfinished
<1> QED
  BY <1>1, <1>2

LEMMA AlwaysIInv == Spec => []IInv
BY InitHolds, NextKeeps, PTL DEF Spec

\* The variables keep their types, and no job is both running and over.
THEOREM KeepAwakeTypeCorrect == Spec => []KeepAwakeTypeOK
<1>1. IInv => KeepAwakeTypeOK
  BY DEF IInv
<1> QED
  BY <1>1, AlwaysIInv, PTL

\* Whatever the queue does during the listing, an answer of "no work" overlooks no job that
\* was there when the probe began, but one whose outcome alone was still to be written.
THEOREM IdleAnswerCorrect == Spec => []IdleAnswerSound
<1>1. IInv => IdleAnswerSound
  BY DEF IInv
<1> QED
  BY <1>1, AlwaysIInv, PTL
=============================================================================
