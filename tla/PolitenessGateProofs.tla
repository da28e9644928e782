------------------------ MODULE PolitenessGateProofs ------------------------
(***************************************************************************)
(* Theorems about PolitenessGate for any number of callers and domains, any*)
(* cap and any interval.                                                   *)
(***************************************************************************)
EXTENDS PolitenessGate, FiniteSetTheorems, TLAPS

-----------------------------------------------------------------------------
(* Lists of callers *)

Entries(s)  == {s[i] : i \in 1..Len(s)}
Distinct(s) == \A i, j \in 1..Len(s) : s[i] = s[j] => i = j

LEMMA AppendFacts ==
  ASSUME NEW S, NEW s \in Seq(S), NEW x \in S
  PROVE  /\ Append(s, x) \in Seq(S)
         /\ Entries(Append(s, x)) = Entries(s) \cup {x}
         /\ Distinct(s) /\ x \notin Entries(s) => Distinct(Append(s, x))
  <1> DEFINE t == Append(s, x)
  <1>1. /\ t \in Seq(S) /\ Len(s) \in Nat /\ Len(t) = Len(s) + 1
        /\ t[Len(s) + 1] = x /\ \A i \in 1..Len(s) : t[i] = s[i]
    OBVIOUS
  <1> HIDE DEF t
  <1>2. \A i \in 1..Len(t) : i \in 1..Len(s) \/ i = Len(s) + 1
    BY <1>1
  <1>3. \A i \in 1..Len(s) : i \in 1..Len(t)
    BY <1>1
  <1>4. Len(s) + 1 \in 1..Len(t)
    BY <1>1
  <1>5. Entries(t) = Entries(s) \cup {x}
    BY <1>1, <1>2, <1>3, <1>4 DEF Entries
  <1>6. ASSUME Distinct(s), x \notin Entries(s) PROVE Distinct(t)
    BY <1>1, <1>2, <1>6 DEF Distinct, Entries
  <1> QED
    BY <1>1, <1>5, <1>6 DEF t

LEMMA TailFacts ==
  ASSUME NEW S, NEW s \in Seq(S), s # <<>>
  PROVE  /\ Tail(s) \in Seq(S) /\ Head(s) \in S /\ Head(s) \in Entries(s)
         /\ Distinct(s) => Distinct(Tail(s)) /\ Entries(Tail(s)) = Entries(s) \ {Head(s)}
  <1> DEFINE t == Tail(s)
             n == Len(s)
  <1>1. /\ t \in Seq(S) /\ n \in Nat /\ n > 0 /\ Len(t) = n - 1
        /\ Head(s) = s[1] /\ Head(s) \in S
        /\ \A i \in 1..(n - 1) : t[i] = s[i + 1]
    OBVIOUS
  <1> HIDE DEF t, n
  <1>2. 1 \in 1..n /\ \A i \in 1..(n - 1) : i + 1 \in 1..n /\ i + 1 # 1
    BY <1>1
  <1>3. \A i \in 1..n : i = 1 \/ \E j \in 1..(n - 1) : i = j + 1
    <2> SUFFICES ASSUME NEW i \in 1..n, i # 1 PROVE \E j \in 1..(n - 1) : i = j + 1
      OBVIOUS
    <2>1. i - 1 \in 1..(n - 1) /\ i = (i - 1) + 1
      BY <1>1
    <2> QED
      BY <2>1
  <1>4. Head(s) \in Entries(s)
    BY <1>1, <1>2 DEF Entries, n
  <1>5. ASSUME Distinct(s) PROVE Distinct(t)
    <2> SUFFICES ASSUME NEW i \in 1..(n - 1), NEW j \in 1..(n - 1), t[i] = t[j] PROVE i = j
      BY <1>1 DEF Distinct
    <2>1. s[i + 1] = s[j + 1] /\ i + 1 \in 1..n /\ j + 1 \in 1..n
      BY <1>1, <1>2
    <2>2. i + 1 = j + 1
      BY <1>5, <2>1 DEF Distinct, n
    <2> QED
      BY <2>2
  <1>6. ASSUME Distinct(s) PROVE Entries(t) = Entries(s) \ {Head(s)}
    <2>1. \A i \in 1..(n - 1) : t[i] = s[i + 1] /\ i + 1 \in 1..n /\ s[i + 1] # s[1]
      BY <1>1, <1>2, <1>6 DEF Distinct, n
    <2>2. \A x \in Entries(t) : x \in Entries(s) /\ x # Head(s)
      BY <1>1, <2>1 DEF Entries, n
    <2>3. ASSUME NEW x \in Entries(s), x # Head(s) PROVE x \in Entries(t)
      <3>1. PICK i \in 1..n : x = s[i]
        BY DEF Entries, n
      <3>2. PICK j \in 1..(n - 1) : i = j + 1
        BY <1>1, <1>3, <2>3, <3>1
      <3> QED
        BY <1>1, <3>1, <3>2 DEF Entries
    <2> QED
      BY <2>2, <2>3
  <1> QED
    BY <1>1, <1>4, <1>5, <1>6 DEF t

-----------------------------------------------------------------------------
(* Types, and the waiting lists: a domain's list holds the callers parked    *)
(* for it, each once.                                                        *)

Parked(k)    == {c \in Callers : at[c] = "parked" /\ key[c] = k}
WaitersSound == \A k \in Keys : Distinct(waiters[k]) /\ Entries(waiters[k]) = Parked(k)
WaitInv      == GateTypeOK /\ WaitersSound

\* Where a caller may be when it is about to look for a slot of domain k.
Looking(c, k) == at[c] = "out" \/ (at[c] = "woken" /\ key[c] = k)

\* Every look at the slots is an attempt of a caller that is looking.
LEMMA LooksAreAttempts ==
  ASSUME NEW c \in Callers, key \in [Callers -> Keys],
         Recheck(c) \/ \E k \in Keys : Acquire(c, k)
  PROVE  \E k \in Keys : Looking(c, k) /\ Attempt(c, k)
  <1>1. CASE Recheck(c)
    BY <1>1 DEF Recheck, Looking
  <1>2. CASE \E k \in Keys : Acquire(c, k)
    BY <1>2 DEF Acquire, Looking
  <1> QED
    BY <1>1, <1>2

LEMMA InitWait == GateInit => WaitInv
  <1> SUFFICES ASSUME GateInit PROVE WaitInv
    OBVIOUS
  <1>1. /\ active \in [Keys -> Nat] /\ waiters \in [Keys -> Seq(Callers)]
        /\ quiet \in [Keys -> 0..MinInterval] /\ left \in [Callers -> 0..MinInterval]
    BY GateAssumption DEF GateInit
  <1>2. at \in [Callers -> Where] /\ key \in [Callers -> Keys] /\ aborted \in BOOLEAN
    BY DEF GateInit, Where
  <1>3. \A k \in Keys : waiters[k] = <<>> /\ Parked(k) = {}
    BY DEF GateInit, Parked
  <1>4. Distinct(<<>>) /\ Entries(<<>>) = {}
    BY DEF Distinct, Entries
  <1> QED
    BY <1>1, <1>2, <1>3, <1>4 DEF WaitInv, GateTypeOK, WaitersSound

\* A caller that changes places changes the types of nothing.
LEMMA MoveType ==
  ASSUME GateTypeOK, NEW c \in Callers, NEW k \in Keys, NEW w \in Where, Move(c, k, w)
  PROVE  /\ at' \in [Callers -> Where] /\ key' \in [Callers -> Keys]
         /\ at'[c] = w /\ key'[c] = k
         /\ \A d \in Callers : d # c => at'[d] = at[d] /\ key'[d] = key[d]
  BY DEF Move, GateTypeOK

LEMMA AttemptWait ==
  ASSUME WaitInv, NEW c \in Callers, NEW k \in Keys, Looking(c, k), Attempt(c, k)
  PROVE  WaitInv'
  <1>0. GateTypeOK /\ WaitersSound /\ MinInterval \in Nat /\ c \notin Entries(waiters[k])
    BY GateAssumption DEF WaitInv, WaitersSound, Parked, Looking
  <1>1. CASE Park(c, k)
    <2>1. /\ Move(c, k, "parked") /\ UNCHANGED <<active, quiet, left, aborted>>
          /\ waiters' = [waiters EXCEPT ![k] = Append(waiters[k], c)]
      BY <1>1 DEF Park
    <2>2. /\ Append(waiters[k], c) \in Seq(Callers)
          /\ Entries(Append(waiters[k], c)) = Entries(waiters[k]) \cup {c}
          /\ Distinct(waiters[k]) /\ c \notin Entries(waiters[k]) => Distinct(Append(waiters[k], c))
      BY <1>0, AppendFacts DEF GateTypeOK
    <2>3. /\ waiters' \in [Keys -> Seq(Callers)]
          /\ waiters'[k] = Append(waiters[k], c)
          /\ \A l \in Keys : l # k => waiters'[l] = waiters[l]
      BY <1>0, <2>1, <2>2 DEF GateTypeOK
    <2>4. /\ at' \in [Callers -> Where] /\ key' \in [Callers -> Keys]
          /\ at'[c] = "parked" /\ key'[c] = k
          /\ \A d \in Callers : d # c => at'[d] = at[d] /\ key'[d] = key[d]
      BY <1>0, <2>1, MoveType DEF Where
    <2>5. GateTypeOK'
      BY <1>0, <2>1, <2>3, <2>4 DEF GateTypeOK
    <2>6. /\ Parked(k)' = Parked(k) \cup {c}
          /\ \A l \in Keys : l # k => Parked(l)' = Parked(l)
      BY <2>4 DEF Parked, Looking
    <2>7. WaitersSound'
      BY <1>0, <2>2, <2>3, <2>6 DEF WaitersSound
    <2> QED
      BY <2>5, <2>7 DEF WaitInv
  <1>2. ASSUME NEW w \in Where \ {"parked"}, Move(c, k, w), UNCHANGED <<waiters, aborted>>,
               active' \in [Keys -> Nat], quiet' \in [Keys -> 0..MinInterval],
               left' \in [Callers -> 0..MinInterval]
        PROVE  WaitInv'
    <2>1. /\ at' \in [Callers -> Where] /\ key' \in [Callers -> Keys]
          /\ at'[c] = w /\ key'[c] = k
          /\ \A d \in Callers : d # c => at'[d] = at[d] /\ key'[d] = key[d]
      BY <1>0, <1>2, MoveType
    <2>2. GateTypeOK'
      BY <1>0, <1>2, <2>1 DEF GateTypeOK
    <2>3. \A l \in Keys : Parked(l)' = Parked(l)
      BY <1>2, <2>1 DEF Parked, Looking
    <2>4. WaitersSound'
      BY <1>0, <1>2, <2>3 DEF WaitersSound
    <2> QED
      BY <2>2, <2>4 DEF WaitInv
  <1>3. /\ active \in [Keys -> Nat] /\ [active EXCEPT ![k] = @ + 1] \in [Keys -> Nat]
        /\ quiet \in [Keys -> 0..MinInterval] /\ [quiet EXCEPT ![k] = 0] \in [Keys -> 0..MinInterval]
        /\ left \in [Callers -> 0..MinInterval]
        /\ [left EXCEPT ![c] = MinInterval - quiet[k]] \in [Callers -> 0..MinInterval]
    <2>1. /\ active \in [Keys -> Nat] /\ quiet \in [Keys -> 0..MinInterval]
          /\ left \in [Callers -> 0..MinInterval]
      BY <1>0 DEF GateTypeOK
    <2>2. active[k] + 1 \in Nat /\ 0 \in 0..MinInterval /\ MinInterval - quiet[k] \in 0..MinInterval
      <3>1. active[k] \in Nat /\ quiet[k] \in 0..MinInterval
        BY <2>1
      <3> QED
        BY <1>0, <3>1
    <2> QED
      BY <2>1, <2>2
  <1>4. CASE GiveUp(c, k)
    BY <1>2, <1>3, <1>4 DEF GiveUp, Where
  <1>5. CASE Enter(c, k)
    BY <1>2, <1>3, <1>5 DEF Enter, Where
  <1>6. CASE Sleep(c, k)
    BY <1>2, <1>3, <1>6 DEF Sleep, Where
  <1>7. CASE SleepRejected(c, k)
    BY <1>2, <1>3, <1>7 DEF SleepRejected, Where
  <1> QED
    BY <1>1, <1>4, <1>5, <1>6, <1>7 DEF Attempt

\* The caller first on the list of the domain is on no other list, and leaves it.
LEMMA ReleaseWait ==
  ASSUME WaitInv, NEW c \in Callers, Release(c)
  PROVE  WaitInv'
  <1>k. PICK k \in Keys : k = key[c]
    BY DEF WaitInv, GateTypeOK
  <1>h. PICK h : h = Head(waiters[k])
    OBVIOUS
  <1>0. /\ GateTypeOK /\ WaitersSound /\ MinInterval \in Nat
        /\ at[c] = "in" /\ waiters[k] \in Seq(Callers)
    BY GateAssumption DEF WaitInv, Release, GateTypeOK
  <1>1. key' = key /\ left' = left /\ aborted' = aborted
    BY DEF Release
  <1>2. active' \in [Keys -> Nat] /\ quiet' \in [Keys -> 0..MinInterval]
    BY <1>k, <1>0 DEF Release, GateTypeOK
  <1>3. CASE waiters[k] = <<>>
    <2>1. waiters' = waiters /\ at' = [d \in Callers |-> IF d = c THEN "out" ELSE at[d]]
      BY <1>k, <1>3 DEF Release
    <2>2. at' \in [Callers -> Where]
      BY <1>0, <2>1 DEF GateTypeOK, Where
    <2>3. GateTypeOK'
      BY <1>0, <1>1, <1>2, <2>1, <2>2 DEF GateTypeOK
    <2>4. \A l \in Keys : Parked(l)' = Parked(l)
      BY <1>0, <1>1, <2>1 DEF Parked
    <2> QED
      BY <1>0, <2>1, <2>3, <2>4 DEF WaitersSound, WaitInv
  <1>4. CASE waiters[k] # <<>>
    <2>1. /\ waiters' = [waiters EXCEPT ![k] = Tail(waiters[k])]
          /\ at' = [d \in Callers |-> IF d = c THEN "out" ELSE IF d = h THEN "woken" ELSE at[d]]
      BY <1>k, <1>h, <1>4 DEF Release
    <2>2. /\ Tail(waiters[k]) \in Seq(Callers) /\ h \in Callers /\ h \in Entries(waiters[k])
          /\ Distinct(Tail(waiters[k])) /\ Entries(Tail(waiters[k])) = Entries(waiters[k]) \ {h}
      BY <1>h, <1>0, <1>4, TailFacts DEF WaitersSound
    <2>3. /\ waiters' \in [Keys -> Seq(Callers)] /\ waiters'[k] = Tail(waiters[k])
          /\ \A l \in Keys : l # k => waiters'[l] = waiters[l]
      BY <1>0, <2>1, <2>2 DEF GateTypeOK
    <2>4. at' \in [Callers -> Where]
      BY <1>0, <2>1 DEF GateTypeOK, Where
    <2>5. GateTypeOK'
      BY <1>0, <1>1, <1>2, <2>3, <2>4 DEF GateTypeOK
    <2>6. key[h] = k /\ at[h] = "parked"
      BY <1>0, <2>2 DEF WaitersSound, Parked
    <2>7. /\ Parked(k)' = Parked(k) \ {h}
          /\ \A l \in Keys : l # k => Parked(l)' = Parked(l)
      BY <1>0, <1>1, <2>1, <2>6 DEF Parked
    <2>8. WaitersSound'
      BY <1>0, <2>2, <2>3, <2>7 DEF WaitersSound
    <2> QED
      BY <2>5, <2>8 DEF WaitInv
  <1> QED
    BY <1>3, <1>4

LEMMA NextWait == WaitInv /\ [GateNext]_gateVars => WaitInv'
  <1> SUFFICES ASSUME WaitInv, [GateNext]_gateVars PROVE WaitInv'
    OBVIOUS
  <1>0. GateTypeOK /\ WaitersSound /\ MinInterval \in Nat
    BY GateAssumption DEF WaitInv
  <1>1. ASSUME NEW c \in Callers, Recheck(c) \/ \E k \in Keys : Acquire(c, k) PROVE WaitInv'
    <2>1. PICK k \in Keys : Looking(c, k) /\ Attempt(c, k)
      BY <1>0, <1>1, LooksAreAttempts DEF GateTypeOK
    <2> QED
      BY <2>1, AttemptWait
  <1>2. ASSUME UNCHANGED waiters, GateTypeOK', \A k \in Keys : Parked(k)' = Parked(k)
        PROVE  WaitInv'
    BY <1>0, <1>2 DEF WaitersSound, WaitInv
  <1>3. ASSUME NEW c \in Callers, WakeUp(c) PROVE WaitInv'
    <2>1. key[c] \in Keys /\ Move(c, key[c], "in") /\ at[c] = "sleeping"
      BY <1>0, <1>3 DEF WakeUp, GateTypeOK
    <2>2. /\ at' \in [Callers -> Where] /\ key' \in [Callers -> Keys]
          /\ at'[c] = "in" /\ key'[c] = key[c]
          /\ \A d \in Callers : d # c => at'[d] = at[d] /\ key'[d] = key[d]
      BY <1>0, <2>1, MoveType DEF Where
    <2>3. quiet' \in [Keys -> 0..MinInterval] /\ UNCHANGED <<active, waiters, left, aborted>>
      BY <1>0, <1>3, <2>1 DEF WakeUp, GateTypeOK
    <2>4. GateTypeOK'
      BY <1>0, <2>2, <2>3 DEF GateTypeOK
    <2>5. \A k \in Keys : Parked(k)' = Parked(k)
      BY <2>1, <2>2 DEF Parked
    <2> QED
      BY <1>2, <2>3, <2>4, <2>5
  <1>4. ASSUME NEW c \in Callers, Leave(c) PROVE WaitInv'
    <2>1. /\ at' = [at EXCEPT ![c] = "out"] /\ at[c] = "refused"
          /\ UNCHANGED <<active, waiters, quiet, key, left, aborted>>
      BY <1>4 DEF Leave
    <2>2. at' \in [Callers -> Where]
      BY <1>0, <2>1 DEF GateTypeOK, Where
    <2>3. GateTypeOK'
      BY <1>0, <2>1, <2>2 DEF GateTypeOK
    <2>4. \A k \in Keys : Parked(k)' = Parked(k)
      BY <1>0, <2>1 DEF Parked, GateTypeOK
    <2> QED
      BY <1>2, <2>1, <2>3, <2>4
  <1>5. ASSUME NEW c \in Callers, Release(c) PROVE WaitInv'
    BY <1>5, ReleaseWait
  <1>6. CASE Abort
    <2>1. /\ at' = [c \in Callers |-> IF at[c] = "sleeping" THEN "refused" ELSE at[c]]
          /\ aborted' = TRUE /\ left' = [c \in Callers |-> 0]
          /\ UNCHANGED <<active, waiters, quiet, key>>
      BY <1>6 DEF Abort
    <2>2. at' \in [Callers -> Where] /\ left' \in [Callers -> 0..MinInterval]
      BY <1>0, <2>1 DEF GateTypeOK, Where
    <2>3. GateTypeOK'
      BY <1>0, <2>1, <2>2 DEF GateTypeOK
    <2>4. \A k \in Keys : Parked(k)' = Parked(k)
      BY <1>0, <2>1 DEF Parked, GateTypeOK
    <2> QED
      BY <1>2, <2>1, <2>3, <2>4
  <1>7. CASE Tick
    <2>1. quiet' \in [Keys -> 0..MinInterval]
      BY <1>0, <1>7 DEF Tick, GateTypeOK
    <2>2. left' \in [Callers -> 0..MinInterval]
      <3>1. left' = [d \in Callers |-> IF at[d] = "sleeping" /\ left[d] > 0 THEN left[d] - 1 ELSE left[d]]
        BY <1>7 DEF Tick
      <3>2. \A d \in Callers : left[d] \in 0..MinInterval
        BY <1>0 DEF GateTypeOK
      <3> QED
        BY <1>0, <3>1, <3>2
    <2>3. UNCHANGED <<active, waiters, at, key, aborted>>
      BY <1>7 DEF Tick
    <2>4. GateTypeOK' /\ \A k \in Keys : Parked(k)' = Parked(k)
      BY <1>0, <2>1, <2>2, <2>3 DEF GateTypeOK, Parked
    <2> QED
      BY <1>2, <2>3, <2>4
  <1>8. CASE NewGate
    <2>1. active' \in [Keys -> Nat] /\ waiters' \in [Keys -> Seq(Callers)]
      BY <1>8 DEF NewGate
    <2>2. quiet' \in [Keys -> 0..MinInterval] /\ left' \in [Callers -> 0..MinInterval]
      BY <1>0, <1>8 DEF NewGate
    <2>3. at' \in [Callers -> Where] /\ key' \in [Callers -> Keys] /\ aborted' \in BOOLEAN
      BY <1>0, <1>8 DEF NewGate, GateTypeOK, Where
    <2>4. \A k \in Keys : waiters'[k] = <<>> /\ Parked(k)' = {}
      BY <1>8 DEF NewGate, Parked
    <2>5. Distinct(<<>>) /\ Entries(<<>>) = {}
      BY DEF Distinct, Entries
    <2> QED
      BY <2>1, <2>2, <2>3, <2>4, <2>5 DEF WaitInv, GateTypeOK, WaitersSound
  <1>9. CASE UNCHANGED gateVars
    <2>1. GateTypeOK' /\ \A k \in Keys : Parked(k)' = Parked(k)
      BY <1>0, <1>9 DEF GateTypeOK, Parked, gateVars
    <2> QED
      BY <1>2, <1>9, <2>1 DEF gateVars
  <1> QED
    BY <1>1, <1>3, <1>4, <1>5, <1>6, <1>7, <1>8, <1>9 DEF GateNext

\* The gate's variables keep their types, whatever its callers do.
THEOREM GateTypeCorrect == GateSpec => []GateTypeOK
  <1>1. WaitInv => GateTypeOK
    BY DEF WaitInv
  <1> QED
    BY InitWait, NextWait, <1>1, PTL DEF GateSpec

-----------------------------------------------------------------------------
(* Slots: those taken are as many as the callers past the gate, and never    *)
(* more than the cap; after an abort some may be taken by nobody.            *)

SlotsSound ==
  \A k \in Keys :
    /\ active[k] <= MaxConcurrent
    /\ Cardinality(Holders(k)) <= active[k]
    /\ ~aborted => active[k] = Cardinality(Holders(k))

Woken(k) == {c \in Callers : key[c] = k /\ at[c] = "woken"}

WakeupKept ==
  ~aborted => \A k \in Keys : Parked(k) # {} => active[k] + Cardinality(Woken(k)) >= MaxConcurrent

SlotInv == WaitInv /\ SlotsSound /\ WakeupKept

LEMMA CallerSets ==
  ASSUME NEW S \in SUBSET Callers, NEW c \in Callers
  PROVE  /\ Cardinality(S) \in Nat
         /\ Cardinality(S \cup {c}) = IF c \in S THEN Cardinality(S) ELSE Cardinality(S) + 1
         /\ Cardinality(S \ {c}) = IF c \in S THEN Cardinality(S) - 1 ELSE Cardinality(S)
  <1>1. IsFiniteSet(S)
    BY GateAssumption, FS_Subset
  <1> QED
    BY <1>1, FS_CardinalityType, FS_AddElement, FS_RemoveElement

LEMMA SetsOfCallers == \A k \in Keys : Holders(k) \subseteq Callers /\ Woken(k) \subseteq Callers
  BY DEF Holders, Woken

LEMMA InitSlots == GateInit => SlotInv
  <1> SUFFICES ASSUME GateInit PROVE SlotInv
    OBVIOUS
  <1>1. \A k \in Keys : active[k] = 0 /\ Holders(k) = {} /\ Parked(k) = {}
    BY DEF GateInit, Holders, Holds, Parked
  <1>2. MaxConcurrent \in Nat \ {0} /\ Cardinality({}) = 0
    BY GateAssumption, FS_EmptySet
  <1>3. SlotsSound
    <2> SUFFICES ASSUME NEW k \in Keys
                 PROVE  /\ active[k] <= MaxConcurrent /\ Cardinality(Holders(k)) <= active[k]
                        /\ active[k] = Cardinality(Holders(k))
      BY DEF SlotsSound
    <2>1. active[k] = 0 /\ Cardinality(Holders(k)) = 0
      BY <1>1, <1>2
    <2> QED
      BY <1>2, <2>1
  <1>4. WakeupKept
    BY <1>1 DEF WakeupKept
  <1> QED
    BY <1>3, <1>4, InitWait DEF SlotInv

\* A caller that looked at domain k and took place w there.
LEMMA AttemptSets ==
  ASSUME GateTypeOK, NEW c \in Callers, NEW k \in Keys, NEW w \in Where, Looking(c, k), Move(c, k, w)
  PROVE  /\ \A l \in Keys : l # k => /\ Holders(l)' = Holders(l) /\ Woken(l)' = Woken(l)
                                     /\ Parked(l)' = Parked(l)
         /\ Holders(k)' = IF w \in {"sleeping", "in"} THEN Holders(k) \cup {c} ELSE Holders(k)
         /\ w # "woken" => Woken(k)' = Woken(k) \ {c}
         /\ w # "parked" => Parked(k)' = Parked(k)
         /\ c \notin Holders(k)
  <1>1. /\ at'[c] = w /\ key'[c] = k
        /\ \A d \in Callers : d # c => at'[d] = at[d] /\ key'[d] = key[d]
    BY MoveType
  <1>2. \A l \in Keys : c \notin Holders(l) /\ c \notin Parked(l) /\ (l # k => c \notin Woken(l))
    BY DEF Looking, Holders, Holds, Parked, Woken
  <1>3. \A l \in Keys : l # k => /\ Holders(l)' = Holders(l) /\ Woken(l)' = Woken(l)
                                 /\ Parked(l)' = Parked(l)
    BY <1>1, <1>2 DEF Holders, Holds, Parked, Woken
  <1>4. Holders(k)' = IF w \in {"sleeping", "in"} THEN Holders(k) \cup {c} ELSE Holders(k)
    BY <1>1, <1>2 DEF Holders, Holds
  <1>5. w # "woken" => Woken(k)' = Woken(k) \ {c}
    BY <1>1 DEF Woken
  <1>6. w # "parked" => Parked(k)' = Parked(k)
    BY <1>1, <1>2 DEF Parked
  <1> QED
    BY <1>2, <1>3, <1>4, <1>5, <1>6

LEMMA AttemptSlots ==
  ASSUME SlotInv, NEW c \in Callers, NEW k \in Keys, Looking(c, k), Attempt(c, k)
  PROVE  SlotsSound' /\ WakeupKept'
  <1>0. /\ GateTypeOK /\ SlotsSound /\ WakeupKept /\ MaxConcurrent \in Nat
        /\ active \in [Keys -> Nat] /\ aborted \in BOOLEAN
    BY GateAssumption DEF SlotInv, WaitInv, GateTypeOK
  <1>1. /\ Cardinality(Holders(k)) \in Nat /\ Cardinality(Woken(k)) \in Nat
        /\ c \notin Holders(k) => Cardinality(Holders(k) \cup {c}) = Cardinality(Holders(k)) + 1
        /\ Cardinality(Woken(k) \ {c}) \in Nat
        /\ Cardinality(Woken(k) \ {c}) >= Cardinality(Woken(k)) - 1
    <2>1. Holders(k) \in SUBSET Callers /\ Woken(k) \in SUBSET Callers
      BY SetsOfCallers
    <2>2. PICK n \in Nat : n = Cardinality(Woken(k))
      BY <2>1, CallerSets
    <2>3. Cardinality(Woken(k) \ {c}) = n \/ Cardinality(Woken(k) \ {c}) = n - 1
      BY <2>1, <2>2, CallerSets
    <2>4. Cardinality(Woken(k) \ {c}) \in Nat
      <3>1. Woken(k) \ {c} \in SUBSET Callers
        BY <2>1
      <3> QED
        BY <3>1, CallerSets
    <2>5. Cardinality(Woken(k) \ {c}) >= n - 1
      BY <2>2, <2>3
    <2>6. /\ Cardinality(Holders(k)) \in Nat
          /\ c \notin Holders(k) => Cardinality(Holders(k) \cup {c}) = Cardinality(Holders(k)) + 1
      BY <2>1, CallerSets
    <2> QED
      BY <2>2, <2>4, <2>5, <2>6
  <1>2. ASSUME NEW w \in {"parked", "refused"}, Move(c, k, w), Full(k), UNCHANGED <<active, aborted>>,
               w = "refused" => aborted
        PROVE  SlotsSound' /\ WakeupKept'
    <2>1. /\ \A l \in Keys : l # k => /\ Holders(l)' = Holders(l) /\ Woken(l)' = Woken(l)
                                      /\ Parked(l)' = Parked(l)
          /\ Holders(k)' = Holders(k) /\ Woken(k)' = Woken(k) \ {c}
      BY <1>0, <1>2, AttemptSets DEF Where
    <2>2. SlotsSound'
      BY <1>0, <1>2, <2>1 DEF SlotsSound
    <2>3. active[k] >= MaxConcurrent
      BY <1>2 DEF Full
    <2>4. WakeupKept'
      <3> SUFFICES ASSUME ~aborted', NEW l \in Keys, Parked(l)' # {}
                   PROVE  active'[l] + Cardinality(Woken(l)') >= MaxConcurrent
        BY DEF WakeupKept
      <3>1. CASE l = k
        <4>1. active'[l] \in Nat /\ active'[l] >= MaxConcurrent
          BY <1>0, <1>2, <2>3, <3>1
        <4>2. Cardinality(Woken(l)') \in Nat
          BY <1>1, <2>1, <3>1
        <4> QED
          BY <1>0, <4>1, <4>2
      <3>2. CASE l # k
        BY <1>0, <1>2, <2>1, <3>2 DEF WakeupKept
      <3> QED
        BY <3>1, <3>2
    <2> QED
      BY <2>2, <2>4
  <1>3. ASSUME NEW w \in {"sleeping", "in", "refused"}, Move(c, k, w), ~Full(k),
               active' = [active EXCEPT ![k] = @ + 1], UNCHANGED aborted, w = "refused" => aborted
        PROVE  SlotsSound' /\ WakeupKept'
    <2>1. /\ \A l \in Keys : l # k => /\ Holders(l)' = Holders(l) /\ Woken(l)' = Woken(l)
                                      /\ Parked(l)' = Parked(l)
          /\ Woken(k)' = Woken(k) \ {c} /\ Parked(k)' = Parked(k) /\ c \notin Holders(k)
          /\ Holders(k)' = IF w = "refused" THEN Holders(k) ELSE Holders(k) \cup {c}
      BY <1>0, <1>3, AttemptSets DEF Where
    <2>2. /\ active'[k] = active[k] + 1 /\ active[k] \in Nat /\ active[k] < MaxConcurrent
          /\ \A l \in Keys : l # k => active'[l] = active[l]
      BY <1>0, <1>3 DEF Full
    <2>3. SlotsSound'
      <3> SUFFICES ASSUME NEW l \in Keys
                   PROVE  /\ active'[l] <= MaxConcurrent /\ Cardinality(Holders(l)') <= active'[l]
                          /\ ~aborted' => active'[l] = Cardinality(Holders(l)')
        BY DEF SlotsSound
      <3>1. CASE l = k
        <4>1. PICK n \in Nat : n = Cardinality(Holders(k))
          BY <1>1
        <4>2. n <= active[k] /\ (~aborted => active[k] = n)
          BY <1>0, <4>1 DEF SlotsSound
        <4>3. Cardinality(Holders(l)') = IF w = "refused" THEN n ELSE n + 1
          BY <1>1, <2>1, <3>1, <4>1
        <4> QED
          BY <1>0, <1>3, <2>2, <3>1, <4>2, <4>3
      <3>2. CASE l # k
        BY <1>0, <1>3, <2>1, <2>2, <3>2 DEF SlotsSound
      <3> QED
        BY <3>1, <3>2
    <2>4. WakeupKept'
      <3> SUFFICES ASSUME ~aborted', NEW l \in Keys, Parked(l)' # {}
                   PROVE  active'[l] + Cardinality(Woken(l)') >= MaxConcurrent
        BY DEF WakeupKept
      <3>1. CASE l = k
        <4>1. PICK n \in Nat : n = Cardinality(Woken(k))
          BY <1>1
        <4>2. active[k] + n >= MaxConcurrent
          BY <1>0, <1>3, <2>1, <3>1, <4>1 DEF WakeupKept
        <4>3. Cardinality(Woken(l)') = Cardinality(Woken(k) \ {c})
          BY <2>1, <3>1
        <4>4. PICK m \in Nat : m = Cardinality(Woken(l)') /\ m >= n - 1
          BY <1>1, <4>1, <4>3
        <4>5. active'[l] + m >= MaxConcurrent
          BY <1>0, <2>2, <3>1, <4>2, <4>4
        <4> QED
          BY <4>4, <4>5
      <3>2. CASE l # k
        BY <1>0, <1>3, <2>1, <2>2, <3>2 DEF WakeupKept
      <3> QED
        BY <3>1, <3>2
    <2> QED
      BY <2>3, <2>4
  <1>4. CASE Park(c, k)
    BY <1>2, <1>4 DEF Park
  <1>5. CASE GiveUp(c, k)
    BY <1>2, <1>5 DEF GiveUp
  <1>6. CASE Enter(c, k)
    BY <1>3, <1>6 DEF Enter
  <1>7. CASE Sleep(c, k)
    BY <1>3, <1>7 DEF Sleep
  <1>8. CASE SleepRejected(c, k)
    BY <1>3, <1>8 DEF SleepRejected
  <1> QED
    BY <1>4, <1>5, <1>6, <1>7, <1>8 DEF Attempt

\* The slot goes, and so does its holder; the first waiter, if any, is woken.
LEMMA ReleaseSlots ==
  ASSUME SlotInv, NEW c \in Callers, Release(c)
  PROVE  SlotsSound' /\ WakeupKept'
  <1>k. PICK k \in Keys : k = key[c]
    BY DEF SlotInv, WaitInv, GateTypeOK
  <1>h. PICK h : h = Head(waiters[k])
    OBVIOUS
  <1>0. /\ GateTypeOK /\ WaitersSound /\ SlotsSound /\ WakeupKept /\ MaxConcurrent \in Nat
        /\ active \in [Keys -> Nat] /\ aborted \in BOOLEAN /\ waiters[k] \in Seq(Callers)
        /\ key' = key /\ aborted' = aborted /\ at[c] = "in"
    BY GateAssumption DEF SlotInv, WaitInv, GateTypeOK, Release
  <1>1. c \in Holders(k)
    BY <1>k, <1>0 DEF Holders, Holds
  <1>2. /\ Cardinality(Holders(k)) \in Nat /\ Cardinality(Woken(k)) \in Nat
        /\ Cardinality(Holders(k) \ {c}) = Cardinality(Holders(k)) - 1
        /\ Cardinality(Holders(k) \ {c}) \in Nat
    BY <1>1, CallerSets, SetsOfCallers
  <1>3. /\ active'[k] = active[k] - 1 /\ active[k] \in Nat /\ active[k] > 0
        /\ \A l \in Keys : l # k => active'[l] = active[l]
    <2>1. active[k] > 0
      BY <1>0, <1>2 DEF SlotsSound
    <2>2. active' = [active EXCEPT ![k] = active[k] - 1]
      BY <1>k, <2>1 DEF Release
    <2> QED
      BY <1>0, <2>1, <2>2
  <1>s. ASSUME \A l \in Keys : Holders(l)' = IF l = k THEN Holders(k) \ {c} ELSE Holders(l)
        PROVE  SlotsSound'
    <2> SUFFICES ASSUME NEW l \in Keys
                 PROVE  /\ active'[l] <= MaxConcurrent /\ Cardinality(Holders(l)') <= active'[l]
                        /\ ~aborted' => active'[l] = Cardinality(Holders(l)')
      BY DEF SlotsSound
    <2>1. CASE l = k
      <3>1. PICK n \in Nat : n = Cardinality(Holders(k))
        BY <1>2
      <3>2. n <= active[k] /\ active[k] <= MaxConcurrent /\ (~aborted => active[k] = n)
        BY <1>0, <3>1 DEF SlotsSound
      <3>3. Cardinality(Holders(l)') = n - 1
        BY <1>s, <1>2, <2>1, <3>1
      <3> QED
        BY <1>0, <1>3, <2>1, <3>2, <3>3
    <2>2. CASE l # k
      <3>1. Holders(l)' = Holders(l) /\ active'[l] = active[l]
        BY <1>s, <1>3, <2>2
      <3> QED
        BY <1>0, <3>1 DEF SlotsSound
    <2> QED
      BY <2>1, <2>2
  <1>4. CASE waiters[k] = <<>>
    <2>1. at' = [d \in Callers |-> IF d = c THEN "out" ELSE at[d]]
      BY <1>k, <1>4 DEF Release
    <2>2. \A l \in Keys : Woken(l)' = Woken(l) /\ Parked(l)' = Parked(l)
      BY <1>0, <2>1 DEF Woken, Parked
    <2>3. \A l \in Keys : Holders(l)' = IF l = k THEN Holders(k) \ {c} ELSE Holders(l)
      BY <1>k, <1>0, <2>1 DEF Holders, Holds
    <2>4. Parked(k) = {}
      BY <1>0, <1>4 DEF WaitersSound, Entries
    <2>5. SlotsSound'
      BY <1>s, <2>3
    <2>6. WakeupKept'
      BY <1>0, <1>3, <2>2, <2>4 DEF WakeupKept
    <2> QED
      BY <2>5, <2>6
  <1>5. CASE waiters[k] # <<>>
    <2>1. at' = [d \in Callers |-> IF d = c THEN "out" ELSE IF d = h THEN "woken" ELSE at[d]]
      BY <1>k, <1>h, <1>5 DEF Release
    <2>2. h \in Callers /\ h \in Parked(k)
      BY <1>h, <1>0, <1>5, TailFacts DEF WaitersSound
    <2>3. at[h] = "parked" /\ key[h] = k /\ h # c
      BY <1>0, <2>2 DEF Parked
    <2>4. \A l \in Keys : Holders(l)' = IF l = k THEN Holders(k) \ {c} ELSE Holders(l)
      BY <1>k, <1>0, <2>1, <2>3 DEF Holders, Holds
    <2>5. \A l \in Keys : l # k => Woken(l)' = Woken(l) /\ Parked(l)' = Parked(l)
      BY <1>0, <2>1, <2>3 DEF Woken, Parked
    <2>6. Woken(k)' = Woken(k) \cup {h} /\ h \notin Woken(k)
      BY <1>0, <2>1, <2>2, <2>3 DEF Woken
    <2>7. Cardinality(Woken(k) \cup {h}) = Cardinality(Woken(k)) + 1
      BY <2>2, <2>6, CallerSets, SetsOfCallers
    <2>8. SlotsSound'
      BY <1>s, <2>4
    <2>9. WakeupKept'
      <3> SUFFICES ASSUME ~aborted', NEW l \in Keys, Parked(l)' # {}
                   PROVE  active'[l] + Cardinality(Woken(l)') >= MaxConcurrent
        BY DEF WakeupKept
      <3>1. CASE l = k
        <4>1. active[k] + Cardinality(Woken(k)) >= MaxConcurrent
          BY <1>0, <2>2 DEF WakeupKept
        <4>2. PICK n \in Nat : n = Cardinality(Woken(k))
          BY <1>2
        <4>3. Cardinality(Woken(l)') = n + 1
          BY <2>6, <2>7, <3>1, <4>2
        <4>4. active'[l] = active[k] - 1
          BY <1>3, <3>1
        <4> QED
          BY <1>0, <1>3, <4>1, <4>2, <4>3, <4>4
      <3>2. CASE l # k
        BY <1>0, <1>3, <2>5, <3>2 DEF WakeupKept
      <3> QED
        BY <3>1, <3>2
    <2> QED
      BY <2>8, <2>9
  <1> QED
    BY <1>4, <1>5

LEMMA NextSlots == SlotInv /\ [GateNext]_gateVars => SlotInv'
  <1> SUFFICES ASSUME SlotInv, [GateNext]_gateVars PROVE SlotsSound' /\ WakeupKept'
    BY NextWait DEF SlotInv
  <1>0. GateTypeOK /\ SlotsSound /\ WakeupKept /\ MaxConcurrent \in Nat
    BY GateAssumption DEF SlotInv, WaitInv
  <1>1. ASSUME NEW c \in Callers, Recheck(c) \/ \E k \in Keys : Acquire(c, k)
        PROVE  SlotsSound' /\ WakeupKept'
    <2>1. PICK k \in Keys : Looking(c, k) /\ Attempt(c, k)
      BY <1>0, <1>1, LooksAreAttempts DEF GateTypeOK
    <2> QED
      BY <2>1, AttemptSlots
  <1>2. ASSUME UNCHANGED <<active, aborted>>,
               \A k \in Keys : /\ Holders(k)' = Holders(k)
                               /\ Woken(k)' = Woken(k) /\ Parked(k)' = Parked(k)
        PROVE  SlotsSound' /\ WakeupKept'
    BY <1>0, <1>2 DEF SlotsSound, WakeupKept
  <1>3. ASSUME NEW c \in Callers, WakeUp(c) PROVE SlotsSound' /\ WakeupKept'
    <2>1. /\ at' = [at EXCEPT ![c] = "in"] /\ key' = [key EXCEPT ![c] = key[c]]
          /\ at[c] = "sleeping" /\ UNCHANGED <<active, aborted>>
      BY <1>3 DEF WakeUp, Move
    <2>2. \A k \in Keys : /\ Holders(k)' = Holders(k)
                          /\ Woken(k)' = Woken(k) /\ Parked(k)' = Parked(k)
      BY <1>0, <2>1 DEF GateTypeOK, Holders, Holds, Woken, Parked
    <2> QED
      BY <1>2, <2>1, <2>2
  <1>4. ASSUME NEW c \in Callers, Leave(c) PROVE SlotsSound' /\ WakeupKept'
    <2>1. /\ at' = [at EXCEPT ![c] = "out"] /\ at[c] = "refused" /\ UNCHANGED <<active, key, aborted>>
      BY <1>4 DEF Leave
    <2>2. \A k \in Keys : /\ Holders(k)' = Holders(k)
                          /\ Woken(k)' = Woken(k) /\ Parked(k)' = Parked(k)
      BY <1>0, <2>1 DEF GateTypeOK, Holders, Holds, Woken, Parked
    <2> QED
      BY <1>2, <2>1, <2>2
  <1>5. ASSUME NEW c \in Callers, Release(c) PROVE SlotsSound' /\ WakeupKept'
    BY <1>5, ReleaseSlots
  <1>6. CASE Abort
    <2>1. aborted' = TRUE /\ active' = active /\ \A k \in Keys : Holders(k)' \subseteq Holders(k)
      BY <1>6 DEF Abort, Holders, Holds
    <2>2. \A k \in Keys : /\ Cardinality(Holders(k)) \in Nat /\ Cardinality(Holders(k)') \in Nat
                          /\ Cardinality(Holders(k)') <= Cardinality(Holders(k))
      <3> SUFFICES ASSUME NEW k \in Keys
                   PROVE  /\ Cardinality(Holders(k)) \in Nat /\ Cardinality(Holders(k)') \in Nat
                          /\ Cardinality(Holders(k)') <= Cardinality(Holders(k))
        OBVIOUS
      <3>1. IsFiniteSet(Holders(k)) /\ Holders(k)' \in SUBSET Holders(k)
        BY <2>1, GateAssumption, FS_Subset, SetsOfCallers
      <3> QED
        BY <3>1, FS_Subset, FS_CardinalityType
    <2>3. active \in [Keys -> Nat]
      BY <1>0 DEF GateTypeOK
    <2> QED
      BY <1>0, <2>1, <2>2, <2>3 DEF SlotsSound, WakeupKept
  <1>7. CASE Tick
    <2>1. UNCHANGED <<active, at, key, aborted>>
      BY <1>7 DEF Tick
    <2> QED
      BY <1>2, <2>1 DEF Holders, Holds, Woken, Parked
  <1>8. CASE NewGate
    <2>1. \A k \in Keys : active'[k] = 0 /\ Holders(k)' = {} /\ Parked(k)' = {}
      BY <1>8 DEF NewGate, Holders, Holds, Parked
    <2> QED
      BY <1>0, <2>1, FS_EmptySet DEF SlotsSound, WakeupKept
  <1>9. CASE UNCHANGED gateVars
    BY <1>2, <1>9 DEF gateVars, Holders, Holds, Woken, Parked
  <1> QED
    BY <1>1, <1>3, <1>4, <1>5, <1>6, <1>7, <1>8, <1>9 DEF GateNext

LEMMA SlotInvariant == GateSpec => []SlotInv
  BY InitSlots, NextSlots, PTL DEF GateSpec

\* politeness.mjs, acquire(): never more callers of a domain past the gate than its
\* cap, whatever wakes whom and whatever is aborted.
THEOREM CapKept == GateSpec => []CapRespected
  <1>1. SlotInv => CapRespected
    <2> SUFFICES ASSUME SlotInv, NEW k \in Keys PROVE Cardinality(Holders(k)) <= MaxConcurrent
      BY DEF CapRespected
    <2>1. Cardinality(Holders(k)) <= active[k] /\ active[k] <= MaxConcurrent
      BY DEF SlotInv, SlotsSound
    <2>2. Cardinality(Holders(k)) \in Int /\ active[k] \in Int /\ MaxConcurrent \in Int
      <3>1. IsFiniteSet(Holders(k))
        BY GateAssumption, FS_Subset, SetsOfCallers
      <3> QED
        BY <3>1, GateAssumption, FS_CardinalityType DEF SlotInv, WaitInv, GateTypeOK
    <2> QED
      BY <2>1, <2>2
  <1> QED
    BY SlotInvariant, <1>1, PTL

\* acquire() and release(): until an abort, no slot leaks and none is given twice.
THEOREM SlotsKept == GateSpec => []SlotsAccounted
  <1>1. SlotInv => SlotsAccounted
    <2> SUFFICES ASSUME SlotInv, NEW k \in Keys
                 PROVE  IF aborted THEN active[k] >= Cardinality(Holders(k))
                        ELSE active[k] = Cardinality(Holders(k))
      BY DEF SlotsAccounted
    <2> QED
      BY DEF SlotInv, SlotsSound
  <1> QED
    BY SlotInvariant, <1>1, PTL

\* release(): until an abort, a parked caller's slot is either taken or about to be
\* looked at by a caller that was woken.
THEOREM WakeupsKept == GateSpec => []NoLostWakeup
  <1>1. SlotInv => NoLostWakeup
    <2> SUFFICES ASSUME SlotInv, ~aborted, NEW c \in Callers, at[c] = "parked"
                 PROVE  active[key[c]] + Cardinality({d \in Callers : key[d] = key[c] /\ at[d] = "woken"})
                          >= MaxConcurrent
      BY DEF NoLostWakeup
    <2>1. key[c] \in Keys /\ c \in Parked(key[c])
      BY DEF SlotInv, WaitInv, GateTypeOK, Parked
    <2>2. active[key[c]] + Cardinality(Woken(key[c])) >= MaxConcurrent
      BY <2>1 DEF SlotInv, WakeupKept
    <2> QED
      BY <2>2 DEF Woken
  <1> QED
    BY SlotInvariant, <1>1, PTL
-----------------------------------------------------------------------------
(* The interval, with the shipped cap of one: whoever sleeps holds the only  *)
(* slot, so nobody sets lastAt meanwhile and the wait it computed stays right.*)

SleepSound ==
  \A c \in Callers : at[c] = "sleeping" => left[c] + quiet[key[c]] >= MinInterval

\* Whoever starts a request finds the domain quiet long enough.
StartsQuiet == \A c \in Callers : at[c] # "in" /\ at'[c] = "in" => quiet[key'[c]] = MinInterval

LEMMA HolderAlone ==
  ASSUME MaxConcurrent = 1, SlotInv, NEW k \in Keys, NEW c \in Callers, Holds(c, k)
  PROVE  Full(k) /\ \A d \in Callers : Holds(d, k) => d = c
  <1>1. PICK n : n = Cardinality(Holders(k))
    OBVIOUS
  <1>2. /\ n \in Nat /\ Cardinality(Holders(k) \ {c}) = n - 1 /\ c \in Holders(k)
        /\ IsFiniteSet(Holders(k) \ {c}) /\ Cardinality(Holders(k) \ {c}) \in Nat
    <2>1. Holders(k) \in SUBSET Callers /\ Holders(k) \ {c} \in SUBSET Callers /\ c \in Holders(k)
      BY SetsOfCallers DEF Holders
    <2>2. IsFiniteSet(Holders(k) \ {c})
      BY <2>1, GateAssumption, FS_Subset
    <2> QED
      BY <1>1, <2>1, <2>2, CallerSets
  <1>3. n <= active[k] /\ active[k] <= 1 /\ active[k] \in Nat
    BY <1>1 DEF SlotInv, SlotsSound, WaitInv, GateTypeOK
  <1>4. n = 1 /\ active[k] = 1
    BY <1>2, <1>3
  <1>5. Holders(k) \ {c} = {}
    BY <1>2, <1>4, FS_EmptySet
  <1> QED
    BY <1>4, <1>5 DEF Full, Holders

\* One caller goes to w; if it sets lastAt, nobody else sleeps before that domain.
LEMMA OneMoves ==
  ASSUME GateTypeOK, SleepSound, NEW c \in Callers, NEW k \in Keys, NEW w \in Where, Move(c, k, w),
         left' = [left EXCEPT ![c] = MinInterval - quiet[k]] \/ (w # "sleeping" /\ UNCHANGED left),
         \/ UNCHANGED quiet
         \/ /\ w = "in" /\ quiet[k] = MinInterval /\ quiet' = [quiet EXCEPT ![k] = 0]
            /\ \A d \in Callers \ {c} : ~(at[d] = "sleeping" /\ key[d] = k),
         w = "in" => quiet[k] = MinInterval
  PROVE  SleepSound' /\ StartsQuiet
  <1>1. /\ at'[c] = w /\ key'[c] = k
        /\ \A d \in Callers : d # c => at'[d] = at[d] /\ key'[d] = key[d]
    BY MoveType
  <1>2. /\ MinInterval \in Nat /\ quiet \in [Keys -> 0..MinInterval] /\ key \in [Callers -> Keys]
        /\ left \in [Callers -> 0..MinInterval]
    BY GateAssumption DEF GateTypeOK
  <1>3. ASSUME NEW d \in Callers, at'[d] = "sleeping" PROVE left'[d] + quiet'[key'[d]] >= MinInterval
    <2>1. CASE d = c
      <3>1. left'[d] = MinInterval - quiet[k] /\ quiet' = quiet
        BY <1>1, <1>2, <1>3, <2>1
      <3>2. quiet[k] \in 0..MinInterval
        BY <1>2
      <3> QED
        BY <1>1, <1>2, <2>1, <3>1, <3>2
    <2>2. CASE d # c
      <3>1. left'[d] = left[d] /\ at[d] = "sleeping" /\ key'[d] = key[d]
        BY <1>1, <1>2, <1>3, <2>2
      <3>2. quiet'[key[d]] = quiet[key[d]]
        BY <1>2, <2>2, <3>1
      <3> QED
        BY <3>1, <3>2 DEF SleepSound
    <2> QED
      BY <2>1, <2>2
  <1>4. StartsQuiet
    BY <1>1 DEF StartsQuiet
  <1> QED
    BY <1>3, <1>4 DEF SleepSound

LEMMA NextInterval ==
  ASSUME MaxConcurrent = 1, SlotInv, SleepSound, [GateNext]_gateVars
  PROVE  SleepSound' /\ StartsQuiet
  <1>0. /\ GateTypeOK /\ MinInterval \in Nat
        /\ at \in [Callers -> Where] /\ key \in [Callers -> Keys]
        /\ quiet \in [Keys -> 0..MinInterval] /\ left \in [Callers -> 0..MinInterval]
    BY GateAssumption DEF SlotInv, WaitInv, GateTypeOK
  <1>1. ASSUME NEW c \in Callers, Recheck(c) \/ \E k \in Keys : Acquire(c, k)
        PROVE  SleepSound' /\ StartsQuiet
    <2>1. PICK k \in Keys : Looking(c, k) /\ Attempt(c, k)
      BY <1>0, <1>1, LooksAreAttempts
    <2>2. CASE Park(c, k) \/ GiveUp(c, k) \/ SleepRejected(c, k)
      <3>1. PICK w \in {"parked", "refused"} : Move(c, k, w)
        BY <2>2 DEF Park, GiveUp, SleepRejected
      <3>2. UNCHANGED <<quiet, left>>
        BY <2>2 DEF Park, GiveUp, SleepRejected
      <3> QED
        BY <1>0, <3>1, <3>2, OneMoves DEF Where
    <2>3. CASE Sleep(c, k)
      BY <1>0, <2>3, OneMoves DEF Sleep, Where
    <2>4. CASE Enter(c, k)
      <3>1. ~Full(k) /\ quiet[k] = MinInterval /\ Move(c, k, "in")
            /\ quiet' = [quiet EXCEPT ![k] = 0] /\ left' = left
        BY <2>4 DEF Enter
      <3>2. \A d \in Callers \ {c} : ~(at[d] = "sleeping" /\ key[d] = k)
        BY <3>1, HolderAlone DEF Holds
      <3> QED
        BY <1>0, <3>1, <3>2, OneMoves DEF Where
    <2> QED
      BY <2>1, <2>2, <2>3, <2>4 DEF Attempt
  <1>2. ASSUME NEW c \in Callers, WakeUp(c) PROVE SleepSound' /\ StartsQuiet
    <2>1. PICK k \in Keys : k = key[c]
      BY <1>0
    <2>2. /\ at[c] = "sleeping" /\ left[c] = 0 /\ Move(c, k, "in")
          /\ quiet' = [quiet EXCEPT ![k] = 0] /\ left' = left
      BY <1>2, <2>1 DEF WakeUp
    <2>3. quiet[k] \in 0..MinInterval /\ 0 + quiet[k] >= MinInterval
      BY <1>0, <2>1, <2>2 DEF SleepSound
    <2>4. quiet[k] = MinInterval
      BY <1>0, <2>3
    <2>5. \A d \in Callers \ {c} : ~(at[d] = "sleeping" /\ key[d] = k)
      BY <2>1, <2>2, HolderAlone DEF Holds
    <2> QED
      BY <1>0, <2>2, <2>4, <2>5, OneMoves DEF Where
  <1>3. ASSUME NEW c \in Callers, Release(c) PROVE SleepSound' /\ StartsQuiet
    <2>1. PICK k \in Keys : k = key[c]
      BY <1>0
    <2>2. /\ at[c] = "in" /\ quiet' = [quiet EXCEPT ![k] = 0] /\ UNCHANGED <<key, left>>
          /\ \A d \in Callers : at'[d] \in {"out", "woken", at[d]}
      BY <1>3, <2>1 DEF Release
    <2>3. \A d \in Callers : ~(at[d] = "sleeping" /\ key[d] = k)
      <3>1. Holds(c, k)
        BY <2>1, <2>2 DEF Holds
      <3> QED
        BY <2>2, <3>1, HolderAlone DEF Holds
    <2>4. \A d \in Callers : at'[d] = "sleeping" =>
            at[d] = "sleeping" /\ quiet'[key'[d]] = quiet[key[d]] /\ left'[d] = left[d]
      BY <1>0, <2>2, <2>3
    <2> QED
      BY <2>2, <2>4 DEF SleepSound, StartsQuiet
  <1>4. CASE \E c \in Callers : Leave(c)
    <2>1. UNCHANGED <<quiet, key, left>> /\ \A d \in Callers : at'[d] \in {"out", at[d]}
      BY <1>0, <1>4 DEF Leave
    <2> QED
      BY <2>1 DEF SleepSound, StartsQuiet
  <1>5. CASE Abort \/ NewGate
    <2>1. \A d \in Callers : at'[d] # "sleeping" /\ (at'[d] = "in" => at[d] = "in")
      BY <1>5 DEF Abort, NewGate
    <2> QED
      BY <2>1 DEF SleepSound, StartsQuiet
  <1>6. CASE Tick
    <2>1. /\ UNCHANGED <<at, key>>
          /\ quiet' = [k \in Keys |-> IF quiet[k] < MinInterval THEN quiet[k] + 1 ELSE quiet[k]]
          /\ left' = [c \in Callers |-> IF at[c] = "sleeping" /\ left[c] > 0 THEN left[c] - 1 ELSE left[c]]
      BY <1>6 DEF Tick
    <2>2. ASSUME NEW c \in Callers, at'[c] = "sleeping"
          PROVE  left'[c] + quiet'[key'[c]] >= MinInterval
      <3>1. PICK q \in 0..MinInterval : q = quiet[key[c]]
        BY <1>0
      <3>2. PICK l \in 0..MinInterval : l = left[c]
        BY <1>0
      <3>3. l + q >= MinInterval
        BY <2>1, <2>2, <3>1, <3>2 DEF SleepSound
      <3>4. quiet'[key'[c]] = IF q < MinInterval THEN q + 1 ELSE q
        BY <1>0, <2>1, <3>1
      <3>5. left'[c] = IF l > 0 THEN l - 1 ELSE l
        BY <2>1, <2>2, <3>2
      <3> QED
        BY <1>0, <3>3, <3>4, <3>5
    <2> QED
      BY <2>1, <2>2 DEF SleepSound, StartsQuiet
  <1>7. CASE UNCHANGED gateVars
    BY <1>7 DEF gateVars, SleepSound, StartsQuiet
  <1> QED
    BY <1>1, <1>2, <1>3, <1>4, <1>5, <1>6, <1>7 DEF GateNext

\* politeness.mjs, acquire(): with the shipped cap of one, two requests to a domain are
\* never closer than the minimum interval, whoever else is parked, woken or aborted.
THEOREM IntervalKept == MaxConcurrent = 1 /\ GateSpec => IntervalRespected
  <1> SUFFICES ASSUME MaxConcurrent = 1 PROVE GateSpec => IntervalRespected
    OBVIOUS
  <1>1. GateInit => SleepSound
    BY DEF GateInit, SleepSound
  <1>2. SlotInv /\ SleepSound /\ [GateNext]_gateVars => SleepSound'
    BY NextInterval
  <1>3. SlotInv /\ SleepSound /\ [GateNext]_gateVars
        => [\A c \in Callers : at[c] # "in" /\ at'[c] = "in" => quiet[key'[c]] = MinInterval]_gateVars
    BY NextInterval DEF StartsQuiet
  <1> QED
    BY SlotInvariant, <1>1, <1>2, <1>3, PTL DEF GateSpec, IntervalRespected
=============================================================================
