--------------------------- MODULE PolitenessGate ---------------------------
(***************************************************************************)
(* The politeness gate of one job (jobs/politeness.mjs): per domain, a cap *)
(* on simultaneous requests and a minimum interval between them.  A caller *)
(* is a loop of the worker: the page loop of a crawl, or one of the lanes  *)
(* of a scan.  acquire() and release() run to their next await as one step.*)
(*                                                                         *)
(* Time is what the interval sees of it: how long a domain has been quiet, *)
(* counted to MinInterval, and how long a sleeper has still to sleep.      *)
(***************************************************************************)
EXTENDS Integers, Sequences, FiniteSets

CONSTANTS
  Callers,        \* concurrent users of the gate
  Keys,           \* politeness domains
  MaxConcurrent,  \* maxConcurrentPerDomain
  MinInterval     \* minIntervalMs, in ticks

ASSUME GateAssumption ==
  /\ MaxConcurrent \in Nat \ {0} /\ MinInterval \in Nat
  /\ IsFiniteSet(Callers)

VARIABLES
  active,   \* per domain: slots taken
  waiters,  \* per domain: parked callers, longest first
  quiet,    \* per domain: ticks since lastAt, up to MinInterval
  at,       \* per caller: where it is in acquire()
  key,      \* per caller: the domain it asked for
  left,     \* per caller: ticks its timer has to run
  aborted   \* the job's AbortSignal

gateVars == <<active, waiters, quiet, at, key, left, aborted>>

Where == {"out", "parked", "woken", "sleeping", "in", "refused"}

GateTypeOK ==
  /\ active \in [Keys -> Nat]
  /\ waiters \in [Keys -> Seq(Callers)]
  /\ quiet \in [Keys -> 0..MinInterval]
  /\ at \in [Callers -> Where]
  /\ key \in [Callers -> Keys]
  /\ left \in [Callers -> 0..MinInterval]
  /\ aborted \in BOOLEAN

GateInit ==
  /\ active = [k \in Keys |-> 0]
  /\ waiters = [k \in Keys |-> <<>>]
  /\ quiet = [k \in Keys |-> MinInterval]    \* lastAt = 0: long ago
  /\ at = [c \in Callers |-> "out"]
  /\ \E k \in Keys : key = [c \in Callers |-> k]   \* means nothing while out
  /\ left = [c \in Callers |-> 0]
  /\ aborted = FALSE

Holds(c, k)   == key[c] = k /\ at[c] \in {"sleeping", "in"}
Holders(k)    == {c \in Callers : Holds(c, k)}
Full(k)       == active[k] >= MaxConcurrent
Move(c, k, w) == at' = [at EXCEPT ![c] = w] /\ key' = [key EXCEPT ![c] = k]

-----------------------------------------------------------------------------
(* acquire(), from the head of its loop to its next await *)

Park(c, k) ==
  /\ Full(k) /\ ~aborted
  /\ Move(c, k, "parked")
  /\ waiters' = [waiters EXCEPT ![k] = Append(@, c)]
  /\ UNCHANGED <<active, quiet, left, aborted>>

GiveUp(c, k) ==
  /\ Full(k) /\ aborted
  /\ Move(c, k, "refused")
  /\ UNCHANGED <<active, waiters, quiet, left, aborted>>

Enter(c, k) ==
  /\ ~Full(k) /\ quiet[k] = MinInterval
  /\ Move(c, k, "in")
  /\ active' = [active EXCEPT ![k] = @ + 1]
  /\ quiet' = [quiet EXCEPT ![k] = 0]
  /\ UNCHANGED <<waiters, left, aborted>>

\* Mutant: the slot is taken only once the interval is over.
SleepFree(c, k) ==
  /\ ~Full(k) /\ quiet[k] < MinInterval /\ ~aborted
  /\ Move(c, k, "sleeping")
  /\ left' = [left EXCEPT ![c] = MinInterval - quiet[k]]
  /\ UNCHANGED <<active, waiters, quiet, aborted>>

\* The slot is taken before the interval is waited out.
Sleep(c, k) ==
  /\ ~Full(k) /\ quiet[k] < MinInterval /\ ~aborted
  /\ Move(c, k, "sleeping")
  /\ active' = [active EXCEPT ![k] = @ + 1]
  /\ left' = [left EXCEPT ![c] = MinInterval - quiet[k]]
  /\ UNCHANGED <<waiters, quiet, aborted>>

\* A signal already aborted rejects the sleep at once; the slot stays taken.
SleepRejected(c, k) ==
  /\ ~Full(k) /\ quiet[k] < MinInterval /\ aborted
  /\ Move(c, k, "refused")
  /\ active' = [active EXCEPT ![k] = @ + 1]
  /\ UNCHANGED <<waiters, quiet, left, aborted>>

Attempt(c, k) ==
  Park(c, k) \/ GiveUp(c, k) \/ Enter(c, k) \/ Sleep(c, k) \/ SleepRejected(c, k)

Acquire(c, k) == at[c] = "out" /\ Attempt(c, k)

\* Mutant: a woken caller takes the slot without looking again.
RecheckNot(c) ==
  /\ at[c] = "woken"
  /\ Move(c, key[c], "in")
  /\ active' = [active EXCEPT ![key[c]] = @ + 1]
  /\ quiet' = [quiet EXCEPT ![key[c]] = 0]
  /\ UNCHANGED <<waiters, left, aborted>>

\* A woken caller goes round the loop: somebody may have taken the slot meanwhile.
Recheck(c) == at[c] = "woken" /\ Attempt(c, key[c])

WakeUp(c) ==
  /\ at[c] = "sleeping" /\ left[c] = 0
  /\ Move(c, key[c], "in")
  /\ quiet' = [quiet EXCEPT ![key[c]] = 0]
  /\ UNCHANGED <<active, waiters, left, aborted>>

-----------------------------------------------------------------------------
(* release(), the signal and time *)

\* Mutant: the first waiter is taken off the list but not called.
ReleaseDropsWaiter(c) ==
  LET k == key[c] IN
  /\ at[c] = "in"
  /\ active' = [active EXCEPT ![k] = IF @ > 0 THEN @ - 1 ELSE 0]
  /\ quiet' = [quiet EXCEPT ![k] = 0]
  /\ at' = [at EXCEPT ![c] = "out"]
  /\ waiters' = IF waiters[k] = <<>> THEN waiters ELSE [waiters EXCEPT ![k] = Tail(@)]
  /\ UNCHANGED <<key, left, aborted>>

Release(c) ==
  LET k == key[c] IN
  /\ at[c] = "in"
  /\ active' = [active EXCEPT ![k] = IF @ > 0 THEN @ - 1 ELSE 0]
  /\ quiet' = [quiet EXCEPT ![k] = 0]
  /\ at' = [d \in Callers |-> IF d = c THEN "out"
                              ELSE IF waiters[k] # <<>> /\ d = Head(waiters[k]) THEN "woken" ELSE at[d]]
  /\ waiters' = IF waiters[k] = <<>> THEN waiters ELSE [waiters EXCEPT ![k] = Tail(@)]
  /\ UNCHANGED <<key, left, aborted>>

\* The error of a refused acquire() reached its caller.
Leave(c) ==
  /\ at[c] = "refused"
  /\ at' = [at EXCEPT ![c] = "out"]
  /\ UNCHANGED <<active, waiters, quiet, key, left, aborted>>

\* The signal clears and rejects every sleep.  It wakes no parked caller and frees no slot.
Abort ==
  /\ ~aborted /\ aborted' = TRUE
  /\ at' = [c \in Callers |-> IF at[c] = "sleeping" THEN "refused" ELSE at[c]]
  /\ left' = [c \in Callers |-> 0]
  /\ UNCHANGED <<active, waiters, quiet, key>>

\* A timer never fires early; how late it fires is left open.
Tick ==
  /\ \/ \E k \in Keys : quiet[k] < MinInterval
     \/ \E c \in Callers : at[c] = "sleeping" /\ left[c] > 0
  /\ quiet' = [k \in Keys |-> IF quiet[k] < MinInterval THEN quiet[k] + 1 ELSE quiet[k]]
  /\ left' = [c \in Callers |-> IF at[c] = "sleeping" /\ left[c] > 0 THEN left[c] - 1 ELSE left[c]]
  /\ UNCHANGED <<active, waiters, at, key, aborted>>

\* Another process of the same job starts with a gate of its own.
NewGate ==
  /\ active' = [k \in Keys |-> 0] /\ waiters' = [k \in Keys |-> <<>>]
  /\ quiet' = [k \in Keys |-> MinInterval]
  /\ at' = [c \in Callers |-> "out"] /\ left' = [c \in Callers |-> 0]
  /\ aborted' = FALSE
  /\ UNCHANGED key

GateNext ==
  \/ \E c \in Callers, k \in Keys : Acquire(c, k)
  \/ \E c \in Callers : Recheck(c) \/ WakeUp(c) \/ Release(c) \/ Leave(c)
  \/ Abort \/ Tick \/ NewGate

GateSpec == GateInit /\ [][GateNext]_gateVars

-----------------------------------------------------------------------------
(* Properties *)

\* politeness.mjs: "a cap on simultaneous requests": never more callers of a
\* domain past the gate, asleep or at work, than its cap.
CapRespected == \A k \in Keys : Cardinality(Holders(k)) <= MaxConcurrent

\* Until the job is aborted a slot is taken exactly while somebody holds it.
SlotsAccounted ==
  \A k \in Keys : IF aborted THEN active[k] >= Cardinality(Holders(k))
                  ELSE active[k] = Cardinality(Holders(k))

\* A free slot that a parked caller waits for is about to be looked at by callers that
\* were woken: no wake-up is lost to a newcomer who took the slot first.
NoLostWakeup ==
  ~aborted => \A c \in Callers :
    at[c] = "parked" =>
      active[key[c]] + Cardinality({d \in Callers : key[d] = key[c] /\ at[d] = "woken"}) >= MaxConcurrent

\* politeness.mjs: "a minimum interval between requests": whoever starts does so at
\* least that long after lastAt, which every start and every end of a request sets
\* (the shipped cap of one; with a larger cap two sleepers may start together).
IntervalRespected ==
  [][\A c \in Callers : at[c] # "in" /\ at'[c] = "in" => quiet[key'[c]] = MinInterval]_gateVars
=============================================================================
