---------------------------- MODULE WorkerStartup ----------------------------
(* The start of a worker pool (core/ingestion/workers/worker-pool.ts): every   *)
(* slot spawns a worker and brings it to its ready handshake, respawning it a  *)
(* bounded number of times, until it is ready or the slot is dropped. Dispatch *)
(* waits for all of them (WorkerPool).                                         *)
EXTENDS Integers, FiniteSets

CONSTANTS
    size,           \* slots of the pool
    RestartBudget,  \* STARTUP_RESTART_BUDGET
    Signatures      \* the normalised messages a worker may die with

ASSUME SizeAssumption == size \in Nat \ {0}
ASSUME BudgetAssumption == RestartBudget \in Nat

VARIABLES
    worker,         \* workers[i]: "none" is undefined, "parked" in its event
                    \* loop, "busy" anywhere in a job, native code included
    active,         \* activeSlots
    boot,           \* where bringSlotReady of the slot is
    attempt,        \* its attempt
    lastSignature,  \* lastStartupSignature
    reproduced,     \* reproducedStartupSlots
    deterministic,  \* deterministicStartupDetected
    anyReady,       \* anyWorkerReachedReady
    terminated      \* terminate() was called

startupVars == <<boot, attempt, lastSignature, reproduced, deterministic, anyReady>>

Slots == 1..size
WorkerStates == {"none", "starting", "parked", "busy", "dead"}

StartupTypeOK ==
    /\ worker \in [Slots -> WorkerStates]
    /\ active \subseteq Slots
    /\ boot \in [Slots -> {"starting", "killing", "backoff", "ready", "dropped"}]
    /\ attempt \in [Slots -> 0..RestartBudget]
    /\ lastSignature \in [Slots -> Signatures \cup {"none"}]
    /\ reproduced \subseteq Slots
    /\ {deterministic, anyReady, terminated} \subseteq BOOLEAN

StartupInit ==
    /\ worker = [s \in Slots |-> "starting"]
    /\ active = Slots
    /\ boot = [s \in Slots |-> "starting"]
    /\ attempt = [s \in Slots |-> 0]
    /\ lastSignature = [s \in Slots |-> "none"]
    /\ reproduced = {}
    /\ deterministic = FALSE
    /\ anyReady = FALSE
    /\ terminated = FALSE

(* initialReadyGate *)
GateSettled == \A s \in Slots : boot[s] \in {"ready", "dropped"}

BootReady(s) ==
    /\ boot[s] = "starting"
    /\ worker[s] = "starting"
    /\ boot' = [boot EXCEPT ![s] = "ready"]
    /\ worker' = [worker EXCEPT ![s] = "parked"]
    /\ anyReady' = TRUE
    /\ UNCHANGED <<active, attempt, lastSignature, reproduced, deterministic, terminated>>

(* The worker dies before its handshake, or the handshake is late. A crash    *)
(* counts as deterministic once enough slots died twice with one signature.   *)
DeterministicThreshold == IF size < 2 THEN size ELSE 2

BootCrash(s) ==
    /\ boot[s] = "starting"
    /\ \E sig \in Signatures :
           LET again == IF lastSignature[s] = sig THEN reproduced \cup {s} ELSE reproduced
           IN  /\ lastSignature' = [lastSignature EXCEPT ![s] = sig]
               /\ reproduced' = again
               /\ deterministic' = (\/ deterministic
                                    \/ /\ ~anyReady
                                       /\ Cardinality(again) >= DeterministicThreshold)
    /\ boot' = [boot EXCEPT ![s] = "killing"]
    /\ UNCHANGED <<worker, active, attempt, anyReady, terminated>>

DropSlot(s) ==
    /\ active' = active \ {s}
    /\ boot' = [boot EXCEPT ![s] = "dropped"]

(* worker.terminate() is acknowledged. *)
BootKilled(s) ==
    /\ boot[s] = "killing"
    /\ worker' = [worker EXCEPT ![s] = "none"]
    /\ \/ /\ terminated \/ deterministic \/ attempt[s] >= RestartBudget
          /\ DropSlot(s)
       \/ /\ ~(terminated \/ deterministic \/ attempt[s] >= RestartBudget)
          /\ boot' = [boot EXCEPT ![s] = "backoff"]
          /\ UNCHANGED active
    /\ UNCHANGED <<attempt, lastSignature, reproduced, deterministic, anyReady, terminated>>

(* Mutant: a slot that wakes from its backoff does not look at terminated.    *)
BootRetry_NoAbort(s) ==
    /\ boot[s] = "backoff"
    /\ worker' = [worker EXCEPT ![s] = "starting"]
    /\ attempt' = [attempt EXCEPT ![s] = @ + 1]
    /\ boot' = [boot EXCEPT ![s] = "starting"]
    /\ UNCHANGED <<active, lastSignature, reproduced, deterministic, anyReady, terminated>>

(* The backoff is over, or terminate() cancelled it. *)
BootRetry(s) ==
    /\ boot[s] = "backoff"
    /\ \/ /\ terminated \/ deterministic
          /\ DropSlot(s)
          /\ UNCHANGED <<worker, attempt>>
       \/ /\ ~(terminated \/ deterministic)
          /\ worker' = [worker EXCEPT ![s] = "starting"]
          /\ attempt' = [attempt EXCEPT ![s] = @ + 1]
          /\ boot' = [boot EXCEPT ![s] = "starting"]
          /\ UNCHANGED active
    /\ UNCHANGED <<lastSignature, reproduced, deterministic, anyReady, terminated>>

StartupStep(s) == BootReady(s) \/ BootCrash(s) \/ BootKilled(s) \/ BootRetry(s)
=============================================================================
