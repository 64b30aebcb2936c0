--------------------------- MODULE CircuitBreaker ---------------------------
(***************************************************************************)
(* The per-process circuit breaker and the callers that share it through   *)
(* resilientFetch (gitnexus-shared/src/integrations/circuit-breaker.ts and *)
(* resilient-fetch.ts).  check and record* run without an await, so each   *)
(* is one step; between them other callers run.  A caller checks once and  *)
(* reports once, after its last attempt.                                   *)
(***************************************************************************)
EXTENDS Naturals

CONSTANTS
  Callers,          \* concurrent resilientFetch calls with the same key
  failureThreshold, \* consecutive failures that trip the breaker
  maxAttempts       \* attempts of one call

ASSUME BreakerAssumption ==
  /\ failureThreshold \in Nat \ {0}
  /\ maxAttempts \in Nat \ {0}

VARIABLES
  state,         \* the stored state; getState's "half-open" is state "open"
                 \* with a cooldown that is over
  failures,      \* consecutiveFailures, up to failureThreshold: beyond it the
                 \* code tells no two values apart
  cooldown,      \* "null": openedAt = null; else whether cooldownMs has passed
  probeInFlight,
  pc,            \* "idle", "fetching" or "sleeping" before the next attempt
  attempt,       \* attempts the call has behind it
  probe          \* callers admitted with the half-open permit, still out

breakerVars == <<state, failures, cooldown, probeInFlight>>
callVars == <<breakerVars, pc, attempt, probe>>

BreakerTypeOK ==
  /\ state \in {"closed", "open", "half-open"}
  /\ failures \in 0..failureThreshold
  /\ cooldown \in {"null", "running", "over"}
  /\ probeInFlight \in BOOLEAN
  /\ pc \in [Callers -> {"idle", "fetching", "sleeping"}]
  /\ attempt \in [Callers -> 0..maxAttempts]
  /\ probe \subseteq Callers

BreakerInit ==
  /\ state = "closed"
  /\ failures = 0
  /\ cooldown = "null"
  /\ probeInFlight = FALSE
  /\ pc = [c \in Callers |-> "idle"]
  /\ attempt = [c \in Callers |-> 0]
  /\ probe = {}

-----------------------------------------------------------------------------
(* The breaker.                                                            *)

recordSuccess ==
  /\ probeInFlight' = FALSE
  /\ failures' = 0
  /\ state' = "closed"
  /\ cooldown' = "null"

\* Mutant of recordFailure: a failed probe keeps the permit.
recordFailure_KeepsPermit ==
  /\ failures' = IF failures < failureThreshold THEN failures + 1 ELSE failures
  /\ IF state = "half-open" \/ failures' >= failureThreshold
     THEN state' = "open" /\ cooldown' = "running"
     ELSE UNCHANGED <<state, cooldown>>
  /\ UNCHANGED probeInFlight

recordFailure ==
  /\ probeInFlight' = FALSE
  /\ failures' = IF failures < failureThreshold THEN failures + 1 ELSE failures
  /\ IF state = "half-open" \/ failures' >= failureThreshold
     THEN state' = "open" /\ cooldown' = "running"
     ELSE UNCHANGED <<state, cooldown>>

\* Mutant of recordNeutral: an outcome that proves nothing keeps the permit.
recordNeutral_KeepsPermit == UNCHANGED breakerVars

recordNeutral ==
  /\ probeInFlight' = FALSE
  /\ UNCHANGED <<state, failures, cooldown>>

\* check throws, in cooldown or with a probe out; in the second case it may
\* have moved the breaker to half-open first.
CheckRejects(c) ==
  /\ pc[c] = "idle"
  /\ \/ state = "open" /\ cooldown = "running" /\ UNCHANGED state
     \/ /\ state = "half-open" \/ (state = "open" /\ cooldown = "over")
        /\ probeInFlight
        /\ state' = "half-open"
  /\ UNCHANGED <<failures, cooldown, probeInFlight, pc, attempt, probe>>

Admit(c) ==
  /\ pc' = [pc EXCEPT ![c] = "fetching"]
  /\ attempt' = [attempt EXCEPT ![c] = 1]

CheckClosed(c) ==
  /\ pc[c] = "idle"
  /\ state = "closed"
  /\ Admit(c)
  /\ UNCHANGED <<breakerVars, probe>>

CheckProbe(c) ==
  /\ pc[c] = "idle"
  /\ state = "half-open" \/ (state = "open" /\ cooldown = "over")
  /\ ~probeInFlight
  /\ state' = "half-open"
  /\ probeInFlight' = TRUE
  /\ probe' = probe \cup {c}
  /\ Admit(c)
  /\ UNCHANGED <<failures, cooldown>>

-----------------------------------------------------------------------------
(* resilientFetch after its check.                                         *)

Leave(c) ==
  /\ pc' = [pc EXCEPT ![c] = "idle"]
  /\ attempt' = [attempt EXCEPT ![c] = 0]
  /\ probe' = probe \ {c}

\* 2xx or 3xx.
Success(c) ==
  /\ pc[c] = "fetching"
  /\ recordSuccess
  /\ Leave(c)

\* A 4xx other than 429, a timeout, an abort: neither health nor failure.
Neutral(c) ==
  /\ pc[c] = "fetching"
  /\ recordNeutral
  /\ Leave(c)

\* 5xx, 429 or a network error on the last attempt.
Exhausted(c) ==
  /\ pc[c] = "fetching"
  /\ attempt[c] = maxAttempts
  /\ recordFailure
  /\ Leave(c)

\* The same on an earlier attempt: back off and try again, unreported.
Backoff(c) ==
  /\ pc[c] = "fetching"
  /\ attempt[c] < maxAttempts
  /\ pc' = [pc EXCEPT ![c] = "sleeping"]
  /\ UNCHANGED <<breakerVars, attempt, probe>>

Retry(c) ==
  /\ pc[c] = "sleeping"
  /\ pc' = [pc EXCEPT ![c] = "fetching"]
  /\ attempt' = [attempt EXCEPT ![c] = @ + 1]
  /\ UNCHANGED <<breakerVars, probe>>

\* cooldownMs after openedAt.
CooldownEnds ==
  /\ cooldown = "running"
  /\ cooldown' = "over"
  /\ UNCHANGED <<state, failures, probeInFlight, pc, attempt, probe>>

Answer(c) == Success(c) \/ Neutral(c) \/ Exhausted(c) \/ Backoff(c) \/ Retry(c)

BreakerNext ==
  \/ \E c \in Callers : CheckRejects(c) \/ CheckClosed(c) \/ CheckProbe(c) \/ Answer(c)
  \/ CooldownEnds

BreakerSpec == BreakerInit /\ [][BreakerNext]_callVars

\* A fetch ends (by the signal the embedding client gives it, by the deadline of
\* the wiki's --timeout or else of fetch itself), a sleep ends, time passes;
\* nobody has to call resilientFetch again.
BreakerFairSpec == BreakerSpec /\ WF_callVars(CooldownEnds) /\ \A c \in Callers : WF_callVars(Answer(c))
-----------------------------------------------------------------------------
\* The stored state, the count and openedAt tell one story whatever late
\* answers come in: closed is below the threshold and has no trip time, open
\* and half-open have reached it and have one, and no permit is out but in
\* half-open (so the second rejection path of check never runs).
StateAgrees ==
  /\ state = "closed" <=> failures < failureThreshold
  /\ state = "closed" <=> cooldown = "null"
  /\ state = "half-open" => cooldown = "over"
  /\ probeInFlight => state = "half-open"

\* circuit-breaker.ts:28-33: the permit never outlives the probe that took it,
\* or every later call is rejected until the process restarts.
PermitHasAProbe ==
  probeInFlight => \E c \in probe : pc[c] # "idle"

\* circuit-breaker.ts:11: half-open admits exactly one in-flight probe at a time.
OneProbe ==
  \A c, d \in probe : state = "half-open" => c = d

CanAdmit ==
  \/ state = "closed"
  \/ ~probeInFlight /\ (state = "half-open" \/ cooldown = "over")

\* A tripped breaker comes to the point where it admits a call again.
Recovers == state # "closed" ~> CanAdmit
=============================================================================
