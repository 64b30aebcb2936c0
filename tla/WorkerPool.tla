----------------------------- MODULE WorkerPool -----------------------------
(* The dispatch of the ingestion worker pool                                  *)
(* (core/ingestion/workers/worker-pool.ts) for the rounds of its caller       *)
(* (core/ingestion/pipeline-phases/parse-impl.ts).                            *)
(*                                                                            *)
(* A file of the round is its place in the index space of the round; a job is *)
(* its startIndex and the set of its files. What a worker posts of a job in   *)
(* progress only moves the blame for its death: any of its files may be the   *)
(* one in flight, or none once it is flushing. Timeouts are counted in units  *)
(* of subBatchIdleTimeoutMs.                                                  *)
EXTENDS WorkerStartup, Sequences, SequencesExt, FiniteSetsExt

CONSTANTS
    Rounds,               \* groupEnds of every round: the last place of each group
    subBatchSize,
    maxTimeoutRetries, timeoutBackoffFactor, maxCumulativeTimeout,
    maxRespawnsPerSlot, consecutiveFailureThreshold,
    Store                 \* workers write shards of parsed files at the flush

ASSUME PoolAssumption ==
    /\ Rounds \in Seq(Seq(Nat))
    /\ \A r \in DOMAIN Rounds :
           /\ Rounds[r] # <<>> /\ Last(Rounds[r]) > 0
           /\ \A g, h \in DOMAIN Rounds[r] : g <= h => Rounds[r][g] <= Rounds[r][h]
    /\ {subBatchSize, consecutiveFailureThreshold} \subseteq Nat \ {0}
    /\ {maxTimeoutRetries, timeoutBackoffFactor, maxCumulativeTimeout,
        maxRespawnsPerSlot} \subseteq Nat
    /\ Store \in BOOLEAN

VARIABLES
    consecutive,    \* consecutiveFailuresPerSlot
    respawns,       \* respawnCount
    quarantined,    \* the quarantine, its files of this round
    broken,         \* poolBroken
    round,          \* rounds called so far
    outcome,        \* the promise of the round
    jobs,           \* the queue of the dispatch
    job,            \* the job a slot's handlers are attached for
    recovery,       \* what a slot's recovery waits for
    busy,           \* busySlots
    activeWorkers,
    unattributed,   \* startIndexes of unattributedJobDeaths
    results,
    aborted,        \* history: the terminate() of the caller or of the breaker
                    \* hit a worker inside native code
    orphans         \* history: files in a shard of a job that was not delivered

dispatchVars == <<jobs, job, recovery, busy, activeWorkers, unattributed, results, round>>
poolVars == <<consecutive, respawns, quarantined, broken>>
vars == <<worker, active, startupVars, terminated, dispatchVars, poolVars, outcome, aborted, orphans>>

NoJob == [phase |-> "none"]

Files(r) == 1..Last(Rounds[r])

(* The group a place of the round's index space belongs to. *)
GroupOf(r, i) == Min({g \in DOMAIN Rounds[r] : i <= Rounds[r][g]})

TypeOK ==
    /\ StartupTypeOK
    /\ consecutive \in [Slots -> 0..consecutiveFailureThreshold]
    /\ respawns \in [Slots -> 0..maxRespawnsPerSlot + 1]
    /\ recovery \in [Slots -> {"none", "removing", "dropping", "spawning", "killing"}]
    /\ busy \subseteq Slots
    /\ activeWorkers \in 0..size
    /\ outcome \in {"none", "called", "running", "resolved", "rejected"}
    /\ \A s \in Slots : job[s].phase \in {"none", "parsing", "flushing"}

Init ==
    /\ StartupInit
    /\ consecutive = [s \in Slots |-> 0]
    /\ respawns = [s \in Slots |-> 0]
    /\ quarantined = {}
    /\ broken = FALSE
    /\ round = 0
    /\ outcome = "none"
    /\ jobs = <<>>
    /\ job = [s \in Slots |-> NoJob]
    /\ recovery = [s \in Slots |-> "none"]
    /\ busy = {}
    /\ activeWorkers = 0
    /\ unattributed = {}
    /\ results = {}
    /\ aborted = FALSE
    /\ orphans = {}

-----------------------------------------------------------------------------
(* The part of the state that runWorker works on; it calls itself through     *)
(* finishJob and wakeIdleSlots within one turn of the event loop.             *)
Desk == [jobs |-> jobs, job |-> job, busy |-> busy, count |-> activeWorkers,
         worker |-> worker, active |-> active, bad |-> quarantined]

(* The elements of a sequence that are in T, in their order. *)
Only(seq, T) ==
    LET at == {i \in DOMAIN seq : seq[i] \in T}
        nth(k) == CHOOSE i \in at : Cardinality({h \in at : h <= i}) = k
    IN  [k \in 1..Cardinality(at) |-> seq[nth(k)]]

(* The queue without quarantined files, as runWorker skips and filters jobs.  *)
Dispatchable(d) ==
    LET left == [k \in DOMAIN d.jobs |-> [d.jobs[k] EXCEPT !.files = @ \ d.bad]]
    IN  Only(left, {j \in ToSet(left) : j.files # {}})

(* runWorker for the slots of a sequence, in turn: each takes the next job,   *)
(* unless it is not in rotation, busy, or without a worker for the moment.    *)
RunWorkers(d, order) ==
    LET queue == Dispatchable(d)
        ready == Only(order, {s \in d.active \ d.busy : d.worker[s] # "none"})
        n == Min({Len(queue), Len(ready)})
        taking == {ready[k] : k \in 1..n}
        taken(s) == queue[CHOOSE k \in 1..n : ready[k] = s]
    IN  [d EXCEPT !.jobs = SubSeq(queue, n + 1, Len(queue)),
                  !.job = [s \in Slots |-> IF s \in taking
                                           THEN [taken(s) EXCEPT !.phase = "parsing"] ELSE @[s]],
                  !.busy = @ \cup taking,
                  !.count = @ + n,
                  !.worker = [s \in Slots |-> IF s \in taking /\ @[s] = "parked"
                                              THEN "busy" ELSE @[s]]]

(* wakeIdleSlots *)
InTurn == [s \in Slots |-> s]

(* The end of every continuation: what it did to the desk, and maybeDone. *)
Commit(desk) == \E d \in {desk} :
    /\ jobs' = d.jobs /\ job' = d.job /\ busy' = d.busy /\ activeWorkers' = d.count
    /\ worker' = d.worker /\ active' = d.active /\ quarantined' = d.bad
    /\ outcome' = IF d.jobs = <<>> /\ d.count = 0 THEN "resolved" ELSE outcome

(* The slot's recovery is over: its job may go to any slot. *)
Resume(d, s) ==
    LET done == [d EXCEPT !.count = @ - 1, !.busy = @ \ {s}]
    IN  Commit(RunWorkers(done, <<s>> \o Only(InTurn, Slots \ {s})))

(* tripBreaker: reject, then retire the workers of busy slots and terminate    *)
(* the others.                                                                *)
TripBreaker(d) ==
    LET gone == {s \in Slots : d.worker[s] = "busy"}
    IN  /\ outcome' = "rejected"
        /\ broken' = TRUE
        /\ aborted' = (aborted \/ ~(gone \subseteq d.busy))
        /\ worker' = [s \in Slots |-> "none"]
        /\ active' = {}
        /\ quarantined' = d.bad
        /\ jobs' = <<>> /\ job' = [s \in Slots |-> NoJob] /\ busy' = {}
        /\ activeWorkers' = 0

-----------------------------------------------------------------------------
(* createJobs, group after group: the last places of the jobs. A job has at   *)
(* most n files, the byte ceiling closing it early, and ends with its group.  *)
NewJob(first, last) ==
    [start |-> first, files |-> first..last, timeout |-> 1, cumulative |-> 1,
     attempt |-> 0, phase |-> "queued"]

First(cut, k) == IF k = 1 THEN 1 ELSE cut[k - 1] + 1

Cuts(r, n) ==
    {cut \in UNION {[1..k -> Files(r)] : k \in Files(r)} :
        /\ \A k \in DOMAIN cut : cut[k] \in First(cut, k)..(First(cut, k) + n - 1)
        /\ ToSet(Rounds[r]) \subseteq {0} \cup ToSet(cut)}

JobsOf(cut) == [k \in DOMAIN cut |-> NewJob(First(cut, k), cut[k])]

(* dispatchGroups claims the pool and waits for the gate. *)
Call ==
    /\ outcome \in {"none", "resolved"}
    /\ round < Len(Rounds)
    /\ ~terminated
    /\ round' = round + 1
    /\ outcome' = "called"
    /\ UNCHANGED <<worker, active, startupVars, terminated, jobs, job, recovery, busy,
                   activeWorkers, unattributed, results, poolVars, aborted, orphans>>

(* Nothing reads the tries of the startup after the gate: the model drops them. *)
ForgetStartup ==
    /\ boot' = [s \in Slots |-> "ready"]
    /\ attempt' = [s \in Slots |-> 0]
    /\ lastSignature' = [s \in Slots |-> "none"]
    /\ reproduced' = {} /\ deterministic' = FALSE /\ anyReady' = TRUE

(* The jobs of the round are cut and every active slot is given one. *)
Begin ==
    /\ outcome = "called"
    /\ GateSettled
    /\ active # {} /\ ~broken
    /\ LET n == Min({subBatchSize, Max({1, Last(Rounds[round]) \div Cardinality(active)})})
       IN  \E cut \in Cuts(round, n) :
               \E d \in {RunWorkers([Desk EXCEPT !.jobs = JobsOf(cut), !.bad = {}], InTurn)} :
                   /\ jobs' = d.jobs /\ job' = d.job /\ busy' = d.busy
                   /\ activeWorkers' = d.count /\ worker' = d.worker
    /\ outcome' = "running"
    /\ quarantined' = {} /\ unattributed' = {} /\ results' = {} /\ orphans' = {}
    /\ ForgetStartup
    /\ UNCHANGED <<active, terminated, recovery, consecutive, respawns, broken,
                   round, aborted>>

(* Mutant: a pool of which no slot came up is not noticed.                    *)
Refuse_OnlyBroken ==
    /\ outcome = "called"
    /\ GateSettled
    /\ broken
    /\ outcome' = "rejected"
    /\ UNCHANGED <<worker, active, startupVars, terminated, dispatchVars, poolVars,
                   aborted, orphans>>

(* No slot came up, or the breaker of an earlier round is open. *)
Refuse ==
    /\ outcome = "called"
    /\ GateSettled
    /\ active = {} \/ broken
    /\ outcome' = "rejected"
    /\ UNCHANGED <<worker, active, startupVars, terminated, dispatchVars, poolVars,
                   aborted, orphans>>

-----------------------------------------------------------------------------
(* What a worker posts. sub-batch-done: it waits in its event loop for the    *)
(* flush, and serialises its result then.                                     *)
SubBatchDone(s) ==
    /\ job[s] # NoJob /\ job[s].phase = "parsing"
    /\ worker[s] = "busy"
    /\ job' = [job EXCEPT ![s].phase = "flushing"]
    /\ worker' = [worker EXCEPT ![s] = "parked"]
    /\ UNCHANGED <<active, startupVars, terminated, jobs, recovery, busy, activeWorkers,
                   unattributed, results, round, poolVars, outcome, aborted, orphans>>

(* finishJob: the slot goes on with the queue. *)
Result(s) ==
    /\ job[s] # NoJob /\ job[s].phase = "flushing"
    /\ worker[s] = "parked"
    /\ results' = results \cup {[start |-> job[s].start, files |-> job[s].files]}
    /\ consecutive' = [consecutive EXCEPT ![s] = 0]
    /\ Commit(RunWorkers([Desk EXCEPT !.job[s] = NoJob, !.busy = @ \ {s}, !.count = @ - 1], <<s>>))
    /\ UNCHANGED <<startupVars, terminated, recovery, unattributed, round, respawns, broken, aborted, orphans>>

(* requeueRemainder(job, excluded), on the desk; the second unattributed death *)
(* of a startIndex blames the first file.                                     *)
Blamed(j, excluded) ==
    IF excluded = {} /\ j.start \in unattributed THEN {Min(j.files)} ELSE excluded

(* Mutant: the files of a dead worker's job are lost with it.                 *)
Requeue_Lost(d, s, excluded) ==
    [d EXCEPT !.job[s] = NoJob, !.bad = @ \cup Blamed(job[s], excluded)]

Requeue(d, s, excluded) ==
    LET j == [d.job[s] EXCEPT !.phase = "queued"]
        blamed == Blamed(j, excluded)
        left == j.files \ blamed
    IN  [d EXCEPT !.job[s] = NoJob, !.bad = @ \cup blamed,
                  !.jobs = IF left = {} THEN @ ELSE <<[j EXCEPT !.files = left]>> \o @]

(* handleWorkerDeath, up to its first await: one more failure of the slot      *)
(* trips the breaker, or spends the slot, or replaces its worker.             *)
Spent(s) == respawns[s] >= maxRespawnsPerSlot
LastStraw(s) == consecutive[s] + 1 >= consecutiveFailureThreshold

Fail(s) == consecutive' = [consecutive EXCEPT ![s] = @ + 1]
Charge(s) == respawns' = [respawns EXCEPT ![s] = @ + 1]

(* The worker of a job in flight dies, or reports an error and is terminated;  *)
(* or a message of it cannot be read (messageerror), and it is terminated      *)
(* where it is, in native code perhaps.                                       *)
(* recoverAndResume keeps the slot counted until its recovery is over.        *)
WorkerDies(s) ==
    /\ job[s] # NoJob
    /\ worker[s] # "dead"
    /\ \E w \in {"dead", "parked", worker[s]},
          excluded \in {{}} \cup {{f} : f \in job[s].files} :
           LET j == job[s]
           IN  \E d \in {[Requeue(Desk, s, excluded) EXCEPT !.busy = @ \ {s}, !.worker[s] = w]} :
               /\ excluded = {} => j.phase = "flushing"
               /\ unattributed' = IF excluded = {} THEN unattributed \cup {j.start} ELSE unattributed
               /\ orphans' \in {orphans, IF Store /\ j.phase = "flushing"
                                         THEN orphans \cup j.files ELSE orphans}
               /\ Fail(s)
               /\ \/ /\ LastStraw(s)
                     /\ TripBreaker(d)
                     /\ UNCHANGED <<respawns, recovery>>
                  \/ /\ ~LastStraw(s)
                     /\ Charge(s)
                     /\ recovery' = [recovery EXCEPT ![s] = IF Spent(s) THEN "dropping" ELSE "removing"]
                     /\ jobs' = d.jobs /\ job' = d.job /\ busy' = d.busy
                     /\ worker' = [d.worker EXCEPT ![s] = "none"] /\ quarantined' = d.bad
                     /\ UNCHANGED <<active, activeWorkers, outcome, broken, aborted>>
    /\ UNCHANGED <<startupVars, terminated, results, round>>

(* The thread of a parked worker goes away while no handler listens. *)
IdleExit(s) ==
    /\ worker[s] = "parked" /\ job[s] = NoJob
    /\ GateSettled
    /\ worker' = [worker EXCEPT ![s] = "dead"]
    /\ UNCHANGED <<active, startupVars, terminated, dispatchVars, poolVars, outcome,
                   aborted, orphans>>

-----------------------------------------------------------------------------
(* The idle timer of a job fires: nothing was heard of it for its timeout.    *)
(* The worker is retired, for it may be inside native code; it is terminated  *)
(* at its next message.                                                       *)
NextTimeout(j) == j.timeout * timeoutBackoffFactor
GivesUp(j) ==
    \/ j.cumulative + NextTimeout(j) > maxCumulativeTimeout
    \/ Cardinality(j.files) = 1 /\ j.attempt + 1 > maxTimeoutRetries

(* requeueAfterTimeout: a job of several files is split in two, a single file *)
(* is tried again, both with a longer timeout.                                *)
Half(S) == {f \in S : Cardinality({g \in S : g < f}) < (Cardinality(S) + 1) \div 2}

(* Mutant: the second half of a split keeps the startIndex of the first.      *)
Retried_SameStart(s) ==
    LET j == job[s]
        later == [j EXCEPT !.timeout = NextTimeout(j), !.cumulative = @ + NextTimeout(j),
                           !.phase = "queued"]
        half == Half(j.files)
    IN  IF Cardinality(j.files) = 1 THEN <<[later EXCEPT !.attempt = @ + 1]>>
        ELSE <<[later EXCEPT !.files = half], [later EXCEPT !.files = @ \ half]>>

Retried(s) ==
    LET j == job[s]
        later == [j EXCEPT !.timeout = NextTimeout(j), !.cumulative = @ + NextTimeout(j),
                           !.phase = "queued"]
        half == Half(j.files)
    IN  IF Cardinality(j.files) = 1 THEN <<[later EXCEPT !.attempt = @ + 1]>>
        ELSE <<[later EXCEPT !.files = half],
               [later EXCEPT !.start = @ + Cardinality(half), !.files = @ \ half]>>

(* retireWorkerAfterTimeout: out of the slot, terminated at its next message,  *)
(* which nobody else reads.                                                   *)
Retire(d, s) == [d EXCEPT !.worker[s] = "none"]

Drop(d, s) == [d EXCEPT !.active = @ \ {s}]

(* The slot leaves the rotation; the pool is broken when it was the last.     *)
GoOnWithout(d, s) ==
    \/ Drop(d, s).active = {} /\ TripBreaker(Drop(d, s))
    \/ /\ Drop(d, s).active # {}
       /\ Resume(Drop(d, s), s)
       /\ UNCHANGED <<broken, aborted>>

Respawn(d, s) ==
    /\ recovery' = [recovery EXCEPT ![s] = "spawning"]
    /\ jobs' = d.jobs /\ job' = d.job /\ busy' = d.busy /\ worker' = d.worker
    /\ quarantined' = d.bad
    /\ UNCHANGED <<active, activeWorkers, outcome, broken, aborted>>

(* A shard may be on disk when the timer of a flushing job fires.             *)
TimedOut(s) ==
    /\ job[s] # NoJob
    /\ Fail(s)
    /\ orphans' \in {orphans, IF Store /\ job[s].phase = "flushing" /\ worker[s] # "dead"
                              THEN orphans \cup job[s].files ELSE orphans}
    /\ UNCHANGED <<startupVars, terminated, results, unattributed, round>>

TimeoutRetry(s) ==
    /\ TimedOut(s)
    /\ ~GivesUp(job[s])
    /\ Charge(s)
    /\ \E d \in {Retire([Desk EXCEPT !.jobs = Retried(s) \o @, !.job[s] = NoJob], s)} :
           \/ /\ LastStraw(s)
              /\ TripBreaker(d)
              /\ UNCHANGED recovery
           \/ /\ ~LastStraw(s) /\ Spent(s)
              /\ GoOnWithout(d, s)
              /\ UNCHANGED recovery
           \/ /\ ~LastStraw(s) /\ ~Spent(s)
              /\ Respawn(d, s)

TimeoutGiveUp(s) ==
    /\ TimedOut(s)
    /\ GivesUp(job[s])
    /\ \E file \in job[s].files :
           \E d \in {[Requeue(Desk, s, {file}) EXCEPT !.busy = @ \ {s}]} :
               \/ /\ LastStraw(s)
                  /\ TripBreaker(d)
                  /\ UNCHANGED <<respawns, recovery>>
               \/ /\ ~LastStraw(s) /\ Spent(s)
                  /\ Charge(s)
                  /\ GoOnWithout(Retire(d, s), s)
                  /\ UNCHANGED recovery
               \/ /\ ~LastStraw(s) /\ ~Spent(s)
                  /\ Charge(s)
                  /\ Respawn(Retire(d, s), s)

-----------------------------------------------------------------------------
(* The continuations of a recovery. terminate() of the dead worker is         *)
(* acknowledged, or its drain is over; that of a replacement has no drain.    *)
Recovered(s) == recovery' = [recovery EXCEPT ![s] = "none"]

Untouched == UNCHANGED <<startupVars, terminated, consecutive, respawns, unattributed, results,
                         round, orphans>>

Stopped(s) ==   \* the dispatch was rejected meanwhile
    /\ outcome # "running"
    /\ \/ recovery[s] \in {"removing", "dropping", "killing"} /\ Recovered(s)
       \/ recovery[s] = "spawning" /\ recovery' = [recovery EXCEPT ![s] = "killing"]
    /\ UNCHANGED <<worker, active, jobs, job, busy, activeWorkers, quarantined, outcome, broken, aborted>>
    /\ Untouched

Removed(s) ==
    /\ outcome = "running" /\ Untouched
    /\ \/ /\ recovery[s] = "removing"
          /\ recovery' = [recovery EXCEPT ![s] = "spawning"]
          /\ UNCHANGED <<worker, active, jobs, job, busy, activeWorkers, quarantined, outcome,
                         broken, aborted>>
       \/ /\ recovery[s] = "dropping"
          /\ Recovered(s)
          /\ GoOnWithout(Desk, s)

SpawnReady(s) ==
    /\ recovery[s] = "spawning" /\ outcome = "running"
    /\ Recovered(s)
    /\ Resume([Desk EXCEPT !.worker[s] = "parked"], s)
    /\ UNCHANGED <<broken, aborted>>
    /\ Untouched

(* The replacement dies or is late, and is terminated; the slot is dropped    *)
(* when that is acknowledged.                                                 *)
SpawnFails(s) ==
    /\ recovery[s] = "spawning" /\ outcome = "running"
    /\ recovery' = [recovery EXCEPT ![s] = "killing"]
    /\ UNCHANGED <<worker, active, jobs, job, busy, activeWorkers, quarantined, outcome, broken, aborted>>
    /\ Untouched

SpawnKilled(s) ==
    /\ recovery[s] = "killing" /\ outcome = "running"
    /\ Recovered(s)
    /\ GoOnWithout(Desk, s)
    /\ Untouched

-----------------------------------------------------------------------------
(* The caller. It unwinds to terminate() when the rounds are over or one was   *)
(* rejected, and when a merge or a guard throws; a merge that throws while the *)
(* next round is on the workers first lets that round settle (closeRound).    *)
InFlight == outcome \in {"called", "running"}

Terminate ==
    /\ ~terminated
    /\ ~InFlight
    /\ terminated' = TRUE
    /\ aborted' = (aborted \/ \E s \in Slots : worker[s] = "busy")
    /\ worker' = [s \in Slots |-> "none"]
    /\ active' = {}
    /\ UNCHANGED <<startupVars, dispatchVars, poolVars, outcome, orphans>>

Boot(s) ==
    /\ StartupStep(s)
    /\ UNCHANGED <<dispatchVars, poolVars, outcome, aborted, orphans>>

Timeout(s) == TimeoutRetry(s) \/ TimeoutGiveUp(s)
Recover(s) == Stopped(s) \/ Removed(s) \/ SpawnReady(s) \/ SpawnFails(s) \/ SpawnKilled(s)

Next ==
    \/ Call \/ Begin \/ Refuse \/ Terminate
    \/ \E s \in Slots : \/ Boot(s) \/ SubBatchDone(s) \/ Result(s) \/ WorkerDies(s)
                        \/ IdleExit(s) \/ Timeout(s) \/ Recover(s)

Spec == Init /\ [][Next]_vars

(* The slot waits for a terminate() to be acknowledged, without a deadline: of *)
(* a worker that did not start or of a replacement that did not.              *)
Unacknowledged(s) == boot[s] = "killing" \/ recovery[s] = "killing"

(* The event loop runs what is due: idle timers, ready timeouts, drains and    *)
(* backoffs all expire, and the caller awaits what it called. Nothing makes a  *)
(* thread acknowledge its termination.                                        *)
FairSpec ==
    /\ Spec
    /\ WF_vars(Begin \/ Refuse) /\ WF_vars(Terminate /\ (round = Len(Rounds) \/ outcome = "rejected"))
    /\ \A s \in Slots : /\ WF_vars(boot[s] # "killing" /\ Boot(s))
                        /\ WF_vars(recovery[s] # "killing" /\ Recover(s))
                        /\ WF_vars(Timeout(s))

-----------------------------------------------------------------------------
InJobs == UNION {jobs[k].files : k \in DOMAIN jobs}
InSlots == UNION {job[s].files : s \in {t \in Slots : job[t] # NoJob}}
Delivered == UNION {r.files : r \in results}
Held == ToSet(jobs) \cup {job[s] : s \in {t \in Slots : job[t] # NoJob}} \cup results

(* Every file of a round is returned once or set aside, however its job was   *)
(* split, requeued and retried, and the promise never resolves without them.  *)
Dispatch == INSTANCE WorkerDispatch WITH todo <- InJobs \cup InSlots, delivered <- Delivered
ImplementsDispatch == Dispatch!Spec

(* A result is sorted and handed to a chunk by its startIndex: splits and     *)
(* removals keep it inside the chunk of its files and in their order.         *)
Attributed ==
    outcome \in {"running", "resolved"} =>
        \A h \in Held :
            /\ \A f \in h.files : GroupOf(round, f) = GroupOf(round, h.start)
            /\ \A g \in Held \ {h} :
                   h.start < g.start <=> \A a \in h.files, b \in g.files : a < b

(* The counter that decides the end of a dispatch counts the jobs in flight   *)
(* and the recoveries; none of these outlives the dispatch.                   *)
CountAgrees ==
    LET working == {s \in Slots : job[s] # NoJob \/ recovery[s] # "none"}
    IN  /\ outcome = "running" => activeWorkers = Cardinality(working)
        /\ outcome = "resolved" => working = {} /\ jobs = <<>>

(* A dispatch that is not over has a job in flight or a recovery under way,   *)
(* which will go on with the queue: what a death, a timeout or a dropped slot *)
(* puts back is never left with nobody to fetch it.                           *)
NeverStalls ==
    outcome = "running" => \E s \in Slots : job[s] # NoJob \/ recovery[s] # "none"

(* Of the two that terminate the workers of the whole pool, only the breaker   *)
(* may hit one inside native code: the caller never ends the pool around a job. *)
AbortOnlyByBreaker == aborted => broken

(* worker-pool.ts:1657-1661: the breaker never terminates a worker that may be *)
(* inside native code either, but retires it.                                 *)
NoNativeAbort == ~aborted

(* "a worker that dies before flush wrote no shard, so the pool's job retry   *)
(* yields exactly one": no returned file is in the shard of another attempt.  *)
ExactlyOneShard == orphans \cap Delivered = {}

(* The safety invariants together: a result goes to the chunk its files are   *)
(* of, the counter that ends a dispatch is right, somebody is counted until    *)
(* then, and only the breaker terminates a worker at work.                    *)
Inv == TypeOK /\ Attributed /\ CountAgrees /\ NeverStalls /\ AbortOnlyByBreaker

(* worker-pool.ts:1593-1594: every dispatch settles, although a failed thread  *)
(* may never acknowledge its termination.                                     *)
AlwaysSettles == InFlight ~> outcome \in {"resolved", "rejected"}

(* Every dispatch settles, through any deaths, timeouts and failed respawns,  *)
(* if every termination that is awaited without a deadline is acknowledged.   *)
DispatchSettles ==
    (\A s \in Slots : []<>~Unacknowledged(s)) => (InFlight ~> outcome \in {"resolved", "rejected"})

(* Once the pool is terminated its slots and its recoveries come to rest with *)
(* no worker, if those terminations are acknowledged: nothing that was         *)
(* starting or being replaced survives.                                       *)
NothingSurvives ==
    (\A s \in Slots : []<>~Unacknowledged(s)) =>
        (terminated ~> [](\A s \in Slots : worker[s] = "none" /\ recovery[s] = "none"))
=============================================================================
