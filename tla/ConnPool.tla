------------------------------- MODULE ConnPool -------------------------------
(***************************************************************************)
(* The read pool of the graph database (core/lbug/pool-adapter.ts) and the *)
(* way the MCP backend opens it (mcp/local/local-backend.ts).              *)
(*                                                                         *)
(* Everything that opens or closes a native database runs inside one       *)
(* promise mutex, poolLock: lockQ is its chain, the head is the running    *)
(* task and step is where that task is suspended.  Checking connections    *)
(* out and in runs outside the mutex, between any two steps of the head.   *)
(* The index files are replaced by analyze in another process.             *)
(***************************************************************************)
EXTENDS Naturals, FiniteSets, SequencesExt

CONSTANTS
  MaxCalls,             \* bound: tool calls made of the server, in this order
  VectorCalls,          \* those of them whose query is a vector search
  Repos,                \* keys of the pool
  Paths,                \* database files
  dbPath,               \* the file of every repository: two may share one
  MAX_POOL_SIZE,
  MAX_CONNS_PER_REPO,
  LOCK_RETRY_ATTEMPTS,
  MaxBuilds,            \* bound: how often analyze replaces a file
  MaxCloses,            \* bound: how many explicit teardowns
  PinnedBy,             \* repositories that a group operation pins
  MaxPins               \* bound: leases on one repository at a time

ASSUME PoolAssumption ==
  /\ dbPath \in [Repos -> Paths] /\ IsFiniteSet(Repos)
  /\ {MAX_POOL_SIZE, MAX_CONNS_PER_REPO, LOCK_RETRY_ATTEMPTS} \subseteq Nat \ {0}
  /\ {MaxCalls, MaxBuilds, MaxCloses, MaxPins} \subseteq Nat
  /\ VectorCalls \subseteq 1..MaxCalls /\ PinnedBy \subseteq Repos

VARIABLES
  file,        \* per path: the build on disk and whether the file is there
  pool,        \* the open entries: a function whose domain is pool.keys()
  usedBefore,  \* the order of lastUsed: pairs of keys, the first one's is the older
  idle,        \* the keys a sweep found idle and that were not used since
  pinnedRepos, \* leases per repository
  dbCache,     \* the shared databases: a function whose domain is its keys; of the
               \* references counted, leaked are those of entries never registered
  checkpoint,  \* paths whose native close is in flight
  lockQ,       \* poolLock: the running task and those behind it
  step,        \* where the running task is suspended
  call,        \* the tool calls
  closes       \* explicit teardowns made

pools == <<pool, usedBefore, idle, pinnedRepos, dbCache, checkpoint>>
vars == <<file, pools, lockQ, step, call, closes>>

Calls == 1..MaxCalls
Conns == 1..MAX_CONNS_PER_REPO
Start == [at |-> "start"]
Ended == [pc |-> "done"]

\* What a stat reports: the build, or 0 for a file that is not there.
Identity(p) == IF file[p].there THEN file[p].build ELSE 0

\* dbIdentityChanged: an unknown identity on either side is no change.
Changed(prev, next) == prev # 0 /\ next # 0 /\ prev # next

\* Those who wait for a connection of the open entry, or hold one.
Users(r) == {c \in Calls : \/ call[c].pc = "wait" /\ call[c].repo = r
                           \/ call[c].pc = "run" /\ call[c].repo = r /\ call[c].live}

\* entry.lastUsed = Date.now()
Others(r) == {qs \in usedBefore : qs[1] # r /\ qs[2] # r}
Touched(r) == Others(r) \cup {<<q, r>> : q \in DOMAIN pool \ {r}}

Purpose(c) == IF c \in VectorCalls THEN "vector" ELSE "query"

\* A call about to ask for a connection, to load the extension or for its query.
About(k, use) == [pc |-> "ready", repo |-> k.repo, use |-> use]

\* A call that gives up, or that goes on without the extension it failed to load.
Failed(k) == IF k.use = "vector" THEN About(k, "query") ELSE Ended

-----------------------------------------------------------------------------
(* poolLock *)

Task == Head(lockQ)
Running(kind, at) == lockQ # <<>> /\ Task.kind = kind /\ step.at = at

\* The task's promise settles: the next one of the chain starts.
Done == /\ lockQ' = Tail(lockQ)
        /\ step' = Start

\* A bug that is easy to write: the close of the database is not awaited.
CloseOne_NotAwaited(r, then) ==
  LET p == dbPath[r]
      last == dbCache[p].refCount = 1
  IN /\ pool' = [q \in DOMAIN pool \ {r} |-> pool[q]]
     /\ usedBefore' = Others(r)
     /\ idle' = idle \ {r}
     /\ pinnedRepos' = [pinnedRepos EXCEPT ![r] = 0]
     /\ dbCache' = IF last THEN [q \in DOMAIN dbCache \ {p} |-> dbCache[q]]
                           ELSE [dbCache EXCEPT ![p].refCount = @ - 1]
     /\ checkpoint' = IF last THEN checkpoint \cup {p} ELSE checkpoint
     /\ step' = then
     /\ UNCHANGED call

\* closeOne up to its await: the entry is marked closed and leaves the pool with
\* its pins, those who wait are refused, connections in use become orphans, and
\* the last reference starts the close of the database.
CloseOne(r, then) ==
  LET p == dbPath[r]
      last == dbCache[p].refCount = 1
      Refused(c) == call[c].pc = "wait" /\ call[c].repo = r
      Left(c) ==
        IF Refused(c) THEN Failed(call[c])
        ELSE IF call[c].pc # "run" \/ dbPath[call[c].repo] # p THEN call[c]
        ELSE [call[c] EXCEPT !.live = @ /\ call[c].repo # r, !.shut = @ \/ last]
      given_up == \E c \in Calls : Refused(c) /\ call[c].use = "vector"
  IN /\ pool' = [q \in DOMAIN pool \ {r} |-> pool[q]]
     /\ usedBefore' = Others(r)
     /\ idle' = idle \ {r}
     /\ pinnedRepos' = [pinnedRepos EXCEPT ![r] = 0]
     /\ dbCache' = [dbCache EXCEPT ![p].refCount = @ - 1,
                                   ![p].vector = IF given_up THEN "no" ELSE @]
     /\ call' = [c \in Calls |-> Left(c)]
     /\ IF last
        THEN /\ checkpoint' = checkpoint \cup {p}
             /\ step' = [at |-> "closing", repo |-> r, then |-> then]
        ELSE /\ step' = then
             /\ UNCHANGED checkpoint

\* The await of db.close() returns: the database leaves the cache, and a pin
\* taken meanwhile does not survive.
NativeClosed ==
  /\ lockQ # <<>> /\ step.at = "closing"
  /\ LET p == dbPath[step.repo] IN
     /\ dbCache' = [q \in DOMAIN dbCache \ {p} |-> dbCache[q]]
     /\ checkpoint' = checkpoint \ {p}
  /\ pinnedRepos' = [pinnedRepos EXCEPT ![step.repo] = 0]
  /\ step' = step.then
  /\ UNCHANGED <<file, pool, usedBefore, idle, lockQ, call, closes>>

-----------------------------------------------------------------------------
(* initLbug *)

\* The call that awaits the running initLbug.
Answer(k) == call' = [call EXCEPT ![Task.who] = k]

\* An existing entry is touched before its file is looked at.
InitLookup ==
  /\ Running("init", "start")
  /\ IF Task.repo \in DOMAIN pool
     THEN /\ usedBefore' = Touched(Task.repo)
          /\ idle' = idle \ {Task.repo}
          /\ step' = [at |-> "stat"]
     ELSE /\ step' = [at |-> "evict"]
          /\ UNCHANGED <<usedBefore, idle>>
  /\ UNCHANGED <<file, pool, pinnedRepos, dbCache, checkpoint, lockQ, call, closes>>

Superseded(r) == Changed(pool[r].dbIdentity, Identity(dbPath[r]))

\* Unchanged, or changed under a query in flight: the entry is served as it is.
InitReuse ==
  /\ Running("init", "stat")
  /\ ~Superseded(Task.repo) \/ pool[Task.repo].checkedOut > 0
  /\ Answer(About(call[Task.who], Purpose(Task.who)))
  /\ Done
  /\ UNCHANGED <<file, pools, closes>>

InitRoll ==
  /\ Running("init", "stat")
  /\ Superseded(Task.repo) /\ pool[Task.repo].checkedOut = 0
  /\ CloseOne(Task.repo, [at |-> "evict"])
  /\ UNCHANGED <<file, lockQ, closes>>

InitNotFound ==
  /\ Running("init", "evict")
  /\ ~file[dbPath[Task.repo]].there
  /\ Answer(Ended)
  /\ Done
  /\ UNCHANGED <<file, pools, closes>>

\* evictLRU: the least recently used entry that is neither pinned nor in use; with
\* none the pool grows past its size.
Evictable(r) == pinnedRepos[r] = 0 /\ pool[r].checkedOut = 0
EvictLRU ==
  LET victims == {r \in DOMAIN pool : Evictable(r)} IN
  /\ Running("init", "evict")
  /\ file[dbPath[Task.repo]].there
  /\ IF Cardinality(DOMAIN pool) >= MAX_POOL_SIZE /\ victims # {}
     THEN \E r \in victims : /\ \A q \in victims : <<q, r>> \notin usedBefore
                             /\ CloseOne(r, [at |-> "open"])
     ELSE /\ step' = [at |-> "open"]
          /\ UNCHANGED <<pools, call>>
  /\ UNCHANGED <<file, lockQ, closes>>

\* The shared database is reused, or opened read-only.
InitOpen ==
  LET p == dbPath[Task.repo] IN
  /\ Running("init", "open")
  /\ IF p \in DOMAIN dbCache
     THEN dbCache' = [dbCache EXCEPT ![p].refCount = @ + 1]
     ELSE /\ file[p].there
          /\ dbCache' = [q \in DOMAIN dbCache \cup {p} |->
                           IF q = p THEN [refCount |-> 1, leaked |-> 0,
                                          build |-> file[p].build, vector |-> "no"]
                                    ELSE dbCache[q]]
  /\ step' = [at |-> "fts"]
  /\ UNCHANGED <<file, pool, usedBefore, idle, pinnedRepos, checkpoint, lockQ, call, closes>>

\* A bug that is easy to write: the attempts are not counted across sleeps.
InitOpenFails_NoBudget ==
  /\ Running("init", "open")
  /\ dbPath[Task.repo] \notin DOMAIN dbCache
  /\ Answer([call[Task.who] EXCEPT !.pc = "sleep"])
  /\ Done
  /\ UNCHANGED <<file, pools, closes>>

\* The open fails.  A lock held by analyze is retried after a sleep that gives the
\* mutex back, as long as attempts are left; any other error ends the k.
InitOpenFails ==
  LET k == call[Task.who] IN
  /\ Running("init", "open")
  /\ dbPath[Task.repo] \notin DOMAIN dbCache
  /\ \/ /\ k.attempt < LOCK_RETRY_ATTEMPTS
        /\ Answer([k EXCEPT !.pc = "sleep", !.attempt = @ + 1])
     \/ Answer(Ended)
  /\ Done
  /\ UNCHANGED <<file, pools, closes>>

RetryInit(c) ==
  /\ call[c].pc = "sleep"
  /\ call' = [call EXCEPT ![c].pc = "queued"]
  /\ lockQ' = Append(lockQ, [kind |-> "init", repo |-> call[c].repo, who |-> c])
  /\ UNCHANGED <<file, pools, step, closes>>

\* Connections are made and the text search extension is loaded before the entry
\* is registered, with the identity the file has by then.
InitRegister ==
  LET r == Task.repo IN
  /\ Running("init", "fts")
  /\ pool' = [q \in DOMAIN pool \cup {r} |->
                IF q = r THEN [available |-> [i \in Conns |-> i], checkedOut |-> 0,
                               waiters |-> <<>>, dbIdentity |-> Identity(dbPath[r])]
                         ELSE pool[q]]
  /\ usedBefore' = Touched(r)
  /\ Answer(About(call[Task.who], Purpose(Task.who)))
  /\ Done
  /\ UNCHANGED <<file, idle, pinnedRepos, dbCache, checkpoint, closes>>

\* A connection cannot be made: the error ends the call, and nothing takes back the
\* reference that was counted for the entry.
InitRegisterFails ==
  /\ Running("init", "fts")
  /\ dbCache' = [dbCache EXCEPT ![dbPath[Task.repo]].leaked = @ + 1]
  /\ Answer(Ended)
  /\ Done
  /\ UNCHANGED <<file, pool, usedBefore, idle, pinnedRepos, checkpoint, closes>>

-----------------------------------------------------------------------------
(* The idle sweep and explicit teardown *)

\* Five minutes after the last use the sweep finds an entry idle, and only queues its
\* close.  Bound: one queued close at a time.
IdleSweep(r) ==
  /\ r \in DOMAIN pool
  /\ Evictable(r)
  /\ \A i \in DOMAIN lockQ : lockQ[i].kind # "idle"
  /\ idle' = idle \cup {r}
  /\ lockQ' = Append(lockQ, [kind |-> "idle", repo |-> r])
  /\ UNCHANGED <<file, pool, usedBefore, pinnedRepos, dbCache, checkpoint, step, call, closes>>

\* The queued close looks again before it acts.
StillIdle_Snapshot(r) == r \in DOMAIN pool   \* the sweep's own look is trusted
StillIdle(r) == r \in DOMAIN pool \cap idle /\ Evictable(r)

IdleClose ==
  /\ Running("idle", "start")
  /\ StillIdle(Task.repo)
  /\ CloseOne(Task.repo, [at |-> "done"])
  /\ UNCHANGED <<file, lockQ, closes>>

IdleKept ==
  /\ Running("idle", "start")
  /\ ~StillIdle(Task.repo)
  /\ idle' = idle \ {Task.repo}
  /\ Done
  /\ UNCHANGED <<file, pool, usedBefore, pinnedRepos, dbCache, checkpoint, call, closes>>

TaskDone ==
  /\ lockQ # <<>> /\ step.at = "done"
  /\ Done
  /\ UNCHANGED <<file, pools, call, closes>>

\* closeLbug of one repository that left the registry, or of all at dispose.
CloseLbug(task) ==
  /\ closes < MaxCloses
  /\ closes' = closes + 1
  /\ lockQ' = Append(lockQ, task)
  /\ UNCHANGED <<file, pools, step, call>>
CloseRepo(r) == CloseLbug([kind |-> "close", repo |-> r])
CloseAll == CloseLbug([kind |-> "closeAll"])

CloseSnapshot ==
  /\ Running("close", "start") \/ Running("closeAll", "start")
  /\ step' = [at |-> "next", left |-> IF Task.kind = "close" THEN {Task.repo} \cap DOMAIN pool
                                                            ELSE DOMAIN pool]
  /\ UNCHANGED <<file, pools, lockQ, call, closes>>

CloseNext ==
  /\ lockQ # <<>> /\ step.at = "next"
  /\ \/ /\ step.left = {}
        /\ Done
        /\ UNCHANGED <<pools, call>>
     \/ /\ \E r \in step.left : CloseOne(r, [step EXCEPT !.left = @ \ {r}])
        /\ UNCHANGED lockQ
  /\ UNCHANGED <<file, closes>>

\* pinRepo and its release.
PinRepo(r) ==
  /\ r \in PinnedBy
  /\ pinnedRepos[r] < MaxPins
  /\ pinnedRepos' = [pinnedRepos EXCEPT ![r] = @ + 1]
  /\ UNCHANGED <<file, pool, usedBefore, idle, dbCache, checkpoint, lockQ, step, call, closes>>

UnpinRepo(r) ==
  /\ r \in PinnedBy /\ pinnedRepos[r] > 0
  /\ pinnedRepos' = [pinnedRepos EXCEPT ![r] = @ - 1]
  /\ UNCHANGED <<file, pool, usedBefore, idle, dbCache, checkpoint, lockQ, step, call, closes>>

-----------------------------------------------------------------------------
(* Tool calls: ensureInitialized, then a query *)

\* A call on an open repository checked a moment ago goes straight to its query;
\* any other goes through initLbug first.
Dispatch(c, r) ==
  /\ call[c].pc = "new" /\ \A d \in 1..(c - 1) : call[d].pc # "new"
  /\ \/ /\ r \in DOMAIN pool
        /\ call' = [call EXCEPT ![c] = About([repo |-> r], Purpose(c))]
        /\ UNCHANGED lockQ
     \/ /\ call' = [call EXCEPT ![c] = [pc |-> "queued", repo |-> r, attempt |-> 1]]
        /\ lockQ' = Append(lockQ, [kind |-> "init", repo |-> r, who |-> c])
  /\ UNCHANGED <<file, pools, step, closes>>

QueryNotReady(c) ==
  /\ call[c].pc = "ready"
  /\ call[c].repo \notin DOMAIN pool
  /\ call' = [call EXCEPT ![c] = Ended]
  /\ UNCHANGED <<file, pools, lockQ, step, closes>>

Ready(c, use) ==
  call[c].pc = "ready" /\ call[c].use = use /\ call[c].repo \in DOMAIN pool

Holding(k, conn) ==
  [pc |-> "run", repo |-> k.repo, use |-> k.use, conn |-> conn, live |-> TRUE, shut |-> FALSE]

\* checkout: a free connection, or a place in the queue.  Only a query counts as a
\* use of the entry, not the load of the extension.
Checkout(c) ==
  LET r == call[c].repo
      entry == pool[r]
  IN IF entry.available # <<>>
     THEN /\ pool' = [pool EXCEPT ![r].available = Front(@), ![r].checkedOut = @ + 1]
          /\ call' = [call EXCEPT ![c] = Holding(@, Last(entry.available))]
          /\ IF call[c].use = "query" THEN usedBefore' = Touched(r) /\ idle' = idle \ {r}
                                        ELSE UNCHANGED <<usedBefore, idle>>
     ELSE /\ pool' = [pool EXCEPT ![r].waiters = Append(@, c)]
          /\ call' = [call EXCEPT ![c].pc = "wait"]
          /\ UNCHANGED <<usedBefore, idle>>

Query(c) ==
  /\ Ready(c, "query")
  /\ Checkout(c)
  /\ UNCHANGED <<file, pinnedRepos, dbCache, checkpoint, lockQ, step, closes>>

\* ensureVectorExtension: the first call loads it on a connection of its own, others
\* join its promise, and a cached answer is used.  The entry is read again after.
LoadVector(c) ==
  LET p == dbPath[call[c].repo] IN
  /\ Ready(c, "vector")
  /\ dbCache[p].vector = "no"
  /\ dbCache' = [dbCache EXCEPT ![p].vector = "loading"]
  /\ Checkout(c)
  /\ UNCHANGED <<file, pinnedRepos, checkpoint, lockQ, step, closes>>

JoinVector(c) ==
  /\ Ready(c, "vector")
  /\ LET v == dbCache[dbPath[call[c].repo]].vector IN
     /\ v # "no"
     /\ call' = [call EXCEPT ![c] = IF v = "loading" THEN [@ EXCEPT !.pc = "join"]
                                                         ELSE [@ EXCEPT !.use = "query"]]
  /\ UNCHANGED <<file, pools, lockQ, step, closes>>

JoinReturns(c) ==
  /\ call[c].pc = "join"
  /\ ~\E d \in Calls : /\ call[d].pc \in {"wait", "run"} /\ call[d].use = "vector"
                       /\ dbPath[call[d].repo] = dbPath[call[c].repo]
  /\ call' = [call EXCEPT ![c] = About(@, "query")]
  /\ UNCHANGED <<file, pools, lockQ, step, closes>>

\* What the end of c's use leaves in the record of the extension.
VectorAfter(c, outcomes) ==
  IF call[c].use = "query" \/ (call[c].pc = "run" /\ call[c].shut)
  THEN UNCHANGED dbCache
  ELSE \E v \in outcomes : dbCache' = [dbCache EXCEPT ![dbPath[call[c].repo]].vector = v]

\* checkin: the connection of a closed entry is closed, else it goes to the first
\* waiter, else back on the stack.
Checkin(c, open) ==
  LET k == call[c]
      r == k.repo
      first == Head(pool[r].waiters)
      after == IF k.use = "query" THEN Ended ELSE About(k, "query")
  IN IF ~open
     THEN /\ call' = [call EXCEPT ![c] = after]
          /\ UNCHANGED <<pool, usedBefore, idle>>
     ELSE IF pool[r].waiters # <<>>
     THEN /\ pool' = [pool EXCEPT ![r].waiters = Tail(@)]
          /\ call' = [call EXCEPT ![c] = after, ![first] = Holding(@, k.conn)]
          /\ IF call[first].use = "query" THEN usedBefore' = Touched(r) /\ idle' = idle \ {r}
                                          ELSE UNCHANGED <<usedBefore, idle>>
     ELSE /\ pool' = [pool EXCEPT ![r].available = Append(@, k.conn), ![r].checkedOut = @ - 1]
          /\ call' = [call EXCEPT ![c] = after]
          /\ UNCHANGED <<usedBefore, idle>>

\* A bug that is easy to write: the entry is looked up again by its key, and the
\* connection of a closed entry goes to the one opened since.
StillOpen_ByKey(c) == call[c].repo \in DOMAIN pool
StillOpen(c) == call[c].live

\* A query or a load ends, by its result, an error or its timeout.
QueryReturns(c) ==
  /\ call[c].pc = "run"
  /\ Checkin(c, StillOpen(c))
  /\ VectorAfter(c, {"done", "no"})
  /\ UNCHANGED <<file, pinnedRepos, checkpoint, lockQ, step, closes>>

WaiterTimeout(c) ==
  /\ call[c].pc = "wait"
  /\ LET r == call[c].repo IN
     \E i \in DOMAIN pool[r].waiters :
       pool[r].waiters[i] = c /\ pool' = [pool EXCEPT ![r].waiters = RemoveAt(@, i)]
  /\ call' = [call EXCEPT ![c] = Failed(@)]
  /\ VectorAfter(c, {"no"})
  /\ UNCHANGED <<file, usedBefore, idle, pinnedRepos, checkpoint, lockQ, step, closes>>

-----------------------------------------------------------------------------
(* analyze, in another process, replaces a file at once or removes it first *)

Swap(p) ==
  /\ file[p].build < MaxBuilds
  /\ file' = [file EXCEPT ![p] = [build |-> @.build + 1, there |-> TRUE]]
  /\ UNCHANGED <<pools, lockQ, step, call, closes>>

Unlink(p) ==
  /\ file[p].there /\ file[p].build < MaxBuilds
  /\ file' = [file EXCEPT ![p].there = FALSE]
  /\ UNCHANGED <<pools, lockQ, step, call, closes>>

-----------------------------------------------------------------------------
Init ==
  /\ file = [p \in Paths |-> [build |-> 1, there |-> TRUE]]
  /\ pool = [r \in {} |-> 0] /\ dbCache = [p \in {} |-> 0]
  /\ usedBefore = {} /\ idle = {} /\ checkpoint = {}
  /\ pinnedRepos = [r \in Repos |-> 0]
  /\ lockQ = <<>> /\ step = Start
  /\ call = [c \in Calls |-> [pc |-> "new"]]
  /\ closes = 0

LockStep == \/ InitLookup \/ InitReuse \/ InitRoll \/ InitNotFound \/ EvictLRU \/ InitOpen
            \/ InitOpenFails \/ InitRegister \/ InitRegisterFails \/ NativeClosed
            \/ IdleClose \/ IdleKept \/ TaskDone \/ CloseSnapshot \/ CloseNext
CallStep(c) == \/ RetryInit(c) \/ QueryNotReady(c) \/ Query(c) \/ LoadVector(c) \/ JoinVector(c)
               \/ JoinReturns(c) \/ QueryReturns(c) \/ WaiterTimeout(c)
Next == \/ LockStep \/ CloseAll
        \/ \E c \in Calls : CallStep(c) \/ \E r \in Repos : Dispatch(c, r)
        \/ \E r \in Repos : IdleSweep(r) \/ CloseRepo(r) \/ PinRepo(r) \/ UnpinRepo(r)
        \/ \E p \in Paths : Swap(p) \/ Unlink(p)

Spec == Init /\ [][Next]_vars

\* Native opens, closes and queries end, sleeps and waiter timers expire, and a call
\* whose promise is settled goes on.
FairSpec == Spec /\ WF_vars(LockStep) /\ \A c \in Calls : WF_vars(CallStep(c))

-----------------------------------------------------------------------------
TypeOK ==
  /\ DOMAIN pool \subseteq Repos /\ DOMAIN dbCache \subseteq Paths
  /\ file \in [Paths -> [build : 1..MaxBuilds + 1, there : BOOLEAN]]
  /\ \A r \in DOMAIN pool :
       pool[r] \in [available : Seq(Conns), checkedOut : 0..MAX_CONNS_PER_REPO,
                    waiters : Seq(Calls), dbIdentity : 0..MaxBuilds + 1]
  /\ \A p \in DOMAIN dbCache :
       dbCache[p] \in [refCount : Nat, leaked : Nat, build : 1..MaxBuilds + 1,
                       vector : {"no", "loading", "done"}]
  /\ usedBefore \subseteq (DOMAIN pool) \X (DOMAIN pool)
  /\ idle \subseteq DOMAIN pool /\ checkpoint \subseteq Paths
  /\ pinnedRepos \in [Repos -> 0..MaxPins]
  /\ closes \in 0..MaxCloses

\* The connections of an open entry: each is either free or in the hands of one
\* call that took it from this very entry, and the count of those out is right.
\* Else checkout reports a pool integrity error, or one connection serves two calls.
Holders(r) == {c \in Users(r) : call[c].pc = "run"}
ConnsConserved ==
  \A r \in DOMAIN pool :
    LET held == {call[c].conn : c \in Holders(r)} IN
    /\ Cardinality(held) = Cardinality(Holders(r))
    /\ Cardinality(held) = pool[r].checkedOut
    /\ IsInjective(pool[r].available)
    /\ ToSet(pool[r].available) = Conns \ held

\* A call that waits for a connection stands in the queue of an entry that is open
\* and entirely in use, and nobody else does: no connection is handed to a call
\* that gave up, and none lies free while a call waits.
WaitersQueued ==
  /\ \A c \in Calls : call[c].pc = "wait" => call[c].repo \in DOMAIN pool
  /\ \A r \in DOMAIN pool :
       /\ ToSet(pool[r].waiters) = {c \in Users(r) : call[c].pc = "wait"}
       /\ pool[r].waiters # <<>> => pool[r].checkedOut = MAX_CONNS_PER_REPO

\* A shared database lives exactly as long as somebody refers to it: its count is
\* the number of open entries on its file, of the one being opened, and of those whose
\* registration threw after it was counted, for whom it is never closed.
RefsAgree ==
  \A p \in Paths :
    LET open == {r \in DOMAIN pool : dbPath[r] = p}
        opening == IF Running("init", "fts") /\ dbPath[Task.repo] = p THEN 1 ELSE 0
        refs == Cardinality(open) + opening
    IN IF p \in DOMAIN dbCache
       THEN /\ dbCache[p].refCount = refs + dbCache[p].leaked
            /\ dbCache[p].refCount = 0 <=> p \in checkpoint
       ELSE refs = 0

\* Of any two open entries one was used before the other, so that eviction finds a
\* victim that no other precedes.
UsedInOrder ==
  /\ \A q, r \in DOMAIN pool : q # r <=> (<<q, r>> \in usedBefore \/ <<r, q>> \in usedBefore)
  /\ \A q, r, t \in DOMAIN pool :
       <<q, r>> \in usedBefore /\ <<r, t>> \in usedBefore => <<q, t>> \in usedBefore

\* The books of the pool balance between any two awaits: connections, waiters and
\* references, whatever was evicted, closed or timed out in between.
Inv == TypeOK /\ UsedInOrder /\ ConnsConserved /\ WaitersQueued /\ RefsAgree

\* No native open starts while the close of a database, whose checkpoint would fail
\* it, is in flight: evictions, idle closes, teardowns and reopens are serialised.
OpenAfterCheckpoint ==
  [][\A p \in Paths : p \in DOMAIN dbCache' \ DOMAIN dbCache => checkpoint = {}]_vars

\* Eviction, the idle sweep and a reopen after a rebuild never close an entry that
\* a call is using or waiting for; the first two never one that is pinned.  Each
\* chose its victim before an await, and looks again after it.
AutoCloseSpares ==
  [][\A r \in DOMAIN pool \ DOMAIN pool' :
       Task.kind \in {"close", "closeAll"}
       \/ /\ Users(r) = {}
          /\ pinnedRepos[r] = 0 \/ step.at = "stat"]_vars

\* Every tool call comes to an end, whatever is evicted, closed or retried meanwhile.
CallSettles == \A c \in Calls : call[c].pc # "new" ~> call[c].pc = "done"

\* The identity an entry records is that of the file it has open, so that the next
\* initLbug sees a rebuild.
IdentityOfHandle ==
  \A r \in DOMAIN pool : pool[r].dbIdentity = dbCache[dbPath[r]].build

\* A database that no entry refers to is being closed.  A registration that throws
\* leaves one that stays open, with the build it was opened on, until the server ends.
Released ==
  \A p \in DOMAIN dbCache :
    p \in checkpoint \/ (\E r \in DOMAIN pool : dbPath[r] = p) \/ Running("init", "fts")

\* No database is closed while a call is using a connection of it.
NoUseAfterFree == \A c \in Calls : call[c].pc = "run" => ~call[c].shut
=============================================================================
