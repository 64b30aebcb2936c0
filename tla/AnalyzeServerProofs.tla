------------------------ MODULE AnalyzeServerProofs ------------------------
(***************************************************************************)
(* Proofs about AnalyzeServer, for every set of jobs and repositories, and *)
(* about CircuitBreaker (the second part).                                 *)
(* The safety properties follow from three inductive invariants: the types *)
(* (TypeOK), the bookkeeping of the shared lock set (Locks), and, for each *)
(* analyze job on its own, where its outcome is and who will release its   *)
(* lock (JobInv).  A step changes one job, so JobInv is proved for the job *)
(* that steps and carried over for the others (Kept).                      *)
(***************************************************************************)
EXTENDS AnalyzeServer, CircuitBreaker, SequenceTheorems, TLAPS

USE ConstantsAssumption

\* Updating a job keeps the types.
LEMMA UpdateTypes ==
  ASSUME TypeOK, NEW x \in Ids, NEW s \in {"analyzing", "complete", "failed"},
         updateJob(x, s)
  PROVE  status' \in [Ids -> {"none", "cloning", "analyzing", "complete", "failed"}]
  BY DEF TypeOK, updateJob

\* Releasing a lock keeps the types.
LEMMA ReleaseTypes ==
  ASSUME TypeOK, NEW x \in Ids, releaseLockOnce(x)
  PROVE  holds' \in [Ids -> BOOLEAN] /\ active' \subseteq Repos
  BY DEF TypeOK, releaseLockOnce

\* Forking a worker keeps the types.
LEMMA ForkTypes ==
  ASSUME TypeOK, NEW j \in Jobs, forkWorker(j)
  PROVE  /\ worker' \in [Jobs -> {"none", "unspawned", "working", "stray", "winding", "exited"}]
         /\ ipcSeen' \in [Jobs -> BOOLEAN]
  BY DEF TypeOK, forkWorker

\* Every step keeps the types.
LEMMA NextTypes ==
  ASSUME TypeOK, [Next]_vars
  PROVE  TypeOK'
<1> USE DEF TypeOK, Ids, Messages, jobVars, lockVars, history, Terminal, Running
<1>1. ASSUME NEW j \in Jobs, NEW r \in Repos, CreateJob(j, r) PROVE TypeOK'
  BY <1>1 DEF CreateJob
<1>2. ASSUME NEW j \in Jobs, PrepareFails(j) PROVE TypeOK'
  BY <1>2 DEF PrepareFails, updateJob
<1>3. ASSUME NEW j \in Jobs, LaunchRefused(j) PROVE TypeOK'
  BY <1>3 DEF LaunchRefused, updateJob
<1>4. ASSUME NEW j \in Jobs, Launch(j) PROVE TypeOK'
  <2>1. status' \in [Ids -> {"none", "cloning", "analyzing", "complete", "failed"}]
    BY <1>4, UpdateTypes DEF Launch
  <2>2. /\ worker' \in [Jobs -> {"none", "unspawned", "working", "stray", "winding", "exited"}]
        /\ ipcSeen' \in [Jobs -> BOOLEAN]
    BY <1>4, ForkTypes DEF Launch
  <2>3. /\ launch' \in [Jobs -> {"none", "prepare", "launched"}]
        /\ holds' \in [Ids -> BOOLEAN]
        /\ active' \subseteq Repos
    BY <1>4 DEF Launch
  <2>4. UNCHANGED <<target, deleting, history, ipc, retryCount, retryTimer,
                    settle, collapsed, published>>
    BY <1>4 DEF Launch
  <2> QED
    BY <2>1, <2>2, <2>3, <2>4
<1>5. ASSUME NEW j \in Jobs, LaunchThrows(j) PROVE TypeOK'
  BY <1>5 DEF LaunchThrows, updateJob
<1>6. ASSUME NEW j \in Jobs, OnLateMessage(j) PROVE TypeOK'
  BY <1>6 DEF OnLateMessage
<1>7. ASSUME NEW j \in Jobs, OnComplete(j) PROVE TypeOK'
  BY <1>7 DEF OnComplete
<1>8. ASSUME NEW j \in Jobs, OnErrorMessage(j) PROVE TypeOK'
  BY <1>8 DEF OnErrorMessage, updateJob, releaseLockOnce
<1>9. ASSUME NEW j \in Jobs, OnSpawnError(j) PROVE TypeOK'
  BY <1>9 DEF OnSpawnError, updateJob, releaseLockOnce
<1>10. ASSUME NEW j \in Jobs, OnExit(j) PROVE TypeOK'
  <2>1. status' \in [Ids -> {"none", "cloning", "analyzing", "complete", "failed"}]
    BY <1>10, UpdateTypes DEF OnExit
  <2>2. holds' \in [Ids -> BOOLEAN] /\ active' \subseteq Repos
    BY <1>10, ReleaseTypes DEF OnExit
  <2>3. retryCount' \in [Jobs -> 0..MaxRetries]
    <3>1. retryCount[j] < MaxRetries => retryCount[j] + 1 \in 0..MaxRetries
      OBVIOUS
    <3> QED
      BY ZenonT(60), <1>10, <3>1 DEF OnExit
  <2>4. retryTimer' \in [Jobs -> BOOLEAN]
    BY <1>10 DEF OnExit
  <2> QED
    BY <1>10, <2>1, <2>2, <2>3, <2>4 DEF OnExit
<1>11. ASSUME NEW j \in Jobs, RetryFork(j) PROVE TypeOK'
  BY <1>11, ForkTypes DEF RetryFork
<1>12. ASSUME NEW j \in Jobs, Settled(j) PROVE TypeOK'
  BY <1>12 DEF Settled
<1>13. ASSUME NEW j \in Jobs, SettleTimesOut(j) PROVE TypeOK'
  BY <1>13 DEF SettleTimesOut, EndSettle, updateJob, releaseLockOnce
<1>14. ASSUME NEW j \in Jobs, RefuseCollapsed(j) PROVE TypeOK'
  BY <1>14 DEF RefuseCollapsed, EndSettle, updateJob, releaseLockOnce
<1>15. ASSUME NEW j \in Jobs, StartInit(j) PROVE TypeOK'
  BY <1>15 DEF StartInit
<1>16. ASSUME NEW j \in Jobs, InitSucceeds(j) PROVE TypeOK'
  BY <1>16 DEF InitSucceeds, EndSettle, updateJob, releaseLockOnce
<1>17. ASSUME NEW j \in Jobs, InitFails(j) PROVE TypeOK'
  BY <1>17 DEF InitFails, EndSettle, updateJob, releaseLockOnce
<1>18. ASSUME NEW j \in Jobs, NEW m \in Messages, WorkerReports(j, m) PROVE TypeOK'
  BY <1>18 DEF WorkerReports
<1>19. ASSUME NEW j \in Jobs, WorkerStrays(j) PROVE TypeOK'
  BY <1>19 DEF WorkerStrays
<1>20. ASSUME NEW j \in Jobs, WorkerExits(j) PROVE TypeOK'
  BY <1>20 DEF WorkerExits
<1>21. ASSUME NEW x \in Ids, cancelJob(x) PROVE TypeOK'
  BY <1>21 DEF cancelJob, jobVars
<1>22. ASSUME NEW e \in Embeds, NEW r \in Repos, StartEmbed(e, r) PROVE TypeOK'
  BY <1>22 DEF StartEmbed, jobVars
<1>23. ASSUME NEW e \in Embeds, NEW s \in {"complete", "failed"},
             EmbedEnds(e, s)
      PROVE  TypeOK'
  BY <1>23 DEF EmbedEnds, updateJob, releaseLockOnce, jobVars
<1>24. ASSUME NEW r \in Repos, EmbedRefused(r) PROVE TypeOK'
  BY <1>24 DEF EmbedRefused, jobVars
<1>25. ASSUME NEW r \in Repos, StartDelete(r) PROVE TypeOK'
  BY <1>25 DEF StartDelete, jobVars
<1>26. ASSUME NEW r \in Repos, EndDelete(r) PROVE TypeOK'
  BY <1>26 DEF EndDelete, jobVars
<1>27. CASE UNCHANGED vars
  BY <1>27 DEF vars, jobVars, lockVars, history
<1> QED
  BY ZenonT(60), <1>1, <1>2, <1>3, <1>4, <1>5, <1>6, <1>7, <1>8, <1>9, <1>10, <1>11, <1>12,
     <1>13, <1>14, <1>15, <1>16, <1>17, <1>18, <1>19, <1>20, <1>21, <1>22, <1>23,
     <1>24, <1>25, <1>26, <1>27
     DEF Next, PrepareStep, HandlerStep, WorkerStep, Cancel, JobTimeout, Ids
-----------------------------------------------------------------------------
(* The shared lock set.                                                    *)

\* Every lock has one holder, whose job exists and whose repository is not
\* being deleted, and every holder and every deletion is in the set.
Locks ==
  /\ HoldersListed
  /\ \A x, y \in Ids : holds[x] /\ holds[y] /\ target[x] = target[y] => x = y
  /\ \A x \in Ids : holds[x] => target[x] \notin deleting /\ status[x] # "none"

\* Every step keeps the bookkeeping of the locks.
LEMMA NextLocks ==
  ASSUME TypeOK, Locks, [Next]_vars
  PROVE  Locks'
<1> USE DEF TypeOK, Ids, jobVars, lockVars, history, Terminal, Running, Locks, HoldersListed
<1>1. ASSUME NEW j \in Jobs, NEW r \in Repos, CreateJob(j, r) PROVE Locks'
  BY <1>1 DEF CreateJob
<1>2. ASSUME NEW j \in Jobs, PrepareFails(j) PROVE Locks'
  BY <1>2 DEF PrepareFails, updateJob
<1>3. ASSUME NEW j \in Jobs, LaunchRefused(j) PROVE Locks'
  BY <1>3 DEF LaunchRefused, updateJob
<1>4. ASSUME NEW j \in Jobs, Launch(j) PROVE Locks'
  BY <1>4 DEF Launch, updateJob, forkWorker
<1>5. ASSUME NEW j \in Jobs, LaunchThrows(j) PROVE Locks'
  BY <1>5 DEF LaunchThrows, updateJob
<1>6. ASSUME NEW j \in Jobs, OnLateMessage(j) PROVE Locks'
  BY <1>6 DEF OnLateMessage
<1>7. ASSUME NEW j \in Jobs, OnComplete(j) PROVE Locks'
  BY <1>7 DEF OnComplete
<1>8. ASSUME NEW j \in Jobs, OnErrorMessage(j) PROVE Locks'
  BY <1>8 DEF OnErrorMessage, updateJob, releaseLockOnce
<1>9. ASSUME NEW j \in Jobs, OnSpawnError(j) PROVE Locks'
  BY <1>9 DEF OnSpawnError, updateJob, releaseLockOnce
<1>10. ASSUME NEW j \in Jobs, OnExit(j) PROVE Locks'
  <2>1. CASE UNCHANGED <<status, lockVars>>
    BY <1>10, <2>1 DEF OnExit
  <2>2. CASE releaseLockOnce(j) /\ updateJob(j, "failed")
    BY <1>10, <2>2 DEF OnExit, updateJob, releaseLockOnce
  <2> QED
    BY SMTT(30), <1>10, <2>1, <2>2 DEF OnExit
<1>11. ASSUME NEW j \in Jobs, RetryFork(j) PROVE Locks'
  BY <1>11 DEF RetryFork, forkWorker
<1>12. ASSUME NEW j \in Jobs, Settled(j) PROVE Locks'
  BY <1>12 DEF Settled
<1>13. ASSUME NEW j \in Jobs, SettleTimesOut(j) PROVE Locks'
  BY <1>13 DEF SettleTimesOut, EndSettle, updateJob, releaseLockOnce
<1>14. ASSUME NEW j \in Jobs, RefuseCollapsed(j) PROVE Locks'
  BY <1>14 DEF RefuseCollapsed, EndSettle, updateJob, releaseLockOnce
<1>15. ASSUME NEW j \in Jobs, StartInit(j) PROVE Locks'
  BY <1>15 DEF StartInit
<1>16. ASSUME NEW j \in Jobs, InitSucceeds(j) PROVE Locks'
  BY <1>16 DEF InitSucceeds, EndSettle, updateJob, releaseLockOnce
<1>17. ASSUME NEW j \in Jobs, InitFails(j) PROVE Locks'
  BY <1>17 DEF InitFails, EndSettle, updateJob, releaseLockOnce
<1>18. ASSUME NEW j \in Jobs, NEW m \in Messages, WorkerReports(j, m) PROVE Locks'
  BY <1>18 DEF WorkerReports
<1>19. ASSUME NEW j \in Jobs, WorkerStrays(j) PROVE Locks'
  BY <1>19 DEF WorkerStrays
<1>20. ASSUME NEW j \in Jobs, WorkerExits(j) PROVE Locks'
  BY <1>20 DEF WorkerExits
<1>21. ASSUME NEW x \in Ids, cancelJob(x) PROVE Locks'
  BY <1>21 DEF cancelJob, jobVars
<1>22. ASSUME NEW e \in Embeds, NEW r \in Repos, StartEmbed(e, r) PROVE Locks'
  BY <1>22 DEF StartEmbed, jobVars
<1>23. ASSUME NEW e \in Embeds, NEW s \in {"complete", "failed"},
             EmbedEnds(e, s)
      PROVE  Locks'
  BY <1>23 DEF EmbedEnds, updateJob, releaseLockOnce, jobVars
<1>24. ASSUME NEW r \in Repos, EmbedRefused(r) PROVE Locks'
  BY <1>24 DEF EmbedRefused, jobVars
<1>25. ASSUME NEW r \in Repos, StartDelete(r) PROVE Locks'
  BY <1>25 DEF StartDelete, jobVars
<1>26. ASSUME NEW r \in Repos, EndDelete(r) PROVE Locks'
  BY <1>26 DEF EndDelete, jobVars
<1>27. CASE UNCHANGED vars
  BY <1>27 DEF vars, jobVars, lockVars, history
<1> QED
  BY ZenonT(60), <1>1, <1>2, <1>3, <1>4, <1>5, <1>6, <1>7, <1>8, <1>9, <1>10, <1>11, <1>12,
     <1>13, <1>14, <1>15, <1>16, <1>17, <1>18, <1>19, <1>20, <1>21, <1>22, <1>23,
     <1>24, <1>25, <1>26, <1>27
     DEF Next, PrepareStep, HandlerStep, WorkerStep, Cancel, JobTimeout, Ids

-----------------------------------------------------------------------------
(* One job.                                                                *)

\* The messages that carry an outcome.
Outcomes(s) == {i \in 1..Len(s) : s[i] # "error"}

\* At most one message carries an outcome.
Single(s) == \A a, b \in Outcomes(s) : a = b

\* Where the outcome of a child may be: nowhere while it is to be forked or
\* works, then in one message, then with the finalization chain.
Chain(j) ==
  /\ status[j] = "none" => launch[j] = "none"
  /\ settle[j] # "none" =>
       /\ worker[j] \in {"none", "winding", "exited"} /\ ~retryTimer[j]
       /\ ipcSeen[j] /\ Outcomes(ipc[j]) = {}
  /\ worker[j] \in {"unspawned", "working", "stray"} \/ retryTimer[j] =>
       Outcomes(ipc[j]) = {}
  /\ retryTimer[j] => worker[j] = "none"
  /\ worker[j] \in {"none", "unspawned"} => ipc[j] = <<>>
  /\ Single(ipc[j])
  /\ launch[j] # "launched" =>
       worker[j] = "none" /\ settle[j] = "none" /\ ~retryTimer[j]

\* A launched job holds its repository until it has an outcome; while it does
\* and is not cancelled, something is left that will give the lock back.
Released(j) ==
  /\ launch[j] = "launched" => holds[j] \/ Terminal(j)
  /\ launch[j] # "launched" => ~holds[j] /\ (Terminal(j) => j \in cancelled)
  /\ holds[j] /\ j \notin cancelled =>
       /\ ~Terminal(j)
       /\ worker[j] # "none" \/ retryTimer[j] \/ settle[j] # "none"
       /\ ipcSeen[j] => settle[j] # "none"

\* What the finalization chain has decided.
Decided(j) ==
  /\ published[j] => Terminal(j) /\ ~collapsed[j]
  /\ settle[j] = "init" => ~collapsed[j]
  /\ status[j] = "complete" => published[j]

\* Without errors nobody caught a child sends one message, and sends it last.
Owned(j) ==
  /\ worker[j] # "stray"
  /\ worker[j] \in {"unspawned", "working"} => holds[j] /\ ipc[j] = <<>>
  /\ settle[j] # "none" => holds[j] /\ ipc[j] = <<>>
  /\ Len(ipc[j]) <= 1

JobInv(j) == Chain(j) /\ Released(j) /\ Decided(j) /\ (j \in strayed \/ Owned(j))

\* Reading a message.
LEMMA TailChain ==
  ASSUME NEW s \in Seq(Messages), s # <<>>, Single(s)
  PROVE  /\ Single(Tail(s))
         /\ Outcomes(s) = {} => Outcomes(Tail(s)) = {}
         /\ Head(s) # "error" => Outcomes(s) # {} /\ Outcomes(Tail(s)) = {}
         /\ Len(s) <= 1 => Tail(s) = <<>> /\ Len(Tail(s)) <= 1
<1>1. Len(s) \in Nat \ {0} /\ Len(Tail(s)) = Len(s) - 1
  OBVIOUS
<1>2. \A i \in 1..Len(Tail(s)) : i + 1 \in 1..Len(s) /\ Tail(s)[i] = s[i + 1]
  OBVIOUS
<1>3. \A i \in Outcomes(Tail(s)) : i \in Nat /\ i # 0 /\ i + 1 \in Outcomes(s)
  BY <1>1, <1>2 DEF Outcomes
<1>4. Head(s) # "error" => 1 \in Outcomes(s)
  BY <1>1 DEF Outcomes
<1>5. Single(Tail(s))
  BY <1>3 DEF Single
<1>6. Outcomes(s) = {} => Outcomes(Tail(s)) = {}
  BY <1>3
<1>7. Head(s) # "error" => Outcomes(s) # {} /\ Outcomes(Tail(s)) = {}
  BY <1>3, <1>4 DEF Single
<1>8. Len(s) <= 1 => Tail(s) = <<>> /\ Len(Tail(s)) <= 1
  BY <1>1
<1> QED
  BY <1>5, <1>6, <1>7, <1>8

\* Sending a message.
LEMMA AppendChain ==
  ASSUME NEW s \in Seq(Messages), NEW m \in Messages
  PROVE  /\ m = "error" => Outcomes(Append(s, m)) = Outcomes(s)
         /\ Outcomes(s) = {} => Single(Append(s, m))
         /\ s = <<>> => Len(Append(s, m)) <= 1
<1>1. Len(s) \in Nat /\ Len(Append(s, m)) = Len(s) + 1 /\ Append(s, m)[Len(s) + 1] = m
  OBVIOUS
<1>2. \A i \in 1..Len(s) : Append(s, m)[i] = s[i]
  OBVIOUS
<1>3. m = "error" => Outcomes(Append(s, m)) = Outcomes(s)
  BY <1>1, <1>2 DEF Outcomes
<1>4. Outcomes(s) = {} => Single(Append(s, m))
  BY <1>1, <1>2 DEF Outcomes, Single
<1> QED
  BY <1>1, <1>3, <1>4

\* No message, no outcome.
LEMMA NoOutcome == Outcomes(<<>>) = {} /\ Single(<<>>)
  BY DEF Outcomes, Single

\* What may happen to job j.
JobStep(j) ==
  \/ \E r \in Repos : CreateJob(j, r)
  \/ PrepareStep(j) \/ HandlerStep(j) \/ WorkerStep(j) \/ cancelJob(j)

\* Job k is where it was.
Kept(k) ==
  /\ status'[k] = status[k] /\ holds'[k] = holds[k] /\ launch'[k] = launch[k]
  /\ worker'[k] = worker[k] /\ ipc'[k] = ipc[k] /\ ipcSeen'[k] = ipcSeen[k]
  /\ retryTimer'[k] = retryTimer[k] /\ settle'[k] = settle[k]
  /\ collapsed'[k] = collapsed[k] /\ published'[k] = published[k]
  /\ k \in cancelled => k \in cancelled'
  /\ k \in cancelled' => k \in cancelled
  /\ k \in strayed => k \in strayed'
  /\ k \in strayed' => k \in strayed

\* Every other job is where it was.
OthersKept(j) == \A k \in Jobs \ {j} : Kept(k)

\* A step of job j touches no other job.
LEMMA JobStepKeepsOthers ==
  ASSUME TypeOK, NEW j \in Jobs, JobStep(j)
  PROVE  OthersKept(j)
<1> USE DEF TypeOK, Ids, lockVars, history, Terminal, Kept, OthersKept
<1>1. ASSUME NEW r \in Repos, CreateJob(j, r) PROVE OthersKept(j)
  BY <1>1 DEF CreateJob
<1>2. ASSUME PrepareFails(j) PROVE OthersKept(j)
  BY <1>2 DEF PrepareFails, updateJob
<1>3. ASSUME LaunchRefused(j) PROVE OthersKept(j)
  BY <1>3 DEF LaunchRefused, updateJob
<1>4. ASSUME Launch(j) PROVE OthersKept(j)
  BY <1>4 DEF Launch, updateJob, forkWorker
<1>5. ASSUME LaunchThrows(j) PROVE OthersKept(j)
  BY <1>5 DEF LaunchThrows, updateJob
<1>6. ASSUME OnLateMessage(j) PROVE OthersKept(j)
  BY <1>6 DEF OnLateMessage
<1>7. ASSUME OnComplete(j) PROVE OthersKept(j)
  BY <1>7 DEF OnComplete
<1>8. ASSUME OnErrorMessage(j) PROVE OthersKept(j)
  BY <1>8 DEF OnErrorMessage, updateJob, releaseLockOnce
<1>9. ASSUME OnSpawnError(j) PROVE OthersKept(j)
  BY <1>9 DEF OnSpawnError, updateJob, releaseLockOnce
<1>10. ASSUME OnExit(j) PROVE OthersKept(j)
  BY <1>10 DEF OnExit, updateJob, releaseLockOnce
<1>11. ASSUME RetryFork(j) PROVE OthersKept(j)
  BY <1>11 DEF RetryFork, forkWorker
<1>12. ASSUME Settled(j) PROVE OthersKept(j)
  BY <1>12 DEF Settled
<1>13. ASSUME SettleTimesOut(j) PROVE OthersKept(j)
  BY <1>13 DEF SettleTimesOut, EndSettle, updateJob, releaseLockOnce
<1>14. ASSUME RefuseCollapsed(j) PROVE OthersKept(j)
  BY <1>14 DEF RefuseCollapsed, EndSettle, updateJob, releaseLockOnce
<1>15. ASSUME StartInit(j) PROVE OthersKept(j)
  BY <1>15 DEF StartInit
<1>16. ASSUME InitSucceeds(j) PROVE OthersKept(j)
  BY <1>16 DEF InitSucceeds, EndSettle, updateJob, releaseLockOnce
<1>17. ASSUME InitFails(j) PROVE OthersKept(j)
  BY <1>17 DEF InitFails, EndSettle, updateJob, releaseLockOnce
<1>18. ASSUME NEW m \in Messages, WorkerReports(j, m) PROVE OthersKept(j)
  BY <1>18 DEF WorkerReports
<1>19. ASSUME WorkerStrays(j) PROVE OthersKept(j)
  BY <1>19 DEF WorkerStrays
<1>20. ASSUME WorkerExits(j) PROVE OthersKept(j)
  BY <1>20 DEF WorkerExits
<1>21. ASSUME cancelJob(j) PROVE OthersKept(j)
  BY <1>21 DEF cancelJob, jobVars, lockVars, history
<1> QED
  BY <1>1, <1>2, <1>3, <1>4, <1>5, <1>6, <1>7, <1>8, <1>9, <1>10, <1>11, <1>12,
     <1>13, <1>14, <1>15, <1>16, <1>17, <1>18, <1>19, <1>20, <1>21
     DEF JobStep, PrepareStep, HandlerStep, WorkerStep

\* A step of job j keeps what is known of j.
LEMMA JobStepKeepsInv ==
  ASSUME TypeOK, NEW j \in Jobs, JobInv(j), JobStep(j)
  PROVE  JobInv(j)'
<1> USE NoOutcome DEF TypeOK, Ids, lockVars, history, Terminal, Running, JobInv, Chain, Released,
                      Decided, Owned
<1>1. ASSUME NEW r \in Repos, CreateJob(j, r) PROVE JobInv(j)'
  BY <1>1 DEF CreateJob
<1>2. ASSUME PrepareFails(j) PROVE JobInv(j)'
  BY <1>2 DEF PrepareFails, updateJob
<1>3. ASSUME LaunchRefused(j) PROVE JobInv(j)'
  BY <1>3 DEF LaunchRefused, updateJob
<1>4. ASSUME Launch(j) PROVE JobInv(j)'
  BY <1>4 DEF Launch, updateJob, forkWorker
<1>5. ASSUME LaunchThrows(j) PROVE JobInv(j)'
  BY <1>5 DEF LaunchThrows, updateJob
<1>6. ASSUME OnLateMessage(j) PROVE JobInv(j)'
  <2>1. ipc[j] \in Seq(Messages) /\ ipc[j] # <<>> /\ ipc'[j] = Tail(ipc[j])
    BY <1>6 DEF OnLateMessage
  <2>2. /\ Single(ipc'[j])
        /\ Outcomes(ipc[j]) = {} => Outcomes(ipc'[j]) = {}
        /\ Len(ipc[j]) <= 1 => ipc'[j] = <<>> /\ Len(ipc'[j]) <= 1
    BY <2>1, TailChain
  <2> QED
    BY <1>6, <2>1, <2>2 DEF OnLateMessage
<1>7. ASSUME OnComplete(j) PROVE JobInv(j)'
  <2>1. ipc[j] \in Seq(Messages) /\ ipc[j] # <<>> /\ ipc'[j] = Tail(ipc[j])
    BY <1>7 DEF OnComplete
  <2>2. Outcomes(ipc[j]) # {} /\ Outcomes(ipc'[j]) = {}
    <3>1. Head(ipc[j]) # "error" /\ Single(ipc[j])
      BY <1>7 DEF OnComplete
    <3> QED
      BY <2>1, <3>1, TailChain
  <2>3. Len(ipc[j]) <= 1 => ipc'[j] = <<>> /\ Len(ipc'[j]) <= 1
    BY <2>1, TailChain
  <2>4. worker[j] \in {"winding", "exited"} /\ ~retryTimer[j] /\ launch[j] = "launched"
    BY <2>1, <2>2
  <2>5. Single(ipc'[j])
    BY <2>2 DEF Single
  <2>6. Chain(j)'
    BY <1>7, <2>1, <2>2, <2>3, <2>4, <2>5 DEF OnComplete
  <2>7. Released(j)'
    BY <1>7, <2>4 DEF OnComplete
  <2>8. Decided(j)'
    BY <1>7 DEF OnComplete
  <2>9. (j \in strayed \/ Owned(j))'
    BY <1>7, <2>1, <2>2, <2>3, <2>4 DEF OnComplete
  <2> QED
    BY <2>6, <2>7, <2>8, <2>9
<1>8. ASSUME OnErrorMessage(j) PROVE JobInv(j)'
  <2>1. ipc[j] \in Seq(Messages) /\ ipc[j] # <<>> /\ ipc'[j] = Tail(ipc[j])
    BY <1>8 DEF OnErrorMessage
  <2>2. /\ Single(ipc'[j])
        /\ Outcomes(ipc[j]) = {} => Outcomes(ipc'[j]) = {}
        /\ Len(ipc[j]) <= 1 => ipc'[j] = <<>> /\ Len(ipc'[j]) <= 1
    BY <2>1, TailChain
  <2>3. launch[j] = "launched" /\ worker[j] # "none"
    BY <2>1
  <2> QED
    BY <1>8, <2>1, <2>2, <2>3 DEF OnErrorMessage, updateJob, releaseLockOnce
<1>9. ASSUME OnSpawnError(j) PROVE JobInv(j)'
  <2>1. /\ worker[j] = "unspawned" /\ ipc[j] = <<>> /\ ~retryTimer[j]
        /\ settle[j] = "none" /\ launch[j] = "launched"
    BY <1>9 DEF OnSpawnError
  <2>2. /\ worker'[j] = "none" /\ ipc' = ipc /\ retryTimer' = retryTimer
        /\ settle' = settle /\ launch' = launch /\ history' = history
        /\ collapsed' = collapsed /\ published' = published /\ ipcSeen' = ipcSeen
    BY <1>9 DEF OnSpawnError
  <2>3. /\ holds'[j] = FALSE
        /\ status'[j] = IF Terminal(j) THEN status[j] ELSE "failed"
    BY <1>9 DEF OnSpawnError, updateJob, releaseLockOnce
  <2>4. Chain(j)'
    BY <2>1, <2>2, <2>3
  <2>5. Released(j)'
    BY <2>1, <2>2, <2>3
  <2>6. Decided(j)'
    BY <2>1, <2>2, <2>3
  <2>7. (j \in strayed \/ Owned(j))'
    BY <2>1, <2>2, <2>3
  <2> QED
    BY <2>4, <2>5, <2>6, <2>7
<1>10. ASSUME OnExit(j) PROVE JobInv(j)'
  BY <1>10 DEF OnExit, updateJob, releaseLockOnce
<1>11. ASSUME RetryFork(j) PROVE JobInv(j)'
  BY <1>11 DEF RetryFork, forkWorker
<1>12. ASSUME Settled(j) PROVE JobInv(j)'
  BY <1>12 DEF Settled
<1>13. ASSUME SettleTimesOut(j) PROVE JobInv(j)'
  BY <1>13 DEF SettleTimesOut, EndSettle, updateJob, releaseLockOnce
<1>14. ASSUME RefuseCollapsed(j) PROVE JobInv(j)'
  BY <1>14 DEF RefuseCollapsed, EndSettle, updateJob, releaseLockOnce
<1>15. ASSUME StartInit(j) PROVE JobInv(j)'
  BY <1>15 DEF StartInit
<1>16. ASSUME InitSucceeds(j) PROVE JobInv(j)'
  BY <1>16 DEF InitSucceeds, EndSettle, updateJob, releaseLockOnce
<1>17. ASSUME InitFails(j) PROVE JobInv(j)'
  BY <1>17 DEF InitFails, EndSettle, updateJob, releaseLockOnce
<1>18. ASSUME NEW m \in Messages, WorkerReports(j, m) PROVE JobInv(j)'
  <2>1. ipc[j] \in Seq(Messages) /\ ipc'[j] = Append(ipc[j], m) /\ Outcomes(ipc[j]) = {}
    BY <1>18 DEF WorkerReports
  <2>2. /\ Single(ipc'[j])
        /\ ipc[j] = <<>> => Len(ipc'[j]) <= 1
    BY <2>1, AppendChain
  <2>3. settle[j] = "none" /\ ~retryTimer[j] /\ launch[j] = "launched"
    BY <1>18 DEF WorkerReports
  <2> QED
    BY <1>18, <2>1, <2>2, <2>3 DEF WorkerReports
<1>19. ASSUME WorkerStrays(j) PROVE JobInv(j)'
  <2>1. ipc[j] \in Seq(Messages) /\ ipc'[j] = Append(ipc[j], "error") /\ j \in strayed'
    BY <1>19 DEF WorkerStrays
  <2>2. Outcomes(ipc'[j]) = Outcomes(ipc[j]) /\ Single(ipc'[j])
    <3>1. Outcomes(ipc'[j]) = Outcomes(ipc[j])
      BY <2>1, AppendChain DEF Messages
    <3> QED
      BY <3>1 DEF Single
  <2>3. ~retryTimer[j] /\ launch[j] = "launched"
    BY <1>19 DEF WorkerStrays
  <2> QED
    BY <1>19, <2>1, <2>2, <2>3 DEF WorkerStrays
<1>20. ASSUME WorkerExits(j) PROVE JobInv(j)'
  BY <1>20 DEF WorkerExits
<1>21. ASSUME cancelJob(j) PROVE JobInv(j)'
  BY <1>21 DEF cancelJob, jobVars, lockVars, history
<1> QED
  BY <1>1, <1>2, <1>3, <1>4, <1>5, <1>6, <1>7, <1>8, <1>9, <1>10, <1>11, <1>12,
     <1>13, <1>14, <1>15, <1>16, <1>17, <1>18, <1>19, <1>20, <1>21
     DEF JobStep, PrepareStep, HandlerStep, WorkerStep

\* What happens to a job that stays where it is.
LEMMA KeptKeepsInv ==
  ASSUME NEW k \in Jobs, JobInv(k), Kept(k)
  PROVE  JobInv(k)'
  BY DEF Kept, JobInv, Chain, Released, Decided, Owned, Terminal

\* The steps of embed jobs and of deletions.
OtherStep ==
  \/ \E e \in Embeds : \/ cancelJob(e)
                       \/ \E r \in Repos : StartEmbed(e, r)
                       \/ \E s \in {"complete", "failed"} : EmbedEnds(e, s)
  \/ \E r \in Repos : EmbedRefused(r) \/ StartDelete(r) \/ EndDelete(r)

\* Embed jobs and deletions touch no analyze job.
LEMMA OtherStepKeepsJobs ==
  ASSUME TypeOK, OtherStep
  PROVE  \A k \in Jobs : Kept(k)
<1> USE DEF TypeOK, Ids, jobVars, lockVars, history, Terminal, Kept
<1>1. ASSUME NEW e \in Embeds, cancelJob(e) PROVE \A k \in Jobs : Kept(k)
  BY <1>1 DEF cancelJob
<1>2. ASSUME NEW e \in Embeds, NEW r \in Repos, StartEmbed(e, r)
      PROVE  \A k \in Jobs : Kept(k)
  BY <1>2 DEF StartEmbed
<1>3. ASSUME NEW e \in Embeds, NEW s \in {"complete", "failed"},
             EmbedEnds(e, s)
      PROVE  \A k \in Jobs : Kept(k)
  BY ZenonT(60), <1>3 DEF EmbedEnds, updateJob, releaseLockOnce
<1>4. ASSUME NEW r \in Repos, EmbedRefused(r) PROVE \A k \in Jobs : Kept(k)
  BY <1>4 DEF EmbedRefused
<1>5. ASSUME NEW r \in Repos, StartDelete(r) PROVE \A k \in Jobs : Kept(k)
  BY <1>5 DEF StartDelete
<1>6. ASSUME NEW r \in Repos, EndDelete(r) PROVE \A k \in Jobs : Kept(k)
  BY <1>6 DEF EndDelete
<1> QED
  BY <1>1, <1>2, <1>3, <1>4, <1>5, <1>6 DEF OtherStep

\* What is known of every analyze job.
JobsInv == \A j \in Jobs : JobInv(j)

\* Before its creation nothing is left of a job.
LEMMA InitJobs == Init => JobsInv
<1> SUFFICES ASSUME Init, NEW j \in Jobs PROVE JobInv(j)
  BY DEF JobsInv
<1> QED
  BY NoOutcome DEF Init, Ids, JobInv, Chain, Released, Decided, Owned, Terminal

\* Every step keeps what is known of every job.
LEMMA NextJobs ==
  ASSUME TypeOK, JobsInv, [Next]_vars
  PROVE  JobsInv'
<1>1. ASSUME NEW j \in Jobs, JobStep(j) PROVE JobsInv'
  <2> SUFFICES ASSUME NEW k \in Jobs PROVE JobInv(k)'
    BY DEF JobsInv
  <2>1. CASE k = j
    BY <1>1, <2>1, JobStepKeepsInv DEF JobsInv
  <2>2. CASE k # j
    <3>1. OthersKept(j)
      BY <1>1, JobStepKeepsOthers
    <3>2. Kept(k)
      BY <2>2, <3>1 DEF OthersKept
    <3> QED
      BY <3>2, KeptKeepsInv DEF JobsInv
  <2> QED
    BY <2>1, <2>2
<1>2. ASSUME OtherStep PROVE JobsInv'
  BY <1>2, OtherStepKeepsJobs, KeptKeepsInv DEF JobsInv
<1>3. CASE UNCHANGED vars
  BY <1>3, KeptKeepsInv DEF JobsInv, Kept, vars, jobVars, lockVars, history
<1>4. Next => OtherStep \/ \E j \in Jobs : JobStep(j)
  BY DEF Next, OtherStep, JobStep, Cancel, JobTimeout, Ids
<1> QED
  BY <1>1, <1>2, <1>3, <1>4

-----------------------------------------------------------------------------
(* The theorems.                                                           *)

\* Every variable keeps its type; in particular the crash handler (OnExit)
\* never retries a job more than MaxRetries times.
THEOREM TypeCorrect == Spec => []TypeOK
<1>1. Init => TypeOK
  BY DEF Init, TypeOK, Ids, Messages
<1> QED
  BY <1>1, NextTypes, PTL DEF Spec

\* The bookkeeping of the locks is an invariant.
LEMMA LocksHold == Spec => []Locks
<1>1. Init => Locks
  BY DEF Init, Locks, HoldersListed, Ids
<1>2. TypeOK /\ Locks /\ [Next]_vars => Locks'
  BY NextLocks
<1> QED
  BY <1>1, <1>2, TypeCorrect, PTL DEF Spec

\* What is known of every job is an invariant.
LEMMA JobsHold == Spec => []JobsInv
<1>1. TypeOK /\ JobsInv /\ [Next]_vars => JobsInv'
  BY NextJobs
<1> QED
  BY <1>1, InitJobs, TypeCorrect, PTL DEF Spec

\* releaseLockOnce never takes away the lock of another job.
THEOREM HoldersListedHolds == Spec => []HoldersListed
<1>1. Locks => HoldersListed
  BY DEF Locks
<1> QED
  BY <1>1, LocksHold, PTL

\* A launch that is over and was not cancelled has given its lock back.
THEOREM ReleasedUnlessCancelledHolds == Spec => []ReleasedUnlessCancelled
<1>1. JobsInv => ReleasedUnlessCancelled
  BY DEF JobsInv, JobInv, Released, ReleasedUnlessCancelled, Quiet
<1> QED
  BY <1>1, JobsHold, PTL

\* A child whose complete message was read is not replaced by another one.
THEOREM NoRetryOfASuccessHolds == Spec => []NoRetryOfASuccess
<1>1. JobsInv => NoRetryOfASuccess
  BY DEF JobsInv, JobInv, Chain, NoRetryOfASuccess
<1> QED
  BY <1>1, JobsHold, PTL

\* complete means published, and a collapsed index never is.
THEOREM PublishDecisionHolds == Spec => []PublishDecision
<1>1. JobsInv => PublishDecision
  BY DEF JobsInv, JobInv, Decided, PublishDecision
<1> QED
  BY <1>1, JobsHold, PTL

\* No two of analyze, embed and delete are at work on one repository, cancelled
\* or not, but for jobs whose worker reported an error and went on: those are
\* left out of NoOverlap.
THEOREM NoOverlapHolds == Spec => []NoOverlap
<1>1. TypeOK /\ Locks /\ JobsInv => NoOverlap
  <2> SUFFICES ASSUME TypeOK, Locks, JobsInv PROVE NoOverlap
    OBVIOUS
  <2>1. \A x \in Ids \ strayed : Uses(x) => holds[x]
    BY DEF JobsInv, JobInv, Owned, Uses, Ids
  <2> QED
    BY <2>1 DEF Locks, NoOverlap
<1> QED
  BY <1>1, TypeCorrect, LocksHold, JobsHold, PTL

-----------------------------------------------------------------------------
(***************************************************************************)
(* The circuit breaker, for any set of concurrent callers, any failure     *)
(* threshold and any number of attempts per call.                          *)
(***************************************************************************)
USE BreakerAssumption

\* A call that sleeps has an attempt left.
SleepsWithAttemptLeft ==
  \A c \in Callers : pc[c] = "sleeping" => attempt[c] < maxAttempts

\* StateAgrees and PermitHasAProbe are inductive once the types are known;
\* the types need the bound on attempts.
BreakerInv == BreakerTypeOK /\ SleepsWithAttemptLeft /\ StateAgrees /\ PermitHasAProbe

\* The counters may start at nought.
LEMMA Zeros == 0 \in 0..failureThreshold /\ 0 \in 0..maxAttempts
  OBVIOUS

\* A new breaker, with no call out.
LEMMA BreakerInitInv == BreakerInit => BreakerInv
<1> SUFFICES ASSUME BreakerInit PROVE BreakerInv
  OBVIOUS
<1>1. BreakerTypeOK
  BY Zeros DEF BreakerInit, BreakerTypeOK
<1>2. SleepsWithAttemptLeft
  BY DEF BreakerInit, SleepsWithAttemptLeft
<1>3. 0 < failureThreshold
  OBVIOUS
<1>4. StateAgrees
  BY <1>3 DEF BreakerInit, StateAgrees
<1>5. PermitHasAProbe
  BY DEF BreakerInit, PermitHasAProbe
<1> QED
  BY <1>1, <1>2, <1>4, <1>5 DEF BreakerInv

-----------------------------------------------------------------------------
(* The operations of the breaker, whoever calls them.                      *)

\* A success closes the breaker and forgets the failures.
LEMMA SuccessAgrees ==
  ASSUME recordSuccess
  PROVE  /\ StateAgrees' /\ ~probeInFlight'
         /\ state' = "closed" /\ failures' = 0 /\ cooldown' = "null"
  BY DEF recordSuccess, StateAgrees

\* A failure trips the breaker exactly when the count reaches the threshold,
\* and trips it again out of half-open, where the count is there already.
LEMMA FailureAgrees ==
  ASSUME BreakerTypeOK, StateAgrees, recordFailure
  PROVE  /\ StateAgrees' /\ ~probeInFlight'
         /\ state' \in {"closed", "open"}
         /\ failures' \in 0..failureThreshold
         /\ cooldown' \in {"null", "running", "over"}
<1>1. failures \in 0..failureThreshold /\ failureThreshold \in Nat \ {0}
  BY DEF BreakerTypeOK
<1>2. failures' \in 0..failureThreshold
  BY <1>1 DEF recordFailure
<1>3. CASE state = "half-open" \/ failures' >= failureThreshold
  <2>1. failures' = failureThreshold
    BY <1>1, <1>3 DEF recordFailure, StateAgrees
  <2> QED
    BY <1>1, <1>3, <2>1 DEF recordFailure, StateAgrees
<1>4. CASE ~(state = "half-open" \/ failures' >= failureThreshold)
  <2>1. failures < failureThreshold /\ failures' < failureThreshold
    BY <1>1, <1>2, <1>4 DEF recordFailure
  <2> QED
    BY <1>1, <1>2, <1>4, <2>1 DEF recordFailure, StateAgrees, BreakerTypeOK
<1> QED
  BY <1>3, <1>4

\* A neutral answer changes the permit only.
LEMMA NeutralAgrees ==
  ASSUME StateAgrees, recordNeutral
  PROVE  /\ StateAgrees' /\ ~probeInFlight'
         /\ UNCHANGED <<state, failures, cooldown>>
  BY DEF recordNeutral, StateAgrees

-----------------------------------------------------------------------------
\* A call that is over leaves the types of the callers.
LEMMA LeaveTypes ==
  ASSUME BreakerTypeOK, SleepsWithAttemptLeft, NEW c \in Callers, Leave(c)
  PROVE  /\ pc' \in [Callers -> {"idle", "fetching", "sleeping"}]
         /\ attempt' \in [Callers -> 0..maxAttempts]
         /\ probe' \subseteq Callers
         /\ SleepsWithAttemptLeft'
  BY DEF BreakerTypeOK, SleepsWithAttemptLeft, Leave

\* Every step keeps the types and the attempt bound.
LEMMA BreakerTypes ==
  ASSUME BreakerInv, [BreakerNext]_callVars
  PROVE  BreakerTypeOK' /\ SleepsWithAttemptLeft'
<1> USE DEF BreakerInv, BreakerTypeOK, SleepsWithAttemptLeft
<1>1. ASSUME NEW c \in Callers, CheckRejects(c) PROVE BreakerTypeOK' /\ SleepsWithAttemptLeft'
  BY <1>1 DEF CheckRejects
<1>2. ASSUME NEW c \in Callers, CheckClosed(c) PROVE BreakerTypeOK' /\ SleepsWithAttemptLeft'
  BY <1>2 DEF CheckClosed, Admit, breakerVars
<1>3. ASSUME NEW c \in Callers, CheckProbe(c) PROVE BreakerTypeOK' /\ SleepsWithAttemptLeft'
  BY <1>3 DEF CheckProbe, Admit
<1>4. ASSUME NEW c \in Callers, Success(c) PROVE BreakerTypeOK' /\ SleepsWithAttemptLeft'
  <2>1. Leave(c) /\ recordSuccess
    BY <1>4 DEF Success
  <2> QED
    BY <2>1, LeaveTypes, Zeros DEF recordSuccess
<1>5. ASSUME NEW c \in Callers, Neutral(c) PROVE BreakerTypeOK' /\ SleepsWithAttemptLeft'
  <2>1. Leave(c) /\ recordNeutral
    BY <1>5 DEF Neutral
  <2> QED
    BY <2>1, LeaveTypes DEF recordNeutral
<1>6. ASSUME NEW c \in Callers, Exhausted(c) PROVE BreakerTypeOK' /\ SleepsWithAttemptLeft'
  <2>1. Leave(c) /\ recordFailure
    BY <1>6 DEF Exhausted
  <2>2. probeInFlight' = FALSE
    BY <2>1 DEF recordFailure
  <2> QED
    BY <2>1, <2>2, LeaveTypes, FailureAgrees
<1>7. ASSUME NEW c \in Callers, Backoff(c) PROVE BreakerTypeOK' /\ SleepsWithAttemptLeft'
  BY <1>7 DEF Backoff, breakerVars
<1>8. ASSUME NEW c \in Callers, Retry(c) PROVE BreakerTypeOK' /\ SleepsWithAttemptLeft'
  BY <1>8 DEF Retry, breakerVars
<1>9. CASE CooldownEnds
  BY <1>9 DEF CooldownEnds
<1>10. CASE UNCHANGED callVars
  BY <1>10 DEF callVars, breakerVars
<1> QED
  BY <1>1, <1>2, <1>3, <1>4, <1>5, <1>6, <1>7, <1>8, <1>9, <1>10 DEF BreakerNext, Answer

\* Every step keeps the stored state, the count and the trip time together.
LEMMA NextAgrees ==
  ASSUME BreakerInv, [BreakerNext]_callVars
  PROVE  StateAgrees'
<1> USE DEF BreakerInv
<1>1. ASSUME NEW c \in Callers, CheckRejects(c) PROVE StateAgrees'
  BY <1>1 DEF CheckRejects, StateAgrees
<1>2. ASSUME NEW c \in Callers, CheckClosed(c) PROVE StateAgrees'
  BY <1>2 DEF CheckClosed, breakerVars, StateAgrees
<1>3. ASSUME NEW c \in Callers, CheckProbe(c) PROVE StateAgrees'
  BY <1>3 DEF CheckProbe, StateAgrees
<1>4. ASSUME NEW c \in Callers, Success(c) \/ Neutral(c) \/ Exhausted(c) PROVE StateAgrees'
  BY <1>4, SuccessAgrees, NeutralAgrees, FailureAgrees DEF Success, Neutral, Exhausted
<1>5. ASSUME NEW c \in Callers, Backoff(c) \/ Retry(c) PROVE StateAgrees'
  BY <1>5 DEF Backoff, Retry, breakerVars, StateAgrees
<1>6. CASE CooldownEnds
  BY <1>6 DEF CooldownEnds, StateAgrees
<1>7. CASE UNCHANGED callVars
  BY <1>7 DEF callVars, breakerVars, StateAgrees
<1> QED
  BY <1>1, <1>2, <1>3, <1>4, <1>5, <1>6, <1>7 DEF BreakerNext, Answer

\* Every step either returns the permit or leaves a probe that will.
LEMMA NextPermit ==
  ASSUME BreakerInv, [BreakerNext]_callVars
  PROVE  PermitHasAProbe'
<1> USE DEF BreakerInv, BreakerTypeOK
<1>1. ASSUME NEW c \in Callers, CheckRejects(c) PROVE PermitHasAProbe'
  BY <1>1 DEF CheckRejects, PermitHasAProbe
<1>2. ASSUME NEW c \in Callers, CheckClosed(c) PROVE PermitHasAProbe'
  BY <1>2 DEF CheckClosed, Admit, breakerVars, PermitHasAProbe
<1>3. ASSUME NEW c \in Callers, CheckProbe(c) PROVE PermitHasAProbe'
  BY <1>3 DEF CheckProbe, Admit, PermitHasAProbe
<1>4. ASSUME NEW c \in Callers, Success(c) \/ Neutral(c) \/ Exhausted(c) PROVE PermitHasAProbe'
  BY <1>4, SuccessAgrees, NeutralAgrees, FailureAgrees
     DEF Success, Neutral, Exhausted, PermitHasAProbe
<1>5. ASSUME NEW c \in Callers, Backoff(c) \/ Retry(c) PROVE PermitHasAProbe'
  BY <1>5 DEF Backoff, Retry, breakerVars, PermitHasAProbe
<1>6. CASE CooldownEnds
  BY <1>6 DEF CooldownEnds, PermitHasAProbe
<1>7. CASE UNCHANGED callVars
  BY <1>7 DEF callVars, breakerVars, PermitHasAProbe
<1> QED
  BY <1>1, <1>2, <1>3, <1>4, <1>5, <1>6, <1>7 DEF BreakerNext, Answer

\* The invariant holds in every reachable state.
LEMMA BreakerInvHolds == BreakerSpec => []BreakerInv
<1>1. BreakerInv /\ [BreakerNext]_callVars => BreakerInv'
  BY BreakerTypes, NextAgrees, NextPermit DEF BreakerInv
<1> QED
  BY <1>1, BreakerInitInv, PTL DEF BreakerSpec

\* The types of the breaker and of the calls (circuit-breaker.ts:103-129);
\* in particular no call makes more than maxAttempts attempts.
THEOREM BreakerTypeCorrect == BreakerSpec => []BreakerTypeOK
<1>1. BreakerInv => BreakerTypeOK
  BY DEF BreakerInv
<1> QED
  BY <1>1, BreakerInvHolds, PTL

\* State, failure count and trip time agree after any interleaving of late
\* answers (circuit-breaker.ts:152-212).
THEOREM StateAgreesHolds == BreakerSpec => []StateAgrees
<1>1. BreakerInv => StateAgrees
  BY DEF BreakerInv
<1> QED
  BY <1>1, BreakerInvHolds, PTL

\* The half-open permit is never out without a probe that will return it
\* (circuit-breaker.ts:28-33).
THEOREM PermitHasAProbeHolds == BreakerSpec => []PermitHasAProbe
<1>1. BreakerInv => PermitHasAProbe
  BY DEF BreakerInv
<1> QED
  BY <1>1, BreakerInvHolds, PTL

=============================================================================
