------------------------- MODULE IndexLockFileProofs -------------------------
(***************************************************************************)
(* Proofs about the file backend of the index lock, for any set of         *)
(* processes and hosts, any combination of failing file operations and any *)
(* number of attempts, crashes and restarts.                               *)
(***************************************************************************)
EXTENDS IndexLockFile, TLAPS

USE ConstantsAssumption, NoFileAssumption

-----------------------------------------------------------------------------
(* The inductive invariant.                                                *)

\* Whoever is in the guarded section created the guard that is on disk.
GuardMine ==
  \A p \in Procs : pc[p] \in Guarded => guard # NoFile /\ guard.rec = Mine(p)

\* Points at which the record p created is complete and still on disk.
Recorded(p) ==
  \/ pc[p] \in Owning \cup {"catchUnlink", "undoUnlink"}
  \/ pc[p] \in {"guardRead", "guardUnlink"} /\ after[p] = "hold"

\* What p knows about analyze.lock at each point of the protocol.
MainKnown ==
  \A p \in Procs :
    /\ pc[p] = "writeMain" => lock = Created(p)
    /\ pc[p] \in {"verifyMain", "catchRead"} => lock # NoFile /\ lock.rec = Mine(p)
    /\ Recorded(p) => HasToken(lock, p)

\* The process that created f is gone, or its pid names another one now.
Gone(f) == pc[f.rec.pid] = "dead" \/ inc[f.rec.pid] # f.rec.start

\* What a reclaim is about to unlink.
ReclaimKnown ==
  \A p \in Procs :
    /\ pc[p] = "unlinkStale" => Readable(lock) /\ Gone(lock)
    /\ pc[p] = "unlinkMalformed" => lock # NoFile /\ ~lock.written

\* No file is younger than the incarnation of its pid.
NotFromFuture == lock # NoFile => lock.rec.start <= inc[lock.rec.pid]

\* The inductive invariant.
Inv == TypeOK /\ GuardMine /\ MainKnown /\ ReclaimKnown /\ NotFromFuture

-----------------------------------------------------------------------------
(* Typing.                                                                 *)

\* The files a create and a write leave are files, and a write keeps the creator.
LEMMA FilledType ==
  ASSUME TypeOK, NEW p \in Procs, NEW f \in Files \cup {NoFile}
  PROVE  /\ Created(p) \in Files
         /\ Filled(f, p) \in Files \cup {NoFile}
         /\ f # NoFile => Filled(f, p) # NoFile /\ Filled(f, p).rec = f.rec
<1>1. Mine(p) \in Records
  BY DEF TypeOK, Records, Mine
<1>2. Created(p) \in Files /\ [rec |-> Mine(p), written |-> TRUE] \in Files
  BY <1>1 DEF Created, Files
<1>3. CASE f = Created(p)
  BY <1>2, <1>3 DEF Filled, Created
<1>4. CASE f # Created(p)
  BY <1>2, <1>4 DEF Filled
<1> QED
  BY <1>2, <1>3, <1>4

\* No step of the code leaves the types.
LEMMA StepTypes ==
  ASSUME TypeOK, NEW p \in Procs, Step(p)
  PROVE  TypeOK'
<1> USE DEF TypeOK, Goto, Conclude, Files, Records,
            Points, Outside, Guarded, Undoing, Owning, Verdicts, Timers, UnlinkMain
<1>1. CASE PermissionGiveUp(p)
  BY <1>1 DEF PermissionGiveUp
<1>2. CASE OpenGuard(p)
  <2>1. Created(p) \in Files
    BY FilledType
  <2> QED
    BY <1>2, <2>1 DEF OpenGuard, Clock
<1>3. CASE GuardBlocked(p)
  BY SMTT(30), <1>3 DEF GuardBlocked, Clock
<1>4. CASE OpenDenied(p)
  BY <1>4 DEF OpenDenied
<1>5. CASE LstatLock(p)
  BY <1>5 DEF LstatLock
<1>6. CASE LstatGuard(p)
  BY <1>6 DEF LstatGuard
<1>7. CASE RefuseLockFree(p)
  BY <1>7 DEF RefuseLockFree
<1>8. CASE WriteGuard(p)
  <2>1. Filled(guard, p) \in Files \cup {NoFile}
    BY FilledType
  <2>2. /\ guard' \in {guard, Filled(guard, p)}
        /\ pc' = [pc EXCEPT ![p] = "readMain"] \/ pc' = [pc EXCEPT ![p] = "guardRead"]
        /\ after' = after \/ after' = [after EXCEPT ![p] = "fail"]
        /\ UNCHANGED <<lock, attempt, inc, timer, staging>>
    BY SMTT(30), <1>8 DEF WriteGuard
  <2>3. pc' \in [Procs -> Points]
    BY <2>2
  <2>4. after' \in [Procs -> Verdicts]
    BY <2>2
  <2> QED
    BY <2>1, <2>2, <2>3, <2>4
<1>9. CASE InspectNoRecord(p)
  BY <1>9 DEF InspectNoRecord
<1>10. CASE InspectStale(p)
  BY <1>10 DEF InspectStale, Clock
<1>11. CASE InspectLive(p)
  BY <1>11 DEF InspectLive, Clock
<1>12. CASE UnlinkStale(p)
  BY <1>12 DEF UnlinkStale
<1>13. CASE CreateMain(p)
  <2>1. Created(p) \in Files
    BY FilledType
  <2> QED
    BY <1>13, <2>1 DEF CreateMain
<1>14. CASE CreateConflict(p)
  <2>1. timer' \in [Procs -> [Timers -> {"off", "running", "over"}]]
    BY <1>14 DEF CreateConflict, Clock
  <2> QED
    BY <1>14, <2>1 DEF CreateConflict
<1>15. CASE UnlinkMalformed(p)
  BY <1>15 DEF UnlinkMalformed, Clock
<1>16. CASE MainPending(p)
  BY <1>16 DEF MainPending, Clock, Inspecting
<1>17. CASE MainError(p)
  BY <1>17 DEF MainError, Inspecting
<1>18. CASE WriteMain(p)
  <2>1. Filled(lock, p) \in Files \cup {NoFile}
    BY FilledType
  <2> QED
    BY <1>18, <2>1 DEF WriteMain
<1>19. CASE VerifyMain(p) \/ RereadError(p)
  BY <1>19 DEF VerifyMain, RereadError
<1>20. CASE CatchRead(p)
  BY <1>20 DEF CatchRead
<1>21. CASE CatchUnlink(p)
  BY <1>21 DEF CatchUnlink
<1>22. CASE GuardRead(p)
  BY <1>22 DEF GuardRead
<1>23. CASE GuardUnlink(p)
  BY <1>23 DEF GuardUnlink, Resume
<1>24. CASE GuardUnlinkError(p)
  BY <1>24 DEF GuardUnlinkError
<1>25. CASE UndoRead(p)
  BY <1>25 DEF UndoRead
<1>26. CASE UndoUnlink(p)
  BY <1>26 DEF UndoUnlink
<1>27. CASE sweepStagingArtifacts(p)
  BY <1>27 DEF sweepStagingArtifacts
<1>28. CASE Publish(p)
  BY <1>28 DEF Publish
<1>29. CASE Release(p)
  BY <1>29 DEF Release
<1>30. CASE ReleaseRead(p)
  BY <1>30 DEF ReleaseRead
<1>31. CASE ReleaseUnlink(p)
  BY <1>31 DEF ReleaseUnlink
<1> QED
  BY <1>1, <1>2, <1>3, <1>4, <1>5, <1>6, <1>7, <1>8, <1>9, <1>10, <1>11, <1>12,
     <1>13, <1>14, <1>15, <1>16, <1>17, <1>18, <1>19, <1>20, <1>21, <1>22,
     <1>23, <1>24, <1>25, <1>26, <1>27, <1>28, <1>29, <1>30, <1>31 DEF Step

\* Nor does any other step: the type invariant is inductive on its own.
LEMMA TypeInductive == TypeOK /\ [Next]_vars => TypeOK'
<1> SUFFICES ASSUME TypeOK, [Next]_vars PROVE TypeOK'
  OBVIOUS
<1> USE DEF TypeOK
<1>1. ASSUME NEW p \in Procs, Begin(p) PROVE TypeOK'
  BY <1>1 DEF Begin, Goto, Points, Outside, Timers
<1>2. ASSUME NEW p \in Procs, Stage(p) PROVE TypeOK'
  BY <1>2 DEF Stage, Goto, Points, Owning
<1>3. ASSUME NEW p \in Procs, Crash(p) PROVE TypeOK'
  BY <1>3 DEF Crash, Goto, Points, Outside, Verdicts, Timers
<1>4. ASSUME NEW p \in Procs, Restart(p) PROVE TypeOK'
  BY <1>4 DEF Restart, Goto, Points, Outside
<1>5. ASSUME NEW p \in Procs, NEW t \in Timers, Expire(p, t) PROVE TypeOK'
  BY <1>5 DEF Expire
<1>6. CASE Recover
  BY <1>6 DEF Recover
<1>7. CASE UNCHANGED vars
  BY <1>7 DEF vars
<1> QED
  BY <1>1, <1>2, <1>3, <1>4, <1>5, <1>6, <1>7, StepTypes DEF Next

(* The type invariant holds in every reachable state.                      *)
THEOREM TypeCorrect == Spec => []TypeOK
<1>1. Init => TypeOK
  BY DEF Init, TypeOK, Points, Outside, Verdicts
<1> QED
  BY <1>1, TypeInductive, PTL DEF Spec

-----------------------------------------------------------------------------
(* What one step of the code may do to the state it shares.                *)

\* It moves only its own control point, and keeps its own token.
LEMMA StepFrame ==
  ASSUME TypeOK, NEW p \in Procs, Step(p)
  PROVE  /\ attempt' = attempt /\ inc' = inc
         /\ pc[p] # "dead" /\ pc'[p] # "dead"
         /\ \A q \in Procs \ {p} : pc'[q] = pc[q] /\ after'[q] = after[q]
<1> USE DEF TypeOK, Goto, Conclude, Inspecting
<1>1. CASE PermissionGiveUp(p)
  BY <1>1 DEF PermissionGiveUp
<1>2. CASE OpenGuard(p)
  BY <1>2 DEF OpenGuard
<1>3. CASE GuardBlocked(p)
  BY <1>3 DEF GuardBlocked
<1>4. CASE OpenDenied(p)
  BY <1>4 DEF OpenDenied
<1>5. CASE LstatLock(p)
  BY <1>5 DEF LstatLock
<1>6. CASE LstatGuard(p)
  BY <1>6 DEF LstatGuard
<1>7. CASE RefuseLockFree(p)
  BY <1>7 DEF RefuseLockFree
<1>8. CASE WriteGuard(p)
  BY <1>8 DEF WriteGuard
<1>9. CASE InspectNoRecord(p)
  BY <1>9 DEF InspectNoRecord
<1>10. CASE InspectStale(p)
  BY <1>10 DEF InspectStale
<1>11. CASE InspectLive(p)
  BY <1>11 DEF InspectLive
<1>12. CASE UnlinkStale(p)
  BY <1>12 DEF UnlinkStale
<1>13. CASE CreateMain(p)
  BY <1>13 DEF CreateMain
<1>14. CASE CreateConflict(p)
  BY <1>14 DEF CreateConflict
<1>15. CASE UnlinkMalformed(p)
  BY <1>15 DEF UnlinkMalformed
<1>16. CASE MainPending(p)
  BY <1>16 DEF MainPending
<1>17. CASE MainError(p)
  BY <1>17 DEF MainError
<1>18. CASE WriteMain(p)
  BY <1>18 DEF WriteMain
<1>19. CASE VerifyMain(p) \/ RereadError(p)
  BY <1>19 DEF VerifyMain, RereadError
<1>20. CASE CatchRead(p)
  BY <1>20 DEF CatchRead
<1>21. CASE CatchUnlink(p)
  BY <1>21 DEF CatchUnlink
<1>22. CASE GuardRead(p)
  BY <1>22 DEF GuardRead
<1>23. CASE GuardUnlink(p)
  BY <1>23 DEF GuardUnlink, Resume
<1>24. CASE GuardUnlinkError(p)
  BY <1>24 DEF GuardUnlinkError
<1>25. CASE UndoRead(p)
  BY <1>25 DEF UndoRead
<1>26. CASE UndoUnlink(p)
  BY <1>26 DEF UndoUnlink
<1>27. CASE sweepStagingArtifacts(p)
  BY <1>27 DEF sweepStagingArtifacts
<1>28. CASE Publish(p)
  BY <1>28 DEF Publish
<1>29. CASE Release(p)
  BY <1>29 DEF Release
<1>30. CASE ReleaseRead(p)
  BY <1>30 DEF ReleaseRead
<1>31. CASE ReleaseUnlink(p)
  BY <1>31 DEF ReleaseUnlink
<1> QED
  BY <1>1, <1>2, <1>3, <1>4, <1>5, <1>6, <1>7, <1>8, <1>9, <1>10, <1>11, <1>12,
     <1>13, <1>14, <1>15, <1>16, <1>17, <1>18, <1>19, <1>20, <1>21, <1>22,
     <1>23, <1>24, <1>25, <1>26, <1>27, <1>28, <1>29, <1>30, <1>31 DEF Step

\* It creates the guard only where there is none, and only the guarded section
\* writes or removes it.
LEMMA StepGuard ==
  ASSUME TypeOK, NEW p \in Procs, Step(p)
  PROVE  \/ guard' = guard /\ (pc'[p] \in Guarded => pc[p] \in Guarded)
         \/ guard = NoFile /\ guard' = Created(p)
         \/ pc[p] \in Guarded /\ guard' = Filled(guard, p)
         \/ pc[p] = "guardUnlink" /\ guard' = NoFile /\ pc'[p] \notin Guarded
<1> USE DEF TypeOK, Goto, Conclude, Inspecting, Guarded
<1>1. CASE PermissionGiveUp(p)
  BY <1>1 DEF PermissionGiveUp
<1>2. CASE OpenGuard(p)
  BY <1>2 DEF OpenGuard
<1>3. CASE GuardBlocked(p)
  BY <1>3 DEF GuardBlocked
<1>4. CASE OpenDenied(p)
  BY <1>4 DEF OpenDenied
<1>5. CASE LstatLock(p)
  BY <1>5 DEF LstatLock
<1>6. CASE LstatGuard(p)
  BY <1>6 DEF LstatGuard
<1>7. CASE RefuseLockFree(p)
  BY <1>7 DEF RefuseLockFree
<1>8. CASE WriteGuard(p)
  BY <1>8 DEF WriteGuard
<1>9. CASE InspectNoRecord(p)
  BY <1>9 DEF InspectNoRecord
<1>10. CASE InspectStale(p)
  BY <1>10 DEF InspectStale
<1>11. CASE InspectLive(p)
  BY <1>11 DEF InspectLive
<1>12. CASE UnlinkStale(p)
  BY <1>12 DEF UnlinkStale
<1>13. CASE CreateMain(p)
  BY <1>13 DEF CreateMain
<1>14. CASE CreateConflict(p)
  BY <1>14 DEF CreateConflict
<1>15. CASE UnlinkMalformed(p)
  BY <1>15 DEF UnlinkMalformed
<1>16. CASE MainPending(p)
  BY <1>16 DEF MainPending
<1>17. CASE MainError(p)
  BY <1>17 DEF MainError
<1>18. CASE WriteMain(p)
  BY <1>18 DEF WriteMain
<1>19. CASE VerifyMain(p) \/ RereadError(p)
  BY <1>19 DEF VerifyMain, RereadError
<1>20. CASE CatchRead(p)
  BY <1>20 DEF CatchRead
<1>21. CASE CatchUnlink(p)
  BY <1>21 DEF CatchUnlink
<1>22. CASE GuardRead(p)
  BY <1>22 DEF GuardRead
<1>23. CASE GuardUnlink(p)
  BY <1>23 DEF GuardUnlink, Resume
<1>24. CASE GuardUnlinkError(p)
  BY <1>24 DEF GuardUnlinkError
<1>25. CASE UndoRead(p)
  BY <1>25 DEF UndoRead
<1>26. CASE UndoUnlink(p)
  BY <1>26 DEF UndoUnlink
<1>27. CASE sweepStagingArtifacts(p)
  BY <1>27 DEF sweepStagingArtifacts
<1>28. CASE Publish(p)
  BY <1>28 DEF Publish
<1>29. CASE Release(p)
  BY <1>29 DEF Release
<1>30. CASE ReleaseRead(p)
  BY <1>30 DEF ReleaseRead
<1>31. CASE ReleaseUnlink(p)
  BY <1>31 DEF ReleaseUnlink
<1> QED
  BY <1>1, <1>2, <1>3, <1>4, <1>5, <1>6, <1>7, <1>8, <1>9, <1>10, <1>11, <1>12,
     <1>13, <1>14, <1>15, <1>16, <1>17, <1>18, <1>19, <1>20, <1>21, <1>22,
     <1>23, <1>24, <1>25, <1>26, <1>27, <1>28, <1>29, <1>30, <1>31 DEF Step

\* It creates analyze.lock only where there is none, completes what it created,
\* and removes it at five places.
LEMMA StepLock ==
  ASSUME TypeOK, NEW p \in Procs, Step(p)
  PROVE  \/ lock' = lock
         \/ pc[p] = "createMain" /\ lock = NoFile /\ lock' = Created(p)
         \/ pc[p] = "writeMain" /\ lock' = Filled(lock, p)
         \/ /\ lock' = NoFile
            /\ pc[p] \in {"unlinkStale", "unlinkMalformed", "catchUnlink",
                          "undoUnlink", "releaseUnlink"}
<1> USE DEF TypeOK, Inspecting, UnlinkMain
<1>1. CASE PermissionGiveUp(p)
  BY <1>1 DEF PermissionGiveUp
<1>2. CASE OpenGuard(p)
  BY <1>2 DEF OpenGuard
<1>3. CASE GuardBlocked(p)
  BY <1>3 DEF GuardBlocked
<1>4. CASE OpenDenied(p)
  BY <1>4 DEF OpenDenied
<1>5. CASE LstatLock(p)
  BY <1>5 DEF LstatLock
<1>6. CASE LstatGuard(p)
  BY <1>6 DEF LstatGuard
<1>7. CASE RefuseLockFree(p)
  BY <1>7 DEF RefuseLockFree
<1>8. CASE WriteGuard(p)
  BY <1>8 DEF WriteGuard
<1>9. CASE InspectNoRecord(p)
  BY <1>9 DEF InspectNoRecord
<1>10. CASE InspectStale(p)
  BY <1>10 DEF InspectStale
<1>11. CASE InspectLive(p)
  BY <1>11 DEF InspectLive
<1>12. CASE UnlinkStale(p)
  BY <1>12 DEF UnlinkStale
<1>13. CASE CreateMain(p)
  BY <1>13 DEF CreateMain
<1>14. CASE CreateConflict(p)
  BY <1>14 DEF CreateConflict
<1>15. CASE UnlinkMalformed(p)
  BY <1>15 DEF UnlinkMalformed
<1>16. CASE MainPending(p)
  BY <1>16 DEF MainPending
<1>17. CASE MainError(p)
  BY <1>17 DEF MainError
<1>18. CASE WriteMain(p)
  BY <1>18 DEF WriteMain
<1>19. CASE VerifyMain(p) \/ RereadError(p)
  BY <1>19 DEF VerifyMain, RereadError
<1>20. CASE CatchRead(p)
  BY <1>20 DEF CatchRead
<1>21. CASE CatchUnlink(p)
  BY <1>21 DEF CatchUnlink
<1>22. CASE GuardRead(p)
  BY <1>22 DEF GuardRead
<1>23. CASE GuardUnlink(p)
  BY <1>23 DEF GuardUnlink
<1>24. CASE GuardUnlinkError(p)
  BY <1>24 DEF GuardUnlinkError
<1>25. CASE UndoRead(p)
  BY <1>25 DEF UndoRead
<1>26. CASE UndoUnlink(p)
  BY <1>26 DEF UndoUnlink
<1>27. CASE sweepStagingArtifacts(p)
  BY <1>27 DEF sweepStagingArtifacts
<1>28. CASE Publish(p)
  BY <1>28 DEF Publish
<1>29. CASE Release(p)
  BY <1>29 DEF Release
<1>30. CASE ReleaseRead(p)
  BY <1>30 DEF ReleaseRead
<1>31. CASE ReleaseUnlink(p)
  BY <1>31 DEF ReleaseUnlink
<1> QED
  BY <1>1, <1>2, <1>3, <1>4, <1>5, <1>6, <1>7, <1>8, <1>9, <1>10, <1>11, <1>12,
     <1>13, <1>14, <1>15, <1>16, <1>17, <1>18, <1>19, <1>20, <1>21, <1>22,
     <1>23, <1>24, <1>25, <1>26, <1>27, <1>28, <1>29, <1>30, <1>31 DEF Step

-----------------------------------------------------------------------------
(* The invariant is inductive.                                             *)

\* The token of a process changes only while it has nothing at stake.
LEMMA MineKept ==
  ASSUME TypeOK, NEW q \in Procs, attempt'[q] = attempt[q], inc'[q] = inc[q]
  PROVE  Mine(q)' = Mine(q) /\ Created(q)' = Created(q)
  BY DEF Mine, Created

\* The guarded section stays exclusive.
LEMMA StepGuardMine ==
  ASSUME TypeOK, GuardMine, NEW p \in Procs, Step(p)
  PROVE  GuardMine'
<1> SUFFICES ASSUME NEW q \in Procs, pc'[q] \in Guarded
             PROVE  guard' # NoFile /\ guard'.rec = Mine(q)'
  BY DEF GuardMine
<1>1. Mine(q)' = Mine(q)
  BY StepFrame, MineKept
<1>2. q # p => pc[q] \in Guarded
  BY StepFrame
<1>3. Created(p).rec = Mine(p) /\ Created(p) # NoFile
  BY FilledType DEF Created
<1>4. guard # NoFile => Filled(guard, p).rec = guard.rec /\ Filled(guard, p) # NoFile
  BY FilledType DEF TypeOK
<1>5. q # p => Mine(q) # Mine(p)
  BY DEF Mine
<1>6. CASE q = p
  BY <1>1, <1>3, <1>4, <1>6, StepGuard DEF GuardMine
<1>7. CASE q # p
  BY <1>1, <1>2, <1>3, <1>4, <1>5, <1>7, StepGuard DEF GuardMine, Guarded
<1> QED
  BY <1>6, <1>7

\* Only p itself removes the record p has complete on disk while p lives.
LEMMA StepMainKnown ==
  ASSUME Inv, NEW p \in Procs, Step(p)
  PROVE  MainKnown'
<1> USE DEF Inv
<1> SUFFICES ASSUME NEW q \in Procs
             PROVE  /\ pc'[q] = "writeMain" => lock' = Created(q)'
                    /\ pc'[q] \in {"verifyMain", "catchRead"} =>
                         lock' # NoFile /\ lock'.rec = Mine(q)'
                    /\ Recorded(q)' => HasToken(lock, q)'
  BY DEF MainKnown
<1>1. Mine(q)' = Mine(q) /\ Created(q)' = Created(q)
  BY StepFrame, MineKept
<1>2. CASE q # p
  <2>1. pc'[q] = pc[q] /\ after'[q] = after[q]
    BY <1>2, StepFrame
  <2>2. /\ pc[q] = "writeMain" => lock = Created(q)
        /\ pc[q] \in {"verifyMain", "catchRead"} => lock # NoFile /\ lock.rec = Mine(q)
        /\ Recorded(q) => HasToken(lock, q)
    BY DEF MainKnown
  <2>3. Recorded(q)' <=> Recorded(q)
    BY <2>1 DEF Recorded
  <2>4. SUFFICES ASSUME \/ pc[q] \in {"writeMain", "verifyMain", "catchRead"}
                        \/ Recorded(q)
                 PROVE  lock' = lock
    BY <1>1, <2>1, <2>2, <2>3, <2>4 DEF HasToken, Readable
  <2>5. lock # NoFile /\ lock.rec = Mine(q) /\ pc[q] # "dead"
    BY <2>2, <2>4, FilledType DEF Created, HasToken, Readable, Recorded, Owning
  <2>6. Mine(q).pid = q /\ Mine(q).start = inc[q] /\ Mine(q) # Mine(p)
    BY <1>2 DEF Mine
  <2>7. pc[q] \in Guarded => pc[p] \notin Guarded
    BY <2>6 DEF GuardMine
  <2>8. pc[q] \notin Guarded => lock.written
    BY <2>2, <2>4 DEF HasToken, Readable, Guarded
  <2>9. pc[p] \notin {"catchUnlink", "undoUnlink", "releaseUnlink"}
    BY <2>5, <2>6 DEF MainKnown, Recorded, Owning, HasToken
  <2>10. pc[p] # "unlinkStale"
    BY <2>5, <2>6 DEF ReclaimKnown, Gone
  <2>11. pc[p] # "unlinkMalformed"
    BY <2>7, <2>8 DEF ReclaimKnown, Guarded
  <2>12. pc[p] # "writeMain"
    BY <2>5, <2>6 DEF MainKnown, Created
  <2> QED
    BY <2>5, <2>9, <2>10, <2>11, <2>12, StepLock
<1>3. CASE q = p
  <2>1. Created(p) # NoFile /\ Created(p).rec = Mine(p)
    BY FilledType DEF Created
  <2>2. /\ Filled(Created(p), p) # NoFile
        /\ HasToken(Filled(Created(p), p), p)
    BY <2>1, FilledType DEF Filled, HasToken, Readable
  <2> USE <1>1, <1>3 DEF TypeOK, MainKnown, Recorded, Goto, Owning
  <2>3. CASE PermissionGiveUp(p)
    BY <2>3, <2>1, <2>2 DEF PermissionGiveUp, HasToken, Readable
  <2>4. CASE OpenGuard(p)
    BY <2>4, <2>1, <2>2 DEF OpenGuard, HasToken, Readable
  <2>5. CASE GuardBlocked(p)
    BY <2>5, <2>1, <2>2 DEF GuardBlocked, HasToken, Readable
  <2>6. CASE OpenDenied(p)
    BY <2>6, <2>1, <2>2 DEF OpenDenied, HasToken, Readable
  <2>7. CASE LstatLock(p)
    BY <2>7, <2>1, <2>2 DEF LstatLock, HasToken, Readable
  <2>8. CASE LstatGuard(p)
    BY <2>8, <2>1, <2>2 DEF LstatGuard, HasToken, Readable
  <2>9. CASE RefuseLockFree(p)
    BY <2>9, <2>1, <2>2 DEF RefuseLockFree, HasToken, Readable
  <2>10. CASE WriteGuard(p)
    BY <2>10, <2>1, <2>2 DEF WriteGuard, Conclude, HasToken, Readable
  <2>11. CASE InspectNoRecord(p)
    BY <2>11, <2>1, <2>2 DEF InspectNoRecord, HasToken, Readable
  <2>12. CASE InspectStale(p)
    BY <2>12, <2>1, <2>2 DEF InspectStale, HasToken, Readable
  <2>13. CASE InspectLive(p)
    BY <2>13, <2>1, <2>2 DEF InspectLive, Conclude, HasToken, Readable
  <2>14. CASE UnlinkStale(p)
    BY <2>14, <2>1, <2>2 DEF UnlinkStale, HasToken, Readable
  <2>15. CASE CreateMain(p)
    BY <2>15, <2>1, <2>2 DEF CreateMain, HasToken, Readable
  <2>16. CASE CreateConflict(p)
    BY <2>16, <2>1, <2>2 DEF CreateConflict, Conclude, HasToken, Readable
  <2>17. CASE UnlinkMalformed(p)
    BY <2>17, <2>1, <2>2 DEF UnlinkMalformed, Conclude, HasToken, Readable
  <2>18. CASE MainPending(p)
    BY <2>18, <2>1, <2>2 DEF MainPending, Conclude, HasToken, Readable, Inspecting
  <2>19. CASE MainError(p)
    BY <2>19, <2>1, <2>2 DEF MainError, Conclude, HasToken, Readable, Inspecting
  <2>20. CASE WriteMain(p)
    BY <2>20, <2>1, <2>2 DEF WriteMain, HasToken, Readable
  <2>21. CASE VerifyMain(p) \/ RereadError(p)
    BY <2>21, <2>1, <2>2 DEF VerifyMain, RereadError, Conclude, HasToken, Readable
  <2>22. CASE CatchRead(p)
    BY <2>22, <2>1, <2>2 DEF CatchRead, Conclude, HasToken, Readable
  <2>23. CASE CatchUnlink(p)
    BY <2>23, <2>1, <2>2 DEF CatchUnlink, Conclude, HasToken, Readable, UnlinkMain
  <2>24. CASE GuardRead(p)
    BY <2>24, <2>1, <2>2 DEF GuardRead, HasToken, Readable
  <2>25. CASE GuardUnlink(p)
    BY <2>25, <2>1, <2>2 DEF GuardUnlink, HasToken, Readable, Resume
  <2>26. CASE GuardUnlinkError(p)
    BY <2>26, <2>1, <2>2 DEF GuardUnlinkError, HasToken, Readable
  <2>27. CASE UndoRead(p)
    BY <2>27, <2>1, <2>2 DEF UndoRead, HasToken, Readable
  <2>28. CASE UndoUnlink(p)
    BY <2>28, <2>1, <2>2 DEF UndoUnlink, HasToken, Readable, UnlinkMain
  <2>29. CASE sweepStagingArtifacts(p)
    BY <2>29, <2>1, <2>2 DEF sweepStagingArtifacts, HasToken, Readable
  <2>30. CASE Publish(p)
    BY <2>30, <2>1, <2>2 DEF Publish, HasToken, Readable
  <2>31. CASE Release(p)
    BY <2>31, <2>1, <2>2 DEF Release, HasToken, Readable
  <2>32. CASE ReleaseRead(p)
    BY <2>32, <2>1, <2>2 DEF ReleaseRead, HasToken, Readable
  <2>33. CASE ReleaseUnlink(p)
    BY <2>33, <2>1, <2>2 DEF ReleaseUnlink, HasToken, Readable, UnlinkMain
  <2> QED
    BY <2>3, <2>4, <2>5, <2>6, <2>7, <2>8, <2>9, <2>10, <2>11, <2>12, <2>13,
       <2>14, <2>15, <2>16, <2>17, <2>18, <2>19, <2>20, <2>21, <2>22, <2>23,
       <2>24, <2>25, <2>26, <2>27, <2>28, <2>29, <2>30, <2>31, <2>32, <2>33 DEF
       Step
<1> QED
  BY <1>2, <1>3

\* A file judged stale or malformed stays so until it is removed.
LEMMA StepReclaimKnown ==
  ASSUME Inv, NEW p \in Procs, Step(p)
  PROVE  ReclaimKnown'
<1> USE DEF Inv
<1> SUFFICES ASSUME NEW q \in Procs
             PROVE  /\ pc'[q] = "unlinkStale" => Readable(lock') /\ Gone(lock)'
                    /\ pc'[q] = "unlinkMalformed" => lock' # NoFile /\ ~lock'.written
  BY DEF ReclaimKnown, Readable
<1>1. Readable(lock) /\ Gone(lock) => Gone(lock)' \/ lock' # lock
  <2> SUFFICES ASSUME Readable(lock), Gone(lock), lock' = lock
               PROVE  Gone(lock)'
    OBVIOUS
  <2>1. lock.rec.pid \in Procs
    BY DEF TypeOK, Readable, Files, Records
  <2> QED
    BY <2>1, StepFrame DEF Gone
<1>2. CASE q # p
  <2>1. pc'[q] = pc[q]
    BY <1>2, StepFrame
  <2>2. SUFFICES ASSUME pc[q] \in {"unlinkStale", "unlinkMalformed"}
                 PROVE  lock' = lock
    BY <1>1, <2>1, <2>2 DEF ReclaimKnown, Readable
  <2>3. pc[p] \notin Guarded
    <3>1. Mine(p) # Mine(q)
      BY <1>2 DEF Mine
    <3> QED
      BY <2>2, <3>1 DEF GuardMine, Guarded
  <2>4. pc[p] \notin {"undoUnlink", "releaseUnlink"}
    <3> SUFFICES ASSUME pc[p] \in {"undoUnlink", "releaseUnlink"} PROVE FALSE
      OBVIOUS
    <3>1. HasToken(lock, p)
      BY DEF MainKnown, Recorded, Owning
    <3> QED
      BY <2>2, <3>1, StepFrame DEF HasToken, Readable, ReclaimKnown, Gone, Mine
  <2> QED
    BY <2>3, <2>4, StepLock DEF Guarded
<1>3. CASE q = p
  <2>1. /\ pc'[p] = "unlinkStale" => InspectStale(p)
        /\ pc'[p] = "unlinkMalformed" => CreateConflict(p)
    <3> USE DEF TypeOK, Goto
    <3>1. CASE PermissionGiveUp(p)
      BY <3>1 DEF PermissionGiveUp
    <3>2. CASE OpenGuard(p)
      BY <3>2 DEF OpenGuard
    <3>3. CASE GuardBlocked(p)
      BY <3>3 DEF GuardBlocked
    <3>4. CASE OpenDenied(p)
      BY <3>4 DEF OpenDenied
    <3>5. CASE LstatLock(p)
      BY <3>5 DEF LstatLock
    <3>6. CASE LstatGuard(p)
      BY <3>6 DEF LstatGuard
    <3>7. CASE RefuseLockFree(p)
      BY <3>7 DEF RefuseLockFree
    <3>8. CASE WriteGuard(p)
      BY <3>8 DEF WriteGuard, Conclude
    <3>9. CASE InspectNoRecord(p)
      BY <3>9 DEF InspectNoRecord
    <3>10. CASE InspectStale(p)
      BY <3>10 DEF InspectStale
    <3>11. CASE InspectLive(p)
      BY <3>11 DEF InspectLive, Conclude
    <3>12. CASE UnlinkStale(p)
      BY <3>12 DEF UnlinkStale
    <3>13. CASE CreateMain(p)
      BY <3>13 DEF CreateMain
    <3>14. CASE CreateConflict(p)
      BY <3>14 DEF CreateConflict, Conclude
    <3>15. CASE UnlinkMalformed(p)
      BY <3>15 DEF UnlinkMalformed, Conclude
    <3>16. CASE MainPending(p)
      BY <3>16 DEF MainPending, Conclude, Inspecting
    <3>17. CASE MainError(p)
      BY <3>17 DEF MainError, Conclude, Inspecting
    <3>18. CASE WriteMain(p)
      BY <3>18 DEF WriteMain
    <3>19. CASE VerifyMain(p) \/ RereadError(p)
      BY <3>19 DEF VerifyMain, RereadError, Conclude
    <3>20. CASE CatchRead(p)
      BY <3>20 DEF CatchRead, Conclude
    <3>21. CASE CatchUnlink(p)
      BY <3>21 DEF CatchUnlink, Conclude
    <3>22. CASE GuardRead(p)
      BY <3>22 DEF GuardRead
    <3>23. CASE GuardUnlink(p)
      BY <3>23 DEF GuardUnlink, Resume
    <3>24. CASE GuardUnlinkError(p)
      BY <3>24 DEF GuardUnlinkError
    <3>25. CASE UndoRead(p)
      BY <3>25 DEF UndoRead
    <3>26. CASE UndoUnlink(p)
      BY <3>26 DEF UndoUnlink
    <3>27. CASE sweepStagingArtifacts(p)
      BY <3>27 DEF sweepStagingArtifacts
    <3>28. CASE Publish(p)
      BY <3>28 DEF Publish
    <3>29. CASE Release(p)
      BY <3>29 DEF Release
    <3>30. CASE ReleaseRead(p)
      BY <3>30 DEF ReleaseRead
    <3>31. CASE ReleaseUnlink(p)
      BY <3>31 DEF ReleaseUnlink
    <3> QED
      BY <3>1, <3>2, <3>3, <3>4, <3>5, <3>6, <3>7, <3>8, <3>9, <3>10, <3>11,
         <3>12, <3>13, <3>14, <3>15, <3>16, <3>17, <3>18, <3>19, <3>20, <3>21,
         <3>22, <3>23, <3>24, <3>25, <3>26, <3>27, <3>28, <3>29, <3>30, <3>31
         DEF Step
  <2>2. InspectStale(p) => lock' = lock /\ Readable(lock) /\ Gone(lock)
    BY DEF InspectStale, isStale, Gone
  <2>3. CreateConflict(p) /\ pc'[p] = "unlinkMalformed" =>
          lock' = lock /\ lock # NoFile /\ ~lock.written
    BY DEF CreateConflict, Conclude, Goto, Readable, TypeOK
  <2> QED
    BY <1>1, <1>3, <2>1, <2>2, <2>3 DEF Readable
<1> QED
  BY <1>2, <1>3

\* A record names an incarnation its pid has reached.
LEMMA StepNotFromFuture ==
  ASSUME Inv, NEW p \in Procs, Step(p)
  PROVE  NotFromFuture'
<1> USE DEF Inv, NotFromFuture
<1>1. Created(p).rec.start = inc[p] /\ Created(p).rec.pid = p /\ inc[p] \in Nat
  BY DEF Created, Mine, TypeOK
<1>2. lock # NoFile => Filled(lock, p).rec = lock.rec
  BY FilledType DEF TypeOK
<1>3. pc[p] = "writeMain" => lock # NoFile
  <2>1. Created(p) # NoFile
    BY FilledType
  <2> QED
    BY <2>1 DEF MainKnown
<1>4. inc' = inc
  BY StepFrame
<1>5. CASE lock' = lock
  BY <1>4, <1>5
<1>6. CASE lock' = Created(p)
  BY <1>1, <1>4, <1>6
<1>7. CASE pc[p] = "writeMain" /\ lock' = Filled(lock, p)
  BY <1>2, <1>3, <1>4, <1>7
<1>8. CASE lock' = NoFile
  BY <1>8
<1> QED
  BY <1>5, <1>6, <1>7, <1>8, StepLock

\* The steps that are not the code's: callers, time, crashes, the operator.
LEMMA InvInductive == Inv /\ [Next]_vars => Inv'
<1> SUFFICES ASSUME Inv, [Next]_vars PROVE Inv'
  OBVIOUS
<1>0. TypeOK'
  BY TypeInductive DEF Inv
<1> USE DEF Inv
<1>1. ASSUME NEW p \in Procs, Step(p) PROVE Inv'
  BY <1>0, <1>1, StepGuardMine, StepMainKnown, StepReclaimKnown, StepNotFromFuture
<1> USE DEF GuardMine, MainKnown, ReclaimKnown, NotFromFuture, Recorded, Owning,
            Guarded, HasToken, Readable, Created, Mine, Gone, TypeOK
<1>2. ASSUME NEW p \in Procs, Begin(p) PROVE Inv'
  BY <1>0, <1>2 DEF Begin, Goto
<1>3. ASSUME NEW p \in Procs, Stage(p) PROVE Inv'
  BY <1>0, <1>3 DEF Stage, Goto
<1>4. ASSUME NEW p \in Procs, Crash(p) PROVE Inv'
  BY <1>0, <1>4 DEF Crash, Goto
<1>5. ASSUME NEW p \in Procs, Restart(p) PROVE Inv'
  <2>1. /\ pc[p] = "dead" /\ pc' = [pc EXCEPT ![p] = "idle"]
        /\ inc' = [inc EXCEPT ![p] = inc[p] + 1] /\ inc[p] \in Nat
        /\ UNCHANGED <<lock, guard, after, attempt>>
    BY <1>5 DEF Restart, Goto
  <2>2. lock # NoFile => lock.rec.pid \in Procs /\ lock.rec.start \in Nat
    BY DEF Files, Records
  <2>3. GuardMine' /\ MainKnown'
    BY <2>1
  <2>4. NotFromFuture'
    BY <2>1, <2>2
  <2>5. Readable(lock) /\ Gone(lock) => Gone(lock)'
    BY <2>1, <2>2
  <2>6. ReclaimKnown'
    BY <2>1, <2>5
  <2> QED
    BY <1>0, <2>3, <2>4, <2>6
<1>6. ASSUME NEW p \in Procs, NEW t \in Timers, Expire(p, t) PROVE Inv'
  BY <1>0, <1>6 DEF Expire
<1>7. CASE Recover
  BY <1>0, <1>7 DEF Recover
<1>8. CASE UNCHANGED vars
  BY <1>0, <1>8 DEF vars
<1> QED
  BY <1>1, <1>2, <1>3, <1>4, <1>5, <1>6, <1>7, <1>8 DEF Next

\* The invariant holds in every reachable state.
LEMMA InvHolds == Spec => []Inv
<1>1. Init => Inv
  BY DEF Init, Inv, TypeOK, GuardMine, MainKnown, ReclaimKnown, NotFromFuture,
         Recorded, Points, Outside, Guarded, Owning, Verdicts
<1> QED
  BY <1>1, InvInductive, PTL DEF Spec

-----------------------------------------------------------------------------
(* What follows from it.                                                   *)

(* At most one process owns the index directory: for every number of       *)
(* processes, whatever crashes, pid reuses and file errors happen.         *)
THEOREM MutualExclusionHolds == Spec => []MutualExclusion
<1>1. Inv => MutualExclusion
  <2> SUFFICES ASSUME MainKnown, NEW p \in Procs, NEW q \in Procs,
                      pc[p] \in Owning, pc[q] \in Owning
               PROVE  p = q
    BY DEF Inv, MutualExclusion
  <2>1. HasToken(lock, p) /\ HasToken(lock, q)
    BY DEF MainKnown, Recorded
  <2>2. Mine(p).pid = p /\ Mine(q).pid = q
    BY DEF Mine
  <2> QED
    BY <2>1, <2>2 DEF HasToken
<1> QED
  BY <1>1, InvHolds, PTL

(* The record of a live owner is on disk until its own release removes it. *)
THEOREM OwnerOnDiskHolds == Spec => []OwnerOnDisk
<1>1. Inv => OwnerOnDisk
  BY DEF Inv, MainKnown, Recorded, OwnerOnDisk
<1> QED
  BY <1>1, InvHolds, PTL

(* A file is removed from the directory only in the state it was judged.   *)
THEOREM UnlinksWhatItJudgedHolds == Spec => []UnlinksWhatItJudged
<1>1. Inv => UnlinksWhatItJudged
  BY DEF Inv, MainKnown, ReclaimKnown, Recorded, Owning, Gone, UnlinksWhatItJudged
<1> QED
  BY <1>1, InvHolds, PTL

(* No waiter ever removes a guard, whatever its age.                       *)
THEOREM GuardNeverStolenHolds == Spec => GuardNeverStolen
<1>1. Inv /\ [Next]_vars =>
        [guard # NoFile /\ guard' = NoFile =>
           LET p == guard.rec.pid IN
             \/ guard.rec = Mine(p) /\ pc[p] = "guardUnlink"
             \/ \A q \in Procs : pc[q] = "dead"]_vars
  <2> SUFFICES ASSUME Inv, [Next]_vars, guard # NoFile, guard' = NoFile
               PROVE  LET p == guard.rec.pid IN
                        \/ guard.rec = Mine(p) /\ pc[p] = "guardUnlink"
                        \/ \A q \in Procs : pc[q] = "dead"
    OBVIOUS
  <2>1. ASSUME NEW p \in Procs, Step(p)
        PROVE  guard.rec = Mine(guard.rec.pid) /\ pc[guard.rec.pid] = "guardUnlink"
    <3>1. pc[p] = "guardUnlink"
      <4>1. Created(p) # NoFile
        BY FilledType DEF Inv
      <4>2. Filled(guard, p) # NoFile
        BY FilledType DEF Inv, TypeOK
      <4> QED
        BY <2>1, <4>1, <4>2, StepGuard DEF Inv
    <3>2. guard.rec = Mine(p) /\ guard.rec.pid = p
      BY <3>1 DEF Inv, GuardMine, Guarded, Mine
    <3> QED
      BY <3>1, <3>2
  <2>2. CASE Recover
    BY <2>2 DEF Recover
  <2> QED
    BY <2>1, <2>2 DEF Next, Begin, Stage, Crash, Restart, Expire, vars
<1> QED
  BY <1>1, InvHolds, PTL DEF Spec, GuardNeverStolen

\* Ownership begins where the guard is removed, and nowhere else.
LEMMA StepOwns ==
  ASSUME TypeOK, NEW p \in Procs, Step(p), pc[p] \notin Owning, pc'[p] \in Owning
  PROVE  pc[p] = "guardUnlink" /\ guard' = NoFile
<1> USE DEF TypeOK, Goto, Conclude, Inspecting, Owning
<1>1. CASE PermissionGiveUp(p) \/ OpenGuard(p) \/ GuardBlocked(p) \/ OpenDenied(p) \/
            LstatLock(p) \/ LstatGuard(p) \/ RefuseLockFree(p)
  BY <1>1 DEF PermissionGiveUp, OpenGuard, GuardBlocked, OpenDenied, LstatLock, LstatGuard, RefuseLockFree
<1>2. CASE WriteGuard(p) \/ InspectNoRecord(p) \/ InspectStale(p) \/ InspectLive(p) \/
            UnlinkStale(p) \/ CreateMain(p) \/ CreateConflict(p) \/ UnlinkMalformed(p) \/
            MainPending(p) \/ MainError(p)
  BY <1>2 DEF WriteGuard, InspectNoRecord, InspectStale, InspectLive, UnlinkStale, CreateMain, CreateConflict, UnlinkMalformed, MainPending, MainError
<1>3. CASE WriteMain(p) \/ VerifyMain(p) \/ RereadError(p) \/ CatchRead(p) \/ CatchUnlink(p) \/
            UndoRead(p) \/ UndoUnlink(p)
  BY <1>3 DEF WriteMain, VerifyMain, RereadError, CatchRead, CatchUnlink, UndoRead, UndoUnlink
<1>4. CASE GuardRead(p) \/ GuardUnlinkError(p)
  BY <1>4 DEF GuardRead, GuardUnlinkError
<1>5. CASE GuardUnlink(p)
  BY <1>5 DEF GuardUnlink
<1>6. CASE sweepStagingArtifacts(p) \/ Publish(p) \/ Release(p) \/ ReleaseRead(p) \/ ReleaseUnlink(p)
  BY <1>6 DEF sweepStagingArtifacts, Publish, Release, ReleaseRead, ReleaseUnlink
<1> QED
  BY <1>1, <1>2, <1>3, <1>4, <1>5, <1>6 DEF Step

(* While the guard of a crashed process is in the way nobody comes to own   *)
(* the directory: a new owner has just removed a guard of its own.          *)
THEOREM OrphanGuardFailsClosedHolds == Spec => OrphanGuardFailsClosed
<1>1. Inv /\ [Next]_vars =>
        [\A p \in Procs : pc[p] \notin Owning /\ pc'[p] \in Owning =>
           guard # NoFile /\ guard.rec = Mine(p) /\ guard' = NoFile]_vars
  <2> SUFFICES ASSUME Inv, [Next]_vars, NEW p \in Procs,
                      pc[p] \notin Owning, pc'[p] \in Owning
               PROVE  guard # NoFile /\ guard.rec = Mine(p) /\ guard' = NoFile
    OBVIOUS
  <2>1. CASE Step(p)
    BY <2>1, StepOwns DEF Inv, GuardMine, Guarded
  <2>2. ASSUME NEW q \in Procs \ {p}, Step(q)
        PROVE  FALSE
    BY <2>2, StepFrame DEF Inv
  <2>3. ASSUME NEW q \in Procs, Begin(q) \/ Stage(q) \/ Crash(q) \/ Restart(q)
        PROVE  FALSE
    BY <2>3 DEF Begin, Stage, Crash, Restart, Goto, Inv, TypeOK, Owning
  <2>4. ASSUME NEW q \in Procs, NEW t \in Timers, Expire(q, t)
        PROVE  FALSE
    BY <2>4 DEF Expire
  <2>5. CASE Recover \/ UNCHANGED vars
    BY <2>5 DEF Recover, vars
  <2> QED
    BY <2>1, <2>2, <2>3, <2>4, <2>5 DEF Next
<1> QED
  BY <1>1, InvHolds, PTL DEF Spec, OrphanGuardFailsClosed

-----------------------------------------------------------------------------
(* The file backend implements the abstract lock.                          *)

\* The mapped owner is the process that owns.
LEMMA OwnerIs ==
  ASSUME MutualExclusion, NEW p \in Procs, pc[p] \in Owning
  PROVE  Owner = p
  BY DEF MutualExclusion, Owner

\* Nobody owns: the mapped owner is nobody.
LEMMA NoOwnerIs ==
  ASSUME \A p \in Procs : pc[p] \notin Owning
  PROVE  Owner = NoFile
  BY DEF Owner

(* Every behaviour of the protocol is, seen through Owner, a behaviour of   *)
(* the abstract lock: steps grant it, give it up, or stutter.              *)
THEOREM Refinement == Spec => ImplementsIndexLock
<1>1. Init => Abstract!Init
  BY NoOwnerIs DEF Init, Abstract!Init, Owning
<1>2. Inv /\ MutualExclusion /\ MutualExclusion' /\ [Next]_vars
        => [Abstract!Next]_Owner
  <2> SUFFICES ASSUME Inv, MutualExclusion, MutualExclusion', [Next]_vars
               PROVE  Abstract!Next \/ Owner' = Owner
    OBVIOUS
  \* Nobody's ownership changes.
  <2>2. ASSUME \A q \in Procs : pc'[q] \in Owning <=> pc[q] \in Owning
        PROVE  Owner' = Owner
    <3>1. CASE \E q \in Procs : pc[q] \in Owning
      <4> PICK q \in Procs : pc[q] \in Owning
        BY <3>1
      <4>1. Owner = q
        BY OwnerIs
      <4>2. Owner' = q
        BY <2>2 DEF MutualExclusion, Owner
      <4> QED
        BY <4>1, <4>2
    <3>2. CASE \A q \in Procs : pc[q] \notin Owning
      <4>1. Owner = NoFile
        BY <3>2 DEF Owner
      <4>2. Owner' = NoFile
        BY <2>2, <3>2 DEF Owner
      <4> QED
        BY <4>1, <4>2
    <3> QED
      BY <3>1, <3>2
  \* One process moves, all others stay.
  <2>3. ASSUME NEW p \in Procs, \A q \in Procs \ {p} : pc'[q] = pc[q]
        PROVE  Abstract!Next \/ Owner' = Owner
    <3>1. CASE pc[p] \in Owning /\ pc'[p] \notin Owning
      <4>1. Owner = p
        BY <3>1, OwnerIs
      <4>2. \A q \in Procs : pc'[q] \notin Owning
        BY <2>3, <3>1 DEF MutualExclusion
      <4>3. Owner' = NoFile
        BY <4>2 DEF Owner
      <4> QED
        BY <4>1, <4>3 DEF Abstract!Next, Abstract!GiveUp
    <3>2. CASE pc[p] \notin Owning /\ pc'[p] \in Owning
      <4>1. Owner' = p
        BY <3>2 DEF MutualExclusion, Owner
      <4>2. \A q \in Procs : pc[q] \notin Owning
        BY <2>3, <3>2 DEF MutualExclusion
      <4>3. Owner = NoFile
        BY <4>2, NoOwnerIs
      <4> QED
        BY <4>1, <4>3 DEF Abstract!Next, Abstract!Grant
    <3>3. CASE pc'[p] \in Owning <=> pc[p] \in Owning
      BY <2>2, <2>3, <3>3
    <3> QED
      BY <3>1, <3>2, <3>3
  <2>4. ASSUME NEW p \in Procs, Step(p) PROVE \A q \in Procs \ {p} : pc'[q] = pc[q]
    BY <2>4, StepFrame DEF Inv
  <2>5. ASSUME NEW p \in Procs, Begin(p) \/ Stage(p) \/ Crash(p) \/ Restart(p)
        PROVE  \A q \in Procs \ {p} : pc'[q] = pc[q]
    BY <2>5 DEF Begin, Stage, Crash, Restart, Goto, Inv, TypeOK
  <2>6. ASSUME NEW p \in Procs, NEW t \in Timers, Expire(p, t)
        PROVE  \A q \in Procs \ {p} : pc'[q] = pc[q]
    BY <2>6 DEF Expire
  <2>7. CASE Recover
    BY <2>2, <2>7 DEF Recover
  <2>8. CASE UNCHANGED vars
    BY <2>2, <2>8 DEF vars
  <2> QED
    BY <2>3, <2>4, <2>5, <2>6, <2>7, <2>8 DEF Next
<1> QED
  BY <1>1, <1>2, InvHolds, MutualExclusionHolds, PTL DEF Spec,
     ImplementsIndexLock, Abstract!Spec

-----------------------------------------------------------------------------
(* What the owner builds is kept, and who does not own leaves nothing.      *)

(* No sweep removes the staging file of a writer at work: whoever sweeps   *)
(* owns the directory, and owns it alone.                                  *)
THEOREM StagingKeptHolds == Spec => []StagingKept
<1>1. Init => StagingKept
  BY DEF Init, StagingKept
<1>2. Inv /\ MutualExclusion /\ StagingKept /\ [Next]_vars => StagingKept'
  <2> SUFFICES ASSUME Inv, MutualExclusion, StagingKept, [Next]_vars,
                      NEW q \in Procs, pc'[q] = "writing"
               PROVE  q \in staging'
    BY DEF StagingKept
  <2> USE DEF Inv, TypeOK, StagingKept, Goto
  <2>1. ASSUME NEW p \in Procs, Step(p) PROVE q \in staging'
    <3>1. pc[q] = "writing"
      <4>1. CASE q = p
        <5>1. pc[p] # "writing" => pc'[p] # "writing"
          <6> USE DEF Conclude, Inspecting
          <6>1. CASE PermissionGiveUp(p) \/ OpenGuard(p) \/ GuardBlocked(p) \/ OpenDenied(p) \/
                     LstatLock(p) \/ LstatGuard(p) \/ RefuseLockFree(p)
            BY <6>1 DEF PermissionGiveUp, OpenGuard, GuardBlocked, OpenDenied, LstatLock, LstatGuard, RefuseLockFree
          <6>2. CASE WriteGuard(p) \/ InspectNoRecord(p) \/ InspectStale(p) \/ InspectLive(p) \/
                     UnlinkStale(p) \/ CreateMain(p) \/ CreateConflict(p) \/ UnlinkMalformed(p) \/
                     MainPending(p) \/ MainError(p)
            BY <6>2 DEF WriteGuard, InspectNoRecord, InspectStale, InspectLive, UnlinkStale, CreateMain, CreateConflict, UnlinkMalformed, MainPending, MainError
          <6>3. CASE WriteMain(p) \/ VerifyMain(p) \/ RereadError(p) \/ CatchRead(p) \/ CatchUnlink(p) \/
                     UndoRead(p) \/ UndoUnlink(p)
            BY <6>3 DEF WriteMain, VerifyMain, RereadError, CatchRead, CatchUnlink, UndoRead, UndoUnlink
          <6>4. CASE GuardRead(p) \/ GuardUnlinkError(p)
            BY <6>4 DEF GuardRead, GuardUnlinkError
          <6>5. CASE GuardUnlink(p)
            BY <6>5 DEF GuardUnlink, Resume
          <6>6. CASE sweepStagingArtifacts(p) \/ Publish(p) \/ Release(p) \/ ReleaseRead(p) \/ ReleaseUnlink(p)
            BY <6>6 DEF sweepStagingArtifacts, Publish, Release, ReleaseRead, ReleaseUnlink
          <6> QED
            BY <2>1, <6>1, <6>2, <6>3, <6>4, <6>5, <6>6 DEF Step
        <5> QED
          BY <4>1, <5>1
      <4>2. CASE q # p
        BY <2>1, <4>2, StepFrame
      <4> QED
        BY <4>1, <4>2
    <3>2. staging' = staging \/ sweepStagingArtifacts(p) \/ Publish(p)
      <4>1. CASE PermissionGiveUp(p) \/ OpenGuard(p) \/ GuardBlocked(p) \/ OpenDenied(p) \/
                 LstatLock(p) \/ LstatGuard(p) \/ RefuseLockFree(p) \/ WriteGuard(p) \/
                 InspectNoRecord(p) \/ InspectStale(p) \/ InspectLive(p) \/ UnlinkStale(p)
        BY <4>1 DEF PermissionGiveUp, OpenGuard, GuardBlocked, OpenDenied, LstatLock,
                    LstatGuard, RefuseLockFree, WriteGuard, InspectNoRecord, InspectStale,
                    InspectLive, UnlinkStale
      <4>2. CASE CreateMain(p) \/ CreateConflict(p) \/ UnlinkMalformed(p) \/ MainPending(p) \/
                 MainError(p) \/ WriteMain(p) \/ VerifyMain(p) \/ RereadError(p) \/ CatchRead(p) \/ CatchUnlink(p)
        BY <4>2 DEF CreateMain, CreateConflict, UnlinkMalformed, MainPending, MainError,
                    WriteMain, VerifyMain, RereadError, CatchRead, CatchUnlink
      <4>3. CASE GuardRead(p) \/ GuardUnlink(p) \/ GuardUnlinkError(p) \/ UndoRead(p) \/
                 UndoUnlink(p) \/ Release(p) \/ ReleaseRead(p) \/ ReleaseUnlink(p)
        BY <4>3 DEF GuardRead, GuardUnlink, GuardUnlinkError, UndoRead, UndoUnlink, Release,
                    ReleaseRead, ReleaseUnlink
      <4> QED
        BY <2>1, <4>1, <4>2, <4>3 DEF Step
    <3>3. sweepStagingArtifacts(p) => p = q
      BY <3>1 DEF sweepStagingArtifacts, MutualExclusion, Owning
    <3>4. Publish(p) => p = q
      BY <3>1 DEF Publish, MutualExclusion, Owning
    <3>5. ~sweepStagingArtifacts(p)
      BY <3>1, <3>3 DEF sweepStagingArtifacts
    <3>6. ~Publish(p)
      BY <3>4 DEF Publish
    <3> QED
      BY <3>1, <3>2, <3>5, <3>6
  <2>2. ASSUME NEW p \in Procs, Stage(p) PROVE q \in staging'
    BY <2>2 DEF Stage
  <2>3. ASSUME NEW p \in Procs, Begin(p) \/ Crash(p) \/ Restart(p)
        PROVE  q \in staging'
    BY <2>3 DEF Begin, Crash, Restart
  <2>4. ASSUME NEW p \in Procs, NEW t \in Timers, Expire(p, t) PROVE q \in staging'
    BY <2>4 DEF Expire
  <2>5. CASE Recover \/ UNCHANGED vars
    BY <2>5 DEF Recover, vars
  <2> QED
    BY <2>1, <2>2, <2>3, <2>4, <2>5 DEF Next
<1> QED
  BY <1>1, <1>2, InvHolds, MutualExclusionHolds, PTL DEF Spec

\* No file is younger than the attempt of its pid.
NotFromNextAttempt == lock # NoFile => lock.rec.attempt <= attempt[lock.rec.pid]

\* Points at which the record of p is not on disk, or not complete.
Unrecorded(p) ==
  \/ pc[p] \in Outside \ {"dead"}
  \/ pc[p] \in {"writeGuard", "readMain", "unlinkStale", "createMain", "unlinkMalformed",
                "writeMain"}
  \/ pc[p] \in {"guardRead", "guardUnlink"} /\ after[p] \in {"wait", "retry", "fail"}

\* A process at such a point has no record on disk.
NoRecordLeft == \A p \in Procs : Unrecorded(p) => ~HasToken(lock, p)

\* What a process does at its own points.
LEMMA StepUnrecorded ==
  ASSUME {"unlinkMain", "rereadMain"} \cap Faults = {}, Inv, NoRecordLeft, NEW p \in Procs, Step(p)
  PROVE  Unrecorded(p)' => ~HasToken(lock', p)
<1> USE DEF Inv, TypeOK, NoRecordLeft, Unrecorded, Outside, Goto, Conclude, Inspecting, UnlinkMain
<1>1. ~HasToken(NoFile, p) /\ ~HasToken(Created(p), p)
  BY DEF HasToken, Readable, Created
<1>2. CASE PermissionGiveUp(p) \/ OpenGuard(p) \/ GuardBlocked(p) \/ OpenDenied(p) \/
           LstatLock(p) \/ LstatGuard(p) \/ RefuseLockFree(p)
  BY <1>2 DEF PermissionGiveUp, OpenGuard, GuardBlocked, OpenDenied, LstatLock, LstatGuard, RefuseLockFree
<1>3. CASE WriteGuard(p) \/ InspectNoRecord(p) \/ InspectStale(p) \/ InspectLive(p) \/
           CreateConflict(p) \/ MainPending(p) \/ MainError(p)
  BY <1>3 DEF WriteGuard, InspectNoRecord, InspectStale, InspectLive, CreateConflict, MainPending, MainError
<1>4. CASE UnlinkStale(p) \/ CreateMain(p) \/ UnlinkMalformed(p)
  BY <1>1, <1>4 DEF UnlinkStale, CreateMain, UnlinkMalformed
<1>5. CASE WriteMain(p) \/ VerifyMain(p) \/ RereadError(p) \/ CatchRead(p)
  BY <1>5 DEF WriteMain, VerifyMain, RereadError, CatchRead
<1>6. CASE CatchUnlink(p) \/ UndoRead(p) \/ UndoUnlink(p)
  BY <1>1, <1>6 DEF CatchUnlink, UndoRead, UndoUnlink
<1>7. CASE GuardRead(p) \/ GuardUnlinkError(p)
  BY <1>7 DEF GuardRead, GuardUnlinkError
<1>8. CASE GuardUnlink(p)
  <2>1. after[p] \in {"hold", "refuse", "wait", "retry", "fail"}
    BY DEF Verdicts
  <2> QED
    BY <1>8, <2>1 DEF GuardUnlink, Resume
<1>9. CASE sweepStagingArtifacts(p) \/ Publish(p) \/ Release(p)
  BY <1>9 DEF sweepStagingArtifacts, Publish, Release
<1>10. CASE ReleaseRead(p) \/ ReleaseUnlink(p)
  BY <1>1, <1>10 DEF ReleaseRead, ReleaseUnlink
<1> QED
  BY <1>2, <1>3, <1>4, <1>5, <1>6, <1>7, <1>8, <1>9, <1>10 DEF Step

\* What it does to the others, and what its callers, crashes and time do.
LEMMA LeftInductive ==
  {"unlinkMain", "rereadMain"} \cap Faults = {} /\ Inv /\ NotFromNextAttempt /\ NoRecordLeft /\ [Next]_vars
    => NotFromNextAttempt' /\ NoRecordLeft'
<1> SUFFICES ASSUME {"unlinkMain", "rereadMain"} \cap Faults = {}, Inv, NotFromNextAttempt, NoRecordLeft, [Next]_vars
             PROVE  NotFromNextAttempt' /\ NoRecordLeft'
  OBVIOUS
<1>0. lock # NoFile => /\ lock.rec.pid \in Procs /\ lock.rec.start \in Nat
                       /\ lock.rec.attempt \in Nat
  BY DEF Inv, TypeOK, Files, Records
<1>1. ASSUME NEW p \in Procs, Step(p) PROVE NotFromNextAttempt' /\ NoRecordLeft'
  <2>1. /\ attempt' = attempt /\ inc' = inc
        /\ \A q \in Procs \ {p} : pc'[q] = pc[q] /\ after'[q] = after[q]
    BY <1>1, StepFrame DEF Inv
  <2>2. \A q \in Procs : Mine(q)' = Mine(q)
    BY <2>1 DEF Mine
  <2>3. \A f, q : q \in Procs => HasToken(f, q)' = HasToken(f', q)
    BY <2>2 DEF HasToken, Readable
  <2>4. \/ lock' = lock
        \/ lock = NoFile /\ lock' = Created(p)
        \/ lock' = Filled(lock, p) /\ lock # NoFile
        \/ lock' = NoFile
    <3>1. pc[p] = "writeMain" => lock # NoFile
      BY FilledType DEF Inv, MainKnown
    <3> QED
      BY <1>1, <3>1, StepLock DEF Inv
  <2>5. NotFromNextAttempt'
    <3>1. Created(p).rec.attempt = attempt[p] /\ Created(p).rec.pid = p /\ attempt[p] \in Nat
      BY DEF Created, Mine, Inv, TypeOK
    <3>2. lock # NoFile => Filled(lock, p).rec = lock.rec
      BY FilledType DEF Inv, TypeOK
    <3> QED
      BY <2>1, <2>4, <3>1, <3>2 DEF NotFromNextAttempt
  <2>6. ASSUME NEW q \in Procs, Unrecorded(q)' PROVE ~HasToken(lock', q)
    <3>1. CASE q = p
      BY <1>1, <2>6, <3>1, StepUnrecorded
    <3>2. CASE q # p
      <4>1. Unrecorded(q)
        BY <2>1, <2>6, <3>2 DEF Unrecorded
      <4>2. ~HasToken(lock, q)
        BY <4>1 DEF NoRecordLeft
      <4>3. Mine(p) # Mine(q)
        BY <3>2 DEF Mine
      <4>4. lock' = Filled(lock, p) => lock' = lock \/ (lock' # NoFile => lock'.rec = Mine(p))
        BY DEF Filled
      <4>5. Created(p).rec = Mine(p)
        BY DEF Created
      <4> QED
        BY <2>4, <4>2, <4>3, <4>4, <4>5 DEF HasToken, Readable
    <3> QED
      BY <3>1, <3>2
  <2>7. NoRecordLeft'
    BY <2>2, <2>6 DEF NoRecordLeft, HasToken, Readable
  <2> QED
    BY <2>5, <2>7
<1>2. ASSUME NEW p \in Procs, Begin(p) PROVE NotFromNextAttempt' /\ NoRecordLeft'
  <2>1. /\ pc[p] = "idle" /\ pc' = [pc EXCEPT ![p] = "openGuard"] /\ attempt[p] \in Nat
        /\ attempt' = [attempt EXCEPT ![p] = attempt[p] + 1] /\ UNCHANGED <<lock, after, inc>>
    BY <1>2 DEF Begin, Goto, Inv, TypeOK
  <2>2. pc \in [Procs -> Points] /\ attempt \in [Procs -> Nat]
    BY DEF Inv, TypeOK
  <2>3. NotFromNextAttempt'
    BY <1>0, <2>1, <2>2 DEF NotFromNextAttempt
  <2>4. ~(lock # NoFile /\ lock.rec = Mine(p)')
    BY <1>0, <2>1, <2>2 DEF Mine, NotFromNextAttempt
  <2>5. \A q \in Procs \ {p} : (Unrecorded(q)' => Unrecorded(q)) /\ Mine(q)' = Mine(q)
    BY <2>1, <2>2 DEF Unrecorded, Mine
  <2>6. NoRecordLeft'
    BY <2>1, <2>4, <2>5 DEF NoRecordLeft, HasToken, Readable
  <2> QED
    BY <2>3, <2>6
<1>3. ASSUME NEW p \in Procs, Restart(p) PROVE NotFromNextAttempt' /\ NoRecordLeft'
  <2>1. /\ pc[p] = "dead" /\ pc' = [pc EXCEPT ![p] = "idle"] /\ inc[p] \in Nat
        /\ inc' = [inc EXCEPT ![p] = inc[p] + 1] /\ UNCHANGED <<lock, after, attempt>>
    BY <1>3 DEF Restart, Goto, Inv, TypeOK
  <2>2. pc \in [Procs -> Points] /\ inc \in [Procs -> Nat] /\ NotFromFuture
    BY DEF Inv, TypeOK
  <2>3. NotFromNextAttempt'
    BY <2>1 DEF NotFromNextAttempt
  <2>4. ~(lock # NoFile /\ lock.rec = Mine(p)')
    BY <1>0, <2>1, <2>2 DEF Mine, NotFromFuture
  <2>5. \A q \in Procs \ {p} : (Unrecorded(q)' => Unrecorded(q)) /\ Mine(q)' = Mine(q)
    BY <2>1, <2>2 DEF Unrecorded, Mine
  <2>6. NoRecordLeft'
    BY <2>1, <2>4, <2>5 DEF NoRecordLeft, HasToken, Readable
  <2> QED
    BY <2>3, <2>6
<1>4. ASSUME NEW p \in Procs, Stage(p) \/ Crash(p) PROVE NotFromNextAttempt' /\ NoRecordLeft'
  <2>1. /\ \E l \in {"writing", "dead"} : pc' = [pc EXCEPT ![p] = l]
        /\ \A q \in Procs \ {p} : after'[q] = after[q]
        /\ UNCHANGED <<lock, attempt, inc>>
    BY <1>4 DEF Stage, Crash, Goto, Inv, TypeOK
  <2>2. \A q \in Procs : (Unrecorded(q)' => Unrecorded(q)) /\ Mine(q)' = Mine(q)
    BY <2>1 DEF Unrecorded, Mine, Outside, Inv, TypeOK
  <2> QED
    BY <2>1, <2>2 DEF NotFromNextAttempt, NoRecordLeft, HasToken, Readable
<1>5. ASSUME (\E p \in Procs, t \in Timers : Expire(p, t)) \/ UNCHANGED vars
      PROVE  NotFromNextAttempt' /\ NoRecordLeft'
  <2>1. UNCHANGED <<lock, pc, after, attempt, inc>>
    BY <1>5 DEF Expire, vars
  <2> QED
    BY <2>1 DEF NotFromNextAttempt, NoRecordLeft, HasToken, Readable, Mine, Unrecorded
<1>6. CASE Recover
  BY <1>6 DEF Recover, NotFromNextAttempt, NoRecordLeft, HasToken, Readable
<1> QED
  BY <1>1, <1>2, <1>3, <1>4, <1>5, <1>6 DEF Next

(* As long as analyze.lock can be read back and removed, an attempt that   *)
(* was refused or timed out and a release leave no record behind.          *)
THEOREM NothingLeakedHolds ==
  ASSUME {"unlinkMain", "rereadMain"} \cap Faults = {} PROVE Spec => []NothingLeaked
<1>1. Init => NotFromNextAttempt /\ NoRecordLeft
  BY DEF Init, NotFromNextAttempt, NoRecordLeft, HasToken, Readable
<1>2. Inv /\ NotFromNextAttempt /\ NoRecordLeft /\ [Next]_vars
        => NotFromNextAttempt' /\ NoRecordLeft'
  BY LeftInductive
<1>3. NoRecordLeft => NothingLeaked
  BY DEF NoRecordLeft, NothingLeaked, Unrecorded
<1> QED
  BY <1>1, <1>2, <1>3, InvHolds, PTL DEF Spec

=============================================================================
