--------------------------- MODULE AutoSyncProofs ---------------------------
(***************************************************************************)
(* Automatic sync, in two parts.                                           *)
(*                                                                         *)
(* The mutex that keeps it to one process per home (FileLock), for any     *)
(* number of processes, levels and restarts, as long as a renamed file can *)
(* be read back.  Whoever is between the publication of a file and its own *)
(* removal of it finds its identity in that file (Claims).  A file is      *)
(* removed by its owner or as stale; the latter under a guard, so nobody   *)
(* else removes or replaces a file between judgement and removal (Judged), *)
(* and what was dead when it was judged is dead for ever, because start    *)
(* times only grow (Born).                                                 *)
(*                                                                         *)
(* The sync itself (AutoSync): it records nothing it has not indexed, and  *)
(* pauses no commit for the failures of another; for any repositories, any *)
(* number of commits, any threshold, whatever outlives its parent and      *)
(* however often the watch dies.                                           *)
(***************************************************************************)
EXTENDS FileLock, AutoSync, TLAPS

-----------------------------------------------------------------------------
(* The mutex: what each process knows.                                     *)

\* Where a process counts on the file of its level.
Claims ==
  \A p \in Procs :
    /\ pc[p] = "held" => lvl[p] = 0
    /\ pc[p] \in {"read", "rm"} => lvl[p] > 0
    /\ pc[p] \in {"held", "read", "rm", "relMove"} => lock[lvl[p]] = Mine(p)
    /\ pc[p] = "relRead" /\ lvl[p] = 0 => lock[0] = Mine(p)
    /\ pc[p] = "relCheck" => moved[p] = Mine(p)

\* A process about to remove a file has that file, of a dead owner, below its guard.
Judged ==
  \A p \in Procs : pc[p] = "rm" =>
    /\ lock[lvl[p] - 1] # NoFile
    /\ Stale(p, lock[lvl[p] - 1])

\* No file is of a process yet to be born.
Born == \A l \in Levels : lock[l] # NoFile => lock[l].inc <= births

\* The inductive invariant.
MutexInv == MutexTypeOK /\ Born /\ Claims /\ Judged

\* What one process does, a renamed file it cannot read included.
Acts(p) == Step(p) \/ Illegible(p)

\* No file, no process at work.
LEMMA InitMutexInv == MutexInit => MutexInv
BY LevelsAssumption
DEF MutexInit, MutexInv, MutexTypeOK, Born, Claims, Judged, Levels, Controls, Owners

\* A step is one process acting; the history is typed whatever it does.
LEMMA OneActs ==
  ASSUME MutexNext
  PROVE  \E p \in Procs : Acts(p)
BY DEF MutexNext, Acts

\* The history is typed whatever the step.
LEMMA HistoryTyped ==
  ASSUME MutexNext, MutexTypeOK
  PROVE  excused' \in [Procs -> BOOLEAN]
<1>1. CASE excused' = [p \in Procs |-> Trying(p)' /\ (excused[p] \/ Excuse(p))]
  BY <1>1
<1>2. CASE \E p \in Procs : excused' = [excused EXCEPT ![p] = Trying(p)']
  BY <1>2 DEF MutexTypeOK, Trying
<1>3. QED
  BY <1>1, <1>2 DEF MutexNext

\* The release of a guard after a removal goes one level down ...
Down(p) ==
  /\ lvl[p] > 0
  /\ pc' = [pc EXCEPT ![p] = "link"]
  /\ lvl' = [lvl EXCEPT ![p] = lvl[p] - 1]

\* ... or the attempt ends at level 0.
Ends(p) ==
  /\ pc' = [pc EXCEPT ![p] = "idle"]
  /\ lvl' = [lvl EXCEPT ![p] = 0]

\* Both ways of giving a level back are typed.
LEMMA ReleasedTyped ==
  ASSUME NEW p \in Procs, MutexTypeOK, Down(p) \/ Ends(p)
  PROVE  pc' \in [Procs -> Controls] /\ lvl' \in [Procs -> Levels]
<1>1. CASE Down(p)
  BY <1>1, LevelsAssumption DEF Down, MutexTypeOK, Controls, Levels
<1>2. CASE Ends(p)
  BY <1>2, LevelsAssumption DEF Ends, MutexTypeOK, Controls, Levels
<1>3. QED
  BY <1>1, <1>2

\* A step keeps the types.
LEMMA ActsTyped ==
  ASSUME NEW p \in Procs, MutexTypeOK, Claims, Acts(p), excused' \in [Procs -> BOOLEAN]
  PROVE  MutexTypeOK'
<1> USE LevelsAssumption DEF MutexTypeOK, Levels, Controls, Owners, Goto
<1>1. CASE Begin(p) BY <1>1 DEF Begin
<1>2. CASE Link(p)
  <2>1. Mine(p) \in Owners
    BY DEF Mine
  <2>2. QED
    BY <1>2, <2>1 DEF Link
<1>3. CASE Conflict(p) BY SMTT(30), <1>3 DEF Conflict
<1>4. CASE Read(p) BY <1>4 DEF Read
<1>5. CASE Rm(p) BY <1>5 DEF Rm, Claims
<1>6. CASE Release(p) BY <1>6 DEF Release
<1>7. CASE RelRead(p)
  <2>1. CASE lock[lvl[p]] = Mine(p) BY <1>7, <2>1 DEF RelRead
  <2>2. CASE lock[lvl[p]] # Mine(p)
    <3>1. Down(p) \/ Ends(p) BY <1>7, <2>2 DEF RelRead, Released, Down, Ends
    <3>2. QED BY <1>7, <3>1, ReleasedTyped DEF RelRead
  <2>3. QED BY <2>1, <2>2
<1>8. CASE RelMove(p)
  <2>1. CASE lock[lvl[p]] = NoFile
    <3>1. Down(p) \/ Ends(p) BY <1>8, <2>1 DEF RelMove, Released, Down, Ends
    <3>2. QED BY <1>8, <3>1, ReleasedTyped DEF RelMove
  <2>2. CASE lock[lvl[p]] # NoFile BY <1>8, <2>2 DEF RelMove
  <2>3. QED BY <2>1, <2>2
<1>9. CASE RelCheck(p)
  <2>1. Down(p) \/ Ends(p) BY <1>9 DEF RelCheck, Released, Down, Ends
  <2>2. QED BY <1>9, <2>1, ReleasedTyped DEF RelCheck
<1>10. CASE Die(p) BY <1>10 DEF Die
<1>11. CASE Restart(p) BY <1>11 DEF Restart
<1>12. CASE Illegible(p)
  <2>1. CASE pc[p] = "read" BY <1>12, <2>1 DEF Illegible
  <2>2. CASE pc[p] = "relRead"
    <3>1. Down(p) \/ Ends(p) BY <1>12, <2>2 DEF Illegible, Released, Down, Ends
    <3>2. QED BY <1>12, <2>2, <3>1, ReleasedTyped DEF Illegible
  <2>3. QED BY <1>12, <2>1, <2>2 DEF Illegible
<1>13. QED
  BY <1>1, <1>2, <1>3, <1>4, <1>5, <1>6, <1>7, <1>8, <1>9, <1>10, <1>11, <1>12
  DEF Acts, Step

\* A step keeps what each process finds of its own on disk.
LEMMA ActsClaims ==
  ASSUME "reread" \notin FileFaults, MutexInv, NEW p \in Procs, Acts(p), MutexTypeOK'
  PROVE  (Born /\ Claims)'
<1> USE LevelsAssumption, NoFileAssumption
    DEF MutexInv, MutexTypeOK, Levels, Owners, Goto, Born, Claims, Mine
<1>1. CASE Begin(p) BY <1>1 DEF Begin
<1>2. CASE Link(p) BY <1>2 DEF Link
<1>3. CASE Conflict(p) BY <1>3 DEF Conflict
<1>4. CASE Read(p) BY <1>4 DEF Read
<1>5. CASE Rm(p)
  <2>1. Born' BY <1>5 DEF Rm
  <2>2. \A q \in Procs : pc[q] # "dead" => lock[lvl[p] - 1] # Mine(q)
    BY <1>5 DEF Rm, Judged, Stale, Dead
  <2>3. Claims' BY <1>5, <2>2 DEF Rm
  <2>4. QED BY <2>1, <2>3
<1>6. CASE Release(p) BY <1>6 DEF Release
<1>7. CASE RelRead(p)
  <2>1. CASE lock[lvl[p]] = Mine(p) BY <1>7, <2>1 DEF RelRead
  <2>2. CASE lock[lvl[p]] # Mine(p)
    <3>1. Down(p) \/ Ends(p) BY <1>7, <2>2 DEF RelRead, Released, Down, Ends
    <3>2. QED BY <1>7, <3>1 DEF RelRead, Down, Ends
  <2>3. QED BY <2>1, <2>2
<1>8. CASE RelMove(p)
  <2>1. lock[lvl[p]] = Mine(p) /\ lock[lvl[p]] # NoFile
    <3>1. Mine(p) \in Owners
      BY DEF Mine
    <3>2. QED
      BY <1>8, <3>1 DEF RelMove
  <2>2. QED BY <1>8, <2>1 DEF RelMove
<1>9. CASE RelCheck(p)
  <2>1. UNCHANGED <<lock, inc, births>> BY <1>9 DEF RelCheck
  <2>2. QED
    <3>1. Down(p) \/ Ends(p) BY <1>9 DEF RelCheck, Released, Down, Ends
    <3>2. QED BY <1>9, <2>1, <3>1 DEF RelCheck, Down, Ends
<1>10. CASE Die(p) BY <1>10 DEF Die
<1>11. CASE Restart(p) BY <1>11 DEF Restart
<1>12. CASE Illegible(p)
  <2>1. CASE pc[p] = "read" BY <1>12, <2>1 DEF Illegible
  <2>2. CASE pc[p] = "relRead"
    <3>1. Down(p) \/ Ends(p) BY <1>12, <2>2 DEF Illegible, Released, Down, Ends
    <3>2. QED BY <1>12, <2>2, <3>1 DEF Illegible, Down, Ends
  <2>3. QED BY <1>12, <2>1, <2>2 DEF Illegible
<1>13. QED
  BY <1>1, <1>2, <1>3, <1>4, <1>5, <1>6, <1>7, <1>8, <1>9, <1>10, <1>11, <1>12
  DEF Acts, Step

\* Two processes never write the same file.
LEMMA Distinct ==
  ASSUME NEW p \in Procs, NEW q \in Procs, Mine(p) = Mine(q)
  PROVE  p = q
BY DEF Mine

\* A process about to remove a file has the guard over it.
LEMMA JudgeHas ==
  ASSUME MutexInv, NEW q \in Procs, pc[q] = "rm"
  PROVE  /\ lvl[q] - 1 \in Levels
         /\ lock[lvl[q]] = Mine(q)
         /\ lock[lvl[q] - 1] \in Owners
         /\ lock[lvl[q] - 1].inc <= births
         /\ Stale(q, lock[lvl[q] - 1])
<1>1. lvl[q] > 0 /\ lvl[q] - 1 \in Levels
  BY LevelsAssumption DEF MutexInv, Claims, MutexTypeOK, Levels
<1>2. lock[lvl[q] - 1] # NoFile /\ Stale(q, lock[lvl[q] - 1])
  BY DEF MutexInv, Judged
<1>3. lock[lvl[q] - 1] \in Owners
  BY <1>1, <1>2 DEF MutexInv, MutexTypeOK
<1>4. lock[lvl[q]] = Mine(q)
  BY DEF MutexInv, Claims
<1>5. lock[lvl[q] - 1].inc <= births
  BY <1>1, <1>2 DEF MutexInv, Born
<1>6. QED
  BY <1>1, <1>2, <1>3, <1>4, <1>5

\* A file judged stale stays so while it stays and the dead stay dead.
LEMMA StaysStale ==
  ASSUME MutexInv, NEW q \in Procs, pc[q] = "rm", lvl'[q] = lvl[q],
         lock'[lvl[q] - 1] = lock[lvl[q] - 1],
         inc' = inc, \A r \in Procs : pc[r] = "dead" => pc'[r] = "dead"
  PROVE  (lock[lvl[q] - 1] # NoFile /\ Stale(q, lock[lvl[q] - 1]))'
<1>1. lock[lvl[q] - 1] \in Owners /\ Stale(q, lock[lvl[q] - 1])
  BY JudgeHas
<1>2. lock[lvl[q] - 1].proc \in Procs
  BY <1>1 DEF Owners
<1>3. QED
  BY <1>1, <1>2, NoFileAssumption DEF Stale, Dead

\* Two processes about to remove a file are about to remove different ones.
LEMMA JudgesDiffer ==
  ASSUME MutexInv, NEW p \in Procs, NEW q \in Procs, p # q, pc[p] = "rm", pc[q] = "rm"
  PROVE  lvl[q] - 1 # lvl[p] - 1
<1>1. lock[lvl[p]] = Mine(p) /\ lock[lvl[q]] = Mine(q)
  BY JudgeHas
<1>2. lvl[p] # lvl[q]
  BY <1>1, Distinct
<1>3. lvl[p] \in Nat /\ lvl[q] \in Nat
  BY LevelsAssumption DEF MutexInv, MutexTypeOK, Levels
<1>4. QED
  BY <1>2, <1>3

\* A file about to be removed as stale is touched by nobody else: a link needs
\* a free name, a release finds its own live identity, and a second judge of
\* the same level would hold the same guard.
LEMMA ActsJudged ==
  ASSUME "reread" \notin FileFaults, MutexInv, NEW p \in Procs, Acts(p), MutexTypeOK', Claims'
  PROVE  Judged'
<1> SUFFICES ASSUME NEW q \in Procs, pc'[q] = "rm"
             PROVE  (lock[lvl[q] - 1] # NoFile /\ Stale(q, lock[lvl[q] - 1]))'
  BY DEF Judged
<1> USE LevelsAssumption, NoFileAssumption
    DEF MutexInv, MutexTypeOK, Levels, Owners, Goto, Claims, Mine, Stale, Dead
<1>1. CASE Begin(p) BY <1>1 DEF Begin, Judged
<1>2. CASE Link(p) BY <1>2 DEF Link, Judged
<1>3. CASE Conflict(p) BY <1>3 DEF Conflict, Judged
<1>4. CASE Read(p) BY SMTT(30), <1>4 DEF Read, Judged
<1>5. CASE Rm(p)
  <2>1. q # p /\ pc[q] = "rm" /\ lvl'[q] = lvl[q]
    BY <1>5 DEF Rm
  <2>2. pc[p] = "rm" /\ lvl[q] - 1 # lvl[p] - 1 /\ lvl[q] - 1 \in Levels
    <3>1. pc[p] = "rm"
      BY <1>5 DEF Rm
    <3>2. lvl[q] - 1 # lvl[p] - 1
      BY <2>1, <3>1, JudgesDiffer
    <3>3. lvl[q] - 1 \in Levels
      BY <2>1, JudgeHas
    <3>4. QED
      BY <3>1, <3>2, <3>3
  <2>3. lock'[lvl[q] - 1] = lock[lvl[q] - 1]
    BY <1>5, <2>2 DEF Rm
  <2>4. inc' = inc /\ \A r \in Procs : pc[r] = "dead" => pc'[r] = "dead"
    BY <1>5 DEF Rm
  <2>5. QED
    BY <2>1, <2>3, <2>4, StaysStale
<1>6. CASE Release(p) BY <1>6 DEF Release, Judged
<1>7. CASE RelRead(p)
  <2>1. q # p /\ pc[q] = "rm" /\ lvl'[q] = lvl[q] /\ inc' = inc
    BY <1>7 DEF RelRead, Released
  <2>2. \A r \in Procs : pc[r] = "dead" => pc'[r] = "dead"
    BY <1>7 DEF RelRead, Released
  <2>3. lock' = lock
    BY <1>7 DEF RelRead
  <2>4. QED
    BY <2>1, <2>2, <2>3, StaysStale
<1>8. CASE RelMove(p)
  <2>1. q # p /\ pc[q] = "rm" /\ lvl'[q] = lvl[q] /\ inc' = inc
    BY <1>8 DEF RelMove, Released
  <2>2. \A r \in Procs : pc[r] = "dead" => pc'[r] = "dead"
    BY <1>8 DEF RelMove, Released
  <2>3. lvl[q] - 1 # lvl[p]
    <3>1. lock[lvl[p]] = Mine(p) /\ pc[p] # "dead"
      BY <1>8 DEF RelMove
    <3>2. Stale(q, lock[lvl[q] - 1])
      BY <2>1 DEF Judged
    <3>3. ~Dead(Mine(p))
      BY <3>1 DEF Dead, Mine
    <3>4. QED
      BY <3>1, <3>2, <3>3 DEF Stale
  <2>4. lock'[lvl[q] - 1] = lock[lvl[q] - 1]
    BY <1>8, <2>1, <2>3 DEF RelMove
  <2>5. QED
    BY <2>1, <2>2, <2>4, StaysStale
<1>9. CASE RelCheck(p)
  <2>1. q # p /\ pc[q] = "rm" /\ lvl'[q] = lvl[q] /\ inc' = inc
    BY <1>9 DEF RelCheck, Released
  <2>2. \A r \in Procs : pc[r] = "dead" => pc'[r] = "dead"
    BY <1>9 DEF RelCheck, Released
  <2>3. lock' = lock
    BY <1>9 DEF RelCheck
  <2>4. QED
    BY <2>1, <2>2, <2>3, StaysStale
<1>10. CASE Die(p) BY <1>10 DEF Die, Judged
<1>11. CASE Restart(p)
  <2>1. pc[q] = "rm" /\ lvl'[q] = lvl[q] /\ lock' = lock
    BY <1>11 DEF Restart
  <2>2. lock[lvl[q] - 1] \in Owners /\ lock[lvl[q] - 1].inc # births + 1
    <3>1. lock[lvl[q] - 1] \in Owners /\ lock[lvl[q] - 1].inc <= births
      BY <2>1, JudgeHas
    <3>2. QED
      BY <3>1
  <2>3. QED
    BY <1>11, <2>1, <2>2 DEF Restart, Judged
<1>12. CASE Illegible(p)
  <2>1. q # p /\ pc[q] = "rm" /\ lvl'[q] = lvl[q] /\ inc' = inc
    BY <1>12 DEF Illegible, Released
  <2>2. \A r \in Procs : pc[r] = "dead" => pc'[r] = "dead"
    BY <1>12 DEF Illegible, Released
  <2>3. lock' = lock
    BY <1>12 DEF Illegible
  <2>4. QED
    BY <2>1, <2>2, <2>3, StaysStale
<1>13. QED
  BY <1>1, <1>2, <1>3, <1>4, <1>5, <1>6, <1>7, <1>8, <1>9, <1>10, <1>11, <1>12
  DEF Acts, Step

\* Every step keeps the inductive invariant.
LEMMA StepMutexInv ==
  ASSUME "reread" \notin FileFaults, MutexInv, [MutexNext]_mutexVars
  PROVE  MutexInv'
<1>1. CASE MutexNext
  <2>1. PICK p \in Procs : Acts(p)
    BY <1>1, OneActs
  <2>2. MutexTypeOK'
    BY <1>1, <2>1, HistoryTyped, ActsTyped DEF MutexInv
  <2>3. QED
    BY <2>1, <2>2, ActsClaims, ActsJudged DEF MutexInv
<1>2. CASE UNCHANGED mutexVars
  BY <1>2
  DEF mutexVars, MutexInv, MutexTypeOK, Born, Claims, Judged, Mine, Stale, Dead
<1>3. QED
  BY <1>1, <1>2

\* Types, and the strengthened invariant behind everything below, hold as long
\* as a release can read back the file it has renamed.
THEOREM Invariance ==
  ASSUME "reread" \notin FileFaults
  PROVE  MutexSpec => []MutexInv
<1>1. MutexInit => MutexInv
  BY InitMutexInv
<1>2. MutexInv /\ [MutexNext]_mutexVars => MutexInv'
  BY StepMutexInv
<1>3. QED
  BY <1>1, <1>2, PTL DEF MutexSpec

\* The state stays in its types: no level below the first, no pid unborn.
THEOREM TypeCorrect ==
  ASSUME "reread" \notin FileFaults
  PROVE  MutexSpec => []MutexTypeOK
BY Invariance, PTL DEF MutexInv

\* The safety properties follow from the inductive invariant.
LEMMA Consequences ==
  ASSUME MutexInv
  PROVE  MutualExclusion /\ OneJudge /\ RemovesWhatItJudged /\ HolderOnDisk
<1>1. HolderOnDisk
  BY DEF MutexInv, Claims, HolderOnDisk
<1>2. MutualExclusion
  BY <1>1, Distinct DEF HolderOnDisk, MutualExclusion
<1>3. OneJudge
  BY Distinct DEF MutexInv, Claims, OneJudge, Judging
<1>4. RemovesWhatItJudged
  BY DEF MutexInv, Judged, RemovesWhatItJudged
<1>5. QED
  BY <1>1, <1>2, <1>3, <1>4

\* At most one process holds the mutex of automatic sync, for any number of
\* processes and hosts, through crashes, pid reuse and failing removals.
THEOREM MutualExclusionHolds ==
  ASSUME "reread" \notin FileFaults
  PROVE  MutexSpec => []MutualExclusion
BY Invariance, Consequences, PTL

\* At every level at most one process judges: guards are locks too, however
\* many of them a chain of crashes has left behind.
THEOREM OneJudgeHolds ==
  ASSUME "reread" \notin FileFaults
  PROVE  MutexSpec => []OneJudge
BY Invariance, Consequences, PTL

\* A file removed as stale is the dead owner's that was judged.
THEOREM RemovesWhatItJudgedHolds ==
  ASSUME "reread" \notin FileFaults
  PROVE  MutexSpec => []RemovesWhatItJudged
BY Invariance, Consequences, PTL

\* A live holder's file stays on disk until the holder gives it back.
THEOREM HolderOnDiskHolds ==
  ASSUME "reread" \notin FileFaults
  PROVE  MutexSpec => []HolderOnDisk
BY Invariance, Consequences, PTL

-----------------------------------------------------------------------------
(* The refinement.                                                         *)

\* A holder finds its own file at level 0.
LEMMA HoldsOwn ==
  ASSUME MutexInv, NEW p \in Procs, Holds(p)
  PROVE  lvl[p] = 0 /\ lock[0] = Mine(p)
BY DEF MutexInv, Claims, Holds

\* One process holds at a time.
OneHolds == \A p, q \in Procs : Holds(p) /\ Holds(q) => p = q

\* ... which the inductive invariant implies.
LEMMA HoldsOnce ==
  ASSUME MutexInv
  PROVE  OneHolds
BY HoldsOwn, Distinct DEF OneHolds

\* The mapped owner is the one that holds.
LEMMA OwnerIs ==
  ASSUME OneHolds, NEW p \in Procs, Holds(p)
  PROVE  Owner = p
BY DEF Owner, OneHolds

\* Nobody holds: the mapped owner is nobody.
LEMMA NoOwnerIs ==
  ASSUME \A p \in Procs : ~Holds(p)
  PROVE  Owner = NoFile
BY DEF Owner

\* A step makes nobody else a holder and takes the lock from nobody else.
LEMMA OthersStay ==
  ASSUME MutexInv, NEW p \in Procs, Acts(p)
  PROVE  \A q \in Procs \ {p} : Holds(q)' <=> Holds(q)
<1>1. \A q \in Procs \ {p} : pc'[q] = pc[q] /\ lvl'[q] = lvl[q]
  BY DEF MutexInv, MutexTypeOK, Acts, Step, Goto, Begin, Link, Conflict, Read, Rm,
         Release, RelRead, RelMove, RelCheck, Die, Restart, Illegible, Released
<1>2. QED
  BY <1>1 DEF Holds

\* The mutex implements the abstract lock: seen through Owner, every step grants
\* a free lock, gives it up by its owner, or stutters.
THEOREM Refinement ==
  ASSUME "reread" \notin FileFaults
  PROVE  MutexSpec => ImplementsIndexLock
<1>1. MutexInit => Abstract!Init
  BY NoOwnerIs DEF MutexInit, Abstract!Init, Holds
<1>2. MutexInv /\ OneHolds /\ OneHolds' /\ [MutexNext]_mutexVars => [Abstract!Next]_Owner
  <2> SUFFICES ASSUME MutexInv, OneHolds, OneHolds', [MutexNext]_mutexVars
               PROVE  Abstract!Next \/ Owner' = Owner
    OBVIOUS
  <2>1. ASSUME \A q \in Procs : Holds(q)' <=> Holds(q)
        PROVE  Owner' = Owner
    <3>1. CASE \E q \in Procs : Holds(q)
      <4> PICK q \in Procs : Holds(q)
        BY <3>1
      <4>1. Owner = q
        BY OwnerIs
      <4>2. Owner' = q
        BY <2>1 DEF OneHolds, Owner
      <4> QED
        BY <4>1, <4>2
    <3>2. CASE \A q \in Procs : ~Holds(q)
      <4>1. Owner = NoFile
        BY <3>2 DEF Owner
      <4>2. Owner' = NoFile
        BY <2>1, <3>2 DEF Owner
      <4> QED
        BY <4>1, <4>2
    <3> QED
      BY <3>1, <3>2
  <2>2. ASSUME NEW p \in Procs, Acts(p)
        PROVE  Abstract!Next \/ Owner' = Owner
    <3>0. \A q \in Procs \ {p} : Holds(q)' <=> Holds(q)
      BY <2>2, OthersStay
    <3>1. CASE Holds(p) /\ ~Holds(p)'
      <4>1. Owner = p
        BY <3>1, OwnerIs
      <4>2. \A q \in Procs : ~Holds(q)'
        BY <3>0, <3>1 DEF OneHolds
      <4>3. Owner' = NoFile
        BY <4>2 DEF Owner
      <4> QED
        BY <4>1, <4>3 DEF Abstract!Next, Abstract!GiveUp
    <3>2. CASE ~Holds(p) /\ Holds(p)'
      <4>1. Owner' = p
        BY <3>2 DEF OneHolds, Owner
      <4>2. \A q \in Procs : ~Holds(q)
        BY <3>0, <3>2 DEF OneHolds
      <4>3. Owner = NoFile
        BY <4>2, NoOwnerIs
      <4> QED
        BY <4>1, <4>3 DEF Abstract!Next, Abstract!Grant
    <3>3. CASE Holds(p)' <=> Holds(p)
      BY <2>1, <3>0, <3>3
    <3> QED
      BY <3>1, <3>2, <3>3
  <2>3. CASE MutexNext
    BY <2>2, <2>3, OneActs
  <2>4. CASE UNCHANGED mutexVars
    BY <2>1, <2>4 DEF mutexVars, Holds
  <2> QED
    BY <2>3, <2>4
<1>3. MutexInv => OneHolds
  BY HoldsOnce
<1> QED
  BY <1>1, <1>2, <1>3, Invariance, PTL DEF MutexSpec, ImplementsIndexLock, Abstract!Spec

-----------------------------------------------------------------------------
(* Who is refused.                                                         *)

\* While nothing justifies a refusal of p it is alone: every level it has found
\* taken is taken, but for the one whose file it has just removed.
Alone(p) ==
  /\ pc[p] \in {"link", "read", "rm"} => \A l \in Levels : l < lvl[p] => lock[l] # NoFile
  /\ pc[p] \in {"relRead", "relMove", "relCheck"} /\ lvl[p] > 0 =>
       removed[p] /\ \A l \in Levels : l + 1 < lvl[p] => lock[l] # NoFile

\* An attempt that nothing excuses is alone.
Climbing == \A p \in Procs : ~excused[p] => Alone(p)

\* An attempt begins at the lock itself.
Grounded == \A p \in Procs : ~Trying(p) => lvl[p] = 0

\* A process that tries nothing is at level 0.
LEMMA ActsGrounded ==
  ASSUME MutexTypeOK, Grounded, NEW p \in Procs, Acts(p)
  PROVE  Grounded'
BY DEF MutexTypeOK, Grounded, Trying, Acts, Step, Goto, Begin, Link, Conflict, Read, Rm,
       Release, RelRead, RelMove, RelCheck, Die, Restart, Illegible, Released

\* A process moves nothing of the others, and without an attempt no file.
LEMMA OthersKeep ==
  ASSUME MutexTypeOK, NEW p \in Procs, Acts(p)
  PROVE  /\ \A q \in Procs \ {p} : pc'[q] = pc[q] /\ lvl'[q] = lvl[q] /\ removed'[q] = removed[q]
         /\ ~Trying(p) \/ Illegible(p) => lock' = lock
<1> USE DEF MutexTypeOK, Goto
<1>1. CASE Begin(p) \/ Link(p) \/ Conflict(p) \/ Read(p) \/ Rm(p)
  BY <1>1 DEF Begin, Link, Conflict, Read, Rm, Trying, Illegible
<1>2. CASE Release(p) \/ Die(p) \/ Restart(p) \/ Illegible(p)
  BY <1>2 DEF Release, Die, Restart, Illegible, Released
<1>3. CASE RelRead(p) \/ RelMove(p) \/ RelCheck(p)
  BY <1>3 DEF RelRead, RelMove, RelCheck, Released, Trying, Illegible
<1>4. QED
  BY <1>1, <1>2, <1>3 DEF Acts, Step

\* What p does alone.
LEMMA AloneStep ==
  ASSUME MutexInv, Grounded, NEW p \in Procs, Alone(p), Step(p), ~Excuse(p)
  PROVE  Alone(p)'
<1> USE LevelsAssumption DEF MutexInv, MutexTypeOK, Levels, Goto, Alone
<1>1. CASE Begin(p)
  BY <1>1 DEF Begin, Grounded, Trying
<1>2. CASE Link(p)
  BY <1>2 DEF Link
<1>3. CASE Conflict(p)
  BY <1>3 DEF Conflict
<1>4. CASE Read(p)
  <2>1. lvl[p] > 0 /\ lvl[p] - 1 \in Levels
    BY <1>4 DEF Read, Claims
  <2>2. lock[lvl[p] - 1] # NoFile
    BY <1>4, <2>1 DEF Read
  <2>3. Stale(p, lock[lvl[p] - 1])
    BY <1>4, <2>2 DEF Read, Excuse, Blocks, Stale
  <2>4. pc'[p] = "rm" /\ lock' = lock /\ lvl' = lvl
    BY <1>4, <2>2, <2>3 DEF Read
  <2>5. QED
    BY <1>4, <2>4 DEF Read
<1>5. CASE Rm(p)
  <2>1. removed'[p] = TRUE
    BY <1>5 DEF Rm, Excuse
  <2>2. /\ pc[p] = "rm" /\ pc'[p] = "relRead" /\ lvl' = lvl
        /\ \A l \in Levels : l + 1 < lvl[p] => lock'[l] = lock[l]
    BY <1>5 DEF Rm
  <2>3. pc'[p] \notin {"link", "read", "rm", "relMove", "relCheck"}
    BY <2>2
  <2>4. lvl[p] > 0 => \A l \in Levels : l + 1 < lvl[p] => lock[l] # NoFile
    <3>1. pc[p] = "rm"
      BY <2>2
    <3>2. \A l \in Levels : l < lvl[p] => lock[l] # NoFile
      BY <3>1
    <3>3. \A l \in Levels : l + 1 < lvl[p] => l < lvl[p]
      OBVIOUS
    <3>4. QED
      BY <3>2, <3>3
  <2>5. lvl'[p] > 0 => removed'[p] /\ \A l \in Levels : l + 1 < lvl'[p] => lock'[l] # NoFile
    BY <2>1, <2>2, <2>4
  <2>6. QED
    BY <2>3, <2>5
<1>6. CASE Release(p)
  BY <1>6 DEF Release, Claims
<1>7. CASE RelRead(p) \/ RelCheck(p)
  <2>1. /\ pc[p] \in {"relRead", "relCheck"} /\ removed' = removed
        /\ \A l \in Levels : l + 1 < lvl[p] => lock'[l] = lock[l]
        /\ (pc'[p] = "relMove" /\ lvl' = lvl) \/ Down(p) \/ Ends(p)
        /\ Down(p) => removed[p]
    <3>1. /\ pc[p] \in {"relRead", "relCheck"} /\ removed' = removed
          /\ \A l \in Levels : l + 1 < lvl[p] => lock'[l] = lock[l]
      <4>1. CASE RelRead(p)
        BY <4>1 DEF RelRead
      <4>2. CASE RelCheck(p)
        <5>1. lock' = lock \/ lock' = [lock EXCEPT ![lvl[p]] = moved[p]]
          BY <4>2 DEF RelCheck
        <5>2. \A l \in Levels : l + 1 < lvl[p] => lock'[l] = lock[l]
          BY <5>1
        <5>3. QED
          BY <4>2, <5>2 DEF RelCheck
      <4>3. QED
        BY <1>7, <4>1, <4>2
    <3>2. Released(p) => Ends(p) \/ (Down(p) /\ removed[p])
      BY DEF Released, Down, Ends
    <3>3. CASE RelRead(p)
      <4>1. (pc'[p] = "relMove" /\ lvl' = lvl) \/ Released(p)
        BY <3>3 DEF RelRead
      <4>2. (pc'[p] = "relMove" /\ lvl' = lvl) => ~Down(p)
        BY DEF Down
      <4>3. Ends(p) => ~Down(p)
        BY DEF Down, Ends
      <4>4. QED
        BY <3>1, <3>2, <4>1, <4>2, <4>3
    <3>4. CASE RelCheck(p)
      <4>1. Released(p)
        BY <3>4 DEF RelCheck
      <4>2. Ends(p) => ~Down(p)
        BY DEF Down, Ends
      <4>3. QED
        BY <3>1, <3>2, <4>1, <4>2
    <3>5. QED
      BY <1>7, <3>3, <3>4
  <2>2. CASE Down(p)
    <3>1. pc'[p] = "link" /\ lvl'[p] = lvl[p] - 1 /\ lvl[p] > 0
      BY <2>2 DEF Down
    <3>2. QED
      BY <2>1, <3>1
  <2>3. CASE Ends(p)
    BY <2>3 DEF Ends
  <2>4. QED
    BY <2>1, <2>2, <2>3
<1>8. CASE RelMove(p)
  <2>1. lock[lvl[p]] # NoFile
    <3>1. lock[lvl[p]] = Mine(p)
      BY <1>8 DEF RelMove, Claims
    <3>2. QED
      BY <3>1, NoFileAssumption DEF Mine, Owners
  <2>2. QED
    BY <1>8, <2>1 DEF RelMove
<1>9. CASE Die(p)
  BY <1>9 DEF Die
<1>10. CASE Restart(p)
  BY <1>10 DEF Restart
<1>11. QED
  BY <1>1, <1>2, <1>3, <1>4, <1>5, <1>6, <1>7, <1>8, <1>9, <1>10 DEF Step

\* Every step keeps unexcused attempts alone.
LEMMA ClimbingStep == MutexInv /\ Grounded /\ Climbing /\ [MutexNext]_mutexVars => Grounded' /\ Climbing'
<1> SUFFICES ASSUME MutexInv, Grounded, Climbing, [MutexNext]_mutexVars PROVE Grounded' /\ Climbing'
  OBVIOUS
<1> MutexTypeOK
  BY DEF MutexInv
<1>1. ASSUME NEW p \in Procs, Step(p),
             excused' = [q \in Procs |-> Trying(q)' /\ (excused[q] \/ Excuse(q))]
      PROVE  Grounded' /\ Climbing'
  <2>1. Acts(p)
    BY <1>1 DEF Acts
  <2>2. ASSUME NEW q \in Procs, ~excused'[q] PROVE Alone(q)'
    <3>1. CASE ~Trying(q)'
      BY <3>1 DEF Alone, Trying
    <3>2. CASE Trying(q)'
      <4>1. ~excused[q] /\ ~Excuse(q)
        BY <1>1, <2>2, <3>2
      <4>2. Alone(q)
        BY <4>1 DEF Climbing
      <4>3. CASE q = p
        BY <1>1, <4>1, <4>2, <4>3, AloneStep
      <4>4. CASE q # p
        <5>1. ~Trying(p)
          BY <4>1, <4>4 DEF Excuse
        <5>2. lock' = lock /\ pc'[q] = pc[q] /\ lvl'[q] = lvl[q] /\ removed'[q] = removed[q]
          BY <2>1, <4>4, <5>1, OthersKeep
        <5>3. QED
          BY <4>2, <5>2 DEF Alone
      <4>5. QED
        BY <4>3, <4>4
    <3>3. QED
      BY <3>1, <3>2
  <2>3. QED
    BY <2>1, <2>2, ActsGrounded DEF Climbing
<1>2. ASSUME NEW p \in Procs, Illegible(p), excused' = [excused EXCEPT ![p] = Trying(p)']
      PROVE  Grounded' /\ Climbing'
  <2>1. Acts(p)
    BY <1>2 DEF Acts
  <2>2. ASSUME NEW q \in Procs, ~excused'[q] PROVE Alone(q)'
    <3>1. CASE q = p
      <4>1. ~Trying(p)'
        BY <1>2, <2>2, <3>1 DEF MutexTypeOK
      <4>2. QED
        BY <3>1, <4>1 DEF Alone, Trying
    <3>2. CASE q # p
      <4>1. ~excused[q]
        BY <1>2, <2>2, <3>2 DEF MutexTypeOK
      <4>2. lock' = lock /\ pc'[q] = pc[q] /\ lvl'[q] = lvl[q] /\ removed'[q] = removed[q]
        BY <1>2, <2>1, <3>2, OthersKeep
      <4>3. QED
        BY <4>1, <4>2 DEF Climbing, Alone
    <3>3. QED
      BY <3>1, <3>2
  <2>3. QED
    BY <2>1, <2>2, ActsGrounded DEF Climbing
<1>3. CASE UNCHANGED mutexVars
  BY <1>3 DEF mutexVars, Grounded, Climbing, Alone, Trying
<1>4. QED
  BY <1>1, <1>2, <1>3 DEF MutexNext

\* An attempt that meets nobody, and nothing it cannot judge, is not refused, however
\* many levels of guards the dead have left: each is removed on the way down.
THEOREM RefusedByTheLivingOnlyHolds ==
  ASSUME "reread" \notin FileFaults
  PROVE  MutexSpec => RefusedByTheLivingOnly
<1>1. MutexInit => Grounded /\ Climbing
  BY DEF MutexInit, Grounded, Climbing, Alone, Trying
<1>2. MutexInv /\ Grounded /\ Climbing /\ [MutexNext]_mutexVars => Grounded' /\ Climbing'
  BY ClimbingStep
<1>3. MutexInv /\ Climbing /\ [MutexNext]_mutexVars => [\A p \in Procs : Refused(p) => excused[p]]_mutexVars
  <2> SUFFICES ASSUME MutexInv, Climbing, MutexNext, NEW p \in Procs, Refused(p), ~excused[p]
               PROVE  FALSE
    BY DEF MutexInv, MutexTypeOK
  <2> MutexTypeOK
    BY DEF MutexInv
  <2>1. PICK q \in Procs : Acts(q)
    BY OneActs
  <2>2. q = p
    BY <2>1, OthersKeep DEF Refused, Trying
  <2>3. pc[p] \in {"relRead", "relMove", "relCheck"} /\ ~removed[p]
    <3> USE DEF MutexTypeOK, Goto, Refused, Trying
    <3>1. CASE Begin(p) \/ Link(p) \/ Conflict(p) \/ Read(p) \/ Rm(p) \/ Release(p)
      BY <3>1 DEF Begin, Link, Conflict, Read, Rm, Release
    <3>2. CASE RelRead(p) \/ RelMove(p) \/ RelCheck(p)
      BY <3>2 DEF RelRead, RelMove, RelCheck, Released
    <3>3. CASE Die(p) \/ Restart(p) \/ Illegible(p)
      BY <3>3 DEF Die, Restart, Illegible, Released
    <3>4. QED
      BY <2>1, <2>2, <3>1, <3>2, <3>3 DEF Acts, Step
  <2>4. QED
    BY <2>3 DEF Climbing, Alone, Refused
<1>4. QED
  BY <1>1, <1>2, <1>3, Invariance, PTL DEF MutexSpec, RefusedByTheLivingOnly

-----------------------------------------------------------------------------
(* The sync: what is recorded of each repository.                          *)

\* A clone is never ahead of its remote, an index never ahead of its clone.  The
\* commit an orphan builds is not behind the index, which nobody else may write.
Order ==
  \A r \in Repos :
    /\ index[r] <= head[r] /\ head[r] <= remote[r] /\ 0 < remote[r]
    /\ holder[r] # 0 => index[r] <= holder[r] /\ holder[r] <= head[r]

\* What an entry may say of r: nothing the clone or the index has not reached, no
\* failures of a success, and nothing at all of no commit.
Sound(e, r) ==
  /\ e.analyzed <= index[r]
  /\ e.code <= head[r]
  /\ e.status = "success" => e.failures = 0
  /\ e.code = 0 => e.failures = 0 /\ e.status = "none"

Accounts == \A r \in Repos : Sound(disk[r], r) /\ Sound(mem[r], r)

\* A repository is at work in the first phase of a run only, on a commit and with
\* a failure to spare, and that commit is indexed once its worker has reported; the
\* run's copy is the disk's up to its pull, and it is only marked as paused at the
\* commit of the disk.
Pace ==
  \A r \in Repos :
    /\ Working(r) => phase = "repos" /\ mem[r].failures < Threshold /\ mem[r].code # 0
    /\ step[r] = "reported" => mem[r].code <= index[r]
    /\ phase = "repos" /\ step[r] = "todo" => mem[r] = disk[r]
    /\ ~Working(r) /\ mem[r].code # disk[r].code => mem[r].status # "threshold_skipped"

\* Without a watch there is no run, and without a run no copy.
Life ==
  /\ watch = "off" => phase = "none"
  /\ phase = "none" => mem = [r \in Repos |-> NoEntry]

\* The inductive invariant.
IInv == TypeOK /\ Order /\ Accounts /\ Pace /\ Life

-----------------------------------------------------------------------------
(* What is done to an entry.                                               *)

USE ConstantsAssumption DEF Commits, Statuses, Entries

\* A repository not seen before has an entry of the right type.
LEMMA NoEntrySound == NoEntry \in Entries
BY DEF NoEntry

\* A checkout keeps the failures of its own commit only.
LEMMA RefreshedEntry ==
  ASSUME NEW e \in Entries, NEW c \in Commits
  PROVE  /\ Refreshed(e, c) \in Entries
         /\ Refreshed(e, c).code = c /\ Refreshed(e, c).analyzed = e.analyzed
         /\ Refreshed(e, c).status = e.status
         /\ Refreshed(e, c).failures = IF e.code \in {0, c} THEN e.failures ELSE 0
<1> DEFINE f == [e EXCEPT !.code = c, !.failures = IF e.code \in {0, c} THEN @ ELSE 0]
<1>1. f \in Entries
  <2> DEFINE g == [e EXCEPT !.code = c]
  <2>1. g \in Entries /\ g.failures = e.failures
    OBVIOUS
  <2>2. f = [g EXCEPT !.failures = IF e.code \in {0, c} THEN g.failures ELSE 0]
    OBVIOUS
  <2>3. QED
    <3> HIDE DEF f, g
    <3>1. QED
      BY <2>1, <2>2
<1>2. f.code = c /\ f.analyzed = e.analyzed /\ f.status = e.status
  OBVIOUS
<1>3. f.failures = IF e.code \in {0, c} THEN e.failures ELSE 0
  OBVIOUS
<1>4. QED
  BY <1>1, <1>2, <1>3 DEF Refreshed

\* A failure adds one to the count, which must have room for it.
LEMMA FailedEntry ==
  ASSUME NEW e \in Entries, e.failures < Threshold
  PROVE  /\ Failed(e) \in Entries
         /\ Failed(e).code = e.code /\ Failed(e).analyzed = e.analyzed
         /\ Failed(e).status = "failed" /\ Failed(e).failures = e.failures + 1
<1> DEFINE f == [e EXCEPT !.status = "failed", !.failures = @ + 1]
<1>1. f \in Entries
  <2> DEFINE g == [e EXCEPT !.status = "failed"]
  <2>1. g \in Entries /\ g.failures = e.failures
    OBVIOUS
  <2>2. f = [g EXCEPT !.failures = g.failures + 1]
    OBVIOUS
  <2>3. QED
    <3> HIDE DEF f, g
    <3>1. QED
      BY <2>1, <2>2
<1>2. f.code = e.code /\ f.analyzed = e.analyzed
  OBVIOUS
<1>3. f.status = "failed" /\ f.failures = e.failures + 1
  OBVIOUS
<1>4. QED
  BY <1>1, <1>2, <1>3 DEF Failed

\* A success records the commit of the clone as analysed.
LEMMA AnalyzedEntry ==
  ASSUME NEW e \in Entries
  PROVE  /\ Analyzed(e) \in Entries
         /\ Analyzed(e).code = e.code /\ Analyzed(e).analyzed = e.code
         /\ Analyzed(e).status = "success" /\ Analyzed(e).failures = 0
<1> DEFINE f == [e EXCEPT !.status = "success", !.failures = 0, !.analyzed = e.code]
<1>1. f \in Entries
  <2> DEFINE g == [e EXCEPT !.status = "success"]
             h == [g EXCEPT !.failures = 0]
  <2>1. g \in Entries /\ g.code = e.code
    OBVIOUS
  <2>2. h \in Entries /\ h.code = e.code
    <3> HIDE DEF g
    <3>1. QED
      BY <2>1
  <2>3. f = [h EXCEPT !.analyzed = h.code]
    OBVIOUS
  <2>4. QED
    <3> HIDE DEF f, g, h
    <3>1. QED
      BY <2>2, <2>3
<1>2. f.code = e.code /\ f.analyzed = e.code
  OBVIOUS
<1>3. f.status = "success" /\ f.failures = 0
  OBVIOUS
<1>4. QED
  BY <1>1, <1>2, <1>3 DEF Analyzed

\* A repository the registry lost counts as never analysed.
LEMMA UnregisteredEntry ==
  ASSUME NEW e \in Entries, e.failures = 0
  PROVE  /\ Unregistered(e) \in Entries
         /\ Unregistered(e).code = e.code /\ Unregistered(e).analyzed = 0
         /\ Unregistered(e).status = "failed"
<1> DEFINE f == [Failed(e) EXCEPT !.analyzed = 0]
<1>1. /\ Failed(e) \in Entries /\ Failed(e).code = e.code
      /\ Failed(e).status = "failed"
  BY FailedEntry
<1>2. f \in Entries /\ f.code = e.code /\ f.analyzed = 0 /\ f.status = "failed"
  BY <1>1
<1>3. QED
  BY <1>2 DEF Unregistered

\* A new status, or a note of the group, changes nothing else.
LEMMA MarkedEntry ==
  ASSUME NEW e \in Entries, NEW s \in Statuses, NEW b \in BOOLEAN
  PROVE  /\ LET f == [e EXCEPT !.status = s] IN
            /\ f \in Entries /\ f.status = s /\ f.code = e.code
            /\ f.analyzed = e.analyzed /\ f.failures = e.failures
         /\ LET f == [e EXCEPT !.pending = b] IN
            /\ f \in Entries /\ f.status = e.status /\ f.code = e.code
            /\ f.analyzed = e.analyzed /\ f.failures = e.failures
OBVIOUS

-----------------------------------------------------------------------------
(* The world outside the run.                                              *)

\* A server that has just started has recorded nothing.
LEMMA InitIInv == Init => IInv
BY NoEntrySound DEF Init, IInv, TypeOK, Order, Accounts, Sound, Pace, Life, Working,
   Phases, Steps, NoEntry

\* An entry that was sound stays so, as clones and indexes only move on.
LEMMA StaysSound ==
  ASSUME TypeOK, TypeOK', NEW r \in Repos, NEW e \in Entries, Sound(e, r),
         index[r] <= index'[r], head[r] <= head'[r]
  PROVE  Sound(e, r)'
BY DEF TypeOK, Sound

\* Pushes, orphans and the end of a failed pull move no entry.
LEMMA WorldKept ==
  ASSUME IInv, NEW r \in Repos,
         Push(r) \/ OrphanLocks(r) \/ OrphanEnds(r) \/ OrphanGivesUp(r)
  PROVE  IInv'
<1> USE DEF IInv, TypeOK, Order, orphans, world, BuiltBy
<1>1. TypeOK' /\ Order' /\ \A q \in Repos : index[q] <= index'[q] /\ head'[q] = head[q]
  <2>1. CASE Push(r)
    BY <2>1 DEF Push
  <2>2. CASE OrphanLocks(r)
    BY <2>2 DEF OrphanLocks
  <2>3. CASE OrphanEnds(r)
    <3>1. PICK c \in {holder[r], index[r]} : index' = [index EXCEPT ![r] = c]
      BY <2>3 DEF OrphanEnds
    <3>2. index[r] <= c /\ c <= head[r] /\ c \in Commits
      BY <2>3, <3>1 DEF OrphanEnds
    <3>3. QED
      BY <2>3, <3>1, <3>2 DEF OrphanEnds
  <2>4. CASE OrphanGivesUp(r)
    BY <2>4 DEF OrphanGivesUp
  <2>5. QED
    BY <2>1, <2>2, <2>3, <2>4
<1>2. UNCHANGED <<disk, mem, step, phase, watch>>
  BY DEF Push, OrphanLocks, OrphanEnds, OrphanGivesUp
<1>3. Accounts'
  BY <1>1, <1>2, StaysSound DEF Accounts
<1>4. Pace' /\ Life'
  <2>1. \A q \in Repos : step[q] = "reported" => mem[q].code <= index'[q]
    BY <1>1 DEF Pace, Entries
  <2>2. QED
    BY <1>2, <2>1 DEF Pace, Life, Working
<1>5. QED
  BY <1>1, <1>3, <1>4

-----------------------------------------------------------------------------
(* The watch process.                                                      *)

\* Starting, beginning, stopping, and moving on from repository to repository.
LEMMA WatchKept ==
  ASSUME IInv, Start \/ BeginRun \/ Stopped \/ Stop \/ EndCollect
  PROVE  IInv'
<1> USE DEF IInv, TypeOK, Phases, Steps, world, orphans
<1>1. TypeOK' /\ Life' /\ UNCHANGED <<world, disk>>
  BY DEF Start, BeginRun, Stopped, Stop, EndCollect, Life
<1>2. Order' /\ Accounts'
  BY <1>1 DEF Order, Accounts, Sound, Start, BeginRun, Stopped, Stop, EndCollect
<1>3. Pace'
  <2>1. CASE Start \/ BeginRun \/ Stopped
    BY <2>1 DEF Start, BeginRun, Stopped, Pace, Working
  <2>2. CASE Stop
    BY <2>2 DEF Stop, Pace, Working
  <2>3. CASE EndCollect
    BY <2>3 DEF EndCollect, Pace, Working
  <2>4. QED
    BY <2>1, <2>2, <2>3
<1>4. QED
  BY <1>1, <1>2, <1>3

\* What goes with a run: its copy and its steps, but nothing outside it.
LEMMA NoRunKept ==
  ASSUME IInv, NoRun, UNCHANGED <<remote, head, index, holder>>,
         waiter' \in [Repos -> Commits], member' \subseteq Repos, view' \in [Repos -> Commits],
         disk' \in [Repos -> Entries], \A r \in Repos : Sound(disk'[r], r),
         watch' \in {"off", "on", "stopping"}, exits' \in 0 .. MaxExits
  PROVE  IInv'
<1> USE DEF IInv, NoRun
<1>1. TypeOK'
  BY NoEntrySound DEF TypeOK, Phases, Steps
<1>2. Order'
  BY DEF TypeOK, Order
<1>3. Accounts'
  <2>1. \A r \in Repos : Sound(NoEntry, r)
    BY DEF TypeOK, Sound, NoEntry
  <2>2. QED
    BY <2>1 DEF Accounts, Sound
<1>4. Pace' /\ Life'
  BY DEF Pace, Life, Working, NoEntry
<1>5. QED
  BY <1>1, <1>2, <1>3, <1>4

\* A death leaves the state file as it is, and each worker to itself.
LEMMA CrashKept == ASSUME IInv, Crash PROVE IInv'
<1>1. exits' \in 0 .. MaxExits
  BY DEF IInv, TypeOK, Crash
<1>2. \A r \in Repos : Sound(disk[r], r)
  BY DEF IInv, Accounts
<1>3. NoRun /\ disk' = disk
  BY DEF Crash
<1>4. QED
  BY <1>1, <1>2, <1>3, NoRunKept DEF Crash, IInv, TypeOK

\* A reset forgets the state, which nobody uses without the mutex.
LEMMA ResetKept == ASSUME IInv, Reset PROVE IInv'
<1> USE DEF IInv, Reset
<1>1. mem = [r \in Repos |-> NoEntry]
  BY DEF Life
<1>2. TypeOK'
  BY NoEntrySound DEF TypeOK, world, orphans
<1>3. Order' /\ Life'
  BY DEF Order, Life, world, orphans
<1>4. Accounts' /\ Pace'
  BY <1>1 DEF Accounts, Pace, Life, Sound, NoEntry, Working, world, orphans, TypeOK
<1>5. QED
  BY <1>2, <1>3, <1>4

-----------------------------------------------------------------------------
(* A run and one repository.                                               *)

\* What a step of one repository has to show of its new entry and of the world.
LEMMA EntryKept ==
  ASSUME IInv, phase # "none", NEW r \in Repos, NEW e \in Entries, NEW s \in Steps \ {"todo"},
         mem' = [mem EXCEPT ![r] = e], To(r, s), UNCHANGED <<disk, watch, phase, exits>>,
         {remote', head', index', holder', waiter', view'} \subseteq [Repos -> Commits],
         member' \subseteq Repos, due' \subseteq Repos, Order',
         \A q \in Repos : index[q] <= index'[q] /\ head[q] <= head'[q],
         Sound(e, r)',
         s \in {"work", "reported", "cancelling"} =>
           phase = "repos" /\ e.failures < Threshold /\ e.code # 0,
         s = "reported" => e.code <= index'[r],
         s \notin {"work", "reported", "cancelling"} /\ e.code # disk[r].code =>
           e.status # "threshold_skipped"
  PROVE  IInv'
<1> USE DEF IInv, To
<1>1. TypeOK'
  BY DEF TypeOK
<1>2. Accounts'
  <2>1. ASSUME NEW q \in Repos PROVE Sound(disk[q], q)' /\ Sound(mem[q], q)'
    <3>1. Sound(disk[q], q)'
      BY <1>1, StaysSound DEF TypeOK, Accounts
    <3>2. Sound(mem[q], q)'
      <4>1. CASE q = r
        BY <4>1 DEF Sound, TypeOK
      <4>2. CASE q # r
        <5>1. mem'[q] = mem[q]
          BY <4>2 DEF TypeOK
        <5>2. Sound(mem[q], q) /\ mem[q] \in Entries
          BY DEF TypeOK, Accounts
        <5>3. index[q] <= index'[q] /\ head[q] <= head'[q]
          OBVIOUS
        <5>4. QED
          BY <1>1, <5>1, <5>2, <5>3 DEF Sound, TypeOK
      <4>3. QED
        BY <4>1, <4>2
    <3>3. QED
      BY <3>1, <3>2
  <2>2. QED
    BY <2>1 DEF Accounts
<1>3. Pace'
  <2>1. ASSUME NEW q \in Repos, q # r
        PROVE  mem'[q] = mem[q] /\ step'[q] = step[q]
    BY <2>1 DEF TypeOK
  <2>2. mem'[r] = e /\ step'[r] = s
    BY DEF TypeOK
  <2>3. ASSUME NEW q \in Repos, q # r, step[q] = "reported"
        PROVE  mem[q].code <= index'[q]
    <3>1. mem[q].code \in Nat /\ index[q] \in Nat /\ index'[q] \in Nat
      <4>1. index' \in [Repos -> Commits] /\ mem[q] \in Entries /\ index[q] \in Commits
        BY DEF TypeOK
      <4>2. QED
        BY <4>1, ConstantsAssumption DEF Entries, Commits
    <3>2. mem[q].code <= index[q] /\ index[q] <= index'[q]
      BY <2>3 DEF Pace
    <3>3. QED
      BY <3>1, <3>2
  <2>4. QED
    BY <2>1, <2>2, <2>3 DEF Pace, Working
<1>4. Life'
  BY DEF Life
<1>5. QED
  BY <1>1, <1>2, <1>3, <1>4

\* What is to be done of a repository has been read from the disk.
LEMMA PullKept ==
  ASSUME IInv, NEW r \in Repos, Pull(r)
  PROVE  IInv'
<1> DEFINE f == Refreshed(mem[r], remote[r])
<1> USE DEF IInv
<1>1. /\ phase = "repos" /\ step[r] = "todo" /\ mem[r] = disk[r] /\ mem[r] \in Entries
      /\ remote[r] \in Commits /\ 0 < remote[r]
  BY DEF Pull, TypeOK, Order, Pace
<1>2. /\ f \in Entries /\ f.code = remote[r] /\ f.analyzed = mem[r].analyzed
      /\ f.status = mem[r].status
      /\ f.failures = IF mem[r].code \in {0, remote[r]} THEN mem[r].failures ELSE 0
  <2> HIDE DEF Entries, Commits
  <2> QED
    BY <1>1, RefreshedEntry
<1>3. PICK s \in {"synced", "work"}, e \in Entries :
        /\ To(r, s) /\ mem' = [mem EXCEPT ![r] = e]
        /\ e.code = f.code /\ e.analyzed = f.analyzed /\ e.failures = f.failures
        /\ \/ s = "work" /\ e.status = f.status /\ e.failures < Threshold
           \/ s = "synced" /\ e.status = "skipped"
           \/ s = "synced" /\ e.status = "threshold_skipped" /\ e.failures >= Threshold
  <2>1. \/ Blocked(f) /\ To(r, "synced")
           /\ mem' = [mem EXCEPT ![r] = [f EXCEPT !.status = "threshold_skipped"]]
        \/ ~Blocked(f) /\ To(r, "work") /\ mem' = [mem EXCEPT ![r] = f]
        \/ ~Blocked(f) /\ To(r, "synced")
           /\ mem' = [mem EXCEPT ![r] = [f EXCEPT !.status = "skipped"]]
    BY DEF Pull
  <2>2. f.failures \in Nat /\ Threshold \in Nat
    BY <1>2
  <2> HIDE DEF f
  <2>3. CASE /\ Blocked(f) /\ To(r, "synced")
             /\ mem' = [mem EXCEPT ![r] = [f EXCEPT !.status = "threshold_skipped"]]
    <3> DEFINE g == [f EXCEPT !.status = "threshold_skipped"]
    <3>1. /\ g \in Entries /\ g.status = "threshold_skipped" /\ g.code = f.code
          /\ g.analyzed = f.analyzed /\ g.failures = f.failures
      BY <1>2, MarkedEntry
    <3>2. To(r, "synced") /\ mem' = [mem EXCEPT ![r] = g] /\ f.failures >= Threshold
      BY <2>3, <2>2 DEF Blocked
    <3> HIDE DEF g
    <3>3. QED
      BY <3>1, <3>2
  <2>4. CASE ~Blocked(f) /\ To(r, "work") /\ mem' = [mem EXCEPT ![r] = f]
    <3>1. f.failures < Threshold
      BY <2>2, <2>4 DEF Blocked
    <3>2. QED
      BY <1>2, <2>4, <3>1
  <2>5. CASE /\ ~Blocked(f) /\ To(r, "synced")
             /\ mem' = [mem EXCEPT ![r] = [f EXCEPT !.status = "skipped"]]
    <3> DEFINE g == [f EXCEPT !.status = "skipped"]
    <3>1. /\ g \in Entries /\ g.status = "skipped" /\ g.code = f.code
          /\ g.analyzed = f.analyzed /\ g.failures = f.failures
      BY <1>2, MarkedEntry
    <3>2. To(r, "synced") /\ mem' = [mem EXCEPT ![r] = g]
      BY <2>5, <2>2 DEF Blocked
    <3> HIDE DEF g
    <3>3. QED
      BY <3>1, <3>2
  <2>6. QED
    BY <2>1, <2>3, <2>4, <2>5
<1>4. head' = [head EXCEPT ![r] = remote[r]] /\ UNCHANGED <<remote, index, orphans, member, view,
                 disk, watch, phase, due, exits>>
  BY DEF Pull
<1>5. /\ head' \in [Repos -> Commits] /\ \A q \in Repos : head[q] <= head'[q]
      /\ head'[r] = remote[r] /\ Order'
  BY <1>1, <1>4 DEF TypeOK, Order, orphans
<1>6. Sound(mem[r], r) /\ index'[r] = index[r]
  BY <1>4 DEF Accounts
<1> HIDE DEF f
<1>7. Sound(e, r)'
  <2>1. e.analyzed <= index'[r] /\ e.code <= head'[r] /\ e.code # 0
    BY <1>1, <1>2, <1>3, <1>5, <1>6 DEF Sound
  <2>2. e.status = "success" => e.failures = 0
    BY <1>1, <1>2, <1>3, <1>6 DEF Sound
  <2>3. QED
    BY <2>1, <2>2 DEF Sound
<1>8. s = "synced" /\ e.code # disk[r].code => e.status # "threshold_skipped"
  <2>1. mem[r].code = 0 => mem[r].failures = 0
    BY <1>6 DEF Sound
  <2>2. 0 < Threshold
    OBVIOUS
  <2>3. QED
    BY <1>1, <1>2, <1>3, <2>1, <2>2
<1>9. s = "work" => e.failures < Threshold /\ e.code # 0
  BY <1>1, <1>2, <1>3
<1>10. \A q \in Repos : index[q] <= index'[q]
  BY <1>4 DEF TypeOK
<1>11. s \in Steps \ {"todo"}
  BY DEF Steps
<1>12. QED
  BY <1>1, <1>3, <1>4, <1>5, <1>7, <1>8, <1>9, <1>10, <1>11, EntryKept DEF TypeOK, orphans

\* A pull that fails may have moved the clone, and leaves the entry as it was.
LEMMA PullFailsKept ==
  ASSUME IInv, NEW r \in Repos, PullFails(r)
  PROVE  IInv'
<1> USE DEF IInv
<1>1. PICK c \in {head[r], remote[r]} : head' = [head EXCEPT ![r] = c]
  BY DEF PullFails
<1>2. c \in Commits /\ head[r] <= c /\ c <= remote[r] /\ index[r] <= c
  BY DEF TypeOK, Order
<1>3. /\ phase = "repos" /\ mem[r] = disk[r] /\ mem[r] \in Entries
      /\ UNCHANGED <<remote, index, holder, waiter, member, view, disk, watch, phase,
                     mem, due, exits>>
  BY DEF PullFails, Pace, TypeOK, orphans
<1>4. head' \in [Repos -> Commits] /\ Order' /\ \A q \in Repos : head[q] <= head'[q]
  BY <1>1, <1>2, <1>3 DEF TypeOK, Order
<1>5. Sound(mem[r], r)'
  BY <1>1, <1>2, <1>3 DEF Accounts, Sound, TypeOK
<1>6. mem' = [mem EXCEPT ![r] = mem[r]]
  BY <1>3 DEF TypeOK
<1>7. "unsynced" \in Steps \ {"todo"} /\ To(r, "unsynced")
  BY DEF PullFails, Steps
<1>8. \A q \in Repos : index[q] <= index'[q]
  BY <1>3 DEF TypeOK
<1>9. QED
  BY ZenonT(60), <1>1, <1>3, <1>4, <1>5, <1>6, <1>7, <1>8, EntryKept DEF TypeOK

\* A worker that reports has indexed what the run pulled, and counts as nothing yet.
LEMMA WorkerReportsKept ==
  ASSUME IInv, NEW r \in Repos, WorkerReports(r)
  PROVE  IInv'
<1> USE DEF IInv
<1>1. PICK s \in {"reported", "cancelling"} : To(r, s)
  BY DEF WorkerReports
<1>2. /\ step[r] \in {"work", "cancelling"} /\ holder[r] = 0
      /\ index' = [index EXCEPT ![r] = head[r]]
      /\ UNCHANGED <<remote, head, holder, waiter, member, view, disk, watch, phase, mem, due,
                     exits>>
  BY DEF WorkerReports, orphans
<1>3. /\ phase = "repos" /\ mem[r] \in Entries /\ Sound(mem[r], r)
      /\ mem[r].failures < Threshold /\ mem[r].code # 0
  BY <1>2 DEF Pace, TypeOK, Accounts, Working
<1>4. Order' /\ \A q \in Repos : index[q] <= index'[q] /\ head[q] <= head'[q]
  BY <1>2 DEF TypeOK, Order
<1>5. index' \in [Repos -> Commits] /\ index'[r] = head[r] /\ index[r] \in Nat /\ head[r] \in Nat
  BY <1>2 DEF TypeOK, Commits
<1>6. Sound(mem[r], r)' /\ mem[r].code <= index'[r]
  BY <1>2, <1>3, <1>4, <1>5 DEF Sound, Entries, Commits
<1>7. mem' = [mem EXCEPT ![r] = mem[r]] /\ s \in Steps \ {"todo"}
  BY <1>1, <1>2 DEF TypeOK, Steps
<1> HIDE DEF IInv
<1>8. {remote', head', index', holder', waiter', view'} \subseteq [Repos -> Commits]
  BY <1>2, <1>5 DEF TypeOK, IInv
<1>9. phase # "none" /\ member' \subseteq Repos /\ due' \subseteq Repos
  BY <1>2, <1>3 DEF TypeOK, IInv
<1>10. PICK e \in Entries : e = mem[r]
  BY <1>3
<1>11. mem' = [mem EXCEPT ![r] = e] /\ Sound(e, r)' /\ e.code <= index'[r]
       /\ e.failures < Threshold /\ e.code # 0
  BY <1>2, <1>3, <1>6, <1>7, <1>10
<1>12. /\ s \in {"work", "reported", "cancelling"} =>
            phase = "repos" /\ e.failures < Threshold /\ e.code # 0
       /\ s = "reported" => e.code <= index'[r]
       /\ s \notin {"work", "reported", "cancelling"} /\ e.code # disk[r].code =>
            e.status # "threshold_skipped"
  BY <1>1, <1>3, <1>11
<1>13. IInv /\ UNCHANGED <<disk, watch, phase, exits>>
  BY <1>2
<1>14. QED
  BY ZenonT(60), <1>1, <1>4, <1>7, <1>8, <1>9, <1>11, <1>12, <1>13, EntryKept

\* However a worker's part of a run ends, its outcome is counted once.
LEMMA WorkerEndsKept ==
  ASSUME IInv, NEW r \in Repos,
         WorkerSucceeds(r) \/ WorkerFails(r) \/ ChannelFails(r) \/ GraceOver(r)
  PROVE  IInv'
<1> USE DEF IInv
<1>0. Working(r)
  BY DEF WorkerSucceeds, WorkerFails, ChannelFails, GraceOver, Working
<1>1. /\ phase = "repos" /\ mem[r] \in Entries /\ Sound(mem[r], r)
      /\ mem[r].failures < Threshold /\ To(r, "synced") /\ mem[r].code # 0
      /\ UNCHANGED <<remote, head, index, holder, member, view, disk, watch, phase, due, exits>>
  BY <1>0 DEF WorkerSucceeds, WorkerFails, ChannelFails, GraceOver, LeftRunning, Pace, TypeOK,
              Accounts, world, orphans
<1>2. waiter' \in [Repos -> Commits]
  <2>1. CASE WorkerSucceeds(r) \/ WorkerFails(r)
    BY <2>1 DEF WorkerSucceeds, WorkerFails, TypeOK, world, orphans
  <2>2. CASE LeftRunning(r)
    <3>1. PICK c \in LetGo(r) : waiter' = [waiter EXCEPT ![r] = c]
      BY <2>2 DEF LeftRunning
    <3>2. c \in Commits
      BY <1>1, <3>1 DEF LetGo, Orphaned, TypeOK, Entries
    <3>3. QED
      BY <3>1, <3>2 DEF TypeOK
  <2>3. QED
    BY <2>1, <2>2 DEF ChannelFails, GraceOver
<1>3. Order' /\ \A q \in Repos : index[q] <= index'[q] /\ head[q] <= head'[q]
  BY <1>1 DEF Order, TypeOK, Commits
<1>4. PICK e \in {Failed(mem[r]), Analyzed(mem[r])} :
        /\ mem' = [mem EXCEPT ![r] = e]
        /\ e = Failed(mem[r]) \/ WorkerSucceeds(r)
  BY DEF WorkerSucceeds, WorkerFails, ChannelFails, GraceOver, LeftRunning
<1>5. Sound(e, r)' /\ e \in Entries /\ e.status # "threshold_skipped"
  <2>1. CASE e = Failed(mem[r])
    <3>1. /\ e \in Entries /\ e.code = mem[r].code /\ e.analyzed = mem[r].analyzed
          /\ e.status = "failed" /\ e.failures = mem[r].failures + 1
      BY <1>1, <2>1, FailedEntry
    <3>2. e.analyzed <= index'[r] /\ e.code <= head'[r]
      BY <1>1, <3>1 DEF Sound, TypeOK
    <3>3. QED
      BY <1>1, <3>1, <3>2 DEF Sound
  <2>2. CASE e = Analyzed(mem[r]) /\ WorkerSucceeds(r)
    <3>1. /\ e \in Entries /\ e.code = mem[r].code /\ e.analyzed = mem[r].code
          /\ e.status = "success" /\ e.failures = 0
      BY <1>1, <2>2, AnalyzedEntry
    <3>2. mem[r].code <= index'[r]
      BY <1>1, <2>2 DEF WorkerSucceeds, Pace
    <3>3. QED
      BY <1>1, <3>1, <3>2 DEF Sound
  <2>3. QED
    BY <1>4, <2>1, <2>2
<1>6. "synced" \in Steps \ {"todo"}
  BY DEF Steps
<1>7. QED
  BY <1>1, <1>2, <1>3, <1>4, <1>5, <1>6, EntryKept DEF TypeOK

\* A request to cancel changes the step of one repository only.
LEMMA CancellationKept ==
  ASSUME IInv, NEW r \in Repos, RequestCancellation(r)
  PROVE  IInv'
<1> USE DEF IInv
<1>1. UNCHANGED <<world, disk, watch, phase, mem, due, exits>> /\ step[r] = "work"
      /\ step' = [step EXCEPT ![r] = "cancelling"]
  BY DEF RequestCancellation, To
<1>2. TypeOK' /\ Order' /\ Accounts' /\ Life'
  BY <1>1 DEF TypeOK, Order, Accounts, Sound, Life, world, orphans, Steps
<1>3. Pace'
  BY <1>1 DEF TypeOK, Pace, Working, world
<1>4. QED
  BY <1>2, <1>3

-----------------------------------------------------------------------------
(* Registration, the state file and the group.                             *)

\* A success that is not registered is taken back.
LEMMA CollectKept ==
  ASSUME IInv, NEW r \in Repos, NEW registers \in BOOLEAN, NEW joins \in BOOLEAN,
         Collect(r, registers, joins)
  PROVE  IInv'
<1> USE DEF IInv
<1>0. PICK e : e = IF mem[r].status = "success" /\ ~registers
                  THEN Unregistered(mem[r]) ELSE mem[r]
  OBVIOUS
<1>1. /\ phase = "collect" /\ step[r] = "synced" /\ To(r, "collected")
      /\ mem' = [mem EXCEPT ![r] = e]
      /\ member' = member \cup (IF joins THEN {r} ELSE {})
      /\ due' \subseteq due \cup {r}
      /\ UNCHANGED <<remote, head, index, orphans, view, disk, watch, phase, exits>>
  BY <1>0 DEF Collect
<1>2. mem[r] \in Entries /\ Sound(mem[r], r)
  BY DEF TypeOK, Accounts
<1>3. /\ e \in Entries /\ Sound(e, r) /\ e.code = mem[r].code
      /\ e.status \in {mem[r].status, "failed"}
  <2>1. CASE mem[r].status = "success" /\ ~registers
    <3>1. mem[r].failures = 0 /\ mem[r].code # 0
      BY <2>1 DEF Accounts, Sound
    <3>2. /\ e \in Entries /\ e.code = mem[r].code /\ e.analyzed = 0 /\ e.status = "failed"
      BY <1>0, <2>1, <3>1, UnregisteredEntry DEF TypeOK
    <3>3. 0 <= index[r] /\ mem[r].code <= head[r]
      BY DEF TypeOK, Accounts, Sound
    <3>4. QED
      BY <3>1, <3>2, <3>3 DEF Sound
  <2>2. CASE ~(mem[r].status = "success" /\ ~registers)
    BY <1>0, <2>2 DEF TypeOK, Accounts
  <2>3. QED
    BY <2>1, <2>2
<1>4. e.code # disk[r].code => e.status # "threshold_skipped"
  BY <1>1, <1>3 DEF Pace, Working
<1>5. Sound(e, r)'
  BY <1>1, <1>3 DEF Sound
<1>6. Order' /\ \A q \in Repos : index[q] <= index'[q] /\ head[q] <= head'[q]
  BY <1>1 DEF Order, TypeOK, orphans
<1>7. "collected" \in Steps \ {"todo"} /\ due' \subseteq Repos /\ member' \subseteq Repos
  BY <1>1 DEF Steps, TypeOK
<1>8. QED
  BY <1>1, <1>3, <1>4, <1>5, <1>6, <1>7, EntryKept DEF TypeOK, orphans

\* A repository without a sync is collected without a new entry.
LEMMA CollectUnsyncedKept ==
  ASSUME IInv, NEW r \in Repos, CollectUnsynced(r)
  PROVE  IInv'
<1> USE DEF IInv
<1>1. UNCHANGED <<world, disk, watch, phase, mem, due, exits>> /\ phase = "collect"
      /\ step[r] = "unsynced" /\ step' = [step EXCEPT ![r] = "collected"]
  BY DEF CollectUnsynced, To
<1>2. TypeOK' /\ Order' /\ Accounts' /\ Life'
  BY <1>1 DEF TypeOK, Order, Accounts, Sound, Life, world, orphans, Steps
<1>3. Pace'
  BY <1>1 DEF TypeOK, Pace, Working
<1>4. QED
  BY <1>2, <1>3

\* A run that is over leaves the state file as it last was.
LEMMA OverKept ==
  ASSUME IInv, NoRun, UNCHANGED <<remote, head, index, orphans, member, watch, exits>>,
         disk' \in {disk, mem}, view' \in [Repos -> Commits]
  PROVE  IInv'
<1>1. disk' \in [Repos -> Entries] /\ \A r \in Repos : Sound(disk'[r], r)
  BY DEF IInv, TypeOK, Accounts
<1>2. QED
  BY <1>1, NoRunKept DEF IInv, TypeOK, orphans

\* When no repository works the run collects, or is over.
LEMMA EndReposKept == ASSUME IInv, EndRepos PROVE IInv'
<1>1. CASE NoRun
  BY <1>1, OverKept DEF EndRepos, world, IInv, TypeOK
<1>2. CASE phase' = "collect" /\ UNCHANGED <<step, mem, due>>
  <2> USE DEF IInv
  <2>1. /\ UNCHANGED <<world, disk, watch, exits>> /\ phase = "repos"
        /\ \A r \in Repos : ~Working(r)
    BY DEF EndRepos
  <2>2. TypeOK' /\ Order' /\ Life'
    BY <1>2, <2>1 DEF TypeOK, Order, Life, world, orphans, Phases
  <2>3. Accounts'
    BY <1>2, <2>1 DEF Accounts, Sound, world
  <2>4. Pace'
    BY <1>2, <2>1 DEF Pace, Working
  <2>5. QED
    BY <2>2, <2>3, <2>4
<1>3. QED
  BY <1>1, <1>2 DEF EndRepos

\* A save, the first or the second, writes the run's copy.
LEMMA SavesKept == ASSUME IInv, Save \/ Resave PROVE IInv'
<1>1. CASE NoRun
  BY <1>1, OverKept DEF Save, Resave, world, IInv, TypeOK
<1>2. CASE Save /\ phase' = "group" /\ UNCHANGED <<step, mem, due>>
  <2> USE DEF IInv
  <2>1. UNCHANGED <<world, watch, exits>> /\ disk' = mem /\ phase = "save"
    BY <1>2 DEF Save
  <2>2. TypeOK' /\ Order' /\ Life'
    BY <1>2, <2>1 DEF TypeOK, Order, Life, world, orphans, Phases
  <2>3. Accounts'
    BY <1>2, <2>1 DEF Accounts, Sound, world
  <2>4. Pace'
    BY <1>2, <2>1 DEF Pace, Working
  <2>5. QED
    BY <2>2, <2>3, <2>4
<1>3. QED
  BY <1>1, <1>2 DEF Save, Resave

\* The group's outcome is noted and saved, or the run is over.
LEMMA GroupKept == ASSUME IInv, SyncGroup \/ SyncGroupFails PROVE IInv'
<1>1. /\ UNCHANGED <<remote, head, index, orphans, member, disk, watch, exits>>
      /\ phase = "group" /\ view' \in [Repos -> Commits]
  BY DEF SyncGroup, SyncGroupFails, IInv, TypeOK, world
<1>2. CASE NoRun
  BY <1>1, <1>2, OverKept
<1>3. ASSUME NEW pending \in BOOLEAN, Noted(pending)
      PROVE  IInv'
  <2> USE DEF IInv
  <2>1. phase' = "resave" /\ UNCHANGED <<step, due>>
    BY <1>3 DEF Noted
  <2>2. \A r \in Repos :
          /\ mem'[r] \in Entries /\ mem'[r].code = mem[r].code
          /\ mem'[r].analyzed = mem[r].analyzed /\ mem'[r].status = mem[r].status
          /\ mem'[r].failures = mem[r].failures
    <3> SUFFICES ASSUME NEW r \in Repos
                 PROVE  /\ mem'[r] \in Entries /\ mem'[r].code = mem[r].code
                        /\ mem'[r].analyzed = mem[r].analyzed /\ mem'[r].status = mem[r].status
                        /\ mem'[r].failures = mem[r].failures
      OBVIOUS
    <3>1. mem[r] \in Entries
      BY DEF TypeOK
    <3>2. mem'[r] \in {mem[r], [mem[r] EXCEPT !.pending = pending]}
      BY <1>3 DEF Noted
    <3>3. "failed" \in Statuses
      OBVIOUS
    <3>4. QED
      BY <3>1, <3>2, <3>3, MarkedEntry
  <2>3. mem' \in [Repos -> Entries]
    BY <1>3, <2>2 DEF Noted
  <2>4. TypeOK' /\ Order' /\ Life'
    BY <1>1, <2>1, <2>3 DEF TypeOK, Order, Life, orphans, Phases
  <2>5. Accounts'
    BY <1>1, <2>2 DEF Accounts, Sound
  <2>6. Pace'
    BY <1>1, <2>1, <2>2 DEF Pace, Working
  <2>7. QED
    BY <2>4, <2>5, <2>6
<1>4. QED
  BY <1>2, <1>3 DEF SyncGroup, SyncGroupFails

-----------------------------------------------------------------------------
(* The whole.                                                              *)

\* Every step keeps the inductive invariant.
LEMMA IInvKept == IInv /\ [Next]_vars => IInv'
<1> SUFFICES ASSUME IInv, [Next]_vars PROVE IInv'
  OBVIOUS
<1>1. CASE Start \/ BeginRun \/ Stopped \/ Stop \/ EndCollect
  BY <1>1, WatchKept
<1>2. CASE Crash \/ Reset
  BY <1>2, CrashKept, ResetKept
<1>3. CASE EndRepos \/ Save \/ Resave \/ SyncGroup \/ SyncGroupFails
  BY <1>3, EndReposKept, SavesKept, GroupKept
<1>4. ASSUME NEW r \in Repos, PullFails(r) \/ Pull(r) \/ RequestCancellation(r)
      PROVE  IInv'
  BY <1>4, PullFailsKept, PullKept, CancellationKept
<1>5. ASSUME NEW r \in Repos, WorkerReports(r) \/ WorkerSucceeds(r) \/ WorkerFails(r) \/
                              ChannelFails(r) \/ GraceOver(r)
      PROVE  IInv'
  BY <1>5, WorkerReportsKept, WorkerEndsKept
<1>6. ASSUME NEW r \in Repos,
             CollectUnsynced(r) \/ \E registers, joins \in BOOLEAN : Collect(r, registers, joins)
      PROVE  IInv'
  BY <1>6, CollectUnsyncedKept, CollectKept
<1>7. ASSUME NEW r \in Repos,
             Push(r) \/ OrphanLocks(r) \/ OrphanEnds(r) \/ OrphanGivesUp(r)
      PROVE  IInv'
  BY <1>7, WorldKept
<1>8. CASE UNCHANGED vars
  <2> USE <1>8 DEF IInv, vars, world, orphans
  <2>1. TypeOK' /\ Order' /\ Life'
    BY DEF TypeOK, Order, Life
  <2>2. Accounts' /\ Pace'
    BY DEF Accounts, Sound, Pace, Working
  <2>3. QED
    BY <2>1, <2>2
<1>9. QED
  BY <1>1, <1>2, <1>3, <1>4, <1>5, <1>6, <1>7, <1>8 DEF Next, WatchStep

\* The inductive invariant holds in every run of the watch.
THEOREM IInvHolds == Spec => []IInv
BY InitIInv, IInvKept, PTL DEF Spec

\* The types hold, and a commit the state file gives as analysed is in the index or
\* was overtaken there (runner.ts), for any number of repositories, commits, pushes,
\* stops and deaths, and whatever an orphaned worker still writes.
THEOREM RecordedIsIndexedHolds == Spec => []Inv
<1>1. IInv => Inv
  BY DEF IInv, Inv, TypeOK, Accounts, Sound, RecordedIsIndexed
<1>2. QED
  BY <1>1, IInvHolds, PTL

\* What is recorded of a new commit is never that it was skipped for the failures
\* of another (runner.ts, analyze_failure_threshold).
THEOREM NewCommitUnblocksHolds == Spec => NewCommitUnblocks
<1>1. IInv /\ [Next]_vars =>
        [\A r \in Repos : disk'[r].code # disk[r].code
           => disk'[r].status # "threshold_skipped"]_vars
  <2> SUFFICES ASSUME IInv, Next, NEW r \in Repos, disk'[r].code # disk[r].code
               PROVE  disk'[r].status # "threshold_skipped"
    OBVIOUS
  <2>1. CASE disk' = disk
    BY <2>1
  <2>2. CASE Save \/ Resave
    <3>1. disk' = mem /\ phase \in {"save", "resave"}
      BY <2>2 DEF Save, Resave
    <3>2. QED
      BY <3>1 DEF IInv, Pace
  <2>3. CASE Reset
    BY <2>3 DEF Reset, NoEntry
  <2>4. Save \/ Resave \/ Reset \/ disk' = disk
    BY DEF Next, WatchStep, Start, BeginRun, Stopped, Stop, EndCollect, Crash, EndRepos,
       SyncGroup, SyncGroupFails, PullFails, Pull, RequestCancellation, GraceOver,
       CollectUnsynced, Collect, WorkerReports, WorkerSucceeds, WorkerFails, ChannelFails,
       LeftRunning, Push, OrphanLocks, OrphanEnds, OrphanGivesUp
  <2>5. QED
    BY <2>1, <2>2, <2>3, <2>4
<1>2. QED
  BY <1>1, IInvHolds, PTL DEF Spec, NewCommitUnblocks

=============================================================================
