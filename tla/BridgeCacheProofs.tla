-------------------------- MODULE BridgeCacheProofs --------------------------
(***************************************************************************)
(* Proofs about the files of a group, the syncs that write them and the    *)
(* readers of the MCP server beside them, for any number of syncs, queries *)
(* and handles.                                                            *)
(***************************************************************************)
EXTENDS BridgeCache, FiniteSetTheorems, TLAPS

\* The locked section of a sync, and the part of it after a registry of its own.
Building == {"invalidate", "aside", "swap", "dropBak", "stamp", "withdraw"}
Refreshing == {"refresh", "restamp", "disclaim"}
Locked == {"locked"} \cup Refreshing \cup Building

\* Whoever is in the locked section holds the group lock.
HolderKnown == \A s \in Syncs : at[s] \in Locked <=> holder = s

\* A sync writes the registry once, and not before it has the lock.
WritesOnce ==
  /\ \A i, j \in 1..Len(writes) : writes[i] = writes[j] => i = j
  /\ \A i \in 1..Len(writes) : at[writes[i]] \notin {"extract", "wait", "locked"}

\* What a sync remembers of the registry tells which write it was.
MarkedRight ==
  \A s \in Syncs : /\ mark[s] <= Len(writes)
                   /\ IF mark[s] = 0 THEN before[s] \notin Syncs ELSE before[s] = writes[mark[s]]

\* The lists of the registry are those of the last write.
ListsLast ==
  IF writes = <<>> THEN registry.lists \notin Syncs ELSE registry.lists = writes[Len(writes)]

\* A sync that builds has its contracts in the registry, and after the swap there
\* is a database.
BuildsOnOwn ==
  \A s \in Syncs : /\ at[s] \in Building => registry.by = s /\ registry.lists = s
                   /\ at[s] = "dropBak" => bridge # NoSync

\* What the files and the syncs keep, whatever a reader does.
Books ==
  /\ SyncTypeOK /\ HolderKnown /\ WritesOnce /\ MarkedRight /\ ListsLast
  /\ BuildsOnOwn /\ WinnerKept /\ BridgeKept

-----------------------------------------------------------------------------
(* The files and the syncs.                                                *)

\* Where a sync can be, and what the two files it writes can hold.
Places == {"extract", "wait", "locked", "done"} \cup Refreshing \cup Building
Registries == [by : Present, lists : Present]
Metas == [of : Present, stamp : Present, lists : Present, unknown : BOOLEAN]

\* What SyncTypeOK says, variable by variable.
LEMMA SyncTypes ==
  SyncTypeOK <=>
    /\ registry \in Registries /\ bridge \in Present /\ bak \in Present /\ meta \in Metas
    /\ holder \in Syncs \cup {NoSync} /\ at \in [Syncs -> Places]
    /\ failed \in [Syncs -> BOOLEAN] /\ before \in [Syncs -> Present]
    /\ writes \in Seq(Syncs) /\ mark \in [Syncs -> Nat] /\ interrupted \in BOOLEAN
<1>1. Places = {"extract", "wait", "locked", "refresh", "restamp", "disclaim",
                "invalidate", "aside", "swap", "dropBak", "stamp", "withdraw", "done"}
  BY DEF Places, Refreshing, Building
<1>2. QED  BY <1>1 DEF SyncTypeOK, Registries, Metas

\* The initial files are in order.
LEMMA BooksInit ==
  ASSUME SyncInit
  PROVE  Books
<1> USE SyncsAssumption
<1>1. PICK o \in {Old, NoSync} :
        /\ registry = [by |-> o, lists |-> o] /\ bridge = o
        /\ meta = IF o = Old THEN [of |-> Old, stamp |-> Old, lists |-> Old, unknown |-> FALSE]
                  ELSE NoMeta
  BY DEF SyncInit
<1>2. SyncTypeOK
  <2>1. o \in Present /\ NoSync \in Present /\ Old \in Present
    BY DEF Present, Builders
  <2>2. registry \in Registries
    BY <1>1, <2>1 DEF Registries
  <2>3. meta \in Metas
    BY <1>1, <2>1 DEF Metas, NoMeta
  <2>4. at \in [Syncs -> Places] /\ writes \in Seq(Syncs)
    BY DEF SyncInit, Places
  <2>5. QED  BY <1>1, <2>1, <2>2, <2>3, <2>4, SyncTypes DEF SyncInit
<1>3. HolderKnown /\ WritesOnce /\ MarkedRight /\ WinnerKept
  BY DEF SyncInit, HolderKnown, WritesOnce, MarkedRight, WinnerKept, Locked, Refreshing, Building
<1>4. ListsLast /\ BuildsOnOwn /\ BridgeKept
  BY <1>1 DEF SyncInit, ListsLast, BuildsOnOwn, BridgeKept, Building, NoMeta
<1>5. QED  BY <1>2, <1>3, <1>4 DEF Books

\* What a sync step can do to each variable.
Moves(s) ==
  /\ \E l \in Places : at' = [at EXCEPT ![s] = l]
  /\ holder' \in {holder, s, NoSync}
  /\ registry' \in {registry, [registry EXCEPT !.lists = s], [by |-> s, lists |-> s]}
  /\ bridge' \in {bridge, s, NoSync} /\ bak' \in {bak, bridge, NoSync}
  /\ meta' \in {meta, [meta EXCEPT !.stamp = bridge, !.lists = s],
                [meta EXCEPT !.lists = s, !.unknown = TRUE], [meta EXCEPT !.unknown = TRUE],
                [of |-> s, stamp |-> bridge, lists |-> s, unknown |-> FALSE]}
  /\ (\E f \in BOOLEAN : failed' = [failed EXCEPT ![s] = f]) \/ UNCHANGED failed
  /\ before' \in {before, [before EXCEPT ![s] = registry.lists]}
  /\ writes' \in {writes, Append(writes, s)}
  /\ mark' \in {mark, [mark EXCEPT ![s] = Len(writes)]}
  /\ interrupted' \in {interrupted, TRUE, FALSE}

\* ... and it does no more.
LEMMA SyncStepMoves ==
  ASSUME NEW s \in Syncs, SyncStep(s) \/ Build(s) \/ Swap(s)
  PROVE  Moves(s)
<1> USE DEF Moves, fileVars, GoTo, Leave, registryIdentity, writeRegistry, Places, Refreshing, Building
<1>1. CASE \E f \in BOOLEAN : Extract(s, f)  BY <1>1 DEF Extract
<1>2. CASE TakeLock(s)  BY <1>2 DEF TakeLock
<1>3. CASE LockTimesOut(s)  BY <1>3 DEF LockTimesOut
<1>4. CASE Superseded(s)  BY <1>4 DEF Superseded
<1>5. CASE Preserve(s)  BY <1>5 DEF Preserve
<1>6. CASE RefreshCheck(s)  BY <1>6 DEF RefreshCheck
<1>7. CASE Restamp(s)  BY <1>7 DEF Restamp
<1>8. CASE Disclaim(s)  BY <1>8 DEF Disclaim
<1>9. CASE RefreshFails(s)  BY <1>9 DEF RefreshFails
<1>10. CASE WriteRegistry(s)  BY <1>10 DEF WriteRegistry
<1>11. CASE WriteRegistryFails(s)  BY <1>11 DEF WriteRegistryFails
<1>12. CASE MoveAside(s)  BY <1>12 DEF MoveAside
<1>13. CASE SwapFails(s)  BY <1>13 DEF SwapFails
<1>14. CASE DropBak(s)  BY <1>14 DEF DropBak
<1>15. CASE StampMeta(s)  BY <1>15 DEF StampMeta
<1>16. CASE StampFails(s)  BY <1>16 DEF StampFails
<1>17. CASE Withdraw(s)  BY <1>17 DEF Withdraw
<1>18. CASE WithdrawFails(s)  BY <1>18 DEF WithdrawFails
<1>19. CASE Build(s)  BY <1>19 DEF Build
<1>20. CASE Swap(s)  BY <1>20 DEF Swap
<1>21. QED
  BY <1>1, <1>2, <1>3, <1>4, <1>5, <1>6, <1>7, <1>8, <1>9, <1>10, <1>11, <1>12, <1>13, <1>14,
     <1>15, <1>16, <1>17, <1>18, <1>19, <1>20 DEF SyncStep

\* What the sync steps do is done to variables of the right type.
LEMMA SyncStepTypes ==
  ASSUME SyncTypeOK, NEW s \in Syncs, SyncStep(s) \/ Build(s) \/ Swap(s)
  PROVE  SyncTypeOK'
<1>0. Moves(s)
  BY SyncStepMoves
<1>1. /\ s \in Present /\ NoSync \in Present
      /\ registry \in Registries /\ bridge \in Present /\ bak \in Present /\ meta \in Metas
      /\ holder \in Syncs \cup {NoSync} /\ at \in [Syncs -> Places]
      /\ failed \in [Syncs -> BOOLEAN] /\ before \in [Syncs -> Present]
      /\ writes \in Seq(Syncs) /\ mark \in [Syncs -> Nat] /\ interrupted \in BOOLEAN
  BY SyncTypes DEF Present, Builders
<1>2. holder' \in Syncs \cup {NoSync} /\ at' \in [Syncs -> Places]
  BY <1>0, <1>1 DEF Moves
<1>3. registry' \in Registries
  BY <1>0, <1>1 DEF Registries, Moves
<1>4. bridge' \in Present /\ bak' \in Present
  BY <1>0, <1>1 DEF Moves
<1>5. meta' \in Metas
  <2>1. /\ [meta EXCEPT !.stamp = bridge, !.lists = s] \in Metas
        /\ [meta EXCEPT !.lists = s, !.unknown = TRUE] \in Metas
        /\ [meta EXCEPT !.unknown = TRUE] \in Metas
    BY <1>1 DEF Metas
  <2>2. [of |-> s, stamp |-> bridge, lists |-> s, unknown |-> FALSE] \in Metas
    BY <1>1 DEF Metas
  <2>3. QED  BY <1>0, <1>1, <2>1, <2>2 DEF Moves
<1>6. failed' \in [Syncs -> BOOLEAN] /\ before' \in [Syncs -> Present]
  BY <1>0, <1>1 DEF Registries, Moves
<1>7. writes' \in Seq(Syncs) /\ mark' \in [Syncs -> Nat] /\ interrupted' \in BOOLEAN
  <2>1. Append(writes, s) \in Seq(Syncs) /\ Len(writes) \in Nat
    BY <1>1
  <2>2. QED  BY <1>0, <1>1, <2>1 DEF Moves
<1>8. QED
  BY <1>2, <1>3, <1>4, <1>5, <1>6, <1>7
     DEF SyncTypeOK, Registries, Metas, Places, Refreshing, Building

\* The lock is known to its holder, who builds on a registry of its own, and there
\* is a database to go back to.
Held == HolderKnown /\ BuildsOnOwn /\ BridgeKept

\* Every step of a sync keeps that.
LEMMA SyncStepHeld ==
  ASSUME SyncTypeOK, Held, NEW s \in Syncs, SyncStep(s) \/ Build(s) \/ Swap(s)
  PROVE  Held'
<1> USE SyncsAssumption DEF Held, HolderKnown, BuildsOnOwn, BridgeKept, fileVars, GoTo, Leave,
        Locked, Refreshing, Building
<1>0. /\ s # NoSync /\ holder \in Syncs \cup {NoSync} /\ DOMAIN at = Syncs
      /\ \A l : [at EXCEPT ![s] = l] = [t \in Syncs |-> IF t = s THEN l ELSE at[t]]
  BY DEF SyncTypeOK
<1>1. CASE \E f \in BOOLEAN : Extract(s, f)  BY <1>0, <1>1 DEF Extract
<1>2. CASE TakeLock(s)  BY <1>0, <1>2 DEF TakeLock
<1>3. CASE LockTimesOut(s)  BY <1>0, <1>3 DEF LockTimesOut
<1>4. CASE Superseded(s)  BY <1>0, <1>4 DEF Superseded
<1>5. CASE Preserve(s)  BY <1>0, <1>5 DEF Preserve, writeRegistry
<1>6. CASE RefreshCheck(s)  BY <1>0, <1>6 DEF RefreshCheck
<1>7. CASE Restamp(s)  BY <1>0, <1>7 DEF Restamp
<1>8. CASE Disclaim(s)  BY <1>0, <1>8 DEF Disclaim
<1>9. CASE RefreshFails(s)  BY <1>0, <1>9 DEF RefreshFails
<1>10. CASE WriteRegistry(s)  BY <1>0, <1>10 DEF WriteRegistry, writeRegistry
<1>11. CASE WriteRegistryFails(s)  BY <1>0, <1>11 DEF WriteRegistryFails
<1>12. CASE MoveAside(s)  BY <1>0, <1>12 DEF MoveAside
<1>13. CASE SwapFails(s)  BY <1>0, <1>13 DEF SwapFails
<1>14. CASE DropBak(s)  BY <1>0, <1>14 DEF DropBak
<1>15. CASE StampMeta(s)  BY <1>0, <1>15 DEF StampMeta
<1>16. CASE StampFails(s)  BY <1>0, <1>16 DEF StampFails
<1>17. CASE Withdraw(s)  BY <1>0, <1>17 DEF Withdraw
<1>18. CASE WithdrawFails(s)  BY <1>0, <1>18 DEF WithdrawFails
<1>19. CASE Build(s)  BY <1>0, <1>19 DEF Build
<1>20. CASE Swap(s)  BY <1>0, <1>20 DEF Swap
<1>21. QED
  BY <1>1, <1>2, <1>3, <1>4, <1>5, <1>6, <1>7, <1>8, <1>9, <1>10, <1>11, <1>12, <1>13, <1>14,
     <1>15, <1>16, <1>17, <1>18, <1>19, <1>20 DEF SyncStep

\* The order of the registry's writes and what the syncs remember of it.
Chronicle == WritesOnce /\ MarkedRight /\ ListsLast /\ WinnerKept

\* A sync that has had the lock is past it for good.
Past(t) == at[t] \notin {"extract", "wait", "locked"}

\* A step that writes no registry and ends no extraction keeps the chronicle.
LEMMA QuietKeepsChronicle ==
  ASSUME SyncTypeOK, Chronicle, UNCHANGED <<registry, writes, failed, before, mark>>,
         \A t \in Syncs : Past(t) => Past(t)'
  PROVE  Chronicle'
<1>1. \A i \in 1..Len(writes) : writes[i] \in Syncs
  BY DEF SyncTypeOK
<1>2. QED
  BY <1>1 DEF Chronicle, WritesOnce, MarkedRight, ListsLast, WinnerKept, Past

\* A sync that writes the registry in its locked section is the last in the order,
\* and when it could read nothing no write came since its extraction.
LEMMA WriteKeepsChronicle ==
  ASSUME SyncTypeOK, Chronicle, NEW s \in Syncs, at[s] = "locked", Past(s)',
         \A t \in Syncs : Past(t) => Past(t)',
         writes' = Append(writes, s), registry'.lists = s, UNCHANGED <<failed, before, mark>>,
         failed[s] => registryIdentity = before[s]
  PROVE  Chronicle'
<1>1. /\ writes \in Seq(Syncs) /\ Len(writes) \in Nat /\ mark \in [Syncs -> Nat]
      /\ \A i \in 1..Len(writes) : writes[i] \in Syncs /\ writes[i] # s
      /\ Len(writes') = Len(writes) + 1
      /\ \A i \in 1..Len(writes) : writes'[i] = writes[i]
      /\ writes'[Len(writes) + 1] = s
  BY DEF SyncTypeOK, Chronicle, WritesOnce
<1>2. WritesOnce'
  <2>1. \A i, j \in 1..Len(writes) : writes[i] = writes[j] => i = j
    BY DEF Chronicle, WritesOnce
  <2>2. \A i \in 1..Len(writes) : Past(writes[i])
    BY DEF Chronicle, WritesOnce, Past
  <2>3. \A i \in 1..Len(writes) : Past(writes[i])'
    BY <1>1, <2>2 DEF Past
  <2>4. \A i \in 1..Len(writes') : i \in 1..Len(writes) \/ i = Len(writes) + 1
    BY <1>1
  <2>5. \A i, j \in 1..Len(writes') : writes'[i] = writes'[j] => i = j
    BY <1>1, <2>1, <2>4
  <2>6. \A i \in 1..Len(writes') : at'[writes'[i]] \notin {"extract", "wait", "locked"}
    BY <1>1, <2>3, <2>4 DEF Past
  <2>7. QED  BY <2>5, <2>6 DEF WritesOnce
<1>3. MarkedRight'
  <2>1. SUFFICES ASSUME NEW t \in Syncs
                 PROVE  /\ mark[t] <= Len(writes) + 1
                        /\ IF mark[t] = 0 THEN before[t] \notin Syncs ELSE before[t] = writes'[mark[t]]
    BY <1>1 DEF MarkedRight
  <2>2. /\ mark[t] \in Nat /\ mark[t] <= Len(writes)
        /\ IF mark[t] = 0 THEN before[t] \notin Syncs ELSE before[t] = writes[mark[t]]
    BY <1>1 DEF Chronicle, MarkedRight
  <2>3. QED  BY <1>1, <2>2
<1>4. ListsLast'
  BY <1>1 DEF ListsLast
<1>5. failed[s] => mark[s] = Len(writes)
  <2>1. SUFFICES ASSUME failed[s] PROVE mark[s] = Len(writes)
    OBVIOUS
  <2>2. registry.lists = before[s]
    BY <2>1 DEF registryIdentity
  <2>3. /\ mark[s] \in Nat /\ mark[s] <= Len(writes)
        /\ IF mark[s] = 0 THEN before[s] \notin Syncs ELSE before[s] = writes[mark[s]]
    BY <1>1 DEF Chronicle, MarkedRight
  <2>4. IF writes = <<>> THEN registry.lists \notin Syncs ELSE registry.lists = writes[Len(writes)]
    BY DEF Chronicle, ListsLast
  <2>5. CASE Len(writes) = 0
    BY <2>3, <2>5
  <2>6. CASE Len(writes) # 0
    <3>1. registry.lists = writes[Len(writes)] /\ writes[Len(writes)] \in Syncs
      BY <1>1, <2>4, <2>6
    <3>2. mark[s] # 0 /\ writes[mark[s]] = writes[Len(writes)]
      BY <2>2, <2>3, <3>1
    <3>3. QED  BY <1>1, <2>3, <3>2 DEF Chronicle, WritesOnce
  <2>7. QED  BY <1>1, <2>5, <2>6
<1>6. WinnerKept'
  BY <1>1, <1>5 DEF Chronicle, WinnerKept
<1>7. QED  BY <1>2, <1>3, <1>4, <1>6 DEF Chronicle

\* Every step of a sync keeps the chronicle.
LEMMA SyncStepChronicle ==
  ASSUME SyncTypeOK, Chronicle, NEW s \in Syncs, SyncStep(s) \/ Build(s) \/ Swap(s)
  PROVE  Chronicle'
<1> USE DEF fileVars, GoTo, Leave, Past
<1>0. \A l : [at EXCEPT ![s] = l] = [t \in Syncs |-> IF t = s THEN l ELSE at[t]]
  BY DEF SyncTypeOK
<1>1. ASSUME NEW f \in BOOLEAN, Extract(s, f)
      PROVE  Chronicle'
  <2>1. /\ at[s] = "extract" /\ failed' = [failed EXCEPT ![s] = f]
        /\ before' = [before EXCEPT ![s] = registry.lists]
        /\ mark' = [mark EXCEPT ![s] = Len(writes)] /\ at' = [at EXCEPT ![s] = "wait"]
        /\ UNCHANGED <<registry, writes>>
    BY <1>1 DEF Extract, registryIdentity
  <2>2. /\ \A i \in 1..Len(writes) : writes[i] \in Syncs /\ writes[i] # s
        /\ failed \in [Syncs -> BOOLEAN] /\ mark \in [Syncs -> Nat] /\ before \in [Syncs -> Present]
        /\ writes \in Seq(Syncs) /\ Len(writes) \in Nat
    BY <2>1 DEF SyncTypeOK, Chronicle, WritesOnce
  <2>3. WritesOnce' /\ ListsLast' /\ WinnerKept'
    BY <1>0, <2>1, <2>2 DEF Chronicle, WritesOnce, ListsLast, WinnerKept
  <2>4. MarkedRight'
    BY <2>1, <2>2 DEF Chronicle, MarkedRight, ListsLast
  <2>5. QED  BY <2>3, <2>4 DEF Chronicle
<1>2. CASE Preserve(s)
  <2>1. /\ at[s] = "locked" /\ failed[s] /\ registryIdentity = before[s]
        /\ at' = [at EXCEPT ![s] = "refresh"] /\ UNCHANGED <<failed, before, mark>>
    BY <1>2 DEF Preserve
  <2>2. Past(s)' /\ \A t \in Syncs : Past(t) => Past(t)'
    BY <1>0, <2>1
  <2>3. CASE registry.by = NoSync
    BY <1>2, <2>1, <2>2, <2>3, QuietKeepsChronicle DEF Preserve
  <2>4. CASE registry.by # NoSync
    <3>1. writes' = Append(writes, s) /\ registry'.lists = s
      BY <1>2, <2>4 DEF Preserve, writeRegistry, SyncTypeOK
    <3>2. QED  BY <2>1, <2>2, <3>1, WriteKeepsChronicle
  <2>5. QED  BY <2>3, <2>4
<1>3. CASE WriteRegistry(s)
  BY <1>0, <1>3, WriteKeepsChronicle DEF WriteRegistry, writeRegistry
<1>4. CASE ~(Preserve(s) \/ WriteRegistry(s) \/ \E f \in BOOLEAN : Extract(s, f))
  <2>1. /\ UNCHANGED <<registry, writes, failed, before, mark>>
        /\ \A t \in Syncs : Past(t) => Past(t)'
    BY <1>0, <1>4 DEF SyncStep, TakeLock, LockTimesOut, Superseded, RefreshCheck, Restamp,
         Disclaim, RefreshFails, WriteRegistryFails, MoveAside, SwapFails, DropBak, StampMeta,
         StampFails, Withdraw, WithdrawFails, Build, Swap
  <2>2. QED  BY <2>1, QuietKeepsChronicle
<1>5. QED  BY <1>1, <1>2, <1>3, <1>4

\* A reader puts the .bak back; that is all a reader does to the files.
PutBack ==
  /\ bak # NoSync /\ bridge' = bak /\ bak' = NoSync
  /\ UNCHANGED <<registry, meta, holder, at, failed, before, writes, mark, interrupted>>

\* The steps of the whole, as the files see them.
LEMMA FileSteps ==
  ASSUME [Next]_vars
  PROVE  \/ \E s \in Syncs : SyncStep(s) \/ Build(s) \/ Swap(s)
         \/ \E d \in SUBSET Syncs : Die(d)
         \/ PutBack
         \/ UNCHANGED syncVars
<1>1. ASSUME NEW s \in Syncs, SyncDies(s)
      PROVE  \E d \in SUBSET Syncs : Die(d)
  BY <1>1 DEF SyncDies
<1>2. CASE ServerDies
  BY <1>2, CacheAssumption DEF ServerDies
<1>3. ASSUME NEW q \in Queries, QueryStep(q)
      PROVE  PutBack \/ UNCHANGED syncVars
  <2>1. CASE Promote(q)
    BY <2>1 DEF Promote, PutBack, syncVars, fileVars
  <2>2. CASE ~Promote(q)
    BY <1>3, <2>2 DEF QueryStep, Ask, Reuse, Discard, Miss, LookForFile, OpenFile, OpenFails,
                      CacheHandle, Lease, Retry, GiveUp, Release
  <2>3. QED  BY <2>1, <2>2
<1>4. CASE UNCHANGED vars
  BY <1>4 DEF vars
<1>5. QED
  BY <1>1, <1>2, <1>3, <1>4 DEF Next, BuildInvalidating, SwapBesideReaders

\* What the files and the syncs keep is inductive.
LEMMA BooksStep ==
  ASSUME Books, [Next]_vars
  PROVE  Books'
<1>1. ASSUME NEW s \in Syncs, SyncStep(s) \/ Build(s) \/ Swap(s)
      PROVE  Books'
  <2>1. SyncTypeOK /\ Held /\ Chronicle
    BY DEF Books, Held, Chronicle
  <2>2. SyncTypeOK' /\ Held' /\ Chronicle'
    BY <1>1, <2>1, SyncStepTypes, SyncStepHeld, SyncStepChronicle
  <2>3. QED  BY <2>2 DEF Books, Held, Chronicle
<1>2. ASSUME NEW d \in SUBSET Syncs, Die(d)
      PROVE  Books'
  <2>1. SyncTypeOK'
    BY <1>2 DEF Books, SyncTypeOK, Die, fileVars
  <2>2. Held'
    BY <1>2, SyncsAssumption DEF Books, SyncTypeOK, Held, HolderKnown, BuildsOnOwn, BridgeKept, Die, fileVars,
                Locked, Refreshing, Building
  <2>3. \A t \in Syncs : Past(t) => Past(t)'
    BY <1>2 DEF Die, Past
  <2>4. Chronicle'
    BY <1>2, <2>3, QuietKeepsChronicle DEF Books, Chronicle, Die, fileVars
  <2>5. QED  BY <2>1, <2>2, <2>4 DEF Books, Held, Chronicle
<1>3. CASE PutBack
  <2>1. SyncTypeOK'
    BY <1>3 DEF PutBack, Books, SyncTypeOK, Present
  <2>2. Held'
    BY <1>3 DEF PutBack, Books, Held, HolderKnown, BuildsOnOwn, BridgeKept
  <2>3. Chronicle'
    BY <1>3, QuietKeepsChronicle DEF PutBack, Books, Chronicle, Past
  <2>4. QED  BY <2>1, <2>2, <2>3 DEF Books, Held, Chronicle
<1>4. CASE UNCHANGED syncVars
  BY <1>4 DEF syncVars, fileVars, Books, SyncTypeOK, HolderKnown, WritesOnce, MarkedRight, ListsLast,
              BuildsOnOwn, WinnerKept, BridgeKept
<1>5. QED  BY <1>1, <1>2, <1>3, <1>4, FileSteps

\* What the files and the syncs keep, in every behaviour.
THEOREM BooksKept == Spec => []Books
<1>1. Init => Books
  BY BooksInit DEF Init
<1>2. Books /\ [Next]_vars => Books'
  BY BooksStep
<1>3. QED  BY <1>1, <1>2, PTL DEF Spec

-----------------------------------------------------------------------------
(* The readers' handles.                                                   *)

ReaderPlaces == {"idle", "stat", "discarded", "open", "promote", "native",
                 "statOpened", "await", "opened", "leased"}
Entries == [db : Present, mtime : Present, refs : Nat, evicted : BOOLEAN, open : BOOLEAN]

\* The types of the server's variables, the leases not bounded yet.
ReaderTypes ==
  /\ reader \in [Queries -> ReaderPlaces] /\ mine \in [Queries -> Handles \cup {NoHandle}]
  /\ inFlight \subseteq Queries /\ cached \in Handles \cup {NoHandle}
  /\ entry \in [Handles -> Entries] /\ began \in [Queries -> Present]

\* At most one query opens, and it is the one in flight.
OneOpener ==
  /\ inFlight = {} \/ \E q \in Queries : inFlight = {q}
  /\ \A q \in Queries : reader[q] \in {"open", "promote", "native", "statOpened"} => inFlight = {q}

\* A query that looks at a handle has one.
Looking ==
  \A q \in Queries : reader[q] \in {"stat", "discarded", "statOpened", "leased"} => mine[q] \in Handles

\* A handle just opened is known to its opener only.
OpenedAlone ==
  \A q \in Queries : reader[q] = "statOpened" =>
    /\ ~entry[mine[q]].evicted /\ cached # mine[q]
    /\ \A p \in Queries : p # q => mine[p] # mine[q]

\* What is cached was not evicted, and what was not evicted is open.
NotEvicted ==
  /\ cached # NoHandle => ~entry[cached].evicted
  /\ \A h \in Handles : ~entry[h].evicted => entry[h].open

\* What the readers keep, whatever becomes of the files.
Readers ==
  /\ ReaderTypes /\ OneOpener /\ Looking /\ OpenedAlone /\ NotEvicted
  /\ LeasesLive /\ EvictedClosed

\* The leases of a handle can be counted.
LEMMA LeaseCount ==
  ASSUME NEW h
  PROVE  /\ IsFiniteSet(Leases(h)) /\ Cardinality(Leases(h)) \in Nat
         /\ Cardinality(Leases(h)) = 0 <=> Leases(h) = {}
         /\ Cardinality(Leases(h)) <= Cardinality(Queries)
<1>1. Leases(h) \subseteq Queries /\ IsFiniteSet(Queries)
  BY CacheAssumption DEF Leases
<1>2. QED  BY <1>1, FS_Subset, FS_EmptySet, FS_CardinalityType

\* A query that gets its lease is one more of that handle, and no other.
LEMMA LeaseTaken ==
  ASSUME NEW q \in Queries, reader \in [Queries -> ReaderPlaces], reader[q] # "leased",
         reader' = [reader EXCEPT ![q] = "leased"], mine' = mine, NEW h
  PROVE  /\ mine[q] # h => Leases(h)' = Leases(h)
         /\ mine[q] = h => /\ Leases(h)' # {}
                           /\ Cardinality(Leases(h)') = Cardinality(Leases(h)) + 1
<1>1. Leases(h)' = IF mine[q] = h THEN Leases(h) \cup {q} ELSE Leases(h)
  BY DEF Leases
<1>2. q \notin Leases(h) /\ IsFiniteSet(Leases(h))
  BY LeaseCount DEF Leases
<1>3. QED  BY <1>1, <1>2, FS_AddElement

\* A query that gives its lease back is one less.
LEMMA LeaseGiven ==
  ASSUME NEW q \in Queries, reader \in [Queries -> ReaderPlaces], reader[q] = "leased",
         mine \in [Queries -> Handles \cup {NoHandle}],
         reader' = [reader EXCEPT ![q] = "idle"], mine' = [mine EXCEPT ![q] = NoHandle],
         NEW h \in Handles
  PROVE  /\ mine[q] # h => Leases(h)' = Leases(h)
         /\ mine[q] = h => /\ Leases(h)' \subseteq Leases(h) /\ Leases(h) # {}
                           /\ Cardinality(Leases(h)') = Cardinality(Leases(h)) - 1
<1>1. Leases(h)' = IF mine[q] = h THEN Leases(h) \ {q} ELSE Leases(h)
  BY CacheAssumption DEF Leases
<1>2. mine[q] = h => q \in Leases(h)
  BY DEF Leases
<1>3. IsFiniteSet(Leases(h))
  BY LeaseCount
<1>4. QED  BY <1>1, <1>2, <1>3, FS_RemoveElement

\* The server as it starts.
NobodyAsks ==
  /\ reader = [q \in Queries |-> "idle"] /\ mine = [q \in Queries |-> NoHandle]
  /\ inFlight = {} /\ cached = NoHandle
  /\ entry = [h \in Handles |-> NoEntry] /\ began = [q \in Queries |-> NoSync]

\* Nothing to answer for yet.
LEMMA ReadersInit == NobodyAsks => Readers
<1> SUFFICES ASSUME NobodyAsks PROVE Readers
  OBVIOUS
<1>1. NoEntry \in Entries /\ NoEntry.evicted /\ ~NoEntry.open /\ NoEntry.refs = 0
  BY DEF NoEntry, Entries, Present
<1>2. ReaderTypes
  BY <1>1 DEF NobodyAsks, ReaderTypes, ReaderPlaces, Present
<1>3. \A h : Leases(h) = {}
  BY DEF NobodyAsks, Leases
<1>4. LeasesLive /\ EvictedClosed
  BY <1>1, <1>3, FS_EmptySet DEF NobodyAsks, LeasesLive, EvictedClosed
<1>5. OneOpener /\ Looking /\ OpenedAlone /\ NotEvicted
  BY <1>1 DEF NobodyAsks, OneOpener, Looking, OpenedAlone, NotEvicted
<1>6. QED  BY <1>2, <1>4, <1>5 DEF Readers

\* A step that changes no entry and no lease.
LEMMA WalkKeepsReaders ==
  ASSUME Readers, UNCHANGED <<entry, cached>>, \A h \in Handles : Leases(h)' = Leases(h),
         ReaderTypes', OneOpener', Looking', OpenedAlone'
  PROVE  Readers'
<1>1. LeasesLive' /\ EvictedClosed' /\ NotEvicted'
  BY DEF Readers, LeasesLive, EvictedClosed, NotEvicted
<1>2. QED  BY <1>1 DEF Readers

\* The opener's promise is settled; its callers move on.
LEMMA SettleKeepsReaders ==
  ASSUME Readers, NEW q \in Queries, NEW h \in Handles \cup {NoHandle}, settle(q, h),
         reader[q] \in {"open", "promote", "native", "statOpened"}
  PROVE  /\ reader' \in [Queries -> ReaderPlaces] /\ mine' \in [Queries -> Handles \cup {NoHandle}]
         /\ inFlight' \subseteq Queries /\ OneOpener' /\ Looking'
         /\ \A p \in Queries : reader'[p] # "statOpened"
         /\ \A k : Leases(k)' = Leases(k)
<1>1. PICK all : /\ all = {q} \cup {p \in Queries : reader[p] = "await"} /\ inFlight' = {}
                 /\ reader' = [p \in Queries |-> IF p \in all THEN "opened" ELSE reader[p]]
                 /\ mine' = [p \in Queries |-> IF p \in all THEN h ELSE mine[p]]
  BY DEF settle
<1>2. \A p \in Queries : reader[p] \in {"open", "promote", "native", "statOpened"} => p = q
  BY DEF Readers, OneOpener
<1>3. \A p \in Queries : reader'[p] \in {"leased", "stat", "discarded"} =>
                           reader'[p] = reader[p] /\ mine'[p] = mine[p]
  BY <1>1
<1>4. \A p \in Queries : reader'[p] \notin {"open", "promote", "native", "statOpened"}
  BY <1>1, <1>2
<1>5. reader' \in [Queries -> ReaderPlaces] /\ mine' \in [Queries -> Handles \cup {NoHandle}]
  BY <1>1 DEF Readers, ReaderTypes, ReaderPlaces
<1>6. \A k : Leases(k)' = Leases(k)
  BY <1>1 DEF Leases
<1>7. OneOpener' /\ Looking'
  BY <1>1, <1>3, <1>4 DEF OneOpener, Looking, Readers
<1>8. QED  BY <1>1, <1>4, <1>5, <1>6, <1>7

\* A query goes for the cached handle, or opens, or joins who opens.
LEMMA AskKeepsReaders ==
  ASSUME Readers, NEW q \in Queries, reader[q] \in {"idle", "stat", "discarded", "opened"},
         openOrJoin(q) \/ getCachedBridgeReadOnly(q)
  PROVE  /\ reader' \in [Queries -> ReaderPlaces] /\ mine' \in [Queries -> Handles \cup {NoHandle}]
         /\ inFlight' \subseteq Queries
         /\ cached' = cached /\ entry' = entry => OneOpener' /\ Looking' /\ OpenedAlone'
         /\ \A k : Leases(k)' = Leases(k)
<1>1. \/ /\ mine' = [mine EXCEPT ![q] = NoHandle]
         /\ inFlight' = IF inFlight = {} THEN {q} ELSE inFlight
         /\ reader' = [reader EXCEPT ![q] = IF inFlight = {} THEN "open" ELSE "await"]
      \/ /\ mine' = [mine EXCEPT ![q] = cached] /\ cached # NoHandle
         /\ inFlight' = inFlight /\ reader' = [reader EXCEPT ![q] = "stat"]
  BY DEF openOrJoin, getCachedBridgeReadOnly, Step
<1>2. reader' \in [Queries -> ReaderPlaces] /\ mine' \in [Queries -> Handles \cup {NoHandle}]
  BY <1>1 DEF Readers, ReaderTypes, ReaderPlaces
<1>3. inFlight' \subseteq Queries /\ OneOpener'
  BY <1>1 DEF Readers, ReaderTypes, OneOpener
<1>4. Looking'
  BY <1>1 DEF Readers, ReaderTypes, Looking
<1>5. ASSUME cached' = cached, entry' = entry PROVE OpenedAlone'
  BY <1>1, <1>5, CacheAssumption DEF Readers, ReaderTypes, Looking, OpenedAlone
<1>6. \A k : Leases(k)' = Leases(k)
  BY <1>1 DEF Leases, Readers, ReaderTypes
<1>7. QED  BY <1>2, <1>3, <1>4, <1>5, <1>6

\* The steps of a query that change no entry.
LEMMA WalkStep ==
  ASSUME Readers, NEW q \in Queries, bridge \in Present,
         Ask(q) \/ Miss(q) \/ LookForFile(q) \/ Promote(q) \/ OpenFails(q) \/ Retry(q) \/ GiveUp(q)
  PROVE  Readers'
<1>0. NoSync \in Present /\ UNCHANGED <<entry, cached>> /\ ReaderTypes
  BY DEF Present, Ask, Miss, LookForFile, Promote, OpenFails, Retry, GiveUp, Readers
<1>1. CASE Ask(q) \/ Miss(q) \/ Retry(q)
  <2>1. /\ reader[q] \in {"idle", "stat", "discarded", "opened"}
        /\ openOrJoin(q) \/ getCachedBridgeReadOnly(q)
        /\ began' \in {began, [began EXCEPT ![q] = bridge]}
    BY <1>1 DEF Ask, Miss, Retry
  <2>2. began' \in [Queries -> Present]
    BY <1>0, <2>1 DEF ReaderTypes
  <2>3. ReaderTypes'
    BY <1>0, <2>1, <2>2, AskKeepsReaders DEF ReaderTypes
  <2>4. OneOpener' /\ Looking' /\ OpenedAlone' /\ \A k : Leases(k)' = Leases(k)
    BY <1>0, <2>1, AskKeepsReaders
  <2>5. QED  BY <1>0, <2>3, <2>4, WalkKeepsReaders
<1>2. ASSUME reader[q] \in {"open", "promote", "native"}, settle(q, NoHandle), began' = began
      PROVE  Readers'
  <2>1. /\ reader' \in [Queries -> ReaderPlaces] /\ mine' \in [Queries -> Handles \cup {NoHandle}]
        /\ inFlight' \subseteq Queries /\ OneOpener' /\ Looking'
        /\ \A p \in Queries : reader'[p] # "statOpened"
        /\ \A k : Leases(k)' = Leases(k)
    BY <1>2, SettleKeepsReaders
  <2>2. OpenedAlone' /\ ReaderTypes'
    BY <1>0, <1>2, <2>1 DEF OpenedAlone, ReaderTypes
  <2>3. QED  BY <1>0, <2>1, <2>2, WalkKeepsReaders
<1>3. ASSUME NEW l \in {"promote", "native"}, reader[q] \in {"open", "promote"},
             reader' = [reader EXCEPT ![q] = l], UNCHANGED <<inFlight, mine, began>>
      PROVE  Readers'
  <2>1. ReaderTypes' /\ \A k : Leases(k)' = Leases(k)
    BY <1>0, <1>3 DEF ReaderTypes, ReaderPlaces, Leases
  <2>2. OneOpener' /\ Looking' /\ OpenedAlone'
    BY <1>0, <1>3 DEF Readers, ReaderTypes, OneOpener, Looking, OpenedAlone
  <2>3. QED  BY <1>0, <2>1, <2>2, WalkKeepsReaders
<1>4. CASE GiveUp(q)
  <2>1. /\ reader[q] = "opened" /\ reader' = [reader EXCEPT ![q] = "idle"]
        /\ began' = [began EXCEPT ![q] = NoSync] /\ UNCHANGED <<inFlight, mine>>
    BY <1>4 DEF GiveUp, Step
  <2>2. ReaderTypes' /\ \A k : Leases(k)' = Leases(k)
    BY <1>0, <2>1 DEF ReaderTypes, ReaderPlaces, Leases
  <2>3. OneOpener' /\ Looking' /\ OpenedAlone'
    BY <1>0, <2>1 DEF Readers, ReaderTypes, OneOpener, Looking, OpenedAlone
  <2>4. QED  BY <1>0, <2>2, <2>3, WalkKeepsReaders
<1>5. QED  BY <1>1, <1>2, <1>3, <1>4 DEF LookForFile, Promote, OpenFails, Step

\* A query that gets a lease.
LEMMA LeaseStep ==
  ASSUME Readers, NEW q \in Queries, Reuse(q) \/ Lease(q)
  PROVE  Readers'
<1>1. /\ reader[q] \in {"stat", "opened"} /\ mine[q] \in Handles /\ ~entry[mine[q]].evicted
      /\ entry' = [entry EXCEPT ![mine[q]].refs = @ + 1]
      /\ reader' = [reader EXCEPT ![q] = "leased"]
      /\ UNCHANGED <<mine, inFlight, cached, began>>
  BY DEF Reuse, Lease, Step, Readers, Looking, NotEvicted, ReaderTypes
<1>2. ReaderTypes /\ LeasesLive /\ EvictedClosed /\ NotEvicted
  BY DEF Readers
<1>3. /\ \A h \in Handles : h # mine[q] => entry'[h] = entry[h]
      /\ entry'[mine[q]] = [entry[mine[q]] EXCEPT !.refs = @ + 1]
      /\ entry[mine[q]] \in Entries /\ entry[mine[q]].open
  BY <1>1, <1>2 DEF ReaderTypes, NotEvicted
<1>4. /\ entry'[mine[q]].refs = entry[mine[q]].refs + 1 /\ entry'[mine[q]].open
      /\ ~entry'[mine[q]].evicted /\ entry'[mine[q]] \in Entries
  BY <1>1, <1>3 DEF Entries
<1>5. ReaderTypes'
  BY <1>1, <1>2, <1>3, <1>4 DEF ReaderTypes, ReaderPlaces
<1>6. OneOpener' /\ Looking' /\ NotEvicted'
  BY <1>1, <1>2, <1>3, <1>4 DEF Readers, ReaderTypes, OneOpener, Looking, NotEvicted
<1>7. OpenedAlone'
  BY <1>1, <1>2, <1>3, <1>4 DEF Readers, ReaderTypes, OpenedAlone, Looking
<1>8. LeasesLive'
  <2>1. SUFFICES ASSUME NEW h \in Handles
                 PROVE  /\ entry'[h].refs = Cardinality(Leases(h)')
                        /\ Leases(h)' # {} => entry'[h].open
    BY DEF LeasesLive
  <2>2. reader \in [Queries -> ReaderPlaces] /\ reader[q] # "leased" /\ mine' = mine
    BY <1>1, <1>2 DEF ReaderTypes
  <2>3. /\ mine[q] # h => Leases(h)' = Leases(h)
        /\ mine[q] = h => Cardinality(Leases(h)') = Cardinality(Leases(h)) + 1
    BY <1>1, <2>2, LeaseTaken
  <2>4. entry[h].refs = Cardinality(Leases(h)) /\ (Leases(h) # {} => entry[h].open)
    BY <1>2 DEF LeasesLive
  <2>5. QED  BY ZenonT(60), <1>3, <1>4, <2>3, <2>4
<1>9. EvictedClosed'
  BY <1>2, <1>3, <1>4 DEF EvictedClosed
<1>10. QED  BY <1>5, <1>6, <1>7, <1>8, <1>9 DEF Readers

\* An entry leaves the cache: closed now, or with its last lease.
LEMMA EvictKeepsReaders ==
  ASSUME Readers, NEW g \in Handles, evictBridgeEntry(g),
         \A q \in Queries : reader[q] = "statOpened" => mine[q] # g,
         UNCHANGED <<mine, inFlight, began>>,
         \/ UNCHANGED reader
         \/ \E q \in Queries : reader[q] = "stat" /\ reader' = [reader EXCEPT ![q] = "discarded"]
  PROVE  Readers'
<1>1. ReaderTypes /\ LeasesLive /\ EvictedClosed /\ NotEvicted
  BY DEF Readers
<1>2. /\ cached' = IF cached = g THEN NoHandle ELSE cached
      /\ \A h \in Handles : h # g => entry'[h] = entry[h]
      /\ entry'[g] = IF entry[g].refs = 0 THEN NoEntry ELSE [entry[g] EXCEPT !.evicted = TRUE]
      /\ entry[g] \in Entries /\ entry' = [h \in Handles |-> entry'[h]]
  BY ZenonT(60), <1>1 DEF evictBridgeEntry, closed, ReaderTypes, Entries
<1>3. /\ entry'[g] \in Entries /\ entry'[g].evicted /\ entry'[g].refs = entry[g].refs
      /\ entry[g].refs # 0 => entry'[g].open = entry[g].open
      /\ entry[g].refs = 0 => ~entry'[g].open
  <2>1. CASE entry[g].refs = 0
    BY <1>2, <2>1 DEF NoEntry, Entries, Present
  <2>2. CASE entry[g].refs # 0
    BY <1>2, <2>2 DEF Entries
  <2>3. QED  BY <2>1, <2>2
<1>4. reader' \in [Queries -> ReaderPlaces] /\ \A k : Leases(k)' = Leases(k)
  BY <1>1 DEF ReaderTypes, ReaderPlaces, Leases
<1>5. ReaderTypes'
  <2>1. entry' \in [Handles -> Entries]
    BY <1>1, <1>2, <1>3 DEF ReaderTypes
  <2>2. QED  BY <1>1, <1>2, <1>4, <2>1 DEF ReaderTypes
<1>6. OneOpener' /\ Looking'
  BY <1>1 DEF Readers, ReaderTypes, OneOpener, Looking
<1>7. OpenedAlone'
  <2>1. \A q \in Queries : reader'[q] = "statOpened" => reader[q] = "statOpened"
    BY <1>1 DEF ReaderTypes
  <2>2. \A q \in Queries : reader'[q] = "statOpened" => mine[q] \in Handles /\ mine[q] # g
    BY <2>1 DEF Readers, Looking
  <2>3. QED  BY <1>2, <2>1, <2>2, CacheAssumption DEF Readers, OpenedAlone
<1>8. NotEvicted'
  BY <1>1, <1>2, <1>3 DEF NotEvicted, ReaderTypes
<1>9. LeasesLive'
  <2>1. SUFFICES ASSUME NEW h \in Handles
                 PROVE  /\ entry'[h].refs = Cardinality(Leases(h))
                        /\ Leases(h) # {} => entry'[h].open
    BY <1>4 DEF LeasesLive
  <2>2. entry[h].refs = Cardinality(Leases(h)) /\ (Leases(h) # {} => entry[h].open)
    BY <1>1 DEF LeasesLive
  <2>3. Leases(h) # {} => entry[h].refs # 0
    BY <2>2, LeaseCount
  <2>4. QED  BY <1>2, <1>3, <2>2, <2>3
<1>10. EvictedClosed'
  BY <1>1, <1>2, <1>3 DEF EvictedClosed
<1>11. QED  BY <1>5, <1>6, <1>7, <1>8, <1>9, <1>10 DEF Readers

\* The opener has a handle that nobody knows.
LEMMA OpenStep ==
  ASSUME Readers, NEW q \in Queries, bridge \in Present, OpenFile(q)
  PROVE  Readers'
<1>1. PICK g \in Unknown :
        /\ entry' = [entry EXCEPT ![g] = [NoEntry EXCEPT !.db = bridge, !.open = TRUE, !.evicted = FALSE]]
        /\ mine' = [mine EXCEPT ![q] = g]
  BY DEF OpenFile
<1>2. /\ reader[q] = "native" /\ reader' = [reader EXCEPT ![q] = "statOpened"]
      /\ UNCHANGED <<inFlight, cached, began>>
  BY DEF OpenFile, Step
<1>3. ReaderTypes /\ LeasesLive /\ EvictedClosed /\ NotEvicted /\ Looking
  BY DEF Readers
<1>4. g \in Handles /\ g # cached /\ \A p \in Queries : mine[p] # g
  BY DEF Unknown
<1>5. /\ \A h \in Handles : h # g => entry'[h] = entry[h]
      /\ entry'[g] = [db |-> bridge, mtime |-> NoSync, refs |-> 0, evicted |-> FALSE, open |-> TRUE]
      /\ entry'[g] \in Entries
  BY <1>1, <1>3, <1>4 DEF ReaderTypes, NoEntry, Entries, Present
<1>6. ReaderTypes'
  <2>1. entry' \in [Handles -> Entries]
    BY <1>1, <1>3, <1>4, <1>5 DEF ReaderTypes
  <2>2. QED  BY <1>1, <1>2, <1>3, <1>4, <2>1 DEF ReaderTypes, ReaderPlaces
<1>7. OneOpener' /\ Looking'
  BY <1>1, <1>2, <1>3, <1>4 DEF Readers, ReaderTypes, OneOpener, Looking
<1>8. OpenedAlone'
  <2>1. \A p \in Queries : p # q => reader'[p] # "statOpened"
    BY <1>2, <1>3 DEF ReaderTypes, Readers, OneOpener
  <2>2. mine'[q] = g /\ \A p \in Queries : p # q => mine'[p] = mine[p]
    BY <1>1, <1>3 DEF ReaderTypes
  <2>3. QED  BY <1>2, <1>4, <1>5, <2>1, <2>2 DEF OpenedAlone
<1>9. \A h \in Handles : Leases(h)' = Leases(h)
  BY <1>1, <1>2, <1>3 DEF Leases, ReaderTypes
<1>10. LeasesLive' /\ EvictedClosed' /\ NotEvicted'
  <2>1. Leases(g) = {} /\ entry'[g].refs = 0 /\ ~entry'[g].evicted /\ entry'[g].open
    BY <1>4, <1>5 DEF Leases
  <2>2. LeasesLive'
    BY <1>3, <1>5, <1>9, <2>1, FS_EmptySet DEF LeasesLive
  <2>3. EvictedClosed' /\ NotEvicted'
    BY <1>2, <1>3, <1>4, <1>5, <2>1 DEF EvictedClosed, NotEvicted, ReaderTypes
  <2>4. QED  BY <2>2, <2>3
<1>11. QED  BY <1>6, <1>7, <1>8, <1>10 DEF Readers

\* The handle is stamped and cached, and its callers may take their leases.
LEMMA CacheStep ==
  ASSUME Readers, NEW q \in Queries, bridge \in Present, CacheHandle(q)
  PROVE  Readers'
<1>1. /\ reader[q] = "statOpened" /\ entry' = [entry EXCEPT ![mine[q]].mtime = bridge]
      /\ cached' = mine[q] /\ settle(q, mine[q]) /\ began' = began
  BY DEF CacheHandle
<1>2. ReaderTypes /\ LeasesLive /\ EvictedClosed /\ NotEvicted
  BY DEF Readers
<1>3. mine[q] \in Handles /\ ~entry[mine[q]].evicted
  BY <1>1 DEF Readers, Looking, OpenedAlone
<1>4. /\ reader' \in [Queries -> ReaderPlaces] /\ mine' \in [Queries -> Handles \cup {NoHandle}]
      /\ inFlight' \subseteq Queries /\ OneOpener' /\ Looking'
      /\ \A p \in Queries : reader'[p] # "statOpened"
      /\ \A k : Leases(k)' = Leases(k)
  BY <1>1, <1>3, SettleKeepsReaders
<1>5. \A h \in Handles :
        /\ entry'[h] \in Entries
        /\ entry'[h].refs = entry[h].refs /\ entry'[h].evicted = entry[h].evicted
        /\ entry'[h].open = entry[h].open
  <2>1. SUFFICES ASSUME NEW h \in Handles
                 PROVE  /\ entry'[h] \in Entries
                        /\ entry'[h].refs = entry[h].refs /\ entry'[h].evicted = entry[h].evicted
                        /\ entry'[h].open = entry[h].open
    OBVIOUS
  <2>2. entry'[h] = IF h = mine[q] THEN [entry[h] EXCEPT !.mtime = bridge] ELSE entry[h]
    BY <1>1, <1>2, <1>3 DEF ReaderTypes
  <2>3. entry[h] \in Entries
    BY <1>2 DEF ReaderTypes
  <2>4. QED  BY <2>2, <2>3 DEF Entries
<1>6. ReaderTypes'
  <2>1. entry' \in [Handles -> Entries]
    BY <1>1, <1>2, <1>5 DEF ReaderTypes
  <2>2. QED  BY <1>1, <1>2, <1>3, <1>4, <2>1 DEF ReaderTypes
<1>7. LeasesLive' /\ EvictedClosed' /\ NotEvicted' /\ OpenedAlone'
  BY <1>1, <1>2, <1>3, <1>4, <1>5 DEF LeasesLive, EvictedClosed, NotEvicted, OpenedAlone
<1>8. QED  BY <1>4, <1>6, <1>7 DEF Readers

\* A lease is given back; the last one of an evicted handle closes it.
LEMMA ReleaseStep ==
  ASSUME Readers, NEW q \in Queries, Release(q)
  PROVE  Readers'
<1> DEFINE g == mine[q]
           e == [entry[g] EXCEPT !.refs = @ - 1]
<1>1. /\ reader[q] = "leased" /\ reader' = [reader EXCEPT ![q] = "idle"]
      /\ mine' = [mine EXCEPT ![q] = NoHandle] /\ began' = [began EXCEPT ![q] = NoSync]
      /\ entry' = [entry EXCEPT ![g] = IF e.evicted THEN closed(e) ELSE e]
      /\ UNCHANGED <<inFlight, cached>>
  BY DEF Release, Step
<1>2. ReaderTypes /\ LeasesLive /\ EvictedClosed /\ NotEvicted /\ Looking
  BY DEF Readers
<1>3. g \in Handles /\ entry[g] \in Entries /\ q \in Leases(g)
  BY <1>1, <1>2 DEF Looking, ReaderTypes, Leases
<1>4. entry[g].refs > 0 /\ entry[g].open
  BY <1>2, <1>3, LeaseCount DEF LeasesLive
<1>5. /\ e \in Entries /\ e.refs = entry[g].refs - 1 /\ e.evicted = entry[g].evicted /\ e.open
  BY <1>3, <1>4 DEF Entries
<1> HIDE DEF e
<1>6. /\ \A h \in Handles : h # g => entry'[h] = entry[h]
      /\ entry'[g] \in Entries /\ entry'[g].refs = entry[g].refs - 1
      /\ entry'[g].evicted = entry[g].evicted
      /\ entry'[g].open <=> ~(entry[g].evicted /\ entry[g].refs = 1)
  <2>1. CASE e.evicted /\ e.refs = 0
    <3>1. entry' = [entry EXCEPT ![g] = NoEntry]
      BY <1>1, <2>1 DEF closed
    <3>2. NoEntry \in Entries /\ NoEntry.refs = 0 /\ NoEntry.evicted /\ ~NoEntry.open
      BY DEF NoEntry, Entries, Present
    <3>3. \A h \in Handles : entry'[h] = IF h = g THEN NoEntry ELSE entry[h]
      BY <1>2, <3>1 DEF ReaderTypes
    <3>4. entry[g].refs \in Nat /\ entry[g].evicted \in BOOLEAN
      BY <1>3 DEF Entries
    <3>5. entry[g].refs = 1 /\ entry[g].evicted = TRUE /\ entry'[g] = NoEntry
      BY <1>3, <1>5, <2>1, <3>3, <3>4
    <3>6. NoEntry.evicted = TRUE /\ NoEntry.open = FALSE
      BY DEF NoEntry
    <3>7. \A h \in Handles : h # g => entry'[h] = entry[h]
      BY <3>3
    <3>8. entry'[g].open <=> ~(entry[g].evicted /\ entry[g].refs = 1)
      BY <3>5, <3>6
    <3>9. entry'[g].refs = entry[g].refs - 1
      BY <3>2, <3>5
    <3>10. entry'[g] \in Entries /\ entry'[g].evicted = entry[g].evicted
      BY <3>2, <3>5, <3>6
    <3>11. QED  BY <3>7, <3>8, <3>9, <3>10
  <2>2. CASE ~(e.evicted /\ e.refs = 0)
    <3>1. entry' = [entry EXCEPT ![g] = e]
      BY <1>1, <2>2 DEF closed
    <3>2. \A h \in Handles : entry'[h] = IF h = g THEN e ELSE entry[h]
      BY <1>2, <3>1 DEF ReaderTypes
    <3>3. entry[g].refs \in Nat /\ entry[g].evicted \in BOOLEAN
      BY <1>3 DEF Entries
    <3>4. QED  BY <1>3, <1>4, <1>5, <2>2, <3>2, <3>3
  <2>3. QED  BY <2>1, <2>2
<1> HIDE DEF g
<1>7. ReaderTypes'
  <2>1. entry' \in [Handles -> Entries]
    BY <1>1, <1>2, <1>6 DEF ReaderTypes
  <2>2. QED  BY <1>1, <1>2, <2>1 DEF ReaderTypes, ReaderPlaces, Present
<1>8. OneOpener' /\ Looking'
  BY <1>1, <1>2 DEF Readers, ReaderTypes, OneOpener, Looking
<1>9. OpenedAlone'
  <2>1. \A p \in Queries : reader'[p] = "statOpened" =>
          p # q /\ reader[p] = "statOpened" /\ mine'[p] = mine[p] /\ mine[p] \in Handles
    BY <1>1, <1>2 DEF ReaderTypes, Looking
  <2>2. \A p, r \in Queries : mine'[p] = mine[p] \/ (p = q /\ mine'[p] = NoHandle)
    BY <1>1, <1>2 DEF ReaderTypes
  <2>3. \A h \in Handles : entry'[h].evicted = entry[h].evicted
    BY <1>6
  <2>4. QED  BY <1>1, <2>1, <2>2, <2>3, CacheAssumption DEF Readers, OpenedAlone
<1>10. LeasesLive'
  <2>1. SUFFICES ASSUME NEW h \in Handles
                 PROVE  /\ entry'[h].refs = Cardinality(Leases(h)')
                        /\ Leases(h)' # {} => entry'[h].open
    BY DEF LeasesLive
  <2>2. /\ g # h => Leases(h)' = Leases(h)
        /\ g = h => /\ Leases(h)' \subseteq Leases(h)
                    /\ Cardinality(Leases(h)') = Cardinality(Leases(h)) - 1
    <3>1. reader \in [Queries -> ReaderPlaces] /\ mine \in [Queries -> Handles \cup {NoHandle}]
      BY <1>2 DEF ReaderTypes
    <3>2. /\ mine[q] # h => Leases(h)' = Leases(h)
          /\ mine[q] = h => /\ Leases(h)' \subseteq Leases(h)
                            /\ Cardinality(Leases(h)') = Cardinality(Leases(h)) - 1
      BY <1>1, <3>1, LeaseGiven
    <3>3. QED  BY <3>2 DEF g
  <2>3. entry[h].refs = Cardinality(Leases(h)) /\ (Leases(h) # {} => entry[h].open)
    BY <1>2 DEF LeasesLive
  <2>4. Leases(h)' # {} => Cardinality(Leases(h)') # 0
    <3>1. Leases(h)' \subseteq Leases(h) /\ IsFiniteSet(Leases(h))
      BY <2>2, LeaseCount
    <3>2. QED  BY <3>1, FS_Subset, FS_EmptySet
  <2>5. CASE g # h
    BY <1>6, <2>2, <2>3, <2>5
  <2>6. CASE g = h
    BY <1>3, <1>4, <1>6, <2>2, <2>3, <2>4, <2>6
  <2>7. QED  BY <2>5, <2>6
<1>11. EvictedClosed' /\ NotEvicted'
  BY <1>1, <1>2, <1>3, <1>4, <1>6 DEF EvictedClosed, NotEvicted, ReaderTypes, Entries
<1>12. QED  BY <1>7, <1>8, <1>9, <1>10, <1>11 DEF Readers

\* Nothing moved in the server.
LEMMA ReadersUnmoved ==
  ASSUME Readers, UNCHANGED <<reader, mine, inFlight, cached, entry, began>>
  PROVE  Readers'
<1>1. \A h \in Handles : Leases(h)' = Leases(h)
  BY DEF Leases
<1>2. ReaderTypes' /\ OneOpener' /\ Looking' /\ OpenedAlone'
  BY DEF Readers, ReaderTypes, OneOpener, Looking, OpenedAlone
<1>3. QED  BY <1>1, <1>2, WalkKeepsReaders

\* What the readers keep is inductive.
LEMMA ReadersStep ==
  ASSUME SyncTypeOK, Readers, [Next]_vars
  PROVE  Readers'
<1>0. bridge \in Present /\ ReaderTypes
  BY DEF SyncTypeOK, Readers
<1>1. ASSUME NEW q \in Queries, QueryStep(q)
      PROVE  Readers'
  <2>1. CASE Discard(q)
    <3>1. /\ reader[q] = "stat" /\ reader' = [reader EXCEPT ![q] = "discarded"]
          /\ evictBridgeEntry(mine[q]) /\ UNCHANGED <<mine, inFlight, began>>
      BY <2>1 DEF Discard, Step
    <3>2. mine[q] \in Handles
      BY <3>1 DEF Readers, Looking
    <3>3. \A p \in Queries : reader[p] = "statOpened" => mine[p] # mine[q]
      BY <3>1 DEF Readers, OpenedAlone
    <3>4. QED  BY <3>1, <3>2, <3>3, EvictKeepsReaders
  <2>2. QED  BY <1>0, <1>1, <2>1, WalkStep, LeaseStep, OpenStep, CacheStep, ReleaseStep DEF QueryStep
<1>2. ASSUME NEW s \in Syncs, BuildInvalidating(s)
      PROVE  Readers'
  <2>1. UNCHANGED <<reader, mine, inFlight, began>> /\ Invalidate(s)
    BY <1>2 DEF BuildInvalidating
  <2>2. CASE s \in Inside /\ cached # NoHandle
    <3>1. cached \in Handles /\ evictBridgeEntry(cached)
      BY <1>0, <2>1, <2>2 DEF ReaderTypes, Invalidate
    <3>2. \A q \in Queries : reader[q] = "statOpened" => mine[q] # cached
      BY DEF Readers, OpenedAlone
    <3>3. QED  BY <2>1, <3>1, <3>2, EvictKeepsReaders
  <2>3. CASE ~(s \in Inside /\ cached # NoHandle)
    BY <2>1, <2>3, ReadersUnmoved DEF Invalidate
  <2>4. QED  BY <2>2, <2>3
<1>3. CASE ServerDies
  <2>1. NobodyAsks'
    BY <1>3 DEF ServerDies, NobodyAsks
  <2>2. QED  BY <2>1, ReadersInit, PTL
<1>4. CASE UNCHANGED cacheVars
  BY <1>4, ReadersUnmoved DEF cacheVars
<1>5. QED
  BY <1>1, <1>2, <1>3, <1>4 DEF Next, SwapBesideReaders, SyncDies, vars

\* What the readers keep, in every behaviour.
THEOREM ReadersKept == Spec => []Readers
<1>1. Init => SyncTypeOK /\ Readers
  BY BooksInit, ReadersInit DEF Init, Books, ServerInit, NobodyAsks
<1>2. SyncTypeOK /\ Readers /\ [Next]_vars => Readers'
  BY ReadersStep
<1>3. Books => SyncTypeOK
  BY DEF Books
<1>4. QED  BY <1>1, <1>2, <1>3, BooksKept, PTL DEF Spec

-----------------------------------------------------------------------------
(* Metadata and database, until a reader puts a .bak over a database in    *)
(* place.                                                                  *)

\* The stamp is that of the database the metadata was written for, and a sync
\* between two of its steps still finds the database it left or looked at.
Stamped ==
  /\ meta.stamp = meta.of
  /\ \A s \in Syncs : /\ at[s] \in {"dropBak", "stamp"} => bridge = s
                      /\ at[s] = "restamp" => bridge = meta.of /\ bridge # NoSync

\* While no sync was cut off, metadata that anybody may accept is of the contracts
\* in the registry; its lists are too, but for a sync that refreshes them.
Agreement ==
  ~interrupted /\ ~meta.unknown /\ meta.of # NoSync =>
    /\ holder = NoSync \/ at[holder] = "locked" =>
         registry.by = meta.of /\ registry.lists = meta.lists
    /\ holder # NoSync /\ at[holder] \in {"refresh", "restamp"} =>
         registry.by = meta.of /\ registry.lists = holder

\* The steps of a sync keep metadata and database together.
LEMMA SyncStepStamped ==
  ASSUME Books, Stamped, NEW s \in Syncs, SyncStep(s) \/ Build(s) \/ Swap(s)
  PROVE  Stamped'
<1> USE SyncsAssumption DEF Stamped, fileVars, GoTo, Leave, Locked, Refreshing, Building
<1>0. /\ s # NoSync /\ HolderKnown /\ BuildsOnOwn /\ meta \in Metas
      /\ \A l : [at EXCEPT ![s] = l] = [t \in Syncs |-> IF t = s THEN l ELSE at[t]]
  BY DEF Books, SyncTypeOK, Metas
<1>1. /\ \A l, b : /\ [meta EXCEPT !.stamp = bridge, !.lists = l].of = meta.of
                   /\ [meta EXCEPT !.stamp = bridge, !.lists = l].stamp = bridge
                   /\ [meta EXCEPT !.lists = l, !.unknown = b].of = meta.of
                   /\ [meta EXCEPT !.lists = l, !.unknown = b].stamp = meta.stamp
                   /\ [meta EXCEPT !.unknown = b].of = meta.of
                   /\ [meta EXCEPT !.unknown = b].stamp = meta.stamp
  BY <1>0 DEF Metas
<1>2. CASE Restamp(s)
  <2>1. at[s] = "restamp" /\ bridge = meta.of /\ bridge # NoSync /\ holder = s
    BY <1>0, <1>2 DEF Restamp, HolderKnown
  <2>2. /\ meta' = [meta EXCEPT !.stamp = bridge, !.lists = s]
        /\ at' = [at EXCEPT ![s] = "done"] /\ UNCHANGED bridge
    BY <1>2, <2>1 DEF Restamp
  <2>3. meta'.of = bridge /\ meta'.stamp = bridge
    BY <1>0, <2>1, <2>2 DEF Metas
  <2>4. QED  BY <1>0, <2>1, <2>2, <2>3
<1>3. CASE Disclaim(s)  BY <1>0, <1>1, <1>3 DEF Disclaim, HolderKnown
<1>4. CASE StampMeta(s)  BY <1>0, <1>4 DEF StampMeta, HolderKnown
<1>5. CASE Withdraw(s)  BY <1>0, <1>1, <1>5 DEF Withdraw, HolderKnown
<1>6. CASE MoveAside(s)  BY <1>0, <1>6 DEF MoveAside, HolderKnown
<1>7. CASE Swap(s)  BY <1>0, <1>7 DEF Swap, HolderKnown
<1>8. CASE RefreshCheck(s)  BY ZenonT(60), <1>0, <1>8 DEF RefreshCheck, bridgeMetaMatchesFile
<1>9. CASE DropBak(s)  BY <1>0, <1>9 DEF DropBak
<1>10. CASE ~(Restamp(s) \/ Disclaim(s) \/ StampMeta(s) \/ Withdraw(s) \/ MoveAside(s) \/ Swap(s)
              \/ RefreshCheck(s) \/ DropBak(s))
  <2>1. /\ UNCHANGED <<bridge, meta>>
        /\ \E l : at' = [at EXCEPT ![s] = l] /\ l \notin {"dropBak", "stamp", "restamp"}
    BY ZenonT(60), <1>10 DEF SyncStep, Extract, TakeLock, LockTimesOut, Superseded, Preserve, RefreshFails,
         WriteRegistry, WriteRegistryFails, SwapFails, StampFails, WithdrawFails, Build
  <2>2. QED  BY <1>0, <2>1
<1>11. QED  BY <1>2, <1>3, <1>4, <1>5, <1>6, <1>7, <1>8, <1>9, <1>10

\* The steps of a sync keep registry and metadata together.
LEMMA SyncStepAgreement ==
  ASSUME Books, Stamped, Agreement, NEW s \in Syncs, SyncStep(s) \/ Build(s) \/ Swap(s)
  PROVE  Agreement'
<1> USE SyncsAssumption DEF Agreement, fileVars, GoTo, Leave, Locked, Refreshing, Building
<1>0. /\ s # NoSync /\ HolderKnown /\ BuildsOnOwn /\ meta \in Metas /\ registry \in Registries
      /\ holder \in Syncs \cup {NoSync}
      /\ \A l : [at EXCEPT ![s] = l] = [t \in Syncs |-> IF t = s THEN l ELSE at[t]]
  BY DEF Books, SyncTypeOK, Metas, Registries
<1>1. CASE \E f \in BOOLEAN : Extract(s, f)  BY <1>0, <1>1 DEF Extract, HolderKnown
<1>2. CASE TakeLock(s)  BY <1>0, <1>2 DEF TakeLock
<1>3. CASE LockTimesOut(s)  BY <1>0, <1>3 DEF LockTimesOut, HolderKnown
<1>4. CASE Superseded(s)  BY <1>0, <1>4 DEF Superseded, HolderKnown
<1>5. CASE Preserve(s)
  BY <1>0, <1>5 DEF Preserve, writeRegistry, HolderKnown, Registries
<1>6. CASE RefreshCheck(s)
  <2>1. at[s] = "refresh" /\ holder = s /\ UNCHANGED <<registry, meta, interrupted>>
    BY <1>0, <1>6 DEF RefreshCheck, HolderKnown
  <2>2. CASE meta = NoMeta /\ bridge = NoSync
    BY <2>1, <2>2 DEF NoMeta
  <2>3. CASE ~(meta = NoMeta /\ bridge = NoSync)
    <3>1. holder' = s /\ at'[s] \in {"restamp", "disclaim"}
      BY <1>0, <1>6, <2>1, <2>3 DEF RefreshCheck
    <3>2. QED  BY <1>0, <2>1, <3>1
  <2>4. QED  BY <2>2, <2>3
<1>7. CASE Restamp(s)
  <2>1. at[s] = "restamp" /\ bridge = meta.of /\ bridge # NoSync /\ holder = s
    BY <1>0, <1>7 DEF Restamp, HolderKnown, Stamped
  <2>2. /\ meta' = [meta EXCEPT !.stamp = bridge, !.lists = s] /\ holder' = NoSync
        /\ UNCHANGED <<registry, interrupted>>
    BY <1>7, <2>1 DEF Restamp
  <2>3. meta'.of = meta.of /\ meta'.lists = s /\ meta'.unknown = meta.unknown
    BY <1>0, <2>2 DEF Metas
  <2>4. QED  BY <1>0, <2>1, <2>2, <2>3
<1>8. CASE Disclaim(s)  BY <1>0, <1>8 DEF Disclaim, HolderKnown, Metas
<1>9. CASE RefreshFails(s)  BY <1>0, <1>9 DEF RefreshFails
<1>10. CASE WriteRegistry(s)  BY <1>0, <1>10 DEF WriteRegistry, HolderKnown
<1>11. CASE WriteRegistryFails(s)  BY <1>0, <1>11 DEF WriteRegistryFails, HolderKnown
<1>12. CASE MoveAside(s)  BY <1>0, <1>12 DEF MoveAside, HolderKnown
<1>13. CASE SwapFails(s)  BY <1>0, <1>13 DEF SwapFails, HolderKnown
<1>14. CASE DropBak(s)  BY <1>0, <1>14 DEF DropBak, HolderKnown
<1>15. CASE StampMeta(s)  BY <1>0, <1>15 DEF StampMeta, HolderKnown, BuildsOnOwn
<1>16. CASE StampFails(s)  BY <1>0, <1>16 DEF StampFails, HolderKnown
<1>17. CASE Withdraw(s)  BY <1>0, <1>17 DEF Withdraw, HolderKnown, Metas
<1>18. CASE WithdrawFails(s)  BY <1>0, <1>18 DEF WithdrawFails
<1>19. CASE Build(s)  BY <1>0, <1>19 DEF Build, HolderKnown
<1>20. CASE Swap(s)  BY <1>0, <1>20 DEF Swap, HolderKnown
<1>21. QED
  BY <1>1, <1>2, <1>3, <1>4, <1>5, <1>6, <1>7, <1>8, <1>9, <1>10, <1>11, <1>12, <1>13, <1>14,
     <1>15, <1>16, <1>17, <1>18, <1>19, <1>20 DEF SyncStep

\* Metadata, database and registry stay together, whoever reads beside.
Together == Stamped /\ Agreement

\* That a .bak was put over a database in place is never forgotten, and a step
\* that does not do it puts a .bak only where no database is.
LEMMA NotDemoted ==
  ASSUME ~demoted', [Next]_vars
  PROVE  /\ ~demoted
         /\ \A q \in Queries : Promote(q) => bridge = NoSync \/ UNCHANGED <<bridge, bak>>
<1>1. ASSUME NEW q \in Queries, Promote(q)
      PROVE  ~demoted /\ (bridge = NoSync \/ UNCHANGED <<bridge, bak>>)
  <2>1. CASE bridge = NoSync
    BY <1>1, <2>1 DEF Promote
  <2>2. CASE bridge # NoSync
    <3>1. demoted' = TRUE \/ UNCHANGED <<bridge, bak, demoted>>
      BY <1>1, <2>2 DEF Promote
    <3>2. UNCHANGED <<bridge, bak, demoted>>
      BY <3>1, Zenon
    <3>3. QED  BY <3>2
  <2>3. QED  BY <2>1, <2>2
<1>2. ASSUME NEW q \in Queries, QueryStep(q), ~Promote(q)
      PROVE  UNCHANGED demoted
  BY <1>2 DEF QueryStep, Ask, Reuse, Discard, Miss, LookForFile, OpenFile, OpenFails, CacheHandle,
              Lease, Retry, GiveUp, Release
<1>3. ASSUME UNCHANGED vars \/ ServerDies \/ \E s \in Syncs :
               UNCHANGED cacheVars \/ BuildInvalidating(s) \/ SwapBesideReaders(s) \/ SyncDies(s)
      PROVE  UNCHANGED demoted
  BY <1>3 DEF vars, cacheVars, ServerDies, BuildInvalidating, SwapBesideReaders, SyncDies
<1>4. ~demoted
  BY <1>1, <1>2, <1>3 DEF Next
<1>5. QED  BY <1>1, <1>4

\* As long as nobody does it every step keeps the two files together.
LEMMA TogetherStep ==
  ASSUME ~demoted', Books, Together, [Next]_vars
  PROVE  Together'
<1>1. ASSUME NEW s \in Syncs, SyncStep(s) \/ Build(s) \/ Swap(s)
      PROVE  Together'
  BY <1>1, SyncStepStamped, SyncStepAgreement DEF Together
<1>2. ASSUME NEW d \in SUBSET Syncs, Die(d)
      PROVE  Together'
  BY <1>2, SyncsAssumption
     DEF Die, fileVars, Together, Stamped, Agreement, Books, SyncTypeOK, HolderKnown, Locked,
         Refreshing, Building
<1>3. CASE bridge = NoSync /\ PutBack
  BY <1>3, SyncsAssumption DEF PutBack, Together, Stamped, Agreement
<1>4. CASE UNCHANGED syncVars
  BY <1>4 DEF syncVars, fileVars, Together, Stamped, Agreement
<1>5. ASSUME NEW q \in Queries, QueryStep(q)
      PROVE  (bridge = NoSync /\ PutBack) \/ UNCHANGED syncVars
  <2>1. CASE Promote(q)
    BY <2>1, NotDemoted DEF Promote, PutBack, syncVars, fileVars
  <2>2. CASE ~Promote(q)
    BY <1>5, <2>2 DEF QueryStep, Ask, Reuse, Discard, Miss, LookForFile, OpenFile, OpenFails,
                      CacheHandle, Lease, Retry, GiveUp, Release
  <2>3. QED  BY <2>1, <2>2
<1>6. QED
  BY <1>1, <1>2, <1>3, <1>4, <1>5, CacheAssumption
     DEF Next, BuildInvalidating, SwapBesideReaders, SyncDies, ServerDies, vars

\* Registry, metadata and database are together as the group is found.
LEMMA TogetherInit ==
  ASSUME Init
  PROVE  Together
<1>1. PICK o \in {Old, NoSync} :
        /\ registry = [by |-> o, lists |-> o]
        /\ meta = IF o = Old THEN [of |-> Old, stamp |-> Old, lists |-> Old, unknown |-> FALSE]
                  ELSE NoMeta
  BY DEF Init, SyncInit
<1>2. holder = NoSync /\ at = [s \in Syncs |-> "extract"]
  BY DEF Init, SyncInit
<1>3. QED
  BY <1>1, <1>2, SyncsAssumption DEF Together, Stamped, Agreement, NoMeta

\* They stay together in every behaviour, until then.
THEOREM TogetherKept == Spec => [](~demoted => Together)
<1>1. Init => (~demoted => Together)
  BY TogetherInit
<1>2. Books /\ (~demoted => Together) /\ [Next]_vars => (~demoted => Together)'
  BY TogetherStep, NotDemoted
<1>3. QED  BY <1>1, <1>2, BooksKept, PTL DEF Spec

\* Metadata that a reader accepts was written for the database beside it
\* (bridge-db.ts:1383-1391), whatever the syncs and the readers do and wherever
\* they stop, until a reader puts a .bak over a database in place (bridge-db.ts:1528).
THEOREM VouchedAlways == Spec => []VouchedUnlessDemoted
<1>1. (~demoted => Together) => VouchedUnlessDemoted
  BY DEF Together, Stamped, VouchedUnlessDemoted, VouchedIsTrue, bridgeMetaMatchesFile
<1>2. QED  BY <1>1, TogetherKept, PTL

\* Registry and accepted metadata tell of the same sync.
LEMMA TogetherAgrees ==
  ASSUME Together
  PROVE  FilesAgree
<1>1. QED
  BY DEF Together, Stamped, Agreement, FilesAgree, bridgeMetaMatchesFile

\* Whether a .bak was put over a database is a Boolean.
DemotedType == demoted \in BOOLEAN

\* ... in every behaviour.
LEMMA DemotedKept == Spec => []DemotedType
<1> USE DEF DemotedType
<1>1. Init => DemotedType
  BY DEF Init, ServerInit
<1>2. DemotedType /\ [Next]_vars => DemotedType'
  <2>1. SUFFICES ASSUME demoted \in BOOLEAN, [Next]_vars PROVE demoted' \in BOOLEAN
    OBVIOUS
  <2>2. ASSUME NEW q \in Queries, QueryStep(q) PROVE demoted' \in BOOLEAN
    <3>1. CASE Promote(q)
      BY <2>1, <3>1 DEF Promote
    <3>2. CASE ~Promote(q)
      BY <2>1, <2>2, <3>2 DEF QueryStep, Ask, Reuse, Discard, Miss, LookForFile, OpenFile, OpenFails,
                              CacheHandle, Lease, Retry, GiveUp, Release
    <3>3. QED  BY <3>1, <3>2
  <2>3. QED
    BY <2>1, <2>2 DEF Next, vars, cacheVars, ServerDies, BuildInvalidating, SwapBesideReaders, SyncDies
<1> HIDE DEF DemotedType
<1>3. QED  BY <1>1, <1>2, PTL DEF Spec

\* The types, with the bounds on leases and openers.
LEMMA TypesFollow ==
  ASSUME Books, Readers, DemotedType
  PROVE  TypeOK
<1>1. ReaderTypes /\ OneOpener /\ LeasesLive /\ SyncTypeOK
  BY DEF Books, Readers
<1>2. Cardinality(inFlight) <= 1
  <2>1. Cardinality(inFlight) \in {0, 1}
    BY <1>1, FS_EmptySet, FS_Singleton DEF OneOpener
  <2>2. QED  BY <2>1
<1>3. ASSUME NEW h \in Handles
      PROVE  entry[h] \in [db : Present, mtime : Present, refs : 0..Cardinality(Queries),
                           evicted : BOOLEAN, open : BOOLEAN]
  <2>1. entry[h] \in Entries /\ entry[h].refs = Cardinality(Leases(h))
    BY <1>1 DEF ReaderTypes, LeasesLive
  <2>2. entry[h].refs \in 0..Cardinality(Queries)
    BY <2>1, LeaseCount, FS_CardinalityType, CacheAssumption
  <2>3. QED  BY <2>1, <2>2 DEF Entries
<1>4. QED  BY <1>1, <1>2, <1>3 DEF TypeOK, ReaderTypes, ReaderPlaces, DemotedType

\* No handle is closed under a query that uses it and none stays open for nobody;
\* there is always a database to go back to, and a sync that saw nothing overwrites
\* nobody's, whatever comes between two steps of a reader; registry and bridge
\* agree until a reader puts a .bak over a database in place.
THEOREM CacheAndFilesSound == Spec => []Inv
<1>1. Books /\ Readers /\ DemotedType /\ (~demoted => Together) => Inv
  BY TypesFollow, TogetherAgrees DEF Inv, Books, Readers
<1>2. QED  BY <1>1, BooksKept, ReadersKept, DemotedKept, TogetherKept, PTL

-----------------------------------------------------------------------------
(* The age of answers.                                                     *)

\* Age in a given order of writes.
AgeIn(w, s) ==
  IF \E i \in 1..Len(w) : w[i] = s THEN CHOOSE i \in 1..Len(w) : w[i] = s ELSE 0

\* Nobody's database, the one found, and those of the syncs that wrote.
Known(w) == {Old, NoSync} \cup {w[i] : i \in 1..Len(w)}

\* Databases are of syncs that wrote the registry first.
AllKnown ==
  /\ bridge \in Known(writes) /\ bak \in Known(writes)
  /\ \A q \in Queries : began[q] \in Known(writes)
  /\ \A h \in Handles : entry[h].mtime \in Known(writes)

\* The database of the group, in its place or moved aside.
InPlace == IF bridge # NoSync THEN bridge ELSE bak

\* What was in place when a query began was not replaced by an older one.
NeverOlder == \A q \in Queries : AgeIn(writes, began[q]) <= AgeIn(writes, InPlace)

\* The handle that a query was given is dated, if at all, by a database as young
\* as the one that was in place when the query began.
Dated ==
  \A q \in Queries : reader[q] \in {"opened", "leased"} /\ mine[q] \in Handles /\ entry[mine[q]].open =>
    entry[mine[q]].mtime = NoSync \/ AgeIn(writes, began[q]) <= AgeIn(writes, entry[mine[q]].mtime)

\* An open handle is of some database.
OfSome == \A h \in Handles : entry[h].open => entry[h].db # NoSync

\* The inductive invariant of fresh answers.
Fresh == AllKnown /\ NeverOlder /\ Dated /\ OfSome

\* The age of a sync that wrote is the place of its write; the others have none.
LEMMA AgeOfWrite ==
  ASSUME NEW w \in Seq(Syncs), \A i, j \in 1..Len(w) : w[i] = w[j] => i = j
  PROVE  /\ \A x : AgeIn(w, x) \in Nat /\ AgeIn(w, x) <= Len(w)
         /\ \A i \in 1..Len(w) : AgeIn(w, w[i]) = i
         /\ \A x : x \notin Syncs => AgeIn(w, x) = 0
<1>1. Len(w) \in Nat /\ \A i \in 1..Len(w) : w[i] \in Syncs
  OBVIOUS
<1>2. ASSUME NEW i \in 1..Len(w) PROVE AgeIn(w, w[i]) = i
  <2>1. \A j \in 1..Len(w) : w[j] = w[i] <=> j = i
    OBVIOUS
  <2>2. (CHOOSE j \in 1..Len(w) : w[j] = w[i]) = i
    BY <2>1
  <2>3. QED  BY <2>2 DEF AgeIn
<1>3. ASSUME NEW x, \A i \in 1..Len(w) : w[i] # x PROVE AgeIn(w, x) = 0
  BY <1>3 DEF AgeIn
<1>4. ASSUME NEW x PROVE AgeIn(w, x) \in Nat /\ AgeIn(w, x) <= Len(w)
  <2>1. CASE \E i \in 1..Len(w) : w[i] = x
    BY <1>1, <1>2, <2>1
  <2>2. CASE ~\E i \in 1..Len(w) : w[i] = x
    BY <1>1, <1>3, <2>2
  <2>3. QED  BY <2>1, <2>2
<1>5. QED  BY <1>1, <1>2, <1>3, <1>4

\* A new write changes no age, and is younger than all.
LEMMA AgeGrows ==
  ASSUME NEW w \in Seq(Syncs), \A i, j \in 1..Len(w) : w[i] = w[j] => i = j,
         NEW s \in Syncs, \A i \in 1..Len(w) : w[i] # s
  PROVE  \A x \in Known(w) : x \in Known(Append(w, s)) /\ AgeIn(Append(w, s), x) = AgeIn(w, x)
<1> DEFINE v == Append(w, s)
<1>1. /\ v \in Seq(Syncs) /\ Len(v) = Len(w) + 1 /\ Len(w) \in Nat /\ v[Len(w) + 1] = s
      /\ \A i \in 1..Len(w) : v[i] = w[i]
  OBVIOUS
<1> HIDE DEF v
<1>2. \A i \in 1..Len(v) : i \in 1..Len(w) \/ i = Len(w) + 1
  BY <1>1
<1>3. \A i, j \in 1..Len(v) : v[i] = v[j] => i = j
  BY <1>1, <1>2
<1>4. SUFFICES ASSUME NEW x \in Known(w) PROVE x \in Known(v) /\ AgeIn(v, x) = AgeIn(w, x)
  BY DEF v
<1>5. CASE x \in {Old, NoSync}
  BY <1>1, <1>3, <1>5, AgeOfWrite, SyncsAssumption DEF Known
<1>6. CASE x \notin {Old, NoSync}
  <2>1. PICK i \in 1..Len(w) : x = w[i]
    BY <1>6 DEF Known
  <2>2. i \in 1..Len(v) /\ v[i] = x
    BY <1>1, <2>1
  <2>3. AgeIn(w, w[i]) = i
    BY AgeOfWrite
  <2>4. AgeIn(v, v[i]) = i
    BY <1>1, <1>3, <2>2, AgeOfWrite
  <2>5. QED  BY <2>1, <2>2, <2>3, <2>4 DEF Known
<1>7. QED  BY <1>5, <1>6

\* A write of the registry makes nothing older or younger.
LEMMA WriteKeepsFresh ==
  ASSUME Books, Fresh, NEW s \in Syncs, writes' = Append(writes, s), ~Past(s),
         UNCHANGED <<bridge, bak, reader, mine, entry, began>>, Readers
  PROVE  Fresh'
<1>1. /\ writes \in Seq(Syncs) /\ \A i, j \in 1..Len(writes) : writes[i] = writes[j] => i = j
      /\ \A i \in 1..Len(writes) : writes[i] # s
  BY DEF Books, SyncTypeOK, WritesOnce, Past
<1>2. \A x \in Known(writes) : x \in Known(writes') /\ AgeIn(writes', x) = AgeIn(writes, x)
  BY <1>1, AgeGrows
<1>3. InPlace' = InPlace /\ InPlace \in Known(writes)
  BY DEF InPlace, Fresh, AllKnown
<1>4. AllKnown' /\ NeverOlder' /\ OfSome'
  BY <1>2, <1>3 DEF Fresh, AllKnown, NeverOlder, OfSome
<1>5. Dated'
  BY <1>2 DEF Fresh, AllKnown, Dated
<1>6. QED  BY <1>4, <1>5 DEF Fresh

\* A younger database.
AsYoungAs(x, y) == AgeIn(writes, x) <= AgeIn(writes, y)

\* An entry keeps its database until it is closed.
EntryLasts(h) ==
  \/ entry'[h] = NoEntry
  \/ /\ entry'[h].db = entry[h].db /\ entry'[h].mtime = entry[h].mtime
     /\ entry'[h].open => entry[h].open

\* What all the steps have in common that open nothing and begin no query.
LEMMA StepKeepsFresh ==
  ASSUME SyncTypeOK, WritesOnce, Fresh, Readers, Readers', UNCHANGED writes,
         bridge' \in Known(writes), bak' \in Known(writes), AsYoungAs(InPlace, InPlace'),
         \A h \in Handles : EntryLasts(h),
         \A p \in Queries : began'[p] \in {began[p], NoSync},
         \A p \in Queries : reader'[p] \in {"opened", "leased"} /\ mine'[p] \in Handles =>
           \/ reader[p] \in {"opened", "leased"} /\ mine'[p] = mine[p]
           \/ AsYoungAs(began[p], entry[mine'[p]].mtime)
  PROVE  Fresh'
<1>1. /\ \A x : AgeIn(writes, x) \in Nat
      /\ AgeIn(writes, NoSync) = 0 /\ NoSync \in Known(writes)
  BY AgeOfWrite, SyncsAssumption DEF SyncTypeOK, WritesOnce, Known
<1>2. NoEntry.mtime = NoSync /\ NoEntry.open = FALSE
  BY DEF NoEntry
<1>3. \A h \in Handles : /\ entry'[h].mtime \in {entry[h].mtime, NoSync}
                         /\ entry'[h].open => /\ entry[h].open /\ entry'[h].db = entry[h].db
                                              /\ entry'[h].mtime = entry[h].mtime
  BY <1>2 DEF EntryLasts
<1>4. AllKnown'
  BY <1>1, <1>3 DEF Fresh, AllKnown
<1>5. \A p \in Queries : AgeIn(writes, began'[p]) <= AgeIn(writes, began[p])
  <2>1. SUFFICES ASSUME NEW p \in Queries PROVE AgeIn(writes, began'[p]) <= AgeIn(writes, began[p])
    OBVIOUS
  <2>2. began'[p] = began[p] \/ began'[p] = NoSync
    OBVIOUS
  <2>3. QED  BY <1>1, <2>2
<1>6. NeverOlder'
  <2>1. SUFFICES ASSUME NEW p \in Queries
                 PROVE  AgeIn(writes, began'[p]) <= AgeIn(writes, InPlace')
    BY DEF NeverOlder
  <2>2. AgeIn(writes, began[p]) <= AgeIn(writes, InPlace)
    BY DEF Fresh, NeverOlder
  <2>3. AgeIn(writes, InPlace) <= AgeIn(writes, InPlace')
    BY DEF AsYoungAs
  <2>4. QED  BY <1>1, <1>5, <2>2, <2>3
<1>7. OfSome'
  BY <1>3 DEF Fresh, OfSome
<1>8. Dated'
  <2>1. SUFFICES ASSUME NEW p \in Queries, reader'[p] \in {"opened", "leased"}, mine'[p] \in Handles,
                        entry'[mine'[p]].open, entry'[mine'[p]].mtime # NoSync
                 PROVE  AgeIn(writes, began'[p]) <= AgeIn(writes, entry'[mine'[p]].mtime)
    BY DEF Dated
  <2>2. entry[mine'[p]].open /\ entry'[mine'[p]].mtime = entry[mine'[p]].mtime
    BY <1>3, <2>1
  <2>3. AgeIn(writes, began[p]) <= AgeIn(writes, entry[mine'[p]].mtime)
    BY <2>1, <2>2 DEF Fresh, Dated, AsYoungAs
  <2>4. QED  BY <1>1, <1>5, <2>2, <2>3
<1>9. QED  BY <1>4, <1>6, <1>7, <1>8 DEF Fresh

\* The steps of a sync make nothing older: what it puts in place is of the last write.
LEMMA SyncStepFresh ==
  ASSUME Books, Fresh, Readers, Readers', NEW s \in Syncs,
         (SyncStep(s) /\ UNCHANGED cacheVars) \/ BuildInvalidating(s) \/ SwapBesideReaders(s)
  PROVE  Fresh'
<1>0. /\ SyncTypeOK /\ WritesOnce /\ HolderKnown /\ BuildsOnOwn /\ ListsLast
      /\ Moves(s)
  BY SyncStepMoves DEF Books, BuildInvalidating, SwapBesideReaders
<1>1. /\ bridge \in Known(writes) /\ bak \in Known(writes) /\ NoSync \in Known(writes)
      /\ \A x : AgeIn(writes, x) \in Nat
  BY <1>0, AgeOfWrite DEF Fresh, AllKnown, Known, WritesOnce, SyncTypeOK
<1>2. ASSUME UNCHANGED cacheVars
      PROVE  /\ UNCHANGED <<reader, mine, entry, began>> /\ \A h \in Handles : EntryLasts(h)
  BY <1>2 DEF cacheVars, EntryLasts
<1>3. CASE UNCHANGED cacheVars /\ SyncStep(s) /\ writes' = writes
  <2>1. \/ UNCHANGED <<bridge, bak>>
        \/ bridge # NoSync /\ bak' = bridge /\ bridge' = NoSync
        \/ bridge # NoSync /\ bak' = NoSync /\ bridge' = bridge
    BY <1>0, <1>3 DEF SyncStep, Extract, TakeLock, LockTimesOut, Superseded, Preserve, RefreshCheck,
         Restamp, Disclaim, RefreshFails, WriteRegistry, WriteRegistryFails, MoveAside, SwapFails,
         DropBak, StampMeta, StampFails, Withdraw, WithdrawFails, fileVars, BuildsOnOwn
  <2>2. InPlace' = InPlace
    BY <2>1 DEF InPlace
  <2>3. AsYoungAs(InPlace, InPlace')
    BY <1>1, <2>2 DEF AsYoungAs
  <2>4. bridge' \in Known(writes) /\ bak' \in Known(writes) /\ bridge' \in {bridge, NoSync}
    BY <1>1, <2>1
  <2>5. QED  BY <1>0, <1>2, <1>3, <2>3, <2>4, StepKeepsFresh
<1>4. CASE UNCHANGED cacheVars /\ SyncStep(s) /\ writes' # writes
  <2>1. at[s] = "locked" /\ writes' = Append(writes, s) /\ UNCHANGED <<bridge, bak>>
    BY <1>4 DEF SyncStep, Extract, TakeLock, LockTimesOut, Superseded, Preserve, RefreshCheck,
         Restamp, Disclaim, RefreshFails, WriteRegistry, WriteRegistryFails, MoveAside, SwapFails,
         DropBak, StampMeta, StampFails, Withdraw, WithdrawFails, fileVars, writeRegistry
  <2>2. QED  BY <1>2, <1>4, <2>1, WriteKeepsFresh DEF Past
<1>5. CASE SwapBesideReaders(s)
  <2>1. /\ at[s] = "swap" /\ bridge' = s /\ UNCHANGED <<bak, writes>> /\ UNCHANGED cacheVars
    BY <1>5 DEF SwapBesideReaders, Swap
  <2>2. registry.lists = s
    BY <1>0, <2>1 DEF BuildsOnOwn, Building
  <2>3. writes # <<>> /\ s = writes[Len(writes)] /\ writes \in Seq(Syncs)
    BY <1>0, <2>2 DEF ListsLast, SyncTypeOK
  <2>4. Len(writes) \in 1..Len(writes)
    BY <2>3
  <2>5. s \in Known(writes) /\ AgeIn(writes, s) = Len(writes)
    BY <1>0, <2>3, <2>4, AgeOfWrite DEF Known, WritesOnce
  <2>6. AgeIn(writes, InPlace) <= Len(writes)
    BY <1>0, <2>3, AgeOfWrite DEF WritesOnce
  <2>7. InPlace' = s
    BY <2>1, SyncsAssumption DEF InPlace
  <2>8. AsYoungAs(InPlace, InPlace')
    BY <2>5, <2>6, <2>7 DEF AsYoungAs
  <2>9. QED  BY <1>0, <1>1, <1>2, <2>1, <2>5, <2>8, StepKeepsFresh
<1>6. CASE BuildInvalidating(s)
  <2>1. /\ UNCHANGED <<bridge, bak, writes, reader, mine, began>> /\ Invalidate(s)
    BY <1>6 DEF BuildInvalidating, Build, fileVars
  <2>2. \A h \in Handles : EntryLasts(h)
    <3>1. SUFFICES ASSUME NEW h \in Handles PROVE EntryLasts(h)
      OBVIOUS
    <3>2. entry \in [Handles -> Entries]
      BY DEF Readers, ReaderTypes
    <3>3. \/ entry'[h] \in {entry[h], NoEntry}
          \/ entry'[h] = [entry[h] EXCEPT !.evicted = TRUE]
      BY <2>1, <3>2 DEF Invalidate, evictBridgeEntry, closed
    <3>4. entry[h] \in Entries
      BY <3>2
    <3>5. QED  BY <3>3, <3>4 DEF EntryLasts, Entries
  <2>3. AsYoungAs(InPlace, InPlace')
    BY <1>1, <2>1 DEF AsYoungAs, InPlace
  <2>4. QED  BY <1>0, <1>1, <2>1, <2>2, <2>3, StepKeepsFresh
<1>7. QED  BY <1>3, <1>4, <1>5, <1>6

\* A query that begins sees what is in place; whoever opens meanwhile has that too.
LEMMA AskFresh ==
  ASSUME Books, Fresh, Readers, NEW q \in Queries, Ask(q)
  PROVE  Fresh'
<1>1. /\ reader[q] = "idle" /\ bridge # NoSync /\ began' = [began EXCEPT ![q] = bridge]
      /\ UNCHANGED <<bridge, bak, writes, cached, entry>>
      /\ \E l \in {"stat", "open", "await"}, h \in Handles \cup {NoHandle} :
           reader' = [reader EXCEPT ![q] = l] /\ mine' = [mine EXCEPT ![q] = h]
  BY DEF Ask, getCachedBridgeReadOnly, openOrJoin, Step, syncVars, fileVars, Readers, ReaderTypes
<1>2. reader \in [Queries -> ReaderPlaces] /\ began \in [Queries -> Present]
      /\ mine \in [Queries -> Handles \cup {NoHandle}]
  BY DEF Readers, ReaderTypes
<1>3. /\ \A p \in Queries : p # q => /\ reader'[p] = reader[p] /\ mine'[p] = mine[p]
                                     /\ began'[p] = began[p]
      /\ reader'[q] \notin {"opened", "leased"} /\ began'[q] = bridge
  BY <1>1, <1>2
<1>4. \A x : AgeIn(writes, x) \in Nat
  BY AgeOfWrite DEF Books, WritesOnce, SyncTypeOK
<1>5. AllKnown' /\ OfSome'
  BY <1>1, <1>3 DEF Fresh, AllKnown, OfSome
<1>6. NeverOlder'
  BY <1>1, <1>3, <1>4 DEF Fresh, NeverOlder, InPlace
<1>7. Dated'
  BY <1>1, <1>3 DEF Fresh, Dated
<1>8. QED  BY <1>5, <1>6, <1>7 DEF Fresh

\* The opener opens what is in place.
LEMMA OpenFresh ==
  ASSUME Books, Fresh, Readers, NEW q \in Queries, OpenFile(q)
  PROVE  Fresh'
<1>1. PICK g \in Unknown :
        /\ entry' = [entry EXCEPT ![g] = [NoEntry EXCEPT !.db = bridge, !.open = TRUE, !.evicted = FALSE]]
        /\ mine' = [mine EXCEPT ![q] = g]
  BY DEF OpenFile
<1>2. /\ reader[q] = "native" /\ reader' = [reader EXCEPT ![q] = "statOpened"] /\ bridge # NoSync
      /\ UNCHANGED <<bridge, bak, writes, inFlight, cached, began>>
  BY DEF OpenFile, Step, syncVars, fileVars
<1>3. /\ g \in Handles /\ \A p \in Queries : mine[p] # g
      /\ reader \in [Queries -> ReaderPlaces] /\ mine \in [Queries -> Handles \cup {NoHandle}]
      /\ entry \in [Handles -> Entries]
  BY DEF Unknown, Readers, ReaderTypes
<1>4. /\ \A h \in Handles : h # g => entry'[h] = entry[h]
      /\ entry'[g] = [db |-> bridge, mtime |-> NoSync, refs |-> 0, evicted |-> FALSE, open |-> TRUE]
  BY <1>1, <1>3 DEF NoEntry
<1>5. /\ \A p \in Queries : p # q => reader'[p] = reader[p] /\ mine'[p] = mine[p]
      /\ reader'[q] = "statOpened" /\ mine'[q] = g
  BY <1>1, <1>2, <1>3
<1>6. AllKnown' /\ OfSome' /\ NeverOlder'
  BY <1>2, <1>3, <1>4 DEF Fresh, AllKnown, OfSome, NeverOlder, InPlace, Known
<1>7. Dated'
  BY <1>2, <1>3, <1>4, <1>5 DEF Fresh, Dated
<1>8. QED  BY <1>6, <1>7 DEF Fresh

\* The mtime taken after the open is of what is in place then, or of nothing.
LEMMA CacheFresh ==
  ASSUME Books, Fresh, Readers, NEW q \in Queries, CacheHandle(q)
  PROVE  Fresh'
<1>1. /\ reader[q] = "statOpened" /\ entry' = [entry EXCEPT ![mine[q]].mtime = bridge]
      /\ UNCHANGED <<bridge, bak, writes, began>> /\ settle(q, mine[q])
  BY DEF CacheHandle, syncVars, fileVars
<1>2. /\ mine[q] \in Handles /\ entry \in [Handles -> Entries]
      /\ bridge = NoSync \/ \A p \in Queries : AgeIn(writes, began[p]) <= AgeIn(writes, bridge)
  BY <1>1 DEF Fresh, NeverOlder, InPlace, Readers, Looking, ReaderTypes
<1>3. \A h \in Handles : /\ entry'[h].db = entry[h].db /\ entry'[h].open = entry[h].open
                         /\ h # mine[q] => entry'[h].mtime = entry[h].mtime
                         /\ h = mine[q] => entry'[h].mtime = bridge
  <2>1. SUFFICES ASSUME NEW h \in Handles
                 PROVE  /\ entry'[h].db = entry[h].db /\ entry'[h].open = entry[h].open
                        /\ h # mine[q] => entry'[h].mtime = entry[h].mtime
                        /\ h = mine[q] => entry'[h].mtime = bridge
    OBVIOUS
  <2>2. entry'[h] = IF h = mine[q] THEN [entry[h] EXCEPT !.mtime = bridge] ELSE entry[h]
    BY <1>1, <1>2
  <2>3. entry[h] \in Entries
    BY <1>2
  <2>4. QED  BY <2>2, <2>3 DEF Entries
<1>4. \A p \in Queries : reader'[p] \in {"opened", "leased"} =>
        \/ reader[p] \in {"opened", "leased"} /\ mine'[p] = mine[p]
        \/ mine'[p] = mine[q]
  BY <1>1 DEF settle
<1>5. AllKnown' /\ NeverOlder' /\ OfSome'
  BY <1>1, <1>2, <1>3 DEF Fresh, AllKnown, OfSome, NeverOlder, InPlace
<1>6. Dated'
  BY <1>1, <1>2, <1>3, <1>4 DEF Fresh, Dated
<1>7. QED  BY <1>5, <1>6 DEF Fresh

\* The other steps of a query: it reuses only what carries the mtime of the file.
LEMMA QueryStepFresh ==
  ASSUME ~demoted', Books, Fresh, Readers, Readers', NEW q \in Queries, QueryStep(q)
  PROVE  Fresh'
<1>0. /\ SyncTypeOK /\ WritesOnce /\ ReaderTypes
      /\ \A x : AgeIn(writes, x) \in Nat
      /\ \A l : [reader EXCEPT ![q] = l] = [p \in Queries |-> IF p = q THEN l ELSE reader[p]]
      /\ \A h : [mine EXCEPT ![q] = h] = [p \in Queries |-> IF p = q THEN h ELSE mine[p]]
      /\ \A x : [began EXCEPT ![q] = x] = [p \in Queries |-> IF p = q THEN x ELSE began[p]]
  BY AgeOfWrite DEF Books, WritesOnce, SyncTypeOK, Readers, ReaderTypes
<1>1. /\ bridge \in Known(writes) /\ bak \in Known(writes) /\ NoSync \in Known(writes)
  BY DEF Fresh, AllKnown, Known
<1>2. CASE Ask(q) \/ OpenFile(q) \/ CacheHandle(q)
  BY <1>2, AskFresh, OpenFresh, CacheFresh
<1>3. SUFFICES ASSUME ~(Ask(q) \/ OpenFile(q) \/ CacheHandle(q)) PROVE Fresh'
  BY <1>2
<1>4. /\ writes' = writes /\ InPlace' = InPlace
      /\ bridge' \in Known(writes) /\ bak' \in Known(writes)
  <2>1. CASE Promote(q)
    <3>1. [Next]_vars
      BY DEF Next
    <3>2. /\ writes' = writes
          /\ (bridge = NoSync /\ bridge' = bak /\ bak' = NoSync) \/ UNCHANGED <<bridge, bak>>
      BY <2>1, <3>1, NotDemoted DEF Promote
    <3>3. QED  BY <1>1, <3>2 DEF InPlace
  <2>2. CASE ~Promote(q)
    <3>1. UNCHANGED <<bridge, bak, writes>>
      BY <1>3, <2>2 DEF QueryStep, Reuse, Discard, Miss, LookForFile, OpenFails, Lease, Retry, GiveUp,
                        Release, syncVars, fileVars
    <3>2. QED  BY <1>1, <3>1 DEF InPlace
  <2>3. QED  BY <2>1, <2>2
<1>5. AsYoungAs(InPlace, InPlace')
  BY <1>0, <1>4 DEF AsYoungAs
<1>6. \A h \in Handles : EntryLasts(h)
  <2>1. SUFFICES ASSUME NEW h \in Handles PROVE EntryLasts(h)
    OBVIOUS
  <2>2. entry \in [Handles -> Entries] /\ entry[h] \in Entries
    BY <1>0 DEF ReaderTypes
  <2>3. CASE Reuse(q) \/ Lease(q)
    <3>1. entry'[h] \in {entry[h], [entry[h] EXCEPT !.refs = @ + 1]}
      BY <2>2, <2>3 DEF Reuse, Lease
    <3>2. QED  BY <2>2, <3>1 DEF EntryLasts, Entries
  <2>4. CASE Discard(q)
    <3>1. entry'[h] \in {entry[h], NoEntry, [entry[h] EXCEPT !.evicted = TRUE]}
      BY <2>2, <2>4 DEF Discard, evictBridgeEntry, closed
    <3>2. QED  BY <2>2, <3>1 DEF EntryLasts, Entries
  <2>5. CASE Release(q)
    <3>1. entry'[h] \in {entry[h], NoEntry, [entry[h] EXCEPT !.refs = @ - 1]}
      BY <2>2, <2>5 DEF Release, closed
    <3>2. QED  BY <2>2, <3>1 DEF EntryLasts, Entries
  <2>6. CASE ~(Reuse(q) \/ Lease(q) \/ Discard(q) \/ Release(q))
    <3>1. entry' = entry
      BY <1>3, <2>6 DEF QueryStep, Miss, LookForFile, Promote, OpenFails, Retry, GiveUp
    <3>2. QED  BY <3>1 DEF EntryLasts
  <2>7. QED  BY <2>3, <2>4, <2>5, <2>6
<1>7. \A p \in Queries : began'[p] \in {began[p], NoSync}
  BY <1>0, <1>3 DEF QueryStep, Reuse, Discard, Miss, LookForFile, Promote, OpenFails, Lease, Retry,
                    GiveUp, Release
<1>8. CASE Reuse(q)
  <2>1. /\ reader[q] = "stat" /\ ~entry[mine[q]].evicted /\ bridge # NoSync
        /\ entry[mine[q]].mtime = bridge /\ mine[q] \in Handles
        /\ reader' = [reader EXCEPT ![q] = "leased"] /\ mine' = mine
    BY <1>8 DEF Reuse, Step, Readers, Looking
  <2>2. AsYoungAs(began[q], entry[mine[q]].mtime)
    BY <2>1 DEF Fresh, NeverOlder, InPlace, AsYoungAs
  <2>3. \A p \in Queries : reader'[p] \in {"opened", "leased"} /\ mine'[p] \in Handles =>
          \/ reader[p] \in {"opened", "leased"} /\ mine'[p] = mine[p]
          \/ AsYoungAs(began[p], entry[mine'[p]].mtime)
    BY <1>0, <2>1, <2>2
  <2>4. QED  BY <1>0, <1>4, <1>5, <1>6, <1>7, <2>3, StepKeepsFresh
<1>9. CASE ~Reuse(q)
  <2>1. \A p \in Queries : reader'[p] \in {"opened", "leased"} /\ mine'[p] \in Handles =>
          reader[p] \in {"opened", "leased"} /\ mine'[p] = mine[p]
    <3>1. CASE settle(q, NoHandle)
      BY <3>1, CacheAssumption DEF settle
    <3>2. CASE Lease(q) /\ ~settle(q, NoHandle)
      BY <1>0, <3>2 DEF Lease, Step
    <3>3. CASE ~Lease(q) /\ ~settle(q, NoHandle)
      <4>1. \E l \in ReaderPlaces \ {"opened", "leased"} : reader' = [reader EXCEPT ![q] = l]
        BY <1>3, <1>9, <3>3 DEF QueryStep, Discard, Miss, LookForFile, Promote, OpenFails, Retry,
             GiveUp, Release, Step, openOrJoin, getCachedBridgeReadOnly, ReaderPlaces
      <4>2. \E h : mine' = [mine EXCEPT ![q] = h] \/ mine' = mine
        BY <1>3, <1>9, <3>3 DEF QueryStep, Discard, Miss, LookForFile, Promote, OpenFails, Retry,
             GiveUp, Release, openOrJoin, getCachedBridgeReadOnly
      <4>3. QED  BY <1>0, <4>1, <4>2
    <3>4. QED  BY <3>1, <3>2, <3>3
  <2>2. QED  BY <1>0, <1>4, <1>5, <1>6, <1>7, <2>1, StepKeepsFresh
<1>10. QED  BY <1>8, <1>9

\* Nothing gets older.
LEMMA FreshStep ==
  ASSUME ~demoted', Books, Readers, Fresh, [Next]_vars
  PROVE  Fresh'
<1>0. Readers' /\ SyncTypeOK /\ WritesOnce
  BY ReadersStep DEF Books
<1>1. ASSUME NEW s \in Syncs,
             (SyncStep(s) /\ UNCHANGED cacheVars) \/ BuildInvalidating(s) \/ SwapBesideReaders(s)
      PROVE  Fresh'
  BY <1>0, <1>1, SyncStepFresh
<1>2. ASSUME NEW q \in Queries, QueryStep(q)
      PROVE  Fresh'
  BY <1>0, <1>2, QueryStepFresh
<1>3. ASSUME UNCHANGED <<bridge, bak, writes>>, UNCHANGED cacheVars
      PROVE  Fresh'
  BY <1>3 DEF cacheVars, Fresh, AllKnown, NeverOlder, Dated, OfSome, InPlace
<1>4. CASE ServerDies
  <2>1. /\ UNCHANGED <<bridge, bak, writes>> /\ reader' = [q \in Queries |-> "idle"]
        /\ mine' = [q \in Queries |-> NoHandle] /\ entry' = [h \in Handles |-> NoEntry]
        /\ began' = [q \in Queries |-> NoSync]
    BY <1>4 DEF ServerDies, Die, fileVars
  <2>2. /\ bridge \in Known(writes) /\ bak \in Known(writes) /\ \A x : AgeIn(writes, x) \in Nat
    BY <1>0, AgeOfWrite DEF Fresh, AllKnown, WritesOnce, SyncTypeOK
  <2>3. \A h \in Handles : EntryLasts(h)
    BY <2>1 DEF EntryLasts
  <2>4. AsYoungAs(InPlace, InPlace')
    BY <2>1, <2>2 DEF AsYoungAs, InPlace
  <2>5. QED  BY <1>0, <2>1, <2>2, <2>3, <2>4, StepKeepsFresh
<1>5. QED
  BY <1>1, <1>2, <1>3, <1>4 DEF Next, SyncDies, Die, vars, syncVars, fileVars

\* A query answers from the database that was in place when it began or from a later
\* one, whatever was cached, being opened or moved aside and whatever comes between
\* two steps of a reader; from an older one only through a handle dated by another
\* file than its own (bridge-db.ts:313-321), while that file is not replaced in turn,
\* or after a .bak was put over a database in place (bridge-db.ts:1528).
THEOREM AnswersAreFresh == Spec => []FreshAnswer
<1>1. Init => Fresh
  <2>1. SUFFICES ASSUME Init PROVE Fresh
    OBVIOUS
  <2>2. /\ bridge \in {Old, NoSync} /\ bak = NoSync /\ writes = <<>>
        /\ reader = [q \in Queries |-> "idle"] /\ entry = [h \in Handles |-> NoEntry]
        /\ began = [q \in Queries |-> NoSync]
    BY <2>1 DEF Init, SyncInit, ServerInit
  <2>3. \A x : AgeIn(<<>>, x) = 0
    BY DEF AgeIn
  <2>4. QED
    BY <2>2, <2>3 DEF Fresh, AllKnown, NeverOlder, Dated, OfSome, Known, NoEntry
<1>2. Books /\ Readers /\ (~demoted => Fresh) /\ [Next]_vars => (~demoted => Fresh)'
  BY FreshStep, NotDemoted
<1>3. Books /\ Readers /\ (~demoted => Fresh) => FreshAnswer
  <2>1. SUFFICES ASSUME Books, Readers, Fresh, NEW q \in Queries, reader[q] = "leased"
                 PROVE  LET e == entry[mine[q]] IN
                          \/ Age(e.db) >= Age(began[q])
                          \/ e.mtime # e.db /\ (e.mtime = NoSync \/ Age(e.mtime) >= Age(began[q]))
    BY DEF FreshAnswer
  <2>2. mine[q] \in Handles /\ q \in Leases(mine[q]) /\ entry[mine[q]].open
    BY <2>1 DEF Readers, Looking, Leases, LeasesLive
  <2>3. /\ entry[mine[q]].db # NoSync
        /\ entry[mine[q]].mtime = NoSync \/
             AgeIn(writes, began[q]) <= AgeIn(writes, entry[mine[q]].mtime)
    BY <2>1, <2>2 DEF Fresh, Dated, OfSome
  <2>4. \A x : Age(x) = AgeIn(writes, x)
    BY DEF Age, AgeIn
  <2>5. \A x : Age(x) \in Nat
    BY <2>1, <2>4, AgeOfWrite DEF Books, WritesOnce, SyncTypeOK
  <2>6. CASE entry[mine[q]].mtime = NoSync
    BY <2>3, <2>6
  <2>7. CASE entry[mine[q]].mtime # NoSync
    <3>1. Age(entry[mine[q]].mtime) >= Age(began[q])
      BY <2>3, <2>4, <2>5, <2>7
    <3>2. QED  BY <2>7, <3>1
  <2>8. QED  BY <2>6, <2>7
<1>4. Init => (~demoted => Fresh)
  BY <1>1
<1>5. QED  BY <1>2, <1>3, <1>4, BooksKept, ReadersKept, PTL DEF Spec

=============================================================================
