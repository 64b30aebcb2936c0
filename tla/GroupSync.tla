------------------------------ MODULE GroupSync ------------------------------
(***************************************************************************)
(* gitnexus group sync on the three files of a group: the contract         *)
(* registry (contracts.json), the bridge database (bridge.lbug, with its   *)
(* .bak while it is replaced) and the metadata beside it (meta.json), which *)
(* says how complete the database is and carries a stamp of it.            *)
(* Extraction runs outside the group lock, everything that writes inside   *)
(* (gitnexus/src/core/group/sync.ts, bridge-db.ts).  A sync builds its own *)
(* file, so the sync that built a database is also its size and mtime.     *)
(***************************************************************************)
EXTENDS Naturals, Sequences

CONSTANTS
  Syncs,     \* runs of syncGroup, in any process (bound)
  Old,       \* the sync that left the group as it is found, if any
  NoSync     \* absent: no file, no writer, no holder

ASSUME SyncsAssumption == Old \notin Syncs /\ NoSync \notin Syncs /\ Old # NoSync

Builders == Syncs \cup {Old}
Present  == Builders \cup {NoSync}

VARIABLES
  registry,    \* contracts.json: whose contracts, whose repository lists
  bridge, bak, \* who built bridge.lbug and bridge.lbug.bak
  meta,        \* meta.json: of whose build, its stamp, whose lists, provenanceUnknown
  holder,      \* the sync that holds the group lock
  at,          \* where each sync is
  failed,      \* everyRepoFailed of each sync
  before,      \* registryIdentityBeforeLock of each sync
  writes,      \* history: the syncs that wrote the registry, in order
  mark,        \* history: Len(writes) when the sync ended its extraction
  interrupted  \* history: a sync ended between its files, none was complete since

fileVars == <<registry, bridge, bak, meta>>
syncVars == <<fileVars, holder, at, failed, before, writes, mark, interrupted>>

NoMeta == [of |-> NoSync, stamp |-> NoSync, lists |-> NoSync, unknown |-> FALSE]

SyncInit ==
  /\ \E o \in {Old, NoSync} :
       /\ registry = [by |-> o, lists |-> o]
       /\ bridge = o
       /\ meta = IF o = Old THEN [of |-> Old, stamp |-> Old, lists |-> Old, unknown |-> FALSE]
                 ELSE NoMeta
  /\ bak = NoSync
  /\ holder = NoSync
  /\ at = [s \in Syncs |-> "extract"]
  /\ failed = [s \in Syncs |-> FALSE]
  /\ before = [s \in Syncs |-> NoSync]
  /\ writes = <<>>
  /\ mark = [s \in Syncs |-> 0]
  /\ interrupted = FALSE

SyncTypeOK ==
  /\ registry \in [by : Present, lists : Present]
  /\ bridge \in Present /\ bak \in Present
  /\ meta \in [of : Present, stamp : Present, lists : Present, unknown : BOOLEAN]
  /\ holder \in Syncs \cup {NoSync}
  /\ at \in [Syncs -> {"extract", "wait", "locked", "refresh", "restamp", "disclaim",
                       "invalidate", "aside", "swap", "dropBak", "stamp", "withdraw", "done"}]
  /\ failed \in [Syncs -> BOOLEAN]
  /\ before \in [Syncs -> Present]
  /\ writes \in Seq(Syncs)
  /\ mark \in [Syncs -> Nat]
  /\ interrupted \in BOOLEAN

\* bridgeMetaMatchesFile, for metadata with a stamp.
bridgeMetaMatchesFile(m) == ~m.unknown /\ m.stamp # NoSync /\ m.stamp = bridge

GoTo(s, l) == at' = [at EXCEPT ![s] = l]

\* The end of the locked section, however it is reached.
Leave(s) ==
  /\ at' = [at EXCEPT ![s] = "done"]
  /\ holder' = IF holder = s THEN NoSync ELSE holder

\* Which write of the registry this is: size, mtime and inode of the file.
registryIdentity == registry.lists

\* Extraction is over: every repository failed, or not.
Extract(s, f) ==
  /\ at[s] = "extract"
  /\ failed' = [failed EXCEPT ![s] = f]
  /\ before' = [before EXCEPT ![s] = registryIdentity]
  /\ mark' = [mark EXCEPT ![s] = Len(writes)]
  /\ GoTo(s, "wait")
  /\ UNCHANGED <<fileVars, holder, writes, interrupted>>

\* withGroupSyncLock gets the lock, or throws after ten minutes.
TakeLock(s) ==
  /\ at[s] = "wait"
  /\ holder = NoSync
  /\ holder' = s
  /\ GoTo(s, "locked")
  /\ UNCHANGED <<fileVars, failed, before, writes, mark, interrupted>>

LockTimesOut(s) ==
  /\ at[s] = "wait"
  /\ holder # NoSync
  /\ Leave(s)
  /\ UNCHANGED <<fileVars, failed, before, writes, mark, interrupted>>

-----------------------------------------------------------------------------
(* Every repository failed: keep the contracts, refresh the lists.         *)

writeRegistry(s, r) ==
  /\ registry' = r
  /\ writes' = Append(writes, s)

\* Another sync replaced the registry meanwhile: nothing is written.
Superseded(s) ==
  /\ at[s] = "locked" /\ failed[s]
  /\ registryIdentity # before[s]
  /\ Leave(s)
  /\ UNCHANGED <<fileVars, failed, before, writes, mark, interrupted>>

\* Mutant of Preserve: whatever was written while this sync waited.
Preserve_Any(s) ==
  /\ at[s] = "locked" /\ failed[s]
  /\ IF registry.by = NoSync THEN UNCHANGED <<registry, writes>>
     ELSE writeRegistry(s, [registry EXCEPT !.lists = s])
  /\ GoTo(s, "refresh")
  /\ UNCHANGED <<bridge, bak, meta, holder, failed, before, mark, interrupted>>

Preserve(s) ==
  /\ at[s] = "locked" /\ failed[s]
  /\ registryIdentity = before[s]
  /\ IF registry.by = NoSync THEN UNCHANGED <<registry, writes>>
     ELSE writeRegistry(s, [registry EXCEPT !.lists = s])
  /\ GoTo(s, "refresh")
  /\ UNCHANGED <<bridge, bak, meta, holder, failed, before, mark, interrupted>>

\* Mutant of RefreshCheck: the stamp is taken again without asking.
RefreshCheck_Blind(s) ==
  /\ at[s] = "refresh"
  /\ IF meta = NoMeta /\ bridge = NoSync THEN Leave(s)
     ELSE GoTo(s, "restamp") /\ UNCHANGED holder
  /\ UNCHANGED <<fileVars, failed, before, writes, mark, interrupted>>

\* refreshPreservedBridgeMeta asks whether the pair matches before it writes.
RefreshCheck(s) ==
  /\ at[s] = "refresh"
  /\ IF meta = NoMeta /\ bridge = NoSync THEN Leave(s)
     ELSE /\ GoTo(s, IF bridgeMetaMatchesFile(meta) THEN "restamp" ELSE "disclaim")
          /\ UNCHANGED holder
  /\ UNCHANGED <<fileVars, failed, before, writes, mark, interrupted>>

\* The database may have gone since.
Restamp(s) ==
  /\ at[s] = "restamp"
  /\ IF bridge = NoSync THEN GoTo(s, "disclaim") /\ UNCHANGED <<meta, holder>>
     ELSE meta' = [meta EXCEPT !.stamp = bridge, !.lists = s] /\ Leave(s)
  /\ UNCHANGED <<registry, bridge, bak, failed, before, writes, mark, interrupted>>

Disclaim(s) ==
  /\ at[s] = "disclaim"
  /\ meta' = [meta EXCEPT !.lists = s, !.unknown = TRUE]
  /\ Leave(s)
  /\ UNCHANGED <<registry, bridge, bak, failed, before, writes, mark, interrupted>>

\* Writing the metadata throws, and so does the sync.
RefreshFails(s) ==
  /\ at[s] \in {"restamp", "disclaim"}
  /\ Leave(s)
  /\ interrupted' = TRUE
  /\ UNCHANGED <<fileVars, failed, before, writes, mark>>

-----------------------------------------------------------------------------
(* Something was extracted: the registry, then the bridge.                 *)

WriteRegistry(s) ==
  /\ at[s] = "locked" /\ ~failed[s]
  /\ writeRegistry(s, [by |-> s, lists |-> s])
  /\ GoTo(s, "invalidate")
  /\ UNCHANGED <<bridge, bak, meta, holder, failed, before, mark, interrupted>>

WriteRegistryFails(s) ==
  /\ at[s] = "locked"
  /\ Leave(s)
  /\ UNCHANGED <<fileVars, failed, before, writes, mark, interrupted>>

\* The temporary database is built and closed, or building it throws.
Build(s) ==
  /\ at[s] = "invalidate"
  /\ \E l \in {"aside", "withdraw"} : GoTo(s, l)
  /\ UNCHANGED <<fileVars, holder, failed, before, writes, mark, interrupted>>

\* The old database, if there is one, becomes the .bak; a rename that fails is
\* passed over in silence.
MoveAside(s) ==
  /\ at[s] = "aside"
  /\ \/ bridge # NoSync /\ bak' = bridge /\ bridge' = NoSync
     \/ UNCHANGED <<bridge, bak>>
  /\ GoTo(s, "swap")
  /\ UNCHANGED <<registry, meta, holder, failed, before, writes, mark, interrupted>>

Swap(s) ==
  /\ at[s] = "swap"
  /\ bridge' = s
  /\ GoTo(s, "dropBak")
  /\ UNCHANGED <<registry, bak, meta, holder, failed, before, writes, mark, interrupted>>

SwapFails(s) ==
  /\ at[s] = "swap"
  /\ GoTo(s, "withdraw")
  /\ UNCHANGED <<fileVars, holder, failed, before, writes, mark, interrupted>>

DropBak(s) ==
  /\ at[s] = "dropBak"
  /\ bak' = NoSync
  /\ GoTo(s, "stamp")
  /\ UNCHANGED <<registry, bridge, meta, holder, failed, before, writes, mark, interrupted>>

\* The new metadata, with the stamp of the file that is there.
StampMeta(s) ==
  /\ at[s] = "stamp"
  /\ bridge # NoSync
  /\ meta' = [of |-> s, stamp |-> bridge, lists |-> s, unknown |-> FALSE]
  /\ interrupted' = FALSE
  /\ Leave(s)
  /\ UNCHANGED <<registry, bridge, bak, failed, before, writes, mark>>

StampFails(s) ==
  /\ at[s] = "stamp"
  /\ GoTo(s, "withdraw")
  /\ UNCHANGED <<fileVars, holder, failed, before, writes, mark, interrupted>>

\* Mutant of Withdraw: the old metadata goes on vouching for the old database.
Withdraw_Not(s) ==
  /\ at[s] = "withdraw"
  /\ Leave(s)
  /\ UNCHANGED <<fileVars, failed, before, writes, mark, interrupted>>

\* markBridgeProvenanceUnknown.
Withdraw(s) ==
  /\ at[s] = "withdraw"
  /\ meta' = IF meta.of = NoSync THEN meta ELSE [meta EXCEPT !.unknown = TRUE]
  /\ Leave(s)
  /\ UNCHANGED <<registry, bridge, bak, failed, before, writes, mark, interrupted>>

\* That write fails too; the failure is only reported.
WithdrawFails(s) ==
  /\ at[s] = "withdraw"
  /\ Leave(s)
  /\ interrupted' = TRUE
  /\ UNCHANGED <<fileVars, failed, before, writes, mark>>

\* The processes of the syncs d are gone; the group lock is the index lock,
\* which gives up what a dead process owned.
Die(d) ==
  /\ at' = [s \in Syncs |-> IF s \in d THEN "done" ELSE at[s]]
  /\ holder' = IF holder \in d THEN NoSync ELSE holder
  /\ interrupted' = (interrupted \/ \E s \in d : at[s] \notin {"extract", "wait", "locked", "done"})
  /\ UNCHANGED <<fileVars, failed, before, writes, mark>>

\* Every step of a sync that touches nothing but its variables and the files,
\* the replacement of the database (Build, Swap) left aside.
SyncStep(s) ==
  \/ \E f \in BOOLEAN : Extract(s, f)
  \/ TakeLock(s) \/ LockTimesOut(s)
  \/ Superseded(s) \/ Preserve(s)
  \/ RefreshCheck(s) \/ Restamp(s) \/ Disclaim(s) \/ RefreshFails(s)
  \/ WriteRegistry(s) \/ WriteRegistryFails(s)
  \/ MoveAside(s) \/ SwapFails(s) \/ DropBak(s)
  \/ StampMeta(s) \/ StampFails(s) \/ Withdraw(s) \/ WithdrawFails(s)

-----------------------------------------------------------------------------
\* Metadata that a reader accepts was written for the database beside it,
\* never for one that was replaced since: through crashes and failures between
\* the two writes (bridge-db.ts:1383-1391) and through syncs that could read no
\* repository and refresh the lists of a pair they did not write.
VouchedIsTrue == bridgeMetaMatchesFile(meta) => meta.of = bridge

\* The registry and a bridge whose metadata is accepted tell of the same sync
\* and the same repositories, between syncs, unless one was cut off and none
\* has been complete since.
FilesAgree ==
  holder = NoSync /\ ~interrupted /\ bridgeMetaMatchesFile(meta) =>
    registry.by = bridge /\ registry.lists = meta.lists

\* A sync that could read nothing writes its lists over no registry that came
\* into being while it waited for the lock.
WinnerKept ==
  \A i \in 1..Len(writes) : failed[writes[i]] => mark[writes[i]] = i - 1

\* Once a group has a bridge there is one to go back to, whenever a sync dies.
BridgeKept == meta.of # NoSync => bridge # NoSync \/ bak # NoSync
=============================================================================
