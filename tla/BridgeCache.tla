----------------------------- MODULE BridgeCache -----------------------------
(***************************************************************************)
(* The MCP server's readers of the bridge: each query leases the one cached *)
(* read-only handle of the group, opened again when the file's mtime has   *)
(* changed, closed when it was evicted and its last lease is given back    *)
(* (gitnexus/src/core/group/bridge-db.ts, ensureBridgeReady in             *)
(* cross-impact.ts).  Some of the syncs run in the server itself.  A       *)
(* coroutine runs from one await to the next in one step.                  *)
(***************************************************************************)
EXTENDS GroupSync, FiniteSets

CONSTANTS
  Queries,    \* callers of ensureBridgeReady; each may ask again and again
  Inside,     \* the syncs that run in the server (group_sync)
  Handles,    \* native handles (bound; one nobody knows any more is used again)
  NoHandle    \* null

ASSUME CacheAssumption ==
  Inside \subseteq Syncs /\ NoHandle \notin Handles /\ IsFiniteSet(Queries)

VARIABLES
  reader,     \* where each query is
  mine,       \* the handle a query looks at, awaits the close of, or leases
  inFlight,   \* inFlightOpens: the query that is opening, if any
  cached,     \* cachedBridgeHandles
  entry,      \* CachedBridgeEntry of each handle, and whether it is still open
  began,      \* history: the database in place when the query began
  demoted     \* history: a reader renamed a .bak over a database in place

cacheVars == <<reader, mine, inFlight, cached, entry, began, demoted>>
vars == <<syncVars, cacheVars>>

\* The entry of a handle that is closed; what it was of is of no use then.
NoEntry == [db |-> NoSync, mtime |-> NoSync, refs |-> 0, evicted |-> TRUE, open |-> FALSE]

ServerInit ==
  /\ reader = [q \in Queries |-> "idle"]
  /\ mine = [q \in Queries |-> NoHandle]
  /\ inFlight = {}
  /\ cached = NoHandle
  /\ entry = [h \in Handles |-> NoEntry]
  /\ began = [q \in Queries |-> NoSync]
  /\ demoted = FALSE

Init == SyncInit /\ ServerInit

TypeOK ==
  /\ SyncTypeOK
  /\ reader \in [Queries -> {"idle", "stat", "discarded", "open", "promote", "native",
                             "statOpened", "await", "opened", "leased"}]
  /\ mine \in [Queries -> Handles \cup {NoHandle}]
  /\ inFlight \subseteq Queries /\ Cardinality(inFlight) <= 1
  /\ cached \in Handles \cup {NoHandle}
  /\ entry \in [Handles -> [db : Present, mtime : Present, refs : 0..Cardinality(Queries),
                            evicted : BOOLEAN, open : BOOLEAN]]
  /\ began \in [Queries -> Present]
  /\ demoted \in BOOLEAN

Step(q, l) == reader' = [reader EXCEPT ![q] = l]

\* Mutant of closed: whoever uses it.
closed_Now(e) == NoEntry

\* finalizeBridgeClose once no lease is left.
closed(e) == IF e.refs = 0 THEN NoEntry ELSE e

\* evictBridgeEntry (the wait for readers on Windows is left out).
evictBridgeEntry(h) ==
  /\ entry' = [entry EXCEPT ![h] = closed([@ EXCEPT !.evicted = TRUE])]
  /\ cached' = IF cached = h THEN NoHandle ELSE cached

-----------------------------------------------------------------------------
(* A query.                                                                *)

\* The rest of getCachedBridgeReadOnly after a miss: one opens, the others
\* await that open.
openOrJoin(q) ==
  /\ mine' = [mine EXCEPT ![q] = NoHandle]
  /\ inFlight' = IF inFlight = {} THEN {q} ELSE inFlight
  /\ Step(q, IF inFlight = {} THEN "open" ELSE "await")

getCachedBridgeReadOnly(q) ==
  IF cached = NoHandle THEN openOrJoin(q)
  ELSE mine' = [mine EXCEPT ![q] = cached] /\ Step(q, "stat") /\ UNCHANGED inFlight

\* ensureBridgeReady reads the metadata and asks for the database, if any.
Ask(q) ==
  /\ reader[q] = "idle"
  /\ bridge # NoSync
  /\ began' = [began EXCEPT ![q] = bridge]
  /\ getCachedBridgeReadOnly(q)
  /\ UNCHANGED <<syncVars, cached, entry, demoted>>

\* Mutant of Reuse: the file's mtime is not compared.
Reuse_AnyTime(q) ==
  /\ reader[q] = "stat"
  /\ ~entry[mine[q]].evicted
  /\ entry' = [entry EXCEPT ![mine[q]].refs = @ + 1]
  /\ Step(q, "leased")
  /\ UNCHANGED <<syncVars, mine, inFlight, cached, began, demoted>>

\* The cached handle is still that of the file.
Reuse(q) ==
  /\ reader[q] = "stat"
  /\ ~entry[mine[q]].evicted
  /\ bridge # NoSync /\ entry[mine[q]].mtime = bridge
  /\ entry' = [entry EXCEPT ![mine[q]].refs = @ + 1]
  /\ Step(q, "leased")
  /\ UNCHANGED <<syncVars, mine, inFlight, cached, began, demoted>>

\* It is not: out of the cache with it, closed now or with its last lease.
Discard(q) ==
  /\ reader[q] = "stat"
  /\ ~entry[mine[q]].evicted
  /\ bridge = NoSync \/ entry[mine[q]].mtime # bridge
  /\ evictBridgeEntry(mine[q])
  /\ Step(q, "discarded")
  /\ UNCHANGED <<syncVars, mine, inFlight, began, demoted>>

\* It is gone: discarded here, or evicted by somebody else during the stat.
Miss(q) ==
  /\ (reader[q] = "stat" /\ entry[mine[q]].evicted) \/ reader[q] = "discarded"
  /\ openOrJoin(q)
  /\ UNCHANGED <<syncVars, cached, entry, began, demoted>>

\* The open promise of q is settled; all who await it will resume, each in a
\* step of its own.
settle(q, h) ==
  \E all \in {{q} \cup {p \in Queries : reader[p] = "await"}} :
    /\ inFlight' = {}
    /\ reader' = [p \in Queries |-> IF p \in all THEN "opened" ELSE reader[p]]
    /\ mine' = [p \in Queries |-> IF p \in all THEN h ELSE mine[p]]

\* ensureBridgeDbFileAvailable: the file, or else the .bak of a writer.
LookForFile(q) ==
  /\ reader[q] = "open"
  /\ \/ bridge # NoSync /\ Step(q, "native") /\ UNCHANGED <<inFlight, mine>>
     \/ bridge = NoSync /\ bak # NoSync /\ Step(q, "promote") /\ UNCHANGED <<inFlight, mine>>
     \/ bridge = NoSync /\ bak = NoSync /\ settle(q, NoHandle)
  /\ UNCHANGED <<syncVars, cached, entry, began, demoted>>

\* The .bak is renamed over whatever is there now: a sync may have put its
\* database in place since, and not yet dropped the .bak.
Promote(q) ==
  /\ reader[q] = "promote"
  /\ \/ /\ bak # NoSync
        /\ bridge' = bak /\ bak' = NoSync
        /\ demoted' = IF bridge = NoSync THEN demoted ELSE TRUE
        /\ Step(q, "native")
        /\ UNCHANGED <<inFlight, mine>>
     \/ /\ bak = NoSync
        /\ settle(q, NoHandle)
        /\ UNCHANGED <<bridge, bak, demoted>>
  /\ UNCHANGED <<registry, meta, holder, at, failed, before, writes, mark, interrupted,
                 cached, entry, began>>

\* Handles that nothing in the server refers to any more.
Unknown == {h \in Handles : h # cached /\ \A q \in Queries : mine[q] # h}

\* The native open; it fails when the file is gone, or for another reason.
OpenFile(q) ==
  /\ reader[q] = "native"
  /\ bridge # NoSync
  /\ Unknown # {}   \* bound: Handles
  /\ \E h \in {CHOOSE u \in Unknown : TRUE} :
       /\ entry' = [entry EXCEPT ![h] = [NoEntry EXCEPT !.db = bridge, !.open = TRUE, !.evicted = FALSE]]
       /\ mine' = [mine EXCEPT ![q] = h]
  /\ Step(q, "statOpened")
  /\ UNCHANGED <<syncVars, inFlight, cached, began, demoted>>

OpenFails(q) ==
  /\ reader[q] = "native"
  /\ settle(q, NoHandle)
  /\ UNCHANGED <<syncVars, cached, entry, began, demoted>>

\* The mtime is taken after the open, of whatever file has the name by then;
\* without one the entry fits no file.
CacheHandle(q) ==
  /\ reader[q] = "statOpened"
  /\ entry' = [entry EXCEPT ![mine[q]].mtime = bridge]
  /\ cached' = mine[q]
  /\ settle(q, mine[q])
  /\ UNCHANGED <<syncVars, began, demoted>>

\* The handle is still the cached one: one lease for each caller.
Lease(q) ==
  /\ reader[q] = "opened"
  /\ mine[q] # NoHandle /\ cached = mine[q]
  /\ entry' = [entry EXCEPT ![mine[q]].refs = @ + 1]
  /\ Step(q, "leased")
  /\ UNCHANGED <<syncVars, mine, inFlight, cached, began, demoted>>

\* It was evicted meanwhile: from the top.
Retry(q) ==
  /\ reader[q] = "opened"
  /\ mine[q] # NoHandle /\ cached # mine[q]
  /\ getCachedBridgeReadOnly(q)
  /\ UNCHANGED <<syncVars, cached, entry, began, demoted>>

\* No handle: the query answers with an error.
GiveUp(q) ==
  /\ reader[q] = "opened"
  /\ mine[q] = NoHandle
  /\ began' = [began EXCEPT ![q] = NoSync]
  /\ Step(q, "idle")
  /\ UNCHANGED <<syncVars, mine, inFlight, cached, entry, demoted>>

\* closeBridgeDb after the last query: the lease is given back.
Release(q) ==
  /\ reader[q] = "leased"
  /\ \E e \in {[entry[mine[q]] EXCEPT !.refs = @ - 1]} :
       entry' = [entry EXCEPT ![mine[q]] = IF e.evicted THEN closed(e) ELSE e]
  /\ mine' = [mine EXCEPT ![q] = NoHandle]
  /\ began' = [began EXCEPT ![q] = NoSync]
  /\ Step(q, "idle")
  /\ UNCHANGED <<syncVars, inFlight, cached, demoted>>

-----------------------------------------------------------------------------
(* The syncs beside the server, or in it.                                  *)

\* invalidateBridgeCache, of the server when the sync runs there.
Invalidate(s) ==
  IF s \in Inside /\ cached # NoHandle THEN evictBridgeEntry(cached)
  ELSE UNCHANGED <<entry, cached>>

BuildInvalidating(s) ==
  /\ Build(s)
  /\ Invalidate(s)
  /\ UNCHANGED <<reader, mine, inFlight, began, demoted>>

\* Nothing keeps it from coming between two steps of a reader.
SwapBesideReaders(s) ==
  Swap(s) /\ UNCHANGED cacheVars

\* The process of a sync that runs by itself.
SyncDies(s) ==
  /\ s \in Syncs \ Inside /\ at[s] # "done"
  /\ Die({s})
  /\ UNCHANGED cacheVars

ServerDies ==
  /\ Die({s \in Inside : at[s] \notin {"extract"}})
  /\ reader' = [q \in Queries |-> "idle"]
  /\ mine' = [q \in Queries |-> NoHandle]
  /\ inFlight' = {}
  /\ cached' = NoHandle
  /\ entry' = [h \in Handles |-> NoEntry]
  /\ began' = [q \in Queries |-> NoSync]
  /\ UNCHANGED demoted

QueryStep(q) ==
  \/ Ask(q) \/ Reuse(q) \/ Discard(q) \/ Miss(q)
  \/ LookForFile(q) \/ Promote(q) \/ OpenFile(q) \/ OpenFails(q) \/ CacheHandle(q)
  \/ Lease(q) \/ Retry(q) \/ GiveUp(q) \/ Release(q)

Next ==
  \/ \E s \in Syncs : \/ SyncStep(s) /\ UNCHANGED cacheVars
                      \/ BuildInvalidating(s) \/ SwapBesideReaders(s) \/ SyncDies(s)
  \/ \E q \in Queries : QueryStep(q)
  \/ ServerDies

Spec == Init /\ [][Next]_vars

-----------------------------------------------------------------------------
Leases(h) == {q \in Queries : reader[q] = "leased" /\ mine[q] = h}

\* A handle that a query is using is never closed under it, whoever evicts it
\* and when: the use after free of bridge-db.ts:82-84.
LeasesLive ==
  \A h \in Handles : entry[h].refs = Cardinality(Leases(h)) /\ (Leases(h) # {} => entry[h].open)

\* An evicted handle without a lease is closed: nobody would come back to it.
EvictedClosed ==
  \A h \in Handles : entry[h].evicted /\ entry[h].refs = 0 => ~entry[h].open

\* Handles and files stay usable: none is closed in use or left open for nobody,
\* and there is always a database to go back to; a sync that saw nothing overwrites
\* nobody's, and registry and bridge agree, until a reader puts a .bak over a
\* database in place.
Inv ==
  /\ TypeOK /\ LeasesLive /\ EvictedClosed /\ BridgeKept /\ WinnerKept
  /\ ~demoted => FilesAgree

\* Metadata that a reader accepts was written for the database beside it, through
\* crashes, failures and syncs that could read nothing (VouchedIsTrue), until a
\* reader puts a .bak over a database in place.
VouchedUnlessDemoted == ~demoted => VouchedIsTrue

\* When s's database came into being, in the order of the registry's writes.
Age(s) ==
  IF \E i \in 1..Len(writes) : writes[i] = s THEN CHOOSE i \in 1..Len(writes) : writes[i] = s ELSE 0

\* A query answers from the database that was in place when it began or from a
\* later one, whatever was cached, being opened, or moved aside.  It may get an
\* older one only from a handle that was dated by another file than its own,
\* replaced between the open and the stat (or by none, if it was moved aside
\* then), and only until that other file is replaced in turn; and after a reader
\* put a .bak over a database in place.
FreshAnswer ==
  \A q \in Queries : reader[q] = "leased" /\ began[q] # NoSync /\ ~demoted =>
    LET e == entry[mine[q]] IN
      \/ Age(e.db) >= Age(began[q])
      \/ e.mtime # e.db /\ (e.mtime = NoSync \/ Age(e.mtime) >= Age(began[q]))

\* What bridge-db.ts:65-68 and :255-257 say of the mtime: a replacement of the file
\* by another process is detected before each query, the stale handle is closed
\* and a fresh one opened.
WritersDetected ==
  \A q \in Queries : reader[q] = "leased" /\ began[q] # NoSync /\ ~demoted =>
    Age(entry[mine[q]].db) >= Age(began[q])

\* bridge-db.ts:128-131: no open handle is overwritten in the cache and lost.
NoOrphan ==
  \A h \in Handles : entry[h].open /\ ~entry[h].evicted =>
    h = cached \/ \E q \in Queries : reader[q] = "statOpened" /\ mine[q] = h
=============================================================================
