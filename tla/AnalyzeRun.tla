----------------------------- MODULE AnalyzeRun -----------------------------
(***************************************************************************)
(* One repository's index and the analysis runs that keep it:              *)
(* gitnexus/src/core/run-analyze.ts, with embedding-checkpoint.ts,         *)
(* embedding-mode.ts and the window protocol of embedding-pipeline.ts.     *)
(*                                                                         *)
(* A run holds the index lock from its first step to its last (IndexLock), *)
(* so runs follow one another; a run may die or throw at any step.  The    *)
(* working tree moves meanwhile.  A file is one graph node with two chunks *)
(* to embed; the content of a file is a number, 0 for a file that is not   *)
(* there.                                                                  *)
(***************************************************************************)
EXTENDS Naturals, FiniteSets

CONSTANTS
  Files,
  Flaky,      \* files that may be deleted and whose embedding may be refused
  Platforms,  \* of "posix" (an open file can be renamed) and "win"
  MaxAttempts,\* EMBEDDING_RESUME_MAX_ATTEMPTS
  Options,    \* what a run may be asked for, see Flags
  Faults,     \* "edit": the tree moves between the parse and the hashes
  MaxCommits, \* bound: commits; commit c holds every file with content c
  MaxMoves,   \* bound: edits and moves of HEAD
  MaxMishaps, \* bound: runs that die or throw, and failures that a run passes
              \* over in silence
  MaxFlagged  \* bound: runs with a flag

Flags == {"default", "force", "embeddings", "drop"}

ASSUME ConstantsAssumption ==
  /\ Flaky \subseteq Files
  /\ Platforms \subseteq {"posix", "win"}
  /\ "default" \in Options /\ Options \subseteq Flags
  /\ Faults \subseteq {"edit"}
  /\ {MaxAttempts, MaxMoves, MaxMishaps, MaxFlagged} \subseteq Nat
  /\ MaxCommits \in Nat \ {0}

Commits  == 1 .. MaxCommits
Contents == 0 .. MaxCommits
Nothing  == [f \in Files |-> 0]
CommitTree(c) == [f \in Files |-> c]

\* The database: the rows of a file, the content its vectors were made from
\* (0: none), and the files of which only some chunks have a vector.
Databases == [code : [Files -> Contents], vec : [Files -> Contents],
              half : SUBSET Files]
Empty     == [code |-> Nothing, vec |-> Nothing, half |-> {}]

\* The database file: what it holds alone, what an open sees, and whether a
\* write-ahead log lies beside it, its own or one of a file it replaced.
Whole(db)  == [main |-> db, rows |-> db, wal |-> "none"]
Logged(main, db) == [main |-> main, rows |-> db, wal |-> "own"]

NoMarker == [kind |-> "none", pending |-> {}, attempts |-> 0]
NoMeta == [exists |-> FALSE, commit |-> 0, hashes |-> Nothing, dirty |-> FALSE,
           embedded |-> FALSE, marker |-> NoMarker]

VARIABLES
  tree,     \* the working tree
  head,     \* the commit checked out
  platform,
  live,     \* the database file readers open
  meta,     \* gitnexus.json
  pc,       \* where the run is; "idle" without one
  opt,      \* what it was asked for
  commit,   \* currentCommit, read under the lock
  base,     \* existingMeta
  force,    \* options.force, set by the user or by a guard
  resume,   \* the embedding marker it resumes
  cache,    \* what it found in the index: vectors, and the files half done
  loaded,   \* whether it took them along
  graph,    \* the tree as parsed
  hashes,   \* newFileHashes
  surgical, \* writes the changed files only
  staged,   \* useAtomicSwap: builds beside the live file
  build,    \* the staging file's database
  todo,     \* files to embed
  wiped,    \* files whose rows it removed
  failed,   \* failedNodeIds
  unrestored,\* history: files whose cached vectors an insert failed to restore
  spoiled,  \* history: the database was published without its log, or beside
            \* the log of the file it replaced
  moves, mishaps, flagged

world  == <<tree, head, moves>>
disk   == <<live, meta, spoiled>>
intent == <<opt, commit, base, force, resume, cache, loaded>>
plan   == <<graph, hashes, surgical, staged>>
work   == <<build, todo, wiped, failed, unrestored>>
bounds == <<mishaps, flagged>>
vars   == <<world, platform, disk, pc, intent, plan, work, bounds>>

NoRun ==
  /\ pc' = "idle" /\ opt' = "default" /\ commit' = 0 /\ base' = NoMeta
  /\ force' = FALSE /\ resume' = NoMarker /\ cache' = Empty /\ loaded' = FALSE
  /\ graph' = Nothing /\ hashes' = Nothing /\ surgical' = FALSE
  /\ staged' = FALSE /\ build' = Empty
  /\ todo' = {} /\ wiped' = {} /\ failed' = {} /\ unrestored' = {}

Init ==
  /\ tree = CommitTree(1) /\ head = 1 /\ platform \in Platforms
  /\ live = Whole(Empty) /\ meta = NoMeta
  /\ pc = "idle" /\ opt = "default" /\ commit = 0 /\ base = NoMeta
  /\ force = FALSE /\ resume = NoMarker /\ cache = Empty /\ loaded = FALSE
  /\ graph = Nothing /\ hashes = Nothing /\ surgical = FALSE
  /\ staged = FALSE /\ build = Empty
  /\ todo = {} /\ wiped = {} /\ failed = {} /\ unrestored = {} /\ spoiled = FALSE
  /\ moves = 0 /\ mishaps = 0 /\ flagged = 0

Present(t) == {f \in Files : t[f] # 0}

\* A failure that the run logs, or not even that, before it goes on.
PassedOver == mishaps < MaxMishaps /\ mishaps' = mishaps + 1

-----------------------------------------------------------------------------
(* The working tree. *)

\* The pipeline reads the tree and the hashes are taken later.
Still == pc = "parsed" => "edit" \in Faults

Edit(f, v) ==
  /\ Still /\ moves < MaxMoves
  /\ v # tree[f] /\ (v = 0 => f \in Flaky)
  /\ tree' = [tree EXCEPT ![f] = v]
  /\ moves' = moves + 1
  /\ UNCHANGED <<head, platform, disk, pc, intent, plan, work, bounds>>

\* A checkout of a clean tree, a restore of the tree, or a commit of it.
MoveHead(c) ==
  /\ Still /\ moves < MaxMoves
  /\ tree = CommitTree(head) \/ c = head \/ tree = CommitTree(c)
  /\ <<head, tree>> # <<c, CommitTree(c)>>
  /\ head' = c /\ tree' = CommitTree(c)
  /\ moves' = moves + 1
  /\ UNCHANGED <<platform, disk, pc, intent, plan, work, bounds>>

-----------------------------------------------------------------------------
(* What a run decides before it reads the tree. *)

\* Under the lock: the commit, the metadata, a placeholder where there is none.
Start(o) ==
  /\ pc = "idle"
  /\ o # "default" => flagged < MaxFlagged
  /\ flagged' = IF o = "default" THEN flagged ELSE flagged + 1
  /\ pc' = "begun"
  /\ opt' = o /\ commit' = head /\ base' = meta
  /\ force' = (o = "force")
  /\ meta' = [meta EXCEPT !.exists = TRUE]
  /\ UNCHANGED <<world, platform, live, spoiled, resume, cache, loaded, plan, work, mishaps>>

Decision(marker, o) ==
  IF o \in {"drop", "force"} THEN "discard"
  ELSE IF marker.kind = "partial" /\ marker.attempts >= MaxAttempts THEN "abandon"
  ELSE "resume"

\* quarantineSidecarsForDirtyRecovery.
Parked(file) == Whole(file.main)

\* Reads the marker and the dirty flag.  A dirty index loses its log before
\* anything opens it.  A placeholder has no fingerprint and forces a rebuild.
Examine ==
  /\ pc = "begun" /\ pc' = "examined"
  /\ resume' = IF base.marker # NoMarker /\ Decision(base.marker, opt) = "resume"
               THEN base.marker ELSE NoMarker
  /\ force' = \/ force
              \/ base.marker # NoMarker /\ opt = "drop"
              \/ base.dirty
              \/ base.exists /\ base.commit = 0
  /\ live' = IF base.dirty THEN Parked(live) ELSE live
  /\ UNCHANGED <<world, platform, meta, spoiled, opt, commit, base, cache, loaded,
                 plan, work, bounds>>

IsWorkingTreeDirty == tree # CommitTree(head)

\* Mutant: pending embeddings do not prevent the early return.
AlreadyUpToDate_Pending ==
  /\ base.exists /\ ~force /\ base.commit = commit /\ ~IsWorkingTreeDirty

\* Mutant: HEAD alone decides.
AlreadyUpToDate_HeadOnly ==
  /\ base.exists /\ base.marker = NoMarker /\ ~force /\ base.commit = commit

AlreadyUpToDate ==
  /\ base.exists /\ base.marker = NoMarker /\ ~force
  /\ base.commit = commit
  /\ ~IsWorkingTreeDirty

UpToDate ==
  /\ pc = "examined" /\ AlreadyUpToDate
  /\ NoRun
  /\ UNCHANGED <<world, platform, disk, bounds>>

ShouldGenerate ==
  \/ opt = "embeddings"
  \/ force /\ opt # "drop" /\ base.embedded
  \/ resume # NoMarker

\* Mutant: vectors are taken along only by a run that makes some.
ShouldLoadCache_Generating == ShouldGenerate

ShouldLoadCache == ShouldGenerate \/ (opt # "drop" /\ base.embedded)

CacheWanted == ShouldLoadCache /\ base.exists

\* The vectors are read before the pipeline; "cache" also remembers those a
\* run leaves behind, for EmbeddingsKept.  A run that cannot read them warns
\* and goes on without.
LoadCache ==
  /\ pc = "examined" /\ ~AlreadyUpToDate /\ pc' = "cached"
  /\ \/ loaded' = CacheWanted /\ UNCHANGED mishaps
     \/ CacheWanted /\ loaded' = FALSE /\ PassedOver
  /\ cache' = live.rows
  /\ UNCHANGED <<world, platform, disk, opt, commit, base, force, resume,
                 plan, work, flagged>>

-----------------------------------------------------------------------------
(* The pipeline, the hashes and the write plan. *)

Parse ==
  /\ pc = "cached" /\ pc' = "parsed"
  /\ graph' = tree
  /\ UNCHANGED <<world, platform, disk, intent, hashes, surgical, staged,
                 work, bounds>>

IsIncremental ==
  /\ ~force /\ base.exists /\ base.hashes # Nothing /\ graph # Nothing

\* A full rebuild is staged where an open file can be renamed; an incremental
\* write is staged on request, if the live index is a single file.
HashAndPlan ==
  /\ pc = "parsed" /\ pc' = "planned"
  /\ hashes' = [f \in Files |-> IF graph[f] = 0 THEN 0 ELSE tree[f]]
  /\ surgical' = IsIncremental
  /\ IF IsIncremental
     THEN staged' \in {FALSE, platform = "posix" /\ live.wal = "none"}
     ELSE staged' = (platform = "posix")
  /\ UNCHANGED <<world, platform, disk, intent, graph, work, bounds>>

Marked(m) == [m EXCEPT !.dirty = TRUE]

\* The dirty flag, over the metadata read at the start, before any write.
MarkDirty ==
  /\ pc = "planned" /\ pc' = "marked"
  /\ meta' = IF base.exists THEN Marked(base) ELSE meta
  /\ build' = IF surgical /\ staged THEN live.main ELSE Empty
  /\ UNCHANGED <<world, platform, live, spoiled, intent, plan, todo, wiped, failed,
                 unrestored, bounds>>

\* The escalation valve: too much to write, or an extension is missing; in
\* place only where the catalog of the live index could not be read.  Without
\* the extension the vectors are read now, unless there are some already or
\* they are to be dropped.
Escalate ==
  /\ pc = "marked" /\ surgical
  /\ surgical' = FALSE
  /\ staged' \in {staged, platform = "posix"}
  /\ loaded' \in {loaded, loaded \/ opt # "drop"}
  /\ build' = Empty
  /\ UNCHANGED <<world, platform, disk, pc, opt, commit, base, force, resume, cache,
                 graph, hashes, todo, wiped, failed, unrestored, bounds>>

-----------------------------------------------------------------------------
(* Writing.  In place, what is written sits in the log until the driver, or  *)
(* the log's size, moves it into the file.                                   *)

Target == IF staged THEN build ELSE live.rows

Write(db) ==
  IF staged
  THEN build' = db /\ UNCHANGED live
  ELSE /\ live' \in {Whole(db), Logged(live.main, db)}
       /\ UNCHANGED build

Without(db, gone) ==
  [code |-> [f \in Files |-> IF f \in gone THEN 0 ELSE db.code[f]],
   vec  |-> [f \in Files |-> IF f \in gone THEN 0 ELSE db.vec[f]],
   half |-> db.half \ gone]

\* diffFileHashes: changed and added files, and deleted ones.
Differing == {f \in Files : hashes[f] # base.hashes[f]}

\* Surgical: the rows of what changed, of its importers and of deleted files
\* go, with their vectors.
DeleteRows ==
  /\ pc = "marked" /\ surgical /\ pc' = "deleted"
  /\ \E importers \in SUBSET (Present(hashes) \ Differing) :
       /\ wiped' = Differing \cup importers
       /\ Write(Without(Target, wiped'))
  /\ UNCHANGED <<world, platform, meta, spoiled, intent, plan, todo, failed,
                 unrestored, bounds>>

InsertRows ==
  /\ pc = "deleted" /\ pc' = "written"
  /\ Write([Target EXCEPT !.code = [f \in Files |->
              IF f \in wiped THEN graph[f] ELSE Target.code[f]]])
  /\ UNCHANGED <<world, platform, meta, spoiled, intent, plan, todo, wiped, failed,
                 unrestored, bounds>>

\* Full: the files of the database go, then the whole graph is loaded.
Wipe ==
  /\ pc = "marked" /\ ~surgical /\ pc' = "wiped"
  /\ wiped' = Files
  /\ IF staged THEN build' = Empty /\ UNCHANGED <<live, spoiled>>
               ELSE live' = Whole(Empty) /\ spoiled' = FALSE /\ UNCHANGED build
  /\ UNCHANGED <<world, platform, meta, intent, plan, todo, failed, unrestored, bounds>>

LoadGraph ==
  /\ pc = "wiped" /\ pc' = "written"
  /\ Write([Empty EXCEPT !.code = graph])
  /\ UNCHANGED <<world, platform, meta, spoiled, intent, plan, todo, wiped, failed,
                 unrestored, bounds>>

-----------------------------------------------------------------------------
(* Embeddings. *)

\* Cached vectors come back for the files whose rows were removed and that
\* are still in the graph.
ToRestore == IF loaded THEN wiped \cap Present(graph) ELSE {}

Restored(back) ==
  [Target EXCEPT
    !.vec  = [f \in Files |-> IF f \in back THEN cache.vec[f] ELSE Target.vec[f]],
    !.half = (@ \ back) \cup (cache.half \cap back)]

\* Nodes without a cached vector, nodes whose content is not the cached one,
\* and those the marker names.
Stale ==
  {f \in Present(graph) : ~loaded \/ cache.vec[f] # graph[f]} \cup
    (resume.pending \cap Present(graph))

\* A batch that cannot be inserted is passed over: its files stay without
\* vectors, and are not embedded either, for the cache has them.
Restore ==
  /\ pc = "written"
  /\ \/ unrestored' = {} /\ UNCHANGED mishaps
     \/ unrestored' \in (SUBSET ToRestore) \ {{}} /\ PassedOver
  /\ Write(Restored(ToRestore \ unrestored'))
  /\ todo' = IF ShouldGenerate THEN Stale ELSE {}
  /\ pc' = IF todo' = {} THEN "embedded" ELSE "embedding"
  /\ UNCHANGED <<world, platform, meta, spoiled, intent, plan, wiped, failed, flagged>>

\* Mutant: the shape of a finished run (#2790).
Checkpointed_Success(m, pending) ==
  [m EXCEPT !.commit = commit, !.hashes = hashes, !.dirty = FALSE,
            !.marker = [kind |-> "interrupted", pending |-> pending,
                        attempts |-> 0]]

\* A checkpoint in flight changes the marker of the metadata on disk, and
\* nothing that says how fresh the index is (#2790).
Checkpointed(m, pending) ==
  [m EXCEPT !.marker = [kind |-> "interrupted", pending |-> pending,
                        attempts |-> 0]]

OpenWindow(f) ==
  /\ pc = "embedding" /\ f \in todo /\ pc' = "window"
  /\ todo' = todo \ {f}
  /\ meta' = Checkpointed(meta, {f})
  /\ Write([Target EXCEPT !.vec[f] = graph[f], !.half = @ \cup {f}])
  /\ UNCHANGED <<world, platform, spoiled, intent, plan, wiped, failed, unrestored, bounds>>

Counted(db) == \E f \in Files : db.vec[f] # 0

\* The file of the window with its second chunk, or without its first one,
\* which a refusal takes back.
Embedded(f, ok) ==
  [Target EXCEPT !.half = @ \ {f}, !.vec[f] = IF ok THEN graph[f] ELSE 0]

InWindow == {f \in Target.half : meta.marker.pending = {f}}

\* Then a flush and a checkpoint that names no node.
CloseWindow(ok) ==
  /\ pc = "window"
  /\ \E f \in InWindow :
       /\ IF staged THEN build' = Embedded(f, ok) /\ UNCHANGED live
                    ELSE live' = Whole(Embedded(f, ok)) /\ UNCHANGED build
       /\ meta' = [Checkpointed(meta, {}) EXCEPT !.embedded = Counted(Embedded(f, ok))]
       /\ failed' = IF ok THEN failed ELSE failed \cup {f}
  /\ pc' = IF todo = {} THEN "embedded" ELSE "embedding"
  /\ UNCHANGED <<world, platform, spoiled, intent, plan, todo, wiped, unrestored, bounds>>

\* A refusal too many in a row, or too many of all: the pipeline throws, and
\* the run with it, before the checkpoint.
GiveUp ==
  /\ pc = "window"
  /\ \E f \in InWindow :
       IF staged THEN UNCHANGED live
       ELSE live' \in {Whole(Embedded(f, FALSE)), Logged(live.main, Embedded(f, FALSE))}
  /\ NoRun
  /\ UNCHANGED <<world, platform, meta, spoiled, bounds>>

\* mintPartialCheckpoint and nextAttemptCount: the budget is spent only by a
\* node that was handed over and failed again.
FinalMarker ==
  IF failed = {} THEN NoMarker
  ELSE [kind |-> "partial", pending |-> failed,
        attempts |-> IF resume.kind = "partial" /\ failed \cap resume.pending # {}
                     THEN resume.attempts + 1 ELSE 0]

\* The gate: nodes were tried and no vector persisted.
NothingPersisted == failed # {} /\ ~Counted(Target)

Finalize ==
  /\ pc = "embedded" /\ pc' = "closing"
  /\ ~NothingPersisted
  /\ UNCHANGED <<world, platform, disk, intent, plan, work, bounds>>

\* It throws.
GateThrows ==
  /\ pc = "embedded"
  /\ NothingPersisted
  /\ NoRun
  /\ UNCHANGED <<world, platform, disk, bounds>>

-----------------------------------------------------------------------------
(* Publication: close, rename, sidecars, metadata. *)

\* The last checkpoint may fail silently; the log is then still needed.
Close ==
  /\ pc = "closing" /\ ~staged /\ pc' = "published"
  /\ live' \in {live, Whole(live.rows)}
  /\ UNCHANGED <<world, platform, meta, spoiled, intent, plan, work, bounds>>

\* A log beside the replaced file is poison for the new one; what an open would
\* make of the two is not known, and Empty stands for it.
Swap ==
  /\ pc = "closing" /\ staged /\ pc' = "swapped"
  /\ live' \in (IF live.wal = "none"
                THEN {Whole(build), Whole(Empty)}
                ELSE {[main |-> d, rows |-> Empty, wal |-> "foreign"] : d \in {build, Empty}})
  /\ UNCHANGED <<world, platform, meta, spoiled, intent, plan, work, bounds>>

\* The old log goes; a log left under the staging name follows its file.
MoveSidecars ==
  /\ pc = "swapped" /\ pc' = "published"
  /\ live' = IF live.main = build THEN Whole(build) ELSE Logged(live.main, build)
  /\ spoiled' = (surgical /\ spoiled)
  /\ UNCHANGED <<world, platform, meta, intent, plan, work, bounds>>

\* One of the two fails, or both, and nobody is told.
MoveSidecarsFails ==
  /\ pc = "swapped" /\ pc' = "published"
  /\ \/ live.wal = "foreign" /\ live' = live
     \/ live.main # build /\ live' = Whole(live.main)
  /\ spoiled' = TRUE
  /\ PassedOver
  /\ UNCHANGED <<world, platform, meta, intent, plan, work, flagged>>

Stamp ==
  [exists |-> TRUE, commit |-> commit, hashes |-> hashes, dirty |-> FALSE,
   embedded |-> Counted(Target), marker |-> FinalMarker]

SaveMeta ==
  /\ pc = "published"
  /\ meta' = Stamp
  /\ NoRun
  /\ UNCHANGED <<world, platform, live, spoiled, bounds>>

\* The process dies, or a step throws and the run cleans up: the lock is
\* free, the staging file goes (here or in the next owner's sweep), and the
\* disk stays as it is.
Abort ==
  /\ pc # "idle" /\ mishaps < MaxMishaps
  /\ mishaps' = mishaps + 1
  /\ NoRun
  /\ UNCHANGED <<world, platform, disk, flagged>>

-----------------------------------------------------------------------------
RunStep ==
  \/ Examine \/ UpToDate \/ LoadCache \/ Parse \/ HashAndPlan \/ MarkDirty
  \/ DeleteRows \/ InsertRows \/ Wipe \/ LoadGraph \/ Restore
  \/ \E f \in Files : OpenWindow(f)
  \/ CloseWindow(TRUE)
  \/ Finalize \/ GateThrows \/ Close \/ Swap \/ MoveSidecars \/ SaveMeta

Next ==
  \/ \E f \in Files, v \in Contents : Edit(f, v)
  \/ \E c \in Commits : MoveHead(c)
  \/ \E o \in Options : Start(o)
  \/ RunStep
  \/ Escalate
  \/ CloseWindow(FALSE) \/ GiveUp
  \/ MoveSidecarsFails
  \/ Abort

Spec == Init /\ [][Next]_vars

\* Analyze is run again and again (a hook, the watch, the user), and a run
\* that has started takes its steps, whatever the endpoint answers.
Fairness == WF_vars(Start("default")) /\ WF_vars(RunStep \/ CloseWindow(FALSE) \/ GiveUp)
FairSpec == Spec /\ Fairness

-----------------------------------------------------------------------------
Markers == [kind : {"none", "interrupted", "partial"}, pending : SUBSET Files,
            attempts : 0 .. MaxAttempts]
Metas == [exists : BOOLEAN, commit : 0 .. MaxCommits,
          hashes : [Files -> Contents], dirty : BOOLEAN, embedded : BOOLEAN,
          marker : Markers]

TypeOK ==
  /\ tree \in [Files -> Contents] /\ head \in Commits /\ platform \in Platforms
  /\ live \in [main : Databases, rows : Databases, wal : {"none", "own", "foreign"}]
  /\ meta \in Metas /\ base \in Metas
  /\ pc \in {"idle", "begun", "examined", "cached", "parsed", "planned",
             "marked", "deleted", "wiped", "written", "embedding", "window",
             "embedded", "closing", "swapped", "published"}
  /\ opt \in Options /\ commit \in 0 .. MaxCommits /\ resume \in Markers
  /\ cache \in Databases /\ build \in Databases
  /\ {force, loaded, surgical, staged} \subseteq BOOLEAN
  /\ {graph, hashes} \subseteq [Files -> Contents]
  /\ {todo, wiped, failed, unrestored} \subseteq SUBSET Files /\ spoiled \in BOOLEAN
  /\ moves \in 0 .. MaxMoves /\ mishaps \in 0 .. MaxMishaps
  /\ flagged \in 0 .. MaxFlagged

Clean == meta.hashes # Nothing /\ ~meta.dirty

\* The index is what the metadata says: every file's rows are those of the
\* content whose hash it records, and no other file's log lies beside them.
IndexAsRecorded == live.wal # "foreign" /\ live.rows.code = meta.hashes

\* Metadata without the dirty flag vouches for the index, whatever run died
\* where (run-analyze.ts:2547, :3877, :4556); the next incremental run relies
\* on it.  Excepted is a database whose log could not be moved, or that of the
\* file it replaced not be removed: a run passes over that (run-analyze.ts:4545,
\* :4552), see SidecarsFollow.
CleanIsTrue == Clean /\ ~spoiled => IndexAsRecorded

\* A run never opens a database beside a log that belongs to the file it
\* replaced, with the same exception, or a log that a dirty run left
\* (run-analyze.ts:1568, :4534).
PoisonNeverOpened ==
  pc \in {"cached", "parsed", "planned", "marked", "published"} =>
    /\ ~spoiled => live.wal # "foreign"
    /\ base.dirty /\ pc \in {"cached", "parsed"} => live.wal = "none"

\* A log left under the name of the staging file is moved beside the published
\* one, "so the next open replays the delta" (run-analyze.ts:4548), and the log
\* of the file it replaced, "replay poison" (:4541), is gone: an index that is
\* stamped clean is the one that was built.  The code does not keep this.
SidecarsFollow == Clean => IndexAsRecorded

\* What a run may rely on: metadata without the dirty flag is true, and what it
\* opens is no other file's log.
Inv == TypeOK /\ CleanIsTrue /\ PoisonNeverOpened

\* A run that was not asked to drop them keeps the vectors of every file that
\* has not changed, through wipes, swaps, escalations and recoveries
\* (run-analyze.ts:2118), if it could read them (:2191), insert them (:3573) and
\* publish the log they are in (:4552): it passes over those failures.
\* (A recovery that discards the log may find vectors that were dropped.)
EmbeddingsKept ==
  [][/\ pc = "published" /\ meta' = Stamp /\ opt # "drop" /\ ~spoiled
     /\ base.dirty => base.embedded
     /\ CacheWanted => loaded
     =>
       \A f \in Present(graph) \ (cache.half \cup unrestored) :
         cache.vec[f] = graph[f] /\ f \notin resume.pending =>
           live'.rows.vec[f] = graph[f]]_vars

\* What the code asks of the embedding endpoint.  From some time on it refuses
\* nothing but nodes of the flaky files, and not so many of them that a run
\* would be given up (embedding-pipeline.ts:853-872); a dead endpoint makes
\* every run throw, and leaves the index marked.
Refuses == GiveUp \/ failed' \ (failed \cup Flaky) # {}
EndpointServes == <>[][~Refuses]_vars

\* An index marked dirty, or with embeddings pending, does not stay so, once
\* the endpoint serves: a later run rebuilds it, resumes the window that was
\* cut off, and gives up a node that never embeds (run-analyze.ts:1532,
\* embedding-checkpoint.ts:45).
Settles ==
  EndpointServes =>
    ((meta.dirty \/ meta.marker # NoMarker) ~> (~meta.dirty /\ meta.marker = NoMarker))

\* A tree that stays different from HEAD is indexed as it is, again and again,
\* although HEAD is the commit that was indexed (run-analyze.ts:1982), once the
\* endpoint serves.
DirtyTreeIndexed ==
  EndpointServes /\ <>[]IsWorkingTreeDirty =>
    []<>(Clean /\ meta.hashes = tree /\ (spoiled \/ live.rows.code = tree))

\* An index that reports no pending embeddings has no file with some of its
\* chunks only (embedding-pipeline.ts:890, embedding-checkpoint.ts:88).  The
\* code does not keep this: see README.md, Findings.
NoHalfVectors == Clean /\ meta.marker = NoMarker => live.rows.half = {}

\* What "analyze" calls up to date is not what "status" calls stale
\* (index-content-drift.ts:14).  The code does not keep this either.
UpToDateIsCurrent ==
  [][pc = "examined" /\ pc' = "idle" /\ mishaps' = mishaps =>
       meta.hashes = tree]_vars
=============================================================================
