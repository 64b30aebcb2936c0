-------------------------- MODULE AnalyzeRunProofs --------------------------
(***************************************************************************)
(* Proofs about the analysis runs of a repository and what they leave on   *)
(* disk, for any number of files, commits, edits and runs that die.        *)
(***************************************************************************)
EXTENDS AnalyzeRun, TLAPS

\* A run before it first writes, and from the dirty flag to the metadata.
Before == {"begun", "examined", "cached", "parsed", "planned"}
After  == {"marked", "deleted", "wiped", "written", "embedding", "window", "embedded",
           "closing", "swapped", "published"}

\* The tree does not move between the parse and the hashes.
Honest == "edit" \notin Faults

\* The run writes everything anew, or on top of an index that was published whole.
Trusted == Honest /\ ~(surgical /\ spoiled)

\* A file without a log is all there is to read; a log of a file that was replaced
\* lies there while it is replaced, or under the dirty flag, or where it could not be
\* removed; the rename brings what was built, or the part of it outside its log.
FileSound ==
  /\ live.wal = "none" => live.main = live.rows
  /\ live.wal = "foreign" /\ ~spoiled => meta.dirty /\ pc \in {"idle", "begun", "swapped"}
  /\ pc = "swapped" => live.main \in {build, Empty} /\ live.rows \in {build, Empty}
  /\ pc = "published" => live.rows \in {Target, Empty}

\* The first run finds nothing; what it replaces has no log.
FirstRun ==
  /\ ~meta.exists => meta = NoMeta /\ live = Whole(Empty) /\ pc = "idle"
  /\ pc # "idle" /\ ~base.exists =>
       /\ base = NoMeta
       /\ pc \in Before => live = Whole(Empty)
       /\ staged /\ pc # "published" => live.wal = "none"

\* What a run read at its start is on disk until it marks it.
BaseRead ==
  /\ pc \in Before => meta = [base EXCEPT !.exists = TRUE]
  /\ pc \in After => IF base.exists THEN meta.dirty ELSE meta.hashes = Nothing
  /\ pc \notin {"idle", "begun"} /\ base.dirty => force
  /\ pc \in {"examined", "cached", "parsed"} /\ base.dirty => live.wal = "none"
  /\ resume.kind = "partial" => resume.attempts < MaxAttempts

\* The hashes are those of what was parsed, and what is written on top of the old
\* index is written on what its metadata vouches for.
Planned ==
  /\ Honest /\ pc = "parsed" => graph = tree
  /\ Honest /\ pc \in {"planned"} \cup After => hashes = graph
  /\ pc \in {"planned", "marked"} /\ surgical =>
       base.exists /\ ~base.dirty /\ base.hashes # Nothing
  /\ pc = "planned" /\ surgical /\ staged => live.wal = "none"
  /\ pc = "swapped" => staged

\* The rows written so far.
CodeWritten == Trusted =>
  /\ pc = "marked" /\ surgical => Target.code = base.hashes
  /\ pc = "deleted" => Target.code = [f \in Files |-> IF f \in wiped THEN 0 ELSE hashes[f]]
  /\ pc \in {"written", "embedding", "window", "embedded", "closing"} => Target.code = hashes
  /\ pc = "swapped" => build.code = hashes
  /\ pc = "published" /\ ~spoiled => live.rows.code = hashes

\* What metadata without the dirty flag says.
Truthful == Honest => CleanIsTrue

\* Where a run can be, and what a database file can be.
Places == {"idle"} \cup Before \cup After
LiveFiles == [main : Databases, rows : Databases, wal : {"none", "own", "foreign"}]

\* The types, in the order of the variables' groups.
WorldTypes ==
  /\ tree \in [Files -> Contents] /\ head \in Commits /\ platform \in Platforms
  /\ moves \in 0 .. MaxMoves /\ mishaps \in 0 .. MaxMishaps /\ flagged \in 0 .. MaxFlagged
DiskTypes == live \in LiveFiles /\ meta \in Metas /\ spoiled \in BOOLEAN
RunTypes ==
  /\ pc \in Places /\ opt \in Options /\ commit \in 0 .. MaxCommits /\ base \in Metas
  /\ force \in BOOLEAN /\ resume \in Markers /\ cache \in Databases /\ loaded \in BOOLEAN
PlanTypes ==
  /\ graph \in [Files -> Contents] /\ hashes \in [Files -> Contents]
  /\ surgical \in BOOLEAN /\ staged \in BOOLEAN
WorkTypes ==
  /\ build \in Databases /\ todo \in SUBSET Files /\ wiped \in SUBSET Files
  /\ failed \in SUBSET Files /\ unrestored \in SUBSET Files
Types == WorldTypes /\ DiskTypes /\ RunTypes /\ PlanTypes /\ WorkTypes

\* What the runs keep, a run that dies included.
Course ==
  Types /\ FileSound /\ FirstRun /\ BaseRead /\ Planned /\ CodeWritten /\ Truthful

\* The types are those of the specification.
LEMMA TypesAre == Types => TypeOK
<1>1. Places = {"idle", "begun", "examined", "cached", "parsed", "planned",
                "marked", "deleted", "wiped", "written", "embedding", "window",
                "embedded", "closing", "swapped", "published"}
  BY DEF Places, Before, After
<1>2. QED
  BY <1>1 DEF Types, WorldTypes, DiskTypes, RunTypes, PlanTypes, WorkTypes, TypeOK, LiveFiles

\* What is there when nothing is.
LEMMA EmptyTypes ==
  /\ Nothing \in [Files -> Contents] /\ Empty \in Databases /\ Whole(Empty) \in LiveFiles
  /\ NoMarker \in Markers /\ NoMeta \in Metas
  /\ \A c \in Commits : CommitTree(c) \in [Files -> Contents] /\ c \in 0 .. MaxCommits
<1> USE ConstantsAssumption
<1>1. Nothing \in [Files -> Contents]
  BY DEF Nothing, Contents
<1>2. Empty \in Databases
  BY <1>1 DEF Empty, Databases
<1>3. Whole(Empty) \in LiveFiles
  BY <1>2 DEF Whole, LiveFiles
<1>4. NoMarker \in Markers
  BY DEF NoMarker, Markers
<1>5. NoMeta \in Metas
  BY <1>1, <1>4 DEF NoMeta, Metas
<1>6. \A c \in Commits : CommitTree(c) \in [Files -> Contents] /\ c \in 0 .. MaxCommits
  BY DEF Commits, CommitTree, Contents
<1>7. QED  BY <1>1, <1>2, <1>3, <1>4, <1>5, <1>6

\* What a run writes on is a database.
LEMMA TargetIs ==
  ASSUME Types
  PROVE  /\ Target \in Databases /\ Target.code \in [Files -> Contents]
         /\ Target.vec \in [Files -> Contents] /\ Target.half \in SUBSET Files
         /\ graph \in [Files -> Contents] /\ hashes \in [Files -> Contents]
<1>1. Target \in Databases
  BY DEF Types, DiskTypes, WorkTypes, PlanTypes, LiveFiles, Target
<1>2. QED  BY <1>1 DEF Databases, Types, PlanTypes

\* Nobody runs.
Idle ==
  /\ pc = "idle" /\ opt = "default" /\ commit = 0 /\ base = NoMeta
  /\ force = FALSE /\ resume = NoMarker /\ cache = Empty /\ loaded = FALSE
  /\ graph = Nothing /\ hashes = Nothing /\ surgical = FALSE
  /\ staged = FALSE /\ build = Empty
  /\ todo = {} /\ wiped = {} /\ failed = {} /\ unrestored = {}

\* The end of a run is the state without one, whatever is on disk.
LEMMA IdleCourse ==
  WorldTypes /\ DiskTypes /\ Idle /\ Truthful
  /\ (live.wal = "none" => live.main = live.rows) /\ (live.wal = "foreign" /\ ~spoiled => meta.dirty)
  /\ (~meta.exists => meta = NoMeta /\ live = Whole(Empty))
  => Course
<1> SUFFICES ASSUME WorldTypes, DiskTypes, Idle, Truthful,
                    live.wal = "none" => live.main = live.rows,
                    live.wal = "foreign" /\ ~spoiled => meta.dirty,
                    ~meta.exists => meta = NoMeta /\ live = Whole(Empty)
             PROVE  Course
  OBVIOUS
<1>1. RunTypes /\ PlanTypes /\ WorkTypes
  <2>1. "default" \in Options /\ 0 \in 0 .. MaxCommits /\ "idle" \in Places
    BY ConstantsAssumption DEF Places
  <2>2. /\ Nothing \in [Files -> Contents] /\ Empty \in Databases
        /\ NoMarker \in Markers /\ NoMeta \in Metas
    BY EmptyTypes
  <2>3. QED  BY <2>1, <2>2 DEF Idle, RunTypes, PlanTypes, WorkTypes
<1>2. FileSound /\ FirstRun
  BY DEF FileSound, FirstRun, Idle
<1>3. BaseRead /\ Planned /\ CodeWritten
  BY DEF BaseRead, Planned, CodeWritten, Trusted, Idle, Before, After, NoMarker
<1>4. QED  BY <1>1, <1>2, <1>3 DEF Course, Types

\* The first state of all.
LEMMA CourseInit == Init => Course
<1> SUFFICES ASSUME Init PROVE Course
  OBVIOUS
<1>1. Idle
  BY DEF Init, Idle
<1>2. WorldTypes /\ DiskTypes
  <2>1. WorldTypes
    BY EmptyTypes, ConstantsAssumption DEF Init, WorldTypes, Commits
  <2>2. DiskTypes
    BY EmptyTypes DEF Init, DiskTypes
  <2>3. QED  BY <2>1, <2>2
<1>3. live = Whole(Empty) /\ meta = NoMeta
  BY DEF Init
<1>4. QED  BY <1>1, <1>2, <1>3, IdleCourse DEF Truthful, CleanIsTrue, IndexAsRecorded, Clean, NoMeta, Whole

\* The tree moves; with the parse and the hashes taken of one tree the run sees it
\* before or after.
LEMMA TreeStep ==
  ASSUME Course,
         (\E f \in Files, v \in Contents : Edit(f, v)) \/ (\E c \in Commits : MoveHead(c))
  PROVE  Course'
<1>1. /\ (Honest => pc # "parsed") /\ moves < MaxMoves /\ moves' = moves + 1
      /\ UNCHANGED <<platform, live, meta, spoiled, pc, opt, commit, base, force, resume, cache, loaded,
                     graph, hashes, surgical, staged, build, todo, wiped, failed, unrestored, mishaps, flagged>>
  BY DEF Edit, MoveHead, Still, Honest, disk, intent, plan, work, bounds
<1>2. tree' \in [Files -> Contents] /\ head' \in Commits
  BY EmptyTypes DEF Edit, MoveHead, Course, Types, WorldTypes
<1>3. WorldTypes'
  BY <1>1, <1>2, ConstantsAssumption DEF Course, Types, WorldTypes
<1>4. DiskTypes' /\ RunTypes' /\ PlanTypes' /\ WorkTypes'
  BY <1>1 DEF Course, Types, DiskTypes, RunTypes, PlanTypes, WorkTypes
<1>5. FileSound' /\ FirstRun' /\ BaseRead'
  BY <1>1 DEF Course, FileSound, FirstRun, BaseRead, Target
<1>6. Planned' /\ CodeWritten' /\ Truthful'
  BY <1>1 DEF Course, Planned, CodeWritten, Trusted, Truthful, CleanIsTrue, IndexAsRecorded, Clean, Target
<1>7. QED  BY <1>3, <1>4, <1>5, <1>6 DEF Course, Types

\* A run begins with what is on disk.
LEMMA StartStep ==
  ASSUME Course, NEW o \in Options, Start(o)
  PROVE  Course'
<1>1. /\ pc = "idle" /\ pc' = "begun" /\ opt' = o /\ commit' = head /\ base' = meta
      /\ force' = (o = "force") /\ meta' = [meta EXCEPT !.exists = TRUE]
      /\ flagged' \in {flagged, flagged + 1} /\ (flagged' # flagged => flagged < MaxFlagged)
      /\ UNCHANGED <<tree, head, moves, platform, live, spoiled, resume, cache, loaded,
                     graph, hashes, surgical, staged, build, todo, wiped, failed, unrestored, mishaps>>
  BY DEF Start, world, plan, work
<1>2. meta \in Metas /\ meta' \in Metas
  BY <1>1 DEF Course, Types, DiskTypes, Metas
<1>3. /\ meta'.exists = TRUE /\ meta'.hashes = meta.hashes /\ meta'.dirty = meta.dirty
  BY <1>1, <1>2 DEF Metas
<1>4. WorldTypes'
  BY <1>1, ConstantsAssumption DEF Course, Types, WorldTypes
<1>5. DiskTypes' /\ RunTypes'
  BY <1>1, <1>2, EmptyTypes DEF Course, Types, WorldTypes, DiskTypes, RunTypes, Places, Before
<1>6. PlanTypes' /\ WorkTypes'
  BY <1>1 DEF Course, Types, PlanTypes, WorkTypes
<1>7. FileSound' /\ FirstRun'
  BY <1>1, <1>3 DEF Course, FileSound, FirstRun, Whole
<1>8. BaseRead' /\ Planned' /\ CodeWritten'
  BY <1>1 DEF Course, BaseRead, Planned, CodeWritten, Trusted, Before, After
<1>9. Truthful'
  BY <1>1, <1>3 DEF Course, Truthful, CleanIsTrue, IndexAsRecorded, Clean
<1>10. QED  BY <1>4, <1>5, <1>6, <1>7, <1>8, <1>9 DEF Course, Types

\* It throws away the log of a run that died writing.
LEMMA ExamineStep ==
  ASSUME Course, Examine
  PROVE  Course'
<1>1. /\ pc = "begun" /\ pc' = "examined"
      /\ resume' = IF base.marker # NoMarker /\ Decision(base.marker, opt) = "resume"
                   THEN base.marker ELSE NoMarker
      /\ force' = (\/ force
                   \/ base.marker # NoMarker /\ opt = "drop"
                   \/ base.dirty
                   \/ base.exists /\ base.commit = 0)
      /\ live' = IF base.dirty THEN Whole(live.main) ELSE live
      /\ UNCHANGED <<tree, head, moves, platform, meta, spoiled, opt, commit, base, cache, loaded,
                     graph, hashes, surgical, staged, build, todo, wiped, failed, unrestored, mishaps, flagged>>
  BY DEF Examine, Parked, world, plan, work, bounds
<1>2. live' \in LiveFiles
  BY <1>1 DEF Course, Types, DiskTypes, LiveFiles, Whole
<1>3. resume' \in Markers
  BY <1>1, EmptyTypes DEF Course, Types, RunTypes, Metas
<1>4. force' \in BOOLEAN
  BY <1>1
<1>5. WorldTypes' /\ DiskTypes' /\ RunTypes' /\ PlanTypes' /\ WorkTypes'
  BY <1>1, <1>2, <1>3, <1>4
     DEF Course, Types, WorldTypes, DiskTypes, RunTypes, PlanTypes, WorkTypes, Places, Before
<1>6. meta = [base EXCEPT !.exists = TRUE] /\ meta.dirty = base.dirty
  BY <1>1 DEF Course, BaseRead, Before, Types, RunTypes, Metas
<1>7. /\ live'.wal = "none" => live'.main = live'.rows
      /\ (live'.wal # "foreign" \/ spoiled) /\ (base.dirty => live'.wal = "none")
      /\ ~base.dirty => live' = live
  BY <1>1, <1>6 DEF Course, FileSound, Whole
<1>8. FileSound' /\ FirstRun'
  BY <1>1, <1>7 DEF Course, FileSound, FirstRun, Before, NoMeta
<1>9. resume'.kind = "partial" => resume'.attempts < MaxAttempts
  <2>1. resume'.kind = "partial" => /\ resume' = base.marker
                                    /\ ~(base.marker.kind = "partial" /\ base.marker.attempts >= MaxAttempts)
    BY <1>1 DEF Decision, NoMarker
  <2>2. base.marker.attempts \in 0 .. MaxAttempts /\ MaxAttempts \in Nat
    BY ConstantsAssumption DEF Course, Types, RunTypes, Metas, Markers
  <2>3. QED  BY <2>1, <2>2
<1>10. BaseRead'
  BY <1>1, <1>6, <1>7, <1>9 DEF BaseRead, Before, After
<1>11. Planned' /\ CodeWritten'
  BY <1>1 DEF Planned, CodeWritten, Trusted, After
<1>12. Truthful'
  BY <1>1, <1>6, <1>7 DEF Course, Truthful, CleanIsTrue, IndexAsRecorded, Clean
<1>13. QED  BY <1>5, <1>8, <1>10, <1>11, <1>12 DEF Course, Types

\* A run that ends with nothing to do, or dies, leaves the disk as it is.
LEMMA EndStep ==
  ASSUME Course, UpToDate \/ Abort \/ GateThrows
  PROVE  Course'
<1>1. /\ Idle' /\ UNCHANGED <<tree, head, moves, platform, live, meta, spoiled, flagged>>
      /\ pc # "idle"
      /\ mishaps' \in {mishaps, mishaps + 1} /\ (mishaps' # mishaps => mishaps < MaxMishaps)
  BY DEF UpToDate, Abort, GateThrows, NoRun, Idle, world, disk, bounds
<1>2. WorldTypes' /\ DiskTypes'
  BY <1>1, ConstantsAssumption DEF Course, Types, WorldTypes, DiskTypes
<1>3. Truthful'
  BY <1>1 DEF Course, Truthful, CleanIsTrue, IndexAsRecorded, Clean
<1>4. /\ (live.wal = "none" => live.main = live.rows)'
      /\ (live.wal = "foreign" /\ ~spoiled => meta.dirty)'
      /\ (~meta.exists => meta = NoMeta /\ live = Whole(Empty))'
  BY <1>1 DEF Course, FileSound, FirstRun
<1>5. Idle'
  BY <1>1
<1>6. QED  BY <1>2, <1>3, <1>4, <1>5, IdleCourse, PTL

\* The file of a window with its vectors, or without them.
LEMMA EmbeddedIs ==
  ASSUME Types, NEW ok \in BOOLEAN, NEW f \in InWindow
  PROVE  /\ f \in Files /\ f \in Target.half /\ meta.marker.pending = {f}
         /\ Embedded(f, ok) \in Databases /\ Embedded(f, ok).code = Target.code
         /\ Embedded(f, ok).half = Target.half \ {f}
         /\ \A g \in Files : Embedded(f, ok).vec[g] =
              IF g = f THEN (IF ok THEN graph[f] ELSE 0) ELSE Target.vec[g]
<1> DEFINE vec == [Target.vec EXCEPT ![f] = IF ok THEN graph[f] ELSE 0]
<1>1. f \in Files /\ f \in Target.half /\ meta.marker.pending = {f}
  BY TargetIs DEF InWindow
<1>2. vec \in [Files -> Contents] /\ Target.half \ {f} \in SUBSET Files
  BY <1>1, TargetIs, ConstantsAssumption DEF Contents
<1>3. Embedded(f, ok) = [Target EXCEPT !.half = Target.half \ {f}, !.vec = vec]
  BY DEF Embedded
<1>4. \A g \in Files : vec[g] = IF g = f THEN (IF ok THEN graph[f] ELSE 0) ELSE Target.vec[g]
  BY <1>1, TargetIs
<1> HIDE DEF vec
<1>5. /\ Embedded(f, ok) \in Databases /\ Embedded(f, ok).code = Target.code
      /\ Embedded(f, ok).half = Target.half \ {f} /\ Embedded(f, ok).vec = vec
  BY <1>2, <1>3, TargetIs DEF Databases
<1>6. QED  BY <1>1, <1>4, <1>5

\* A run that gives up takes the vectors of its last file out, and leaves the flag.
LEMMA GiveUpStep ==
  ASSUME Course, GiveUp
  PROVE  Course'
<1>1. PICK db \in Databases : live' \in {live, Whole(db), Logged(live.main, db)}
  BY EmbeddedIs DEF GiveUp, Course
<1>2. /\ Idle' /\ pc = "window"
      /\ UNCHANGED <<tree, head, moves, platform, meta, spoiled, mishaps, flagged>>
  BY DEF GiveUp, NoRun, Idle, world, bounds
<1>3. live' \in LiveFiles
  <2>1. live \in LiveFiles
    BY DEF Course, Types, DiskTypes
  <2>2. QED  BY <1>1, <2>1 DEF LiveFiles, Whole, Logged
<1>4. WorldTypes' /\ DiskTypes'
  BY <1>2, <1>3 DEF Course, Types, WorldTypes, DiskTypes
<1>5. meta.exists /\ ~Clean
  BY <1>2 DEF Course, FirstRun, BaseRead, Clean, After
<1>6. Truthful'
  BY <1>2, <1>5 DEF Truthful, CleanIsTrue, Clean
<1>7. /\ (live.wal = "none" => live.main = live.rows)'
      /\ (live.wal = "foreign" /\ ~spoiled => meta.dirty)'
      /\ (~meta.exists => meta = NoMeta /\ live = Whole(Empty))'
  <2>1. /\ live.wal = "none" => live.main = live.rows
        /\ live.wal = "foreign" => spoiled
    BY <1>2 DEF Course, FileSound
  <2>2. /\ live'.wal = "none" => live'.main = live'.rows
        /\ live'.wal = "foreign" => spoiled
    BY <1>1, <2>1 DEF Whole, Logged
  <2>3. QED  BY <1>2, <1>5, <2>2
<1>8. Idle'
  BY <1>2
<1>9. QED  BY <1>4, <1>6, <1>7, <1>8, IdleCourse, PTL

\* It reads the vectors and the tree, and plans.
LEMMA LoadStep ==
  ASSUME Course, LoadCache
  PROVE  Course'
<1>1. /\ pc = "examined" /\ pc' = "cached"
      /\ loaded' \in {CacheWanted, FALSE} /\ cache' = live.rows
      /\ mishaps' \in {mishaps, mishaps + 1} /\ (mishaps' # mishaps => mishaps < MaxMishaps)
      /\ UNCHANGED <<tree, head, moves, platform, live, meta, spoiled, opt, commit, base, force, resume,
                     graph, hashes, surgical, staged, build, todo, wiped, failed, unrestored, flagged>>
  BY DEF LoadCache, PassedOver, world, disk, plan, work
<1>2. loaded' \in BOOLEAN /\ cache' \in Databases /\ mishaps' \in 0 .. MaxMishaps
  <2>1. mishaps' \in 0 .. MaxMishaps
    BY <1>1, ConstantsAssumption DEF Course, Types, WorldTypes
  <2>2. CacheWanted \in BOOLEAN
    BY DEF CacheWanted, ShouldLoadCache
  <2>3. loaded' \in BOOLEAN
    BY <1>1, <2>2
  <2>4. cache' \in Databases
    BY <1>1 DEF Course, Types, DiskTypes, LiveFiles
  <2>5. QED  BY <2>1, <2>3, <2>4
<1>3. WorldTypes' /\ DiskTypes' /\ RunTypes' /\ PlanTypes' /\ WorkTypes'
  BY <1>1, <1>2
     DEF Course, Types, WorldTypes, DiskTypes, RunTypes, PlanTypes, WorkTypes, Places, Before
<1>4. FileSound' /\ FirstRun'
  BY <1>1 DEF Course, FileSound, FirstRun, Before
<1>5. BaseRead'
  BY <1>1 DEF Course, BaseRead, Before, After
<1>6. Planned' /\ CodeWritten' /\ Truthful'
  BY <1>1 DEF Course, Planned, CodeWritten, Trusted, Truthful, CleanIsTrue, IndexAsRecorded, Clean, After
<1>7. QED  BY <1>3, <1>4, <1>5, <1>6 DEF Course, Types

\* Parsing takes the tree as it is.
LEMMA ParseStep ==
  ASSUME Course, Parse
  PROVE  Course'
<1>1. /\ pc = "cached" /\ pc' = "parsed" /\ graph' = tree
      /\ UNCHANGED <<tree, head, moves, platform, live, meta, spoiled, opt, commit, base, force, resume,
                     cache, loaded, hashes, surgical, staged, build, todo, wiped, failed, unrestored,
                     mishaps, flagged>>
  BY DEF Parse, world, disk, intent, work, bounds
<1>2. WorldTypes' /\ DiskTypes' /\ RunTypes' /\ PlanTypes' /\ WorkTypes'
  BY <1>1
     DEF Course, Types, WorldTypes, DiskTypes, RunTypes, PlanTypes, WorkTypes, Places, Before
<1>3. FileSound' /\ FirstRun'
  BY <1>1 DEF Course, FileSound, FirstRun, Before
<1>4. BaseRead'
  BY <1>1 DEF Course, BaseRead, Before, After
<1>5. Planned' /\ CodeWritten' /\ Truthful'
  BY <1>1 DEF Course, Planned, CodeWritten, Trusted, Truthful, CleanIsTrue, IndexAsRecorded, Clean, After
<1>6. QED  BY <1>2, <1>3, <1>4, <1>5 DEF Course, Types

\* The plan: hashes of the files, incremental or full, staged or in place.
LEMMA PlanStep ==
  ASSUME Course, HashAndPlan
  PROVE  Course'
<1>1. /\ pc = "parsed" /\ pc' = "planned"
      /\ hashes' = [f \in Files |-> IF graph[f] = 0 THEN 0 ELSE tree[f]]
      /\ surgical' = IsIncremental
      /\ staged' \in BOOLEAN
      /\ ~surgical' => staged' = (platform = "posix")
      /\ surgical' /\ staged' => live.wal = "none"
      /\ UNCHANGED <<tree, head, moves, platform, live, meta, spoiled, opt, commit, base, force, resume,
                     cache, loaded, graph, build, todo, wiped, failed, unrestored, mishaps, flagged>>
  BY DEF HashAndPlan, world, disk, intent, work, bounds
<1>2. (Honest => graph = tree) /\ graph \in [Files -> Contents] /\ tree \in [Files -> Contents]
  BY <1>1 DEF Course, Planned, Types, PlanTypes, WorldTypes
<1>3. (Honest => hashes' = graph) /\ hashes' \in [Files -> Contents]
  BY <1>1, <1>2, ConstantsAssumption DEF Contents
<1>4. surgical' \in BOOLEAN
  BY <1>1 DEF IsIncremental
<1>5. WorldTypes' /\ DiskTypes' /\ RunTypes' /\ WorkTypes'
  BY <1>1
     DEF Course, Types, WorldTypes, DiskTypes, RunTypes, WorkTypes, Places, Before
<1>6. PlanTypes'
  BY <1>1, <1>2, <1>3, <1>4 DEF PlanTypes
<1>7. surgical' => ~force /\ base.exists /\ base.hashes # Nothing
  BY <1>1 DEF IsIncremental
<1>8. FileSound' /\ BaseRead'
  BY <1>1 DEF Course, FileSound, BaseRead, Before, After
<1>9. FirstRun'
  BY <1>1 DEF Course, FirstRun, Before, Whole
<1>10. Planned'
  BY <1>1, <1>2, <1>3, <1>7 DEF Course, Planned, BaseRead
<1>11. CodeWritten' /\ Truthful'
  BY <1>1 DEF Course, CodeWritten, Trusted, Truthful, CleanIsTrue, IndexAsRecorded, Clean
<1>12. QED  BY <1>5, <1>6, <1>8, <1>9, <1>10, <1>11 DEF Course, Types

\* It marks the index, over what it read of it.
LEMMA MarkStep ==
  ASSUME Course, MarkDirty
  PROVE  Course'
<1>1. /\ pc = "planned" /\ pc' = "marked"
      /\ meta' = IF base.exists THEN [base EXCEPT !.dirty = TRUE] ELSE meta
      /\ build' = IF surgical /\ staged THEN live.main ELSE Empty
      /\ UNCHANGED <<tree, head, moves, platform, live, spoiled, opt, commit, base, force, resume,
                     cache, loaded, graph, hashes, surgical, staged, todo, wiped, failed, unrestored,
                     mishaps, flagged>>
  BY DEF MarkDirty, Marked, world, intent, plan, bounds
<1>2. base \in Metas /\ meta = [base EXCEPT !.exists = TRUE] /\ meta \in Metas
  BY <1>1 DEF Course, BaseRead, Before, Types, RunTypes, DiskTypes
<1>3. /\ meta' \in Metas /\ meta'.exists
      /\ IF base.exists THEN meta'.dirty ELSE meta'.hashes = Nothing
  <2>1. CASE base.exists
    BY <1>1, <1>2, <2>1 DEF Metas
  <2>2. CASE ~base.exists
    BY <1>1, <1>2, <2>2 DEF Course, FirstRun, NoMeta
  <2>3. QED  BY <2>1, <2>2
<1>4. build' \in Databases
  BY <1>1, EmptyTypes DEF Course, Types, DiskTypes, LiveFiles
<1>5. WorldTypes' /\ DiskTypes' /\ RunTypes' /\ PlanTypes' /\ WorkTypes'
  BY <1>1, <1>3, <1>4
     DEF Course, Types, WorldTypes, DiskTypes, RunTypes, PlanTypes, WorkTypes, Places, After
<1>6. live.wal # "foreign" \/ spoiled
  BY <1>1 DEF Course, FileSound
<1>7. FileSound' /\ FirstRun'
  BY <1>1, <1>3, <1>6 DEF Course, FileSound, FirstRun, Before
<1>8. BaseRead'
  BY <1>1, <1>3 DEF Course, BaseRead, Before, After
<1>9. Planned'
  BY <1>1 DEF Course, Planned, After
<1>10. surgical => (Trusted => live.rows.code = base.hashes) /\ (staged => live.main = live.rows)
  <2>1. surgical => Clean /\ meta.hashes = base.hashes
    BY <1>1, <1>2 DEF Course, Planned, Clean, Metas
  <2>2. QED  BY <1>1, <2>1 DEF Course, Truthful, Trusted, CleanIsTrue, IndexAsRecorded, Planned, FileSound
<1>11. CodeWritten'
  BY <1>1, <1>10 DEF CodeWritten, Trusted, Target
<1>12. Truthful'
  BY <1>3 DEF Truthful, CleanIsTrue, IndexAsRecorded, Clean
<1>13. QED  BY <1>5, <1>7, <1>8, <1>9, <1>11, <1>12 DEF Course, Types

\* A run that goes on after it marked the index keeps what it read and planned.
Continues ==
  /\ pc \in After /\ pc' \in After
  /\ meta' \in Metas /\ meta'.dirty = meta.dirty /\ meta'.hashes = meta.hashes
  /\ meta'.exists = meta.exists
  /\ UNCHANGED <<tree, head, moves, platform, opt, commit, base, force, resume, cache,
                 graph, hashes, flagged>>
  /\ mishaps' \in 0 .. MaxMishaps /\ spoiled' \in BOOLEAN /\ loaded' \in BOOLEAN
  /\ surgical' \in BOOLEAN /\ staged' \in BOOLEAN
  /\ todo' \in SUBSET Files /\ wiped' \in SUBSET Files /\ failed' \in SUBSET Files
  /\ unrestored' \in SUBSET Files

\* What a step that only goes on with the writing keeps of the course.
LEMMA GoesOn ==
  ASSUME Course, Continues
  PROVE  /\ WorldTypes' /\ RunTypes' /\ PlanTypes' /\ BaseRead' /\ Truthful'
         /\ (Honest => hashes = graph)' /\ meta'.exists
         /\ build' \in Databases => WorkTypes'
         /\ live' \in LiveFiles => DiskTypes'
<1> USE DEF Continues
<1>1. WorldTypes' /\ RunTypes' /\ PlanTypes'
  BY DEF Course, Types, WorldTypes, RunTypes, PlanTypes, Places
<1>2. (Honest => hashes = graph)' /\ meta'.exists
  BY DEF Course, Planned, FirstRun, After
<1>3. pc' \notin Before /\ pc \notin {"idle", "begun"} /\ pc' \notin {"examined", "cached", "parsed"}
  BY DEF Before, After
<1>4. BaseRead'
  BY <1>3 DEF Course, BaseRead
<1>5. ~Clean'
  BY <1>4 DEF BaseRead, Clean
<1>6. Truthful'
  BY <1>5 DEF Truthful, CleanIsTrue
<1>7. build' \in Databases => WorkTypes'
  BY DEF WorkTypes
<1>8. live' \in LiveFiles => DiskTypes'
  BY DEF DiskTypes
<1>9. QED  BY <1>1, <1>2, <1>4, <1>6, <1>7, <1>8

\* What a write does, in place and beside.
LEMMA WriteDoes ==
  ASSUME Course, Continues, NEW db \in Databases, Write(db), staged' = staged,
         pc \notin {"swapped", "published"}, pc' \notin {"marked", "swapped", "published"},
         staged => spoiled' = spoiled
  PROVE  /\ Types' /\ FileSound' /\ FirstRun' /\ BaseRead' /\ Planned' /\ Truthful'
         /\ Target' = db /\ (staged => live' = live)
<1>1. /\ staged => build' = db /\ live' = live
      /\ ~staged => build' = build /\ live' \in {Whole(db), Logged(live.main, db)}
  BY DEF Write
<1>2. Target' = db
  BY <1>1 DEF Target, Whole, Logged
<1>3. live \in LiveFiles /\ build \in Databases /\ (live.wal # "foreign" \/ spoiled)
  BY DEF Continues, Course, Types, DiskTypes, WorkTypes, FileSound, After
<1>4. live' \in LiveFiles /\ build' \in Databases
  BY <1>1, <1>3 DEF LiveFiles, Whole, Logged, Course, Types, PlanTypes
<1>5. (live'.wal # "foreign" \/ spoiled') /\ (live'.wal = "none" => live'.main = live'.rows)
  BY <1>1, <1>3 DEF Whole, Logged, Course, FileSound, Types, PlanTypes
<1>6. Types'
  BY <1>4, GoesOn DEF Types
<1>7. FileSound'
  BY <1>5 DEF FileSound
<1>8. FirstRun'
  BY <1>1, <1>5, GoesOn DEF Course, FirstRun, Continues, Before, After
<1>9. Planned'
  BY GoesOn DEF Planned, Continues, After
<1>10. QED  BY <1>1, <1>2, <1>6, <1>7, <1>8, <1>9, GoesOn

\* The valve turns a surgical run into a full one.
LEMMA EscalateStep ==
  ASSUME Course, Escalate
  PROVE  Course'
<1>1. /\ pc = "marked" /\ surgical /\ surgical' = FALSE /\ build' = Empty
      /\ staged' \in {staged, platform = "posix"}
      /\ UNCHANGED <<tree, head, moves, platform, live, meta, spoiled, pc, opt, commit, base, force, resume,
                     cache, graph, hashes, todo, wiped, failed, unrestored, mishaps, flagged>>
      /\ spoiled' = spoiled /\ loaded' \in BOOLEAN
  BY DEF Escalate, world, disk, bounds, Course, Types, RunTypes
<1>2. unrestored \in SUBSET Files /\ spoiled \in BOOLEAN /\ mishaps \in 0 .. MaxMishaps
      /\ staged \in BOOLEAN /\ todo \in SUBSET Files /\ wiped \in SUBSET Files
      /\ failed \in SUBSET Files /\ meta \in Metas /\ live \in LiveFiles
  BY DEF Course, Types, WorldTypes, PlanTypes, WorkTypes, DiskTypes
<1>3. Continues
  BY <1>1, <1>2 DEF Continues, After
<1>4. Types' /\ BaseRead' /\ Truthful' /\ (Honest => hashes = graph)'
  BY <1>1, <1>2, <1>3, GoesOn, EmptyTypes DEF Types
<1>5. base.exists
  BY <1>1 DEF Course, Planned
<1>6. FileSound' /\ FirstRun'
  BY <1>1, <1>5 DEF Course, FileSound, FirstRun
<1>7. Planned' /\ CodeWritten'
  BY <1>1, <1>4 DEF Planned, CodeWritten, Trusted
<1>8. QED  BY <1>4, <1>6, <1>7 DEF Course

\* What the steps that write share: they go on, and only what they hold in hand changes.
Writes ==
  /\ pc \in After \ {"swapped", "published"} /\ pc' \in After \ {"marked", "swapped", "published"}
  /\ UNCHANGED <<world, platform, intent, plan, flagged>>
  /\ mishaps' \in 0 .. MaxMishaps
  /\ spoiled' \in BOOLEAN /\ (surgical \/ staged => spoiled' = spoiled)
  /\ todo' \in SUBSET Files /\ wiped' \in SUBSET Files /\ failed' \in SUBSET Files
  /\ unrestored' \in SUBSET Files
  /\ meta' \in Metas /\ meta'.dirty = meta.dirty /\ meta'.hashes = meta.hashes
  /\ meta'.exists = meta.exists

\* A step that writes a database keeps the course if its rows are those of its point.
LEMMA WriteStep ==
  ASSUME Course, Writes, NEW db \in Databases, Write(db),
         Trusted /\ pc' = "deleted" => db.code = [f \in Files |-> IF f \in wiped' THEN 0 ELSE hashes[f]],
         Trusted /\ pc' \in {"written", "embedding", "window", "embedded", "closing"} =>
           db.code = hashes
  PROVE  Course' /\ Target' = db
<1>1. Continues /\ staged' = staged /\ hashes' = hashes
  BY DEF Writes, Continues, world, intent, plan, Course, Types, RunTypes, PlanTypes
<1>2. /\ Types' /\ FileSound' /\ FirstRun' /\ BaseRead' /\ Planned' /\ Truthful'
      /\ Target' = db
  BY <1>1, WriteDoes DEF Writes
<1>3. Trusted' => Trusted
  BY DEF Trusted, Writes, plan
<1>4. CodeWritten'
  BY <1>1, <1>2, <1>3 DEF CodeWritten, Writes
<1>5. QED  BY <1>2, <1>4 DEF Course

\* It removes the rows of what changed, and writes them anew.
LEMMA DeleteStep ==
  ASSUME Course, DeleteRows
  PROVE  Course'
<1>1. PICK importers \in SUBSET (Present(hashes) \ Differing) :
        wiped' = Differing \cup importers /\ Write(Without(Target, wiped'))
  BY DEF DeleteRows
<1> DEFINE db == Without(Target, wiped')
<1>2. wiped' \in SUBSET Files
  BY <1>1 DEF Differing, Present
<1>3. db \in Databases
  BY <1>2, TargetIs, ConstantsAssumption DEF Course, Without, Databases, Contents
<1>4. Writes
  BY <1>2 DEF Writes, DeleteRows, After, Course, Types, WorldTypes, DiskTypes, WorkTypes, bounds
<1>5. Trusted => db.code = [f \in Files |-> IF f \in wiped' THEN 0 ELSE hashes[f]]
  <2>1. Trusted => Target.code = base.hashes
    BY DEF Course, CodeWritten, Trusted, DeleteRows
  <2>2. \A f \in Files \ wiped' : hashes[f] = base.hashes[f]
    BY <1>1 DEF Differing
  <2>3. QED  BY <2>1, <2>2 DEF Without
<1>6. pc' = "deleted"
  BY DEF DeleteRows
<1> HIDE DEF db
<1>7. Write(db)
  BY <1>1 DEF db
<1>8. QED  BY <1>3, <1>4, <1>5, <1>6, <1>7, WriteStep

\* The incremental write inserts the rows of the files it wiped.
LEMMA InsertStep ==
  ASSUME Course, InsertRows
  PROVE  Course'
<1> DEFINE db == [Target EXCEPT !.code = [f \in Files |->
                    IF f \in wiped THEN graph[f] ELSE Target.code[f]]]
<1>1. db \in Databases
  BY TargetIs DEF Course, Databases
<1>2. Writes
  BY DEF Writes, InsertRows, After, Course, Types, WorldTypes, DiskTypes, WorkTypes, bounds
<1>3. Trusted => db.code = hashes
  <2> SUFFICES ASSUME Trusted PROVE db.code = hashes
    OBVIOUS
  <2>1. Target.code = [f \in Files |-> IF f \in wiped THEN 0 ELSE hashes[f]] /\ hashes = graph
    BY DEF Course, CodeWritten, Trusted, Planned, InsertRows, After
  <2>2. db.code = [f \in Files |-> hashes[f]]
    BY <2>1, TargetIs DEF Course, Databases
  <2>3. QED  BY <2>2, TargetIs DEF Course
<1>4. Write(db) /\ pc' = "written"
  BY DEF InsertRows
<1> HIDE DEF db
<1>5. QED  BY <1>1, <1>2, <1>3, <1>4, WriteStep

\* It removes the database, and loads the whole graph.
LEMMA WipeStep ==
  ASSUME Course, Wipe
  PROVE  Course'
<1>1. Write(Empty) /\ pc' = "wiped"
  BY DEF Wipe, Write
<1>2. Writes
  BY DEF Writes, Wipe, After, Course, Types, WorldTypes, DiskTypes, WorkTypes, bounds
<1>3. QED  BY <1>1, <1>2, EmptyTypes, WriteStep

\* The full rebuild loads the whole graph into an empty database.
LEMMA LoadGraphStep ==
  ASSUME Course, LoadGraph
  PROVE  Course'
<1> DEFINE db == [Empty EXCEPT !.code = graph]
<1>1. db \in Databases /\ db.code = graph
  BY TargetIs, EmptyTypes DEF Course, Databases, Empty
<1>2. Trusted => hashes = graph
  BY DEF Course, Planned, Trusted, LoadGraph, After
<1>3. Write(db) /\ pc' = "written"
  BY DEF LoadGraph
<1>4. Writes
  BY DEF Writes, LoadGraph, After, Course, Types, WorldTypes, DiskTypes, WorkTypes, bounds
<1> HIDE DEF db
<1>5. QED  BY <1>1, <1>2, <1>3, <1>4, WriteStep

\* It brings back what it read of the vectors, and lists what to embed.
LEMMA RestoredIs ==
  ASSUME Types, NEW back \in SUBSET Files
  PROVE  /\ Restored(back) \in Databases /\ Restored(back).code = Target.code
         /\ Restored(back).half = (Target.half \ back) \cup (cache.half \cap back)
         /\ \A f \in Files :
              Restored(back).vec[f] = IF f \in back THEN cache.vec[f] ELSE Target.vec[f]
<1> DEFINE vec  == [f \in Files |-> IF f \in back THEN cache.vec[f] ELSE Target.vec[f]]
           half == (Target.half \ back) \cup (cache.half \cap back)
<1>1. cache.vec \in [Files -> Contents] /\ cache.half \in SUBSET Files
  BY DEF Types, RunTypes, Databases
<1>2. vec \in [Files -> Contents] /\ half \in SUBSET Files
  BY <1>1, TargetIs
<1>3. Restored(back) = [Target EXCEPT !.vec = vec, !.half = half]
  BY DEF Restored
<1>4. \A f \in Files : vec[f] = IF f \in back THEN cache.vec[f] ELSE Target.vec[f]
  OBVIOUS
<1> HIDE DEF vec, half
<1>5. /\ Restored(back) \in Databases /\ Restored(back).code = Target.code
      /\ Restored(back).vec = vec /\ Restored(back).half = half
  BY <1>2, <1>3, TargetIs DEF Databases
<1>6. QED  BY <1>4, <1>5 DEF half

\* What a restore brings back, all of it or a part.
LEMMA RestoreDoes ==
  ASSUME Course, Restore
  PROVE  /\ pc = "written" /\ pc' \in {"embedded", "embedding"}
         /\ todo' \in SUBSET Files /\ unrestored' \in SUBSET ToRestore
         /\ ToRestore \in SUBSET Files /\ mishaps' \in 0 .. MaxMishaps
         /\ Write(Restored(ToRestore \ unrestored'))
         /\ UNCHANGED <<world, platform, meta, spoiled, intent, plan, wiped, failed, flagged>>
<1>1. todo' \in SUBSET Files /\ ToRestore \in SUBSET Files
  BY DEF Restore, Stale, Present, ToRestore
<1>2. unrestored' \in SUBSET ToRestore
  BY DEF Restore
<1>3. mishaps' \in 0 .. MaxMishaps
  BY ConstantsAssumption DEF Restore, PassedOver, Course, Types, WorldTypes
<1>4. QED  BY <1>1, <1>2, <1>3 DEF Restore

\* Restoring cached vectors touches no code row.
LEMMA RestoreStep ==
  ASSUME Course, Restore
  PROVE  Course'
<1> DEFINE back == ToRestore \ unrestored'
<1>1. back \in SUBSET Files /\ unrestored' \in SUBSET Files
  BY RestoreDoes
<1>2. Writes
  BY <1>1, RestoreDoes DEF Writes, After, Course, Types, DiskTypes, WorkTypes
<1>3. Restored(back) \in Databases /\ (Trusted => Restored(back).code = hashes)
  BY <1>1, RestoredIs, RestoreDoes DEF Course, CodeWritten
<1> HIDE DEF back
<1>4. Write(Restored(back))
  BY RestoreDoes DEF back
<1>5. QED  BY <1>2, <1>3, <1>4, RestoreDoes, WriteStep

\* A window of embedding changes no row, and no word of how fresh the index is.
LEMMA CheckpointedIs ==
  ASSUME NEW m \in Metas, NEW pending \in SUBSET Files, NEW e \in BOOLEAN
  PROVE  LET c == Checkpointed(m, pending)
             d == [c EXCEPT !.embedded = e]
         IN  /\ c \in Metas /\ c.dirty = m.dirty /\ c.hashes = m.hashes /\ c.exists = m.exists
             /\ c.embedded = m.embedded /\ c.marker.pending = pending
             /\ d \in Metas /\ d.dirty = m.dirty /\ d.hashes = m.hashes /\ d.exists = m.exists
<1> DEFINE k == [kind |-> "interrupted", pending |-> pending, attempts |-> 0]
           c == Checkpointed(m, pending)
           d == [c EXCEPT !.embedded = e]
<1>1. k \in Markers /\ k.pending = pending
  BY ConstantsAssumption DEF Markers
<1>2. c = [m EXCEPT !.marker = k]
  BY DEF Checkpointed
<1> HIDE DEF k, c
<1>3. /\ c \in Metas /\ c.dirty = m.dirty /\ c.hashes = m.hashes /\ c.exists = m.exists
      /\ c.embedded = m.embedded /\ c.marker = k
  BY <1>1, <1>2 DEF Metas
<1>4. d \in Metas /\ d.dirty = m.dirty /\ d.hashes = m.hashes /\ d.exists = m.exists
  BY <1>3 DEF Metas
<1> HIDE DEF d
<1>5. QED  BY <1>1, <1>3, <1>4 DEF c, d

\* An embedding window writes the first chunks of one file.
LEMMA OpenWindowStep ==
  ASSUME Course, NEW f \in Files, OpenWindow(f)
  PROVE  Course' /\ Target' = [Target EXCEPT !.vec[f] = graph[f], !.half = @ \cup {f}]
<1> DEFINE db == [Target EXCEPT !.vec[f] = graph[f], !.half = @ \cup {f}]
<1>1. db \in Databases /\ db.code = Target.code
  <2>1. [Target.vec EXCEPT ![f] = graph[f]] \in [Files -> Contents] /\ Target.half \cup {f} \in SUBSET Files
    BY TargetIs DEF Course
  <2>2. QED  BY <2>1, TargetIs DEF Course, Databases
<1>2. meta' = Checkpointed(meta, {f}) /\ meta \in Metas /\ {f} \in SUBSET Files
  BY DEF OpenWindow, Course, Types, DiskTypes
<1>3. meta' \in Metas /\ meta'.dirty = meta.dirty /\ meta'.hashes = meta.hashes
      /\ meta'.exists = meta.exists
  BY <1>2, CheckpointedIs
<1>4. Writes
  BY <1>3 DEF Writes, OpenWindow, After, Course, Types, WorldTypes, DiskTypes, WorkTypes, bounds
<1>5. Trusted => Target.code = hashes
  BY DEF Course, CodeWritten, Trusted, OpenWindow
<1>6. Write(db) /\ pc' = "window"
  BY DEF OpenWindow
<1> HIDE DEF db
<1>7. Course' /\ Target' = db
  BY <1>1, <1>4, <1>5, <1>6, WriteStep
<1>8. QED  BY <1>7 DEF db

\* What closing a window changes.
LEMMA CloseWindowDoes ==
  ASSUME Course, NEW ok \in BOOLEAN, NEW f \in InWindow,
         pc = "window", pc' = IF todo = {} THEN "embedded" ELSE "embedding",
         IF staged THEN build' = Embedded(f, ok) /\ UNCHANGED live
                   ELSE live' = Whole(Embedded(f, ok)) /\ UNCHANGED build,
         meta' = [Checkpointed(meta, {}) EXCEPT !.embedded = Counted(Embedded(f, ok))],
         failed' = IF ok THEN failed ELSE failed \cup {f},
         UNCHANGED <<world, platform, spoiled, intent, plan, todo, wiped, unrestored, bounds>>
  PROVE  /\ Writes /\ Write(Embedded(f, ok)) /\ pc' \in {"embedded", "embedding"}
         /\ meta'.embedded = Counted(Embedded(f, ok))
<1>1. f \in Files
  BY EmbeddedIs DEF Course
<1>2. meta \in Metas /\ {} \in SUBSET Files /\ Counted(Embedded(f, ok)) \in BOOLEAN
  BY DEF Course, Types, DiskTypes, Counted
<1>3. Checkpointed(meta, {}) \in Metas
      /\ meta' \in Metas /\ meta'.dirty = meta.dirty /\ meta'.hashes = meta.hashes
      /\ meta'.exists = meta.exists
  BY <1>2, CheckpointedIs
<1>4. meta'.embedded = Counted(Embedded(f, ok))
  BY <1>2, <1>3 DEF Metas
<1>5. failed' \in SUBSET Files /\ pc' \in {"embedded", "embedding"}
  BY <1>1 DEF Course, Types, WorkTypes
<1>6. Writes
  BY <1>3, <1>5 DEF Writes, After, Course, Types, WorldTypes, DiskTypes, WorkTypes, bounds
<1>7. QED  BY <1>4, <1>5, <1>6 DEF Write

\* ... and completes its file or takes its vectors out again.
LEMMA CloseWindowStep ==
  ASSUME Course, NEW ok \in BOOLEAN, CloseWindow(ok)
  PROVE  Course'
<1>1. PICK f \in InWindow :
        /\ IF staged THEN build' = Embedded(f, ok) /\ UNCHANGED live
                     ELSE live' = Whole(Embedded(f, ok)) /\ UNCHANGED build
        /\ meta' = [Checkpointed(meta, {}) EXCEPT !.embedded = Counted(Embedded(f, ok))]
        /\ failed' = IF ok THEN failed ELSE failed \cup {f}
  BY DEF CloseWindow
<1>2. /\ pc = "window" /\ pc' = IF todo = {} THEN "embedded" ELSE "embedding"
      /\ UNCHANGED <<world, platform, spoiled, intent, plan, todo, wiped, unrestored, bounds>>
  BY DEF CloseWindow
<1>3. /\ Writes /\ Write(Embedded(f, ok)) /\ pc' \in {"embedded", "embedding"}
  BY <1>1, <1>2, CloseWindowDoes
<1>4. Embedded(f, ok) \in Databases /\ Embedded(f, ok).code = Target.code
  BY EmbeddedIs DEF Course
<1>5. Trusted => Target.code = hashes
  BY <1>2 DEF Course, CodeWritten
<1>6. QED  BY <1>3, <1>4, <1>5, WriteStep

\* It closes the database, or puts the one it built in the place of the old one.
LEMMA FinalizeStep ==
  ASSUME Course, Finalize
  PROVE  Course'
<1>1. /\ pc = "embedded" /\ pc' = "closing" /\ todo' = todo /\ wiped' = wiped /\ failed' = failed
      /\ meta' = meta /\ live' = live /\ build' = build
      /\ UNCHANGED <<world, platform, disk, intent, plan, work, bounds>>
  BY DEF Finalize, disk, work
<1>2. Continues
  BY <1>1
     DEF Continues, After, Course, Types, WorldTypes, DiskTypes, RunTypes, PlanTypes, WorkTypes,
         world, disk, intent, plan, work, bounds
<1>3. Types' /\ BaseRead' /\ Truthful' /\ (Honest => hashes = graph)'
  BY <1>1, <1>2, GoesOn DEF Course, Types, DiskTypes, WorkTypes
<1>4. FileSound' /\ FirstRun'
  BY <1>1 DEF Course, FileSound, FirstRun, Before, disk, intent, plan
<1>5. Planned' /\ CodeWritten'
  BY <1>1, <1>3 DEF Course, Planned, CodeWritten, Trusted, Target, disk, plan
<1>6. QED  BY <1>3, <1>4, <1>5 DEF Course

\* Closing, swapping and moving the sidecars publish what was built; where the move
\* fails the database is spoiled.
LEMMA PublishStep ==
  ASSUME Course, Close \/ Swap \/ MoveSidecars \/ MoveSidecarsFails
  PROVE  /\ Course'
         /\ Close => live'.rows = Target
         /\ MoveSidecars => live'.rows = build
<1>1. /\ pc \in {"closing", "swapped"} /\ pc' \in {"swapped", "published"}
      /\ UNCHANGED <<world, platform, meta, intent, plan, work, flagged>>
  BY DEF Close, Swap, MoveSidecars, MoveSidecarsFails, bounds
<1>2. Close \/ Swap => spoiled' = spoiled
  BY DEF Close, Swap
<1>3. spoiled' \in BOOLEAN /\ mishaps' \in 0 .. MaxMishaps
  <2>1. mishaps' \in {mishaps, mishaps + 1} /\ (mishaps' # mishaps => mishaps < MaxMishaps)
    BY DEF Close, Swap, MoveSidecars, MoveSidecarsFails, PassedOver, bounds
  <2>2. mishaps' \in 0 .. MaxMishaps
    BY <2>1, ConstantsAssumption DEF Course, Types, WorldTypes
  <2>3. spoiled' \in BOOLEAN
    BY <1>2 DEF MoveSidecars, MoveSidecarsFails, Course, Types, DiskTypes
  <2>4. QED  BY <2>2, <2>3
<1>4. Continues
  BY <1>1, <1>3
     DEF Continues, After, Course, Types, DiskTypes, RunTypes, PlanTypes, WorkTypes,
         world, intent, plan, work
<1>5. /\ live.main \in Databases /\ live.rows \in Databases /\ build \in Databases
      /\ live.wal \in {"none", "own", "foreign"} /\ Empty \in Databases /\ live \in LiveFiles
      /\ live.wal = "none" => live.main = live.rows
  BY EmptyTypes DEF Course, Types, DiskTypes, WorkTypes, LiveFiles, FileSound
<1>6. live' \in LiveFiles /\ (live'.wal = "none" => live'.main = live'.rows)
  <2>1. CASE Close
    BY <2>1, <1>5 DEF Close, LiveFiles, Whole
  <2>2. CASE Swap
    BY <2>2, <1>5 DEF Swap, LiveFiles, Whole
  <2>3. CASE MoveSidecars
    BY <2>3, <1>5 DEF MoveSidecars, LiveFiles, Whole, Logged
  <2>4. CASE MoveSidecarsFails
    BY <2>4, <1>5 DEF MoveSidecarsFails, LiveFiles, Whole
  <2>5. QED  BY <2>1, <2>2, <2>3, <2>4
<1>7. Types' /\ BaseRead' /\ Truthful' /\ (Honest => hashes = graph)' /\ meta'.exists
  BY <1>1, <1>4, <1>5, <1>6, GoesOn DEF Course, Types, work
<1>8. base.exists => meta.dirty
  BY <1>1 DEF Course, BaseRead, After
<1>9. ~base.exists /\ staged => live.wal = "none"
  BY <1>1 DEF Course, FirstRun
<1>10. live'.wal = "foreign" /\ ~spoiled' => meta' = meta /\ meta.dirty /\ pc' = "swapped"
  <2>1. CASE Close
    <3>1. live.wal # "foreign" \/ live' # live \/ spoiled'
      BY <2>1 DEF Close, Course, FileSound
    <3>2. QED  BY <2>1, <3>1 DEF Close, Whole
  <2>2. CASE Swap
    BY <2>2, <1>1, <1>8, <1>9 DEF Swap, Whole
  <2>3. CASE MoveSidecars
    BY <2>3 DEF MoveSidecars, Whole, Logged
  <2>4. CASE MoveSidecarsFails
    BY <2>4 DEF MoveSidecarsFails
  <2>5. QED  BY <2>1, <2>2, <2>3, <2>4
<1>11. /\ pc' = "swapped" => live'.main \in {build, Empty} /\ live'.rows \in {build, Empty}
       /\ pc' = "published" => live'.rows \in {Target', Empty}
  <2>1. staged' = staged /\ build' = build
    BY <1>1 DEF plan, work
  <2>2. CASE Close
    BY <2>1, <2>2 DEF Close, Whole, Target
  <2>3. CASE Swap
    BY <2>3 DEF Swap, Whole
  <2>4. pc = "swapped" => /\ staged /\ live.main \in {build, Empty}
                          /\ live.rows \in {build, Empty}
    BY DEF Course, Planned, FileSound
  <2>5. CASE MoveSidecars \/ MoveSidecarsFails
    BY <2>1, <2>4, <2>5 DEF MoveSidecars, MoveSidecarsFails, Whole, Logged, Target
  <2>6. QED  BY <2>2, <2>3, <2>5
<1>12. FileSound'
  BY <1>1, <1>6, <1>10, <1>11 DEF FileSound, work
<1>13. FirstRun'
  <2>1. ~base.exists /\ pc' # "published" => staged /\ live'.wal = "none"
    BY <1>9 DEF Close, Swap, MoveSidecars, MoveSidecarsFails, Whole
  <2>2. QED  BY <1>1, <1>7, <2>1 DEF Course, FirstRun, Before, intent, plan
<1>14. Planned'
  <2>1. (pc = "swapped" => staged)'
    BY <1>1 DEF Close, Swap, MoveSidecars, MoveSidecarsFails, plan
  <2>2. QED  BY <1>1, <1>7, <2>1 DEF Planned
<1>15. /\ Close => live'.rows = Target
       /\ MoveSidecars => live'.rows = build
  BY DEF Close, MoveSidecars, Whole, Logged, Target
<1>16. CodeWritten'
  <2>1. hashes' = hashes /\ staged' = staged /\ surgical' = surgical /\ build' = build
    BY <1>1 DEF plan, work
  <2>2. CASE Close
    BY <2>1, <2>2, <1>2, <1>15 DEF Close, Course, CodeWritten, Trusted
  <2>3. CASE Swap
    BY <2>1, <2>3, <1>2 DEF Swap, Course, CodeWritten, Trusted, Target
  <2>4. CASE MoveSidecars
    BY <2>1, <2>4, <1>15 DEF MoveSidecars, Course, CodeWritten, Trusted
  <2>5. CASE MoveSidecarsFails
    BY <2>5 DEF MoveSidecarsFails, CodeWritten
  <2>6. QED  BY <2>2, <2>3, <2>4, <2>5
<1>17. QED  BY <1>7, <1>12, <1>13, <1>14, <1>15, <1>16 DEF Course

\* The marker a run leaves counts its attempts, and stays in its budget.
LEMMA StampIs ==
  ASSUME Types, BaseRead
  PROVE  /\ Stamp \in Metas /\ Stamp.exists /\ Stamp.hashes = hashes /\ Stamp.dirty = FALSE
         /\ Stamp.embedded = Counted(Target)
<1>1. resume.attempts \in 0 .. MaxAttempts /\ MaxAttempts \in Nat /\ failed \in SUBSET Files
  BY ConstantsAssumption DEF Types, RunTypes, WorkTypes, Markers
<1>2. resume.kind = "partial" => resume.attempts + 1 \in 0 .. MaxAttempts
  BY <1>1 DEF BaseRead
<1>3. (IF resume.kind = "partial" /\ failed \cap resume.pending # {}
       THEN resume.attempts + 1 ELSE 0) \in 0 .. MaxAttempts
  BY <1>1, <1>2
<1>4. FinalMarker \in Markers
  BY <1>1, <1>3, EmptyTypes DEF FinalMarker, Markers
<1>5. Counted(Target) \in BOOLEAN /\ commit \in 0 .. MaxCommits /\ hashes \in [Files -> Contents]
  BY DEF Counted, Types, RunTypes, PlanTypes
<1>6. Stamp \in Metas
  BY <1>4, <1>5 DEF Stamp, Metas
<1>7. QED  BY <1>6 DEF Stamp

\* Saving clean metadata describes the database that was published.
LEMMA SaveStep ==
  ASSUME Course, SaveMeta
  PROVE  Course'
<1>1. /\ pc = "published" /\ meta' = Stamp /\ Idle'
      /\ UNCHANGED <<tree, head, moves, platform, live, spoiled, mishaps, flagged>>
  BY DEF SaveMeta, NoRun, Idle, world, bounds
<1>2. WorldTypes' /\ DiskTypes'
  BY <1>1, StampIs DEF Course, Types, WorldTypes, DiskTypes
<1>3. ~spoiled => live.wal # "foreign" /\ (Honest => live.rows.code = hashes)
  BY <1>1 DEF Course, FileSound, CodeWritten, Trusted
<1>4. Truthful'
  BY <1>1, <1>3, StampIs DEF Course, Truthful, CleanIsTrue, IndexAsRecorded, Clean
<1>5. /\ (live.wal = "none" => live.main = live.rows)'
      /\ (live.wal = "foreign" /\ ~spoiled => meta.dirty)'
      /\ (~meta.exists => meta = NoMeta /\ live = Whole(Empty))'
  BY <1>1, <1>3, StampIs DEF Course, FileSound
<1>6. Idle'
  BY <1>1
<1>7. QED  BY <1>2, <1>4, <1>5, <1>6, IdleCourse, PTL

\* Nothing happens.
LEMMA CourseStutter == ASSUME Course, UNCHANGED vars PROVE Course'
<1> USE DEF vars, world, disk, intent, plan, work, bounds
<1>1. Types'
  BY DEF Course, Types, WorldTypes, DiskTypes, RunTypes, PlanTypes, WorkTypes
<1>2. FileSound' /\ FirstRun' /\ BaseRead'
  BY DEF Course, FileSound, FirstRun, BaseRead, Target
<1>3. Planned' /\ CodeWritten' /\ Truthful'
  BY DEF Course, Planned, CodeWritten, Trusted, Truthful, CleanIsTrue, IndexAsRecorded, Clean, Target
<1>4. QED  BY <1>1, <1>2, <1>3 DEF Course

\* Every step of the specification.
LEMMA CourseStep ==
  Course /\ [Next]_vars => Course'
<1> SUFFICES ASSUME Course, [Next]_vars PROVE Course'
  OBVIOUS
<1>1. CASE (\E f \in Files, v \in Contents : Edit(f, v)) \/ (\E c \in Commits : MoveHead(c))
  BY <1>1, TreeStep
<1>2. CASE \E o \in Options : Start(o)
  BY <1>2, StartStep
<1>3. CASE RunStep
  <2>1. CASE \E f \in Files : OpenWindow(f)
    BY <2>1, OpenWindowStep
  <2>2. CASE CloseWindow(TRUE)
    BY <2>2, CloseWindowStep
  <2>3. CASE Examine \/ LoadCache \/ Parse \/ HashAndPlan \/ MarkDirty
    BY <2>3, ExamineStep, LoadStep, ParseStep, PlanStep, MarkStep
  <2>4. CASE DeleteRows \/ InsertRows \/ Wipe \/ LoadGraph \/ Restore
    BY <2>4, DeleteStep, InsertStep, WipeStep, LoadGraphStep, RestoreStep
  <2>5. CASE \/ UpToDate \/ Finalize \/ GateThrows
             \/ Close \/ Swap \/ MoveSidecars \/ SaveMeta
    BY <2>5, EndStep, FinalizeStep, PublishStep, SaveStep
  <2>6. QED  BY <1>3, <2>1, <2>2, <2>3, <2>4, <2>5 DEF RunStep
<1>4. CASE Escalate \/ CloseWindow(FALSE) \/ GiveUp \/ MoveSidecarsFails \/ Abort
  BY <1>4, EscalateStep, CloseWindowStep, GiveUpStep, PublishStep, EndStep
<1>5. CASE UNCHANGED vars
  BY <1>5, CourseStutter
<1>6. QED  BY <1>1, <1>2, <1>3, <1>4, <1>5 DEF Next

\* Wherever runs die, the disk is in order, and while the tree does not move between
\* the parse and the hashes it holds what the metadata says.
THEOREM CourseKept == Spec => []Course
<1>1. Init => Course
  BY CourseInit
<1>2. Course /\ [Next]_vars => Course'
  BY CourseStep
<1>3. QED  BY <1>1, <1>2, PTL DEF Spec

\* No run opens a log that belongs to a replaced file, unless that log could not be
\* removed, or one of a run that died, however the tree moves (run-analyze.ts:1568,
\* :4534).
THEOREM NoPoisonedOpen == Spec => [](TypeOK /\ PoisonNeverOpened)
<1>1. Course => TypeOK
  BY TypesAre DEF Course
<1>2. Course => PoisonNeverOpened
  BY DEF Course, FileSound, BaseRead, PoisonNeverOpened
<1>3. QED  BY <1>1, <1>2, CourseKept, PTL

\* Metadata without the dirty flag is true, whatever run died where, while the tree
\* does not move between the parse and the hashes (run-analyze.ts:2547, :3877, :4556);
\* of a database that was published without its log, or beside the log of the file it
\* replaced, it is not.
THEOREM IndexIsWhatItSays ==
  ASSUME "edit" \notin Faults PROVE Spec => []Inv
<1>1. Course => Inv
  BY TypesAre DEF Course, FileSound, BaseRead, PoisonNeverOpened, Inv, Truthful, Honest
<1>2. QED  BY <1>1, CourseKept, PTL

-----------------------------------------------------------------------------
\* The vectors of whole files in a database, none.
Bare(db) == \A f \in Files \ db.half : db.vec[f] = 0

\* What EmbeddingsKept speaks of: the runs, and the files.
Vows == opt # "drop" /\ (base.dirty => base.embedded) /\ (CacheWanted => loaded)
Kept == {f \in Present(graph) \ (cache.half \cup unrestored) :
           cache.vec[f] = graph[f] /\ f \notin resume.pending}

\* Metadata that is not dirty and counts no vectors tells the truth; until the first
\* run swaps there is nothing in the old file.
Counting ==
  /\ ~meta.dirty /\ ~meta.embedded => Bare(live.rows) /\ (pc \in After => Bare(Target))
  /\ ~base.exists /\ staged /\ pc \in After \ {"swapped", "published"} => Bare(live.rows)

\* What was read of the old vectors is there until it is removed, and whoever took
\* nothing along had nothing to take.
Loading ==
  /\ pc \in {"cached", "parsed", "planned", "marked"} => cache = live.rows
  /\ pc = "marked" /\ surgical => Target = cache
  /\ pc = "wiped" => wiped = Files
  /\ pc \in {"deleted", "written"} => \A f \in Files \ wiped : Target.vec[f] = cache.vec[f]
  /\ pc \in {"cached", "parsed", "planned"} \cup After =>
       /\ loaded => base.exists
       /\ Vows /\ ~loaded => Bare(cache)

\* The files to keep have their vectors again, and are not embedded anew.
Keeping ==
  /\ Vows /\ pc \in {"embedding", "window", "embedded", "closing"} =>
       \A f \in Kept : Target.vec[f] = graph[f] /\ f \notin todo
  /\ Vows /\ pc = "window" => meta.marker.pending \cap Kept = {}
  /\ Vows /\ pc = "swapped" => \A f \in Kept : build.vec[f] = graph[f]
  /\ Vows /\ pc = "published" /\ ~spoiled => \A f \in Kept : live.rows.vec[f] = graph[f]

Vectors == Counting /\ Loading /\ Keeping
\* Without a run there is only what the metadata counts.
LEMMA IdleVectors ==
  pc = "idle" /\ (~meta.dirty /\ ~meta.embedded => Bare(live.rows)) => Vectors
<1>1. QED  BY DEF Vectors, Counting, Loading, Keeping, After

\* An empty database has no vectors, and removing rows adds none.
LEMMA BareFacts ==
  /\ Bare(Empty)
  /\ \A db \in Databases, gone \in SUBSET Files : Bare(db) => Bare(Without(db, gone))
  /\ \A db \in Databases : ~Counted(db) => Bare(db)
<1>1. Bare(Empty)
  BY DEF Bare, Empty, Nothing
<1>2. \A db \in Databases, gone \in SUBSET Files : Bare(db) => Bare(Without(db, gone))
  BY DEF Bare, Without, Databases
<1>3. \A db \in Databases : ~Counted(db) => Bare(db)
  BY DEF Bare, Counted
<1>4. QED  BY <1>1, <1>2, <1>3

\* The steps up to the dirty flag.
LEMMA BeforeVectors ==
  ASSUME Course, Vectors,
         \/ \E f \in Files, v \in Contents : Edit(f, v)
         \/ \E c \in Commits : MoveHead(c)
         \/ \E o \in Options : Start(o)
         \/ Examine \/ UpToDate \/ Abort \/ GateThrows \/ GiveUp
  PROVE  Vectors'
<1>1. CASE (\E f \in Files, v \in Contents : Edit(f, v)) \/ (\E c \in Commits : MoveHead(c))
  <2>1. UNCHANGED <<live, meta, spoiled, pc, opt, base, force, resume, cache, loaded,
                    graph, surgical, staged, build, todo, wiped, unrestored>>
    BY <1>1 DEF Edit, MoveHead, disk, intent, plan, work
  <2>2. Counting'
    BY <2>1 DEF Vectors, Counting, Bare, Target
  <2>3. Vows' = Vows /\ Kept' = Kept
    BY <2>1 DEF Vows, Kept, Present, CacheWanted, ShouldLoadCache, ShouldGenerate
  <2>4. Loading' /\ Keeping'
    BY <2>1, <2>3 DEF Vectors, Loading, Keeping, Bare, Target
  <2>5. QED  BY <2>2, <2>4 DEF Vectors
<1>2. CASE \E o \in Options : Start(o)
  <2>1. pc' = "begun" /\ live' = live /\ meta' = [meta EXCEPT !.exists = TRUE]
    BY <1>2 DEF Start
  <2>2. meta'.dirty = meta.dirty /\ meta'.embedded = meta.embedded
    BY <2>1 DEF Course, Types, DiskTypes, Metas
  <2>3. QED  BY <2>1, <2>2 DEF Vectors, Counting, Loading, Keeping, After, Bare
<1>3. CASE Examine
  <2>1. /\ pc = "begun" /\ pc' = "examined" /\ meta' = meta /\ base' = base
        /\ live' = IF base.dirty THEN Parked(live) ELSE live
    BY <1>3 DEF Examine
  <2>2. meta.dirty = base.dirty
    BY <2>1 DEF Course, BaseRead, Before, Types, RunTypes, Metas
  <2>3. ~meta'.dirty => live' = live
    BY <2>1, <2>2
  <2>4. QED  BY <2>1, <2>3 DEF Vectors, Counting, Loading, Keeping, After, Bare
<1>4. CASE UpToDate \/ Abort \/ GateThrows
  <2>1. pc' = "idle" /\ live' = live /\ meta' = meta
    BY <1>4 DEF UpToDate, Abort, GateThrows, NoRun, disk
  <2>2. (~meta.dirty /\ ~meta.embedded => Bare(live.rows))'
    BY <2>1 DEF Vectors, Counting, Bare
  <2>3. (pc = "idle")'
    BY <2>1
  <2>4. QED  BY <2>2, <2>3, IdleVectors, PTL
<1>5. CASE GiveUp
  <2>1. PICK db \in Databases : /\ live' = live \/ live'.rows = db
                                /\ Bare(Target) => Bare(db)
    <3>1. PICK f \in InWindow, ok \in {FALSE} :
            live' \in {live, Whole(Embedded(f, ok)), Logged(live.main, Embedded(f, ok))}
      BY <1>5 DEF GiveUp
    <3>2. Embedded(f, ok) \in Databases /\ (Bare(Target) => Bare(Embedded(f, ok)))
      BY EmbeddedIs DEF Course, Bare
    <3>3. \A db : Whole(db).rows = db /\ Logged(live.main, db).rows = db
      BY DEF Whole, Logged
    <3>4. QED  BY <3>1, <3>2, <3>3
  <2>2. pc = "window" /\ pc' = "idle" /\ meta' = meta
    BY <1>5 DEF GiveUp, NoRun
  <2>3. ~meta.dirty /\ ~meta.embedded => Bare(live.rows) /\ Bare(Target)
    BY <2>2 DEF Vectors, Counting, After
  <2>4. ~meta.dirty /\ ~meta.embedded => Bare(live'.rows)
    BY <2>1, <2>3
  <2>5. (~meta.dirty /\ ~meta.embedded => Bare(live.rows))'
    BY <2>2, <2>4 DEF Bare
  <2>6. (pc = "idle")'
    BY <2>2
  <2>7. QED  BY <2>5, <2>6, IdleVectors, PTL
<1>6. QED  BY <1>1, <1>2, <1>3, <1>4, <1>5

\* A run that takes no vectors along, and was not asked to drop them, finds none.
LEMMA LoadVectors ==
  ASSUME Course, Vectors, LoadCache
  PROVE  Vectors'
<1>1. /\ pc = "examined" /\ pc' = "cached"
      /\ loaded' \in {CacheWanted, FALSE} /\ cache' = live.rows
      /\ UNCHANGED <<live, meta, opt, base, force, resume, graph>>
  BY DEF LoadCache, disk, plan
<1>2. Counting'
  BY <1>1 DEF Vectors, Counting, Bare, After
<1>3. CacheWanted' = CacheWanted /\ (CacheWanted => base.exists)
      /\ (opt # "drop" /\ base.exists /\ base.embedded => CacheWanted)
  BY <1>1 DEF CacheWanted, ShouldLoadCache, ShouldGenerate
<1>4. Vows' /\ ~loaded' => Bare(live.rows)
  <2>1. CASE base.exists
    <3>1. meta.dirty = base.dirty /\ meta.embedded = base.embedded
      BY <1>1 DEF Course, BaseRead, Before, Types, RunTypes, Metas
    <3>2. Vows' /\ ~loaded' => ~base.embedded /\ ~base.dirty
      BY <1>1, <1>3, <2>1 DEF Vows
    <3>3. QED  BY <3>1, <3>2 DEF Vectors, Counting
  <2>2. CASE ~base.exists
    <3>1. live = Whole(Empty)
      BY <1>1, <2>2 DEF Course, FirstRun, Before
    <3>2. QED  BY <3>1, BareFacts DEF Whole
  <2>3. QED  BY <2>1, <2>2
<1>5. Loading'
  <2>1. (Vows /\ ~loaded => Bare(cache))'
    BY <1>1, <1>4 DEF Bare
  <2>2. (loaded => base.exists)'
    BY <1>1, <1>3
  <2>3. QED  BY <1>1, <2>1, <2>2 DEF Loading, After
<1>6. Keeping'
  BY <1>1 DEF Keeping
<1>7. QED  BY <1>2, <1>5, <1>6 DEF Vectors

\* Up to the plan no vector is lost, and the cache is known to be filled.
LEMMA PlanVectors ==
  ASSUME Course, Vectors, Parse \/ HashAndPlan \/ MarkDirty \/ Escalate
  PROVE  Vectors'
<1>1. CASE Parse \/ HashAndPlan
  <2>1. /\ pc \in {"cached", "parsed"} /\ pc' \in {"parsed", "planned"}
        /\ UNCHANGED <<live, meta, opt, base, force, resume, cache, loaded>>
    BY <1>1 DEF Parse, HashAndPlan, disk, intent
  <2>2. Counting'
    BY <2>1 DEF Vectors, Counting, Bare, After
  <2>3. Vows' = Vows
    BY <2>1 DEF Vows, CacheWanted, ShouldLoadCache, ShouldGenerate
  <2>4. Loading' /\ Keeping'
    BY <2>1, <2>3 DEF Vectors, Loading, Keeping, Bare, After
  <2>5. QED  BY <2>2, <2>4 DEF Vectors
<1>2. CASE MarkDirty
  <2>1. /\ pc = "planned" /\ pc' = "marked"
        /\ meta' = IF base.exists THEN [base EXCEPT !.dirty = TRUE] ELSE meta
        /\ build' = IF surgical /\ staged THEN live.main ELSE Empty
        /\ UNCHANGED <<live, opt, base, force, resume, cache, loaded, surgical, staged>>
    BY <1>2 DEF MarkDirty, Marked, intent, plan
  <2>2. ~base.exists => live = Whole(Empty) /\ ~surgical
    BY <2>1 DEF Course, FirstRun, Before, Planned
  <2>3. base.exists => meta'.dirty
    BY <2>1 DEF Course, Types, RunTypes, Metas
  <2>4. Counting'
    <3>1. ~base.exists => (Bare(live.rows) /\ Bare(Target))'
      BY <2>1, <2>2, BareFacts DEF Bare, Target, Whole
    <3>2. QED  BY <2>1, <2>3, <3>1 DEF Counting
  <2>5. surgical /\ staged => live.main = live.rows
    BY <2>1 DEF Course, Planned, FileSound
  <2>6. Vows' = Vows
    BY <2>1 DEF Vows, CacheWanted, ShouldLoadCache, ShouldGenerate
  <2>7. Loading'
    BY <2>1, <2>5, <2>6 DEF Vectors, Loading, Target, Bare, After
  <2>8. Keeping'
    BY <2>1 DEF Keeping
  <2>9. QED  BY <2>4, <2>7, <2>8 DEF Vectors
<1>3. CASE Escalate
  <2>1. /\ pc = "marked" /\ pc' = pc /\ surgical /\ surgical' = FALSE
        /\ UNCHANGED <<live, meta, opt, base, force, resume, cache>> /\ (loaded => loaded')
    BY <1>3 DEF Escalate, disk, Course, Types, RunTypes
  <2>2. base.exists /\ meta.dirty
    BY <2>1 DEF Course, Planned, BaseRead, After
  <2>3. Counting'
    BY <2>1, <2>2 DEF Counting
  <2>4. Vows' /\ ~loaded' => Vows /\ ~loaded
    BY <2>1 DEF Vows, CacheWanted, ShouldLoadCache, ShouldGenerate
  <2>5. (Vows /\ ~loaded => Bare(cache))' /\ (loaded => base.exists)'
    <3>1. Vows /\ ~loaded => Bare(cache)
      BY <2>1 DEF Vectors, Loading, After
    <3>2. Vows' /\ ~loaded' => Bare(cache)
      BY <2>4, <3>1
    <3>3. QED  BY <2>1, <2>2, <3>2 DEF Bare
  <2>6. Loading' /\ Keeping'
    BY <2>1, <2>5 DEF Vectors, Loading, Keeping
  <2>7. QED  BY <2>3, <2>6 DEF Vectors
<1>4. QED  BY <1>1, <1>2, <1>3

\* The steps that write, by what they write.
LEMMA WriteVectors ==
  ASSUME Course, Vectors, Writes, NEW db \in Databases, Write(db),
         ~meta'.dirty /\ ~meta'.embedded => Bare(db),
         pc' = "wiped" => wiped' = Files,
         pc' \in {"deleted", "written"} => \A f \in Files \ wiped' : db.vec[f] = cache.vec[f],
         Vows /\ pc' \in {"embedding", "window", "embedded", "closing"} =>
           \A f \in Kept' : db.vec[f] = graph[f] /\ f \notin todo',
         Vows /\ pc' = "window" => meta'.marker.pending \cap Kept' = {}
  PROVE  Vectors'
<1>1. /\ opt' = opt /\ base' = base /\ force' = force
      /\ resume' = resume /\ cache' = cache /\ loaded' = loaded
      /\ graph' = graph /\ staged' = staged /\ surgical' = surgical
      /\ pc \in After \ {"swapped", "published"}
      /\ pc' \in After \ {"marked", "swapped", "published"}
      /\ meta'.dirty = meta.dirty
  BY DEF Writes, intent, plan
<1>2. Vows' = Vows
  BY <1>1 DEF Vows, CacheWanted, ShouldLoadCache, ShouldGenerate
<1>3. (IF staged THEN live' = live ELSE live'.rows = db) /\ Target' = db
  BY <1>1 DEF Write, Whole, Logged, Target
<1>4. ~meta.dirty => ~base.exists
  BY <1>1 DEF Course, BaseRead
<1>5. Counting'
  <2>1. ~base.exists /\ staged => Bare(live.rows)
    BY <1>1 DEF Vectors, Counting
  <2>2. ~meta'.dirty /\ ~meta'.embedded => Bare(live.rows)' /\ Bare(Target)'
    BY <1>1, <1>3, <1>4, <2>1 DEF Bare
  <2>3. (~base.exists /\ staged => Bare(live.rows))'
    BY <1>1, <1>3, <2>1 DEF Bare
  <2>4. QED  BY <2>2, <2>3 DEF Counting
<1>6. Loading'
  <2>1. (loaded => base.exists) /\ (Vows /\ ~loaded => Bare(cache))
    BY <1>1 DEF Vectors, Loading
  <2>2. (loaded => base.exists)' /\ (Vows /\ ~loaded => Bare(cache))'
    BY <1>1, <1>2, <2>1 DEF Bare
  <2>3. QED  BY <1>1, <1>3, <2>2 DEF Loading, After
<1>7. Keeping'
  BY <1>1, <1>2, <1>3 DEF Keeping, After
<1>8. QED  BY <1>5, <1>6, <1>7 DEF Vectors

\* It removes rows with their vectors, and writes rows without any.
LEMMA RowsVectors ==
  ASSUME Course, Vectors, DeleteRows \/ InsertRows \/ Wipe \/ LoadGraph
  PROVE  Vectors'
<1>1. /\ pc \in {"marked", "deleted", "wiped"} /\ pc' \in {"deleted", "wiped", "written"}
      /\ UNCHANGED <<world, platform, meta, intent, plan, bounds>> /\ wiped' \in SUBSET Files
      /\ todo' = todo /\ failed' = failed /\ unrestored' = unrestored
      /\ spoiled' \in {spoiled, FALSE} /\ (surgical \/ staged => spoiled' = spoiled)
  BY DEF DeleteRows, InsertRows, Wipe, LoadGraph, Differing, Present, Course, Types, WorkTypes
<1>2. Writes
  BY <1>1 DEF Writes, After, Course, Types, WorldTypes, DiskTypes, WorkTypes, bounds
<1>3. ~meta'.dirty /\ ~meta'.embedded => Bare(Target)
  BY <1>1 DEF Vectors, Counting, After
<1>4. Target \in Databases /\ Target.vec \in [Files -> Contents]
  BY TargetIs DEF Course
<1>5. CASE DeleteRows
  <2>1. PICK importers \in SUBSET (Present(hashes) \ Differing) :
          wiped' = Differing \cup importers /\ Write(Without(Target, wiped'))
    BY <1>5 DEF DeleteRows
  <2> DEFINE db == Without(Target, wiped')
  <2>2. db \in Databases
    BY <1>1, TargetIs, ConstantsAssumption DEF Course, Without, Databases, Contents
  <2>3. \A f \in Files \ wiped' : db.vec[f] = cache.vec[f]
    BY <1>5 DEF Vectors, Loading, Without, DeleteRows
  <2>4. ~meta'.dirty /\ ~meta'.embedded => Bare(db)
    BY <1>1, <1>3, <1>4, BareFacts
  <2>5. pc' = "deleted" /\ Write(db)
    BY <1>5, <2>1 DEF DeleteRows
  <2> HIDE DEF db
  <2>6. QED  BY <1>2, <2>2, <2>3, <2>4, <2>5, WriteVectors
<1>6. CASE InsertRows
  <2> DEFINE db == [Target EXCEPT !.code = [f \in Files |->
                      IF f \in wiped THEN graph[f] ELSE Target.code[f]]]
  <2>1. db \in Databases /\ db.vec = Target.vec /\ db.half = Target.half
    BY TargetIs DEF Course, Databases
  <2>2. wiped' = wiped /\ pc = "deleted" /\ pc' = "written" /\ Write(db)
    BY <1>6 DEF InsertRows
  <2>3. \A f \in Files \ wiped' : db.vec[f] = cache.vec[f]
    BY <2>1, <2>2 DEF Vectors, Loading
  <2>4. ~meta'.dirty /\ ~meta'.embedded => Bare(db)
    BY <1>3, <2>1 DEF Bare
  <2> HIDE DEF db
  <2>5. QED  BY <1>2, <2>1, <2>2, <2>3, <2>4, WriteVectors
<1>7. CASE Wipe
  <2>1. Write(Empty) /\ pc' = "wiped" /\ wiped' = Files
    BY <1>7 DEF Wipe, Write
  <2>2. QED  BY <1>2, <2>1, EmptyTypes, BareFacts, WriteVectors
<1>8. CASE LoadGraph
  <2> DEFINE db == [Empty EXCEPT !.code = graph]
  <2>1. db \in Databases /\ db.vec = Empty.vec /\ db.half = Empty.half
    BY TargetIs, EmptyTypes DEF Course, Databases, Empty
  <2>2. wiped' = Files /\ pc = "wiped" /\ pc' = "written" /\ Write(db)
    BY <1>8 DEF LoadGraph, Vectors, Loading
  <2>3. Bare(db)
    BY <2>1, BareFacts DEF Bare
  <2> HIDE DEF db
  <2>4. QED  BY <1>2, <2>1, <2>2, <2>3, WriteVectors
<1>9. QED  BY <1>5, <1>6, <1>7, <1>8

\* What it read comes back, and is not to be embedded anew.
LEMMA RestoreVectors ==
  ASSUME Course, Vectors, Restore
  PROVE  Vectors'
<1> DEFINE back == ToRestore \ unrestored'
           db   == Restored(back)
<1>1. /\ pc = "written" /\ pc' \in {"embedded", "embedding"}
      /\ unrestored' \in SUBSET Files /\ back \in SUBSET Files
      /\ Write(db) /\ meta' = meta /\ wiped' = wiped /\ graph' = graph /\ cache' = cache
      /\ resume' = resume
  BY RestoreDoes DEF intent, plan
<1>2. todo' = IF ShouldGenerate THEN Stale ELSE {}
  BY DEF Restore
<1>3. Writes
  BY <1>1, RestoreDoes DEF Writes, After, Course, Types, DiskTypes, WorkTypes
<1>4. /\ db \in Databases
      /\ db.half = (Target.half \ back) \cup (cache.half \cap back)
      /\ \A f \in Files : db.vec[f] = IF f \in back THEN cache.vec[f] ELSE Target.vec[f]
  BY <1>1, RestoredIs DEF Course
<1>5. /\ \A f \in Files \ wiped : Target.vec[f] = cache.vec[f]
      /\ loaded => base.exists
      /\ Vows /\ ~loaded => Bare(cache)
  BY <1>1 DEF Vectors, Loading, After
<1>6. Vows => \A f \in Kept' : db.vec[f] = graph[f] /\ f \notin todo'
  <2> SUFFICES ASSUME Vows, NEW f \in Kept'
               PROVE  db.vec[f] = graph[f] /\ f \notin todo'
    OBVIOUS
  <2>1. f \in Files /\ graph[f] # 0 /\ cache.vec[f] = graph[f] /\ f \notin cache.half
        /\ f \notin resume.pending /\ f \notin unrestored'
    BY <1>1 DEF Kept, Present
  <2>2. loaded
    BY <1>5, <2>1 DEF Bare
  <2>3. f \in back \/ f \notin wiped
    BY <2>1, <2>2 DEF ToRestore, Present
  <2>4. db.vec[f] = graph[f]
    BY <1>4, <1>5, <2>1, <2>3
  <2>5. QED  BY <1>2, <2>1, <2>2, <2>4 DEF Stale
<1>7. ~meta'.dirty /\ ~meta'.embedded => Bare(db)
  <2> SUFFICES ASSUME ~meta.dirty, ~meta.embedded PROVE Bare(db)
    BY <1>1
  <2>1. ~base.exists /\ Bare(Target)
    BY <1>1 DEF Course, BaseRead, Vectors, Counting, After
  <2>2. back = {}
    BY <1>5, <2>1 DEF ToRestore
  <2>3. QED  BY <1>4, <2>1, <2>2 DEF Bare
<1> HIDE DEF db
<1>8. QED  BY <1>1, <1>3, <1>4, <1>6, <1>7, WriteVectors

\* A window is open on files that were to be embedded only.
LEMMA OpenVectors ==
  ASSUME Course, Vectors, NEW g \in Files, OpenWindow(g)
  PROVE  Vectors'
<1> DEFINE db == [Target EXCEPT !.vec[g] = graph[g], !.half = @ \cup {g}]
<1>1. /\ pc = "embedding" /\ pc' = "window" /\ g \in todo /\ todo' = todo \ {g}
      /\ meta' = Checkpointed(meta, {g}) /\ Write(db)
      /\ UNCHANGED <<world, platform, spoiled, intent, plan, wiped, failed, unrestored, bounds>>
  BY DEF OpenWindow
<1>2. db \in Databases /\ db.half = Target.half \cup {g}
      /\ \A f \in Files : db.vec[f] = IF f = g THEN graph[f] ELSE Target.vec[f]
  <2>1. [Target.vec EXCEPT ![g] = graph[g]] \in [Files -> Contents] /\ Target.half \cup {g} \in SUBSET Files
    BY TargetIs DEF Course
  <2>2. db = [Target EXCEPT !.vec = [Target.vec EXCEPT ![g] = graph[g]], !.half = Target.half \cup {g}]
    OBVIOUS
  <2>3. QED  BY <2>1, <2>2, TargetIs DEF Course, Databases
<1>3. meta \in Metas /\ {g} \in SUBSET Files
  BY DEF Course, Types, DiskTypes
<1>4. /\ meta' \in Metas /\ meta'.dirty = meta.dirty /\ meta'.hashes = meta.hashes
      /\ meta'.exists = meta.exists /\ meta'.embedded = meta.embedded
      /\ meta'.marker.pending = {g}
  BY <1>1, <1>3, CheckpointedIs
<1>5. Writes
  BY <1>1, <1>4 DEF Writes, After, Course, Types, WorldTypes, DiskTypes, WorkTypes, bounds
<1>6. /\ Kept' = Kept
      /\ Vows => \A f \in Kept : Target.vec[f] = graph[f] /\ f \notin todo
  BY <1>1 DEF Vectors, Keeping, Kept, Present, intent, plan
<1>7. ~meta'.dirty /\ ~meta'.embedded => Bare(db)
  <2>1. ~meta'.dirty /\ ~meta'.embedded => Bare(Target)
    BY <1>1, <1>4 DEF Vectors, Counting, After
  <2>2. QED  BY <1>2, <2>1 DEF Bare
<1>8. Vows => meta'.marker.pending \cap Kept' = {}
  BY <1>1, <1>4, <1>6
<1>9. Vows => \A f \in Kept' : db.vec[f] = graph[f] /\ f \notin todo'
  BY <1>1, <1>2, <1>6 DEF Kept, Present
<1> HIDE DEF db
<1>10. QED  BY <1>1, <1>2, <1>5, <1>7, <1>8, <1>9, WriteVectors

\* A closed window gives its file its vectors, or notes it as pending.
LEMMA CloseVectors ==
  ASSUME Course, Vectors, NEW ok \in BOOLEAN, CloseWindow(ok)
  PROVE  Vectors'
<1>1. PICK g \in InWindow :
        /\ IF staged THEN build' = Embedded(g, ok) /\ UNCHANGED live
                     ELSE live' = Whole(Embedded(g, ok)) /\ UNCHANGED build
        /\ meta' = [Checkpointed(meta, {}) EXCEPT !.embedded = Counted(Embedded(g, ok))]
        /\ failed' = IF ok THEN failed ELSE failed \cup {g}
  BY DEF CloseWindow
<1>2. /\ pc = "window" /\ pc' = IF todo = {} THEN "embedded" ELSE "embedding"
      /\ UNCHANGED <<world, platform, spoiled, intent, plan, todo, wiped, unrestored, bounds>>
  BY DEF CloseWindow
<1>3. /\ Writes /\ Write(Embedded(g, ok)) /\ pc' \in {"embedded", "embedding"}
      /\ meta'.embedded = Counted(Embedded(g, ok))
  BY <1>1, <1>2, CloseWindowDoes
<1>4. /\ meta.marker.pending = {g} /\ Embedded(g, ok) \in Databases
      /\ \A f \in Files : f # g => Embedded(g, ok).vec[f] = Target.vec[f]
  BY EmbeddedIs DEF Course
<1>5. Kept' = Kept
  BY <1>2 DEF Kept, Present, intent, plan
<1>6. Vows => \A f \in Kept : Target.vec[f] = graph[f] /\ f \notin todo /\ f # g
  BY <1>2, <1>4 DEF Vectors, Keeping
<1>7. Vows => \A f \in Kept' : Embedded(g, ok).vec[f] = graph[f] /\ f \notin todo'
  BY <1>2, <1>4, <1>5, <1>6 DEF Kept, Present
<1>8. ~meta'.embedded => Bare(Embedded(g, ok))
  BY <1>3, <1>4, BareFacts
<1>9. QED  BY <1>3, <1>4, <1>7, <1>8, WriteVectors

\* What was built is published.
LEMMA PublishVectors ==
  ASSUME Course, Vectors, Finalize \/ Close \/ Swap \/ MoveSidecars \/ MoveSidecarsFails
  PROVE  Vectors'
<1>1. /\ pc \in {"embedded", "closing", "swapped"} /\ pc' \in {"closing", "swapped", "published"}
      /\ meta' = meta /\ build' = build /\ todo' = todo
      /\ opt' = opt /\ base' = base /\ force' = force
      /\ resume' = resume /\ cache' = cache /\ loaded' = loaded
      /\ graph' = graph /\ staged' = staged /\ unrestored' = unrestored
  BY DEF Finalize, Close, Swap, MoveSidecars, MoveSidecarsFails, disk, intent, plan, work
<1>2. Vows' = Vows /\ Kept' = Kept
  BY <1>1 DEF Vows, Kept, Present, CacheWanted, ShouldLoadCache, ShouldGenerate
<1>3. /\ ~meta.dirty => ~base.exists
      /\ (loaded => base.exists) /\ (Vows /\ ~loaded => Bare(cache))
      /\ ~meta.dirty /\ ~meta.embedded => Bare(live.rows) /\ Bare(Target)
  BY <1>1 DEF Course, BaseRead, Vectors, Loading, Counting, After
<1>4. Loading'
  <2>1. (loaded => base.exists)' /\ (Vows /\ ~loaded => Bare(cache))'
    BY <1>1, <1>2, <1>3 DEF Bare
  <2>2. QED  BY <1>1, <2>1 DEF Loading
<1>5. CASE Finalize
  <2>1. live' = live /\ pc = "embedded" /\ pc' = "closing"
    BY <1>5 DEF Finalize, disk
  <2>2. Counting'
    BY <1>1, <2>1 DEF Vectors, Counting, Target, Bare, After
  <2>3. Keeping'
    BY <1>1, <1>2, <2>1 DEF Vectors, Keeping, Target
  <2>4. QED  BY <1>4, <2>2, <2>3 DEF Vectors
<1>6. CASE Close
  <2>1. live'.rows = live.rows /\ ~staged /\ pc = "closing" /\ pc' = "published"
    BY <1>6 DEF Close, Whole
  <2>2. Counting'
    BY <1>1, <1>3, <2>1 DEF Counting, Target, Bare
  <2>3. Keeping'
    BY <1>1, <1>2, <2>1 DEF Vectors, Keeping, Target
  <2>4. QED  BY <1>4, <2>2, <2>3 DEF Vectors
<1>7. CASE Swap
  <2>1. staged /\ pc = "closing" /\ pc' = "swapped"
    BY <1>7 DEF Swap
  <2>2. ~base.exists => live'.rows \in {build, Empty}
    <3>1. ~base.exists => live.wal = "none"
      BY <2>1 DEF Course, FirstRun
    <3>2. QED  BY <1>7, <3>1 DEF Swap, Whole
  <2>3. ~meta.dirty /\ ~meta.embedded => Bare(build)
    BY <1>3, <2>1 DEF Target
  <2>4. Counting'
    <3>1. ~meta.dirty /\ ~meta.embedded => Bare(live'.rows)
      BY <1>3, <2>2, <2>3, BareFacts
    <3>2. (~meta.dirty /\ ~meta.embedded => Bare(live.rows) /\ Bare(Target))'
      BY <1>1, <2>1, <2>3, <3>1 DEF Bare, Target
    <3>3. QED  BY <2>1, <3>2 DEF Counting
  <2>5. Keeping'
    BY <1>1, <1>2, <2>1 DEF Vectors, Keeping, Target
  <2>6. QED  BY <1>4, <2>4, <2>5 DEF Vectors
<1>8. CASE MoveSidecars
  <2>1. live'.rows = build /\ pc = "swapped" /\ pc' = "published"
    BY <1>8, PublishStep DEF MoveSidecars
  <2>2. staged
    BY <2>1 DEF Course, Planned
  <2>3. ~meta.dirty /\ ~meta.embedded => Bare(build)
    BY <1>3, <2>2 DEF Target
  <2>4. (~meta.dirty /\ ~meta.embedded => Bare(live.rows) /\ Bare(Target))'
    BY <1>1, <2>1, <2>2, <2>3 DEF Bare, Target
  <2>5. Counting'
    BY <2>1, <2>4 DEF Counting
  <2>6. Keeping'
    BY <1>1, <1>2, <2>1 DEF Vectors, Keeping
  <2>7. QED  BY <1>4, <2>5, <2>6 DEF Vectors
<1>9. CASE MoveSidecarsFails
  <2>1. /\ pc = "swapped" /\ pc' = "published" /\ spoiled' = TRUE
        /\ live'.rows \in {live.rows, live.main}
    BY <1>9 DEF MoveSidecarsFails, Whole
  <2>2. staged /\ live.main \in {build, Empty} /\ live.rows \in {build, Empty}
    BY <2>1 DEF Course, Planned, FileSound
  <2>3. ~meta.dirty /\ ~meta.embedded => Bare(build)
    BY <1>3, <2>2 DEF Target
  <2>4. ~meta.dirty /\ ~meta.embedded => Bare(live'.rows)
    BY <2>1, <2>2, <2>3, BareFacts
  <2>5. (~meta.dirty /\ ~meta.embedded => Bare(live.rows) /\ Bare(Target))'
    BY <1>1, <2>1, <2>2, <2>3, <2>4 DEF Bare, Target
  <2>6. Counting'
    BY <2>1, <2>5 DEF Counting
  <2>7. Keeping'
    BY <2>1 DEF Keeping
  <2>8. QED  BY <1>4, <2>6, <2>7 DEF Vectors
<1>10. QED  BY <1>5, <1>6, <1>7, <1>8, <1>9

\* The saved count is that of the vectors on disk.
LEMMA SaveVectors ==
  ASSUME Course, Vectors, SaveMeta
  PROVE  Vectors'
<1>1. pc' = "idle" /\ meta' = Stamp /\ live' = live
  BY DEF SaveMeta, NoRun
<1>2. meta'.embedded = Counted(Target) /\ Target \in Databases
  BY <1>1, StampIs, TargetIs DEF Course
<1>3. live.rows \in {Target, Empty}
  BY DEF Course, FileSound, SaveMeta
<1>4. ~meta'.embedded => Bare(live.rows)
  BY <1>2, <1>3, BareFacts
<1>5. (~meta.dirty /\ ~meta.embedded => Bare(live.rows))'
  BY <1>1, <1>4 DEF Bare
<1>6. (pc = "idle")'
  BY <1>1
<1>7. QED  BY <1>5, <1>6, IdleVectors, PTL

\* Every step, and none.
LEMMA VectorsStep == Course /\ Vectors /\ [Next]_vars => Vectors'
<1> SUFFICES ASSUME Course, Vectors, [Next]_vars PROVE Vectors'
  OBVIOUS
<1>1. CASE \/ \E f \in Files, v \in Contents : Edit(f, v)
           \/ \E c \in Commits : MoveHead(c)
           \/ \E o \in Options : Start(o)
           \/ Abort \/ GiveUp
  BY <1>1, BeforeVectors
<1>2. CASE RunStep
  <2>1. CASE \E f \in Files : OpenWindow(f)
    BY <2>1, OpenVectors
  <2>2. CASE CloseWindow(TRUE)
    BY <2>2, CloseVectors
  <2>3. CASE Examine \/ UpToDate \/ GateThrows
    BY <2>3, BeforeVectors
  <2>4. CASE LoadCache \/ Parse \/ HashAndPlan \/ MarkDirty
    BY <2>4, LoadVectors, PlanVectors
  <2>5. CASE DeleteRows \/ InsertRows \/ Wipe \/ LoadGraph \/ Restore
    BY <2>5, RowsVectors, RestoreVectors
  <2>6. CASE Finalize \/ Close \/ Swap \/ MoveSidecars \/ SaveMeta
    BY <2>6, PublishVectors, SaveVectors
  <2>7. QED  BY <1>2, <2>1, <2>2, <2>3, <2>4, <2>5, <2>6 DEF RunStep
<1>3. CASE Escalate \/ CloseWindow(FALSE) \/ MoveSidecarsFails
  BY <1>3, PlanVectors, CloseVectors, PublishVectors
<1>4. CASE UNCHANGED vars
  <2>1. UNCHANGED <<live, meta, spoiled, pc, opt, base, force, resume, cache, loaded,
                    graph, surgical, staged, build, todo, wiped, unrestored>>
    BY <1>4 DEF vars, disk, intent, plan, work
  <2>2. Counting'
    BY <2>1 DEF Vectors, Counting, Bare, Target
  <2>3. Vows' = Vows /\ Kept' = Kept
    BY <2>1 DEF Vows, Kept, Present, CacheWanted, ShouldLoadCache, ShouldGenerate
  <2>4. Loading' /\ Keeping'
    BY <2>1, <2>3 DEF Vectors, Loading, Keeping, Bare, Target
  <2>5. QED  BY <2>2, <2>4 DEF Vectors
<1>5. QED  BY <1>1, <1>2, <1>3, <1>4 DEF Next

\* The vectors a run found are where it can still find them.
THEOREM VectorsKept == Spec => []Vectors
<1>1. Init => Vectors
  <2>1. Init => pc = "idle" /\ Bare(live.rows)
    BY BareFacts DEF Init, Whole
  <2>2. QED  BY <2>1, IdleVectors
<1>2. Course /\ Vectors /\ [Next]_vars => Vectors'
  BY VectorsStep
<1>3. QED  BY <1>1, <1>2, CourseKept, PTL DEF Spec

\* A run that was not asked to drop them keeps the vectors of every file that has not
\* changed, through wipes, swaps, escalations and recoveries, however the tree moves
\* (run-analyze.ts:2118), if it could read and insert them and publish their log.
THEOREM EmbeddingsAreKept == Spec => EmbeddingsKept
<1>1. Vectors /\ [Next]_vars =>
        [/\ pc = "published" /\ meta' = Stamp /\ opt # "drop" /\ ~spoiled
         /\ base.dirty => base.embedded
         /\ CacheWanted => loaded
         =>
           \A f \in Present(graph) \ (cache.half \cup unrestored) :
             cache.vec[f] = graph[f] /\ f \notin resume.pending =>
               live'.rows.vec[f] = graph[f]]_vars
  <2> SUFFICES ASSUME Vectors, Next, pc = "published", opt # "drop", ~spoiled,
                      base.dirty => base.embedded, CacheWanted => loaded
               PROVE  \A f \in Kept : live'.rows.vec[f] = graph[f]
    BY DEF Kept
  <2>1. live' = live
    BY DEF Next, RunStep, Edit, MoveHead, Start, Examine, UpToDate, LoadCache, Parse,
           HashAndPlan, MarkDirty, DeleteRows, InsertRows, Wipe, LoadGraph, Restore,
           OpenWindow, CloseWindow, GiveUp, Finalize, GateThrows, Close, Swap,
           MoveSidecars, MoveSidecarsFails, SaveMeta, Escalate, Abort, disk
  <2>2. QED  BY <2>1 DEF Vectors, Keeping, Vows
<1>2. QED  BY <1>1, VectorsKept, PTL DEF Spec, EmbeddingsKept

=============================================================================
