--------------------------- MODULE ConnPoolProofs ---------------------------
(***************************************************************************)
(* Proofs about the read pool, for any number of calls, repositories,      *)
(* connections, builds, teardowns and pins, and any repositories that      *)
(* share a file: its books balance between any two awaits, no database is  *)
(* opened while another is being closed, and nothing in use is closed but  *)
(* by a teardown.                                                          *)
(***************************************************************************)
EXTENDS ConnPool, FiniteSetTheorems, SequenceTheorems, TLAPS

\* What the variables of the pool can hold.
Files == [build : 1..MaxBuilds + 1, there : BOOLEAN]
Entries == [available : Seq(Conns), checkedOut : Nat, waiters : Seq(Calls),
            dbIdentity : 0..MaxBuilds + 1]
Databases == [refCount : Nat, leaked : Nat, build : 1..MaxBuilds + 1,
              vector : {"no", "loading", "done"}]

PoolTypes ==
  /\ DOMAIN pool \subseteq Repos /\ \A r \in DOMAIN pool : pool[r] \in Entries
  /\ DOMAIN dbCache \subseteq Paths /\ \A p \in DOMAIN dbCache : dbCache[p] \in Databases
  /\ file \in [Paths -> Files]
  /\ usedBefore \subseteq (DOMAIN pool) \X (DOMAIN pool)
  /\ idle \subseteq DOMAIN pool
  /\ pinnedRepos \in [Repos -> 0..MaxPins] /\ closes \in 0..MaxCloses

\* The shapes of a call: before and after its use of the pool, in initLbug, about to
\* have a connection, and with one.
Uses == {"query", "vector"}
Aside == [pc : {"new", "done"}]
Opening == [pc : {"queued", "sleep"}, repo : Repos, attempt : Nat]
Asking == [pc : {"ready", "wait", "join"}, repo : Repos, use : Uses]
Using == [pc : {"run"}, repo : Repos, use : Uses, conn : Conns, live : BOOLEAN, shut : BOOLEAN]
CallShapes == Aside \cup Opening \cup Asking \cup Using

\* The tasks of the mutex.
InitTasks == [kind : {"init"}, repo : Repos, who : Calls]
Tasks == InitTasks \cup [kind : {"idle", "close"}, repo : Repos] \cup [kind : {"closeAll"}]

Types == PoolTypes /\ call \in [Calls -> CallShapes] /\ lockQ \in Seq(Tasks)

\* The books of one entry: no connection is in two hands, or in a hand and on the
\* stack, and the queue holds each waiting call once, only while the stack is empty.
Waiting(r) == {c \in Users(r) : call[c].pc = "wait"}
Held(r) == {call[c].conn : c \in Holders(r)}
Booked(r) ==
  /\ \A c, d \in Holders(r) : call[c].conn = call[d].conn => c = d
  /\ pool[r].checkedOut = Cardinality(Holders(r))
  /\ IsInjective(pool[r].available) /\ ToSet(pool[r].available) = Conns \ Held(r)
  /\ IsInjective(pool[r].waiters) /\ ToSet(pool[r].waiters) = Waiting(r)
  /\ pool[r].waiters # <<>> => pool[r].available = <<>>

\* The books of all, and that those who wait, or whose connection is not orphaned,
\* do so at an open entry.
Books ==
  /\ \A r \in DOMAIN pool : Booked(r)
  /\ \A c \in Calls : call[c].pc = "wait" \/ (call[c].pc = "run" /\ call[c].live)
                        => call[c].repo \in DOMAIN pool

\* A call that is in initLbug has one task, and an empty chain has nothing under way.
Chain ==
  /\ \A i \in DOMAIN lockQ : lockQ[i].kind = "init" =>
       /\ call[lockQ[i].who].pc = "queued" /\ call[lockQ[i].who].repo = lockQ[i].repo
       /\ \A j \in DOMAIN lockQ : lockQ[j].kind = "init" /\ lockQ[j].who = lockQ[i].who => j = i
  /\ lockQ = <<>> => step = Start

\* Where the running task can be, when it is not closing a database.
Stands(s) ==
  \/ s = Start
  \/ s = [at |-> "stat"] /\ Task.kind = "init" /\ Task.repo \in DOMAIN pool
  \/ /\ s \in {[at |-> "evict"], [at |-> "open"], [at |-> "fts"]}
     /\ Task.kind = "init" /\ Task.repo \notin DOMAIN pool
  \/ s = [at |-> "done"] /\ Task.kind = "idle"
  \/ s \in [at : {"next"}, left : SUBSET DOMAIN pool] /\ Task.kind \in {"close", "closeAll"}

\* A database is being closed exactly while the task that closes it is suspended there.
Standing ==
  IF step.at = "closing"
  THEN /\ step.repo \in Repos /\ checkpoint = {dbPath[step.repo]}
       /\ Stands(step.then) /\ step.then.at \in {"evict", "open", "done", "next"}
  ELSE Stands(step) /\ checkpoint = {}

\* Who refers to a database: the open entries of its file, and the one being opened.
\* The count is theirs and that of the leaked references.
Referring ==
  DOMAIN pool \cup IF Running("init", "fts") THEN {Task.repo} ELSE {}
Referrers(p) == {r \in Referring : dbPath[r] = p}
Counted ==
  \A p \in Paths :
    IF p \in DOMAIN dbCache
    THEN /\ dbCache[p].refCount = Cardinality(Referrers(p)) + dbCache[p].leaked
         /\ dbCache[p].refCount = 0 <=> p \in checkpoint
    ELSE Referrers(p) = {}

\* The inductive invariant.
IInv == Types /\ UsedInOrder /\ Books /\ Chain /\ Standing /\ Counted

-----------------------------------------------------------------------------
(* Sequences without repetition.                                           *)

\* A push at the end.
LEMMA Pushed ==
  ASSUME NEW S, NEW s \in Seq(S), NEW e \in S, IsInjective(s), e \notin ToSet(s)
  PROVE  /\ Append(s, e) \in Seq(S) /\ IsInjective(Append(s, e))
         /\ ToSet(Append(s, e)) = ToSet(s) \cup {e}
BY DEF IsInjective, ToSet

\* A pop from the end, as of a stack.
LEMMA Popped ==
  ASSUME NEW S, NEW s \in Seq(S), s # <<>>, IsInjective(s)
  PROVE  /\ Front(s) \in Seq(S) /\ IsInjective(Front(s)) /\ Last(s) \in S
         /\ Last(s) \in ToSet(s) /\ ToSet(Front(s)) = ToSet(s) \ {Last(s)}
<1>1. Len(s) \in Nat \ {0} /\ Len(s) \in DOMAIN s /\ DOMAIN s = 1..Len(s)
  OBVIOUS
<1>2. /\ Front(s) \in Seq(S) /\ DOMAIN Front(s) = 1..(Len(s) - 1)
      /\ \A i \in 1..(Len(s) - 1) : Front(s)[i] = s[i]
  BY <1>1 DEF Front
<1>3. IsInjective(Front(s)) /\ Last(s) \in S /\ Last(s) \in ToSet(s)
  BY <1>1, <1>2 DEF IsInjective, Last, ToSet
<1>4. ToSet(Front(s)) = ToSet(s) \ {Last(s)}
  BY <1>1, <1>2 DEF IsInjective, Last, ToSet
<1>5. QED  BY <1>2, <1>3, <1>4

\* A removal from the front, as of a queue.
LEMMA Shifted ==
  ASSUME NEW S, NEW s \in Seq(S), s # <<>>, IsInjective(s)
  PROVE  /\ Tail(s) \in Seq(S) /\ IsInjective(Tail(s)) /\ Head(s) \in S
         /\ Head(s) \in ToSet(s) /\ ToSet(Tail(s)) = ToSet(s) \ {Head(s)}
<1>1. /\ Len(s) \in Nat \ {0} /\ DOMAIN s = 1..Len(s) /\ Head(s) = s[1]
      /\ Tail(s) \in Seq(S) /\ DOMAIN Tail(s) = 1..(Len(s) - 1)
      /\ \A i \in 1..(Len(s) - 1) : Tail(s)[i] = s[i + 1]
  OBVIOUS
<1>2. IsInjective(Tail(s)) /\ Head(s) \in S /\ Head(s) \in ToSet(s)
  BY <1>1 DEF IsInjective, ToSet
<1>3. ToSet(Tail(s)) = ToSet(s) \ {Head(s)}
  <2>1. \A i \in 2..Len(s) : i - 1 \in 1..(Len(s) - 1) /\ s[i] = Tail(s)[i - 1]
    BY <1>1
  <2>2. \A i \in 2..Len(s) : s[i] # s[1]
    BY <1>1 DEF IsInjective
  <2>3. \A x \in ToSet(Tail(s)) : x \in ToSet(s) \ {s[1]}
    BY <1>1, <2>2 DEF ToSet
  <2>4. ASSUME NEW x \in ToSet(s) \ {s[1]} PROVE x \in ToSet(Tail(s))
    <3>1. PICK i \in 1..Len(s) : s[i] = x
      BY <1>1 DEF ToSet
    <3>2. i \in 2..Len(s)
      BY <1>1, <3>1
    <3>3. i - 1 \in DOMAIN Tail(s) /\ Tail(s)[i - 1] = x
      BY <1>1, <2>1, <3>1, <3>2
    <3>4. QED  BY <3>3 DEF ToSet
  <2>5. QED  BY <1>1, <2>3, <2>4
<1>4. QED  BY <1>1, <1>2, <1>3

\* A removal from somewhere.
LEMMA Removed ==
  ASSUME NEW S, NEW s \in Seq(S), NEW i \in DOMAIN s, IsInjective(s)
  PROVE  /\ RemoveAt(s, i) \in Seq(S) /\ IsInjective(RemoveAt(s, i))
         /\ ToSet(RemoveAt(s, i)) = ToSet(s) \ {s[i]}
<1> DEFINE t == RemoveAt(s, i)
<1>1. Len(s) \in Nat /\ DOMAIN s = 1..Len(s) /\ i \in 1..Len(s)
  OBVIOUS
<1>2. /\ t \in Seq(S) /\ DOMAIN t = 1..(Len(s) - 1)
      /\ \A j \in 1..(Len(s) - 1) : t[j] = IF j < i THEN s[j] ELSE s[j + 1]
  <2> DEFINE a == SubSeq(s, 1, i - 1)
             b == SubSeq(s, i + 1, Len(s))
  <2>1. a \in Seq(S) /\ Len(a) = i - 1 /\ \A j \in 1..(i - 1) : a[j] = s[j]
    BY <1>1
  <2>2. b \in Seq(S) /\ Len(b) = Len(s) - i /\ \A j \in 1..(Len(s) - i) : b[j] = s[j + i]
    BY <1>1, SMTT(30)
  <2>3. t = a \o b
    BY DEF RemoveAt
  <2> HIDE DEF t, a, b
  <2>4. t \in Seq(S) /\ Len(t) = Len(s) - 1
    <3>1. t \in Seq(S) /\ Len(t) = Len(a) + Len(b)
      BY <2>1, <2>2, <2>3, ConcatProperties, ZenonT(30)
    <3>2. QED  BY <1>1, <2>1, <2>2, <3>1
  <2>5. \A j \in 1..(Len(s) - 1) : t[j] = IF j <= i - 1 THEN a[j] ELSE b[j - (i - 1)]
    <3>1. Len(a) + Len(b) = Len(s) - 1
      BY <1>1, <2>1, <2>2
    <3>2. QED  BY SMTT(30), <2>1, <2>2, <2>3, <3>1, ConcatProperties
  <2>6. ASSUME NEW j \in 1..(Len(s) - 1) PROVE t[j] = IF j < i THEN s[j] ELSE s[j + 1]
    <3>1. CASE j < i
      BY <1>1, <2>1, <2>5, <3>1
    <3>2. CASE j >= i
      <4>1. j - (i - 1) \in 1..(Len(s) - i) /\ j - (i - 1) + i = j + 1
        BY <1>1, <3>2
      <4>2. QED  BY <1>1, <2>2, <2>5, <3>2, <4>1
    <3>3. QED  BY <1>1, <3>1, <3>2
  <2>7. QED  BY <2>4, <2>6
<1> HIDE DEF t
<1> DEFINE at(j) == IF j < i THEN j ELSE j + 1
<1>a. \A j \in 1..(Len(s) - 1) : at(j) \in 1..Len(s) /\ at(j) # i /\ t[j] = s[at(j)]
  BY <1>1, <1>2
<1>b. \A j, l \in 1..(Len(s) - 1) : at(j) = at(l) => j = l
  BY <1>1
<1>c. \A j, l \in 1..Len(s) : s[j] = s[l] => j = l
  BY <1>1 DEF IsInjective
<1> HIDE DEF at
<1>3. IsInjective(t)
  <2>1. DOMAIN t = 1..(Len(s) - 1)
    BY <1>2
  <2>2. ASSUME NEW j \in DOMAIN t, NEW l \in DOMAIN t, t[j] = t[l] PROVE j = l
    <3>1. s[at(j)] = s[at(l)] /\ at(j) \in 1..Len(s) /\ at(l) \in 1..Len(s)
      BY <1>a, <2>1, <2>2
    <3>2. at(j) = at(l)
      BY <1>c, <3>1
    <3>3. QED  BY <1>b, <2>1, <3>2
  <2>3. QED  BY <2>2 DEF IsInjective
<1>4. ASSUME NEW x \in ToSet(t) PROVE x \in ToSet(s) \ {s[i]}
  <2>1. PICK j \in 1..(Len(s) - 1) : t[j] = x
    BY <1>2 DEF ToSet
  <2>2. at(j) \in DOMAIN s /\ s[at(j)] = x /\ x # s[i]
    BY <1>1, <1>a, <1>c, <2>1
  <2>3. QED  BY <2>2 DEF ToSet
<1>5. ASSUME NEW x \in ToSet(s) \ {s[i]} PROVE x \in ToSet(t)
  <2>1. PICK j \in 1..Len(s) : s[j] = x
    BY <1>1 DEF ToSet
  <2>2. CASE j < i
    <3>1. j \in DOMAIN t /\ t[j] = x
      BY <1>1, <1>2, <2>1, <2>2
    <3>2. QED  BY <3>1 DEF ToSet
  <2>3. CASE j > i
    <3>1. j - 1 \in DOMAIN t /\ t[j - 1] = x
      BY <1>1, <1>2, <2>1, <2>3
    <3>2. QED  BY <3>1 DEF ToSet
  <2>4. QED  BY <1>1, <2>1, <2>2, <2>3
<1>6. ToSet(t) = ToSet(s) \ {s[i]}
  BY <1>4, <1>5
<1>7. QED  BY <1>2, <1>3, <1>6 DEF t

-----------------------------------------------------------------------------
(* Calls, frames and counts.                                               *)

\* What the point of a call says of its shape.
LEMMA Shapes ==
  ASSUME NEW k \in CallShapes
  PROVE  /\ k.pc \in {"new", "done", "queued", "sleep", "ready", "wait", "join", "run"}
         /\ k.pc \in {"queued", "sleep"} <=> k \in Opening
         /\ k.pc \in {"ready", "wait", "join"} <=> k \in Asking
         /\ k.pc = "run" <=> k \in Using
         /\ Ended \in CallShapes
         /\ k \in Asking \cup Using => Failed(k) \in CallShapes
BY DEF CallShapes, Aside, Opening, Asking, Using, Ended, Failed, About, Uses

\* The connections are finitely many, and so are the calls that hold one.
LEMMA Finite ==
  /\ IsFiniteSet(Conns) /\ Cardinality(Conns) = MAX_CONNS_PER_REPO /\ Conns # {}
  /\ IsFiniteSet(Calls) /\ \A r : IsFiniteSet(Holders(r))
<1>1. MAX_CONNS_PER_REPO \in Nat \ {0} /\ MaxCalls \in Nat
  BY PoolAssumption
<1>2. IsFiniteSet(Conns) /\ Cardinality(Conns) = MAX_CONNS_PER_REPO /\ Conns # {}
  <2>1. 1 \in Conns
    BY <1>1 DEF Conns
  <2>2. IsFiniteSet(Conns) /\ Cardinality(Conns) = IF 1 > MAX_CONNS_PER_REPO THEN 0 ELSE MAX_CONNS_PER_REPO - 1 + 1
    BY <1>1, FS_Interval DEF Conns
  <2>3. QED  BY <1>1, <2>1, <2>2
<1>3. IsFiniteSet(Calls)
  BY <1>1, FS_Interval DEF Calls
<1>4. ASSUME NEW r PROVE IsFiniteSet(Holders(r))
  <2>1. Holders(r) \in SUBSET Calls
    BY DEF Holders, Users
  <2>2. QED  BY <1>3, <2>1, FS_Subset
<1>5. QED  BY <1>2, <1>3, <1>4

\* The holders of an open entry are as many as their connections.
LEMMA HeldCount ==
  ASSUME Types, NEW r \in DOMAIN pool, Booked(r)
  PROVE  /\ IsFiniteSet(Held(r)) /\ Cardinality(Held(r)) = Cardinality(Holders(r))
         /\ Held(r) \subseteq Conns /\ Cardinality(Held(r)) <= MAX_CONNS_PER_REPO
<1> DEFINE f == [c \in Holders(r) |-> call[c].conn]
<1>1. f \in Bijection(Holders(r), Held(r))
  BY DEF Booked, Held, Bijection, Injection, Surjection, IsInjective
<1>2. IsFiniteSet(Held(r)) /\ Cardinality(Held(r)) = Cardinality(Holders(r))
  BY <1>1, Finite, FS_Bijection DEF ExistsBijection
<1>3. Held(r) \subseteq Conns
  BY Shapes DEF Held, Holders, Users, Types, Using
<1>4. QED  BY <1>2, <1>3, Finite, FS_Subset

\* A key that is used becomes the latest; a key that leaves the pool leaves the order.
LEMMA TouchedOrder ==
  ASSUME PoolTypes, UsedInOrder, NEW r, DOMAIN pool' = DOMAIN pool \cup {r},
         usedBefore' = Touched(r)
  PROVE  UsedInOrder' /\ usedBefore' \subseteq (DOMAIN pool') \X (DOMAIN pool')
<1> DEFINE D == DOMAIN pool
           E == DOMAIN pool'
<1>1. usedBefore \subseteq D \X D /\ E = D \cup {r}
  BY DEF PoolTypes
<1>2. ASSUME NEW q \in E, NEW s \in E
      PROVE  <<q, s>> \in usedBefore' <=> /\ q # r
                                          /\ s = r \/ <<q, s>> \in usedBefore
  BY <1>1 DEF Touched, Others
<1>3. usedBefore' \subseteq E \X E
  BY <1>1 DEF Touched, Others
<1>4. /\ \A q, s \in D : q # s <=> (<<q, s>> \in usedBefore \/ <<s, q>> \in usedBefore)
      /\ \A q, s, t \in D : <<q, s>> \in usedBefore /\ <<s, t>> \in usedBefore
                              => <<q, t>> \in usedBefore
  BY DEF UsedInOrder
<1> HIDE DEF D, E
<1>5. ASSUME NEW q \in E, NEW s \in E
      PROVE  q # s <=> (<<q, s>> \in usedBefore' \/ <<s, q>> \in usedBefore')
  <2>1. CASE q = r \/ s = r
    BY <1>1, <1>2, <2>1
  <2>2. CASE q # r /\ s # r
    BY <1>1, <1>2, <1>4, <2>2
  <2>3. QED  BY <2>1, <2>2
<1>6. ASSUME NEW q \in E, NEW s \in E, NEW t \in E,
             <<q, s>> \in usedBefore', <<s, t>> \in usedBefore'
      PROVE  <<q, t>> \in usedBefore'
  BY <1>1, <1>2, <1>4, <1>6
<1>7. QED  BY <1>3, <1>5, <1>6 DEF UsedInOrder, E

\* The rest of the order stays as it was.
LEMMA LeftOrder ==
  ASSUME PoolTypes, UsedInOrder, NEW r, DOMAIN pool' = DOMAIN pool \ {r},
         usedBefore' = Others(r)
  PROVE  UsedInOrder' /\ usedBefore' \subseteq (DOMAIN pool') \X (DOMAIN pool')
<1> DEFINE D == DOMAIN pool
           E == DOMAIN pool'
<1>1. usedBefore \subseteq D \X D /\ E = D \ {r}
  BY DEF PoolTypes
<1>2. ASSUME NEW q \in E, NEW s \in E
      PROVE  <<q, s>> \in usedBefore' <=> <<q, s>> \in usedBefore
  BY <1>1 DEF Others
<1>3. usedBefore' \subseteq E \X E
  BY <1>1 DEF Others
<1>4. /\ \A q, s \in D : q # s <=> (<<q, s>> \in usedBefore \/ <<s, q>> \in usedBefore)
      /\ \A q, s, t \in D : <<q, s>> \in usedBefore /\ <<s, t>> \in usedBefore
                              => <<q, t>> \in usedBefore
  BY DEF UsedInOrder
<1> HIDE DEF D, E
<1>5. ASSUME NEW q \in E, NEW s \in E
      PROVE  q # s <=> (<<q, s>> \in usedBefore' \/ <<s, q>> \in usedBefore')
  BY <1>1, <1>2, <1>4
<1>6. ASSUME NEW q \in E, NEW s \in E, NEW t \in E,
             <<q, s>> \in usedBefore', <<s, t>> \in usedBefore'
      PROVE  <<q, t>> \in usedBefore'
  BY <1>1, <1>2, <1>4, <1>6
<1>7. QED  BY <1>3, <1>5, <1>6 DEF UsedInOrder, E

\* An entry keeps its books when those who wait at it, or hold a connection of it, do
\* so after the step as before.
LEMMA BookedKept ==
  ASSUME NEW r, Booked(r), pool'[r] = pool[r], Users(r)' = Users(r),
         \A c \in Users(r) : call'[c].pc = call[c].pc /\ call'[c].conn = call[c].conn
  PROVE  Booked(r)'
<1>1. Holders(r)' = Holders(r) /\ Waiting(r)' = Waiting(r)
  BY DEF Holders, Waiting
<1>2. \A c \in Holders(r) : call'[c].conn = call[c].conn
  BY DEF Holders
<1>3. Held(r)' = Held(r)
  BY <1>1, <1>2 DEF Held
<1>4. QED  BY <1>1, <1>2, <1>3 DEF Booked

\* A step that takes no call to or from a connection or a queue leaves the books alone.
LEMMA BooksKept ==
  ASSUME Books, pool' = pool,
         \A c \in Calls : \/ call'[c] = call[c]
                          \/ call[c].pc \notin {"wait", "run"} /\ call'[c].pc \notin {"wait", "run"}
  PROVE  Books'
<1>1. ASSUME NEW r \in DOMAIN pool PROVE Booked(r)'
  <2>1. Users(r)' = Users(r) /\ \A c \in Users(r) : call'[c] = call[c]
    BY DEF Users
  <2>2. QED  BY <2>1, BookedKept DEF Books
<1>2. QED  BY <1>1 DEF Books

\* The same for the references to the databases.
LEMMA CountedKept ==
  ASSUME Counted, DOMAIN dbCache' = DOMAIN dbCache, checkpoint' = checkpoint,
         \A p \in DOMAIN dbCache : /\ dbCache'[p].refCount = dbCache[p].refCount
                                   /\ dbCache'[p].leaked = dbCache[p].leaked,
         Referring' = Referring
  PROVE  Counted'
<1>1. \A p : Referrers(p)' = Referrers(p)
  BY DEF Referrers
<1>2. QED  BY <1>1 DEF Counted

-----------------------------------------------------------------------------
(* The chain of the mutex.                                                 *)

\* The running task, and that the one call that awaits it is in initLbug.
LEMMA TaskFacts ==
  ASSUME Types, Chain, lockQ # <<>>
  PROVE  /\ Task \in Tasks /\ Tail(lockQ) \in Seq(Tasks)
         /\ Task.kind = "init" => /\ Task.who \in Calls /\ Task.repo \in Repos
                                  /\ call[Task.who].pc = "queued"
                                  /\ call[Task.who].repo = Task.repo
         /\ Task.kind \in {"idle", "close"} => Task.repo \in Repos
<1>1. lockQ \in Seq(Tasks) /\ 1 \in DOMAIN lockQ /\ Task = lockQ[1] /\ Task \in Tasks
  BY DEF Types, Task
<1>2. Tail(lockQ) \in Seq(Tasks)
  BY <1>1
<1>3. /\ Task.kind = "init" => Task.who \in Calls /\ Task.repo \in Repos
      /\ Task.kind \in {"idle", "close"} => Task.repo \in Repos
  BY <1>1 DEF Tasks, InitTasks
<1>4. QED  BY <1>1, <1>2, <1>3 DEF Chain

\* Nothing but the task at the head, or the call it answers, moves.
LEMMA ChainKept ==
  ASSUME Chain, lockQ' = lockQ, lockQ = <<>> => step' = step,
         \A c \in Calls : call[c].pc = "queued" => call'[c] = call[c], Types
  PROVE  Chain'
<1>1. \A i \in DOMAIN lockQ : lockQ[i].kind = "init" => lockQ[i].who \in Calls
  BY DEF Types, Tasks, InitTasks
<1>2. QED  BY <1>1 DEF Chain

\* The task at the head ends: the tasks behind it are of other calls.
LEMMA ChainShifted ==
  ASSUME Types, Chain, lockQ # <<>>, Done,
         \A c \in Calls : call'[c] = call[c] \/ (Task.kind = "init" /\ c = Task.who)
  PROVE  lockQ' \in Seq(Tasks) /\ Chain'
<1>1. /\ lockQ \in Seq(Tasks) /\ Len(lockQ) \in Nat \ {0} /\ DOMAIN lockQ = 1..Len(lockQ)
      /\ Task = lockQ[1]
      /\ lockQ' \in Seq(Tasks) /\ DOMAIN lockQ' = 1..(Len(lockQ) - 1)
      /\ \A i \in 1..(Len(lockQ) - 1) : lockQ'[i] = lockQ[i + 1]
  BY DEF Types, Task, Done
<1>2. ASSUME NEW i \in DOMAIN lockQ', lockQ'[i].kind = "init"
      PROVE  /\ call'[lockQ'[i].who].pc = "queued" /\ call'[lockQ'[i].who].repo = lockQ'[i].repo
             /\ \A j \in DOMAIN lockQ' :
                  lockQ'[j].kind = "init" /\ lockQ'[j].who = lockQ'[i].who => j = i
  <2>1. i + 1 \in DOMAIN lockQ /\ lockQ'[i] = lockQ[i + 1] /\ i + 1 # 1 /\ 1 \in DOMAIN lockQ
    BY <1>1
  <2>2. lockQ[i + 1].who \in Calls
    BY <1>1, <1>2, <2>1 DEF Tasks, InitTasks
  <2>3. ~(Task.kind = "init" /\ lockQ[i + 1].who = Task.who)
    BY <1>1, <1>2, <2>1 DEF Chain
  <2>4. ASSUME NEW j \in DOMAIN lockQ', lockQ'[j].kind = "init", lockQ'[j].who = lockQ'[i].who
        PROVE  j = i
    <3>1. j + 1 \in DOMAIN lockQ /\ lockQ'[j] = lockQ[j + 1]
      BY <1>1
    <3>2. j + 1 = i + 1
      BY <1>2, <2>1, <2>4, <3>1 DEF Chain
    <3>3. QED  BY <1>1, <3>2
  <2>5. QED  BY <1>2, <2>1, <2>2, <2>3, <2>4 DEF Chain
<1>3. QED  BY <1>1, <1>2 DEF Chain, Done

\* A task is queued: one of initLbug by the call that it is for, which had none.
LEMMA ChainPushed ==
  ASSUME Types, Chain, NEW t \in Tasks, lockQ' = Append(lockQ, t), step' = step,
         t.kind = "init" => /\ call[t.who].pc # "queued"
                            /\ call'[t.who].pc = "queued" /\ call'[t.who].repo = t.repo,
         \A c \in Calls : call'[c] = call[c] \/ (t.kind = "init" /\ c = t.who)
  PROVE  /\ lockQ' \in Seq(Tasks) /\ Chain' /\ lockQ' # <<>>
         /\ lockQ # <<>> => Task' = Task
<1>1. /\ lockQ \in Seq(Tasks) /\ Len(lockQ) \in Nat /\ DOMAIN lockQ = 1..Len(lockQ)
      /\ lockQ' \in Seq(Tasks) /\ DOMAIN lockQ' = 1..(Len(lockQ) + 1) /\ lockQ' # <<>>
      /\ \A i \in 1..Len(lockQ) : lockQ'[i] = lockQ[i]
      /\ lockQ'[Len(lockQ) + 1] = t
  BY DEF Types
<1>2. \A i \in DOMAIN lockQ : lockQ[i].kind = "init" =>
        /\ lockQ[i].who \in Calls /\ call'[lockQ[i].who] = call[lockQ[i].who]
        /\ ~(t.kind = "init" /\ t.who = lockQ[i].who)
  BY <1>1 DEF Chain, Tasks, InitTasks
<1>3. ASSUME NEW i \in DOMAIN lockQ', lockQ'[i].kind = "init"
      PROVE  /\ call'[lockQ'[i].who].pc = "queued" /\ call'[lockQ'[i].who].repo = lockQ'[i].repo
             /\ \A j \in DOMAIN lockQ' :
                  lockQ'[j].kind = "init" /\ lockQ'[j].who = lockQ'[i].who => j = i
  <2>1. CASE i = Len(lockQ) + 1
    BY <1>1, <1>2, <1>3, <2>1
  <2>2. CASE i \in 1..Len(lockQ)
    BY <1>1, <1>2, <1>3, <2>2 DEF Chain
  <2>3. QED  BY <1>1, <2>1, <2>2
<1>4. lockQ # <<>> => Task' = Task
  BY <1>1 DEF Task
<1>5. QED  BY <1>1, <1>3, <1>4 DEF Chain

\* A step that leaves the running task suspended where it is, and the databases.
LEMMA Suspended ==
  ASSUME IInv, step' = step, checkpoint' = checkpoint, DOMAIN pool' = DOMAIN pool,
         lockQ # <<>> => lockQ' # <<>> /\ Task' = Task, lockQ = <<>> => step = Start,
         DOMAIN dbCache' = DOMAIN dbCache,
         \A p \in DOMAIN dbCache : /\ dbCache'[p].refCount = dbCache[p].refCount
                                   /\ dbCache'[p].leaked = dbCache[p].leaked
  PROVE  Standing' /\ Counted'
<1>1. CASE lockQ = <<>>
  <2>1. step = Start /\ step.at = "start" /\ step'.at = "start"
    BY <1>1 DEF Start
  <2>2. Standing'
    BY <2>1 DEF IInv, Standing, Stands
  <2>3. Referring' = Referring
    BY <2>1 DEF Referring, Running
  <2>4. QED  BY <2>2, <2>3, CountedKept DEF IInv
<1>2. CASE lockQ # <<>>
  <2>1. \A s : Stands(s)' <=> Stands(s)
    BY <1>2 DEF Stands
  <2>2. Standing'
    BY <2>1 DEF IInv, Standing
  <2>3. Referring' = Referring
    BY <1>2 DEF Referring, Running
  <2>4. QED  BY <2>2, <2>3, CountedKept DEF IInv
<1>3. QED  BY <1>1, <1>2

\* A step that moves the running task, or ends it, while no database is being opened
\* or closed.
LEMMA Moved ==
  ASSUME IInv, step.at \notin {"closing", "fts"}, Stands(step)',
         step'.at \notin {"closing", "fts"}, UNCHANGED <<checkpoint, dbCache>>,
         DOMAIN pool' = DOMAIN pool
  PROVE  Standing' /\ Counted'
<1>1. Standing'
  BY DEF IInv, Standing
<1>2. Referring' = Referring
  BY DEF Referring, Running
<1>3. QED  BY <1>1, <1>2, CountedKept DEF IInv

\* Where a task of each kind can be.
LEMMA Places ==
  ASSUME Standing, step.at # "closing"
  PROVE  /\ checkpoint = {} /\ Stands(step)
         /\ step.at = "start" => step = Start
         /\ step.at = "stat" => Task.kind = "init" /\ Task.repo \in DOMAIN pool
         /\ step.at \in {"evict", "open", "fts"} => Task.kind = "init" /\ Task.repo \notin DOMAIN pool
         /\ step.at = "done" => Task.kind = "idle"
         /\ step.at = "next" => /\ step \in [at : {"next"}, left : SUBSET DOMAIN pool]
                                /\ Task.kind \in {"close", "closeAll"}
BY DEF Standing, Stands, Start

-----------------------------------------------------------------------------
(* The steps of the running task that close nothing.                       *)

\* An initLbug that gives its call an answer, and leaves the pool as it was.
LEMMA Answered ==
  ASSUME IInv, NEW at \in {"stat", "evict", "open"}, Running("init", at),
         NEW k \in CallShapes, k.pc \in {"ready", "sleep", "done"},
         Answer(k), Done, UNCHANGED <<file, pools, closes>>
  PROVE  IInv'
<1>1. /\ Types /\ Chain /\ Standing /\ lockQ # <<>> /\ Task.kind = "init"
      /\ step.at \notin {"closing", "fts"}
  BY DEF IInv, Running
<1>2. Task.who \in Calls /\ call[Task.who].pc = "queued"
  BY <1>1, TaskFacts
<1>3. /\ call' \in [Calls -> CallShapes] /\ call'[Task.who] = k
      /\ \A c \in Calls \ {Task.who} : call'[c] = call[c]
  BY <1>1, <1>2 DEF Answer, Types
<1>4. lockQ' \in Seq(Tasks) /\ Chain'
  BY <1>1, <1>3, ChainShifted
<1>5. Books'
  BY <1>2, <1>3, BooksKept DEF IInv, pools
<1>6. Standing' /\ Counted'
  BY <1>1, Moved DEF Done, Start, Stands, pools
<1>7. Types' /\ UsedInOrder'
  BY <1>3, <1>4 DEF IInv, Types, PoolTypes, UsedInOrder, pools
<1>8. QED  BY <1>4, <1>5, <1>6, <1>7 DEF IInv

\* Reuse, a missing file and a failed open end initLbug with an answer.
LEMMA InitAnswers ==
  ASSUME IInv, InitReuse \/ InitNotFound \/ InitOpenFails
  PROVE  IInv'
<1>1. ASSUME NEW at \in {"stat", "evict", "open"}, Running("init", at)
      PROVE  /\ Task.who \in Calls /\ call[Task.who].pc = "queued"
             /\ call[Task.who] \in Opening /\ Ended \in CallShapes /\ Ended.pc = "done"
             /\ About(call[Task.who], Purpose(Task.who)) \in CallShapes
             /\ About(call[Task.who], Purpose(Task.who)).pc = "ready"
  <2>1. Task.who \in Calls /\ call[Task.who].pc = "queued" /\ call[Task.who] \in CallShapes
    BY <1>1, TaskFacts DEF IInv, Types, Running
  <2>2. call[Task.who] \in Opening
    BY <2>1, Shapes
  <2>3. QED
    BY <2>1, <2>2 DEF About, Purpose, Opening, Asking, Aside, CallShapes, Uses, Ended
<1>2. CASE InitReuse
  BY <1>1, <1>2, Answered DEF InitReuse
<1>3. CASE InitNotFound
  BY <1>1, <1>3, Answered DEF InitNotFound
<1>4. CASE InitOpenFails
  <2>1. Running("init", "open") /\ Done /\ UNCHANGED <<file, pools, closes>>
    BY <1>4 DEF InitOpenFails
  <2>2. CASE Answer(Ended)
    BY <1>1, <2>1, <2>2, Answered
  <2>3. CASE Answer([call[Task.who] EXCEPT !.pc = "sleep", !.attempt = @ + 1])
    <3> DEFINE k == [call[Task.who] EXCEPT !.pc = "sleep", !.attempt = @ + 1]
    <3>1. k \in Opening /\ k.pc = "sleep"
      <4>1. PICK o \in Opening : o = call[Task.who]
        BY <1>1, <2>1
      <4> DEFINE a == [o EXCEPT !.pc = "sleep"]
      <4>2. a \in Opening /\ a.pc = "sleep" /\ a.attempt = o.attempt
        BY DEF Opening
      <4>3. k = [a EXCEPT !.attempt = @ + 1]
        BY <4>1, <4>2 DEF Opening
      <4> HIDE DEF a, k
      <4>4. QED  BY <4>2, <4>3 DEF Opening
    <3>2. Answer(k)
      BY <2>3
    <3> HIDE DEF k
    <3>3. k \in CallShapes
      BY <3>1 DEF CallShapes
    <3>4. QED  BY <2>1, <3>1, <3>2, <3>3, Answered
  <2>4. QED  BY <1>4, <2>2, <2>3 DEF InitOpenFails
<1>5. QED  BY <1>2, <1>3, <1>4

\* A new entry has all its connections on the stack: nobody waits at a closed one, or
\* holds a connection that is not orphaned.
LEMMA InitRegisterKeeps ==
  ASSUME IInv, InitRegister
  PROVE  IInv'
<1> DEFINE w == Task.who
<1>1. /\ Types /\ Chain /\ Standing /\ Books /\ lockQ # <<>> /\ Task.kind = "init"
      /\ step.at = "fts" /\ Running("init", "fts") /\ Done
  BY DEF IInv, InitRegister, Running
<1>a. PICK r \in Repos : r = Task.repo
  BY <1>1, TaskFacts
<1>2. /\ r \in Repos /\ w \in Calls /\ call[w].pc = "queued" /\ r \notin DOMAIN pool
      /\ checkpoint = {}
  BY <1>1, <1>a, TaskFacts, Places
<1>3. About(call[w], Purpose(w)) \in Asking /\ About(call[w], Purpose(w)).pc = "ready"
  <2>1. call[w].repo \in Repos
    BY <1>1, <1>2, <1>a, TaskFacts
  <2>2. QED  BY <2>1 DEF About, Purpose, Asking, Uses
<1>4. /\ call' \in [Calls -> CallShapes] /\ call'[w].pc = "ready"
      /\ \A c \in Calls \ {w} : call'[c] = call[c]
  BY <1>1, <1>2, <1>3 DEF InitRegister, Answer, Types, CallShapes
<1>5. /\ DOMAIN pool' = DOMAIN pool \cup {r} /\ usedBefore' = Touched(r)
      /\ \A q \in DOMAIN pool : pool'[q] = pool[q]
      /\ pool'[r] = [available |-> [i \in Conns |-> i], checkedOut |-> 0, waiters |-> <<>>,
                     dbIdentity |-> Identity(dbPath[r])]
      /\ UNCHANGED <<file, idle, pinnedRepos, dbCache, checkpoint, closes>>
  BY <1>2, <1>a DEF InitRegister
<1> DEFINE s == [i \in Conns |-> i]
<1>6. s \in Seq(Conns) /\ IsInjective(s) /\ ToSet(s) = Conns
  BY PoolAssumption DEF Conns, IsInjective, ToSet
<1>7. Identity(dbPath[r]) \in 0..MaxBuilds + 1
  <2>1. dbPath[r] \in Paths /\ MaxBuilds \in Nat
    BY <1>2, PoolAssumption
  <2>2. file[dbPath[r]] \in Files
    BY <1>1, <2>1 DEF Types, PoolTypes
  <2>3. file[dbPath[r]].build \in 1..MaxBuilds + 1
    BY <2>2 DEF Files
  <2>4. QED  BY <2>1, <2>3 DEF Identity
<1> HIDE DEF s, w
<1>8. pool'[r] \in Entries
  <2>1. <<>> \in Seq(Calls)
    OBVIOUS
  <2>2. pool'[r] = [available |-> s, checkedOut |-> 0, waiters |-> <<>>,
                    dbIdentity |-> Identity(dbPath[r])]
    BY <1>5 DEF s
  <2>3. QED  BY <1>6, <1>7, <2>1, <2>2 DEF Entries
<1>9. Booked(r)'
  <2>1. Users(r)' = {}
    BY <1>1, <1>2, <1>4 DEF Users, Books
  <2>2. Holders(r)' = {} /\ Waiting(r)' = {} /\ Held(r)' = {}
    BY <2>1 DEF Holders, Waiting, Held
  <2>3. /\ pool'[r].available = s /\ pool'[r].checkedOut = 0 /\ pool'[r].waiters = <<>>
    BY <1>5 DEF s
  <2>4. IsInjective(<<>>) /\ ToSet(<<>>) = {} /\ Cardinality({}) = 0
    BY FS_EmptySet DEF IsInjective, ToSet
  <2>5. QED  BY <1>6, <2>2, <2>3, <2>4 DEF Booked
<1>10. ASSUME NEW q \in DOMAIN pool PROVE Booked(q)'
  <2>1. Users(q)' = Users(q) /\ \A c \in Users(q) : call'[c] = call[c]
    BY <1>2, <1>4 DEF Users
  <2>2. QED  BY <1>1, <1>5, <2>1, BookedKept DEF Books
<1>11. Books'
  BY <1>1, <1>2, <1>4, <1>5, <1>9, <1>10 DEF Books
<1>12. UsedInOrder' /\ usedBefore' \subseteq (DOMAIN pool') \X (DOMAIN pool')
  BY <1>5, TouchedOrder DEF IInv, Types
<1>13. lockQ' \in Seq(Tasks) /\ Chain'
  BY <1>1, <1>4, ChainShifted DEF w
<1>14. step' = Start /\ step'.at = "start"
  BY <1>1 DEF Done, Start
<1>15. Standing'
  BY <1>2, <1>5, <1>14 DEF Standing, Stands
<1>16. Counted'
  <2>1. Referring' = Referring
    BY <1>1, <1>5, <1>14, <1>a DEF Referring, Running
  <2>2. QED  BY <1>5, <2>1, CountedKept DEF IInv
<1>17. Types'
  BY <1>1, <1>2, <1>4, <1>5, <1>8, <1>12, <1>13 DEF Types, PoolTypes
<1>18. QED  BY <1>11, <1>12, <1>13, <1>15, <1>16, <1>17 DEF IInv

\* Those who refer to a database are repositories, and so finitely many.
LEMMA ReferrersFinite ==
  ASSUME Types, Chain, NEW p
  PROVE  /\ Referring \subseteq Repos /\ IsFiniteSet(Referrers(p))
         /\ Referrers(p) \subseteq Repos
<1>1. Referring \subseteq Repos
  BY TaskFacts DEF Types, PoolTypes, Referring, Running
<1>2. Referrers(p) \subseteq Repos
  BY <1>1 DEF Referrers
<1>3. QED  BY <1>1, <1>2, FS_Subset, PoolAssumption

\* A registration that throws: one refers to the database no more, and one is leaked.
LEMMA InitRegisterFailsKeeps ==
  ASSUME IInv, InitRegisterFails
  PROVE  IInv'
<1> DEFINE w == Task.who
<1>1. /\ Types /\ Chain /\ Standing /\ Books /\ Counted /\ lockQ # <<>> /\ Task.kind = "init"
      /\ step.at = "fts" /\ Running("init", "fts") /\ Done
      /\ UNCHANGED <<file, pool, usedBefore, idle, pinnedRepos, checkpoint, closes>>
  BY DEF IInv, InitRegisterFails, Running
<1>2. PICK r \in Repos : r = Task.repo
  BY <1>1, TaskFacts
<1>3. PICK p \in Paths : p = dbPath[r]
  BY PoolAssumption
<1>4. w \in Calls /\ call[w].pc = "queued" /\ r \notin DOMAIN pool /\ checkpoint = {}
  BY <1>1, <1>2, TaskFacts, Places
<1>5. /\ call' \in [Calls -> CallShapes] /\ call'[w].pc = "done"
      /\ \A c \in Calls \ {w} : call'[c] = call[c]
  BY <1>1, <1>4 DEF InitRegisterFails, Answer, Types, CallShapes, Aside, Ended
<1> HIDE DEF w
<1>6. step' = Start /\ step'.at = "start"
  BY <1>1 DEF Done, Start
<1>7. Referring = DOMAIN pool \cup {r} /\ Referring' = DOMAIN pool
  BY <1>1, <1>2, <1>6 DEF Referring, Running
<1>8. /\ Referrers(p)' = Referrers(p) \ {r} /\ r \in Referrers(p)
      /\ \A q \in Paths \ {p} : Referrers(q)' = Referrers(q)
  BY <1>3, <1>4, <1>7 DEF Referrers
<1>9. /\ Cardinality(Referrers(p)) \in Nat
      /\ Cardinality(Referrers(p)') = Cardinality(Referrers(p)) - 1
  BY <1>1, <1>8, ReferrersFinite, FS_RemoveElement, FS_CardinalityType
<1>10. /\ p \in DOMAIN dbCache /\ dbCache[p] \in Databases
       /\ dbCache[p].refCount = Cardinality(Referrers(p)) + dbCache[p].leaked
  BY <1>1, <1>8 DEF Counted, Types, PoolTypes
<1>11. /\ DOMAIN dbCache' = DOMAIN dbCache /\ \A q \in DOMAIN dbCache \ {p} : dbCache'[q] = dbCache[q]
       /\ dbCache'[p] = [dbCache[p] EXCEPT !.leaked = @ + 1]
  BY <1>2, <1>3, <1>10 DEF InitRegisterFails
<1>12. /\ dbCache'[p] \in Databases /\ dbCache'[p].refCount = dbCache[p].refCount
       /\ dbCache'[p].leaked = dbCache[p].leaked + 1 /\ dbCache[p].leaked \in Nat
  BY <1>10, <1>11 DEF Databases
<1>a. dbCache'[p].refCount = Cardinality(Referrers(p)') + dbCache'[p].leaked
  BY <1>9, <1>10, <1>12
<1>b. dbCache'[p].refCount = 0 <=> p \in checkpoint'
  BY <1>1, <1>10, <1>12 DEF Counted
<1>13. Counted'
  <2>1. ASSUME NEW q \in Paths
        PROVE  IF q \in DOMAIN dbCache'
               THEN /\ dbCache'[q].refCount = Cardinality(Referrers(q)') + dbCache'[q].leaked
                    /\ dbCache'[q].refCount = 0 <=> q \in checkpoint'
               ELSE Referrers(q)' = {}
    <3>1. CASE q = p
      BY <1>10, <1>11, <1>a, <1>b, <3>1
    <3>2. CASE q # p
      BY <1>1, <1>8, <1>11, <3>2 DEF Counted
    <3>3. QED  BY <3>1, <3>2
  <2>2. QED  BY <2>1 DEF Counted
<1>14. lockQ' \in Seq(Tasks) /\ Chain'
  BY <1>1, <1>5, ChainShifted DEF w
<1>15. Types'
  BY <1>1, <1>5, <1>11, <1>12, <1>14 DEF Types, PoolTypes
<1>16. Standing'
  BY <1>1, <1>4, <1>6 DEF Standing, Stands
<1>17. ASSUME NEW q \in DOMAIN pool PROVE Booked(q)'
  <2>1. Users(q)' = Users(q) /\ \A c \in Users(q) : call'[c] = call[c]
    BY <1>4, <1>5 DEF Users
  <2>2. QED  BY <1>1, <2>1, BookedKept DEF Books
<1>18. Books' /\ UsedInOrder'
  BY <1>1, <1>4, <1>5, <1>17 DEF IInv, Books, UsedInOrder
<1>19. QED  BY <1>13, <1>14, <1>15, <1>16, <1>18 DEF IInv

\* A database is opened or reused for an entry that is about to be registered.
LEMMA InitOpenKeeps ==
  ASSUME IInv, InitOpen
  PROVE  IInv'
<1>1. /\ Types /\ Chain /\ Standing /\ Books /\ Counted /\ lockQ # <<>> /\ Task.kind = "init"
      /\ step.at = "open" /\ step' = [at |-> "fts"]
      /\ UNCHANGED <<file, pool, usedBefore, idle, pinnedRepos, checkpoint, lockQ, call, closes>>
  BY DEF IInv, InitOpen, Running
<1>2. PICK r \in Repos : r = Task.repo
  BY <1>1, TaskFacts
<1>3. PICK p \in Paths : p = dbPath[r]
  BY PoolAssumption
<1>4. r \notin DOMAIN pool /\ checkpoint = {}
  BY <1>1, <1>2, Places
<1>5. Referring = DOMAIN pool /\ Referring' = DOMAIN pool \cup {r}
  BY <1>1, <1>2 DEF Referring, Running, Task
<1>6. /\ Referrers(p)' = Referrers(p) \cup {r} /\ r \notin Referrers(p)
      /\ \A q \in Paths \ {p} : Referrers(q)' = Referrers(q)
  BY <1>3, <1>4, <1>5 DEF Referrers
<1>7. /\ IsFiniteSet(Referrers(p)) /\ Cardinality(Referrers(p)) \in Nat
      /\ Cardinality(Referrers(p) \cup {r}) = Cardinality(Referrers(p)) + 1
  BY <1>1, <1>6, ReferrersFinite, FS_AddElement, FS_CardinalityType
<1>8. MaxBuilds \in Nat /\ file[p] \in Files
  BY <1>1, PoolAssumption DEF Types, PoolTypes
<1>9. /\ DOMAIN dbCache' = DOMAIN dbCache \cup {p}
      /\ \A q \in DOMAIN dbCache \ {p} : dbCache'[q] = dbCache[q]
      /\ p \in DOMAIN dbCache => dbCache'[p] = [dbCache[p] EXCEPT !.refCount = @ + 1]
      /\ p \notin DOMAIN dbCache => dbCache'[p] = [refCount |-> 1, leaked |-> 0,
                                                   build |-> file[p].build, vector |-> "no"]
  BY <1>2, <1>3 DEF InitOpen
<1>10. /\ dbCache'[p] \in Databases /\ dbCache'[p].refCount > 0
       /\ dbCache'[p].refCount = Cardinality(Referrers(p)') + dbCache'[p].leaked
  <2>1. CASE p \in DOMAIN dbCache
    <3>1. /\ dbCache[p] \in Databases
          /\ dbCache[p].refCount = Cardinality(Referrers(p)) + dbCache[p].leaked
      BY <1>1, <2>1 DEF Types, PoolTypes, Counted
    <3>2. QED  BY <1>6, <1>7, <1>9, <2>1, <3>1 DEF Databases
  <2>2. CASE p \notin DOMAIN dbCache
    <3>1. Referrers(p) = {} /\ Cardinality({}) = 0
      BY <1>1, <2>2, FS_EmptySet DEF Counted
    <3>2. file[p].build \in 1..MaxBuilds + 1
      BY <1>8 DEF Files
    <3>3. QED  BY <1>6, <1>7, <1>9, <2>2, <3>1, <3>2 DEF Databases
  <2>3. QED  BY <2>1, <2>2
<1>11. Counted'
  <2>1. ASSUME NEW q \in Paths
        PROVE  IF q \in DOMAIN dbCache'
               THEN /\ dbCache'[q].refCount = Cardinality(Referrers(q)') + dbCache'[q].leaked
                    /\ dbCache'[q].refCount = 0 <=> q \in checkpoint'
               ELSE Referrers(q)' = {}
    <3>1. CASE q = p
      BY <1>1, <1>4, <1>9, <1>10, <3>1
    <3>2. CASE q # p
      BY <1>1, <1>6, <1>9, <3>2 DEF Counted
    <3>3. QED  BY <3>1, <3>2
  <2>2. QED  BY <2>1 DEF Counted
<1>12. Types'
  BY <1>1, <1>9, <1>10 DEF Types, PoolTypes
<1>13. Standing'
  BY <1>1, <1>2, <1>4 DEF Standing, Stands, Task
<1>14. Books' /\ Chain' /\ UsedInOrder'
  BY <1>1, BooksKept, ChainKept DEF IInv, UsedInOrder
<1>15. QED  BY <1>11, <1>12, <1>13, <1>14 DEF IInv

\* The close of a database returns: nobody referred to it any more.
LEMMA NativeClosedKeeps ==
  ASSUME IInv, NativeClosed
  PROVE  IInv'
<1>1. /\ Types /\ Chain /\ Standing /\ Books /\ Counted /\ lockQ # <<>> /\ step.at = "closing"
      /\ step' = step.then
      /\ UNCHANGED <<file, pool, usedBefore, idle, lockQ, call, closes>>
  BY DEF IInv, NativeClosed
<1>2. PICK r \in Repos : r = step.repo
  BY <1>1 DEF Standing
<1>3. PICK p \in Paths : p = dbPath[r]
  BY PoolAssumption
<1>4. /\ checkpoint = {p} /\ checkpoint' = {} /\ DOMAIN dbCache' = DOMAIN dbCache \ {p}
      /\ \A q \in DOMAIN dbCache' : dbCache'[q] = dbCache[q]
      /\ pinnedRepos' = [pinnedRepos EXCEPT ![r] = 0]
  BY <1>1, <1>2, <1>3 DEF NativeClosed, Standing
<1>5. Stands(step.then) /\ step.then.at \in {"evict", "open", "done", "next"}
  BY <1>1 DEF Standing
<1>6. Standing'
  <2>1. \A s : Stands(s)' <=> Stands(s)
    BY <1>1 DEF Stands, Task
  <2>2. QED  BY <1>1, <1>4, <1>5, <2>1 DEF Standing
<1>7. Referring' = Referring
  BY <1>1, <1>5 DEF Referring, Running
<1>8. \A q : Referrers(q)' = Referrers(q)
  BY <1>7 DEF Referrers
<1>a. Referrers(p) = {}
  <2>1. CASE p \in DOMAIN dbCache
    <3>1. dbCache[p].leaked \in Nat
      BY <1>1, <2>1 DEF Types, PoolTypes, Databases
    <3>2. IsFiniteSet(Referrers(p)) /\ Cardinality(Referrers(p)) \in Nat
      BY <1>1, ReferrersFinite, FS_CardinalityType
    <3>3. 0 = Cardinality(Referrers(p)) + dbCache[p].leaked
      BY <1>1, <1>4, <2>1 DEF Counted
    <3>4. Cardinality(Referrers(p)) = 0
      BY <3>1, <3>2, <3>3
    <3>5. QED  BY <3>2, <3>4, FS_EmptySet
  <2>2. QED  BY <1>1, <2>1 DEF Counted
<1>9. Counted'
  BY <1>1, <1>4, <1>8, <1>a DEF Counted
<1>10. pinnedRepos' \in [Repos -> 0..MaxPins]
  BY <1>1, <1>4, PoolAssumption DEF Types, PoolTypes
<1>11. Types'
  BY <1>1, <1>4, <1>10 DEF Types, PoolTypes
<1>12. Books' /\ Chain' /\ UsedInOrder'
  BY <1>1, BooksKept, ChainKept DEF IInv, UsedInOrder
<1>13. QED  BY <1>6, <1>9, <1>11, <1>12 DEF IInv

\* The running task moves on or ends, and touches no more than the order of use.
LEMMA TaskMoves ==
  ASSUME IInv, lockQ # <<>>, step.at \notin {"closing", "fts"}, lockQ' = lockQ \/ Done,
         Stands(step)', step'.at \notin {"closing", "fts"},
         UNCHANGED <<file, pool, pinnedRepos, dbCache, checkpoint, call, closes>>,
         idle' \subseteq idle, UsedInOrder',
         usedBefore' \subseteq (DOMAIN pool) \X (DOMAIN pool)
  PROVE  IInv'
<1>1. Standing' /\ Counted'
  BY Moved
<1>2. lockQ' \in Seq(Tasks) /\ Chain'
  <2>1. CASE lockQ' = lockQ
    BY <2>1, ChainKept DEF IInv, Types
  <2>2. CASE Done
    BY <2>2, ChainShifted DEF IInv
  <2>3. QED  BY <2>1, <2>2
<1>3. Books'
  BY BooksKept DEF IInv
<1>4. Types'
  BY <1>2 DEF IInv, Types, PoolTypes
<1>5. QED  BY <1>1, <1>2, <1>3, <1>4 DEF IInv

\* Lookups, snapshots, ends of tasks, and an eviction that finds no victim.
LEMMA TaskMovesKeep ==
  ASSUME IInv,
         \/ InitLookup \/ IdleKept \/ TaskDone \/ CloseSnapshot
         \/ (CloseNext /\ step.left = {} /\ Done /\ UNCHANGED <<pools, call>>)
         \/ (EvictLRU /\ step' = [at |-> "open"] /\ UNCHANGED <<pools, call>>)
  PROVE  IInv'
<1>1. Types /\ PoolTypes /\ UsedInOrder /\ usedBefore \subseteq (DOMAIN pool) \X (DOMAIN pool)
  BY DEF IInv, Types, PoolTypes
<1>2. UNCHANGED <<usedBefore, pool>> =>
        UsedInOrder' /\ usedBefore' \subseteq (DOMAIN pool) \X (DOMAIN pool)
  BY <1>1 DEF UsedInOrder
<1>3. CASE InitLookup
  <2>1. /\ lockQ # <<>> /\ Task.kind = "init" /\ step.at = "start" /\ lockQ' = lockQ
        /\ UNCHANGED <<file, pool, pinnedRepos, dbCache, checkpoint, call, closes>>
        /\ Task' = Task
    BY <1>3 DEF InitLookup, Running, Task
  <2>2. CASE Task.repo \in DOMAIN pool
    <3>1. usedBefore' = Touched(Task.repo) /\ idle' \subseteq idle /\ step' = [at |-> "stat"]
      BY <1>3, <2>2 DEF InitLookup
    <3>2. UsedInOrder' /\ usedBefore' \subseteq (DOMAIN pool) \X (DOMAIN pool)
      BY <1>1, <2>1, <2>2, <3>1, TouchedOrder
    <3>3. Stands(step)' /\ step'.at = "stat"
      BY <2>1, <2>2, <3>1 DEF Stands
    <3>4. QED  BY <2>1, <3>1, <3>2, <3>3, TaskMoves
  <2>3. CASE Task.repo \notin DOMAIN pool
    <3>1. UNCHANGED <<usedBefore, idle>> /\ step' = [at |-> "evict"]
      BY <1>3, <2>3 DEF InitLookup
    <3>2. Stands(step)' /\ step'.at = "evict"
      BY <2>1, <2>3, <3>1 DEF Stands
    <3>3. QED  BY <1>2, <2>1, <3>1, <3>2, TaskMoves
  <2>4. QED  BY <2>2, <2>3
<1>4. CASE IdleKept \/ TaskDone \/ (CloseNext /\ step.left = {} /\ Done /\ UNCHANGED <<pools, call>>)
  <2>1. /\ lockQ # <<>> /\ step.at \in {"start", "done", "next"} /\ Done
        /\ UNCHANGED <<file, pool, usedBefore, pinnedRepos, dbCache, checkpoint, call, closes>>
        /\ idle' \subseteq idle
    BY <1>4 DEF IdleKept, TaskDone, CloseNext, Running, pools
  <2>2. Stands(step)' /\ step'.at = "start"
    BY <2>1 DEF Done, Stands, Start
  <2>3. QED  BY <1>2, <2>1, <2>2, TaskMoves
<1>5. CASE CloseSnapshot
  <2>1. /\ lockQ # <<>> /\ Task.kind \in {"close", "closeAll"} /\ step.at = "start"
        /\ UNCHANGED <<file, pools, lockQ, call, closes>> /\ Task' = Task
        /\ step' = [at |-> "next", left |-> IF Task.kind = "close" THEN {Task.repo} \cap DOMAIN pool
                                                                  ELSE DOMAIN pool]
    BY <1>5 DEF CloseSnapshot, Running, Task
  <2>2. Stands(step)' /\ step'.at = "next"
    <3>1. PICK R \in SUBSET DOMAIN pool : step' = [at |-> "next", left |-> R]
      BY <2>1
    <3>2. QED  BY <2>1, <3>1 DEF Stands, pools
  <2>3. QED  BY <1>2, <2>1, <2>2, TaskMoves DEF pools
<1>6. CASE EvictLRU /\ step' = [at |-> "open"] /\ UNCHANGED <<pools, call>>
  <2>1. /\ lockQ # <<>> /\ Task.kind = "init" /\ step.at = "evict"
        /\ UNCHANGED <<file, pools, lockQ, call, closes>> /\ Task' = Task
    BY <1>6 DEF EvictLRU, Running, Task
  <2>2. Task.repo \notin DOMAIN pool
    BY <2>1, Places DEF IInv
  <2>3. Stands(step)' /\ step'.at = "open"
    BY <1>6, <2>1, <2>2 DEF Stands, pools
  <2>4. QED  BY <1>2, <2>1, <2>3, TaskMoves DEF pools
<1>7. QED  BY <1>3, <1>4, <1>5, <1>6

-----------------------------------------------------------------------------
(* closeOne: an entry leaves the pool.                                     *)

\* What becomes of each call when entry r is closed: who waits at it is refused, who
\* holds a connection of it no longer counts, and those at other entries stay there.
LEMMA CallsLeft ==
  ASSUME Types, NEW r, NEW then, CloseOne(r, then)
  PROVE  /\ call' \in [Calls -> CallShapes]
         /\ \A c \in Calls :
              /\ call[c].pc \notin {"wait", "run"} => call'[c] = call[c]
              /\ call[c].pc = "wait" /\ call[c].repo # r => call'[c] = call[c]
              /\ call[c].pc = "wait" /\ call[c].repo = r => call'[c].pc \in {"ready", "done"}
              /\ call[c].pc = "run" =>
                   /\ call'[c].pc = "run" /\ call'[c].repo = call[c].repo
                   /\ call'[c].conn = call[c].conn
                   /\ call'[c].live <=> (call[c].live /\ call[c].repo # r)
<1> DEFINE p == dbPath[r]
           last == dbCache[p].refCount = 1
           Refused(c) == call[c].pc = "wait" /\ call[c].repo = r
           Left(c) ==
             IF Refused(c) THEN Failed(call[c])
             ELSE IF call[c].pc # "run" \/ dbPath[call[c].repo] # p THEN call[c]
             ELSE [call[c] EXCEPT !.live = @ /\ call[c].repo # r, !.shut = @ \/ last]
<1>1. call' = [c \in Calls |-> Left(c)]
  BY DEF CloseOne
<1>2. ASSUME NEW c \in Calls
      PROVE  /\ Left(c) \in CallShapes
             /\ call[c].pc \notin {"wait", "run"} => Left(c) = call[c]
             /\ call[c].pc = "wait" /\ call[c].repo # r => Left(c) = call[c]
             /\ call[c].pc = "wait" /\ call[c].repo = r => Left(c).pc \in {"ready", "done"}
             /\ call[c].pc = "run" =>
                  /\ Left(c).pc = "run" /\ Left(c).repo = call[c].repo
                  /\ Left(c).conn = call[c].conn
                  /\ Left(c).live <=> (call[c].live /\ call[c].repo # r)
  <2>1. call[c] \in CallShapes
    BY DEF Types
  <2>2. CASE Refused(c)
    <3>1. call[c] \in Asking
      BY <2>1, <2>2, Shapes
    <3>2. Failed(call[c]) \in CallShapes
      BY <2>1, <3>1, Shapes
    <3>3. Failed(call[c]).pc \in {"ready", "done"}
      BY DEF Failed, About, Ended
    <3>4. QED  BY <2>2, <3>2, <3>3
  <2>3. CASE ~Refused(c) /\ (call[c].pc # "run" \/ dbPath[call[c].repo] # p)
    <3>1. Left(c) = call[c]
      BY <2>3
    <3>2. call[c].pc = "run" => call[c].repo # r
      BY <2>3
    <3>3. QED  BY <2>1, <2>3, <3>1, <3>2
  <2>4. CASE ~Refused(c) /\ call[c].pc = "run" /\ dbPath[call[c].repo] = p
    <3>1. call[c] \in Using
      BY <2>1, <2>4, Shapes
    <3>2. PICK a \in BOOLEAN : a = (call[c].live /\ call[c].repo # r)
      OBVIOUS
    <3>3. PICK b \in BOOLEAN : b = (call[c].shut \/ last)
      OBVIOUS
    <3>4. Left(c) = [call[c] EXCEPT !.live = a, !.shut = b]
      BY <2>4, <3>2, <3>3
    <3> HIDE DEF Left
    <3>5. /\ Left(c) \in Using /\ Left(c).pc = "run" /\ Left(c).repo = call[c].repo
          /\ Left(c).conn = call[c].conn /\ Left(c).live = a
      <4>1. PICK k \in Using : k = call[c]
        BY <3>1
      <4>2. PICK l : l = Left(c)
        OBVIOUS
      <4>3. a \in BOOLEAN /\ b \in BOOLEAN
        BY <3>2, <3>3
      <4>4. l = [k EXCEPT !.live = a, !.shut = b]
        BY <3>4, <4>1, <4>2
      <4> DEFINE m == [k EXCEPT !.live = a]
      <4>5. m \in Using /\ m.repo = k.repo /\ m.conn = k.conn /\ m.live = a
        BY <4>3 DEF Using
      <4>6. l = [m EXCEPT !.shut = b]
        BY <4>4, <4>5 DEF Using
      <4> HIDE DEF m
      <4>7. l \in Using /\ l.repo = m.repo /\ l.conn = m.conn /\ l.live = m.live
        BY <4>3, <4>5, <4>6 DEF Using
      <4>8. l.pc = "run"
        BY <4>7 DEF Using
      <4>9. QED  BY <4>1, <4>2, <4>5, <4>7, <4>8
    <3>6. Left(c).live <=> (call[c].live /\ call[c].repo # r)
      BY <3>2, <3>5, Zenon
    <3>7. QED  BY <2>4, <3>5, <3>6 DEF CallShapes
  <2>5. QED  BY <2>2, <2>3, <2>4
<1> HIDE DEF Left
<1>3. QED  BY <1>1, <1>2

\* The books of those that stay open, and the references to every database, balance
\* when an entry leaves the pool; the last reference starts the close of its database.
LEMMA CloseOneKeeps ==
  ASSUME IInv, NEW r \in DOMAIN pool, NEW then, CloseOne(r, then), lockQ # <<>>,
         step.at \notin {"closing", "fts"}, UNCHANGED <<file, lockQ, closes>>,
         Stands(then)', then.at \in {"evict", "open", "done", "next"}
  PROVE  IInv'
<1>1. /\ Types /\ Books /\ Chain /\ Standing /\ Counted /\ checkpoint = {}
      /\ r \in Repos
  BY DEF IInv, Standing, Types, PoolTypes
<1>2. PICK p \in Paths : p = dbPath[r]
  BY <1>1, PoolAssumption
<1>3. /\ DOMAIN pool' = DOMAIN pool \ {r} /\ \A q \in DOMAIN pool' : pool'[q] = pool[q]
      /\ usedBefore' = Others(r) /\ idle' = idle \ {r}
      /\ pinnedRepos' = [pinnedRepos EXCEPT ![r] = 0]
  BY DEF CloseOne
<1>4. /\ Referring = DOMAIN pool /\ r \in Referrers(p)
      /\ IsFiniteSet(Referrers(p)) /\ Cardinality(Referrers(p)) \in Nat
  BY <1>1, <1>2, ReferrersFinite, FS_CardinalityType DEF Referring, Referrers, Running
<1>5. /\ p \in DOMAIN dbCache
      /\ dbCache[p].refCount = Cardinality(Referrers(p)) + dbCache[p].leaked
  BY <1>1, <1>4 DEF Counted
<1>6. dbCache[p] \in Databases
  BY <1>1, <1>5 DEF Types, PoolTypes
<1>7. PICK v \in {"no", "loading", "done"} :
        dbCache' = [dbCache EXCEPT ![p].refCount = @ - 1, ![p].vector = v]
  <2>1. dbCache[p].vector \in {"no", "loading", "done"}
    BY <1>6 DEF Databases
  <2>2. QED  BY <1>2, <2>1 DEF CloseOne
<1>8. /\ DOMAIN dbCache' = DOMAIN dbCache /\ \A q \in DOMAIN dbCache \ {p} : dbCache'[q] = dbCache[q]
      /\ dbCache'[p].refCount = dbCache[p].refCount - 1 /\ dbCache'[p].leaked = dbCache[p].leaked
      /\ dbCache'[p].build = dbCache[p].build /\ dbCache'[p].vector = v
  BY <1>5, <1>6, <1>7 DEF Databases
<1>9. IF dbCache[p].refCount = 1
      THEN checkpoint' = {p} /\ step' = [at |-> "closing", repo |-> r, then |-> then]
      ELSE checkpoint' = {} /\ step' = then
  BY <1>1, <1>2 DEF CloseOne
<1>10. Standing'
  <2>1. CASE dbCache[p].refCount = 1
    BY <1>1, <1>2, <1>9, <2>1 DEF Standing
  <2>2. CASE dbCache[p].refCount # 1
    BY <1>9, <2>2 DEF Standing
  <2>3. QED  BY <2>1, <2>2
<1>11. Referring' = DOMAIN pool \ {r}
  BY <1>3, <1>9 DEF Referring, Running
<1>12. /\ Referrers(p)' = Referrers(p) \ {r}
       /\ \A q \in Paths \ {p} : Referrers(q)' = Referrers(q)
  BY <1>2, <1>4, <1>11 DEF Referrers
<1>13. /\ Cardinality(Referrers(p)') = Cardinality(Referrers(p)) - 1
       /\ Cardinality(Referrers(p)) >= 1
       /\ dbCache[p].refCount \in Nat \ {0} /\ dbCache[p].leaked \in Nat
  <2>1. IsFiniteSet(Referrers(p)') /\ Cardinality(Referrers(p)') = Cardinality(Referrers(p)) - 1
    BY <1>4, <1>12, FS_RemoveElement
  <2>2. Cardinality(Referrers(p)') \in Nat
    BY <2>1, FS_CardinalityType
  <2>3. dbCache[p].leaked \in Nat
    BY <1>6 DEF Databases
  <2>4. QED  BY <1>4, <1>5, <2>1, <2>2, <2>3
<1>14. Counted'
  <2>1. ASSUME NEW q \in Paths
        PROVE  IF q \in DOMAIN dbCache'
               THEN /\ dbCache'[q].refCount = Cardinality(Referrers(q)') + dbCache'[q].leaked
                    /\ dbCache'[q].refCount = 0 <=> q \in checkpoint'
               ELSE Referrers(q)' = {}
    <3>1. CASE q = p
      <4>1. dbCache'[p].refCount = Cardinality(Referrers(p)') + dbCache'[p].leaked
        BY <1>4, <1>5, <1>8, <1>13
      <4>2. dbCache'[p].refCount = 0 <=> p \in checkpoint'
        BY <1>8, <1>9, <1>13
      <4>3. QED  BY <1>5, <1>8, <3>1, <4>1, <4>2
    <3>2. CASE q # p
      BY <1>1, <1>8, <1>9, <1>12, <3>2 DEF Counted
    <3>3. QED  BY <3>1, <3>2
  <2>2. QED  BY <2>1 DEF Counted
<1>15. UsedInOrder' /\ usedBefore' \subseteq (DOMAIN pool') \X (DOMAIN pool')
  BY <1>1, <1>3, LeftOrder DEF IInv, Types
<1>16. dbCache'[p] \in Databases
  <2>1. dbCache[p].refCount - 1 \in Nat
    BY <1>13
  <2>2. dbCache'[p] = [dbCache[p] EXCEPT !.refCount = @ - 1, !.vector = v]
    BY <1>5, <1>7
  <2>3. QED  BY <1>5, <1>6, <2>1, <2>2 DEF Databases
<1>17. Types'
  <2>1. pinnedRepos' \in [Repos -> 0..MaxPins]
    BY <1>1, <1>3, PoolAssumption DEF Types, PoolTypes
  <2>2. call' \in [Calls -> CallShapes]
    BY <1>1, CallsLeft
  <2>3. QED  BY <1>1, <1>3, <1>8, <1>15, <1>16, <2>1, <2>2 DEF Types, PoolTypes
<1>18. Chain'
  BY <1>1, CallsLeft, ChainKept
<1>19. ASSUME NEW q \in DOMAIN pool' PROVE Booked(q)'
  <2>1. q \in DOMAIN pool /\ q # r /\ Booked(q) /\ pool'[q] = pool[q]
    BY <1>1, <1>3 DEF Books
  <2>2. ASSUME NEW c \in Calls
        PROVE  /\ c \in Users(q)' <=> c \in Users(q)
               /\ c \in Users(q) => call'[c].pc = call[c].pc /\ call'[c].conn = call[c].conn
    <3>1. CASE call[c].pc = "run"
      BY <1>1, <2>1, <3>1, CallsLeft DEF Users
    <3>2. CASE call[c].pc # "run"
      BY <1>1, <2>1, <3>2, CallsLeft DEF Users
    <3>3. QED  BY <3>1, <3>2
  <2>3. Users(q)' = Users(q)
    BY <2>2 DEF Users
  <2>4. \A c \in Users(q) : call'[c].pc = call[c].pc /\ call'[c].conn = call[c].conn
    BY <2>2 DEF Users
  <2>5. QED  BY <2>1, <2>3, <2>4, BookedKept
<1>20. ASSUME NEW c \in Calls, call'[c].pc = "wait" \/ (call'[c].pc = "run" /\ call'[c].live)
       PROVE  call'[c].repo \in DOMAIN pool'
  BY <1>1, <1>3, <1>20, CallsLeft DEF Books
<1>21. Books'
  BY <1>19, <1>20 DEF Books
<1>22. QED  BY <1>10, <1>14, <1>15, <1>17, <1>18, <1>21 DEF IInv

\* The four tasks that close an entry: a reopen, an eviction, an idle close, a teardown.
LEMMA ClosesKeep ==
  ASSUME IInv, InitRoll \/ EvictLRU \/ IdleClose \/ CloseNext
  PROVE  IInv'
<1>1. Types /\ Chain /\ Standing
  BY DEF IInv
<1>2. CASE InitRoll
  <2>1. /\ lockQ # <<>> /\ Task.kind = "init" /\ step.at = "stat"
        /\ CloseOne(Task.repo, [at |-> "evict"])
        /\ UNCHANGED <<file, lockQ, closes>> /\ Task' = Task
    BY <1>2 DEF InitRoll, Running, Task
  <2>2. PICK r \in DOMAIN pool : r = Task.repo
    BY <1>1, <2>1, Places
  <2>3. Stands([at |-> "evict"])'
    BY <2>1, <2>2 DEF Stands, CloseOne
  <2>4. QED  BY <2>1, <2>2, <2>3, CloseOneKeeps
<1>3. CASE EvictLRU
  <2>1. /\ lockQ # <<>> /\ Task.kind = "init" /\ step.at = "evict"
        /\ UNCHANGED <<file, lockQ, closes>> /\ Task' = Task
    BY <1>3 DEF EvictLRU, Running, Task
  <2>2. Task.repo \notin DOMAIN pool
    BY <1>1, <2>1, Places
  <2>3. CASE step' = [at |-> "open"] /\ UNCHANGED <<pools, call>>
    BY <1>3, <2>3, TaskMovesKeep
  <2>4. ASSUME NEW r \in DOMAIN pool, CloseOne(r, [at |-> "open"])
        PROVE  IInv'
    <3>1. Stands([at |-> "open"])'
      BY <2>1, <2>2, <2>4 DEF Stands, CloseOne
    <3>2. QED  BY <2>1, <2>4, <3>1, CloseOneKeeps
  <2>5. QED  BY <1>3, <2>3, <2>4 DEF EvictLRU
<1>4. CASE IdleClose
  <2>1. /\ lockQ # <<>> /\ Task.kind = "idle" /\ step.at = "start"
        /\ CloseOne(Task.repo, [at |-> "done"]) /\ Task.repo \in DOMAIN pool
        /\ UNCHANGED <<file, lockQ, closes>> /\ Task' = Task
    BY <1>4 DEF IdleClose, Running, Task, StillIdle
  <2>2. Stands([at |-> "done"])'
    BY <2>1 DEF Stands
  <2>3. QED  BY <2>1, <2>2, CloseOneKeeps
<1>5. CASE CloseNext
  <2>1. /\ lockQ # <<>> /\ step.at = "next" /\ UNCHANGED <<file, closes>>
        /\ Task.kind \in {"close", "closeAll"}
        /\ step \in [at : {"next"}, left : SUBSET DOMAIN pool]
    BY <1>1, <1>5, Places DEF CloseNext
  <2>2. CASE step.left = {} /\ Done /\ UNCHANGED <<pools, call>>
    BY <1>5, <2>2, TaskMovesKeep
  <2>3. ASSUME NEW r \in step.left, UNCHANGED lockQ, CloseOne(r, [step EXCEPT !.left = @ \ {r}])
        PROVE  IInv'
    <3>1. PICK then : then = [step EXCEPT !.left = @ \ {r}]
      OBVIOUS
    <3>2. r \in DOMAIN pool /\ step.left \subseteq DOMAIN pool /\ Task' = Task
      BY <2>1, <2>3 DEF Task
    <3>3. then = [at |-> "next", left |-> step.left \ {r}]
      BY <2>1, <3>1
    <3>4. step.left \ {r} \in SUBSET DOMAIN pool'
      BY <2>3, <3>2 DEF CloseOne
    <3>5. Stands(then)' /\ then.at = "next"
      BY <2>1, <3>2, <3>3, <3>4 DEF Stands
    <3>6. QED  BY <2>1, <2>3, <3>1, <3>2, <3>5, CloseOneKeeps
  <2>4. QED  BY <1>5, <2>2, <2>3 DEF CloseNext
<1>6. QED  BY <1>2, <1>3, <1>4, <1>5

-----------------------------------------------------------------------------
(* Steps outside the mutex that touch no connection.                       *)

\* A call moves, without a connection and without waiting for one, before and after;
\* it may queue an initLbug for itself.
LEMMA CallMoves ==
  ASSUME IInv, NEW c \in Calls, NEW k \in CallShapes, call' = [call EXCEPT ![c] = k],
         call[c].pc \notin {"wait", "run", "queued"}, k.pc \notin {"wait", "run"},
         UNCHANGED <<file, pools, step, closes>>,
         \/ lockQ' = lockQ
         \/ /\ k.pc = "queued" /\ k.repo \in Repos
            /\ lockQ' = Append(lockQ, [kind |-> "init", repo |-> k.repo, who |-> c])
  PROVE  IInv'
<1>1. Types /\ Chain /\ (lockQ = <<>> => step = Start)
  BY DEF IInv, Chain
<1>2. /\ call' \in [Calls -> CallShapes] /\ call'[c] = k
      /\ \A d \in Calls \ {c} : call'[d] = call[d]
  BY <1>1 DEF Types
<1>3. lockQ' \in Seq(Tasks) /\ Chain' /\ (lockQ # <<>> => lockQ' # <<>> /\ Task' = Task)
  <2>1. CASE lockQ' = lockQ
    BY <1>1, <1>2, <2>1, ChainKept DEF Types, Task
  <2>2. ASSUME k.pc = "queued", k.repo \in Repos,
               lockQ' = Append(lockQ, [kind |-> "init", repo |-> k.repo, who |-> c])
        PROVE  lockQ' \in Seq(Tasks) /\ Chain' /\ (lockQ # <<>> => lockQ' # <<>> /\ Task' = Task)
    <3>1. PICK t \in Tasks : t = [kind |-> "init", repo |-> k.repo, who |-> c]
      BY <2>2 DEF Tasks, InitTasks
    <3>2. t.kind = "init" /\ t.who = c /\ t.repo = k.repo /\ lockQ' = Append(lockQ, t)
      BY <2>2, <3>1
    <3>3. call[t.who].pc # "queued" /\ call'[t.who].pc = "queued" /\ call'[t.who].repo = t.repo
      BY <1>2, <2>2, <3>2
    <3>4. \A d \in Calls : call'[d] = call[d] \/ (t.kind = "init" /\ d = t.who)
      BY <1>2, <3>2
    <3>5. QED  BY <1>1, <3>2, <3>3, <3>4, ChainPushed
  <2>3. QED  BY <2>1, <2>2
<1>4. Books'
  BY <1>2, BooksKept DEF IInv, pools
<1>5. Standing' /\ Counted'
  BY <1>1, <1>3, Suspended DEF pools
<1>6. Types' /\ UsedInOrder'
  BY <1>2, <1>3 DEF IInv, Types, PoolTypes, UsedInOrder, pools
<1>7. QED  BY <1>3, <1>4, <1>5, <1>6 DEF IInv

\* Dispatches, retries, refusals and the joins of a load of the extension.
LEMMA CallMovesKeep ==
  ASSUME IInv, NEW c \in Calls,
         \/ RetryInit(c) \/ QueryNotReady(c) \/ JoinVector(c) \/ JoinReturns(c)
         \/ \E r \in Repos : Dispatch(c, r)
  PROVE  IInv'
<1>1. call[c] \in CallShapes /\ Ended \in CallShapes /\ Ended.pc = "done"
  BY Shapes DEF IInv, Types, Ended
<1>2. CASE RetryInit(c)
  <2>1. call[c] \in Opening /\ call[c].pc = "sleep"
    BY <1>1, <1>2, Shapes DEF RetryInit
  <2>2. PICK k \in Opening : k = [call[c] EXCEPT !.pc = "queued"]
    BY <2>1 DEF Opening
  <2>3. k.pc = "queued" /\ k.repo = call[c].repo /\ k.repo \in Repos /\ k \in CallShapes
    BY <2>1, <2>2 DEF Opening, CallShapes
  <2>4. /\ call' = [call EXCEPT ![c] = k]
        /\ lockQ' = Append(lockQ, [kind |-> "init", repo |-> k.repo, who |-> c])
        /\ UNCHANGED <<file, pools, step, closes>>
    BY <1>2, <2>2, <2>3 DEF RetryInit
  <2>5. QED  BY <2>1, <2>3, <2>4, CallMoves
<1>3. CASE QueryNotReady(c)
  BY <1>1, <1>3, CallMoves DEF QueryNotReady
<1>4. CASE JoinVector(c)
  <2>1. call[c] \in Asking /\ call[c].pc = "ready"
    BY <1>1, <1>4, Shapes DEF JoinVector, Ready
  <2>2. PICK k : k = IF dbCache[dbPath[call[c].repo]].vector = "loading"
                     THEN [call[c] EXCEPT !.pc = "join"] ELSE [call[c] EXCEPT !.use = "query"]
    OBVIOUS
  <2>3. k \in Asking /\ k.pc \in {"ready", "join"}
    BY <2>1, <2>2 DEF Asking, Uses
  <2>4. call' = [call EXCEPT ![c] = k] /\ UNCHANGED <<file, pools, lockQ, step, closes>>
    BY <1>4, <2>2 DEF JoinVector
  <2>5. QED  BY <2>1, <2>3, <2>4, CallMoves DEF CallShapes
<1>5. CASE JoinReturns(c)
  <2>1. call[c] \in Asking /\ call[c].pc = "join"
    BY <1>1, <1>5, Shapes DEF JoinReturns
  <2>2. About(call[c], "query") \in Asking /\ About(call[c], "query").pc = "ready"
    BY <2>1 DEF About, Asking, Uses
  <2>3. QED  BY <1>5, <2>1, <2>2, CallMoves DEF CallShapes, JoinReturns
<1>6. ASSUME NEW r \in Repos, Dispatch(c, r) PROVE IInv'
  <2>1. call[c].pc = "new" /\ UNCHANGED <<file, pools, step, closes>>
    BY <1>6 DEF Dispatch
  <2>2. ASSUME call' = [call EXCEPT ![c] = About([repo |-> r], Purpose(c))], UNCHANGED lockQ
        PROVE  IInv'
    <3>1. /\ About([repo |-> r], Purpose(c)) \in Asking
          /\ About([repo |-> r], Purpose(c)).pc = "ready"
      BY DEF About, Purpose, Asking, Uses
    <3>2. QED  BY <2>1, <2>2, <3>1, CallMoves DEF CallShapes
  <2>3. ASSUME call' = [call EXCEPT ![c] = [pc |-> "queued", repo |-> r, attempt |-> 1]],
               lockQ' = Append(lockQ, [kind |-> "init", repo |-> r, who |-> c])
        PROVE  IInv'
    <3>1. PICK k \in Opening : k = [pc |-> "queued", repo |-> r, attempt |-> 1]
      BY DEF Opening
    <3>2. k.pc = "queued" /\ k.repo = r /\ k \in CallShapes
      BY <3>1 DEF CallShapes
    <3>3. QED  BY <2>1, <2>3, <3>1, <3>2, CallMoves
  <2>4. QED  BY <1>6, <2>2, <2>3 DEF Dispatch
<1>7. QED  BY <1>2, <1>3, <1>4, <1>5, <1>6

\* The sweep and a teardown queue a task, pins come and go, and analyze replaces files.
LEMMA OutsideKeeps ==
  ASSUME IInv,
         \/ CloseAll
         \/ \E r \in Repos : IdleSweep(r) \/ CloseRepo(r) \/ PinRepo(r) \/ UnpinRepo(r)
         \/ \E p \in Paths : Swap(p) \/ Unlink(p)
  PROVE  IInv'
<1>1. Types /\ PoolTypes /\ Chain /\ (lockQ = <<>> => step = Start)
  BY DEF IInv, Chain, Types
<1>2. /\ UNCHANGED <<call, pool, usedBefore, dbCache, checkpoint, step>>
      /\ file' \in [Paths -> Files] /\ pinnedRepos' \in [Repos -> 0..MaxPins]
      /\ idle' \subseteq DOMAIN pool /\ closes' \in 0..MaxCloses
      /\ lockQ' = lockQ \/ \E t \in Tasks : t.kind # "init" /\ lockQ' = Append(lockQ, t)
  <2>0. \A t : t.kind \in {"idle", "close"} => t.kind # "init"
    OBVIOUS
  <2>1. ASSUME NEW t \in Tasks, t.kind # "init", CloseLbug(t)
        PROVE  <1>2!:
    <3>1. closes' \in 0..MaxCloses
      BY <1>1, <2>1, PoolAssumption DEF PoolTypes, CloseLbug
    <3>2. QED  BY <1>1, <2>1, <3>1 DEF PoolTypes, CloseLbug, pools
  <2>2. CASE CloseAll
    <3>1. [kind |-> "closeAll"] \in Tasks /\ [kind |-> "closeAll"].kind # "init"
      BY DEF Tasks
    <3>2. QED  BY <2>1, <2>2, <3>1 DEF CloseAll
  <2>3. ASSUME NEW r \in Repos, CloseRepo(r) PROVE <1>2!:
    <3>1. PICK t \in Tasks : t = [kind |-> "close", repo |-> r]
      BY DEF Tasks
    <3>2. t.kind # "init" /\ CloseLbug(t)
      BY <2>3, <3>1 DEF CloseRepo
    <3>3. QED  BY <2>1, <3>2
  <2>4. ASSUME NEW r \in Repos, IdleSweep(r) PROVE <1>2!:
    <3>1. PICK t \in Tasks : t = [kind |-> "idle", repo |-> r]
      BY DEF Tasks
    <3>2. t.kind # "init" /\ lockQ' = Append(lockQ, t)
      BY <2>4, <3>1 DEF IdleSweep
    <3>3. QED  BY <1>1, <2>4, <3>2 DEF IdleSweep, PoolTypes
  <2>5. ASSUME NEW r \in Repos, PinRepo(r) \/ UnpinRepo(r) PROVE <1>2!:
    <3>1. pinnedRepos' \in [Repos -> 0..MaxPins]
      BY <1>1, <2>5, PoolAssumption, SMTT(30) DEF PoolTypes, PinRepo, UnpinRepo
    <3>2. QED  BY <1>1, <2>5, <3>1 DEF PoolTypes, PinRepo, UnpinRepo
  <2>6. ASSUME NEW p \in Paths, Swap(p) \/ Unlink(p) PROVE <1>2!:
    <3>1. file[p] \in Files /\ file[p].build \in 1..MaxBuilds + 1 /\ MaxBuilds \in Nat
      BY <1>1, PoolAssumption DEF PoolTypes, Files
    <3>2. file' \in [Paths -> Files]
      <4>1. CASE Swap(p)
        BY <1>1, <3>1, <4>1 DEF PoolTypes, Files, Swap
      <4>2. CASE Unlink(p)
        BY <1>1, <3>1, <4>2 DEF PoolTypes, Files, Unlink
      <4>3. QED  BY <2>6, <4>1, <4>2
    <3>3. QED  BY <1>1, <2>6, <3>2 DEF PoolTypes, Swap, Unlink, pools
  <2>7. QED  BY <2>2, <2>3, <2>4, <2>5, <2>6
<1>3. lockQ' \in Seq(Tasks) /\ Chain' /\ (lockQ # <<>> => lockQ' # <<>> /\ Task' = Task)
  <2>1. CASE lockQ' = lockQ
    BY <1>1, <1>2, <2>1, ChainKept DEF Types, Task
  <2>2. ASSUME NEW t \in Tasks, t.kind # "init", lockQ' = Append(lockQ, t)
        PROVE  <1>3!:
    BY <1>1, <1>2, <2>2, ChainPushed
  <2>3. QED  BY <1>2, <2>1, <2>2
<1>4. Books'
  BY <1>2, BooksKept DEF IInv
<1>5. Standing' /\ Counted'
  BY <1>1, <1>2, <1>3, Suspended
<1>6. Types' /\ UsedInOrder'
  BY <1>1, <1>2, <1>3 DEF IInv, Types, PoolTypes, UsedInOrder
<1>7. QED  BY <1>3, <1>4, <1>5, <1>6 DEF IInv

-----------------------------------------------------------------------------
(* checkout, checkin and the timeout of a waiter.                          *)

\* Nothing but the record of the vector extension changes in the databases.
VectorOnly ==
  /\ DOMAIN dbCache' = DOMAIN dbCache
  /\ \A p \in DOMAIN dbCache : /\ dbCache'[p] \in Databases
                               /\ dbCache'[p].refCount = dbCache[p].refCount
                               /\ dbCache'[p].leaked = dbCache[p].leaked

\* Setting that record is such a change.
LEMMA VectorSet ==
  ASSUME Types, NEW p, NEW v \in {"no", "loading", "done"},
         UNCHANGED dbCache \/ dbCache' = [dbCache EXCEPT ![p].vector = v]
  PROVE  VectorOnly
<1>1. \A q \in DOMAIN dbCache : dbCache[q] \in Databases
  BY DEF Types, PoolTypes
<1>2. CASE UNCHANGED dbCache
  BY <1>1, <1>2 DEF VectorOnly
<1>3. CASE dbCache' = [dbCache EXCEPT ![p].vector = v]
  <2>1. DOMAIN dbCache' = DOMAIN dbCache
    BY <1>3
  <2>2. ASSUME NEW q \in DOMAIN dbCache
        PROVE  /\ dbCache'[q] \in Databases /\ dbCache'[q].refCount = dbCache[q].refCount
               /\ dbCache'[q].leaked = dbCache[q].leaked
    <3>1. PICK d \in Databases : d = dbCache[q]
      BY <1>1
    <3>2. dbCache'[q] = d \/ dbCache'[q] = [d EXCEPT !.vector = v]
      BY <1>3, <3>1
    <3>3. QED  BY <3>1, <3>2 DEF Databases
  <2>3. QED  BY <2>1, <2>2 DEF VectorOnly
<1>4. QED  BY <1>2, <1>3

\* Only calls of entry r moved: the pool keeps its invariant when that entry does.
LEMMA EntryKeeps ==
  ASSUME IInv, NEW r \in DOMAIN pool, DOMAIN pool' = DOMAIN pool,
         \A q \in DOMAIN pool \ {r} : pool'[q] = pool[q],
         pool'[r] \in Entries, Booked(r)', call' \in [Calls -> CallShapes],
         \A d \in Calls : \/ call'[d] = call[d]
                          \/ /\ call[d].pc # "queued" /\ call[d].repo = r
                             /\ call'[d].pc \in {"wait", "run"} => call'[d].repo = r,
         usedBefore' = usedBefore \/ usedBefore' = Touched(r), idle' \subseteq idle,
         VectorOnly, UNCHANGED <<file, pinnedRepos, checkpoint, lockQ, step, closes>>
  PROVE  IInv'
<1>1. Types /\ PoolTypes /\ Books /\ Chain
  BY DEF IInv, Types
<1>2. Books'
  <2>1. ASSUME NEW q \in DOMAIN pool, q # r PROVE Booked(q)'
    <3>1. Users(q)' = Users(q) /\ \A c \in Users(q) : call'[c] = call[c]
      BY <2>1 DEF Users
    <3>2. Booked(q) /\ pool'[q] = pool[q]
      BY <1>1, <2>1 DEF Books
    <3>3. QED  BY <3>1, <3>2, BookedKept
  <2>2. ASSUME NEW d \in Calls, call'[d].pc = "wait" \/ (call'[d].pc = "run" /\ call'[d].live)
        PROVE  call'[d].repo \in DOMAIN pool
    BY <1>1, <2>2 DEF Books
  <2>3. QED  BY <2>1, <2>2 DEF Books
<1>3. UsedInOrder' /\ usedBefore' \subseteq (DOMAIN pool') \X (DOMAIN pool')
  <2>1. CASE usedBefore' = usedBefore
    BY <1>1, <2>1 DEF IInv, UsedInOrder, PoolTypes
  <2>2. CASE usedBefore' = Touched(r)
    BY <1>1, <2>2, TouchedOrder DEF IInv
  <2>3. QED  BY <2>1, <2>2
<1>4. Chain'
  BY <1>1, ChainKept
<1>5. Standing' /\ Counted'
  BY <1>1, Suspended DEF VectorOnly, Task, Chain
<1>6. Types'
  BY <1>1, <1>3 DEF Types, PoolTypes, VectorOnly
<1>7. QED  BY <1>2, <1>3, <1>4, <1>5, <1>6 DEF IInv

\* A call that gets a connection.
LEMMA HoldingShape ==
  ASSUME NEW k \in Asking, NEW conn \in Conns, NEW h, h = Holding(k, conn)
  PROVE  /\ h \in Using /\ h \in CallShapes /\ h.pc = "run" /\ h.repo = k.repo
         /\ h.conn = conn /\ h.live
BY DEF Holding, Asking, Using, CallShapes

\* checkout: the connection on top of the stack is in nobody's hands, and a call queues
\* only when the stack is empty.
LEMMA CheckoutKeeps ==
  ASSUME IInv, NEW c \in Calls, NEW use, Ready(c, use), Checkout(c), VectorOnly,
         UNCHANGED <<file, pinnedRepos, checkpoint, lockQ, step, closes>>
  PROVE  IInv'
<1>1. PICK r \in DOMAIN pool : r = call[c].repo
  BY DEF Ready
<1>2. Types /\ Booked(r) /\ pool[r] \in Entries /\ call[c] \in CallShapes
  BY DEF IInv, Types, PoolTypes, Books
<1>3. PICK e \in Entries : e = pool[r]
  BY <1>2
<1>4. PICK k \in Asking : k = call[c] /\ k.pc = "ready" /\ k.repo = r
  BY <1>1, <1>2, Shapes DEF Ready
<1>5. /\ e.available \in Seq(Conns) /\ e.waiters \in Seq(Calls) /\ e.checkedOut \in Nat
      /\ e.dbIdentity \in 0..MaxBuilds + 1
      /\ IsInjective(e.available) /\ ToSet(e.available) = Conns \ Held(r)
      /\ IsInjective(e.waiters) /\ ToSet(e.waiters) = Waiting(r)
      /\ e.checkedOut = Cardinality(Holders(r))
      /\ e.waiters # <<>> => e.available = <<>>
  BY <1>2, <1>3 DEF Entries, Booked
<1>6. /\ c \notin Users(r) /\ c \notin Holders(r) /\ c \notin Waiting(r)
      /\ IsFiniteSet(Holders(r))
  BY <1>4, Finite DEF Users, Holders, Waiting
<1>7. CASE e.available # <<>>
  <2>0. PICK h : h = Holding(k, Last(e.available))
    OBVIOUS
  <2>1. /\ Front(e.available) \in Seq(Conns) /\ IsInjective(Front(e.available))
        /\ Last(e.available) \in Conns /\ Last(e.available) \in ToSet(e.available)
        /\ ToSet(Front(e.available)) = ToSet(e.available) \ {Last(e.available)}
    BY <1>5, <1>7, Popped
  <2>2. /\ h \in Using /\ h \in CallShapes /\ h.pc = "run" /\ h.repo = r
        /\ h.conn = Last(e.available) /\ h.live
    BY <1>4, <2>0, <2>1, HoldingShape
  <2>3. /\ call' = [call EXCEPT ![c] = h]
        /\ pool' = [pool EXCEPT ![r].available = Front(@), ![r].checkedOut = @ + 1]
        /\ usedBefore' = usedBefore \/ usedBefore' = Touched(r)
        /\ idle' \subseteq idle
    BY <1>1, <1>3, <1>4, <1>7, <2>0 DEF Checkout
  <2>4. /\ call' \in [Calls -> CallShapes] /\ call'[c] = h
        /\ \A d \in Calls \ {c} : call'[d] = call[d]
    BY <1>2, <2>2, <2>3 DEF Types
  <2>5. /\ DOMAIN pool' = DOMAIN pool /\ \A q \in DOMAIN pool \ {r} : pool'[q] = pool[q]
        /\ pool'[r] = [available |-> Front(e.available), checkedOut |-> e.checkedOut + 1,
                       waiters |-> e.waiters, dbIdentity |-> e.dbIdentity]
    BY <1>3, <2>3 DEF Entries
  <2>6. pool'[r] \in Entries
    BY <1>5, <2>1, <2>5 DEF Entries
  <2>7. /\ Holders(r)' = Holders(r) \cup {c} /\ Waiting(r)' = Waiting(r)
    BY <1>6, <2>2, <2>4 DEF Holders, Users, Waiting
  <2>8. Held(r)' = Held(r) \cup {Last(e.available)}
    BY <1>6, <2>2, <2>4, <2>7 DEF Held, Holders, Users
  <2>9. /\ Cardinality(Holders(r)') = Cardinality(Holders(r)) + 1
    BY <1>6, <2>7, FS_AddElement
  <2>10. \A a, b \in Holders(r)' : call'[a].conn = call'[b].conn => a = b
    <3>1. \A a \in Holders(r) : a \in Calls \ {c} /\ call[a].conn # Last(e.available)
      BY <1>5, <1>6, <2>1 DEF Held, Holders, Users
    <3>2. QED  BY <1>2, <2>2, <2>4, <2>7, <3>1 DEF Booked
  <2>11. e.waiters = <<>>
    BY <1>5, <1>7
  <2>12. Booked(r)'
    BY <1>5, <2>1, <2>5, <2>7, <2>8, <2>9, <2>10, <2>11 DEF Booked
  <2>13. QED  BY <1>4, <2>2, <2>3, <2>4, <2>5, <2>6, <2>12, EntryKeeps
<1>8. CASE e.available = <<>>
  <2> DEFINE h == [k EXCEPT !.pc = "wait"]
  <2>1. h \in Asking /\ h.pc = "wait" /\ h.repo = r
    BY <1>4 DEF Asking
  <2>2. /\ Append(e.waiters, c) \in Seq(Calls) /\ IsInjective(Append(e.waiters, c))
        /\ ToSet(Append(e.waiters, c)) = ToSet(e.waiters) \cup {c}
    BY <1>5, <1>6, Pushed
  <2>3. /\ call' = [call EXCEPT ![c] = h]
        /\ pool' = [pool EXCEPT ![r].waiters = Append(@, c)]
        /\ usedBefore' = usedBefore /\ idle' = idle
    BY <1>1, <1>3, <1>4, <1>8 DEF Checkout
  <2> HIDE DEF h
  <2>4. /\ call' \in [Calls -> CallShapes] /\ call'[c] = h
        /\ \A d \in Calls \ {c} : call'[d] = call[d]
    BY <1>2, <2>1, <2>3 DEF Types, CallShapes
  <2>5. /\ DOMAIN pool' = DOMAIN pool /\ \A q \in DOMAIN pool \ {r} : pool'[q] = pool[q]
        /\ pool'[r] = [available |-> e.available, checkedOut |-> e.checkedOut,
                       waiters |-> Append(e.waiters, c), dbIdentity |-> e.dbIdentity]
    BY <1>3, <2>3 DEF Entries
  <2>6. pool'[r] \in Entries
    BY <1>5, <2>2, <2>5 DEF Entries
  <2>7. Holders(r)' = Holders(r) /\ Waiting(r)' = Waiting(r) \cup {c}
    BY <1>6, <2>1, <2>4 DEF Holders, Users, Waiting
  <2>8. \A d \in Holders(r) : call'[d] = call[d]
    BY <1>6, <2>4 DEF Holders, Users
  <2>9. Held(r)' = Held(r)
    BY <2>7, <2>8 DEF Held
  <2>10. Booked(r)'
    BY <1>2, <1>5, <1>8, <2>2, <2>5, <2>7, <2>8, <2>9 DEF Booked
  <2>11. QED  BY <1>4, <2>1, <2>3, <2>4, <2>5, <2>6, <2>10, EntryKeeps
<1>9. QED  BY <1>7, <1>8

\* A query, or the load of the extension, asks for its connection.
LEMMA AskKeeps ==
  ASSUME IInv, NEW c \in Calls, Query(c) \/ LoadVector(c)
  PROVE  IInv'
<1>1. CASE Query(c)
  <2>1. Ready(c, "query") /\ Checkout(c) /\ UNCHANGED dbCache
        /\ UNCHANGED <<file, pinnedRepos, checkpoint, lockQ, step, closes>>
    BY <1>1 DEF Query
  <2>2. VectorOnly
    BY <2>1, VectorSet DEF IInv
  <2>3. QED  BY <2>1, <2>2, CheckoutKeeps
<1>2. CASE LoadVector(c)
  <2>1. /\ Ready(c, "vector") /\ Checkout(c)
        /\ dbCache' = [dbCache EXCEPT ![dbPath[call[c].repo]].vector = "loading"]
        /\ UNCHANGED <<file, pinnedRepos, checkpoint, lockQ, step, closes>>
    BY <1>2 DEF LoadVector
  <2>2. VectorOnly
    BY <2>1, VectorSet DEF IInv
  <2>3. QED  BY <2>1, <2>2, CheckoutKeeps
<1>3. QED  BY <1>1, <1>2

\* What a call leaves in the record of the extension is such a change, too.
LEMMA VectorAfterOnly ==
  ASSUME Types, NEW c, NEW vs \in SUBSET {"no", "done"}, VectorAfter(c, vs)
  PROVE  VectorOnly
BY VectorSet DEF VectorAfter

\* A connection of an entry that is no longer open goes with its call.
LEMMA OrphanReturns ==
  ASSUME IInv, NEW c \in Calls, QueryReturns(c), ~call[c].live
  PROVE  IInv'
<1>1. Types /\ Books /\ Chain /\ call[c].pc = "run" /\ call[c] \in CallShapes
  BY DEF IInv, Types, QueryReturns
<1>2. VectorOnly
  BY <1>1, VectorAfterOnly DEF QueryReturns
<1>3. PICK k \in CallShapes : call' = [call EXCEPT ![c] = k] /\ k.pc \in {"ready", "done"}
  <2>1. call[c] \in Using
    BY <1>1, Shapes
  <2>2. Ended \in CallShapes /\ Ended.pc = "done"
    BY <1>1, Shapes DEF Ended
  <2>3. About(call[c], "query") \in CallShapes /\ About(call[c], "query").pc = "ready"
    BY <2>1 DEF About, Using, Asking, Uses, CallShapes
  <2>4. QED  BY <2>2, <2>3 DEF QueryReturns, Checkin, StillOpen
<1>4. /\ UNCHANGED <<pool, usedBefore, idle, file, pinnedRepos, checkpoint, lockQ, step, closes>>
  BY DEF QueryReturns, Checkin, StillOpen
<1>5. /\ call' \in [Calls -> CallShapes] /\ call'[c].pc \in {"ready", "done"}
      /\ \A d \in Calls \ {c} : call'[d] = call[d]
  BY <1>1, <1>3 DEF Types
<1>6. Books'
  <2>1. ASSUME NEW q \in DOMAIN pool PROVE Booked(q)'
    <3>1. Users(q)' = Users(q) /\ \A d \in Users(q) : call'[d] = call[d]
      BY <1>1, <1>5 DEF Users
    <3>2. QED  BY <1>1, <1>4, <3>1, BookedKept DEF Books
  <2>2. QED  BY <1>1, <1>4, <1>5, <2>1 DEF Books
<1>7. Chain'
  BY <1>1, <1>4, <1>5, ChainKept
<1>8. Standing' /\ Counted'
  BY <1>1, <1>2, <1>4, Suspended DEF VectorOnly, Task, Chain
<1>9. Types' /\ UsedInOrder'
  BY <1>1, <1>2, <1>4, <1>5 DEF IInv, Types, PoolTypes, VectorOnly, UsedInOrder
<1>10. QED  BY <1>6, <1>7, <1>8, <1>9 DEF IInv

\* checkin: a connection passes to the first that waits, who alone leaves the queue, or
\* goes back on a stack that nobody waits for.
LEMMA CheckinKeeps ==
  ASSUME IInv, NEW c \in Calls, QueryReturns(c), call[c].live
  PROVE  IInv'
<1>1. Types /\ Books /\ call[c].pc = "run" /\ call[c] \in CallShapes
  BY DEF IInv, Types, QueryReturns
<1>2. PICK k \in Using : k = call[c]
  BY <1>1, Shapes
<1>3. PICK r \in DOMAIN pool : r = k.repo
  BY <1>1, <1>2 DEF Books
<1>4. Booked(r) /\ pool[r] \in Entries
  BY <1>1 DEF Types, PoolTypes, Books
<1>5. PICK e \in Entries : e = pool[r]
  BY <1>4
<1>6. /\ e.available \in Seq(Conns) /\ e.waiters \in Seq(Calls) /\ e.checkedOut \in Nat
      /\ e.dbIdentity \in 0..MaxBuilds + 1
      /\ IsInjective(e.available) /\ ToSet(e.available) = Conns \ Held(r)
      /\ IsInjective(e.waiters) /\ ToSet(e.waiters) = Waiting(r)
      /\ e.checkedOut = Cardinality(Holders(r))
      /\ e.waiters # <<>> => e.available = <<>>
  BY <1>4, <1>5 DEF Entries, Booked
<1>7. /\ c \in Holders(r) /\ c \notin Waiting(r) /\ k.conn \in Held(r) /\ k.conn \in Conns
      /\ IsFiniteSet(Holders(r))
  BY <1>1, <1>2, <1>3, Finite DEF Users, Holders, Waiting, Held, Using
<1>8. PICK a \in CallShapes : /\ a = IF k.use = "query" THEN Ended ELSE About(k, "query")
                              /\ a.pc \in {"ready", "done"}
  <2>1. Ended \in CallShapes /\ Ended.pc = "done"
    BY <1>1, Shapes DEF Ended
  <2>2. About(k, "query") \in CallShapes /\ About(k, "query").pc = "ready"
    BY DEF About, Using, Asking, Uses, CallShapes
  <2>3. QED  BY <2>1, <2>2
<1>9. /\ VectorOnly /\ Checkin(c, TRUE)
      /\ UNCHANGED <<file, pinnedRepos, checkpoint, lockQ, step, closes>>
  BY <1>1, VectorAfterOnly DEF QueryReturns, StillOpen, Checkin
<1>10. CASE e.waiters # <<>>
  <2>0. PICK f : f = Head(e.waiters)
    OBVIOUS
  <2>1. /\ Tail(e.waiters) \in Seq(Calls) /\ IsInjective(Tail(e.waiters)) /\ f \in Calls
        /\ f \in ToSet(e.waiters) /\ ToSet(Tail(e.waiters)) = ToSet(e.waiters) \ {f}
    BY <1>6, <1>10, <2>0, Shifted
  <2>2. f \in Waiting(r) /\ f # c /\ call[f].pc = "wait" /\ call[f].repo = r
    BY <1>6, <1>7, <2>1 DEF Waiting, Users
  <2>3. call[f] \in Asking
    BY <1>1, <2>1, <2>2, Shapes DEF Types
  <2>4. PICK h : h = Holding(call[f], k.conn)
    OBVIOUS
  <2>5. h \in CallShapes /\ h.pc = "run" /\ h.repo = r /\ h.conn = k.conn /\ h.live
    BY <1>7, <2>2, <2>3, <2>4, HoldingShape
  <2>6. /\ call' = [call EXCEPT ![c] = a, ![f] = h]
        /\ pool' = [pool EXCEPT ![r].waiters = Tail(@)]
        /\ usedBefore' = usedBefore \/ usedBefore' = Touched(r)
        /\ idle' \subseteq idle
    BY <1>2, <1>3, <1>5, <1>8, <1>9, <1>10, <2>0, <2>2, <2>4 DEF Checkin
  <2>7. /\ call' \in [Calls -> CallShapes] /\ call'[c] = a /\ call'[f] = h
        /\ \A d \in Calls \ {c, f} : call'[d] = call[d]
    BY <1>1, <2>1, <2>2, <2>5, <2>6 DEF Types
  <2>8. /\ DOMAIN pool' = DOMAIN pool /\ \A q \in DOMAIN pool \ {r} : pool'[q] = pool[q]
        /\ pool'[r] = [available |-> e.available, checkedOut |-> e.checkedOut,
                       waiters |-> Tail(e.waiters), dbIdentity |-> e.dbIdentity]
    BY <1>5, <2>6 DEF Entries
  <2>9. pool'[r] \in Entries
    BY <1>6, <2>1, <2>8 DEF Entries
  <2>10. Holders(r)' = (Holders(r) \ {c}) \cup {f} /\ Waiting(r)' = Waiting(r) \ {f}
    BY <1>7, <1>8, <2>2, <2>5, <2>7 DEF Holders, Users, Waiting
  <2>11. f \notin Holders(r)
    BY <2>2 DEF Holders
  <2>12. \A d \in Holders(r) \ {c} : d \in Calls \ {c, f} /\ call'[d] = call[d]
    BY <2>7, <2>11 DEF Holders, Users
  <2>13. Held(r)' = Held(r)
    <3>1. \A x \in Held(r)' : x \in Held(r)
      BY <1>7, <2>5, <2>7, <2>10, <2>12 DEF Held
    <3>2. \A x \in Held(r) : x \in Held(r)'
      BY <1>2, <2>5, <2>7, <2>10, <2>12 DEF Held
    <3>3. QED  BY <3>1, <3>2
  <2>14. Cardinality(Holders(r)') = Cardinality(Holders(r))
    <3>1. /\ IsFiniteSet(Holders(r) \ {c})
          /\ Cardinality(Holders(r) \ {c}) = Cardinality(Holders(r)) - 1
      BY <1>7, FS_RemoveElement
    <3>2. Cardinality((Holders(r) \ {c}) \cup {f}) = Cardinality(Holders(r) \ {c}) + 1
      BY <2>11, <3>1, FS_AddElement
    <3>3. Cardinality(Holders(r)) \in Nat
      BY <1>7, FS_CardinalityType
    <3>4. QED  BY <2>10, <3>1, <3>2, <3>3
  <2>15. \A x, y \in Holders(r)' : call'[x].conn = call'[y].conn => x = y
    BY <1>2, <1>4, <1>7, <2>5, <2>7, <2>10, <2>12 DEF Booked
  <2>16. Booked(r)'
    BY <1>6, <2>1, <2>8, <2>10, <2>13, <2>14, <2>15, <1>10 DEF Booked
  <2>17. QED  BY <1>1, <1>2, <1>3, <1>8, <1>9, <2>2, <2>5, <2>6, <2>7, <2>8, <2>9, <2>16, EntryKeeps
<1>11. CASE e.waiters = <<>>
  <2>1. k.conn \notin ToSet(e.available)
    BY <1>6, <1>7
  <2>2. /\ Append(e.available, k.conn) \in Seq(Conns) /\ IsInjective(Append(e.available, k.conn))
        /\ ToSet(Append(e.available, k.conn)) = ToSet(e.available) \cup {k.conn}
    BY <1>6, <1>7, <2>1, Pushed
  <2>3. /\ call' = [call EXCEPT ![c] = a]
        /\ pool' = [pool EXCEPT ![r].available = Append(@, k.conn), ![r].checkedOut = @ - 1]
        /\ usedBefore' = usedBefore /\ idle' = idle
    BY <1>2, <1>3, <1>5, <1>8, <1>9, <1>11 DEF Checkin
  <2>4. /\ call' \in [Calls -> CallShapes] /\ call'[c] = a
        /\ \A d \in Calls \ {c} : call'[d] = call[d]
    BY <1>1, <1>8, <2>3 DEF Types
  <2>5. /\ DOMAIN pool' = DOMAIN pool /\ \A q \in DOMAIN pool \ {r} : pool'[q] = pool[q]
        /\ pool'[r] = [available |-> Append(e.available, k.conn), checkedOut |-> e.checkedOut - 1,
                       waiters |-> e.waiters, dbIdentity |-> e.dbIdentity]
    BY <1>5, <2>3 DEF Entries
  <2>6. Holders(r)' = Holders(r) \ {c} /\ Waiting(r)' = Waiting(r)
    BY <1>7, <1>8, <2>4 DEF Holders, Users, Waiting
  <2>7. \A d \in Holders(r) \ {c} : d \in Calls /\ call'[d] = call[d] /\ call[d].conn # k.conn
    BY <1>2, <1>4, <1>7, <2>4 DEF Holders, Users, Booked
  <2>8. Held(r)' = Held(r) \ {k.conn}
    BY <1>2, <1>7, <2>6, <2>7 DEF Held
  <2>9. /\ Cardinality(Holders(r)') = Cardinality(Holders(r)) - 1 /\ e.checkedOut - 1 \in Nat
    <3>1. /\ IsFiniteSet(Holders(r) \ {c})
          /\ Cardinality(Holders(r) \ {c}) = Cardinality(Holders(r)) - 1
      BY <1>7, FS_RemoveElement
    <3>2. Cardinality(Holders(r) \ {c}) \in Nat
      BY <3>1, FS_CardinalityType
    <3>3. QED  BY <1>6, <2>6, <3>1, <3>2
  <2>10. pool'[r] \in Entries
    BY <1>6, <2>2, <2>5, <2>9 DEF Entries
  <2>11. \A x, y \in Holders(r)' : call'[x].conn = call'[y].conn => x = y
    BY <1>4, <2>6, <2>7 DEF Booked
  <2>12. Booked(r)'
    BY <1>6, <1>7, <1>11, <2>2, <2>5, <2>6, <2>8, <2>9, <2>11 DEF Booked
  <2>13. QED  BY <1>1, <1>2, <1>3, <1>8, <1>9, <2>3, <2>4, <2>5, <2>10, <2>12, EntryKeeps
<1>12. QED  BY <1>10, <1>11

\* A call that gives up leaves the queue, wherever in it it stands.
LEMMA WaiterTimeoutKeeps ==
  ASSUME IInv, NEW c \in Calls, WaiterTimeout(c)
  PROVE  IInv'
<1>1. Types /\ Books /\ call[c].pc = "wait" /\ call[c] \in CallShapes
  BY DEF IInv, Types, WaiterTimeout
<1>2. PICK r \in DOMAIN pool : r = call[c].repo
  BY <1>1 DEF Books
<1>3. Booked(r) /\ pool[r] \in Entries
  BY <1>1 DEF Types, PoolTypes, Books
<1>4. PICK e \in Entries : e = pool[r]
  BY <1>3
<1>5. /\ e.available \in Seq(Conns) /\ e.waiters \in Seq(Calls) /\ e.checkedOut \in Nat
      /\ e.dbIdentity \in 0..MaxBuilds + 1 /\ IsInjective(e.available)
      /\ ToSet(e.available) = Conns \ Held(r)
      /\ IsInjective(e.waiters) /\ ToSet(e.waiters) = Waiting(r)
      /\ e.checkedOut = Cardinality(Holders(r))
      /\ e.waiters # <<>> => e.available = <<>>
  BY <1>3, <1>4 DEF Entries, Booked
<1>6. PICK i \in DOMAIN e.waiters : /\ e.waiters[i] = c
                                    /\ pool' = [pool EXCEPT ![r].waiters = RemoveAt(@, i)]
  BY <1>2, <1>4 DEF WaiterTimeout
<1>7. PICK w : w = RemoveAt(e.waiters, i)
  OBVIOUS
<1>8. w \in Seq(Calls) /\ IsInjective(w) /\ ToSet(w) = ToSet(e.waiters) \ {c}
  BY <1>5, <1>6, <1>7, Removed
<1>9. /\ DOMAIN pool' = DOMAIN pool /\ \A q \in DOMAIN pool \ {r} : pool'[q] = pool[q]
      /\ pool'[r] = [available |-> e.available, checkedOut |-> e.checkedOut,
                     waiters |-> w, dbIdentity |-> e.dbIdentity]
  BY <1>4, <1>6, <1>7 DEF Entries
<1>10. pool'[r] \in Entries
  BY <1>5, <1>8, <1>9 DEF Entries
<1>11. PICK k \in CallShapes : /\ call' = [call EXCEPT ![c] = k]
                               /\ k.pc \in {"ready", "done"}
  <2>1. Failed(call[c]) \in CallShapes
    BY <1>1, Shapes
  <2>2. Failed(call[c]).pc \in {"ready", "done"}
    BY DEF Failed, About, Ended
  <2>3. QED  BY <2>1, <2>2 DEF WaiterTimeout
<1>12. /\ call' \in [Calls -> CallShapes] /\ call'[c] = k
       /\ \A d \in Calls \ {c} : call'[d] = call[d]
  BY <1>1, <1>11 DEF Types
<1>13. /\ Holders(r)' = Holders(r) /\ Waiting(r)' = Waiting(r) \ {c} /\ c \notin Holders(r)
  BY <1>1, <1>11, <1>12 DEF Holders, Users, Waiting
<1>14. \A d \in Holders(r) : call'[d] = call[d]
  BY <1>12, <1>13 DEF Holders, Users
<1>15. Held(r)' = Held(r)
  BY <1>13, <1>14 DEF Held
<1>16. e.available = <<>>
  BY <1>5, <1>6
<1>17. Booked(r)'
  BY <1>3, <1>5, <1>8, <1>9, <1>13, <1>14, <1>15, <1>16 DEF Booked
<1>18. /\ VectorOnly
       /\ UNCHANGED <<file, usedBefore, idle, pinnedRepos, checkpoint, lockQ, step, closes>>
  BY <1>1, VectorAfterOnly DEF WaiterTimeout
<1>19. QED  BY <1>1, <1>2, <1>9, <1>10, <1>11, <1>12, <1>17, <1>18, EntryKeeps

-----------------------------------------------------------------------------
(* The theorems.                                                           *)

\* The invariant holds of the empty pool.
LEMMA InitIInv == Init => IInv
<1> SUFFICES ASSUME Init PROVE IInv
  OBVIOUS
<1>1. /\ MaxBuilds \in Nat /\ MaxCloses \in Nat /\ MaxPins \in Nat
  BY PoolAssumption
<1>2. DOMAIN pool = {} /\ DOMAIN dbCache = {} /\ lockQ = <<>> /\ step = Start /\ step.at = "start"
  BY DEF Init, Start
<1>3. Types
  <2>1. [pc |-> "new"] \in CallShapes
    BY DEF CallShapes, Aside
  <2>2. [build |-> 1, there |-> TRUE] \in Files
    BY <1>1 DEF Files
  <2>3. call \in [Calls -> CallShapes] /\ file \in [Paths -> Files]
    BY <2>1, <2>2 DEF Init
  <2>4. pinnedRepos \in [Repos -> 0..MaxPins] /\ closes \in 0..MaxCloses
    BY <1>1 DEF Init
  <2>5. QED  BY <1>2, <2>3, <2>4 DEF Init, Types, PoolTypes
<1>4. UsedInOrder /\ Books
  <2>1. \A c \in Calls : call[c].pc = "new"
    BY DEF Init
  <2>2. QED  BY <1>2, <2>1 DEF UsedInOrder, Books
<1>5. Chain /\ Standing
  BY <1>2 DEF Init, Chain, Standing, Stands
<1>6. Counted
  <2>1. Referring = {}
    BY <1>2 DEF Referring, Running
  <2>2. QED  BY <1>2, <2>1 DEF Counted, Referrers
<1>7. QED  BY <1>3, <1>4, <1>5, <1>6 DEF IInv

\* Every step keeps the invariant.
LEMMA NextIInv ==
  ASSUME IInv, [Next]_vars
  PROVE  IInv'
<1>1. CASE LockStep
  BY <1>1, TaskMovesKeep, InitAnswers, ClosesKeep, InitOpenKeeps, InitRegisterKeeps,
     InitRegisterFailsKeeps, NativeClosedKeeps DEF LockStep
<1>2. ASSUME NEW c \in Calls, CallStep(c) PROVE IInv'
  <2>1. CASE QueryReturns(c)
    BY <2>1, OrphanReturns, CheckinKeeps
  <2>2. QED  BY <1>2, <2>1, CallMovesKeep, AskKeeps, WaiterTimeoutKeeps DEF CallStep
<1>3. ASSUME NEW c \in Calls, NEW r \in Repos, Dispatch(c, r) PROVE IInv'
  BY <1>3, CallMovesKeep
<1>4. CASE \/ CloseAll
           \/ \E r \in Repos : IdleSweep(r) \/ CloseRepo(r) \/ PinRepo(r) \/ UnpinRepo(r)
           \/ \E p \in Paths : Swap(p) \/ Unlink(p)
  BY <1>4, OutsideKeeps
<1>5. CASE UNCHANGED vars
  <2>1. UNCHANGED <<file, pool, usedBefore, idle, pinnedRepos, dbCache, checkpoint, lockQ, step,
                    call, closes>>
    BY <1>5 DEF vars, pools
  <2>2. Books' /\ Chain' /\ UsedInOrder'
    BY <2>1, BooksKept, ChainKept DEF IInv, UsedInOrder
  <2>3. Standing' /\ Counted'
    BY <2>1, Suspended DEF IInv, Chain, Task
  <2>4. QED  BY <2>1, <2>2, <2>3 DEF IInv, Types, PoolTypes
<1>6. QED  BY <1>1, <1>2, <1>3, <1>4, <1>5 DEF Next

\* The invariant holds of every reachable state.
LEMMA AlwaysIInv == Spec => []IInv
<1>1. Init => IInv
  BY InitIInv
<1>2. IInv /\ [Next]_vars => IInv'
  BY NextIInv
<1>3. QED  BY <1>1, <1>2, PTL DEF Spec

\* The counts stay within their bounds: no more connections are out than an entry has.
LEMMA TypeOKFromIInv == IInv => TypeOK
<1> SUFFICES ASSUME IInv PROVE TypeOK
  OBVIOUS
<1>1. Types /\ PoolTypes /\ Books /\ Chain /\ Counted
  BY DEF IInv, Types
<1>2. ASSUME NEW r \in DOMAIN pool
      PROVE  pool[r] \in [available : Seq(Conns), checkedOut : 0..MAX_CONNS_PER_REPO,
                          waiters : Seq(Calls), dbIdentity : 0..MaxBuilds + 1]
  <2>1. PICK e \in Entries : e = pool[r]
    BY <1>1 DEF PoolTypes
  <2>2. e.checkedOut \in Nat /\ e.checkedOut <= MAX_CONNS_PER_REPO
    BY <1>1, <2>1, HeldCount DEF Books, Booked, Entries
  <2>3. e.checkedOut \in 0..MAX_CONNS_PER_REPO
    BY <2>2, PoolAssumption
  <2>4. QED  BY <2>1, <2>3 DEF Entries
<1>3. checkpoint \subseteq Paths
  BY PoolAssumption DEF IInv, Standing
<1>4. QED  BY <1>1, <1>2, <1>3 DEF TypeOK, PoolTypes, Files, Databases

\* The books of each entry give the conservation of connections and the queues.
LEMMA ConnsFromIInv == IInv => ConnsConserved /\ WaitersQueued
<1> SUFFICES ASSUME IInv PROVE ConnsConserved /\ WaitersQueued
  OBVIOUS
<1>1. Types /\ PoolTypes /\ Books
  BY DEF IInv, Types
<1>2. ASSUME NEW r \in DOMAIN pool
      PROVE  /\ Cardinality(Held(r)) = Cardinality(Holders(r))
             /\ Cardinality(Held(r)) = pool[r].checkedOut
             /\ IsInjective(pool[r].available)
             /\ ToSet(pool[r].available) = Conns \ Held(r)
             /\ ToSet(pool[r].waiters) = Waiting(r)
             /\ pool[r].waiters # <<>> => pool[r].checkedOut = MAX_CONNS_PER_REPO
  <2>1. Booked(r)
    BY <1>1 DEF Books
  <2>2. /\ Cardinality(Held(r)) = Cardinality(Holders(r)) /\ Held(r) \subseteq Conns
    BY <1>1, <2>1, HeldCount
  <2>3. ASSUME pool[r].waiters # <<>> PROVE pool[r].checkedOut = MAX_CONNS_PER_REPO
    <3>1. ToSet(<<>>) = {}
      BY DEF ToSet
    <3>2. Held(r) = Conns
      BY <2>1, <2>2, <2>3, <3>1 DEF Booked
    <3>3. QED  BY <2>1, <2>2, <3>2, Finite DEF Booked
  <2>4. QED  BY <2>1, <2>2, <2>3 DEF Booked
<1>3. ConnsConserved
  BY <1>2 DEF ConnsConserved, Held
<1>4. WaitersQueued
  BY <1>1, <1>2 DEF WaitersQueued, Waiting, Books
<1>5. QED  BY <1>3, <1>4

\* The set of referrers is the open entries of the file and the one being opened.
LEMMA RefsFromIInv == IInv => RefsAgree
<1> SUFFICES ASSUME IInv, NEW p \in Paths
    PROVE  LET open == {r \in DOMAIN pool : dbPath[r] = p}
               opening == IF Running("init", "fts") /\ dbPath[Task.repo] = p THEN 1 ELSE 0
               refs == Cardinality(open) + opening
           IN IF p \in DOMAIN dbCache
              THEN /\ dbCache[p].refCount = refs + dbCache[p].leaked
                   /\ dbCache[p].refCount = 0 <=> p \in checkpoint
              ELSE refs = 0
  BY DEF RefsAgree
<1> DEFINE open == {r \in DOMAIN pool : dbPath[r] = p}
           opening == IF Running("init", "fts") /\ dbPath[Task.repo] = p THEN 1 ELSE 0
<1>1. Types /\ Chain /\ Standing /\ Counted
  BY DEF IInv
<1>2. IsFiniteSet(Referrers(p)) /\ open \subseteq Referrers(p)
  BY <1>1, ReferrersFinite DEF Referrers, Referring
<1>3. IsFiniteSet(open) /\ Cardinality(open) \in Nat
  BY <1>2, FS_Subset, FS_CardinalityType
<1>4. Cardinality(Referrers(p)) = Cardinality(open) + opening
  <2>1. CASE Running("init", "fts") /\ dbPath[Task.repo] = p
    <3>1. Task.repo \notin open
      BY <1>1, <2>1, Places DEF Running
    <3>2. Referrers(p) = open \cup {Task.repo}
      BY <2>1 DEF Referrers, Referring
    <3>3. QED  BY <1>3, <2>1, <3>1, <3>2, FS_AddElement
  <2>2. CASE ~(Running("init", "fts") /\ dbPath[Task.repo] = p)
    <3>1. Referrers(p) = open
      BY <2>2 DEF Referrers, Referring
    <3>2. QED  BY <1>3, <2>2, <3>1
  <2>3. QED  BY <2>1, <2>2
<1>5. Referrers(p) = {} <=> Cardinality(Referrers(p)) = 0
  BY <1>2, FS_EmptySet
<1> HIDE DEF open, opening
<1>6. IF p \in DOMAIN dbCache
      THEN /\ dbCache[p].refCount = Cardinality(open) + opening + dbCache[p].leaked
           /\ dbCache[p].refCount = 0 <=> p \in checkpoint
      ELSE Cardinality(open) + opening = 0
  BY <1>1, <1>4, <1>5 DEF Counted
<1>7. QED  BY <1>6 DEF open, opening

\* The books of the pool balance in every reachable state: no connection is lost or in
\* two hands, who waits stands in a queue of a busy entry, and a database lives exactly
\* as long as somebody refers to it, a registration that threw included.
THEOREM PoolBalances == Spec => []Inv
<1>1. IInv => Inv
  BY TypeOKFromIInv, ConnsFromIInv, RefsFromIInv DEF Inv, IInv
<1>2. QED  BY <1>1, AlwaysIInv, PTL

\* A database is opened only by the running task, which then stands at its open, and so
\* no other database is being closed.
THEOREM OpensAfterCheckpoints == Spec => OpenAfterCheckpoint
<1>1. IInv /\ [Next]_vars =>
        [\A p \in Paths : p \in DOMAIN dbCache' \ DOMAIN dbCache => checkpoint = {}]_vars
  <2> SUFFICES ASSUME IInv, Next, NEW p \in Paths, p \in DOMAIN dbCache', p \notin DOMAIN dbCache
      PROVE  checkpoint = {}
    OBVIOUS
  <2>1. CASE InitOpen
    <3>1. Standing /\ step.at = "open"
      BY <2>1 DEF IInv, InitOpen, Running
    <3>2. QED  BY <3>1, Places
  <2>2. ASSUME ~InitOpen PROVE DOMAIN dbCache' \subseteq DOMAIN dbCache
    <3>1. ASSUME NEW r, NEW then, CloseOne(r, then) PROVE DOMAIN dbCache' = DOMAIN dbCache
      BY <3>1 DEF CloseOne
    <3>2. CASE LockStep
      BY <2>2, <3>1, <3>2 DEF LockStep, InitLookup, InitReuse, InitRoll, InitNotFound, EvictLRU,
         InitOpenFails, InitRegister, InitRegisterFails, NativeClosed, IdleClose, IdleKept, TaskDone,
         CloseSnapshot, CloseNext, pools
    <3>3. ASSUME NEW c \in Calls, CallStep(c) \/ \E r \in Repos : Dispatch(c, r)
          PROVE  DOMAIN dbCache' = DOMAIN dbCache
      BY <3>3 DEF CallStep, RetryInit, QueryNotReady, Query, LoadVector, JoinVector, JoinReturns,
         QueryReturns, WaiterTimeout, VectorAfter, Dispatch, pools
    <3>4. CASE \/ CloseAll
               \/ \E r \in Repos : IdleSweep(r) \/ CloseRepo(r) \/ PinRepo(r) \/ UnpinRepo(r)
               \/ \E q \in Paths : Swap(q) \/ Unlink(q)
      BY <3>4 DEF CloseAll, CloseRepo, CloseLbug, IdleSweep, PinRepo, UnpinRepo, Swap, Unlink, pools
    <3>5. QED  BY <3>2, <3>3, <3>4 DEF Next
  <2>3. QED  BY <2>1, <2>2
<1>2. QED  BY <1>1, AlwaysIInv, PTL DEF Spec, OpenAfterCheckpoint

\* An entry with no connection out has them all on its stack, and so nobody waits at it.
LEMMA UnusedHasNoUsers ==
  ASSUME IInv, NEW r \in DOMAIN pool, pool[r].checkedOut = 0
  PROVE  Users(r) = {}
<1>1. Types /\ Booked(r)
  BY DEF IInv, Books
<1>2. Held(r) = {} /\ Holders(r) = {}
  <2>1. IsFiniteSet(Holders(r)) /\ Cardinality(Holders(r)) = 0
    BY <1>1, Finite DEF Booked
  <2>2. Holders(r) = {}
    BY <2>1, FS_EmptySet
  <2>3. QED  BY <2>2 DEF Held
<1>3. pool[r].available # <<>>
  <2>1. ToSet(<<>>) = {}
    BY DEF ToSet
  <2>2. QED  BY <1>1, <1>2, <2>1, Finite DEF Booked
<1>4. Waiting(r) = {}
  BY <1>1, <1>3 DEF Booked, ToSet
<1>5. QED  BY <1>2, <1>4 DEF Users, Holders, Waiting

\* Eviction, the idle sweep and a reopen after a rebuild close no entry that a call uses
\* or waits for, and the first two none that is pinned.
THEOREM AutomaticClosesSpare == Spec => AutoCloseSpares
<1>1. IInv /\ [Next]_vars =>
        [\A r \in DOMAIN pool \ DOMAIN pool' :
           Task.kind \in {"close", "closeAll"}
           \/ /\ Users(r) = {}
              /\ pinnedRepos[r] = 0 \/ step.at = "stat"]_vars
  <2> SUFFICES ASSUME IInv, Next, NEW r \in DOMAIN pool, r \notin DOMAIN pool'
      PROVE  Task.kind \in {"close", "closeAll"}
             \/ /\ Users(r) = {}
                /\ pinnedRepos[r] = 0 \/ step.at = "stat"
    OBVIOUS
  <2>1. \A q, then : CloseOne(q, then) => DOMAIN pool' = DOMAIN pool \ {q}
    BY DEF CloseOne
  <2>2. CASE InitRoll
    <3>1. step.at = "stat" /\ pool[r].checkedOut = 0
      BY <2>1, <2>2 DEF InitRoll, Running
    <3>2. QED  BY <3>1, UnusedHasNoUsers
  <2>3. CASE EvictLRU
    <3>1. pinnedRepos[r] = 0 /\ pool[r].checkedOut = 0
      BY <2>1, <2>3 DEF EvictLRU, Evictable, pools
    <3>2. QED  BY <3>1, UnusedHasNoUsers
  <2>4. CASE IdleClose
    <3>1. pinnedRepos[r] = 0 /\ pool[r].checkedOut = 0
      BY <2>1, <2>4 DEF IdleClose, StillIdle, Evictable
    <3>2. QED  BY <3>1, UnusedHasNoUsers
  <2>5. CASE CloseNext
    BY <2>5, Places DEF IInv, CloseNext
  <2>6. ASSUME ~InitRoll, ~EvictLRU, ~IdleClose, ~CloseNext
        PROVE  DOMAIN pool \subseteq DOMAIN pool'
    <3>1. CASE LockStep
      BY <2>6, <3>1 DEF LockStep, InitLookup, InitReuse, InitNotFound, InitOpen,
         InitOpenFails, InitRegister, InitRegisterFails, NativeClosed, IdleKept, TaskDone,
         CloseSnapshot, pools
    <3>2. ASSUME NEW c \in Calls, CallStep(c) \/ \E q \in Repos : Dispatch(c, q)
          PROVE  DOMAIN pool' = DOMAIN pool
      BY <3>2 DEF CallStep, RetryInit, QueryNotReady, Query, LoadVector, JoinVector, JoinReturns,
         QueryReturns, WaiterTimeout, Checkout, Checkin, Dispatch, pools
    <3>3. CASE \/ CloseAll
               \/ \E q \in Repos : IdleSweep(q) \/ CloseRepo(q) \/ PinRepo(q) \/ UnpinRepo(q)
               \/ \E p \in Paths : Swap(p) \/ Unlink(p)
      BY <3>3 DEF CloseAll, CloseRepo, CloseLbug, IdleSweep, PinRepo, UnpinRepo, Swap, Unlink, pools
    <3>4. QED  BY <3>1, <3>2, <3>3 DEF Next
  <2>7. QED  BY <2>2, <2>3, <2>4, <2>5, <2>6
<1>2. QED  BY <1>1, AlwaysIInv, PTL DEF Spec, AutoCloseSpares

=============================================================================
