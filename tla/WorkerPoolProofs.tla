-------------------------- MODULE WorkerPoolProofs --------------------------
(***************************************************************************)
(* The worker pool, for any number of slots, any rounds, any ceilings on   *)
(* jobs, restarts and timeouts.                                            *)
(*                                                                         *)
(* Whatever is queued, in a slot or returned is a job or a result with     *)
(* files of its own (Spread): two of them never share a file, and the      *)
(* places that one of them may still hand to a second half end before the  *)
(* other begins (Before).  A split, a removal and a move keep that, which  *)
(* is why a startIndex stays in the chunk and in the order of its files    *)
(* even when files were removed from the middle of a job.                  *)
(*                                                                         *)
(* A slot is at work, in recovery, or neither with an idle worker, and the *)
(* counter that ends the dispatch counts the first two (Staffed); between  *)
(* two dispatches there is nothing of either (AtRest).  While a dispatch   *)
(* is running the counter is never zero: the continuation that would let   *)
(* it get there finds every slot in rotation idle, calls runWorker for one *)
(* of them at least, and leaves either a job in its hands or no job at all.*)
(*                                                                         *)
(* Every step of the pool is shown to keep the invariant and to be a step  *)
(* of WorkerDispatch, or none, at once: what runWorker and the recoveries  *)
(* do to a desk is a lemma about any desk, and a step combines them.       *)
(***************************************************************************)
EXTENDS WorkerPool, FiniteSetTheorems, FunctionTheorems, WellFoundedInduction,
        SequenceTheorems, TLAPS

-----------------------------------------------------------------------------
(* The invariant.                                                          *)

Phases == {"queued", "parsing", "flushing"}
Jobs == [start : Nat, files : SUBSET Nat, timeout : Nat, cumulative : Nat,
         attempt : Nat, phase : Phases]
Results == [start : Nat, files : SUBSET Nat]

\* A desk of runWorker; the slots it has jobs for, and the files it still owes.
Desks == [jobs : Seq(Jobs), job : [Slots -> Jobs \cup {NoJob}], busy : SUBSET Slots,
          count : Int, worker : [Slots -> WorkerStates], active : SUBSET Slots,
          bad : SUBSET Nat]
AtWork(d) == {s \in Slots : d.job[s] # NoJob}
Owed(d) == (UNION {d.jobs[k].files : k \in DOMAIN d.jobs})
           \cup (UNION {d.job[s].files : s \in AtWork(d)})

\* The kinds of the values, those that the module leaves untyped too.
Starting ==
    /\ boot \in [Slots -> {"starting", "killing", "backoff", "ready", "dropped"}]
    /\ attempt \in [Slots -> 0..RestartBudget]
    /\ lastSignature \in [Slots -> Signatures \cup {"none"}]
    /\ reproduced \subseteq Slots
    /\ {deterministic, anyReady} \subseteq BOOLEAN

Counts ==
    /\ consecutive \in [Slots -> 0..consecutiveFailureThreshold]
    /\ respawns \in [Slots -> 0..maxRespawnsPerSlot + 1]
    /\ recovery \in [Slots -> {"none", "removing", "dropping", "spawning", "killing"}]

Settling ==
    /\ round \in 0..Len(Rounds)
    /\ results \in SUBSET Results
    /\ {broken, aborted, terminated} \subseteq BOOLEAN
    /\ outcome \in {"none", "called", "running", "resolved", "rejected"}
    /\ outcome \in {"called", "running", "resolved"} => round # 0

Types == Desk \in Desks /\ Starting /\ Counts /\ Settling

Recovering == {s \in Slots : recovery[s] # "none"}

\* The piece of the round that a job or a result stands for.
Piece(h) == [start |-> h.start, files |-> h.files]

\* It begins in the round and before its files, and no group ends between them.
InGroup(r, p) ==
    /\ p.files # {} /\ p.files \subseteq Files(r)
    /\ p.start > 0
    /\ \A f \in p.files : p.start <= f
    /\ \A g \in DOMAIN Rounds[r] :
           Rounds[r][g] < p.start \/ \A f \in p.files : f <= Rounds[r][g]

\* All that p stands for comes before q, and so will its second half.
Before(p, q) ==
    /\ p.start + Cardinality(p.files) <= q.start
    /\ \A a \in p.files, b \in q.files : a < b

Apart(p, q) == Before(p, q) \/ Before(q, p)

Sound(r, bad, p) == InGroup(r, p) /\ p.files \cap bad = {}

\* What is queued, worked on and returned is in its group, apart from the others
\* and without a file of the quarantine.
Spread(r, d, res) ==
    /\ \A k \in DOMAIN d.jobs : Sound(r, d.bad, Piece(d.jobs[k]))
    /\ \A s \in AtWork(d) : Sound(r, d.bad, Piece(d.job[s]))
    /\ \A p \in res : Sound(r, d.bad, p)
    /\ \A k, l \in DOMAIN d.jobs : k # l => Apart(Piece(d.jobs[k]), Piece(d.jobs[l]))
    /\ \A s, t \in AtWork(d) : s # t => Apart(Piece(d.job[s]), Piece(d.job[t]))
    /\ \A p, q \in res : p # q => Apart(p, q)
    /\ \A k \in DOMAIN d.jobs, s \in AtWork(d) : Apart(Piece(d.jobs[k]), Piece(d.job[s]))
    /\ \A k \in DOMAIN d.jobs, p \in res : Apart(Piece(d.jobs[k]), p)
    /\ \A s \in AtWork(d), p \in res : Apart(Piece(d.job[s]), p)

\* A slot at work has a worker, one in recovery has none, and both are counted; no
\* other slot in rotation is without a worker.
Staffed(d, rec) ==
    /\ \A s \in Slots : d.worker[s] = "busy" => s \in AtWork(d)
    /\ \A s \in AtWork(d) : /\ s \in d.active \cap d.busy /\ s \notin rec
                            /\ d.worker[s] # "none" /\ d.job[s].phase # "queued"
    /\ \A s \in rec : s \in d.active /\ d.worker[s] = "none"
    /\ \A s \in d.active : d.worker[s] = "none" => s \in rec
    /\ d.busy \subseteq AtWork(d) \cup rec
    /\ d.count = Cardinality(AtWork(d) \cup rec)

\* Between two dispatches nothing is queued, taken or counted, and a slot that came
\* up and is in rotation has a worker.
AtRest ==
    /\ jobs = <<>> /\ AtWork(Desk) = {} /\ busy = {} /\ activeWorkers = 0
    /\ \A s \in Slots : worker[s] # "busy"
    /\ Recovering = {} \/ broken
    /\ \A s \in active : boot[s] # "dropped" /\ (boot[s] = "ready" => worker[s] # "none")

\* A failure too many breaks the pool, and a slot without respawns leaves it.
Budgets ==
    /\ \A s \in Slots : ~broken => consecutive[s] < consecutiveFailureThreshold
    /\ \A s \in Slots : respawns[s] > maxRespawnsPerSlot =>
                            s \notin active \/ recovery[s] = "dropping"

\* The startup is over before the first round, and the breaker ends the last.
Stages ==
    /\ outcome \notin {"none", "called"} => GateSettled
    /\ outcome \in {"running", "resolved"} => \A s \in Slots : boot[s] = "ready"
    /\ broken => outcome = "rejected" /\ active = {}
    /\ \A s \in Slots : boot[s] = "backoff" => attempt[s] < RestartBudget
    /\ aborted => broken
    /\ terminated => ~InFlight

PoolInv ==
    /\ Types /\ Stages /\ Budgets
    /\ outcome # "running" => AtRest
    /\ outcome = "running" => Staffed(Desk, Recovering) /\ activeWorkers # 0
    /\ outcome \in {"running", "resolved"} => Spread(round, Desk, results)

-----------------------------------------------------------------------------
(* Least elements, and the elements of a sequence in a set.                *)

\* A set of natural numbers has a least element, the one Min names.
LEMMA Least ==
  ASSUME NEW S \in SUBSET Nat, S # {}
  PROVE  Min(S) \in S /\ \A x \in S : Min(S) <= x
<1> DEFINE R == OpToRel(<, Nat)
<1>0. \A x, y \in Nat : x < y => <<x, y>> \in R
  BY DEF OpToRel
<1>1. PICK m \in S : \A x \in S : ~(<<x, m>> \in R)
  BY NatLessThanWellFounded, WFMin
<1> HIDE DEF R
<1>2. ASSUME NEW x \in S PROVE m <= x
  <2>1. x \in Nat /\ m \in Nat
    OBVIOUS
  <2>2. <<x, m>> \notin R
    BY <1>1
  <2>3. ~(x < m)
    BY <1>0, <2>1, <2>2
  <2>4. QED  BY <2>1, <2>3
<1>3. QED  BY <1>2 DEF Min

\* A bounded set of natural numbers has a greatest element.
LEMMA Greatest ==
  ASSUME NEW S \in SUBSET Nat, S # {}, NEW N \in Nat, \A x \in S : x <= N
  PROVE  \E m \in S : \A x \in S : x <= m
<1> DEFINE T == {n \in Nat : \A x \in S : x <= n}
<1>1. T \in SUBSET Nat /\ T # {}
  OBVIOUS
<1>2. Min(T) \in T /\ \A n \in T : Min(T) <= n
  <2> HIDE DEF T
  <2> QED  BY <1>1, Least
<1> DEFINE m == Min(T)
<1> HIDE DEF m
<1>3. m \in Nat /\ \A x \in S : x <= m
  BY <1>2 DEF m
<1>4. m \in S
  <2> SUFFICES ASSUME m \notin S PROVE FALSE
    OBVIOUS
  <2>1. \A x \in S : x < m
    BY <1>3
  <2>2. m > 0
    <3>1. PICK x \in S : x \in Nat /\ x < m
      BY <2>1
    <3>2. QED  BY <1>3, <3>1
  <2>3. m - 1 \in T
    BY <1>3, <2>1, <2>2
  <2>4. QED  BY <1>2, <1>3, <2>3 DEF m
<1>5. QED  BY <1>3, <1>4

\* There are n numbers from 1 to n.
LEMMA UpTo == \A n \in Nat : IsFiniteSet(1..n) /\ Cardinality(1..n) = n
<1> TAKE n \in Nat
<1>1. IsFiniteSet(1..n) /\ Cardinality(1..n) = IF 1 > n THEN 0 ELSE n - 1 + 1
  BY FS_Interval
<1>2. QED  BY <1>1

\* Below a member of a set of places there are fewer than below a greater one.
LEMMA Ranks ==
  ASSUME NEW S, IsFiniteSet(S), S \subseteq Int
  PROVE  LET below(i) == {h \in S : h <= i}
         IN  /\ \A i \in S : /\ IsFiniteSet(below(i))
                             /\ Cardinality(below(i)) \in 1..Cardinality(S)
             /\ \A i, j \in S : Cardinality(below(i)) = Cardinality(below(j)) => i = j
             /\ \A k \in 1..Cardinality(S) : \E i \in S : Cardinality(below(i)) = k
<1> DEFINE below(i) == {h \in S : h <= i}
           n == Cardinality(S)
<1>1. n \in Nat
  BY FS_CardinalityType
<1>2. ASSUME NEW i \in S
      PROVE  IsFiniteSet(below(i)) /\ Cardinality(below(i)) \in 1..n
  <2>1. below(i) \in SUBSET S /\ i \in below(i)
    OBVIOUS
  <2>2. IsFiniteSet(below(i)) /\ Cardinality(below(i)) <= n
    BY <2>1, FS_Subset
  <2>3. Cardinality(below(i)) \in Nat /\ Cardinality(below(i)) # 0
    BY <2>1, <2>2, FS_CardinalityType, FS_EmptySet
  <2>4. QED  BY <1>1, <2>2, <2>3
<1>3. ASSUME NEW i \in S, NEW j \in S, Cardinality(below(i)) = Cardinality(below(j))
      PROVE  i = j
  <2>1. ASSUME NEW x \in S, NEW y \in S, x < y
        PROVE  Cardinality(below(x)) # Cardinality(below(y))
    <3>1. below(x) \in SUBSET below(y) /\ below(x) # below(y)
      <4>1. x \in Int /\ y \in Int
        OBVIOUS
      <4>2. y \in below(y) /\ y \notin below(x)
        BY <2>1, <4>1
      <4>3. ASSUME NEW h \in S, h <= x PROVE h <= y
        <5>1. h \in Int
          OBVIOUS
        <5>2. QED  BY <2>1, <4>1, <4>3, <5>1
      <4>4. below(x) \subseteq below(y)
        BY <4>3
      <4>5. QED  BY <4>2, <4>4
    <3>2. IsFiniteSet(below(y))
      BY <1>2
    <3>3. QED  BY <3>1, <3>2, FS_Subset
  <2>2. i < j \/ j < i \/ i = j
    OBVIOUS
  <2>3. QED  BY <1>3, <2>1, <2>2
<1>4. ASSUME NEW k \in 1..n PROVE \E i \in S : Cardinality(below(i)) = k
  <2> DEFINE rank == [i \in S |-> Cardinality(below(i))]
  <2>1. rank \in Injection(S, 1..n)
    BY <1>2, <1>3 DEF Injection, IsInjective
  <2>2. IsFiniteSet(1..n) /\ Cardinality(1..n) = n
    BY <1>1, UpTo
  <2>3. rank \in Surjection(S, 1..n)
    BY <2>1, <2>2, FS_Injection
  <2>4. QED  BY <2>3 DEF Surjection
<1>5. QED  BY <1>2, <1>3, <1>4

\* What Only takes is in the set, and once if it is once in the sequence.
LEMMA OnlyPicks ==
  ASSUME NEW S, NEW seq \in Seq(S), NEW T
  PROVE  /\ Only(seq, T) \in Seq(S \cap T)
         /\ IsInjective(seq) => IsInjective(Only(seq, T))
<1> DEFINE at == {i \in DOMAIN seq : seq[i] \in T}
           rank(i) == Cardinality({h \in at : h <= i})
           nth(k) == CHOOSE i \in at : rank(i) = k
           n == Cardinality(at)
<1>1. IsFiniteSet(at) /\ at \subseteq Int /\ n \in Nat
  <2>1. at \in SUBSET (1..Len(seq)) /\ IsFiniteSet(1..Len(seq))
    BY UpTo
  <2>2. QED  BY <2>1, FS_Subset, FS_CardinalityType
<1>2. \A k \in 1..n : nth(k) \in at /\ rank(nth(k)) = k
  <2>1. \A k \in 1..n : \E i \in at : rank(i) = k
    <3> HIDE DEF at
    <3>1. QED  BY <1>1, Ranks
  <2> HIDE DEF at, rank
  <2>2. QED  BY <2>1
<1>3. Only(seq, T) = [k \in 1..n |-> seq[nth(k)]]
  BY DEF Only
<1>4. Only(seq, T) \in Seq(S \cap T)
  <2>1. \A k \in 1..n : seq[nth(k)] \in S \cap T
    <3>1. \A i \in at : seq[i] \in S \cap T
      OBVIOUS
    <3>2. QED  BY <1>2, <3>1
  <2> HIDE DEF nth, n
  <2>2. QED  BY <1>1, <1>3, <2>1, SeqDef
<1>5. ASSUME IsInjective(seq) PROVE IsInjective(Only(seq, T))
  <2>1. ASSUME NEW k \in 1..n, NEW l \in 1..n, seq[nth(k)] = seq[nth(l)] PROVE k = l
    <3>1. nth(k) \in DOMAIN seq /\ nth(l) \in DOMAIN seq
      BY <1>2
    <3>2. nth(k) = nth(l)
      BY <1>5, <2>1, <3>1 DEF IsInjective
    <3>3. QED  BY <1>2, <3>2
  <2> HIDE DEF nth, n
  <2>2. QED  BY <1>3, <2>1 DEF IsInjective
<1>6. QED  BY <1>4, <1>5

\* Only leaves out nothing that is in the set.
LEMMA OnlyFinds ==
  ASSUME NEW S, NEW seq \in Seq(S), NEW T, NEW i \in DOMAIN seq, seq[i] \in T
  PROVE  \E k \in DOMAIN Only(seq, T) : Only(seq, T)[k] = seq[i]
<1> DEFINE at == {j \in DOMAIN seq : seq[j] \in T}
           rank(j) == Cardinality({h \in at : h <= j})
           nth(k) == CHOOSE j \in at : rank(j) = k
           n == Cardinality(at)
<1>1. IsFiniteSet(at) /\ at \subseteq Int /\ i \in at
  <2>1. at \in SUBSET (1..Len(seq)) /\ IsFiniteSet(1..Len(seq))
    BY UpTo
  <2>2. QED  BY <2>1, FS_Subset
<1>2. rank(i) \in 1..n
  <2> HIDE DEF at
  <2>1. QED  BY <1>1, Ranks
<1>3. \A x, y \in at : rank(x) = rank(y) => x = y
  <2> HIDE DEF at
  <2>1. QED  BY <1>1, Ranks
<1>4. nth(rank(i)) = i
  <2> HIDE DEF at, rank
  <2>1. nth(rank(i)) \in at /\ rank(nth(rank(i))) = rank(i)
    BY <1>1
  <2> HIDE DEF nth
  <2>2. QED  BY <1>1, <1>3, <2>1
<1>5. Only(seq, T) = [k \in 1..n |-> seq[nth(k)]]
  BY DEF Only
<1> HIDE DEF at, rank, nth, n
<1>6. QED  BY <1>2, <1>4, <1>5

\* Only takes all of a sequence that is in the set.
LEMMA OnlyAll ==
  ASSUME NEW S, NEW seq \in Seq(S), NEW T, \A i \in DOMAIN seq : seq[i] \in T
  PROVE  Only(seq, T) = seq
<1> DEFINE at == {i \in DOMAIN seq : seq[i] \in T}
           rank(i) == Cardinality({h \in at : h <= i})
           nth(k) == CHOOSE i \in at : rank(i) = k
           n == Cardinality(at)
<1>1. at = 1..Len(seq) /\ Len(seq) \in Nat
  OBVIOUS
<1>2. n = Len(seq)
  <2>1. Cardinality(1..Len(seq)) = Len(seq)
    BY <1>1, UpTo
  <2>2. QED  BY <1>1, <2>1
<1>3. \A i \in at : rank(i) = i
  <2> SUFFICES ASSUME NEW i \in at PROVE rank(i) = i
    OBVIOUS
  <2>1. {h \in at : h <= i} = 1..i /\ i \in Nat /\ i >= 1
    BY <1>1
  <2>2. Cardinality(1..i) = i
    BY <2>1, UpTo
  <2>3. QED  BY <2>1, <2>2
<1>4. \A k \in 1..n : nth(k) = k
  <2> HIDE DEF rank
  <2>1. QED  BY <1>1, <1>2, <1>3
<1>5. Only(seq, T) = [k \in 1..n |-> seq[nth(k)]]
  BY DEF Only
<1>6. Only(seq, T) = [k \in 1..Len(seq) |-> seq[k]]
  <2> HIDE DEF n, nth
  <2>1. QED  BY <1>2, <1>4, <1>5
<1>7. QED  BY <1>6

-----------------------------------------------------------------------------
(* Splits and removals.                                                    *)

\* The first half of a set of places is before the second, and neither is empty.
LEMMA Halves ==
  ASSUME NEW S \in SUBSET Nat, IsFiniteSet(S), S # {}, Cardinality(S) # 1
  PROVE  /\ Half(S) \subseteq S /\ Half(S) # {} /\ S \ Half(S) # {}
         /\ \A a \in Half(S), b \in S \ Half(S) : a < b
<1> DEFINE below(f) == {g \in S : g < f}
           n == Cardinality(S)
<1>1. n \in Nat /\ n > 1
  <2>1. n \in Nat /\ n # 0
    BY FS_CardinalityType, FS_EmptySet
  <2>2. QED  BY <2>1
<1>2. ASSUME NEW f \in S, NEW h \in S, f <= h
      PROVE  Cardinality(below(f)) <= Cardinality(below(h))
  <2>1. ASSUME NEW g \in S, g < f PROVE g < h
    <3>1. g \in Nat /\ f \in Nat /\ h \in Nat
      OBVIOUS
    <3>2. QED  BY <1>2, <2>1, <3>1
  <2>2. below(f) \in SUBSET below(h)
    BY <2>1
  <2>3. below(h) \in SUBSET S
    OBVIOUS
  <2>4. IsFiniteSet(below(h))
    BY <2>3, FS_Subset
  <2>5. QED  BY <2>2, <2>4, FS_Subset
<1>3. \A f \in S : Cardinality(below(f)) \in Nat
  <2> TAKE f \in S
  <2>1. below(f) \in SUBSET S
    OBVIOUS
  <2>2. QED  BY <2>1, FS_Subset, FS_CardinalityType
<1>4. Half(S) = {f \in S : Cardinality(below(f)) < (n + 1) \div 2}
  BY DEF Half
<1>5. \E f \in S : Cardinality(below(f)) = 0
  <2>1. PICK m \in S : \A x \in S : m <= x
    BY Least
  <2>2. ASSUME NEW g \in below(m) PROVE FALSE
    <3>1. g \in Nat /\ m \in Nat /\ m <= g /\ g < m
      BY <2>1
    <3>2. QED  BY <3>1
  <2>3. below(m) = {}
    BY <2>2
  <2>4. QED  BY <2>3, FS_EmptySet
<1>6. \E f \in S : Cardinality(below(f)) = n - 1
  <2>1. PICK N \in Nat : \A x \in S : x <= N
    <3> SUFFICES ASSUME \A N \in Nat : \E x \in S : ~(x <= N) PROVE FALSE
      OBVIOUS
    <3>1. \A k \in 1..n : \E i \in S : Cardinality({h \in S : h <= i}) = k
      <4>1. S \subseteq Int
        OBVIOUS
      <4>2. QED  BY <4>1, Ranks
    <3>2. PICK i \in S : Cardinality({h \in S : h <= i}) = n
      BY <1>1, <3>1
    <3>3. {h \in S : h <= i} \in SUBSET S
      OBVIOUS
    <3>4. {h \in S : h <= i} = S
      BY <3>2, <3>3, FS_Subset
    <3>5. QED  BY <3>4
  <2>2. PICK m \in S : \A x \in S : x <= m
    BY <2>1, Greatest
  <2>3. below(m) = S \ {m}
    <3>1. ASSUME NEW g \in S, g # m PROVE g < m
      <4>1. g \in Nat /\ m \in Nat /\ g <= m
        BY <2>2
      <4>2. QED  BY <3>1, <4>1
    <3>2. ~(m < m)
      OBVIOUS
    <3>3. QED  BY <3>1, <3>2
  <2>4. QED  BY <2>3, FS_RemoveElement
<1> DEFINE m == (n + 1) \div 2
<1>7. m \in Nat /\ 0 < m /\ m <= n - 1
  BY <1>1
<1> HIDE DEF m, n, below
<1>8. Half(S) \subseteq S /\ Half(S) # {} /\ S \ Half(S) # {}
  <2>1. Half(S) = {f \in S : Cardinality(below(f)) < m}
    BY <1>4 DEF m
  <2>2. PICK f \in S : Cardinality(below(f)) = 0
    BY <1>5
  <2>3. PICK h \in S : Cardinality(below(h)) = n - 1
    BY <1>6
  <2>4. ~(n - 1 < m)
    BY <1>1, <1>7
  <2>5. QED  BY <1>7, <2>1, <2>2, <2>3, <2>4
<1>9. ASSUME NEW a \in Half(S), NEW b \in S \ Half(S) PROVE a < b
  <2>1. a \in S /\ b \in S /\ a \in Nat /\ b \in Nat
    BY <1>4
  <2>2. Cardinality(below(a)) < m /\ ~(Cardinality(below(b)) < m)
    BY <1>4 DEF m
  <2>3. ~(b <= a)
    <3> SUFFICES ASSUME b <= a PROVE FALSE
      OBVIOUS
    <3>1. Cardinality(below(b)) <= Cardinality(below(a))
      BY <1>2, <2>1
    <3>2. Cardinality(below(a)) \in Nat /\ Cardinality(below(b)) \in Nat
      BY <1>3, <2>1
    <3>3. QED  BY <1>7, <2>2, <3>1, <3>2
  <2>4. QED  BY <2>1, <2>3
<1>10. QED  BY <1>8, <1>9

\* The files of a round are finitely many places.
LEMMA Places ==
  ASSUME NEW r \in DOMAIN Rounds
  PROVE  /\ Last(Rounds[r]) \in Nat \ {0} /\ Files(r) \subseteq Nat \ {0}
         /\ \A F \in SUBSET Files(r) : IsFiniteSet(F) /\ Cardinality(F) \in Nat
<1>1. Rounds[r] \in Seq(Nat) /\ Rounds[r] # <<>> /\ Last(Rounds[r]) > 0
  BY PoolAssumption
<1>2. Last(Rounds[r]) \in Nat \ {0}
  BY <1>1 DEF Last
<1>3. ASSUME NEW F \in SUBSET Files(r) PROVE IsFiniteSet(F) /\ Cardinality(F) \in Nat
  <2>1. IsFiniteSet(Files(r))
    BY <1>2, UpTo DEF Files
  <2>2. QED  BY <2>1, FS_Subset, FS_CardinalityType
<1>4. Files(r) \subseteq Nat \ {0}
  BY <1>2 DEF Files
<1>5. QED  BY <1>2, <1>3, <1>4

\* What has lost files, and nothing else, is as far from the others.
LEMMA ShrunkApart ==
  ASSUME NEW r \in DOMAIN Rounds, NEW h, NEW x, NEW g,
         InGroup(r, h), h.start \in Nat, InGroup(r, g), g.start \in Nat,
         x.start = h.start, x.files \subseteq h.files, x.files # {}
  PROVE  /\ InGroup(r, x)
         /\ Before(h, g) => Before(x, g)
         /\ Before(g, h) => Before(g, x)
<1>1. InGroup(r, x)
  BY DEF InGroup
<1>2. /\ IsFiniteSet(h.files) /\ Cardinality(h.files) \in Nat /\ Cardinality(x.files) \in Nat
      /\ Cardinality(g.files) \in Nat
  BY <1>1, Places DEF InGroup
<1>3. Cardinality(x.files) <= Cardinality(h.files)
  <2>1. x.files \in SUBSET h.files
    OBVIOUS
  <2>2. QED  BY <1>2, <2>1, FS_Subset
<1>4. ASSUME Before(h, g) PROVE Before(x, g)
  <2>1. x.start + Cardinality(x.files) <= g.start
    BY <1>2, <1>3, <1>4 DEF Before
  <2>2. QED  BY <1>4, <2>1 DEF Before
<1>5. ASSUME Before(g, h) PROVE Before(g, x)
  BY <1>5 DEF Before
<1>6. QED  BY <1>1, <1>4, <1>5

\* The halves of a job are in its group, in their order, and as far from the others.
LEMMA HalvesApart ==
  ASSUME NEW r \in DOMAIN Rounds, NEW h, NEW x, NEW y, NEW g,
         InGroup(r, h), h.start \in Nat, InGroup(r, g), g.start \in Nat,
         Cardinality(h.files) # 1,
         x.start = h.start, x.files = Half(h.files),
         y.start = h.start + Cardinality(Half(h.files)),
         y.files = h.files \ Half(h.files)
  PROVE  /\ InGroup(r, x) /\ InGroup(r, y) /\ Before(x, y)
         /\ Before(h, g) => Before(x, g) /\ Before(y, g)
         /\ Before(g, h) => Before(g, x) /\ Before(g, y)
<1> DEFINE F == h.files
           A == Half(F)
           B == F \ A
<1>1. /\ F \in SUBSET Nat /\ F \in SUBSET Files(r) /\ F # {} /\ IsFiniteSet(F)
      /\ Cardinality(F) \in Nat
  BY Places DEF InGroup
<1>2. A \subseteq F /\ A # {} /\ B # {} /\ \A a \in A, b \in B : a < b
  BY <1>1, Halves
<1> HIDE DEF A
<1>3. /\ IsFiniteSet(A) /\ IsFiniteSet(B) /\ Cardinality(A) \in Nat /\ Cardinality(B) \in Nat
      /\ Cardinality(A) + Cardinality(B) = Cardinality(F)
  <2>1. A \in SUBSET Files(r) /\ B \in SUBSET Files(r)
    BY <1>1, <1>2
  <2>2. IsFiniteSet(A) /\ IsFiniteSet(B) /\ Cardinality(A) \in Nat /\ Cardinality(B) \in Nat
    BY <2>1, Places
  <2>3. A \cup B = F /\ A \cap B = {}
    BY <1>2
  <2>4. Cardinality(F) = Cardinality(A) + Cardinality(B) - Cardinality({})
    BY <2>2, <2>3, FS_Union
  <2>5. QED  BY <2>2, <2>4, FS_EmptySet
<1>4. x.start = h.start /\ x.files = A /\ y.start = h.start + Cardinality(A) /\ y.files = B
  BY DEF A
<1>5. \A f \in B : y.start <= f
  <2> SUFFICES ASSUME NEW f \in B PROVE y.start <= f
    OBVIOUS
  <2>1. f \in Nat /\ h.start <= f
    BY <1>1 DEF InGroup
  <2>2. ASSUME NEW a \in A PROVE a \in h.start..(f - 1)
    <3>1. a \in Nat /\ h.start <= a /\ a < f
      BY <1>1, <1>2 DEF InGroup
    <3>2. QED  BY <2>1, <3>1
  <2>3. A \in SUBSET (h.start..(f - 1))
    BY <2>2
  <2>4. h.start \in Int /\ f - 1 \in Int /\ ~(h.start > f - 1)
    <3>1. PICK a \in A : TRUE
      BY <1>2
    <3>2. a \in Nat /\ h.start <= a /\ a < f
      BY <1>1, <1>2 DEF InGroup
    <3>3. QED  BY <2>1, <3>2
  <2>5. IsFiniteSet(h.start..(f - 1)) /\ Cardinality(h.start..(f - 1)) = f - 1 - h.start + 1
    BY <2>4, FS_Interval
  <2> DEFINE D == h.start..(f - 1)
  <2> HIDE DEF D
  <2>6. Cardinality(A) <= Cardinality(D)
    <3>1. A \in SUBSET D /\ IsFiniteSet(D)
      BY <2>3, <2>5 DEF D
    <3>2. QED  BY <3>1, FS_Subset
  <2>7. Cardinality(D) = f - h.start
    <3>1. Cardinality(D) = f - 1 - h.start + 1
      BY <2>5 DEF D
    <3>2. QED  BY <2>1, <2>4, <3>1
  <2>8. QED  BY <1>3, <1>4, <2>1, <2>6, <2>7
<1>6. InGroup(r, x)
  BY <1>1, <1>2, <1>4 DEF InGroup
<1>7. InGroup(r, y)
  <2>1. y.files # {} /\ y.files \subseteq Files(r) /\ y.start > 0
    BY <1>1, <1>2, <1>3, <1>4 DEF InGroup
  <2>2. ASSUME NEW i \in DOMAIN Rounds[r]
        PROVE  Rounds[r][i] < y.start \/ \A f \in B : f <= Rounds[r][i]
    <3>1. Rounds[r][i] \in Nat
      <4>1. Rounds \in Seq(Seq(Nat))
        BY PoolAssumption
      <4>2. Rounds[r] \in Seq(Nat)
        BY <4>1
      <4>3. QED  BY <4>2
    <3>2. CASE Rounds[r][i] < h.start
      BY <1>3, <1>4, <3>1, <3>2
    <3>3. CASE \A f \in h.files : f <= Rounds[r][i]
      BY <3>3
    <3>4. QED  BY <3>2, <3>3 DEF InGroup
  <2>3. QED  BY <1>4, <1>5, <2>1, <2>2 DEF InGroup
<1>8. Before(x, y)
  BY <1>2, <1>3, <1>4 DEF Before
<1>9. ASSUME Before(h, g) PROVE Before(x, g) /\ Before(y, g)
  <2>1. h.start + Cardinality(F) <= g.start /\ \A a \in F, b \in g.files : a < b
    BY <1>9 DEF Before
  <2>2. x.start + Cardinality(A) <= g.start /\ y.start + Cardinality(B) <= g.start
    BY <1>3, <1>4, <2>1
  <2>3. QED  BY <1>2, <1>4, <2>1, <2>2 DEF Before
<1>10. ASSUME Before(g, h) PROVE Before(g, x) /\ Before(g, y)
  <2>1. g.start + Cardinality(g.files) <= h.start /\ \A a \in g.files, b \in F : a < b
    BY <1>10 DEF Before
  <2>2. Cardinality(g.files) \in Nat
    BY Places DEF InGroup
  <2>3. g.start + Cardinality(g.files) <= y.start
    BY <1>3, <1>4, <2>1, <2>2
  <2>4. QED  BY <1>2, <1>4, <2>1, <2>3 DEF Before
<1>11. QED  BY <1>6, <1>7, <1>8, <1>9, <1>10

-----------------------------------------------------------------------------
(* runWorker.                                                              *)

\* A queue without quarantined files is dispatched as it is.
LEMMA Queue ==
  ASSUME NEW d \in Desks,
         \A k \in DOMAIN d.jobs : d.jobs[k].files # {} /\ d.jobs[k].files \cap d.bad = {}
  PROVE  Dispatchable(d) = d.jobs
<1> DEFINE left == [k \in DOMAIN d.jobs |-> [d.jobs[k] EXCEPT !.files = @ \ d.bad]]
           T == {j \in ToSet(left) : j.files # {}}
<1>1. d.jobs \in Seq(Jobs)
  BY DEF Desks
<1>2. \A k \in DOMAIN d.jobs : [d.jobs[k] EXCEPT !.files = @ \ d.bad] = d.jobs[k]
  <2> TAKE k \in DOMAIN d.jobs
  <2>1. d.jobs[k] \in Jobs
    BY <1>1
  <2>2. d.jobs[k].files \ d.bad = d.jobs[k].files
    OBVIOUS
  <2>3. QED  BY <2>1, <2>2 DEF Jobs
<1>3. left = d.jobs
  <2>1. d.jobs = [k \in DOMAIN d.jobs |-> d.jobs[k]]
    BY <1>1
  <2>2. left = [k \in DOMAIN d.jobs |-> d.jobs[k]]
    BY <1>2
  <2>3. QED  BY <2>1, <2>2
<1>4. \A k \in DOMAIN d.jobs : d.jobs[k] \in T
  BY <1>3 DEF ToSet
<1>5. Dispatchable(d) = Only(left, T)
  BY DEF Dispatchable
<1> HIDE DEF left, T
<1>6. Only(d.jobs, T) = d.jobs
  BY <1>1, <1>4, OnlyAll
<1>7. QED  BY <1>3, <1>5, <1>6

\* n slots in turn: each of the first n of a sequence, for one place of the queue.
LEMMA Hired ==
  ASSUME NEW ready \in Seq(Slots), IsInjective(ready), NEW n \in 0..Len(ready)
  PROVE  LET T == {ready[k] : k \in 1..n}
             turn(s) == CHOOSE k \in 1..n : ready[k] = s
         IN  /\ T \subseteq Slots /\ IsFiniteSet(T) /\ Cardinality(T) = n
             /\ \A s \in T : turn(s) \in 1..n /\ ready[turn(s)] = s
             /\ \A k \in 1..n : ready[k] \in T /\ turn(ready[k]) = k
<1> DEFINE T == {ready[k] : k \in 1..n}
           turn(s) == CHOOSE k \in 1..n : ready[k] = s
           f == [k \in 1..n |-> ready[k]]
<1>1. n \in Nat /\ 1..n \subseteq DOMAIN ready /\ T \subseteq Slots
  OBVIOUS
<1>2. \A k, l \in 1..n : ready[k] = ready[l] => k = l
  BY <1>1 DEF IsInjective
<1>3. \A s \in T : turn(s) \in 1..n /\ ready[turn(s)] = s
  OBVIOUS
<1>4. \A k \in 1..n : ready[k] \in T /\ turn(ready[k]) = k
  <2> HIDE DEF turn
  <2>1. \A k \in 1..n : ready[k] \in T
    OBVIOUS
  <2> HIDE DEF T
  <2>2. QED  BY <1>2, <1>3, <2>1
<1>5. IsFiniteSet(T) /\ Cardinality(T) = n
  <2>1. f \in Bijection(1..n, T)
    <3>1. f \in [1..n -> T] /\ \A t \in T : \E k \in 1..n : f[k] = t
      OBVIOUS
    <3>2. \A k, l \in 1..n : f[k] = f[l] => k = l
      BY <1>2
    <3> HIDE DEF f, T
    <3>3. QED  BY <3>1, <3>2 DEF Bijection, Injection, Surjection, IsInjective
  <2>2. IsFiniteSet(1..n) /\ Cardinality(1..n) = n
    BY <1>1, UpTo
  <2> HIDE DEF f, T
  <2>3. QED  BY <2>1, <2>2, FS_Bijection DEF ExistsBijection
<1>6. QED  BY <1>1, <1>3, <1>4, <1>5

\* The desk e after the first n jobs of d went to the slots T, each at its turn.
Handover(d, e, n, T, turn) ==
    /\ e \in Desks /\ e.active = d.active /\ e.bad = d.bad
    /\ IsFiniteSet(T) /\ Cardinality(T) = n
    /\ \A s, t \in T : turn[s] = turn[t] => s = t
    /\ \A k \in 1..n : \E s \in T : turn[s] = k
    /\ T \subseteq d.active \ d.busy /\ \A s \in T : d.worker[s] # "none"
    /\ e.jobs = SubSeq(d.jobs, n + 1, Len(d.jobs))
    /\ \A s \in T : e.job[s] = [d.jobs[turn[s]] EXCEPT !.phase = "parsing"]
    /\ \A s \in Slots \ T : e.job[s] = d.job[s] /\ e.worker[s] = d.worker[s]
    /\ \A s \in T : e.worker[s] = IF d.worker[s] = "parked" THEN "busy" ELSE d.worker[s]
    /\ e.busy = d.busy \cup T /\ e.count = d.count + n

\* One of the slots that runWorker is called for may take a job.
Idle(d, order) ==
    \E i \in DOMAIN order : order[i] \in d.active \ d.busy /\ d.worker[order[i]] # "none"

\* What RunWorkers makes of a desk is such a handover, of one job at least when
\* one is queued and a slot may take it.
LEMMA Handed ==
  ASSUME NEW d \in Desks, NEW order \in Seq(Slots), IsInjective(order),
         \A k \in DOMAIN d.jobs : d.jobs[k].files # {} /\ d.jobs[k].files \cap d.bad = {}
  PROVE  \E n \in 0..Len(d.jobs), T \in SUBSET Slots : \E turn \in [T -> 1..n] :
             /\ Handover(d, RunWorkers(d, order), n, T, turn)
             /\ Idle(d, order) => n # 0 \/ Len(d.jobs) = 0
<1> DEFINE fit == {s \in d.active \ d.busy : d.worker[s] # "none"}
           ready == Only(order, fit)
           n == Min({Len(d.jobs), Len(ready)})
           T == {ready[k] : k \in 1..n}
           place(s) == CHOOSE k \in 1..n : ready[k] = s
           turn == [s \in T |-> place(s)]
           left == SubSeq(d.jobs, n + 1, Len(d.jobs))
           hands == [s \in Slots |-> IF s \in T
                                     THEN [d.jobs[place(s)] EXCEPT !.phase = "parsing"]
                                     ELSE d.job[s]]
           staff == [s \in Slots |-> IF s \in T /\ d.worker[s] = "parked"
                                     THEN "busy" ELSE d.worker[s]]
           e == RunWorkers(d, order)
<1>1. /\ d.jobs \in Seq(Jobs) /\ Len(d.jobs) \in Nat /\ DOMAIN d.jobs = 1..Len(d.jobs)
      /\ d.job \in [Slots -> Jobs \cup {NoJob}] /\ d.busy \in SUBSET Slots /\ d.count \in Int
      /\ d.worker \in [Slots -> WorkerStates]
  BY DEF Desks
<1>2. ready \in Seq(Slots \cap fit) /\ IsInjective(ready)
  <2> HIDE DEF fit
  <2>1. QED  BY OnlyPicks
<1>3. /\ n \in Nat /\ n <= Len(d.jobs) /\ n <= Len(ready)
      /\ n = Len(d.jobs) \/ n = Len(ready)
  <2>1. Len(ready) \in Nat
    BY <1>2
  <2>2. /\ Min({Len(d.jobs), Len(ready)}) \in {Len(d.jobs), Len(ready)}
        /\ \A x \in {Len(d.jobs), Len(ready)} : Min({Len(d.jobs), Len(ready)}) <= x
    <3> HIDE DEF ready
    <3>1. {Len(d.jobs), Len(ready)} \in SUBSET Nat /\ {Len(d.jobs), Len(ready)} # {}
      BY <1>1, <2>1
    <3>2. QED  BY <3>1, Least
  <2>3. QED  BY <1>1, <2>1, <2>2
<1>4. Dispatchable(d) = d.jobs
  BY Queue
<1>5. e = [d EXCEPT !.jobs = left, !.job = hands, !.busy = d.busy \cup T,
                    !.count = d.count + n, !.worker = staff]
  BY <1>4 DEF RunWorkers
<1>6. ASSUME Idle(d, order) PROVE n # 0 \/ Len(d.jobs) = 0
  <2>1. PICK i \in DOMAIN order : order[i] \in fit
    BY <1>6 DEF Idle
  <2>2. PICK k \in DOMAIN ready : ready[k] = order[i]
    <3> HIDE DEF fit
    <3>1. QED  BY <2>1, OnlyFinds
  <2> HIDE DEF n, ready, fit
  <2>3. Len(ready) # 0
    BY <1>2, <2>2
  <2>4. QED  BY <1>3, <2>3
<1> HIDE DEF n, ready
<1>7. /\ T \subseteq Slots /\ IsFiniteSet(T) /\ Cardinality(T) = n
      /\ \A s \in T : place(s) \in 1..n /\ ready[place(s)] = s
      /\ \A k \in 1..n : ready[k] \in T /\ place(ready[k]) = k
  <2>1. ready \in Seq(Slots) /\ n \in 0..Len(ready)
    <3>1. ready \in Seq(Slots)
      <4>1. Slots \cap fit \subseteq Slots
        OBVIOUS
      <4> HIDE DEF fit
      <4>2. QED  BY <1>2, <4>1, SeqMonotonic
    <3>2. QED  BY <1>3, <3>1
  <2>2. QED  BY <1>2, <2>1, Hired
<1>8. T \subseteq fit
  <2>1. \A k \in 1..n : ready[k] \in fit
    <3> HIDE DEF fit
    <3>1. QED  BY <1>2, <1>3
  <2>2. QED  BY <2>1
<1> HIDE DEF place, T
<1>9. turn \in [T -> 1..n] /\ \A s \in T : turn[s] = place(s)
  BY <1>7
<1>10. left \in Seq(Jobs)
  <2>1. \A i \in (n + 1)..Len(d.jobs) : d.jobs[i] \in Jobs
    BY <1>1, <1>3
  <2>2. n + 1 \in Int /\ Len(d.jobs) \in Int
    BY <1>1, <1>3
  <2>3. QED  BY <2>1, <2>2, SubSeqProperties
<1>11. hands \in [Slots -> Jobs \cup {NoJob}]
  <2> SUFFICES ASSUME NEW s \in T
               PROVE  [d.jobs[place(s)] EXCEPT !.phase = "parsing"] \in Jobs
    BY <1>1
  <2>1. d.jobs[place(s)] \in Jobs
    BY <1>1, <1>3, <1>7
  <2>2. QED  BY <2>1 DEF Jobs, Phases
<1>12. staff \in [Slots -> WorkerStates]
  BY <1>1 DEF WorkerStates
<1>13. /\ \A s \in T : hands[s] = [d.jobs[turn[s]] EXCEPT !.phase = "parsing"]
       /\ \A s \in T : staff[s] = IF d.worker[s] = "parked" THEN "busy" ELSE d.worker[s]
       /\ \A s \in Slots \ T : hands[s] = d.job[s] /\ staff[s] = d.worker[s]
  <2>1. ASSUME NEW s \in T
        PROVE  /\ hands[s] = [d.jobs[turn[s]] EXCEPT !.phase = "parsing"]
               /\ staff[s] = IF d.worker[s] = "parked" THEN "busy" ELSE d.worker[s]
    <3> HIDE DEF turn
    <3>1. s \in Slots
      BY <1>7
    <3>2. QED  BY <1>9, <3>1
  <2>2. QED  BY <2>1
<1> HIDE DEF left, hands, staff
<1>14. /\ e.jobs = left /\ e.job = hands /\ e.busy = d.busy \cup T /\ e.count = d.count + n
       /\ e.worker = staff /\ e.active = d.active /\ e.bad = d.bad
  BY <1>5 DEF Desks
<1>15. e \in Desks
  <2>1. d.busy \cup T \in SUBSET Slots /\ d.count + n \in Int
    BY <1>1, <1>3, <1>7
  <2>2. QED  BY <1>5, <1>10, <1>11, <1>12, <2>1 DEF Desks
<1>16. \A s, t \in T : turn[s] = turn[t] => s = t
  BY <1>7, <1>9
<1>17. \A k \in 1..n : \E s \in T : turn[s] = k
  BY <1>7, <1>9
<1>18. Handover(d, e, n, T, turn)
  <2>1. T \subseteq d.active \ d.busy /\ \A s \in T : d.worker[s] # "none"
    BY <1>8
  <2> HIDE DEF turn, e
  <2>2. QED  BY <1>7, <1>13, <1>14, <1>15, <1>16, <1>17, <2>1 DEF Handover, left
<1>19. n \in 0..Len(d.jobs) /\ T \in SUBSET Slots
  BY <1>1, <1>3, <1>7
<1> HIDE DEF turn, e
<1>20. QED  BY <1>6, <1>9, <1>18, <1>19 DEF e

\* A job has a phase that NoJob has not.
LEMMA AJob ==
  ASSUME NEW j \in Jobs
  PROVE  j # NoJob /\ Piece(j) \in Results
BY DEF Jobs, Phases, NoJob, Piece, Results

\* After a handover the queue is the rest, and the slots have the pieces it lost.
Moved(d, e, n, T, turn) ==
    /\ AtWork(e) = AtWork(d) \cup T
    /\ \A k \in DOMAIN e.jobs : n + k \in DOMAIN d.jobs /\ e.jobs[k] = d.jobs[n + k]
    /\ \A k \in DOMAIN d.jobs : k > n => k - n \in DOMAIN e.jobs
    /\ \A s \in T : /\ turn[s] \in DOMAIN d.jobs /\ turn[s] <= n
                    /\ Piece(e.job[s]) = Piece(d.jobs[turn[s]])
                    /\ e.job[s].files = d.jobs[turn[s]].files
    /\ \A s \in AtWork(e) \ T : s \in AtWork(d) /\ e.job[s] = d.job[s]

\* A handover moves pieces and makes none.
LEMMA HandedPieces ==
  ASSUME NEW d \in Desks, NEW e, NEW n \in 0..Len(d.jobs), NEW T \in SUBSET Slots,
         NEW turn \in [T -> 1..n], Handover(d, e, n, T, turn)
  PROVE  Moved(d, e, n, T, turn)
<1>1. /\ d.jobs \in Seq(Jobs) /\ Len(d.jobs) \in Nat /\ DOMAIN d.jobs = 1..Len(d.jobs)
      /\ n \in Nat /\ n <= Len(d.jobs)
  BY DEF Desks
<1>2. \A s \in T : turn[s] \in DOMAIN d.jobs /\ turn[s] <= n
  BY <1>1
<1>3. \A s \in T : e.job[s] # NoJob /\ Piece(e.job[s]) = Piece(d.jobs[turn[s]])
                   /\ e.job[s].files = d.jobs[turn[s]].files
  <2> TAKE s \in T
  <2>1. d.jobs[turn[s]] \in Jobs
    BY <1>1, <1>2
  <2>2. e.job[s] = [d.jobs[turn[s]] EXCEPT !.phase = "parsing"]
    BY DEF Handover
  <2>3. e.job[s] \in Jobs
    BY <2>1, <2>2 DEF Jobs, Phases
  <2>4. e.job[s].start = d.jobs[turn[s]].start /\ e.job[s].files = d.jobs[turn[s]].files
    BY <2>1, <2>2 DEF Jobs
  <2>5. QED  BY <2>3, <2>4, AJob DEF Piece
<1>4. AtWork(e) = AtWork(d) \cup T
  <2>1. \A s \in Slots \ T : e.job[s] = d.job[s]
    BY DEF Handover
  <2>2. QED  BY <1>3, <2>1 DEF AtWork
<1>5. \A s \in AtWork(e) \ T : s \in AtWork(d) /\ e.job[s] = d.job[s]
  <2>1. \A s \in Slots \ T : e.job[s] = d.job[s]
    BY DEF Handover
  <2>2. QED  BY <2>1 DEF AtWork
<1>6. /\ \A k \in DOMAIN e.jobs : n + k \in DOMAIN d.jobs /\ e.jobs[k] = d.jobs[n + k]
      /\ \A k \in DOMAIN d.jobs : k > n => k - n \in DOMAIN e.jobs
  <2>1. e.jobs = SubSeq(d.jobs, n + 1, Len(d.jobs))
    BY DEF Handover
  <2> DEFINE m == n + 1
             l == Len(d.jobs)
  <2>2. \A i \in m..l : d.jobs[i] \in Jobs
    BY <1>1
  <2>3. m \in Int /\ l \in Int
    BY <1>1
  <2> HIDE DEF m, l
  <2>4. /\ e.jobs \in Seq(Jobs)
        /\ Len(e.jobs) = IF m <= l THEN l - m + 1 ELSE 0
        /\ \A i \in 1..(l - m + 1) : e.jobs[i] = d.jobs[m + i - 1]
    <3>1. e.jobs = SubSeq(d.jobs, m, l)
      BY <2>1 DEF m, l
    <3>2. QED  BY <2>2, <2>3, <3>1, SubSeqProperties
  <2> USE DEF m, l
  <2>5. Len(e.jobs) = Len(d.jobs) - n /\ DOMAIN e.jobs = 1..(Len(d.jobs) - n)
    BY <1>1, <2>4
  <2>6. \A k \in DOMAIN e.jobs : n + 1 + k - 1 = n + k
    BY <1>1, <2>5
  <2>7. \A k \in DOMAIN e.jobs : e.jobs[k] = d.jobs[n + k]
    <3> TAKE k \in DOMAIN e.jobs
    <3>1. k \in 1..(Len(d.jobs) - (n + 1) + 1)
      BY <1>1, <2>5
    <3>2. QED  BY <2>4, <2>6, <3>1
  <2>8. QED  BY <1>1, <2>5, <2>7
<1>7. QED  BY <1>2, <1>3, <1>4, <1>5, <1>6 DEF Moved

\* So what is owed is the same, and as spread as before.
LEMMA HandedSpread ==
  ASSUME NEW r, NEW res, NEW rec \in SUBSET Slots, NEW d \in Desks, NEW e,
         NEW n \in 0..Len(d.jobs), NEW T \in SUBSET Slots, NEW turn \in [T -> 1..n],
         Handover(d, e, n, T, turn),
         Staffed(d, rec), Spread(r, d, res)
  PROVE  Spread(r, e, res) /\ Owed(e) = Owed(d)
<1>0. T \cap AtWork(d) = {}
  BY DEF Handover, Staffed
<1>1. /\ AtWork(e) = AtWork(d) \cup T
      /\ \A k \in DOMAIN e.jobs : n + k \in DOMAIN d.jobs /\ e.jobs[k] = d.jobs[n + k]
      /\ \A k \in DOMAIN d.jobs : k > n => k - n \in DOMAIN e.jobs
      /\ \A s \in T : /\ turn[s] \in DOMAIN d.jobs /\ turn[s] <= n
                      /\ Piece(e.job[s]) = Piece(d.jobs[turn[s]])
                      /\ e.job[s].files = d.jobs[turn[s]].files
      /\ \A s \in AtWork(e) \ T : s \in AtWork(d) /\ e.job[s] = d.job[s]
  <2>1. Moved(d, e, n, T, turn)
    BY HandedPieces
  <2>2. QED  BY <2>1 DEF Moved
<1>2. /\ d.jobs \in Seq(Jobs) /\ DOMAIN d.jobs \subseteq Nat /\ n \in Nat
      /\ DOMAIN e.jobs \subseteq Nat \ {0}
  <2>1. d.jobs \in Seq(Jobs) /\ n \in Nat
    BY DEF Desks
  <2>2. e.jobs \in Seq(Jobs)
    BY DEF Handover, Desks
  <2>3. QED  BY <2>1, <2>2
<1>3. \A s, t \in T : s # t => turn[s] # turn[t]
  BY DEF Handover
<1>4. e.bad = d.bad
  BY DEF Handover
<1>5. /\ \A k \in DOMAIN e.jobs : Sound(r, e.bad, Piece(e.jobs[k]))
      /\ \A s \in AtWork(e) : Sound(r, e.bad, Piece(e.job[s]))
      /\ \A p \in res : Sound(r, e.bad, p)
  BY <1>1, <1>4 DEF Spread
<1>6. \A k, l \in DOMAIN e.jobs : k # l => Apart(Piece(e.jobs[k]), Piece(e.jobs[l]))
  <2> SUFFICES ASSUME NEW k \in DOMAIN e.jobs, NEW l \in DOMAIN e.jobs, k # l
               PROVE  Apart(Piece(e.jobs[k]), Piece(e.jobs[l]))
    OBVIOUS
  <2>1. n + k # n + l
    BY <1>2
  <2>2. QED  BY <1>1, <2>1 DEF Spread
<1>7. \A s, t \in AtWork(e) : s # t => Apart(Piece(e.job[s]), Piece(e.job[t]))
  <2> SUFFICES ASSUME NEW s \in AtWork(e), NEW t \in AtWork(e), s # t
               PROVE  Apart(Piece(e.job[s]), Piece(e.job[t]))
    OBVIOUS
  <2>1. CASE s \in T /\ t \in T
    BY <1>1, <1>3, <2>1 DEF Spread
  <2>2. CASE s \in T /\ t \notin T
    BY <1>1, <2>2 DEF Spread
  <2>3. CASE s \notin T /\ t \in T
    BY <1>1, <2>3 DEF Spread, Apart
  <2>4. CASE s \notin T /\ t \notin T
    BY <1>1, <2>4 DEF Spread
  <2>5. QED  BY <2>1, <2>2, <2>3, <2>4
<1>8. \A k \in DOMAIN e.jobs, s \in AtWork(e) : Apart(Piece(e.jobs[k]), Piece(e.job[s]))
  <2> SUFFICES ASSUME NEW k \in DOMAIN e.jobs, NEW s \in AtWork(e)
               PROVE  Apart(Piece(e.jobs[k]), Piece(e.job[s]))
    OBVIOUS
  <2>1. CASE s \in T
    <3>1. n + k # turn[s]
      BY <1>1, <1>2, <2>1
    <3>2. QED  BY <1>1, <2>1, <3>1 DEF Spread
  <2>2. CASE s \notin T
    BY <1>1, <2>2 DEF Spread
  <2>3. QED  BY <2>1, <2>2
<1>9. /\ \A k \in DOMAIN e.jobs, p \in res : Apart(Piece(e.jobs[k]), p)
      /\ \A s \in AtWork(e), p \in res : Apart(Piece(e.job[s]), p)
      /\ \A p, q \in res : p # q => Apart(p, q)
  BY <1>1 DEF Spread
<1>10. Spread(r, e, res)
  BY <1>5, <1>6, <1>7, <1>8, <1>9 DEF Spread
<1>11. Owed(e) \subseteq Owed(d)
  <2>1. \A k \in DOMAIN e.jobs : e.jobs[k].files \subseteq Owed(d)
    BY <1>1 DEF Owed
  <2>2. \A s \in AtWork(e) : e.job[s].files \subseteq Owed(d)
    <3> SUFFICES ASSUME NEW s \in AtWork(e) PROVE e.job[s].files \subseteq Owed(d)
      OBVIOUS
    <3>1. CASE s \in T
      BY <1>1, <3>1 DEF Owed
    <3>2. CASE s \notin T
      BY <1>1, <3>2 DEF Owed
    <3>3. QED  BY <3>1, <3>2
  <2>3. QED  BY <2>1, <2>2 DEF Owed
<1>12. Owed(d) \subseteq Owed(e)
  <2>1. \A k \in DOMAIN d.jobs : d.jobs[k].files \subseteq Owed(e)
    <3> SUFFICES ASSUME NEW k \in DOMAIN d.jobs PROVE d.jobs[k].files \subseteq Owed(e)
      OBVIOUS
    <3>1. k \in Nat /\ k >= 1
      BY <1>2
    <3>2. CASE k > n
      <4>1. k - n \in DOMAIN e.jobs /\ n + (k - n) = k
        BY <1>1, <1>2, <3>1, <3>2
      <4>2. e.jobs[k - n] = d.jobs[k]
        BY <1>1, <4>1
      <4>3. QED  BY <4>1, <4>2 DEF Owed
    <3>3. CASE k <= n
      <4>1. k \in 1..n
        BY <1>2, <3>1, <3>3
      <4>2. PICK s \in T : turn[s] = k
        BY <4>1 DEF Handover
      <4>3. QED  BY <1>1, <4>2 DEF Owed
    <3>4. QED  BY <1>2, <3>1, <3>2, <3>3
  <2>2. \A s \in AtWork(d) : e.job[s] = d.job[s]
    BY <1>0 DEF Handover, AtWork
  <2>3. QED  BY <1>1, <2>1, <2>2 DEF Owed
<1>13. QED  BY <1>10, <1>11, <1>12

\* There are finitely many slots.
LEMMA SlotsFinite ==
  ASSUME NEW S \in SUBSET Slots
  PROVE  IsFiniteSet(S) /\ Cardinality(S) \in 0..size
<1>1. size \in Nat
  BY SizeAssumption
<1>2. IsFiniteSet(Slots) /\ Cardinality(Slots) = size
  BY <1>1, UpTo DEF Slots
<1>3. IsFiniteSet(S) /\ Cardinality(S) <= size
  BY <1>2, FS_Subset
<1>4. QED  BY <1>1, <1>3, FS_CardinalityType

\* The slots at work after a handover have workers, and are counted.
LEMMA HandedStaffed ==
  ASSUME NEW rec \in SUBSET Slots, NEW d \in Desks, NEW e, NEW n \in 0..Len(d.jobs),
         NEW T \in SUBSET Slots, NEW turn \in [T -> 1..n], Handover(d, e, n, T, turn),
         Staffed(d, rec)
  PROVE  Staffed(e, rec)
<1>1. /\ e.active = d.active /\ Cardinality(T) = n /\ IsFiniteSet(T)
      /\ T \subseteq d.active \ d.busy /\ \A s \in T : d.worker[s] # "none"
      /\ \A s \in Slots \ T : e.worker[s] = d.worker[s]
      /\ \A s \in T : e.worker[s] = IF d.worker[s] = "parked" THEN "busy" ELSE d.worker[s]
      /\ e.busy = d.busy \cup T /\ e.count = d.count + n
  BY DEF Handover
<1>2. AtWork(e) = AtWork(d) \cup T
  <2>1. Moved(d, e, n, T, turn)
    BY HandedPieces
  <2>2. QED  BY <2>1 DEF Moved
<1>3. T \cap AtWork(d) = {} /\ T \cap rec = {}
  BY <1>1 DEF Staffed
<1>4. AtWork(d) \subseteq Slots
  BY DEF AtWork
<1>5. \A s \in Slots : e.worker[s] = "busy" => s \in AtWork(e)
  BY <1>1, <1>2 DEF Staffed
<1>6. \A s \in AtWork(e) : /\ s \in e.active \cap e.busy /\ s \notin rec
                           /\ e.worker[s] # "none" /\ e.job[s].phase # "queued"
  <2> SUFFICES ASSUME NEW s \in AtWork(e)
               PROVE  /\ s \in e.active \cap e.busy /\ s \notin rec
                      /\ e.worker[s] # "none" /\ e.job[s].phase # "queued"
    OBVIOUS
  <2>1. CASE s \in T
    <3>1. e.job[s] = [d.jobs[turn[s]] EXCEPT !.phase = "parsing"] /\ d.jobs[turn[s]] \in Jobs
      BY <2>1 DEF Handover, Desks
    <3>2. e.job[s].phase # "queued"
      BY <3>1 DEF Jobs
    <3>3. QED  BY <1>1, <1>3, <2>1, <3>2
  <2>2. CASE s \notin T
    <3>1. s \in AtWork(d) /\ e.job[s] = d.job[s]
      BY <1>2, <1>4, <2>2 DEF Handover
    <3>2. QED  BY <1>1, <1>4, <2>2, <3>1 DEF Staffed
  <2>3. QED  BY <2>1, <2>2
<1>7. \A s \in rec : s \in e.active /\ e.worker[s] = "none"
  BY <1>1, <1>3 DEF Staffed
<1>8. e.busy \subseteq AtWork(e) \cup rec
  BY <1>1, <1>2 DEF Staffed
<1>9. \A s \in e.active : e.worker[s] = "none" => s \in rec
  <2>1. e.active \subseteq Slots
    BY DEF Handover, Desks
  <2>2. QED  BY <1>1, <2>1 DEF Staffed
<1>10. e.count = Cardinality(AtWork(e) \cup rec)
  <2> DEFINE W == AtWork(d) \cup rec
  <2>1. W \in SUBSET Slots /\ AtWork(e) \cup rec = W \cup T /\ W \cap T = {}
    BY <1>2, <1>3, <1>4
  <2>2. d.count = Cardinality(W)
    BY DEF Staffed
  <2> HIDE DEF W
  <2>3. IsFiniteSet(W) /\ Cardinality(W) \in Nat
    BY <2>1, SlotsFinite
  <2>4. Cardinality(W \cup T) = Cardinality(W) + Cardinality(T) - Cardinality(W \cap T)
    BY <1>1, <2>3, FS_Union
  <2>5. Cardinality(W \cap T) = 0
    BY <2>1, FS_EmptySet
  <2>6. Cardinality(W \cup T) = Cardinality(W) + n
    <3>1. n \in Nat
      BY DEF Desks
    <3>2. QED  BY <1>1, <2>3, <2>4, <2>5, <3>1
  <2>7. QED  BY <1>1, <2>1, <2>2, <2>6
<1>11. QED  BY <1>5, <1>6, <1>7, <1>8, <1>9, <1>10 DEF Staffed

\* runWorker keeps the queue and the slots in order, whichever slots it is called
\* for; when somebody is counted or one of them may take a job, what is left in the
\* queue has somebody counted to come back for it.
LEMMA RunWorkersKeeps ==
  ASSUME NEW r, NEW res, NEW rec \in SUBSET Slots, NEW d \in Desks,
         NEW order \in Seq(Slots), IsInjective(order), Spread(r, d, res), Staffed(d, rec)
  PROVE  LET e == RunWorkers(d, order)
         IN  /\ e \in Desks /\ e.active = d.active /\ e.bad = d.bad
             /\ Spread(r, e, res) /\ Staffed(e, rec) /\ Owed(e) = Owed(d)
             /\ (d.count = 0 => Idle(d, order)) /\ e.jobs # <<>> => e.count # 0
<1>1. \A k \in DOMAIN d.jobs : d.jobs[k].files # {} /\ d.jobs[k].files \cap d.bad = {}
  BY DEF Spread, Sound, InGroup, Piece
<1>2. PICK n \in 0..Len(d.jobs), T \in SUBSET Slots : \E turn \in [T -> 1..n] :
          /\ Handover(d, RunWorkers(d, order), n, T, turn)
          /\ Idle(d, order) => n # 0 \/ Len(d.jobs) = 0
  BY <1>1, Handed
<1>3. PICK turn \in [T -> 1..n] :
          /\ Handover(d, RunWorkers(d, order), n, T, turn)
          /\ Idle(d, order) => n # 0 \/ Len(d.jobs) = 0
  BY <1>2
<1> DEFINE e == RunWorkers(d, order)
<1> HIDE DEF e
<1>4. Handover(d, e, n, T, turn)
  BY <1>3 DEF e
<1>5. Staffed(e, rec)
  BY <1>4, HandedStaffed
<1>6. Spread(r, e, res) /\ Owed(e) = Owed(d)
  BY <1>4, HandedSpread
<1>7. e \in Desks /\ e.active = d.active /\ e.bad = d.bad
  BY <1>4 DEF Handover
<1>8. ASSUME d.count = 0 => Idle(d, order), e.jobs # <<>> PROVE e.count # 0
  <2>1. d.jobs \in Seq(Jobs) /\ Len(d.jobs) \in Nat /\ n \in Nat
    BY DEF Desks
  <2>2. Len(d.jobs) # 0
    <3>1. e.jobs = SubSeq(d.jobs, n + 1, Len(d.jobs))
      BY <1>4 DEF Handover
    <3>2. Len(d.jobs) = 0 => e.jobs = <<>>
      BY <2>1, <3>1
    <3>3. QED  BY <1>8, <3>2
  <2>3. e.count = d.count + n /\ (d.count = 0 => n # 0)
    BY <1>3, <1>4, <1>8, <2>2 DEF Handover
  <2>4. d.count \in Nat
    <3>1. AtWork(d) \cup rec \in SUBSET Slots
      BY DEF AtWork
    <3>2. d.count \in 0..size /\ size \in Nat
      BY <3>1, SlotsFinite, SizeAssumption DEF Staffed
    <3>3. QED  BY <3>2
  <2>5. QED  BY <2>1, <2>3, <2>4
<1>9. QED  BY <1>5, <1>6, <1>7, <1>8 DEF e

\* wakeIdleSlots goes over the slots once, and so does a slot followed by the others.
LEMMA Orders ==
  /\ InTurn \in Seq(Slots) /\ IsInjective(InTurn)
  /\ \A t \in Slots : \E i \in DOMAIN InTurn : InTurn[i] = t
  /\ \A s \in Slots : <<s>> \in Seq(Slots) /\ IsInjective(<<s>>)
  /\ \A s \in Slots : LET order == <<s>> \o Only(InTurn, Slots \ {s})
                      IN  /\ order \in Seq(Slots) /\ IsInjective(order)
                          /\ \A t \in Slots : \E i \in DOMAIN order : order[i] = t
<1>1. \A t \in Slots : t \in DOMAIN InTurn /\ InTurn[t] = t
  BY DEF InTurn
<1>2. InTurn \in Seq(Slots) /\ IsInjective(InTurn)
  <2>1. size \in Nat /\ InTurn = [s \in 1..size |-> s]
    BY SizeAssumption DEF InTurn, Slots
  <2>2. InTurn \in Seq(Slots)
    BY <2>1, SeqDef DEF Slots
  <2>3. QED  BY <2>1, <2>2 DEF IsInjective
<1>3. \A s \in Slots : <<s>> \in Seq(Slots) /\ IsInjective(<<s>>)
  BY DEF IsInjective
<1>4. ASSUME NEW s \in Slots
      PROVE  LET order == <<s>> \o Only(InTurn, Slots \ {s})
             IN  /\ order \in Seq(Slots) /\ IsInjective(order)
                 /\ \A t \in Slots : \E i \in DOMAIN order : order[i] = t
  <2> DEFINE o == Only(InTurn, Slots \ {s})
             order == <<s>> \o o
  <2>1. o \in Seq(Slots \cap (Slots \ {s})) /\ IsInjective(o)
    BY <1>2, OnlyPicks
  <2>2. \A t \in Slots \ {s} : \E k \in DOMAIN o : o[k] = t
    <3>1. \A i \in DOMAIN InTurn : InTurn[i] \in Slots \ {s} =>
              \E k \in DOMAIN o : o[k] = InTurn[i]
      BY <1>2, OnlyFinds
    <3> HIDE DEF o
    <3>2. QED  BY <1>1, <3>1
  <2> HIDE DEF o
  <2>3. o \in Seq(Slots) /\ Len(o) \in Nat /\ \A k \in 1..Len(o) : o[k] # s
    <3>1. Slots \cap (Slots \ {s}) \subseteq Slots
      OBVIOUS
    <3>2. o \in Seq(Slots)
      BY <2>1, <3>1, SeqMonotonic
    <3>3. QED  BY <2>1, <3>2
  <2>4. /\ order \in Seq(Slots) /\ Len(order) = 1 + Len(o)
        /\ \A i \in 1..(1 + Len(o)) : order[i] = IF i <= 1 THEN s ELSE o[i - 1]
    <3>1. <<s>> \in Seq(Slots) /\ Len(<<s>>) = 1 /\ <<s>>[1] = s
      OBVIOUS
    <3>2. /\ order \in Seq(Slots) /\ Len(order) = Len(<<s>>) + Len(o)
          /\ \A i \in 1..(Len(<<s>>) + Len(o)) :
                 order[i] = IF i <= Len(<<s>>) THEN <<s>>[i] ELSE o[i - Len(<<s>>)]
      BY <2>3, <3>1, ConcatProperties
    <3>3. QED  BY <2>3, <3>1, <3>2
  <2> HIDE DEF order
  <2>5. ASSUME NEW i \in DOMAIN order, NEW k \in DOMAIN order, order[i] = order[k]
        PROVE  i = k
    <3>1. /\ i \in 1..(1 + Len(o)) /\ k \in 1..(1 + Len(o)) /\ DOMAIN o = 1..Len(o)
          /\ i \in Nat /\ k \in Nat
      BY <2>3, <2>4
    <3>2. CASE i <= 1 \/ k <= 1
      BY <2>3, <2>4, <2>5, <3>1, <3>2
    <3>3. CASE ~(i <= 1) /\ ~(k <= 1)
      <4>1. i - 1 \in DOMAIN o /\ k - 1 \in DOMAIN o /\ o[i - 1] = o[k - 1]
        BY <2>3, <2>4, <2>5, <3>1, <3>3
      <4>2. i - 1 = k - 1
        BY <2>1, <4>1 DEF IsInjective
      <4>3. QED  BY <3>1, <4>2
    <3>4. QED  BY <3>2, <3>3
  <2>6. ASSUME NEW t \in Slots PROVE \E i \in DOMAIN order : order[i] = t
    <3>1. CASE t = s
      <4>1. 1 \in DOMAIN order /\ order[1] = s
        BY <2>3, <2>4
      <4>2. QED  BY <3>1, <4>1
    <3>2. CASE t # s
      <4>1. PICK k \in DOMAIN o : o[k] = t
        BY <2>2, <3>2
      <4>2. k \in 1..Len(o) /\ k + 1 \in DOMAIN order
        BY <2>3, <2>4, <4>1
      <4>3. order[k + 1] = o[k]
        BY <2>3, <2>4, <4>2
      <4>4. QED  BY <4>1, <4>2, <4>3
    <3>3. QED  BY <3>1, <3>2
  <2>7. QED  BY <2>4, <2>5, <2>6 DEF IsInjective, order, o
<1>5. QED  BY <1>1, <1>2, <1>3, <1>4

-----------------------------------------------------------------------------
(* A job goes back to the queue.                                           *)

\* Pieces that are apart have no file in common.
LEMMA ApartDisjoint ==
  ASSUME NEW p \in Results, NEW q \in Results, Apart(p, q)
  PROVE  p.files \cap q.files = {} /\ Apart(q, p)
<1>1. p.files \in SUBSET Nat /\ q.files \in SUBSET Nat
  BY DEF Results
<1>2. \A f \in Nat : ~(f < f)
  OBVIOUS
<1>3. QED  BY <1>1, <1>2 DEF Apart, Before

\* The desk e: the job of s is off its hands, in pieces at the front of the queue,
\* and its blamed files are set aside.
Return(r, d, e, s, front, blamed) ==
    /\ e.jobs = front \o d.jobs /\ e.bad = d.bad \cup blamed
    /\ e.job = [d.job EXCEPT ![s] = NoJob]
    /\ \A k \in DOMAIN front : Sound(r, e.bad, Piece(front[k]))
    /\ \A k, l \in DOMAIN front : k # l => Apart(Piece(front[k]), Piece(front[l]))
    /\ \A k \in DOMAIN front, p \in Results :
           InGroup(r, p) /\ Apart(Piece(d.job[s]), p) => Apart(Piece(front[k]), p)
    /\ d.job[s].files = blamed \cup UNION {front[k].files : k \in DOMAIN front}

\* A returned job leaves the pieces apart, and owed but for the blamed file.
LEMMA Returned ==
  ASSUME NEW r, NEW res \in SUBSET Results, NEW d \in Desks, NEW e,
         NEW s \in AtWork(d), NEW front \in Seq(Jobs), NEW blamed \in SUBSET d.job[s].files,
         Return(r, d, e, s, front, blamed), Spread(r, d, res)
  PROVE  /\ AtWork(e) = AtWork(d) \ {s}
         /\ Spread(r, e, res) /\ Owed(e) = Owed(d) \ blamed /\ blamed \subseteq Owed(d)
<1> DEFINE P == Piece(d.job[s])
           m == Len(front)
<1>1. /\ d.jobs \in Seq(Jobs) /\ DOMAIN d.jobs = 1..Len(d.jobs) /\ Len(d.jobs) \in Nat
      /\ DOMAIN front = 1..m /\ m \in Nat /\ s \in Slots
      /\ d.job \in [Slots -> Jobs \cup {NoJob}]
  BY DEF Desks, AtWork
<1>2. AtWork(e) = AtWork(d) \ {s} /\ \A t \in AtWork(e) : e.job[t] = d.job[t]
  BY <1>1 DEF Return, AtWork
<1>3. /\ e.jobs \in Seq(Jobs) /\ DOMAIN e.jobs = 1..(m + Len(d.jobs))
      /\ \A k \in DOMAIN e.jobs : e.jobs[k] = IF k <= m THEN front[k] ELSE d.jobs[k - m]
  <2> HIDE DEF m
  <2>1. /\ front \o d.jobs \in Seq(Jobs) /\ Len(front \o d.jobs) = m + Len(d.jobs)
        /\ \A i \in 1..(m + Len(d.jobs)) :
               (front \o d.jobs)[i] = IF i <= m THEN front[i] ELSE d.jobs[i - m]
    BY <1>1, ConcatProperties DEF m
  <2>2. e.jobs = front \o d.jobs
    BY DEF Return
  <2>3. QED  BY <2>1, <2>2
<1> HIDE DEF m
<1>4. /\ \A k \in DOMAIN e.jobs : \/ k \in DOMAIN front /\ e.jobs[k] = front[k]
                                  \/ k - m \in DOMAIN d.jobs /\ e.jobs[k] = d.jobs[k - m]
                                     /\ k > m
      /\ \A k \in DOMAIN front : k \in DOMAIN e.jobs /\ e.jobs[k] = front[k] /\ k <= m
      /\ \A k \in DOMAIN d.jobs : k + m \in DOMAIN e.jobs /\ e.jobs[k + m] = d.jobs[k]
  <2>1. \A k \in DOMAIN e.jobs : \/ k \in DOMAIN front /\ e.jobs[k] = front[k]
                                 \/ k - m \in DOMAIN d.jobs /\ e.jobs[k] = d.jobs[k - m]
                                    /\ k > m
    <3> SUFFICES ASSUME NEW k \in DOMAIN e.jobs
                 PROVE  \/ k \in DOMAIN front /\ e.jobs[k] = front[k]
                        \/ k - m \in DOMAIN d.jobs /\ e.jobs[k] = d.jobs[k - m] /\ k > m
      OBVIOUS
    <3>1. k \in 1..(m + Len(d.jobs)) /\ e.jobs[k] = IF k <= m THEN front[k] ELSE d.jobs[k - m]
      BY <1>3
    <3>2. CASE k <= m
      BY <1>1, <3>1, <3>2
    <3>3. CASE ~(k <= m)
      BY <1>1, <3>1, <3>3
    <3>4. QED  BY <3>2, <3>3
  <2>2. \A k \in DOMAIN front : k \in DOMAIN e.jobs /\ e.jobs[k] = front[k] /\ k <= m
    BY <1>1, <1>3
  <2>3. \A k \in DOMAIN d.jobs : k + m \in DOMAIN e.jobs /\ e.jobs[k + m] = d.jobs[k]
    BY <1>1, <1>3
  <2>4. QED  BY <2>1, <2>2, <2>3
<1>5. P \in Results /\ InGroup(r, P)
  BY <1>1, AJob DEF AtWork, Spread, Sound
<1>6. /\ \A k \in DOMAIN d.jobs : Piece(d.jobs[k]) \in Results /\ Apart(P, Piece(d.jobs[k]))
      /\ \A t \in AtWork(e) : Piece(d.job[t]) \in Results /\ Apart(P, Piece(d.job[t]))
      /\ \A p \in res : p \in Results /\ Apart(P, p)
  <2>1. \A k \in DOMAIN d.jobs : Piece(d.jobs[k]) \in Results
    BY <1>1, AJob
  <2>2. \A t \in AtWork(e) : Piece(d.job[t]) \in Results
    BY <1>1, <1>2, AJob DEF AtWork
  <2>3. QED  BY <1>2, <2>1, <2>2 DEF Spread, Apart
<1>7. /\ \A k \in DOMAIN d.jobs : Piece(d.jobs[k]).files \cap blamed = {}
      /\ \A t \in AtWork(e) : Piece(d.job[t]).files \cap blamed = {}
      /\ \A p \in res : p.files \cap blamed = {}
  <2>1. blamed \subseteq P.files
    BY DEF Piece
  <2> HIDE DEF P
  <2>2. QED  BY <1>5, <1>6, <2>1, ApartDisjoint
<1>8. /\ \A k \in DOMAIN e.jobs : Sound(r, e.bad, Piece(e.jobs[k]))
      /\ \A t \in AtWork(e) : Sound(r, e.bad, Piece(e.job[t]))
      /\ \A p \in res : Sound(r, e.bad, p)
  <2>1. e.bad = d.bad \cup blamed
    BY DEF Return
  <2>2. \A p : Sound(r, d.bad, p) /\ p.files \cap blamed = {} => Sound(r, e.bad, p)
    BY <2>1 DEF Sound
  <2>3. \A k \in DOMAIN d.jobs : Sound(r, e.bad, Piece(d.jobs[k]))
    BY <1>7, <2>2 DEF Spread
  <2>4. \A t \in AtWork(e) : Sound(r, e.bad, Piece(e.job[t]))
    BY <1>2, <1>7, <2>2 DEF Spread
  <2>5. \A p \in res : Sound(r, e.bad, p)
    BY <1>7, <2>2 DEF Spread
  <2>6. \A k \in DOMAIN e.jobs : Sound(r, e.bad, Piece(e.jobs[k]))
    BY <1>4, <2>3 DEF Return
  <2>7. QED  BY <2>4, <2>5, <2>6
<1>9. \A k \in DOMAIN front, p \in Results :
          InGroup(r, p) /\ Apart(P, p) => Apart(Piece(front[k]), p)
  BY DEF Return
<1>10. /\ \A k \in DOMAIN front, i \in DOMAIN d.jobs : Apart(Piece(front[k]), Piece(d.jobs[i]))
       /\ \A k \in DOMAIN front, t \in AtWork(e) : Apart(Piece(front[k]), Piece(d.job[t]))
       /\ \A k \in DOMAIN front, p \in res : Apart(Piece(front[k]), p)
  <2>1. /\ \A i \in DOMAIN d.jobs : InGroup(r, Piece(d.jobs[i]))
        /\ \A t \in AtWork(e) : InGroup(r, Piece(d.job[t]))
        /\ \A p \in res : InGroup(r, p)
    BY <1>2 DEF Spread, Sound
  <2> HIDE DEF P
  <2>2. QED  BY <1>6, <1>9, <2>1
<1>11. \A k, l \in DOMAIN e.jobs : k # l => Apart(Piece(e.jobs[k]), Piece(e.jobs[l]))
  <2> SUFFICES ASSUME NEW k \in DOMAIN e.jobs, NEW l \in DOMAIN e.jobs, k # l
               PROVE  Apart(Piece(e.jobs[k]), Piece(e.jobs[l]))
    OBVIOUS
  <2>1. CASE k \in DOMAIN front /\ e.jobs[k] = front[k]
    <3>1. CASE l \in DOMAIN front /\ e.jobs[l] = front[l]
      BY <2>1, <3>1 DEF Return
    <3>2. CASE l - m \in DOMAIN d.jobs /\ e.jobs[l] = d.jobs[l - m]
      BY <1>10, <2>1, <3>2
    <3>3. QED  BY <1>4, <3>1, <3>2
  <2>2. CASE k - m \in DOMAIN d.jobs /\ e.jobs[k] = d.jobs[k - m]
    <3>1. CASE l \in DOMAIN front /\ e.jobs[l] = front[l]
      BY <1>10, <2>2, <3>1 DEF Apart
    <3>2. CASE l - m \in DOMAIN d.jobs /\ e.jobs[l] = d.jobs[l - m]
      <4>1. k - m # l - m
        BY <1>1, <1>3
      <4>2. QED  BY <2>2, <3>2, <4>1 DEF Spread
    <3>3. QED  BY <1>4, <3>1, <3>2
  <2>3. QED  BY <1>4, <2>1, <2>2
<1>12. /\ \A k \in DOMAIN e.jobs, t \in AtWork(e) : Apart(Piece(e.jobs[k]), Piece(e.job[t]))
       /\ \A k \in DOMAIN e.jobs, p \in res : Apart(Piece(e.jobs[k]), p)
  BY <1>2, <1>4, <1>10 DEF Spread
<1>13. /\ \A t, u \in AtWork(e) : t # u => Apart(Piece(e.job[t]), Piece(e.job[u]))
       /\ \A t \in AtWork(e), p \in res : Apart(Piece(e.job[t]), p)
       /\ \A p, q \in res : p # q => Apart(p, q)
  BY <1>2 DEF Spread
<1>14. Spread(r, e, res)
  BY <1>8, <1>11, <1>12, <1>13 DEF Spread
<1>15. d.job[s].files = blamed \cup UNION {front[k].files : k \in DOMAIN front}
  BY DEF Return
<1>16. Owed(e) \subseteq Owed(d) \ blamed
  <2>1. \A k \in DOMAIN front : front[k].files \subseteq Owed(d) /\ front[k].files \cap blamed = {}
    <3> TAKE k \in DOMAIN front
    <3>1. front[k].files \subseteq Owed(d)
      BY <1>15 DEF Owed
    <3>2. Piece(front[k]).files \cap blamed = {}
      BY DEF Return, Sound
    <3>3. QED  BY <3>1, <3>2 DEF Piece
  <2>2. \A k \in DOMAIN d.jobs : d.jobs[k].files \subseteq Owed(d) /\ d.jobs[k].files \cap blamed = {}
    BY <1>7 DEF Owed, Piece
  <2>3. \A t \in AtWork(e) : e.job[t].files \subseteq Owed(d) /\ e.job[t].files \cap blamed = {}
    BY <1>2, <1>7 DEF Owed, Piece
  <2>4. \A k \in DOMAIN e.jobs : e.jobs[k].files \subseteq Owed(d) \ blamed
    BY <1>4, <2>1, <2>2
  <2>5. QED  BY <2>3, <2>4 DEF Owed
<1>17. Owed(d) \ blamed \subseteq Owed(e)
  <2>1. \A k \in DOMAIN d.jobs : d.jobs[k].files \subseteq Owed(e)
    BY <1>4 DEF Owed
  <2>2. \A k \in DOMAIN front : front[k].files \subseteq Owed(e)
    BY <1>4 DEF Owed
  <2>3. \A t \in AtWork(d) : d.job[t].files \ blamed \subseteq Owed(e)
    <3> SUFFICES ASSUME NEW t \in AtWork(d) PROVE d.job[t].files \ blamed \subseteq Owed(e)
      OBVIOUS
    <3>1. CASE t = s
      BY <1>15, <2>2, <3>1
    <3>2. CASE t # s
      BY <1>2, <3>2 DEF Owed
    <3>3. QED  BY <3>1, <3>2
  <2>4. QED  BY <2>1, <2>3 DEF Owed
<1>18. QED  BY <1>2, <1>14, <1>16, <1>17 DEF Owed

\* requeueRemainder: what is left of the job is one piece, or none.
LEMMA RequeueReturns ==
  ASSUME NEW r \in DOMAIN Rounds, NEW res, NEW d \in Desks, Spread(r, d, res),
         NEW s \in AtWork(d), NEW blamed \in SUBSET d.job[s].files, NEW e,
         LET j == [d.job[s] EXCEPT !.phase = "queued"]
             left == j.files \ blamed
         IN  e.jobs = IF left = {} THEN d.jobs
                      ELSE <<[j EXCEPT !.files = left]>> \o d.jobs,
         e.job = [d.job EXCEPT ![s] = NoJob], e.bad = d.bad \cup blamed
  PROVE  \E front \in Seq(Jobs) : Return(r, d, e, s, front, blamed)
<1> DEFINE j == [d.job[s] EXCEPT !.phase = "queued"]
           left == d.job[s].files \ blamed
           x == [j EXCEPT !.files = left]
           P == Piece(d.job[s])
           X == Piece(x)
<1>1. d.jobs \in Seq(Jobs) /\ d.job[s] \in Jobs /\ P \in Results
  <2>1. d.jobs \in Seq(Jobs) /\ d.job[s] \in Jobs
    BY DEF Desks, AtWork
  <2>2. QED  BY <2>1, AJob
<1>2. j \in Jobs /\ j.files = d.job[s].files
  BY <1>1 DEF Jobs, Phases
<1>3. x \in Jobs /\ x.start = d.job[s].start /\ x.files = left
  BY <1>1, <1>2 DEF Jobs
<1>4. P.start = d.job[s].start /\ P.files = d.job[s].files /\ X.start = P.start /\ X.files = left
  BY <1>3 DEF Piece
<1>5. Sound(r, d.bad, P)
  BY DEF Spread
<1>6. e.jobs = IF left = {} THEN d.jobs ELSE <<x>> \o d.jobs
  BY <1>2
<1>7. CASE left = {}
  <2>1. <<>> \in Seq(Jobs) /\ DOMAIN <<>> = {} /\ <<>> \o d.jobs = d.jobs
    BY <1>1, ConcatEmptySeq
  <2>2. d.job[s].files = blamed \cup UNION {<<>>[k].files : k \in {}}
    BY <1>7
  <2>3. Return(r, d, e, s, <<>>, blamed)
    BY <1>6, <1>7, <2>1, <2>2 DEF Return
  <2>4. QED  BY <2>1, <2>3
<1>8. CASE left # {}
  <2> HIDE DEF x, X, P
  <2>1. P.start \in Nat /\ P.files \in SUBSET Nat
    BY <1>1 DEF Results
  <2>2. InGroup(r, X)
    BY <1>4, <1>5, <1>8, <2>1, ShrunkApart DEF Sound
  <2>3. X.files \cap e.bad = {}
    BY <1>4, <1>5 DEF Sound
  <2>4. ASSUME NEW p \in Results, InGroup(r, p), Apart(P, p) PROVE Apart(X, p)
    <3>1. p.start \in Nat
      BY DEF Results
    <3>2. X.files \subseteq P.files
      BY <1>4
    <3>3. /\ Before(P, p) => Before(X, p)
          /\ Before(p, P) => Before(p, X)
      BY <1>4, <1>5, <1>8, <2>1, <2>4, <3>1, <3>2, ShrunkApart DEF Sound
    <3>4. QED  BY <2>4, <3>3 DEF Apart
  <2>5. <<x>> \in Seq(Jobs) /\ DOMAIN <<x>> = {1} /\ <<x>>[1] = x
    BY <1>3
  <2>6. d.job[s].files = blamed \cup UNION {<<x>>[k].files : k \in {1}}
    BY <1>3, <2>5
  <2>7. Return(r, d, e, s, <<x>>, blamed)
    <3>1. \A k \in DOMAIN <<x>> : Sound(r, e.bad, Piece(<<x>>[k]))
      BY <2>2, <2>3, <2>5 DEF Sound, X
    <3>2. \A k, l \in DOMAIN <<x>> : k # l => Apart(Piece(<<x>>[k]), Piece(<<x>>[l]))
      BY <2>5
    <3>3. \A k \in DOMAIN <<x>>, p \in Results :
              InGroup(r, p) /\ Apart(P, p) => Apart(Piece(<<x>>[k]), p)
      BY <2>4, <2>5 DEF X
    <3>4. d.job[s].files = blamed \cup UNION {<<x>>[k].files : k \in DOMAIN <<x>>}
      BY <2>5, <2>6
    <3>5. e.jobs = <<x>> \o d.jobs
      BY <1>6, <1>8
    <3>6. QED  BY <3>1, <3>2, <3>3, <3>4, <3>5 DEF Return, P
  <2>8. QED  BY <2>5, <2>7
<1>9. QED  BY <1>7, <1>8

\* The fields of the desk.
LEMMA DeskFields ==
  /\ Desk.jobs = jobs /\ Desk.job = job /\ Desk.busy = busy /\ Desk.count = activeWorkers
  /\ Desk.worker = worker /\ Desk.active = active /\ Desk.bad = quarantined
BY DEF Desk

\* requeueAfterTimeout: the halves of a job, or its only file, are its pieces.
LEMMA RetryReturns ==
  ASSUME NEW r \in DOMAIN Rounds, NEW res, Desk \in Desks, Spread(r, Desk, res),
         NEW s \in AtWork(Desk), NEW e, e.jobs = Retried(s) \o jobs,
         e.job = [job EXCEPT ![s] = NoJob], e.bad = quarantined
  PROVE  Retried(s) \in Seq(Jobs) /\ Return(r, Desk, e, s, Retried(s), {})
<1> DEFINE j == job[s]
           later == [j EXCEPT !.timeout = NextTimeout(j), !.cumulative = @ + NextTimeout(j),
                              !.phase = "queued"]
           half == Half(j.files)
           once == [later EXCEPT !.attempt = @ + 1]
           x == [later EXCEPT !.files = half]
           y == [later EXCEPT !.start = @ + Cardinality(half), !.files = @ \ half]
           P == Piece(j)
           front == Retried(s)
<1>1. j \in Jobs /\ P \in Results /\ P.start = j.start /\ P.files = j.files
  <2>1. j \in Jobs
    BY DeskFields DEF Desks, AtWork
  <2>2. QED  BY <2>1, AJob DEF Piece
<1>2. NextTimeout(j) \in Nat
  <2>1. j.timeout \in Nat /\ timeoutBackoffFactor \in Nat
    BY <1>1, PoolAssumption DEF Jobs
  <2>2. \A a, b \in Nat : a * b \in Nat
    OBVIOUS
  <2>3. QED  BY <2>1, <2>2 DEF NextTimeout
<1>3. later \in Jobs /\ later.start = j.start /\ later.files = j.files
  <2> DEFINE t == NextTimeout(j)
             c == j.cumulative + t
  <2>1. t \in Nat /\ c \in Nat
    BY <1>1, <1>2 DEF Jobs
  <2>2. later = [j EXCEPT !.timeout = t, !.cumulative = c, !.phase = "queued"]
    OBVIOUS
  <2> HIDE DEF t, c, later
  <2>3. later = [start |-> j.start, files |-> j.files, timeout |-> t, cumulative |-> c,
                 attempt |-> j.attempt, phase |-> "queued"]
    <3> HIDE DEF j
    <3> QED  BY <1>1, <2>2 DEF Jobs
  <2>4. j.start \in Nat /\ j.files \in SUBSET Nat /\ j.attempt \in Nat
    BY <1>1 DEF Jobs
  <2> HIDE DEF j
  <2>5. QED  BY <2>1, <2>3, <2>4 DEF Jobs, Phases
<1>4. Sound(r, quarantined, P) /\ InGroup(r, P)
  BY DeskFields DEF Spread, Sound
<1>5. e.jobs = front \o Desk.jobs /\ e.bad = Desk.bad \cup {} /\ e.job = [Desk.job EXCEPT ![s] = NoJob]
  BY DeskFields
<1>6. P.start \in Nat /\ P.files \in SUBSET Files(r) /\ P.files \in SUBSET Nat /\ P.files # {}
  BY <1>1, <1>4 DEF Results, InGroup
<1>7. front = IF Cardinality(j.files) = 1 THEN <<once>> ELSE <<x, y>>
  BY DEF Retried
<1>8. CASE Cardinality(j.files) = 1
  <2>1. once \in Jobs /\ once.start = j.start /\ once.files = j.files
    <3> HIDE DEF later, j
    <3>1. later.attempt + 1 \in Nat
      BY <1>3 DEF Jobs
    <3>2. QED  BY <1>3, <3>1 DEF Jobs
  <2>2. Piece(once) = P
    BY <2>1 DEF Piece
  <2> HIDE DEF once, P, front
  <2>3. front = <<once>> /\ front \in Seq(Jobs) /\ DOMAIN front = {1} /\ front[1] = once
    BY <1>7, <1>8, <2>1
  <2>4. \A k \in DOMAIN front : Sound(r, e.bad, Piece(front[k]))
    BY <1>4, <2>2, <2>3
  <2>5. \A k, l \in DOMAIN front : k # l => Apart(Piece(front[k]), Piece(front[l]))
    BY <2>3
  <2>6. \A k \in DOMAIN front, p \in Results :
            InGroup(r, p) /\ Apart(Piece(Desk.job[s]), p) => Apart(Piece(front[k]), p)
    BY <2>2, <2>3, DeskFields DEF P
  <2>7. Desk.job[s].files = {} \cup UNION {front[k].files : k \in DOMAIN front}
    BY <2>1, <2>3, DeskFields
  <2>8. QED  BY <1>5, <2>3, <2>4, <2>5, <2>6, <2>7 DEF Return, front
<1>9. CASE Cardinality(j.files) # 1
  <2>1. /\ half \subseteq P.files /\ half \in SUBSET Nat /\ P.files \ half \in SUBSET Nat
        /\ Cardinality(half) \in Nat
    <3>1. half \subseteq P.files
      BY <1>1 DEF Half
    <3>2. half \in SUBSET Files(r)
      BY <1>6, <3>1
    <3>3. QED  BY <1>6, <3>1, <3>2, Places
  <2> HIDE DEF half, later
  <2>2. x \in Jobs /\ x.start = j.start /\ x.files = half
    BY <1>3, <2>1 DEF Jobs
  <2>3. y \in Jobs /\ y.start = j.start + Cardinality(half) /\ y.files = j.files \ half
    <3>1. later.start + Cardinality(half) \in Nat /\ later.files \ half \in SUBSET Nat
      BY <1>1, <1>3, <2>1 DEF Jobs
    <3>2. QED  BY <1>3, <3>1 DEF Jobs
  <2> DEFINE X == Piece(x)
             Y == Piece(y)
  <2>4. /\ X.start = P.start /\ X.files = Half(P.files)
        /\ Y.start = P.start + Cardinality(Half(P.files)) /\ Y.files = P.files \ Half(P.files)
    BY <1>1, <2>2, <2>3 DEF Piece, half
  <2> HIDE DEF x, y, X, Y, P, front
  <2>5. Cardinality(P.files) # 1
    BY <1>1, <1>9
  <2>6. \A p \in Results : InGroup(r, p) =>
            /\ InGroup(r, X) /\ InGroup(r, Y) /\ Before(X, Y)
            /\ Before(P, p) => Before(X, p) /\ Before(Y, p)
            /\ Before(p, P) => Before(p, X) /\ Before(p, Y)
    <3> SUFFICES ASSUME NEW p \in Results, InGroup(r, p)
                 PROVE  /\ InGroup(r, X) /\ InGroup(r, Y) /\ Before(X, Y)
                        /\ Before(P, p) => Before(X, p) /\ Before(Y, p)
                        /\ Before(p, P) => Before(p, X) /\ Before(p, Y)
      OBVIOUS
    <3>1. p.start \in Nat
      BY DEF Results
    <3>2. QED  BY <1>4, <1>6, <2>4, <2>5, <3>1, HalvesApart
  <2>7. InGroup(r, X) /\ InGroup(r, Y) /\ Before(X, Y)
    BY <1>1, <1>4, <2>6
  <2>8. X.files \cap quarantined = {} /\ Y.files \cap quarantined = {}
    <3>1. X.files \subseteq P.files /\ Y.files \subseteq P.files
      BY <2>4 DEF Half
    <3>2. P.files \cap quarantined = {}
      BY <1>4 DEF Sound
    <3>3. QED  BY <3>1, <3>2
  <2>9. /\ front = <<x, y>> /\ front \in Seq(Jobs) /\ DOMAIN front = {1, 2}
        /\ front[1] = x /\ front[2] = y
    BY <1>7, <1>9, <2>2, <2>3
  <2>10. \A k \in DOMAIN front : Sound(r, e.bad, Piece(front[k]))
    BY <2>7, <2>8, <2>9 DEF Sound, X, Y
  <2>11. \A k, l \in DOMAIN front : k # l => Apart(Piece(front[k]), Piece(front[l]))
    BY <2>7, <2>9 DEF Apart, X, Y
  <2>12. \A k \in DOMAIN front, p \in Results :
             InGroup(r, p) /\ Apart(Piece(Desk.job[s]), p) => Apart(Piece(front[k]), p)
    <3>1. Piece(Desk.job[s]) = P
      BY DeskFields DEF P
    <3>2. \A p \in Results : InGroup(r, p) /\ Apart(P, p) => Apart(X, p) /\ Apart(Y, p)
      BY <2>6 DEF Apart
    <3>3. QED  BY <2>9, <3>1, <3>2 DEF X, Y
  <2>13. Desk.job[s].files = {} \cup UNION {front[k].files : k \in DOMAIN front}
    <3>1. j.files = x.files \cup y.files
      BY <1>1, <2>1, <2>2, <2>3
    <3>2. QED  BY <2>9, <3>1, DeskFields
  <2>14. QED  BY <1>5, <2>9, <2>10, <2>11, <2>12, <2>13 DEF Return, front
<1>10. QED  BY <1>8, <1>9

-----------------------------------------------------------------------------
(* Slots that stop work or recovery.                                       *)

\* A slot at work, or one in recovery, is counted no more.
LEMMA Released ==
  ASSUME NEW rec \in SUBSET Slots, NEW d \in Desks, NEW e, Staffed(d, rec),
         NEW s \in AtWork(d) \cup rec, NEW rec2 \in SUBSET Slots,
         AtWork(e) = AtWork(d) \ {s}, rec2 = rec \ {s},
         \A t \in AtWork(e) : e.job[t] = d.job[t],
         e.count = d.count - 1, e.busy = d.busy \ {s},
         (e.active = d.active /\ e.worker[s] # "none") \/ e.active = d.active \ {s},
         \A t \in Slots \ {s} : e.worker[t] = d.worker[t], e.worker[s] # "busy"
  PROVE  Staffed(e, rec2)
<1> DEFINE W == AtWork(d) \cup rec
<1>1. AtWork(d) \in SUBSET Slots /\ W \in SUBSET Slots /\ s \in Slots
  BY DEF AtWork
<1>2. IsFiniteSet(W) /\ Cardinality(W) \in Nat /\ d.count = Cardinality(W)
  BY <1>1, SlotsFinite DEF Staffed
<1>3. AtWork(e) \cup rec2 = W \ {s}
  OBVIOUS
<1>4. Cardinality(W \ {s}) = Cardinality(W) - 1
  <2>1. s \in W
    OBVIOUS
  <2> HIDE DEF W
  <2>2. QED  BY <1>2, <2>1, FS_RemoveElement
<1>5. e.count = Cardinality(AtWork(e) \cup rec2)
  BY <1>2, <1>3, <1>4
<1>6. \A t \in Slots : e.worker[t] = "busy" => t \in AtWork(e)
  BY DEF Staffed
<1>7. \A t \in AtWork(e) : /\ t \in e.active \cap e.busy /\ t \notin rec2
                           /\ e.worker[t] # "none" /\ e.job[t].phase # "queued"
  BY <1>1 DEF Staffed
<1>8. \A t \in rec2 : t \in e.active /\ e.worker[t] = "none"
  BY <1>1 DEF Staffed
<1>9. e.busy \subseteq AtWork(e) \cup rec2
  BY DEF Staffed
<1>10. \A t \in e.active : e.worker[t] = "none" => t \in rec2
  <2>1. d.active \subseteq Slots
    BY DEF Desks
  <2>2. QED  BY <1>1, <2>1 DEF Staffed
<1>11. QED  BY <1>5, <1>6, <1>7, <1>8, <1>9, <1>10 DEF Staffed

\* A slot at work goes into recovery, without its worker.
LEMMA Relieved ==
  ASSUME NEW rec \in SUBSET Slots, NEW d \in Desks, NEW e, Staffed(d, rec),
         NEW s \in AtWork(d), NEW rec2 \in SUBSET Slots,
         AtWork(e) = AtWork(d) \ {s}, rec2 = rec \cup {s},
         \A t \in AtWork(e) : e.job[t] = d.job[t],
         e.count = d.count, e.busy = d.busy \/ e.busy = d.busy \ {s}, e.active = d.active,
         \A t \in Slots \ {s} : e.worker[t] = d.worker[t], e.worker[s] = "none"
  PROVE  Staffed(e, rec2)
<1>1. AtWork(d) \in SUBSET Slots /\ s \in Slots
  BY DEF AtWork
<1>2. AtWork(e) \cup rec2 = AtWork(d) \cup rec
  OBVIOUS
<1>3. e.count = Cardinality(AtWork(e) \cup rec2)
  BY <1>2 DEF Staffed
<1>4. \A t \in Slots : e.worker[t] = "busy" => t \in AtWork(e)
  BY DEF Staffed
<1>5. \A t \in AtWork(e) : /\ t \in e.active \cap e.busy /\ t \notin rec2
                           /\ e.worker[t] # "none" /\ e.job[t].phase # "queued"
  BY <1>1 DEF Staffed
<1>6. \A t \in rec2 : t \in e.active /\ e.worker[t] = "none"
  BY <1>1 DEF Staffed
<1>7. e.busy \subseteq AtWork(e) \cup rec2
  BY <1>2 DEF Staffed
<1>8. \A t \in e.active : e.worker[t] = "none" => t \in rec2
  <2>1. d.active \subseteq Slots
    BY DEF Desks
  <2>2. QED  BY <1>1, <2>1 DEF Staffed
<1>9. QED  BY <1>3, <1>4, <1>5, <1>6, <1>7, <1>8 DEF Staffed

\* A job is delivered: its piece joins the results.
LEMMA DeliveredSpread ==
  ASSUME NEW r, NEW res, NEW d \in Desks, NEW e, NEW s \in AtWork(d), Spread(r, d, res),
         e.jobs = d.jobs, e.job = [d.job EXCEPT ![s] = NoJob], e.bad = d.bad
  PROVE  /\ AtWork(e) = AtWork(d) \ {s} /\ \A t \in AtWork(e) : e.job[t] = d.job[t]
         /\ Spread(r, e, res \cup {Piece(d.job[s])})
         /\ Owed(e) = Owed(d) \ d.job[s].files
         /\ d.job[s].files \in SUBSET Owed(d) /\ d.job[s].files # {}
<1> DEFINE P == Piece(d.job[s])
<1>1. /\ d.jobs \in Seq(Jobs) /\ s \in Slots /\ d.job \in [Slots -> Jobs \cup {NoJob}]
  BY DEF Desks, AtWork
<1>2. AtWork(e) = AtWork(d) \ {s} /\ \A t \in AtWork(e) : e.job[t] = d.job[t]
  BY <1>1 DEF AtWork
<1>3. /\ \A k \in DOMAIN d.jobs : Piece(d.jobs[k]) \in Results /\ Apart(P, Piece(d.jobs[k]))
      /\ \A t \in AtWork(e) : Piece(d.job[t]) \in Results /\ Apart(P, Piece(d.job[t]))
      /\ \A p \in res : Apart(P, p) /\ Apart(p, P)
      /\ P \in Results
  <2>1. \A k \in DOMAIN d.jobs : Piece(d.jobs[k]) \in Results
    BY <1>1, AJob
  <2>2. P \in Results /\ \A t \in AtWork(e) : Piece(d.job[t]) \in Results
    BY <1>1, <1>2, AJob DEF AtWork
  <2>3. QED  BY <1>2, <2>1, <2>2 DEF Spread, Apart
<1>4. Sound(r, d.bad, P)
  BY DEF Spread
<1> HIDE DEF P
<1>5. Spread(r, e, res \cup {P})
  <2>1. /\ \A k \in DOMAIN e.jobs : Apart(Piece(e.jobs[k]), P)
        /\ \A t \in AtWork(e) : Apart(Piece(e.job[t]), P)
    BY <1>2, <1>3 DEF Apart
  <2>2. \A p, q \in res \cup {P} : p # q => Apart(p, q)
    BY <1>3 DEF Spread
  <2>3. /\ \A k \in DOMAIN e.jobs, p \in res \cup {P} : Apart(Piece(e.jobs[k]), p)
        /\ \A t \in AtWork(e), p \in res \cup {P} : Apart(Piece(e.job[t]), p)
    BY <1>2, <2>1 DEF Spread
  <2>4. /\ \A k \in DOMAIN e.jobs : Sound(r, e.bad, Piece(e.jobs[k]))
        /\ \A t \in AtWork(e) : Sound(r, e.bad, Piece(e.job[t]))
        /\ \A p \in res \cup {P} : Sound(r, e.bad, p)
    BY <1>2, <1>4 DEF Spread
  <2>5. /\ \A k, l \in DOMAIN e.jobs : k # l => Apart(Piece(e.jobs[k]), Piece(e.jobs[l]))
        /\ \A t, u \in AtWork(e) : t # u => Apart(Piece(e.job[t]), Piece(e.job[u]))
        /\ \A k \in DOMAIN e.jobs, t \in AtWork(e) : Apart(Piece(e.jobs[k]), Piece(e.job[t]))
    BY <1>2 DEF Spread
  <2>6. QED  BY <2>2, <2>3, <2>4, <2>5 DEF Spread
<1>6. /\ \A k \in DOMAIN d.jobs : d.jobs[k].files \cap d.job[s].files = {}
      /\ \A t \in AtWork(e) : d.job[t].files \cap d.job[s].files = {}
  <2>1. /\ \A k \in DOMAIN d.jobs : Piece(d.jobs[k]).files \cap P.files = {}
        /\ \A t \in AtWork(e) : Piece(d.job[t]).files \cap P.files = {}
    BY <1>3, ApartDisjoint
  <2>2. QED  BY <2>1 DEF Piece, P
<1>7. Owed(e) = Owed(d) \ d.job[s].files
  <2>1. Owed(e) \subseteq Owed(d) \ d.job[s].files
    BY <1>2, <1>6 DEF Owed
  <2>2. Owed(d) \ d.job[s].files \subseteq Owed(e)
    BY <1>2 DEF Owed
  <2>3. QED  BY <2>1, <2>2
<1>8. d.job[s].files # {}
  BY <1>4 DEF Sound, InGroup, P, Piece
<1>9. QED  BY <1>2, <1>5, <1>7, <1>8 DEF P, Owed

-----------------------------------------------------------------------------
(* createJobs.                                                             *)

\* The jobs of a cut follow each other.
LEMMA CutRises ==
  ASSUME NEW r \in DOMAIN Rounds, NEW n \in Nat \ {0}, NEW cut \in Cuts(r, n)
  PROVE  /\ \E m \in Nat \ {0} : DOMAIN cut = 1..m
         /\ \A k \in DOMAIN cut : /\ First(cut, k) \in Nat \ {0} /\ cut[k] \in Files(r)
                                  /\ cut[k] \in Nat /\ First(cut, k) <= cut[k]
         /\ \A k, l \in DOMAIN cut : l < k => cut[l] < First(cut, k)
         /\ ToSet(Rounds[r]) \subseteq {0} \cup ToSet(cut)
<1>1. PICK m \in Files(r) : cut \in [1..m -> Files(r)]
  BY DEF Cuts
<1>2. Files(r) \subseteq Nat \ {0}
  BY Places
<1>3. /\ \A k \in DOMAIN cut : cut[k] \in First(cut, k)..(First(cut, k) + n - 1)
      /\ ToSet(Rounds[r]) \subseteq {0} \cup ToSet(cut)
  BY DEF Cuts
<1>4. m \in Nat \ {0} /\ DOMAIN cut = 1..m /\ \A k \in 1..m : cut[k] \in Files(r) /\ cut[k] \in Nat
  BY <1>1, <1>2
<1>5. \A k \in 1..m : First(cut, k) \in Nat \ {0} /\ First(cut, k) <= cut[k]
  <2> TAKE k \in 1..m
  <2>1. First(cut, k) \in Nat \ {0}
    <3>1. CASE k = 1
      BY <3>1 DEF First
    <3>2. CASE k # 1
      <4>1. k - 1 \in 1..m
        BY <1>4, <3>2
      <4>2. cut[k - 1] \in Nat
        BY <1>4, <4>1
      <4>3. QED  BY <3>2, <4>2 DEF First
    <3>3. QED  BY <3>1, <3>2
  <2>2. cut[k] \in First(cut, k)..(First(cut, k) + n - 1) /\ cut[k] \in Nat
    BY <1>3, <1>4
  <2>3. QED  BY <2>1, <2>2
<1>6. \A k, l \in 1..m : l < k => cut[l] < First(cut, k)
  <2> DEFINE S == {k \in 1..m : \E l \in 1..m : l < k /\ ~(cut[l] < First(cut, k))}
  <2> SUFFICES ASSUME S # {} PROVE FALSE
    OBVIOUS
  <2>1. S \in SUBSET Nat
    BY <1>4
  <2>2. PICK k \in S : \A x \in S : k <= x
    <3> HIDE DEF S
    <3>1. QED  BY <2>1, Least
  <2>3. k \in 1..m /\ k \in Nat
    BY <2>1
  <2>4. PICK l \in 1..m : l < k /\ ~(cut[l] < First(cut, k))
    OBVIOUS
  <2>5. k - 1 \in 1..m /\ l <= k - 1 /\ k # 1 /\ l \in Nat /\ k - 1 \in Nat
    BY <1>4, <2>3, <2>4
  <2>6. First(cut, k) = cut[k - 1] + 1 /\ cut[k - 1] \in Nat /\ cut[l] \in Nat
    BY <1>4, <2>5 DEF First
  <2>7. CASE l = k - 1
    BY <2>4, <2>6, <2>7
  <2>8. CASE l < k - 1
    <3>1. k - 1 \notin S
      <4>1. ~(k <= k - 1)
        BY <2>3
      <4> HIDE DEF S
      <4>2. QED  BY <2>2, <4>1
    <3>2. cut[l] < First(cut, k - 1)
      BY <2>5, <2>8, <3>1
    <3>3. First(cut, k - 1) \in Nat /\ First(cut, k - 1) <= cut[k - 1]
      BY <1>5, <2>5
    <3>4. QED  BY <2>4, <2>6, <3>2, <3>3
  <2>9. QED  BY <2>5, <2>7, <2>8
<1>7. QED  BY <1>3, <1>4, <1>5, <1>6

\* The jobs of a round are spread.
LEMMA JobsSpread ==
  ASSUME NEW r \in DOMAIN Rounds, NEW n \in Nat \ {0}, NEW cut \in Cuts(r, n),
         NEW d, d.jobs = JobsOf(cut), d.bad = {}, AtWork(d) = {}
  PROVE  JobsOf(cut) \in Seq(Jobs) /\ Spread(r, d, {}) /\ Owed(d) # {}
<1>1. PICK m \in Nat \ {0} : DOMAIN cut = 1..m
  BY CutRises
<1>2. /\ \A k \in 1..m : /\ First(cut, k) \in Nat \ {0} /\ cut[k] \in Files(r)
                         /\ cut[k] \in Nat /\ First(cut, k) <= cut[k]
      /\ \A k, l \in 1..m : l < k => cut[l] < First(cut, k)
      /\ ToSet(Rounds[r]) \subseteq {0} \cup ToSet(cut)
  BY <1>1, CutRises
<1> DEFINE q == JobsOf(cut)
           p(k) == Piece(q[k])
<1>3. \A k \in 1..m : /\ q[k] \in Jobs
                      /\ p(k).start = First(cut, k) /\ p(k).files = First(cut, k)..cut[k]
                      /\ q[k].files = First(cut, k)..cut[k]
  <2> TAKE k \in 1..m
  <2>1. q[k] = NewJob(First(cut, k), cut[k])
    BY <1>1 DEF JobsOf
  <2>2. First(cut, k)..cut[k] \in SUBSET Nat
    BY <1>2
  <2>3. NewJob(First(cut, k), cut[k]) \in Jobs
    BY <1>2, <2>2 DEF NewJob, Jobs, Phases
  <2>4. QED  BY <2>1, <2>3 DEF NewJob, Piece
<1>4. q \in Seq(Jobs) /\ DOMAIN q = 1..m
  <2>1. q = [k \in 1..m |-> q[k]]
    BY <1>1 DEF JobsOf
  <2> HIDE DEF q
  <2>2. QED  BY <1>3, <2>1, SeqDef
<1> HIDE DEF q, p
<1>5. \A k \in 1..m : InGroup(r, p(k))
  <2> SUFFICES ASSUME NEW k \in 1..m PROVE InGroup(r, p(k))
    OBVIOUS
  <2>1. /\ First(cut, k) \in Nat \ {0} /\ cut[k] \in Nat /\ First(cut, k) <= cut[k]
        /\ p(k).start = First(cut, k) /\ p(k).files = First(cut, k)..cut[k]
    BY <1>2, <1>3
  <2>2. p(k).files # {} /\ p(k).start > 0 /\ \A f \in p(k).files : p(k).start <= f
    BY <2>1
  <2>3. p(k).files \subseteq Files(r)
    <3>1. Last(Rounds[r]) \in Nat /\ cut[k] \in Files(r)
      BY <1>2, Places
    <3>2. QED  BY <2>1, <3>1 DEF Files
  <2>4. ASSUME NEW g \in DOMAIN Rounds[r]
        PROVE  Rounds[r][g] < p(k).start \/ \A f \in p(k).files : f <= Rounds[r][g]
    <3>1. Rounds[r][g] \in {0} \cup ToSet(cut)
      BY <1>2 DEF ToSet
    <3>2. CASE Rounds[r][g] = 0
      BY <2>1, <3>2
    <3>3. CASE Rounds[r][g] \in ToSet(cut)
      <4>1. PICK l \in 1..m : Rounds[r][g] = cut[l]
        BY <1>1, <3>3 DEF ToSet
      <4>2. l \in Nat /\ k \in Nat /\ cut[l] \in Nat
        BY <1>2
      <4>3. CASE l < k
        BY <1>2, <2>1, <4>1, <4>3
      <4>4. CASE l = k
        BY <2>1, <4>1, <4>4
      <4>5. CASE k < l
        <5>1. cut[k] < First(cut, l) /\ First(cut, l) <= cut[l] /\ First(cut, l) \in Nat
          BY <1>2, <4>5
        <5>2. QED  BY <2>1, <4>1, <4>2, <5>1
      <4>6. QED  BY <4>2, <4>3, <4>4, <4>5
    <3>4. QED  BY <3>1, <3>2, <3>3
  <2>5. QED  BY <2>2, <2>3, <2>4 DEF InGroup
<1>6. \A k, l \in 1..m : k < l => Before(p(k), p(l))
  <2> SUFFICES ASSUME NEW k \in 1..m, NEW l \in 1..m, k < l PROVE Before(p(k), p(l))
    OBVIOUS
  <2>1. /\ First(cut, k) \in Nat /\ cut[k] \in Nat /\ First(cut, k) <= cut[k]
        /\ p(k).start = First(cut, k) /\ p(k).files = First(cut, k)..cut[k]
        /\ First(cut, l) \in Nat /\ cut[l] \in Nat /\ cut[k] < First(cut, l)
        /\ p(l).start = First(cut, l) /\ p(l).files = First(cut, l)..cut[l]
    BY <1>2, <1>3
  <2> DEFINE a1 == First(cut, k)
             b1 == cut[k]
  <2> HIDE DEF a1, b1
  <2>2. Cardinality(a1..b1) = IF a1 > b1 THEN 0 ELSE b1 - a1 + 1
    <3>1. a1 \in Int /\ b1 \in Int
      BY <2>1 DEF a1, b1
    <3>2. QED  BY <3>1, FS_Interval
  <2>3. First(cut, k) + Cardinality(p(k).files) <= p(l).start
    <3>1. p(k).files = a1..b1 /\ a1 \in Nat /\ b1 \in Nat /\ a1 <= b1 /\ b1 < p(l).start
      BY <2>1 DEF a1, b1
    <3>2. Cardinality(p(k).files) = b1 - a1 + 1
      BY <2>2, <3>1
    <3>3. p(l).start \in Nat
      BY <2>1
    <3>4. QED  BY <3>1, <3>2, <3>3 DEF a1
  <2>4. \A a \in p(k).files, b \in p(l).files : a < b
    BY <2>1
  <2>5. QED  BY <2>1, <2>3, <2>4 DEF Before
<1>7. \A k, l \in DOMAIN d.jobs : k # l => Apart(Piece(d.jobs[k]), Piece(d.jobs[l]))
  <2> SUFFICES ASSUME NEW k \in 1..m, NEW l \in 1..m, k # l PROVE Apart(p(k), p(l))
    BY <1>4 DEF p, q
  <2>1. k \in Nat /\ l \in Nat
    OBVIOUS
  <2>2. k < l \/ l < k
    BY <2>1
  <2>3. QED  BY <1>6, <2>2 DEF Apart
<1>8. \A k \in DOMAIN d.jobs : Sound(r, d.bad, Piece(d.jobs[k]))
  BY <1>4, <1>5 DEF Sound, p, q
<1>9. Spread(r, d, {})
  BY <1>7, <1>8 DEF Spread
<1>10. Owed(d) # {}
  <2>1. 1 \in DOMAIN d.jobs /\ d.jobs[1].files = First(cut, 1)..cut[1]
    BY <1>3, <1>4 DEF q
  <2>2. First(cut, 1) \in First(cut, 1)..cut[1]
    <3>1. 1 \in 1..m
      OBVIOUS
    <3>2. First(cut, 1) \in Nat /\ cut[1] \in Nat /\ First(cut, 1) <= cut[1]
      BY <1>2, <3>1
    <3>3. QED  BY <3>2
  <2>3. First(cut, 1) \in d.jobs[1].files /\ d.jobs[1].files \subseteq Owed(d)
    BY <2>1, <2>2 DEF Owed
  <2>4. QED  BY <2>3
<1>11. QED  BY <1>4, <1>9, <1>10 DEF q

-----------------------------------------------------------------------------
(* Steps of a running dispatch.                                            *)

\* With the counter at zero nobody works or recovers, and every slot in rotation
\* has an idle worker; nothing is owed once the queue is empty too.
LEMMA NobodyLeft ==
  ASSUME NEW rec \in SUBSET Slots, NEW e \in Desks, Staffed(e, rec), e.count = 0
  PROVE  /\ AtWork(e) = {} /\ rec = {} /\ e.busy = {}
         /\ e.jobs = <<>> => Owed(e) = {}
         /\ \A s \in Slots : e.worker[s] # "busy"
         /\ \A s \in e.active : e.worker[s] # "none"
<1> DEFINE W == AtWork(e) \cup rec
<1>1. W \in SUBSET Slots
  BY DEF AtWork
<1>2. Cardinality(W) = 0 /\ \A s \in Slots : e.worker[s] = "busy" => s \in AtWork(e)
  BY DEF Staffed
<1>3. W = {}
  <2> HIDE DEF W
  <2>1. IsFiniteSet(W)
    BY <1>1, SlotsFinite
  <2>2. QED  BY <1>2, <2>1, FS_EmptySet
<1>4. AtWork(e) = {} /\ rec = {} /\ e.busy = {}
  BY <1>3 DEF Staffed
<1>5. e.jobs = <<>> => Owed(e) = {}
  BY <1>4 DEF Owed
<1>6. \A s \in e.active : e.worker[s] # "none"
  BY <1>4 DEF Staffed
<1>7. QED  BY <1>2, <1>4, <1>5, <1>6

\* A step that keeps the slots and the pieces in order keeps the invariant.
LEMMA Continues ==
  ASSUME PoolInv, outcome = "running", NEW e \in Desks, Desk' = e,
         Staffed(e, Recovering'), Spread(round, e, results'), results' \in SUBSET Results,
         Counts', Budgets', UNCHANGED <<startupVars, terminated, round, broken, aborted>>,
         \/ outcome' = "running" /\ e.count # 0
         \/ outcome' = "resolved" /\ e.jobs = <<>> /\ e.count = 0
  PROVE  PoolInv'
<1>1. /\ jobs' = e.jobs /\ job' = e.job /\ busy' = e.busy /\ activeWorkers' = e.count
      /\ worker' = e.worker /\ active' = e.active /\ quarantined' = e.bad
  BY DEF Desk
<1>2. Types'
  BY DEF PoolInv, Types, Starting, Settling, startupVars
<1>3. Stages'
  BY DEF PoolInv, Stages, startupVars, GateSettled, InFlight
<1>4. (outcome = "running" => Staffed(Desk, Recovering) /\ activeWorkers # 0)'
  BY <1>1 DEF Recovering
<1>5. (outcome \in {"running", "resolved"} => Spread(round, Desk, results))'
  BY DEF Desk
<1>6. ASSUME outcome' = "resolved" PROVE AtRest'
  <2>1. e.jobs = <<>> /\ e.count = 0 /\ Recovering' \in SUBSET Slots
    BY <1>6 DEF Recovering
  <2>2. /\ AtWork(e) = {} /\ Recovering' = {} /\ e.busy = {}
        /\ \A s \in Slots : e.worker[s] # "busy"
        /\ \A s \in e.active : e.worker[s] # "none"
    BY <2>1, NobodyLeft
  <2>3. AtWork(Desk)' = {}
    BY <2>2 DEF Desk, AtWork
  <2>4. \A s \in active' : boot'[s] = "ready" /\ worker'[s] # "none"
    <3>1. active' \subseteq Slots
      BY <1>1 DEF Desks
    <3>2. QED  BY <1>1, <1>3, <1>6, <2>2, <3>1 DEF Stages
  <2>5. QED  BY <1>1, <2>1, <2>2, <2>3, <2>4 DEF AtRest
<1>7. QED  BY <1>2, <1>3, <1>4, <1>5, <1>6 DEF PoolInv

\* What the dispatch owes its caller, in the terms of the desk.
LEMMA Todo ==
  /\ InJobs \cup InSlots = Owed(Desk)
  /\ Dispatch!vars = <<Owed(Desk), Delivered, quarantined, outcome>>
<1>1. InJobs \cup InSlots = Owed(Desk)
  BY DEF InJobs, InSlots, Owed, Desk, AtWork
<1>2. QED  BY <1>1 DEF Dispatch!vars

\* A step that names one culprit, or none, and owes the rest as before.
LEMMA Advances ==
  ASSUME PoolInv, outcome = "running", NEW e \in Desks, Desk' = e,
         NEW blamed \in SUBSET Owed(Desk), blamed = {} \/ \E f : blamed = {f},
         Owed(e) = Owed(Desk) \ blamed, quarantined' = quarantined \cup blamed,
         results' = results, Staffed(e, Recovering'),
         outcome' = "running" \/ (outcome' = "resolved" /\ e.jobs = <<>> /\ e.count = 0)
  PROVE  [Dispatch!Next]_(Dispatch!vars)
<1>1. (InJobs \cup InSlots)' = Owed(e) /\ InJobs \cup InSlots = Owed(Desk)
  <2>1. (InJobs \cup InSlots)' = Owed(Desk)'
    BY DEF InJobs, InSlots, Owed, Desk, AtWork
  <2>2. QED  BY <2>1, Todo DEF Owed
<1>2. Delivered' = Delivered
  BY DEF Delivered
<1>3. ASSUME outcome' = "resolved" PROVE Owed(e) = {}
  <2>1. Recovering' \in SUBSET Slots
    BY DEF Recovering
  <2>2. QED  BY <1>3, <2>1, NobodyLeft
<1>4. CASE blamed = {}
  <2>1. (InJobs \cup InSlots)' = InJobs \cup InSlots /\ quarantined' = quarantined
    BY <1>1, <1>4
  <2>2. CASE outcome' = "running"
    BY <1>2, <2>1, <2>2 DEF Dispatch!vars
  <2>3. CASE outcome' = "resolved"
    <3>1. Dispatch!Resolve
      BY <1>1, <1>2, <1>3, <1>4, <2>1, <2>3 DEF Dispatch!Resolve
    <3>2. QED  BY <3>1 DEF Dispatch!Next
  <2>4. QED  BY <2>2, <2>3
<1>5. CASE \E f : blamed = {f}
  <2>1. Dispatch!SetAside
    BY <1>1, <1>2, <1>3, <1>5 DEF Dispatch!SetAside
  <2>2. QED  BY <2>1 DEF Dispatch!Next
<1>6. QED  BY <1>4, <1>5

\* tripBreaker leaves nothing to do, and at most names the last culprit.
LEMMA Trips ==
  ASSUME PoolInv, outcome = "running", NEW d, TripBreaker(d), Counts',
         NEW blamed \in SUBSET Owed(Desk), d.bad = quarantined \cup blamed,
         UNCHANGED <<startupVars, terminated, round, results>>
  PROVE  PoolInv' /\ [Dispatch!Next]_(Dispatch!vars)
<1>1. /\ outcome' = "rejected" /\ broken' = TRUE /\ aborted' \in BOOLEAN
      /\ worker' = [s \in Slots |-> "none"] /\ active' = {} /\ quarantined' = d.bad
      /\ jobs' = <<>> /\ job' = [s \in Slots |-> NoJob] /\ busy' = {} /\ activeWorkers' = 0
  BY DEF TripBreaker, PoolInv, Types, Settling
<1>2. Owed(Desk) \subseteq Nat /\ quarantined \subseteq Nat
  <2>1. /\ jobs \in Seq(Jobs) /\ job \in [Slots -> Jobs \cup {NoJob}]
        /\ quarantined \subseteq Nat
    BY DeskFields DEF PoolInv, Types, Desks
  <2>2. \A k \in DOMAIN jobs : jobs[k].files \subseteq Nat
    <3>1. \A k \in DOMAIN jobs : jobs[k] \in Jobs
      BY <2>1
    <3>2. QED  BY <3>1 DEF Jobs
  <2>3. \A s \in Slots : job[s] # NoJob => job[s].files \subseteq Nat
    BY <2>1 DEF Jobs
  <2>4. QED  BY <2>1, <2>2, <2>3, DeskFields DEF Owed, AtWork
<1>3. Desk' \in Desks
  <2>1. worker' \in [Slots -> WorkerStates] /\ quarantined' \in SUBSET Nat
    BY <1>1, <1>2 DEF WorkerStates
  <2>2. job' \in [Slots -> Jobs \cup {NoJob}] /\ jobs' \in Seq(Jobs)
    BY <1>1
  <2>3. QED  BY <1>1, <2>1, <2>2 DEF Desk, Desks
<1>4. Types'
  BY <1>1, <1>3 DEF PoolInv, Types, Starting, Settling, startupVars
<1>5. Stages'
  BY <1>1 DEF PoolInv, Stages, startupVars, GateSettled, InFlight
<1>6. Budgets'
  BY <1>1 DEF Budgets
<1>7. AtRest'
  BY <1>1 DEF AtRest, Desk, AtWork
<1>8. PoolInv'
  BY <1>1, <1>4, <1>5, <1>6, <1>7 DEF PoolInv
<1>9. (InJobs \cup InSlots)' = {} /\ Delivered' = Delivered
  BY <1>1 DEF InJobs, InSlots, Delivered
<1>10. Dispatch!Reject
  BY <1>1, <1>9, Todo DEF Dispatch!Reject
<1>11. QED  BY <1>8, <1>10 DEF Dispatch!Next

\* The end of a continuation on a desk in order.
LEMMA Commits ==
  ASSUME PoolInv, outcome = "running", NEW d \in Desks, NEW order \in Seq(Slots),
         IsInjective(order), Commit(RunWorkers(d, order)), d.count = 0 => Idle(d, order),
         Spread(round, d, results'), Staffed(d, Recovering'), results' \in SUBSET Results,
         Counts', \A t \in Slots : consecutive'[t] < consecutiveFailureThreshold,
         \A t \in Slots : respawns'[t] > maxRespawnsPerSlot =>
                              t \notin d.active \/ recovery'[t] = "dropping",
         UNCHANGED <<startupVars, terminated, round, broken, aborted>>
  PROVE  /\ PoolInv'
         /\ \E e \in Desks : /\ Desk' = e /\ Staffed(e, Recovering') /\ Owed(e) = Owed(d)
                             /\ e.bad = d.bad
                             /\ \/ outcome' = "running"
                                \/ outcome' = "resolved" /\ e.jobs = <<>> /\ e.count = 0
<1> DEFINE e == RunWorkers(d, order)
<1>1. Recovering' \in SUBSET Slots
  BY DEF Recovering
<1>2. /\ e \in Desks /\ e.bad = d.bad /\ Spread(round, e, results')
      /\ Staffed(e, Recovering') /\ Owed(e) = Owed(d) /\ e.active = d.active
      /\ e.jobs # <<>> => e.count # 0
  <2> DEFINE r == round
             res == results'
             rec == Recovering'
  <2>1. /\ rec \in SUBSET Slots /\ d \in Desks /\ order \in Seq(Slots) /\ IsInjective(order)
        /\ Spread(r, d, res) /\ Staffed(d, rec) /\ (d.count = 0 => Idle(d, order))
    BY <1>1
  <2> HIDE DEF r, res, rec
  <2>2. /\ RunWorkers(d, order) \in Desks /\ RunWorkers(d, order).active = d.active
        /\ RunWorkers(d, order).bad = d.bad /\ Spread(r, RunWorkers(d, order), res)
        /\ Staffed(RunWorkers(d, order), rec) /\ Owed(RunWorkers(d, order)) = Owed(d)
        /\ RunWorkers(d, order).jobs # <<>> => RunWorkers(d, order).count # 0
    BY ONLY <2>1, RunWorkersKeeps, ZenonT(60)
  <2>3. QED  BY <2>2 DEF r, res, rec
<1> HIDE DEF e
<1>3. /\ jobs' = e.jobs /\ job' = e.job /\ busy' = e.busy /\ activeWorkers' = e.count
      /\ worker' = e.worker /\ active' = e.active /\ quarantined' = e.bad
      /\ outcome' = IF e.jobs = <<>> /\ e.count = 0 THEN "resolved" ELSE outcome
  BY DEF Commit, e
<1>4. Desk' = e
  BY <1>2, <1>3 DEF Desk, Desks
<1>5. outcome' = "running" \/ (outcome' = "resolved" /\ e.jobs = <<>> /\ e.count = 0)
  BY <1>3
<1>6. Budgets'
  BY <1>2, <1>3 DEF Budgets
<1>7. PoolInv'
  <2>1. \/ outcome' = "running" /\ e.count # 0
        \/ outcome' = "resolved" /\ e.jobs = <<>> /\ e.count = 0
    BY <1>2, <1>3
  <2>2. QED  BY <1>2, <1>4, <1>6, <2>1, Continues
<1>8. QED  BY <1>2, <1>4, <1>5, <1>7

\* Who is counted and who is busy says nothing of the pieces.
LEMMA SamePieces ==
  ASSUME NEW r, NEW res, NEW d, NEW e, e.jobs = d.jobs, e.job = d.job, e.bad = d.bad
  PROVE  /\ Spread(r, d, res) => Spread(r, e, res)
         /\ AtWork(e) = AtWork(d) /\ Owed(e) = Owed(d)
<1>1. AtWork(e) = AtWork(d)
  BY DEF AtWork
<1>2. QED  BY <1>1 DEF Spread, Owed

\* The desk that a slot leaves when its recovery is over.
Leave(d, s) == [d EXCEPT !.count = @ - 1, !.busy = @ \ {s}]

\* Leaving touches the counter and the busy slots only.
LEMMA LeftDesk ==
  ASSUME NEW d \in Desks, NEW s \in Slots
  PROVE  /\ Leave(d, s) \in Desks /\ Leave(d, s).jobs = d.jobs /\ Leave(d, s).job = d.job
         /\ Leave(d, s).bad = d.bad /\ Leave(d, s).active = d.active
         /\ Leave(d, s).worker = d.worker /\ Leave(d, s).count = d.count - 1
         /\ Leave(d, s).busy = d.busy \ {s}
<1>1. d.count - 1 \in Int /\ d.busy \ {s} \in SUBSET Slots
  BY DEF Desks
<1>2. QED  BY <1>1 DEF Leave, Desks

\* A recovery is over, with at most one culprit since the step began.
LEMMA Resumes ==
  ASSUME PoolInv, outcome = "running", NEW d \in Desks, NEW s \in Slots, Resume(d, s),
         d.active # {},
         Spread(round, d, results), Staffed(Leave(d, s), Recovering'), results' = results,
         NEW blamed \in SUBSET Owed(Desk), blamed = {} \/ \E f : blamed = {f},
         Owed(d) = Owed(Desk) \ blamed, d.bad = quarantined \cup blamed,
         Counts', \A t \in Slots : consecutive'[t] < consecutiveFailureThreshold,
         \A t \in Slots : respawns'[t] > maxRespawnsPerSlot =>
                              t \notin d.active \/ recovery'[t] = "dropping",
         UNCHANGED <<startupVars, terminated, round, broken, aborted>>
  PROVE  PoolInv' /\ [Dispatch!Next]_(Dispatch!vars)
<1> DEFINE l == Leave(d, s)
           order == <<s>> \o Only(InTurn, Slots \ {s})
<1>1. /\ l \in Desks /\ l.jobs = d.jobs /\ l.job = d.job /\ l.bad = d.bad
      /\ l.active = d.active
  BY LeftDesk
<1>2. Spread(round, l, results) /\ Owed(l) = Owed(d)
  BY <1>1, SamePieces
<1>3. /\ order \in Seq(Slots) /\ IsInjective(order)
      /\ \A t \in Slots : \E i \in DOMAIN order : order[i] = t
  BY Orders
<1>4. l.count = 0 => Idle(l, order)
  <2>1. Staffed(l, Recovering') /\ Recovering' \in SUBSET Slots
    BY DEF Recovering
  <2>2. PICK t \in l.active : t \in Slots
    BY <1>1 DEF Desks
  <2> HIDE DEF l, order
  <2>3. ASSUME l.count = 0 PROVE Idle(l, order)
    <3>1. l.busy = {} /\ l.worker[t] # "none"
      BY <1>1, <2>1, <2>3, NobodyLeft
    <3>2. PICK i \in DOMAIN order : order[i] = t
      BY <1>3, <2>2
    <3>3. QED  BY <3>1, <3>2 DEF Idle
  <2>4. QED  BY <2>3
<1>5. Commit(RunWorkers(l, order))
  BY DEF Resume, Leave
<1>6. results' \in SUBSET Results
  BY DEF PoolInv, Types, Settling
<1> HIDE DEF l, order
<1>7. /\ Spread(round, l, results') /\ Staffed(l, Recovering')
      /\ \A t \in Slots : respawns'[t] > maxRespawnsPerSlot =>
                              t \notin l.active \/ recovery'[t] = "dropping"
  BY <1>1, <1>2 DEF l
<1>8. /\ PoolInv'
      /\ \E e \in Desks : /\ Desk' = e /\ Staffed(e, Recovering') /\ Owed(e) = Owed(l)
                          /\ e.bad = l.bad
                          /\ \/ outcome' = "running"
                             \/ outcome' = "resolved" /\ e.jobs = <<>> /\ e.count = 0
  BY <1>1, <1>3, <1>4, <1>5, <1>6, <1>7, Commits
<1>9. PICK e \in Desks : /\ Desk' = e /\ Staffed(e, Recovering') /\ Owed(e) = Owed(l)
                         /\ e.bad = l.bad
                         /\ \/ outcome' = "running"
                            \/ outcome' = "resolved" /\ e.jobs = <<>> /\ e.count = 0
  BY <1>8
<1>10. Owed(e) = Owed(Desk) \ blamed /\ quarantined' = quarantined \cup blamed
  BY <1>1, <1>2, <1>9 DEF Desk
<1>11. [Dispatch!Next]_(Dispatch!vars)
  BY <1>9, <1>10, Advances
<1>12. QED  BY <1>8, <1>11

\* The slot leaves the rotation, and the pool is broken when it was the last.
LEMMA GoesOn ==
  ASSUME PoolInv, outcome = "running", NEW d \in Desks, NEW s \in Slots, GoOnWithout(d, s),
         Spread(round, d, results), Staffed(Leave(Drop(d, s), s), Recovering'),
         results' = results,
         NEW blamed \in SUBSET Owed(Desk), blamed = {} \/ \E f : blamed = {f},
         Owed(d) = Owed(Desk) \ blamed, d.bad = quarantined \cup blamed,
         Counts', \A t \in Slots : consecutive'[t] < consecutiveFailureThreshold,
         \A t \in Slots \ {s} : respawns'[t] > maxRespawnsPerSlot =>
                                    t \notin d.active \/ recovery'[t] = "dropping",
         UNCHANGED <<startupVars, terminated, round>>
  PROVE  PoolInv' /\ [Dispatch!Next]_(Dispatch!vars)
<1> DEFINE l == Drop(d, s)
<1>1. /\ l \in Desks /\ l.jobs = d.jobs /\ l.job = d.job /\ l.bad = d.bad
      /\ l.active = d.active \ {s}
  BY DEF Drop, Desks
<1>2. Spread(round, l, results) /\ Owed(l) = Owed(d)
  BY <1>1, SamePieces
<1>3. CASE TripBreaker(l)
  <2>1. l.bad = quarantined \cup blamed
    BY <1>1
  <2> HIDE DEF l
  <2>2. QED  BY <1>3, <2>1, Trips
<1>4. CASE l.active # {} /\ Resume(l, s) /\ UNCHANGED <<broken, aborted>>
  <2>1. \A t \in Slots : respawns'[t] > maxRespawnsPerSlot =>
                             t \notin l.active \/ recovery'[t] = "dropping"
    BY <1>1
  <2>2. Owed(l) = Owed(Desk) \ blamed /\ l.bad = quarantined \cup blamed
    BY <1>1, <1>2
  <2>3. UNCHANGED <<startupVars, terminated, round, broken, aborted>>
    BY <1>4
  <2>4. Staffed(Leave(l, s), Recovering')
    OBVIOUS
  <2>5. Resume(l, s) /\ l.active # {}
    BY <1>4
  <2> HIDE DEF l
  <2>6. QED  BY <1>1, <1>2, <2>1, <2>2, <2>3, <2>4, <2>5, Resumes
<1>5. QED  BY <1>3, <1>4 DEF GoOnWithout

\* A slot at work is put into recovery: its job is off its hands, its worker gone.
LEMMA Retires ==
  ASSUME PoolInv, outcome = "running", NEW e \in Desks, Desk' = e, NEW s \in AtWork(Desk),
         NEW front \in Seq(Jobs), NEW blamed \in SUBSET job[s].files,
         Return(round, Desk, e, s, front, blamed), blamed = {} \/ \E f : blamed = {f},
         e.busy = busy \/ e.busy = busy \ {s}, e.count = activeWorkers, e.active = active,
         e.worker = [worker EXCEPT ![s] = "none"], Recovering' = Recovering \cup {s},
         results' = results, outcome' = outcome, Counts', Budgets',
         UNCHANGED <<startupVars, terminated, round, broken, aborted>>
  PROVE  PoolInv' /\ [Dispatch!Next]_(Dispatch!vars)
<1>1. /\ Desk \in Desks /\ results \in SUBSET Results /\ Spread(round, Desk, results)
      /\ Staffed(Desk, Recovering)
  BY DEF PoolInv, Types, Settling
<1>2. s \in Slots /\ worker \in [Slots -> WorkerStates] /\ job \in [Slots -> Jobs \cup {NoJob}]
  BY <1>1, DeskFields DEF AtWork, Desks
<1>3. blamed \in SUBSET Desk.job[s].files
  BY DeskFields
<1>4. /\ AtWork(e) = AtWork(Desk) \ {s} /\ Spread(round, e, results)
      /\ Owed(e) = Owed(Desk) \ blamed /\ blamed \subseteq Owed(Desk)
  <2> DEFINE res == results
             d == Desk
  <2>1. /\ res \in SUBSET Results /\ d \in Desks /\ s \in AtWork(d) /\ front \in Seq(Jobs)
        /\ blamed \in SUBSET d.job[s].files /\ Return(round, d, e, s, front, blamed)
        /\ Spread(round, d, res)
    BY <1>1, <1>3
  <2> HIDE DEF res, d
  <2>2. /\ AtWork(e) = AtWork(d) \ {s}
        /\ Spread(round, e, res) /\ Owed(e) = Owed(d) \ blamed /\ blamed \subseteq Owed(d)
    BY ONLY <2>1, Returned
  <2>3. QED  BY <2>2 DEF d, res
<1>5. \A t \in AtWork(e) : e.job[t] = Desk.job[t]
  BY <1>2, <1>4, DeskFields DEF Return, AtWork
<1>6. Recovering \in SUBSET Slots /\ Recovering' \in SUBSET Slots
  BY DEF Recovering
<1>7. /\ e.worker[s] = "none" /\ \A t \in Slots \ {s} : e.worker[t] = Desk.worker[t]
      /\ e.count = Desk.count /\ e.active = Desk.active
      /\ e.busy = Desk.busy \/ e.busy = Desk.busy \ {s}
  BY <1>2, DeskFields
<1>8. Staffed(e, Recovering')
  <2> DEFINE d == Desk
             rec == Recovering
             rec2 == Recovering'
  <2>1. /\ rec \in SUBSET Slots /\ d \in Desks /\ Staffed(d, rec) /\ s \in AtWork(d)
        /\ rec2 \in SUBSET Slots /\ AtWork(e) = AtWork(d) \ {s} /\ rec2 = rec \cup {s}
        /\ \A t \in AtWork(e) : e.job[t] = d.job[t]
        /\ e.count = d.count /\ (e.busy = d.busy \/ e.busy = d.busy \ {s})
        /\ e.active = d.active
        /\ \A t \in Slots \ {s} : e.worker[t] = d.worker[t]
        /\ e.worker[s] = "none"
    BY <1>1, <1>4, <1>5, <1>6, <1>7
  <2> HIDE DEF d, rec, rec2
  <2>2. Staffed(e, rec2)
    BY ONLY <2>1, Relieved
  <2>3. QED  BY <2>2 DEF rec2
<1>9. PoolInv'
  <2>1. outcome' = "running" /\ e.count # 0
    BY DEF PoolInv
  <2>2. QED  BY <1>1, <1>4, <1>8, <2>1, Continues
<1>10. [Dispatch!Next]_(Dispatch!vars)
  <2>1. quarantined' = quarantined \cup blamed
    BY DeskFields DEF Return, Desk
  <2>2. QED  BY <1>4, <1>8, <2>1, Advances
<1>11. QED  BY <1>9, <1>10

-----------------------------------------------------------------------------
(* Deaths and timeouts.                                                    *)

\* A slot with a job is in a running dispatch, and neither recovers nor is spent.
LEMMA SlotWithJob ==
  ASSUME PoolInv, NEW s \in Slots, job[s] # NoJob
  PROVE  /\ outcome = "running" /\ s \in AtWork(Desk) /\ recovery[s] = "none"
         /\ s \in active /\ s \in busy /\ ~broken /\ worker[s] # "none"
         /\ job[s] \in Jobs /\ respawns[s] <= maxRespawnsPerSlot
         /\ round \in DOMAIN Rounds /\ Desk \in Desks
         /\ Spread(round, Desk, results) /\ Staffed(Desk, Recovering) /\ activeWorkers # 0
<1>1. s \in AtWork(Desk) /\ job[s] \in Jobs /\ Desk \in Desks
  BY DeskFields DEF AtWork, PoolInv, Types, Desks
<1>2. outcome = "running"
  BY <1>1 DEF PoolInv, AtRest
<1>3. Spread(round, Desk, results) /\ Staffed(Desk, Recovering) /\ ~broken /\ activeWorkers # 0
  BY <1>2 DEF PoolInv, Stages
<1>4. s \in active /\ s \in busy /\ recovery[s] = "none" /\ worker[s] # "none"
  BY <1>1, <1>3, DeskFields DEF Staffed, Recovering
<1>5. respawns[s] <= maxRespawnsPerSlot
  <2>1. ~(respawns[s] > maxRespawnsPerSlot)
    BY <1>4 DEF PoolInv, Budgets
  <2>2. respawns[s] \in Int /\ maxRespawnsPerSlot \in Int
    BY PoolAssumption DEF PoolInv, Types, Counts
  <2>3. QED  BY <2>1, <2>2
<1>6. round \in DOMAIN Rounds
  <2>1. Rounds \in Seq(Seq(Nat)) /\ round \in 0..Len(Rounds) /\ round # 0
    BY <1>2, PoolAssumption DEF PoolInv, Types, Settling
  <2>2. QED  BY <2>1
<1>7. QED  BY <1>1, <1>2, <1>3, <1>4, <1>5, <1>6

\* One more failure is within the threshold, and one more respawn at most one over.
LEMMA Failed ==
  ASSUME PoolInv, NEW s \in Slots, job[s] # NoJob, Fail(s)
  PROVE  /\ consecutive' \in [Slots -> 0..consecutiveFailureThreshold]
         /\ ~LastStraw(s) =>
                \A t \in Slots : consecutive'[t] < consecutiveFailureThreshold
<1>1. ~broken
  BY SlotWithJob
<1>2. /\ consecutive \in [Slots -> 0..consecutiveFailureThreshold]
      /\ \A t \in Slots : consecutive[t] < consecutiveFailureThreshold
      /\ consecutiveFailureThreshold \in Nat
  BY <1>1, PoolAssumption DEF PoolInv, Types, Counts, Budgets
<1>3. consecutive' = [consecutive EXCEPT ![s] = consecutive[s] + 1]
  BY DEF Fail
<1>4. consecutive[s] + 1 \in 0..consecutiveFailureThreshold
  BY <1>2
<1>5. ASSUME ~LastStraw(s), NEW t \in Slots
      PROVE  consecutive'[t] < consecutiveFailureThreshold
  <2>1. consecutive[s] + 1 < consecutiveFailureThreshold
    BY <1>2, <1>5 DEF LastStraw
  <2>2. QED  BY <1>2, <1>3, <2>1
<1>6. QED  BY <1>2, <1>3, <1>4, <1>5

\* A respawn is counted, and the last one only on a slot that is spent.
LEMMA Charged ==
  ASSUME PoolInv, NEW s \in Slots, job[s] # NoJob, Charge(s)
  PROVE  /\ respawns' \in [Slots -> 0..maxRespawnsPerSlot + 1]
         /\ \A t \in Slots \ {s} : respawns'[t] = respawns[t]
         /\ ~Spent(s) => ~(respawns'[s] > maxRespawnsPerSlot)
<1>1. /\ respawns \in [Slots -> 0..maxRespawnsPerSlot + 1] /\ maxRespawnsPerSlot \in Nat
      /\ respawns[s] <= maxRespawnsPerSlot
  BY PoolAssumption, SlotWithJob DEF PoolInv, Types, Counts
<1>2. respawns' = [respawns EXCEPT ![s] = respawns[s] + 1]
  BY DEF Charge
<1>3. respawns[s] + 1 \in 0..maxRespawnsPerSlot + 1 /\ respawns[s] \in Nat
  BY <1>1
<1>4. ASSUME ~Spent(s) PROVE ~(respawns'[s] > maxRespawnsPerSlot)
  <2>1. ~(respawns[s] >= maxRespawnsPerSlot)
    BY <1>4 DEF Spent
  <2>2. ~(respawns[s] + 1 > maxRespawnsPerSlot)
    BY <1>1, <1>3, <2>1
  <2>3. QED  BY <1>1, <1>2, <2>2
<1>5. QED  BY <1>1, <1>2, <1>3, <1>4

\* requeueRemainder blames at most one file, and returns the rest.
LEMMA Requeued ==
  ASSUME PoolInv, NEW s \in Slots, job[s] # NoJob, NEW excluded \in SUBSET job[s].files,
         excluded = {} \/ \E f : excluded = {f}
  PROVE  LET q == Requeue(Desk, s, excluded)
             blamed == Blamed(job[s], excluded)
         IN  /\ q \in Desks /\ q.busy = busy /\ q.count = activeWorkers
             /\ q.worker = worker /\ q.active = active /\ q.bad = quarantined \cup blamed
             /\ blamed \in SUBSET job[s].files /\ (blamed = {} \/ \E f : blamed = {f})
             /\ \E front \in Seq(Jobs) : Return(round, Desk, q, s, front, blamed)
<1> DEFINE q == Requeue(Desk, s, excluded)
           blamed == Blamed(job[s], excluded)
           j == [job[s] EXCEPT !.phase = "queued"]
           left == j.files \ blamed
           Q == IF left = {} THEN jobs ELSE <<[j EXCEPT !.files = left]>> \o jobs
           H == [job EXCEPT ![s] = NoJob]
           B == quarantined \cup blamed
<1>1. /\ s \in AtWork(Desk) /\ job[s] \in Jobs /\ round \in DOMAIN Rounds /\ Desk \in Desks
      /\ Spread(round, Desk, results)
  BY SlotWithJob
<1>2. job[s].files # {} /\ job[s].files \in SUBSET Nat
  BY <1>1, DeskFields DEF Spread, Sound, InGroup, Piece, Jobs
<1>3. blamed \in SUBSET job[s].files /\ (blamed = {} \/ \E f : blamed = {f})
  <2>1. Min(job[s].files) \in job[s].files
    BY <1>2, Least
  <2>2. QED  BY <2>1 DEF Blamed
<1> HIDE DEF blamed
<1>4. q = [Desk EXCEPT !.job = H, !.bad = B, !.jobs = Q]
  <2>1. j.start = job[s].start /\ j.files = job[s].files
    BY <1>1 DEF Jobs
  <2>2. Blamed(j, excluded) = blamed
    BY <2>1 DEF Blamed, blamed
  <2>3. q = [Desk EXCEPT !.job[s] = NoJob, !.bad = quarantined \cup Blamed(j, excluded),
                         !.jobs = IF j.files \ Blamed(j, excluded) = {} THEN jobs
                                  ELSE <<[j EXCEPT !.files = j.files \ Blamed(j, excluded)]>> \o jobs]
    BY DeskFields DEF Requeue
  <2> HIDE DEF j, q
  <2>4. q = [Desk EXCEPT !.job[s] = NoJob, !.bad = B, !.jobs = Q]
    BY <2>2, <2>3
  <2> HIDE DEF B, Q
  <2>5. QED  BY <2>4, DeskFields DEF Desk
<1> HIDE DEF q, Q, H, B
<1>5. /\ q.jobs = Q /\ q.job = H /\ q.bad = B /\ q.busy = busy /\ q.count = activeWorkers
      /\ q.worker = worker /\ q.active = active
  BY <1>4 DEF Desk
<1>6. \E front \in Seq(Jobs) : Return(round, Desk, q, s, front, blamed)
  <2> DEFINE d == Desk
             r == round
             res == results
  <2>1. /\ r \in DOMAIN Rounds /\ d \in Desks /\ Spread(r, d, res) /\ s \in AtWork(d)
        /\ blamed \in SUBSET d.job[s].files
        /\ LET i == [d.job[s] EXCEPT !.phase = "queued"]
               rest == i.files \ blamed
           IN  q.jobs = IF rest = {} THEN d.jobs
                        ELSE <<[i EXCEPT !.files = rest]>> \o d.jobs
        /\ q.job = [d.job EXCEPT ![s] = NoJob] /\ q.bad = d.bad \cup blamed
    BY <1>1, <1>3, <1>5, DeskFields DEF Q, H, B
  <2> HIDE DEF d, r, res
  <2>2. \E front \in Seq(Jobs) : Return(r, d, q, s, front, blamed)
    BY ONLY <2>1, RequeueReturns
  <2>3. QED  BY <2>2 DEF d, r
<1>7. q \in Desks
  <2>1. PICK front \in Seq(Jobs) : Return(round, Desk, q, s, front, blamed)
    BY <1>6
  <2>2. q.jobs = front \o jobs /\ jobs \in Seq(Jobs)
    BY <1>1, <2>1, DeskFields DEF Return, Desks
  <2>3. Q \in Seq(Jobs)
    BY <1>5, <2>2, ConcatProperties
  <2>4. H \in [Slots -> Jobs \cup {NoJob}] /\ B \in SUBSET Nat
    BY <1>1, <1>2, <1>3, DeskFields DEF Desks, H, B
  <2>5. QED  BY <1>1, <1>4, <2>3, <2>4 DEF Desks
<1>8. QED  BY <1>3, <1>5, <1>6, <1>7 DEF q, blamed, B

\* The desk only moves a job back when it is returned.
LEMMA SameReturn ==
  ASSUME NEW r, NEW d, NEW q, NEW e, NEW s, NEW front, NEW blamed,
         Return(r, d, q, s, front, blamed), e.jobs = q.jobs, e.job = q.job, e.bad = q.bad
  PROVE  Return(r, d, e, s, front, blamed)
BY DEF Return

\* What is blamed is owed.
LEMMA BlamedOwed ==
  ASSUME NEW s \in AtWork(Desk), NEW blamed \in SUBSET job[s].files
  PROVE  blamed \in SUBSET Owed(Desk)
BY DeskFields DEF Owed

\* The worker of a job dies.
LEMMA DeathStep ==
  ASSUME PoolInv, NEW s \in Slots, WorkerDies(s)
  PROVE  PoolInv' /\ [Dispatch!Next]_(Dispatch!vars)
<1>1. /\ job[s] # NoJob /\ outcome = "running" /\ s \in AtWork(Desk) /\ ~broken
      /\ UNCHANGED <<startupVars, terminated, results, round>>
  BY SlotWithJob DEF WorkerDies
<1>2. PICK w \in {"dead", "parked", worker[s]},
           excluded \in {{}} \cup {{f} : f \in job[s].files} :
          LET j == job[s]
          IN  \E d \in {[Requeue(Desk, s, excluded) EXCEPT
                          !.busy = @ \ {s}, !.worker[s] = w]} :
              /\ excluded = {} => j.phase = "flushing"
              /\ unattributed' = IF excluded = {} THEN unattributed \cup {j.start} ELSE unattributed
              /\ orphans' \in {orphans, IF Store /\ j.phase = "flushing"
                                        THEN orphans \cup j.files ELSE orphans}
              /\ Fail(s)
              /\ \/ /\ LastStraw(s)
                    /\ TripBreaker(d)
                    /\ UNCHANGED <<respawns, recovery>>
                 \/ /\ ~LastStraw(s)
                    /\ Charge(s)
                    /\ recovery' = [recovery EXCEPT ![s] = IF Spent(s) THEN "dropping" ELSE "removing"]
                    /\ jobs' = d.jobs /\ job' = d.job /\ busy' = d.busy
                    /\ worker' = [d.worker EXCEPT ![s] = "none"] /\ quarantined' = d.bad
                    /\ UNCHANGED <<active, activeWorkers, outcome, broken, aborted>>
  BY Zenon DEF WorkerDies
<1> DEFINE q == Requeue(Desk, s, excluded)
           blamed == Blamed(job[s], excluded)
           e == [q EXCEPT !.busy = @ \ {s}, !.worker[s] = w]
<1>3. /\ q \in Desks /\ q.busy = busy /\ q.count = activeWorkers
      /\ q.worker = worker /\ q.active = active /\ q.bad = quarantined \cup blamed
      /\ blamed \in SUBSET job[s].files /\ (blamed = {} \/ \E f : blamed = {f})
      /\ \E front \in Seq(Jobs) : Return(round, Desk, q, s, front, blamed)
  <2>1. excluded \in SUBSET job[s].files /\ (excluded = {} \/ \E f : excluded = {f})
    OBVIOUS
  <2>2. QED  BY <1>1, <2>1, Requeued
<1> HIDE DEF q, blamed
<1>4. /\ e.jobs = q.jobs /\ e.job = q.job /\ e.bad = q.bad /\ e.busy = busy \ {s}
      /\ e.worker = [worker EXCEPT ![s] = w]
  BY <1>3 DEF Desks
<1>5. /\ Fail(s)
      /\ \/ /\ LastStraw(s)
            /\ TripBreaker(e)
            /\ UNCHANGED <<respawns, recovery>>
         \/ /\ ~LastStraw(s)
            /\ Charge(s)
            /\ recovery' = [recovery EXCEPT ![s] = IF Spent(s) THEN "dropping" ELSE "removing"]
            /\ jobs' = e.jobs /\ job' = e.job /\ busy' = e.busy
            /\ worker' = [e.worker EXCEPT ![s] = "none"] /\ quarantined' = e.bad
            /\ UNCHANGED <<active, activeWorkers, outcome, broken, aborted>>
  BY <1>2 DEF q
<1> HIDE DEF e
<1>6. blamed \in SUBSET Owed(Desk)
  BY <1>1, <1>3, BlamedOwed
<1>7. /\ consecutive' \in [Slots -> 0..consecutiveFailureThreshold]
      /\ ~LastStraw(s) => \A t \in Slots : consecutive'[t] < consecutiveFailureThreshold
  BY <1>1, <1>5, Failed
<1>8. CASE LastStraw(s) /\ TripBreaker(e) /\ UNCHANGED <<respawns, recovery>>
  <2>1. Counts'
    BY <1>7, <1>8 DEF Counts, PoolInv, Types
  <2>2. e.bad = quarantined \cup blamed
    BY <1>3, <1>4
  <2>3. QED  BY <1>1, <1>6, <1>8, <2>1, <2>2, Trips
<1>9. CASE ~LastStraw(s) /\ Charge(s)
  <2>1. /\ recovery' = [recovery EXCEPT ![s] = IF Spent(s) THEN "dropping" ELSE "removing"]
        /\ jobs' = q.jobs /\ job' = q.job /\ busy' = busy \ {s}
        /\ worker' = [worker EXCEPT ![s] = "none"] /\ quarantined' = q.bad
        /\ UNCHANGED <<active, activeWorkers, outcome, broken, aborted>>
    <3>1. worker' = [e.worker EXCEPT ![s] = "none"]
      BY <1>5, <1>9
    <3>2. worker' = [worker EXCEPT ![s] = "none"]
      <4>1. worker \in [Slots -> WorkerStates]
        BY DeskFields DEF PoolInv, Types, Desks
      <4>2. QED  BY <1>4, <3>1, <4>1
    <3>3. QED  BY <1>4, <1>5, <1>9, <3>2
  <2>2. recovery \in [Slots -> {"none", "removing", "dropping", "spawning", "killing"}]
    BY DEF PoolInv, Types, Counts
  <2>3. /\ respawns' \in [Slots -> 0..maxRespawnsPerSlot + 1]
        /\ \A t \in Slots \ {s} : respawns'[t] = respawns[t]
        /\ ~Spent(s) => ~(respawns'[s] > maxRespawnsPerSlot)
    BY <1>1, <1>9, Charged
  <2>4. Counts'
    BY <1>7, <2>1, <2>2, <2>3 DEF Counts
  <2>5. Recovering' = Recovering \cup {s}
    BY <2>1, <2>2 DEF Recovering
  <2>6. Budgets'
    <3>1. \A t \in Slots : respawns'[t] > maxRespawnsPerSlot =>
                               t \notin active' \/ recovery'[t] = "dropping"
      BY <2>1, <2>2, <2>3 DEF PoolInv, Budgets
    <3>2. QED  BY <1>7, <1>9, <3>1 DEF Budgets
  <2> DEFINE e2 == [jobs |-> q.jobs, job |-> q.job, busy |-> busy \ {s}, count |-> activeWorkers,
                    worker |-> [worker EXCEPT ![s] = "none"], active |-> active, bad |-> q.bad]
  <2>7. e2 \in Desks /\ Desk' = e2
    <3>1. e2 \in Desks
      BY <1>3 DEF Desks, WorkerStates
    <3>2. QED  BY <2>1, <3>1 DEF Desk
  <2>8. PICK front \in Seq(Jobs) : Return(round, Desk, q, s, front, blamed)
    BY <1>3
  <2>9. Return(round, Desk, e2, s, front, blamed)
    <3>1. e2.jobs = q.jobs /\ e2.job = q.job /\ e2.bad = q.bad
      OBVIOUS
    <3> HIDE DEF e2
    <3>2. QED  BY <2>8, <3>1, SameReturn
  <2>10. /\ e2.busy = busy \ {s} /\ e2.count = activeWorkers /\ e2.active = active
         /\ e2.worker = [worker EXCEPT ![s] = "none"]
    OBVIOUS
  <2> HIDE DEF e2
  <2>11. UNCHANGED <<startupVars, terminated, round, broken, aborted>> /\ outcome' = outcome
         /\ results' = results
    BY <1>1, <2>1
  <2>12. QED
    BY <1>1, <1>3, <2>4, <2>5, <2>6, <2>7, <2>9, <2>10, <2>11, Retires
<1>10. QED  BY <1>5, <1>8, <1>9

\* The desk d of a timeout: the job of s is returned, and its worker retired.
TimeoutDesk(d, s, front, blamed) ==
    /\ d \in Desks /\ Return(round, Desk, d, s, front, blamed)
    /\ d.worker = [worker EXCEPT ![s] = "none"] /\ d.count = activeWorkers
    /\ (d.busy = busy \/ d.busy = busy \ {s}) /\ d.active = active
    /\ blamed \in SUBSET job[s].files /\ (blamed = {} \/ \E f : blamed = {f})

\* The slot has no respawn left and leaves the rotation at once.
LEMMA Spends ==
  ASSUME PoolInv, NEW s \in Slots, job[s] # NoJob, NEW d, NEW front \in Seq(Jobs), NEW blamed,
         TimeoutDesk(d, s, front, blamed), Fail(s), Charge(s), ~LastStraw(s),
         GoOnWithout(d, s), UNCHANGED <<startupVars, terminated, results, round, recovery>>
  PROVE  PoolInv' /\ [Dispatch!Next]_(Dispatch!vars)
<1>1. /\ outcome = "running" /\ s \in AtWork(Desk) /\ recovery[s] = "none" /\ Desk \in Desks
      /\ Spread(round, Desk, results) /\ Staffed(Desk, Recovering)
  BY SlotWithJob
<1>2. /\ d \in Desks /\ Return(round, Desk, d, s, front, blamed)
      /\ d.worker = [worker EXCEPT ![s] = "none"] /\ d.count = activeWorkers
      /\ (d.busy = busy \/ d.busy = busy \ {s}) /\ d.active = active
      /\ blamed \in SUBSET job[s].files /\ (blamed = {} \/ \E f : blamed = {f})
  BY DEF TimeoutDesk
<1>3. /\ worker \in [Slots -> WorkerStates] /\ job \in [Slots -> Jobs \cup {NoJob}]
      /\ results \in SUBSET Results
  BY <1>1, DeskFields DEF Desks, PoolInv, Types, Settling
<1>4. /\ AtWork(d) = AtWork(Desk) \ {s} /\ Spread(round, d, results)
      /\ Owed(d) = Owed(Desk) \ blamed /\ blamed \subseteq Owed(Desk)
  <2> DEFINE b == Desk
             res == results
             r == round
  <2>1. /\ res \in SUBSET Results /\ b \in Desks /\ s \in AtWork(b) /\ front \in Seq(Jobs)
        /\ blamed \in SUBSET b.job[s].files /\ Return(r, b, d, s, front, blamed)
        /\ Spread(r, b, res)
    BY <1>1, <1>2, <1>3, DeskFields
  <2> HIDE DEF res, b, r
  <2>2. /\ AtWork(d) = AtWork(b) \ {s} /\ Spread(r, d, res)
        /\ Owed(d) = Owed(b) \ blamed /\ blamed \subseteq Owed(b)
    BY ONLY <2>1, Returned, SMTT(30)
  <2>3. QED  BY <2>2 DEF b, res, r
<1>5. /\ respawns' \in [Slots -> 0..maxRespawnsPerSlot + 1]
      /\ \A t \in Slots \ {s} : respawns'[t] = respawns[t]
      /\ consecutive' \in [Slots -> 0..consecutiveFailureThreshold]
      /\ \A t \in Slots : consecutive'[t] < consecutiveFailureThreshold
  BY Charged, Failed
<1>6. Counts'
  BY <1>5 DEF PoolInv, Types, Counts
<1>7. \A t \in Slots \ {s} : respawns'[t] > maxRespawnsPerSlot =>
                                 t \notin d.active \/ recovery'[t] = "dropping"
  BY <1>2, <1>5 DEF PoolInv, Budgets
<1> DEFINE l == Drop(d, s)
           e == Leave(l, s)
<1>8. /\ l \in Desks /\ l.jobs = d.jobs /\ l.job = d.job /\ l.bad = d.bad
      /\ l.active = d.active \ {s} /\ l.count = d.count /\ l.busy = d.busy
      /\ l.worker = d.worker
  BY <1>2 DEF Drop, Desks
<1> HIDE DEF l
<1>9. /\ e \in Desks /\ e.jobs = d.jobs /\ e.job = d.job /\ e.bad = d.bad
      /\ e.active = d.active \ {s} /\ e.count = d.count - 1 /\ e.busy = d.busy \ {s}
      /\ e.worker = d.worker
  BY <1>8, LeftDesk
<1> HIDE DEF e
<1>10. Recovering' = Recovering /\ Recovering = Recovering \ {s} /\ Recovering \in SUBSET Slots
  BY <1>1 DEF Recovering
<1>11. Staffed(e, Recovering')
  <2> DEFINE b == Desk
             rec == Recovering
  <2>1. AtWork(e) = AtWork(b) \ {s}
    BY <1>4, <1>9 DEF AtWork
  <2>2. \A t \in AtWork(e) : e.job[t] = b.job[t]
    BY <1>2, <1>3, <1>9, <2>1, DeskFields DEF Return, AtWork
  <2>3. \A t \in Slots \ {s} : e.worker[t] = b.worker[t]
    BY <1>2, <1>3, <1>9, DeskFields
  <2>4. e.worker[s] # "busy"
    BY <1>2, <1>3, <1>9
  <2>5. /\ e.count = b.count - 1 /\ e.busy = b.busy \ {s} /\ e.active = b.active \ {s}
    BY <1>2, <1>9, DeskFields
  <2>6. /\ rec \in SUBSET Slots /\ b \in Desks /\ Staffed(b, rec)
        /\ s \in AtWork(b) \cup rec /\ rec = rec \ {s}
    BY <1>1, <1>10
  <2> HIDE DEF b, rec
  <2>7. Staffed(e, rec)
    BY ONLY <2>1, <2>2, <2>3, <2>4, <2>5, <2>6, Released
  <2>8. QED  BY <1>10, <2>7 DEF rec
<1>12. Staffed(Leave(Drop(d, s), s), Recovering')
  BY <1>11 DEF e, l
<1>13. d.bad = quarantined \cup blamed
  BY <1>2, DeskFields DEF Return
<1>14. UNCHANGED <<startupVars, terminated, round>> /\ results' = results
  OBVIOUS
<1>15. QED
  BY <1>1, <1>2, <1>4, <1>5, <1>6, <1>7, <1>12, <1>13, <1>14, GoesOn

\* The slot has a respawn left and waits for its new worker.
LEMMA Replaces ==
  ASSUME PoolInv, NEW s \in Slots, job[s] # NoJob, NEW d, NEW front \in Seq(Jobs), NEW blamed,
         TimeoutDesk(d, s, front, blamed), Fail(s), Charge(s), ~LastStraw(s), ~Spent(s),
         Respawn(d, s), UNCHANGED <<startupVars, terminated, results, round>>
  PROVE  PoolInv' /\ [Dispatch!Next]_(Dispatch!vars)
<1>1. outcome = "running" /\ s \in AtWork(Desk)
  BY SlotWithJob
<1>2. /\ d \in Desks /\ Return(round, Desk, d, s, front, blamed)
      /\ d.worker = [worker EXCEPT ![s] = "none"] /\ d.count = activeWorkers
      /\ (d.busy = busy \/ d.busy = busy \ {s}) /\ d.active = active
      /\ blamed \in SUBSET job[s].files /\ (blamed = {} \/ \E f : blamed = {f})
  BY DEF TimeoutDesk
<1>3. /\ recovery' = [recovery EXCEPT ![s] = "spawning"]
      /\ jobs' = d.jobs /\ job' = d.job /\ busy' = d.busy /\ worker' = d.worker
      /\ quarantined' = d.bad
      /\ UNCHANGED <<active, activeWorkers, outcome, broken, aborted>>
  BY DEF Respawn
<1>4. Desk' = d
  BY <1>2, <1>3 DEF Desk, Desks
<1>5. recovery \in [Slots -> {"none", "removing", "dropping", "spawning", "killing"}]
  BY DEF PoolInv, Types, Counts
<1>6. Recovering' = Recovering \cup {s}
  BY <1>3, <1>5 DEF Recovering
<1>7. /\ respawns' \in [Slots -> 0..maxRespawnsPerSlot + 1]
      /\ \A t \in Slots \ {s} : respawns'[t] = respawns[t]
      /\ ~(respawns'[s] > maxRespawnsPerSlot)
      /\ consecutive' \in [Slots -> 0..consecutiveFailureThreshold]
      /\ \A t \in Slots : consecutive'[t] < consecutiveFailureThreshold
  BY Charged, Failed
<1>8. Counts'
  BY <1>3, <1>5, <1>7 DEF Counts
<1>9. Budgets'
  BY <1>3, <1>5, <1>7 DEF PoolInv, Budgets
<1>10. UNCHANGED <<startupVars, terminated, round, broken, aborted>> /\ outcome' = outcome
       /\ results' = results
  BY <1>3
<1>11. QED
  BY <1>1, <1>2, <1>4, <1>6, <1>8, <1>9, <1>10, Retires

\* The desk of a retry: nobody is blamed.
LEMMA RetryDesk ==
  ASSUME PoolInv, NEW s \in Slots, job[s] # NoJob
  PROVE  LET d == Retire([Desk EXCEPT !.jobs = Retried(s) \o @, !.job[s] = NoJob], s)
         IN  Retried(s) \in Seq(Jobs) /\ TimeoutDesk(d, s, Retried(s), {})
<1> DEFINE Q == Retried(s) \o jobs
           H == [job EXCEPT ![s] = NoJob]
           W == [worker EXCEPT ![s] = "none"]
           d == Retire([Desk EXCEPT !.jobs = Retried(s) \o @, !.job[s] = NoJob], s)
<1>1. /\ s \in AtWork(Desk) /\ Desk \in Desks /\ round \in DOMAIN Rounds
      /\ Spread(round, Desk, results)
  BY SlotWithJob
<1>2. d = [Desk EXCEPT !.jobs = Q, !.job = H, !.worker = W]
  BY DeskFields DEF Retire, Desk
<1> HIDE DEF Q, H, W, d
<1>3. /\ d.jobs = Q /\ d.job = H /\ d.bad = quarantined /\ d.busy = busy
      /\ d.count = activeWorkers /\ d.worker = W /\ d.active = active
  BY <1>2 DEF Desk
<1>4. Retried(s) \in Seq(Jobs) /\ Return(round, Desk, d, s, Retried(s), {})
  <2>1. d.jobs = Retried(s) \o jobs /\ d.job = [job EXCEPT ![s] = NoJob] /\ d.bad = quarantined
    BY <1>3 DEF Q, H
  <2>2. QED  BY <1>1, <2>1, RetryReturns
<1>5. d \in Desks
  <2>1. Q \in Seq(Jobs)
    BY <1>1, <1>4, DeskFields, ConcatProperties DEF Desks, Q
  <2>2. H \in [Slots -> Jobs \cup {NoJob}] /\ W \in [Slots -> WorkerStates]
    BY <1>1, DeskFields DEF Desks, H, W, WorkerStates
  <2>3. QED  BY <1>1, <1>2, <2>1, <2>2 DEF Desks
<1>6. TimeoutDesk(d, s, Retried(s), {})
  BY <1>3, <1>4, <1>5 DEF TimeoutDesk, W
<1>7. QED  BY <1>4, <1>6 DEF d

\* The desk of a job that is given up names one file, or none.
LEMMA GiveUpDesk ==
  ASSUME PoolInv, NEW s \in Slots, job[s] # NoJob, NEW file \in job[s].files
  PROVE  LET d == [Requeue(Desk, s, {file}) EXCEPT !.busy = @ \ {s}]
         IN  \E front \in Seq(Jobs), blamed \in SUBSET job[s].files :
                 TimeoutDesk(Retire(d, s), s, front, blamed) /\ d.bad = quarantined \cup blamed
<1> DEFINE q == Requeue(Desk, s, {file})
           blamed == Blamed(job[s], {file})
           d == [q EXCEPT !.busy = @ \ {s}]
           W == [worker EXCEPT ![s] = "none"]
           e == Retire(d, s)
<1>1. /\ q \in Desks /\ q.busy = busy /\ q.count = activeWorkers
      /\ q.worker = worker /\ q.active = active /\ q.bad = quarantined \cup blamed
      /\ blamed \in SUBSET job[s].files /\ (blamed = {} \/ \E f : blamed = {f})
      /\ \E front \in Seq(Jobs) : Return(round, Desk, q, s, front, blamed)
  <2>1. {file} \in SUBSET job[s].files /\ \E f : {file} = {f}
    OBVIOUS
  <2>2. QED  BY <2>1, Requeued
<1> HIDE DEF q, blamed
<1>2. PICK front \in Seq(Jobs) : Return(round, Desk, q, s, front, blamed)
  BY <1>1
<1>3. /\ d \in Desks /\ d.busy = busy \ {s} /\ d.jobs = q.jobs /\ d.job = q.job
      /\ d.bad = q.bad /\ d.count = q.count /\ d.worker = q.worker /\ d.active = q.active
  BY <1>1 DEF Desks
<1>4. W \in [Slots -> WorkerStates]
  BY <1>1 DEF Desks, WorkerStates
<1>5. e = [d EXCEPT !.worker = W]
  BY <1>1, <1>3 DEF Retire
<1> HIDE DEF d, W, e
<1>6. /\ e \in Desks /\ e.busy = busy \ {s} /\ e.jobs = q.jobs /\ e.job = q.job
      /\ e.bad = q.bad /\ e.count = q.count /\ e.worker = W /\ e.active = q.active
  BY <1>3, <1>4, <1>5 DEF Desks
<1>7. Return(round, Desk, e, s, front, blamed)
  BY <1>2, <1>6, SameReturn
<1>8. TimeoutDesk(e, s, front, blamed)
  BY <1>1, <1>6, <1>7 DEF TimeoutDesk, W
<1>9. d.bad = quarantined \cup blamed
  BY <1>1, <1>3
<1>10. QED  BY <1>1, <1>8, <1>9 DEF e, d, q

\* The breaker trips on the desk of a timeout.
LEMMA LastTimeout ==
  ASSUME PoolInv, NEW s \in Slots, job[s] # NoJob, NEW d, NEW blamed \in SUBSET job[s].files,
         d.bad = quarantined \cup blamed, TripBreaker(d), Fail(s), Charge(s) \/ UNCHANGED respawns,
         UNCHANGED <<startupVars, terminated, results, round, recovery>>
  PROVE  PoolInv' /\ [Dispatch!Next]_(Dispatch!vars)
<1>1. outcome = "running" /\ s \in AtWork(Desk)
  BY SlotWithJob
<1>2. blamed \in SUBSET Owed(Desk)
  BY <1>1, BlamedOwed
<1>3. consecutive' \in [Slots -> 0..consecutiveFailureThreshold]
  BY Failed
<1>4. respawns' \in [Slots -> 0..maxRespawnsPerSlot + 1]
  BY Charged DEF PoolInv, Types, Counts
<1>5. Counts'
  BY <1>3, <1>4 DEF PoolInv, Types, Counts
<1>6. UNCHANGED <<startupVars, terminated, round, results>>
  OBVIOUS
<1>7. QED  BY <1>1, <1>2, <1>5, <1>6, Trips

\* A job that was not heard of is split or tried again.
LEMMA RetryStep ==
  ASSUME PoolInv, NEW s \in Slots, TimeoutRetry(s)
  PROVE  PoolInv' /\ [Dispatch!Next]_(Dispatch!vars)
<1> DEFINE d == Retire([Desk EXCEPT !.jobs = Retried(s) \o @, !.job[s] = NoJob], s)
           front == Retried(s)
<1>1. /\ job[s] # NoJob /\ Fail(s) /\ Charge(s)
      /\ UNCHANGED <<startupVars, terminated, results, round>>
  BY Zenon DEF TimeoutRetry, TimedOut
<1>2. \/ /\ LastStraw(s)
         /\ TripBreaker(d)
         /\ UNCHANGED recovery
      \/ /\ ~LastStraw(s) /\ Spent(s)
         /\ GoOnWithout(d, s)
         /\ UNCHANGED recovery
      \/ /\ ~LastStraw(s) /\ ~Spent(s)
         /\ Respawn(d, s)
  <2>1. \E e \in {d} :
           \/ /\ LastStraw(s)
              /\ TripBreaker(e)
              /\ UNCHANGED recovery
           \/ /\ ~LastStraw(s) /\ Spent(s)
              /\ GoOnWithout(e, s)
              /\ UNCHANGED recovery
           \/ /\ ~LastStraw(s) /\ ~Spent(s)
              /\ Respawn(e, s)
    BY Zenon DEF TimeoutRetry
  <2> HIDE DEF d
  <2>2. QED  BY <2>1
<1>3. front \in Seq(Jobs) /\ TimeoutDesk(d, s, front, {})
  BY <1>1, RetryDesk
<1> HIDE DEF d, front
<1>4. CASE LastStraw(s) /\ TripBreaker(d) /\ UNCHANGED recovery
  <2>1. d.bad = quarantined \cup {} /\ {} \in SUBSET job[s].files
    BY <1>3, DeskFields DEF TimeoutDesk, Return
  <2>2. QED  BY <1>1, <1>4, <2>1, LastTimeout
<1>5. CASE ~LastStraw(s) /\ Spent(s) /\ GoOnWithout(d, s) /\ UNCHANGED recovery
  BY <1>1, <1>3, <1>5, Spends
<1>6. CASE ~LastStraw(s) /\ ~Spent(s) /\ Respawn(d, s)
  BY <1>1, <1>3, <1>6, Replaces
<1>7. QED  BY <1>2, <1>4, <1>5, <1>6

\* A job that was not heard of too often loses one file.
LEMMA GiveUpStep ==
  ASSUME PoolInv, NEW s \in Slots, TimeoutGiveUp(s)
  PROVE  PoolInv' /\ [Dispatch!Next]_(Dispatch!vars)
<1>1. /\ job[s] # NoJob /\ Fail(s)
      /\ UNCHANGED <<startupVars, terminated, results, round>>
  BY Zenon DEF TimeoutGiveUp, TimedOut
<1>2. PICK file \in job[s].files :
           \E d \in {[Requeue(Desk, s, {file}) EXCEPT !.busy = @ \ {s}]} :
               \/ /\ LastStraw(s)
                  /\ TripBreaker(d)
                  /\ UNCHANGED <<respawns, recovery>>
               \/ /\ ~LastStraw(s) /\ Spent(s)
                  /\ Charge(s)
                  /\ GoOnWithout(Retire(d, s), s)
                  /\ UNCHANGED recovery
               \/ /\ ~LastStraw(s) /\ ~Spent(s)
                  /\ Charge(s)
                  /\ Respawn(Retire(d, s), s)
  BY Zenon DEF TimeoutGiveUp
<1> DEFINE d == [Requeue(Desk, s, {file}) EXCEPT !.busy = @ \ {s}]
           e == Retire(d, s)
<1>3. \/ /\ LastStraw(s)
         /\ TripBreaker(d)
         /\ UNCHANGED <<respawns, recovery>>
      \/ /\ ~LastStraw(s) /\ Spent(s)
         /\ Charge(s)
         /\ GoOnWithout(e, s)
         /\ UNCHANGED recovery
      \/ /\ ~LastStraw(s) /\ ~Spent(s)
         /\ Charge(s)
         /\ Respawn(e, s)
  <2> HIDE DEF d
  <2>1. \E x \in {d} :
           \/ /\ LastStraw(s)
              /\ TripBreaker(x)
              /\ UNCHANGED <<respawns, recovery>>
           \/ /\ ~LastStraw(s) /\ Spent(s)
              /\ Charge(s)
              /\ GoOnWithout(Retire(x, s), s)
              /\ UNCHANGED recovery
           \/ /\ ~LastStraw(s) /\ ~Spent(s)
              /\ Charge(s)
              /\ Respawn(Retire(x, s), s)
    BY <1>2, Zenon DEF d
  <2>2. QED  BY <2>1
<1>4. PICK front \in Seq(Jobs), blamed \in SUBSET job[s].files :
          TimeoutDesk(e, s, front, blamed) /\ d.bad = quarantined \cup blamed
  BY <1>1, GiveUpDesk
<1> HIDE DEF d, e
<1>5. CASE LastStraw(s) /\ TripBreaker(d) /\ UNCHANGED <<respawns, recovery>>
  <2>1. UNCHANGED respawns /\ UNCHANGED recovery
    BY <1>5
  <2>2. QED  BY <1>1, <1>4, <1>5, <2>1, LastTimeout
<1>6. CASE ~LastStraw(s) /\ Spent(s) /\ Charge(s) /\ GoOnWithout(e, s) /\ UNCHANGED recovery
  BY <1>1, <1>4, <1>6, Spends
<1>7. CASE ~LastStraw(s) /\ ~Spent(s) /\ Charge(s) /\ Respawn(e, s)
  BY <1>1, <1>4, <1>7, Replaces
<1>8. QED  BY <1>3, <1>5, <1>6, <1>7

-----------------------------------------------------------------------------
(* What a worker posts, and what it does unheard.                          *)

\* A result is delivered, and the slot takes the next job.
LEMMA ResultStep ==
  ASSUME PoolInv, NEW s \in Slots, Result(s)
  PROVE  PoolInv' /\ [Dispatch!Next]_(Dispatch!vars)
<1> DEFINE p == Piece(job[s])
           b == Desk
           r == round
           res == results
           rec == Recovering
           H == [job EXCEPT ![s] = NoJob]
           d == [Desk EXCEPT !.job[s] = NoJob, !.busy = @ \ {s}, !.count = @ - 1]
<1>1. /\ job[s] # NoJob /\ worker[s] = "parked"
      /\ results' = results \cup {[start |-> job[s].start, files |-> job[s].files]}
      /\ consecutive' = [consecutive EXCEPT ![s] = 0]
      /\ Commit(RunWorkers(d, <<s>>))
      /\ UNCHANGED <<startupVars, terminated, recovery, round, respawns, broken, aborted>>
  BY DEF Result
<1>2. /\ outcome = "running" /\ s \in AtWork(b) /\ recovery[s] = "none" /\ ~broken
      /\ job[s] \in Jobs /\ b \in Desks /\ Spread(r, b, res) /\ Staffed(b, rec)
  BY <1>1, SlotWithJob
<1>3. res \in SUBSET Results /\ p \in Results
  BY <1>2, AJob DEF PoolInv, Types, Settling
<1>4. /\ worker \in [Slots -> WorkerStates] /\ job \in [Slots -> Jobs \cup {NoJob}]
      /\ busy \in SUBSET Slots /\ activeWorkers \in Int
      /\ recovery \in [Slots -> {"none", "removing", "dropping", "spawning", "killing"}]
      /\ consecutive \in [Slots -> 0..consecutiveFailureThreshold]
  BY <1>2, DeskFields DEF Desks, PoolInv, Types, Counts
<1>5. /\ d = [Desk EXCEPT !.job = H, !.busy = busy \ {s}, !.count = activeWorkers - 1]
      /\ H \in [Slots -> Jobs \cup {NoJob}] /\ busy \ {s} \in SUBSET Slots
      /\ activeWorkers - 1 \in Int
  BY <1>4, DeskFields DEF Desk
<1> HIDE DEF H
<1>6. /\ d \in Desks /\ d.jobs = jobs /\ d.job = H /\ d.bad = quarantined
      /\ d.busy = busy \ {s} /\ d.count = activeWorkers - 1 /\ d.worker = worker
      /\ d.active = active
  BY <1>2, <1>5, DeskFields DEF Desks
<1>7. /\ AtWork(d) = AtWork(b) \ {s} /\ \A t \in AtWork(d) : d.job[t] = b.job[t]
      /\ Spread(r, d, res \cup {Piece(b.job[s])})
      /\ Owed(d) = Owed(b) \ b.job[s].files
      /\ b.job[s].files \in SUBSET Owed(b) /\ b.job[s].files # {}
  <2>1. d.jobs = b.jobs /\ d.job = [b.job EXCEPT ![s] = NoJob] /\ d.bad = b.bad
    BY <1>6, DeskFields DEF H
  <2> HIDE DEF b, r, res, d
  <2>2. QED  BY ONLY <1>2, <2>1, DeliveredSpread
<1>8. b.job[s].files = job[s].files /\ Piece(b.job[s]) = p /\ results' = res \cup {p}
  BY <1>1, DeskFields DEF Piece
<1>9. Recovering' = rec /\ rec \in SUBSET Slots /\ rec = rec \ {s}
  BY <1>1, <1>2 DEF Recovering
<1>10. Staffed(d, rec)
  <2>1. /\ d.count = b.count - 1 /\ d.busy = b.busy \ {s} /\ d.active = b.active
        /\ (\A t \in Slots \ {s} : d.worker[t] = b.worker[t]) /\ d.worker[s] # "busy"
        /\ d.worker[s] # "none" /\ s \in AtWork(b) \cup rec /\ s \in Slots
    BY <1>1, <1>2, <1>6, DeskFields
  <2> HIDE DEF b, d, rec
  <2>2. QED  BY ONLY <1>2, <1>7, <1>9, <2>1, Released
<1>11. Idle(d, <<s>>)
  <2>1. s \in d.active \ d.busy /\ d.worker[s] # "none"
    BY <1>1, <1>2, <1>6, SlotWithJob
  <2> HIDE DEF d
  <2>2. 1 \in DOMAIN <<s>> /\ <<s>>[1] = s
    OBVIOUS
  <2>3. QED  BY <2>1, <2>2 DEF Idle
<1> HIDE DEF d, p
<1>12. Counts'
  BY <1>1, <1>4, PoolAssumption DEF PoolInv, Types, Counts
<1>13. \A t \in Slots : consecutive'[t] < consecutiveFailureThreshold
  BY <1>1, <1>2, <1>4, PoolAssumption DEF PoolInv, Budgets
<1>14. \A t \in Slots : respawns'[t] > maxRespawnsPerSlot =>
                            t \notin d.active \/ recovery'[t] = "dropping"
  BY <1>1, <1>6 DEF PoolInv, Budgets
<1>15. <<s>> \in Seq(Slots) /\ IsInjective(<<s>>)
  BY Orders
<1>16. Spread(round, d, results') /\ Staffed(d, Recovering') /\ results' \in SUBSET Results
  BY <1>3, <1>7, <1>8, <1>9, <1>10
<1>17. /\ PoolInv'
       /\ \E e \in Desks : /\ Desk' = e /\ Staffed(e, Recovering') /\ Owed(e) = Owed(d)
                           /\ e.bad = d.bad
                           /\ \/ outcome' = "running"
                              \/ outcome' = "resolved" /\ e.jobs = <<>> /\ e.count = 0
  <2>1. UNCHANGED <<startupVars, terminated, round, broken, aborted>>
    BY <1>1
  <2>2. QED
    BY <1>1, <1>2, <1>6, <1>11, <1>12, <1>13, <1>14, <1>15, <1>16, <2>1, Commits
<1>18. PICK e \in Desks : /\ Desk' = e /\ Staffed(e, Recovering') /\ Owed(e) = Owed(d)
                          /\ e.bad = d.bad
                          /\ \/ outcome' = "running"
                             \/ outcome' = "resolved" /\ e.jobs = <<>> /\ e.count = 0
  BY <1>17
<1>19. Dispatch!Deliver
  <2>1. /\ (InJobs \cup InSlots)' = (InJobs \cup InSlots) \ job[s].files
        /\ job[s].files \in (SUBSET (InJobs \cup InSlots)) \ {{}}
    <3>1. (InJobs \cup InSlots)' = Owed(e)
      BY <1>18 DEF InJobs, InSlots, Owed, Desk, AtWork
    <3>2. InJobs \cup InSlots = Owed(b)
      BY Todo
    <3>3. Owed(e) = Owed(b) \ job[s].files /\ job[s].files \in SUBSET Owed(b)
          /\ job[s].files # {}
      BY <1>7, <1>8, <1>18
    <3> HIDE DEF b
    <3>4. QED  BY ONLY <3>1, <3>2, <3>3
  <2>2. Delivered' = Delivered \cup job[s].files
    BY <1>8 DEF Delivered, p, Piece
  <2>3. quarantined' = quarantined
    BY <1>6, <1>18, DeskFields DEF Desk
  <2>4. ASSUME outcome' = "resolved" PROVE (InJobs \cup InSlots)' = {}
    <3>1. Owed(e) = {}
      BY <1>9, <1>18, <2>4, NobodyLeft
    <3>2. (InJobs \cup InSlots)' = Owed(e)
      BY <1>18 DEF InJobs, InSlots, Owed, Desk, AtWork
    <3>3. QED  BY <3>1, <3>2
  <2>5. QED  BY <1>2, <1>18, <2>1, <2>2, <2>3, <2>4 DEF Dispatch!Deliver
<1>20. QED  BY <1>17, <1>19 DEF Dispatch!Next

\* A worker hands its files over, and waits for the flush.
LEMMA FlushStep ==
  ASSUME PoolInv, NEW s \in Slots, SubBatchDone(s)
  PROVE  PoolInv' /\ [Dispatch!Next]_(Dispatch!vars)
<1> DEFINE H == [job EXCEPT ![s].phase = "flushing"]
           W == [worker EXCEPT ![s] = "parked"]
           e == [jobs |-> jobs, job |-> H, busy |-> busy, count |-> activeWorkers,
                 worker |-> W, active |-> active, bad |-> quarantined]
<1>1. /\ job[s] # NoJob /\ job' = H /\ worker' = W
      /\ UNCHANGED <<active, startupVars, terminated, jobs, recovery, busy, activeWorkers,
                     results, round, poolVars, outcome, aborted>>
  BY DEF SubBatchDone
<1>2. /\ outcome = "running" /\ s \in AtWork(Desk) /\ job[s] \in Jobs /\ Desk \in Desks
      /\ Spread(round, Desk, results) /\ Staffed(Desk, Recovering)
  BY <1>1, SlotWithJob
<1>3. job \in [Slots -> Jobs \cup {NoJob}] /\ worker \in [Slots -> WorkerStates]
  BY <1>2, DeskFields DEF Desks
<1>4. /\ H[s] = [job[s] EXCEPT !.phase = "flushing"] /\ \A t \in Slots \ {s} : H[t] = job[t]
      /\ W[s] = "parked" /\ \A t \in Slots \ {s} : W[t] = worker[t]
      /\ W \in [Slots -> WorkerStates]
  BY <1>3 DEF WorkerStates
<1>5. H[s] \in Jobs /\ H[s].phase = "flushing" /\ Piece(H[s]) = Piece(job[s])
      /\ H[s].files = job[s].files /\ H[s] # NoJob
  <2>1. H[s] \in Jobs /\ H[s].phase = "flushing" /\ H[s].start = job[s].start
        /\ H[s].files = job[s].files
    BY <1>2, <1>4 DEF Jobs, Phases
  <2>2. QED  BY <2>1, AJob DEF Piece
<1>6. H \in [Slots -> Jobs \cup {NoJob}]
  BY <1>3, <1>5
<1> HIDE DEF H, W
<1>7. /\ e \in Desks /\ Desk' = e /\ e.jobs = jobs /\ e.job = H /\ e.busy = busy
      /\ e.count = activeWorkers /\ e.worker = W /\ e.active = active /\ e.bad = quarantined
  <2>1. /\ e \in Desks /\ e.jobs = jobs /\ e.job = H /\ e.busy = busy
        /\ e.count = activeWorkers /\ e.worker = W /\ e.active = active /\ e.bad = quarantined
    BY <1>2, <1>4, <1>6, DeskFields DEF Desks
  <2>2. Desk' = e
    <3>1. /\ jobs' = jobs /\ job' = H /\ busy' = busy /\ activeWorkers' = activeWorkers
          /\ worker' = W /\ active' = active /\ quarantined' = quarantined
      BY <1>1 DEF poolVars
    <3>2. QED  BY <3>1 DEF Desk
  <2>3. QED  BY <2>1, <2>2
<1> HIDE DEF e
<1>8. AtWork(e) = AtWork(Desk) /\ \A t \in AtWork(Desk) :
          Piece(e.job[t]) = Piece(job[t]) /\ e.job[t].files = job[t].files
  BY <1>2, <1>4, <1>5, <1>7, DeskFields DEF AtWork
<1>9. Spread(round, e, results) /\ Owed(e) = Owed(Desk)
  BY <1>2, <1>7, <1>8, DeskFields DEF Spread, Owed
<1>10. Recovering' = Recovering
  BY <1>1 DEF Recovering
<1>11. Staffed(e, Recovering')
  <2>1. \A t \in AtWork(e) : e.worker[t] # "none" /\ e.job[t].phase # "queued"
    <3> SUFFICES ASSUME NEW t \in AtWork(e)
                 PROVE  e.worker[t] # "none" /\ e.job[t].phase # "queued"
      OBVIOUS
    <3>1. t \in Slots /\ worker[t] # "none" /\ job[t].phase # "queued"
      BY <1>2, <1>8, DeskFields DEF Staffed, AtWork
    <3>2. CASE t = s
      BY <1>4, <1>5, <1>7, <3>2
    <3>3. CASE t # s
      BY <1>4, <1>7, <3>1, <3>3
    <3>4. QED  BY <3>2, <3>3
  <2>2. \A t \in Slots : e.worker[t] = "busy" => t \in AtWork(e)
    BY <1>2, <1>4, <1>7, <1>8, DeskFields DEF Staffed
  <2>3. \A t \in Recovering : e.worker[t] = "none"
    BY <1>2, <1>4, <1>7, DeskFields DEF Staffed, Recovering
  <2>4. \A t \in e.active : e.worker[t] = "none" => t \in Recovering
    <3>1. e.active \subseteq Slots
      BY <1>7 DEF Desks
    <3>2. QED  BY <1>2, <1>4, <1>7, <3>1, DeskFields DEF Staffed
  <2>5. QED  BY <1>2, <1>7, <1>8, <1>10, <2>1, <2>2, <2>3, <2>4, DeskFields DEF Staffed
<1>12. Counts' /\ Budgets'
  BY <1>1 DEF PoolInv, Types, Counts, Budgets, poolVars
<1>13. PoolInv'
  <2>1. Spread(round, e, results') /\ results' \in SUBSET Results
    BY <1>1, <1>9 DEF PoolInv, Types, Settling
  <2>2. UNCHANGED <<startupVars, terminated, round, broken, aborted>> /\ outcome' = "running"
    BY <1>1, <1>2 DEF poolVars
  <2>3. e.count # 0
    BY <1>1, <1>7, SlotWithJob
  <2>4. QED  BY <1>2, <1>7, <1>11, <1>12, <2>1, <2>2, <2>3, Continues
<1>14. [Dispatch!Next]_(Dispatch!vars)
  <2>1. /\ {} \in SUBSET Owed(Desk) /\ Owed(e) = Owed(Desk) \ {}
        /\ quarantined' = quarantined \cup {} /\ results' = results /\ outcome' = "running"
    BY <1>1, <1>2, <1>9 DEF poolVars
  <2>2. QED  BY <1>2, <1>7, <1>11, <2>1, Advances
<1>15. QED  BY <1>13, <1>14

\* A dispatch at rest stays so while its queue and its slots are left alone.
LEMMA Rests ==
  ASSUME PoolInv, outcome # "running", outcome' # "running",
         UNCHANGED <<jobs, job, busy, activeWorkers, quarantined, results>>,
         \A t \in Slots : worker'[t] # "busy",
         \A t \in active' : boot'[t] # "dropped" /\ (boot'[t] = "ready" => worker'[t] # "none"),
         Recovering' \subseteq Recovering, broken' = broken
  PROVE  AtRest'
<1>1. AtRest
  BY DEF PoolInv
<1>2. AtWork(Desk)' = {}
  BY <1>1 DEF AtRest, AtWork, Desk
<1>3. QED  BY <1>1, <1>2 DEF AtRest

\* What the caller sees, when the queue, the slots and the outcome are left alone.
LEMMA Unseen ==
  ASSUME UNCHANGED <<jobs, job, quarantined, results, outcome>>
  PROVE  [Dispatch!Next]_(Dispatch!vars)
BY DEF Dispatch!vars, InJobs, InSlots, Delivered

\* A parked worker goes away.
LEMMA ExitStep ==
  ASSUME PoolInv, NEW s \in Slots, IdleExit(s)
  PROVE  PoolInv' /\ [Dispatch!Next]_(Dispatch!vars)
<1> DEFINE W == [worker EXCEPT ![s] = "dead"]
           e == [Desk EXCEPT !.worker = W]
<1>1. /\ worker[s] = "parked" /\ job[s] = NoJob /\ worker' = W
      /\ UNCHANGED <<jobs, job, recovery, busy, activeWorkers, results, round>>
      /\ UNCHANGED <<consecutive, respawns, quarantined, broken>>
      /\ UNCHANGED <<active, startupVars, terminated, outcome, aborted>>
  BY DEF IdleExit, dispatchVars, poolVars
<1>2. Desk \in Desks /\ worker \in [Slots -> WorkerStates]
  BY DeskFields DEF PoolInv, Types, Desks
<1>3. /\ W[s] = "dead" /\ \A t \in Slots \ {s} : W[t] = worker[t]
      /\ W \in [Slots -> WorkerStates]
  BY <1>2 DEF WorkerStates
<1> HIDE DEF W
<1>4. /\ e \in Desks /\ e.jobs = jobs /\ e.job = job /\ e.busy = busy
      /\ e.count = activeWorkers /\ e.worker = W /\ e.active = active /\ e.bad = quarantined
  BY <1>2, <1>3, DeskFields DEF Desks
<1>5. Desk' = e
  <2>1. e = [jobs |-> jobs, job |-> job, busy |-> busy, count |-> activeWorkers,
             worker |-> W, active |-> active, bad |-> quarantined]
    BY DEF Desk
  <2>2. QED  BY <1>1, <2>1 DEF Desk
<1> HIDE DEF e
<1>6. AtWork(e) = AtWork(Desk) /\ s \notin AtWork(Desk) /\ Recovering' = Recovering
  BY <1>1, <1>4, DeskFields DEF AtWork, Recovering
<1>7. Counts' /\ Budgets'
  BY <1>1 DEF PoolInv, Types, Counts, Budgets
<1>8. ASSUME outcome = "running" PROVE PoolInv'
  <2>1. Staffed(Desk, Recovering) /\ Spread(round, Desk, results)
    BY <1>8 DEF PoolInv
  <2>2. s \notin Recovering
    BY <1>1, <2>1, DeskFields DEF Staffed
  <2>3. Staffed(e, Recovering')
    <3>1. \A t \in Slots : e.worker[t] = "busy" => t \in AtWork(e)
      BY <1>3, <1>4, <1>6, <2>1, DeskFields DEF Staffed
    <3>2. \A t \in AtWork(e) : e.worker[t] # "none"
      BY <1>3, <1>4, <1>6, <2>1, DeskFields DEF Staffed, AtWork
    <3>3. \A t \in Recovering : e.worker[t] = "none"
      BY <1>3, <1>4, <2>1, <2>2, DeskFields DEF Staffed, Recovering
    <3>4. \A t \in e.active : e.worker[t] = "none" => t \in Recovering
      <4>1. e.active \subseteq Slots
        BY <1>4 DEF Desks
      <4>2. QED  BY <1>3, <1>4, <2>1, <4>1, DeskFields DEF Staffed
    <3>5. QED  BY <1>4, <1>6, <2>1, <3>1, <3>2, <3>3, <3>4, DeskFields DEF Staffed
  <2>4. Spread(round, e, results') /\ results' \in SUBSET Results
    <3>1. e.jobs = Desk.jobs /\ e.job = Desk.job /\ e.bad = Desk.bad
      BY <1>4, DeskFields
    <3>2. QED  BY <1>1, <2>1, <3>1, SamePieces DEF PoolInv, Types, Settling
  <2>5. UNCHANGED <<startupVars, terminated, round, broken, aborted>> /\ outcome' = "running"
    BY <1>1, <1>8
  <2>6. e.count # 0
    BY <1>4, <1>8 DEF PoolInv
  <2>7. QED  BY <1>4, <1>5, <1>7, <1>8, <2>3, <2>4, <2>5, <2>6, Continues
<1>9. ASSUME outcome # "running" PROVE PoolInv'
  <2>1. AtRest'
    <3>1. \A t \in Slots : worker'[t] # "busy"
      BY <1>1, <1>3, <1>9 DEF PoolInv, AtRest
    <3>2. \A t \in active' :
              boot'[t] # "dropped" /\ (boot'[t] = "ready" => worker'[t] # "none")
      <4>1. active \subseteq Slots
        BY <1>2, DeskFields DEF Desks
      <4>2. QED  BY <1>1, <1>3, <1>9, <4>1 DEF PoolInv, AtRest, startupVars
    <3>3. QED  BY <1>1, <1>6, <1>9, <3>1, <3>2, Rests
  <2>2. Types'
    BY <1>1, <1>4, <1>5, <1>7 DEF PoolInv, Types, Starting, Settling, startupVars
  <2>3. Stages'
    BY <1>1 DEF PoolInv, Stages, startupVars, GateSettled, InFlight
  <2>4. (outcome \in {"running", "resolved"} => Spread(round, Desk, results))'
    <3>1. e.jobs = Desk.jobs /\ e.job = Desk.job /\ e.bad = Desk.bad
      BY <1>4, DeskFields
    <3>2. ASSUME outcome = "resolved" PROVE Spread(round, e, results)
      BY <3>1, <3>2, SamePieces DEF PoolInv
    <3>3. QED  BY <1>1, <1>5, <1>9, <3>2
  <2>5. QED  BY <1>1, <1>7, <1>9, <2>1, <2>2, <2>3, <2>4 DEF PoolInv
<1>10. [Dispatch!Next]_(Dispatch!vars)
  BY <1>1, Unseen
<1>11. QED  BY <1>8, <1>9, <1>10

-----------------------------------------------------------------------------
(* The continuations of a recovery.                                        *)

\* The dispatch was rejected while a slot waited for its worker.
LEMMA StoppedStep ==
  ASSUME PoolInv, NEW s \in Slots, Stopped(s)
  PROVE  PoolInv' /\ [Dispatch!Next]_(Dispatch!vars)
<1>1. /\ recovery[s] # "none" /\ outcome # "running"
      /\ \E r \in {"none", "killing"} : recovery' = [recovery EXCEPT ![s] = r]
      /\ UNCHANGED <<worker, active, jobs, job, busy, activeWorkers, quarantined, outcome>>
      /\ UNCHANGED <<startupVars, terminated, consecutive, respawns, results, round, broken,
                     aborted>>
  BY DEF Stopped, Recovered, Untouched
<1>2. Desk' = Desk
  BY <1>1 DEF Desk
<1>3. recovery \in [Slots -> {"none", "removing", "dropping", "spawning", "killing"}]
  BY DEF PoolInv, Types, Counts
<1>4. /\ recovery' \in [Slots -> {"none", "removing", "dropping", "spawning", "killing"}]
      /\ \A t \in Slots \ {s} : recovery'[t] = recovery[t]
  BY <1>1, <1>3
<1>5. Recovering' \subseteq Recovering /\ s \in Recovering
  BY <1>1, <1>4 DEF Recovering
<1>6. AtRest /\ broken /\ active = {}
  BY <1>1, <1>5 DEF PoolInv, AtRest, Stages
<1>7. AtRest'
  BY <1>1, <1>5, <1>6, Rests DEF AtRest
<1>8. Types'
  BY <1>1, <1>2, <1>4 DEF PoolInv, Types, Starting, Counts, Settling, startupVars
<1>9. Stages'
  BY <1>1 DEF PoolInv, Stages, startupVars, GateSettled, InFlight
<1>10. Budgets'
  BY <1>1, <1>6 DEF Budgets
<1>11. outcome # "resolved"
  BY <1>6 DEF PoolInv, Stages
<1>12. PoolInv'
  BY <1>1, <1>7, <1>8, <1>9, <1>10, <1>11 DEF PoolInv
<1>13. QED  BY <1>1, <1>12, Unseen

\* The recovery of a slot is over, and it is counted no more.
LEMMA Rejoins ==
  ASSUME PoolInv, outcome = "running", NEW s \in Slots, recovery[s] # "none", Recovered(s)
  PROVE  /\ Desk \in Desks /\ Spread(round, Desk, results) /\ Staffed(Desk, Recovering)
         /\ s \in Recovering /\ s \notin AtWork(Desk)
         /\ Recovering' = Recovering \ {s} /\ Recovering \in SUBSET Slots
         /\ recovery' \in [Slots -> {"none", "removing", "dropping", "spawning", "killing"}]
         /\ \A t \in Slots \ {s} : recovery'[t] = recovery[t]
         /\ worker \in [Slots -> WorkerStates] /\ worker[s] = "none"
<1>1. /\ Desk \in Desks /\ Spread(round, Desk, results) /\ Staffed(Desk, Recovering)
      /\ recovery \in [Slots -> {"none", "removing", "dropping", "spawning", "killing"}]
  BY DEF PoolInv, Types, Counts
<1>2. s \in Recovering /\ Recovering' = Recovering \ {s} /\ Recovering \in SUBSET Slots
      /\ recovery' \in [Slots -> {"none", "removing", "dropping", "spawning", "killing"}]
      /\ \A t \in Slots \ {s} : recovery'[t] = recovery[t]
  BY <1>1 DEF Recovering, Recovered
<1>3. s \notin AtWork(Desk) /\ worker[s] = "none"
  BY <1>1, <1>2, DeskFields DEF Staffed
<1>4. worker \in [Slots -> WorkerStates]
  BY <1>1, DeskFields DEF Desks
<1>5. QED  BY <1>1, <1>2, <1>3, <1>4

\* The slot leaves the rotation at the end of its recovery.
LEMMA LeavesStep ==
  ASSUME PoolInv, outcome = "running", NEW s \in Slots, recovery[s] # "none", Recovered(s),
         GoOnWithout(Desk, s), Untouched
  PROVE  PoolInv' /\ [Dispatch!Next]_(Dispatch!vars)
<1>1. /\ Desk \in Desks /\ Spread(round, Desk, results) /\ Staffed(Desk, Recovering)
      /\ s \in Recovering /\ s \notin AtWork(Desk)
      /\ Recovering' = Recovering \ {s} /\ Recovering \in SUBSET Slots
      /\ recovery' \in [Slots -> {"none", "removing", "dropping", "spawning", "killing"}]
      /\ \A t \in Slots \ {s} : recovery'[t] = recovery[t]
      /\ worker \in [Slots -> WorkerStates] /\ worker[s] = "none"
  BY Rejoins
<1>2. UNCHANGED <<startupVars, terminated, consecutive, respawns, results, round>>
  BY DEF Untouched
<1>3. Counts'
  BY <1>1, <1>2 DEF PoolInv, Types, Counts
<1>4. \A t \in Slots : consecutive'[t] < consecutiveFailureThreshold
  BY <1>2 DEF PoolInv, Budgets, Stages
<1>5. \A t \in Slots \ {s} : respawns'[t] > maxRespawnsPerSlot =>
                                 t \notin Desk.active \/ recovery'[t] = "dropping"
  BY <1>1, <1>2, DeskFields DEF PoolInv, Budgets
<1> DEFINE l == Drop(Desk, s)
           e == Leave(l, s)
<1>6. /\ l \in Desks /\ l.jobs = jobs /\ l.job = job /\ l.bad = quarantined
      /\ l.active = active \ {s} /\ l.count = activeWorkers /\ l.busy = busy
      /\ l.worker = worker
  BY <1>1, DeskFields DEF Drop, Desks
<1> HIDE DEF l
<1>7. /\ e.job = job /\ e.active = active \ {s} /\ e.count = activeWorkers - 1
      /\ e.busy = busy \ {s} /\ e.worker = worker
  BY <1>6, LeftDesk
<1> HIDE DEF e
<1>8. Staffed(e, Recovering')
  <2> DEFINE b == Desk
             rec == Recovering
             rec2 == Recovering'
  <2>1. AtWork(e) = AtWork(b) \ {s} /\ \A t \in AtWork(e) : e.job[t] = b.job[t]
    BY <1>1, <1>7, DeskFields DEF AtWork
  <2>2. /\ e.count = b.count - 1 /\ e.busy = b.busy \ {s} /\ e.active = b.active \ {s}
        /\ (\A t \in Slots \ {s} : e.worker[t] = b.worker[t]) /\ e.worker[s] # "busy"
    BY <1>1, <1>7, DeskFields
  <2>3. /\ b \in Desks /\ Staffed(b, rec) /\ rec \in SUBSET Slots /\ rec2 \in SUBSET Slots
        /\ rec2 = rec \ {s} /\ s \in AtWork(b) \cup rec
    BY <1>1
  <2> HIDE DEF b, rec, rec2
  <2>4. Staffed(e, rec2)
    BY ONLY <2>1, <2>2, <2>3, Released
  <2>5. QED  BY <2>4 DEF rec2
<1>9. Staffed(Leave(Drop(Desk, s), s), Recovering')
  BY <1>8 DEF e, l
<1>10. /\ {} \in SUBSET Owed(Desk) /\ Owed(Desk) = Owed(Desk) \ {}
       /\ Desk.bad = quarantined \cup {} /\ results' = results
  BY <1>2, DeskFields
<1>11. UNCHANGED <<startupVars, terminated, round>>
  BY <1>2
<1>12. QED
  BY <1>1, <1>3, <1>4, <1>5, <1>9, <1>10, <1>11, GoesOn

\* A recovery goes from one wait of its slot to the next.
LEMMA WaitsOn ==
  ASSUME PoolInv, outcome = "running", Untouched,
         NEW s \in Slots, NEW next \in {"spawning", "killing"},
         recovery[s] \in {"removing", "spawning"},
         recovery' = [recovery EXCEPT ![s] = next],
         UNCHANGED <<worker, active, jobs, job, busy, activeWorkers, quarantined, outcome,
                     broken, aborted>>
  PROVE  PoolInv' /\ [Dispatch!Next]_(Dispatch!vars)
<1>1. /\ recovery \in [Slots -> {"none", "removing", "dropping", "spawning", "killing"}]
      /\ Desk \in Desks /\ Staffed(Desk, Recovering) /\ Spread(round, Desk, results)
      /\ results \in SUBSET Results
  BY DEF PoolInv, Types, Counts, Settling
<1>2. /\ UNCHANGED <<startupVars, terminated, round, broken, aborted>>
      /\ outcome' = "running" /\ results' = results
      /\ consecutive' = consecutive /\ respawns' = respawns
  BY DEF Untouched
<1>3. Recovering' = Recovering
  BY <1>1 DEF Recovering
<1>4. Desk' = Desk
  BY DEF Desk
<1>5. Counts'
  BY <1>1, <1>2 DEF PoolInv, Types, Counts
<1>6. Budgets'
  BY <1>1, <1>2 DEF PoolInv, Budgets
<1>7. PoolInv'
  <2>1. Desk.count # 0
    BY DeskFields DEF PoolInv
  <2>2. QED  BY <1>1, <1>2, <1>3, <1>4, <1>5, <1>6, <2>1, Continues
<1>8. [Dispatch!Next]_(Dispatch!vars)
  BY <1>2, Unseen
<1>9. QED  BY <1>7, <1>8

\* The dead worker is gone: the slot spawns another, or leaves the rotation.
LEMMA RemovedStep ==
  ASSUME PoolInv, NEW s \in Slots, Removed(s)
  PROVE  PoolInv' /\ [Dispatch!Next]_(Dispatch!vars)
<1>1. outcome = "running" /\ Untouched
  BY DEF Removed
<1>2. CASE /\ recovery[s] = "removing"
           /\ recovery' = [recovery EXCEPT ![s] = "spawning"]
           /\ UNCHANGED <<worker, active, jobs, job, busy, activeWorkers, quarantined, outcome,
                          broken, aborted>>
  BY <1>1, <1>2, WaitsOn
<1>3. CASE recovery[s] = "dropping" /\ Recovered(s) /\ GoOnWithout(Desk, s)
  BY <1>1, <1>3, LeavesStep
<1>4. QED  BY <1>2, <1>3 DEF Removed

\* The replacement is ready: the slot goes on, and so does every idle slot.
LEMMA ReadyStep ==
  ASSUME PoolInv, NEW s \in Slots, SpawnReady(s)
  PROVE  PoolInv' /\ [Dispatch!Next]_(Dispatch!vars)
<1> DEFINE W == [worker EXCEPT ![s] = "parked"]
           d == [Desk EXCEPT !.worker = W]
           e == Leave(d, s)
<1>1. /\ recovery[s] = "spawning" /\ outcome = "running" /\ Recovered(s)
      /\ Resume([Desk EXCEPT !.worker[s] = "parked"], s)
      /\ UNCHANGED <<broken, aborted>>
      /\ UNCHANGED <<startupVars, terminated, consecutive, respawns, results, round>>
  BY DEF SpawnReady, Untouched
<1>2. /\ Desk \in Desks /\ Spread(round, Desk, results) /\ Staffed(Desk, Recovering)
      /\ s \in Recovering /\ s \notin AtWork(Desk)
      /\ Recovering' = Recovering \ {s} /\ Recovering \in SUBSET Slots
      /\ recovery' \in [Slots -> {"none", "removing", "dropping", "spawning", "killing"}]
      /\ \A t \in Slots \ {s} : recovery'[t] = recovery[t]
      /\ worker \in [Slots -> WorkerStates] /\ worker[s] = "none"
  <2>1. recovery[s] # "none" /\ outcome = "running" /\ Recovered(s)
    BY <1>1
  <2>2. QED  BY <2>1, Rejoins
<1>3. /\ W \in [Slots -> WorkerStates] /\ W[s] = "parked"
      /\ \A t \in Slots \ {s} : W[t] = worker[t]
  BY <1>2 DEF WorkerStates
<1>4. Resume(d, s)
  BY <1>1, DeskFields
<1> HIDE DEF W
<1>5. /\ d \in Desks /\ d.jobs = jobs /\ d.job = job /\ d.bad = quarantined /\ d.busy = busy
      /\ d.count = activeWorkers /\ d.active = active /\ d.worker = W
  BY <1>2, <1>3, DeskFields DEF Desks
<1> HIDE DEF d
<1>6. /\ e.job = job /\ e.active = active /\ e.count = activeWorkers - 1
      /\ e.busy = busy \ {s} /\ e.worker = W
  BY <1>5, LeftDesk
<1>7. Spread(round, d, results) /\ Owed(d) = Owed(Desk)
  BY <1>2, <1>5, DeskFields, SamePieces
<1> HIDE DEF e
<1>8. Staffed(e, Recovering')
  <2> DEFINE b == Desk
             rec == Recovering
             rec2 == Recovering'
  <2>1. AtWork(e) = AtWork(b) \ {s} /\ \A t \in AtWork(e) : e.job[t] = b.job[t]
    BY <1>2, <1>6, DeskFields DEF AtWork
  <2>2. /\ e.count = b.count - 1 /\ e.busy = b.busy \ {s} /\ e.active = b.active
        /\ (\A t \in Slots \ {s} : e.worker[t] = b.worker[t]) /\ e.worker[s] # "busy"
        /\ e.worker[s] # "none"
    BY <1>2, <1>3, <1>6, DeskFields
  <2>3. /\ b \in Desks /\ Staffed(b, rec) /\ rec \in SUBSET Slots /\ rec2 \in SUBSET Slots
        /\ rec2 = rec \ {s} /\ s \in AtWork(b) \cup rec
    BY <1>2
  <2> HIDE DEF b, rec, rec2
  <2>4. Staffed(e, rec2)
    BY ONLY <2>1, <2>2, <2>3, Released
  <2>5. QED  BY <2>4 DEF rec2
<1>9. Staffed(Leave(d, s), Recovering')
  BY <1>8 DEF e
<1>10. Counts'
  BY <1>1, <1>2 DEF PoolInv, Types, Counts
<1>11. \A t \in Slots : consecutive'[t] < consecutiveFailureThreshold
  BY <1>1 DEF PoolInv, Budgets, Stages
<1>12. \A t \in Slots : respawns'[t] > maxRespawnsPerSlot =>
                            t \notin d.active \/ recovery'[t] = "dropping"
  BY <1>1, <1>2, <1>5 DEF PoolInv, Budgets
<1>13. /\ {} \in SUBSET Owed(Desk) /\ Owed(d) = Owed(Desk) \ {}
       /\ d.bad = quarantined \cup {} /\ results' = results
       /\ UNCHANGED <<startupVars, terminated, round, broken, aborted>>
  BY <1>1, <1>5, <1>7
<1>14. d.active # {}
  BY <1>2, <1>5, DeskFields DEF Staffed
<1>15. QED
  BY <1>1, <1>4, <1>5, <1>7, <1>9, <1>10, <1>11, <1>12, <1>13, <1>14, Resumes

\* The replacement fails: the slot waits for its end.
LEMMA FailsStep ==
  ASSUME PoolInv, NEW s \in Slots, SpawnFails(s)
  PROVE  PoolInv' /\ [Dispatch!Next]_(Dispatch!vars)
<1>1. /\ recovery[s] = "spawning" /\ outcome = "running" /\ Untouched
      /\ recovery' = [recovery EXCEPT ![s] = "killing"]
      /\ UNCHANGED <<worker, active, jobs, job, busy, activeWorkers, quarantined, outcome,
                     broken, aborted>>
  BY DEF SpawnFails
<1>2. QED  BY <1>1, WaitsOn

\* The failed replacement is gone: the slot leaves the rotation.
LEMMA KilledStep ==
  ASSUME PoolInv, NEW s \in Slots, SpawnKilled(s)
  PROVE  PoolInv' /\ [Dispatch!Next]_(Dispatch!vars)
<1>1. /\ recovery[s] # "none" /\ outcome = "running" /\ Recovered(s)
      /\ GoOnWithout(Desk, s) /\ Untouched
  BY DEF SpawnKilled
<1>2. QED  BY <1>1, LeavesStep

-----------------------------------------------------------------------------
(* Before and after the dispatches.                                        *)

\* The pool at rest is called.
LEMMA CallStep ==
  ASSUME PoolInv, Call
  PROVE  PoolInv' /\ [Dispatch!Next]_(Dispatch!vars)
<1>1. /\ outcome \in {"none", "resolved"} /\ round < Len(Rounds) /\ ~terminated
      /\ round' = round + 1 /\ outcome' = "called"
      /\ UNCHANGED <<worker, active, jobs, job, busy, activeWorkers, quarantined, recovery>>
      /\ UNCHANGED <<startupVars, terminated, results, consecutive, respawns, broken, aborted>>
  BY DEF Call, poolVars
<1>2. round \in Nat /\ Len(Rounds) \in Nat /\ round + 1 \in 0..Len(Rounds) /\ round + 1 # 0
  <2>1. Len(Rounds) \in Nat
    BY PoolAssumption, LenProperties
  <2>2. round \in 0..Len(Rounds)
    BY DEF PoolInv, Types, Settling
  <2>3. QED  BY <1>1, <2>1, <2>2
<1>3. Desk' = Desk /\ Recovering' = Recovering
  BY <1>1 DEF Desk, Recovering
<1>4. AtRest /\ AtRest'
  <2>1. AtRest
    BY <1>1 DEF PoolInv
  <2>2. QED  BY <1>1, <1>3, <2>1, Rests DEF AtRest, startupVars
<1>5. Types'
  BY <1>1, <1>2, <1>3 DEF PoolInv, Types, Starting, Counts, Settling, startupVars
<1>6. Stages' /\ Budgets'
  BY <1>1 DEF PoolInv, Stages, Budgets, startupVars, GateSettled, InFlight
<1>7. PoolInv'
  BY <1>1, <1>4, <1>5, <1>6 DEF PoolInv
<1>8. Dispatch!Call
  BY <1>1 DEF Dispatch!Call, InJobs, InSlots, Delivered
<1>9. QED  BY <1>7, <1>8 DEF Dispatch!Next

\* The dispatch is refused before it has jobs.
LEMMA RefuseStep ==
  ASSUME PoolInv, Refuse
  PROVE  PoolInv' /\ [Dispatch!Next]_(Dispatch!vars)
<1>1. /\ outcome = "called" /\ GateSettled /\ outcome' = "rejected"
      /\ UNCHANGED <<worker, active, jobs, job, busy, activeWorkers, quarantined, recovery>>
      /\ UNCHANGED <<startupVars, terminated, results, consecutive, respawns, broken, aborted,
                     round>>
  BY DEF Refuse, poolVars, dispatchVars
<1>2. Desk' = Desk /\ Recovering' = Recovering
  BY <1>1 DEF Desk, Recovering
<1>3. AtRest /\ AtRest'
  <2>1. AtRest
    BY <1>1 DEF PoolInv
  <2>2. QED  BY <1>1, <1>2, <2>1, Rests DEF AtRest, startupVars
<1>4. Types'
  BY <1>1, <1>2 DEF PoolInv, Types, Starting, Counts, Settling, startupVars
<1>5. Stages' /\ Budgets'
  BY <1>1 DEF PoolInv, Stages, Budgets, startupVars, GateSettled, InFlight
<1>6. PoolInv'
  BY <1>1, <1>3, <1>4, <1>5 DEF PoolInv
<1>7. (InJobs \cup InSlots)' = {} /\ Delivered' = Delivered
  <2>1. InJobs' = {} /\ InSlots' = {}
    BY <1>3 DEF AtRest, InJobs, InSlots, AtWork, Desk
  <2>2. QED  BY <1>1, <2>1 DEF Delivered
<1>8. Dispatch!Reject
  <2>1. quarantined' = quarantined \cup {} /\ {} \in SUBSET (InJobs \cup InSlots)
    BY <1>1
  <2>2. QED  BY <1>1, <1>7, <2>1 DEF Dispatch!Reject
<1>9. QED  BY <1>6, <1>8 DEF Dispatch!Next

\* The caller terminates the pool: nobody is at work then.
LEMMA TerminateStep ==
  ASSUME PoolInv, Terminate
  PROVE  PoolInv' /\ [Dispatch!Next]_(Dispatch!vars)
<1>1. /\ ~InFlight /\ terminated' = TRUE
      /\ aborted' = (aborted \/ \E s \in Slots : worker[s] = "busy")
      /\ worker' = [s \in Slots |-> "none"] /\ active' = {}
      /\ UNCHANGED <<jobs, job, busy, activeWorkers, quarantined, recovery, outcome>>
      /\ UNCHANGED <<startupVars, results, consecutive, respawns, broken, round>>
  BY DEF Terminate, poolVars, dispatchVars
<1>2. AtRest /\ outcome # "running"
  BY <1>1 DEF PoolInv, InFlight
<1>3. aborted' = aborted
  <2>1. ~\E s \in Slots : worker[s] = "busy"
    BY <1>2 DEF AtRest
  <2>2. aborted \in BOOLEAN
    BY DEF PoolInv, Types, Settling
  <2>3. QED  BY <1>1, <2>1, <2>2
<1>4. Recovering' = Recovering
  BY <1>1 DEF Recovering
<1>5. AtRest'
  BY <1>1, <1>2, <1>4, Rests
<1> DEFINE e == [jobs |-> jobs, job |-> job, busy |-> busy, count |-> activeWorkers,
                 worker |-> [s \in Slots |-> "none"], active |-> {}, bad |-> quarantined]
<1>6. /\ e \in Desks /\ Desk' = e
      /\ e.jobs = Desk.jobs /\ e.job = Desk.job /\ e.bad = Desk.bad
  <2>1. Desk \in Desks
    BY DEF PoolInv, Types
  <2>2. [s \in Slots |-> "none"] \in [Slots -> WorkerStates]
    BY DEF WorkerStates
  <2>3. e \in Desks
    BY <2>1, <2>2, DeskFields DEF Desks
  <2>4. QED  BY <1>1, <2>3, DeskFields DEF Desk
<1> HIDE DEF e
<1>7. Types'
  BY <1>1, <1>3, <1>6 DEF PoolInv, Types, Starting, Counts, Settling, startupVars
<1>8. Stages'
  BY <1>1, <1>3 DEF PoolInv, Stages, startupVars, GateSettled, InFlight
<1>9. Budgets'
  BY <1>1 DEF PoolInv, Budgets
<1>10. (outcome \in {"running", "resolved"} => Spread(round, Desk, results))'
  <2>1. ASSUME outcome = "resolved" PROVE Spread(round, e, results)
    BY <1>6, <2>1, SamePieces DEF PoolInv
  <2>2. QED  BY <1>1, <1>2, <1>6, <2>1
<1>11. PoolInv'
  BY <1>1, <1>2, <1>5, <1>7, <1>8, <1>9, <1>10 DEF PoolInv
<1>12. QED  BY <1>1, <1>11, Unseen

\* A slot goes on with its startup: no round has begun.
LEMMA BootStep ==
  ASSUME PoolInv, NEW s \in Slots, Boot(s)
  PROVE  PoolInv' /\ [Dispatch!Next]_(Dispatch!vars)
<1>1. /\ StartupStep(s)
      /\ UNCHANGED <<jobs, job, recovery, busy, activeWorkers, quarantined, results, round>>
      /\ UNCHANGED <<consecutive, respawns, broken, outcome, aborted>>
  BY DEF Boot, dispatchVars, poolVars
<1>2. boot[s] \in {"starting", "killing", "backoff"}
  BY <1>1 DEF StartupStep, BootReady, BootCrash, BootKilled, BootRetry
<1>3. outcome \in {"none", "called"} /\ AtRest /\ ~broken
  <2>1. ~GateSettled
    BY <1>2 DEF GateSettled
  <2>2. QED  BY <2>1 DEF PoolInv, Stages
<1>4. /\ Desk \in Desks /\ worker \in [Slots -> WorkerStates] /\ active \in SUBSET Slots
      /\ boot \in [Slots -> {"starting", "killing", "backoff", "ready", "dropped"}]
      /\ attempt \in [Slots -> 0..RestartBudget]
      /\ lastSignature \in [Slots -> Signatures \cup {"none"}]
      /\ reproduced \in SUBSET Slots /\ deterministic \in BOOLEAN /\ anyReady \in BOOLEAN
      /\ terminated \in BOOLEAN /\ RestartBudget \in Nat
      /\ \A t \in Slots : boot[t] = "backoff" => attempt[t] < RestartBudget
      /\ \A t \in Slots : worker[t] # "busy"
      /\ \A t \in active : boot[t] # "dropped" /\ (boot[t] = "ready" => worker[t] # "none")
  BY <1>3, DeskFields, BudgetAssumption
     DEF PoolInv, Types, Desks, Starting, Settling, Stages, AtRest
<1>5. /\ worker' \in [Slots -> WorkerStates] /\ active' \in SUBSET active
      /\ Starting' /\ terminated' = terminated
      /\ \A t \in Slots : (boot[t] = "backoff" => attempt[t] < RestartBudget)'
      /\ \A t \in Slots : worker'[t] # "busy"
      /\ \A t \in active' : boot'[t] # "dropped" /\ (boot'[t] = "ready" => worker'[t] # "none")
  <2>1. CASE BootReady(s)
    BY <1>4, <2>1 DEF BootReady, Starting, WorkerStates
  <2>2. CASE BootCrash(s)
    <3>1. PICK sig \in Signatures :
               LET again == IF lastSignature[s] = sig THEN reproduced \cup {s} ELSE reproduced
               IN  /\ lastSignature' = [lastSignature EXCEPT ![s] = sig]
                   /\ reproduced' = again
                   /\ deterministic' = (\/ deterministic
                                        \/ /\ ~anyReady
                                           /\ Cardinality(again) >= DeterministicThreshold)
      BY <2>2, Zenon DEF BootCrash
    <3>2. /\ boot' = [boot EXCEPT ![s] = "killing"]
          /\ UNCHANGED <<worker, active, attempt, anyReady, terminated>>
      BY <2>2 DEF BootCrash
    <3>3. lastSignature' \in [Slots -> Signatures \cup {"none"}] /\ reproduced' \in SUBSET Slots
      BY <1>4, <3>1
    <3>4. deterministic' \in BOOLEAN
      BY <3>1
    <3>5. boot' \in [Slots -> {"starting", "killing", "backoff", "ready", "dropped"}]
          /\ \A t \in Slots : (boot[t] = "backoff" => attempt[t] < RestartBudget)'
      BY <1>4, <3>2
    <3>6. \A t \in active' :
              boot'[t] # "dropped" /\ (boot'[t] = "ready" => worker'[t] # "none")
      BY <1>4, <3>2
    <3>7. QED  BY <1>4, <3>2, <3>3, <3>4, <3>5, <3>6 DEF Starting
  <2>3. CASE BootKilled(s)
    <3>1. /\ worker' = [worker EXCEPT ![s] = "none"]
          /\ \/ boot' = [boot EXCEPT ![s] = "dropped"] /\ active' = active \ {s}
             \/ /\ boot' = [boot EXCEPT ![s] = "backoff"] /\ active' = active
                /\ ~(attempt[s] >= RestartBudget)
          /\ UNCHANGED <<attempt, lastSignature, reproduced, deterministic, anyReady, terminated>>
      BY <2>3 DEF BootKilled, DropSlot
    <3>2. attempt[s] \in 0..RestartBudget
      BY <1>4
    <3>3. worker' \in [Slots -> WorkerStates] /\ \A t \in Slots : worker'[t] # "busy"
      BY <1>4, <3>1 DEF WorkerStates
    <3>4. active' \in SUBSET active
          /\ boot' \in [Slots -> {"starting", "killing", "backoff", "ready", "dropped"}]
          /\ \A t \in Slots : (boot[t] = "backoff" => attempt[t] < RestartBudget)'
      BY <1>4, <3>1, <3>2
    <3>5. \A t \in active' :
              boot'[t] # "dropped" /\ (boot'[t] = "ready" => worker'[t] # "none")
      BY <1>4, <3>1
    <3>6. QED  BY <1>4, <3>1, <3>3, <3>4, <3>5 DEF Starting
  <2>4. CASE BootRetry(s)
    <3>1. /\ boot[s] = "backoff"
          /\ UNCHANGED <<lastSignature, reproduced, deterministic, anyReady, terminated>>
          /\ \/ /\ boot' = [boot EXCEPT ![s] = "dropped"] /\ active' = active \ {s}
                /\ worker' = worker /\ attempt' = attempt
             \/ /\ worker' = [worker EXCEPT ![s] = "starting"]
                /\ attempt' = [attempt EXCEPT ![s] = @ + 1]
                /\ boot' = [boot EXCEPT ![s] = "starting"] /\ active' = active
      BY <2>4 DEF BootRetry, DropSlot
    <3>2. attempt[s] \in 0..RestartBudget /\ attempt[s] + 1 \in 0..RestartBudget
      BY <1>4, <3>1
    <3>3. /\ worker' \in [Slots -> WorkerStates] /\ (\A t \in Slots : worker'[t] # "busy")
          /\ active' \in SUBSET active
      BY <1>4, <3>1 DEF WorkerStates
    <3>4. /\ boot' \in [Slots -> {"starting", "killing", "backoff", "ready", "dropped"}]
          /\ attempt' \in [Slots -> 0..RestartBudget]
          /\ \A t \in Slots : (boot[t] = "backoff" => attempt[t] < RestartBudget)'
      BY <1>4, <3>1, <3>2
    <3>5. \A t \in active' :
              boot'[t] # "dropped" /\ (boot'[t] = "ready" => worker'[t] # "none")
      BY <1>4, <3>1
    <3>6. QED  BY <1>4, <3>1, <3>3, <3>4, <3>5 DEF Starting
  <2>5. QED  BY <1>1, <2>1, <2>2, <2>3, <2>4 DEF StartupStep
<1>6. Recovering' = Recovering /\ AtRest'
  <2>1. Recovering' = Recovering
    BY <1>1 DEF Recovering
  <2>2. QED  BY <1>1, <1>3, <1>5, <2>1, Rests
<1>7. Desk' \in Desks
  BY <1>1, <1>4, <1>5, DeskFields DEF Desk, Desks
<1>8. Types'
  BY <1>1, <1>5, <1>7 DEF PoolInv, Types, Counts, Settling
<1>9. Stages'
  BY <1>1, <1>3, <1>5 DEF PoolInv, Stages, InFlight
<1>10. Budgets'
  BY <1>1, <1>5 DEF PoolInv, Budgets
<1>11. PoolInv'
  BY <1>1, <1>3, <1>6, <1>8, <1>9, <1>10 DEF PoolInv
<1>12. QED  BY <1>1, <1>11, Unseen

\* The jobs of a round are cut, and the slots in rotation are given one each.
LEMMA BeginStep ==
  ASSUME PoolInv, Begin
  PROVE  PoolInv' /\ [Dispatch!Next]_(Dispatch!vars)
<1> DEFINE n == Min({subBatchSize, Max({1, Last(Rounds[round]) \div Cardinality(active)})})
<1>1. /\ outcome = "called" /\ GateSettled /\ active # {} /\ ~broken /\ outcome' = "running"
      /\ quarantined' = {} /\ results' = {} /\ ForgetStartup
      /\ UNCHANGED <<active, terminated, recovery, consecutive, respawns, broken, round, aborted>>
  BY DEF Begin
<1>2. PICK cut \in Cuts(round, n) :
               \E d \in {RunWorkers([Desk EXCEPT !.jobs = JobsOf(cut), !.bad = {}], InTurn)} :
                   /\ jobs' = d.jobs /\ job' = d.job /\ busy' = d.busy
                   /\ activeWorkers' = d.count /\ worker' = d.worker
  BY Zenon DEF Begin
<1>3. /\ AtRest /\ Recovering = {} /\ Desk \in Desks /\ round # 0
      /\ round \in 0..Len(Rounds) /\ active \in SUBSET Slots
  BY <1>1, DeskFields DEF PoolInv, AtRest, Types, Settling, Desks
<1>4. round \in DOMAIN Rounds
  BY <1>3, PoolAssumption
<1>5. n \in Nat \ {0}
  <2> DEFINE x == Last(Rounds[round]) \div Cardinality(active)
             m == Max({1, x})
  <2>1. x \in Int
    <3>1. Last(Rounds[round]) \in Nat
      BY <1>4, Places
    <3>2. Cardinality(active) \in Nat \ {0}
      <4>1. IsFiniteSet(active)
        BY <1>3, SlotsFinite
      <4>2. QED  BY <1>1, <4>1, FS_CardinalityType, FS_EmptySet
    <3>3. QED  BY <3>1, <3>2
  <2> HIDE DEF x
  <2>2. m \in Nat \ {0}
    <3>1. \E y \in {1, x} : \A z \in {1, x} : y >= z
      <4>1. CASE x >= 1
        BY <2>1, <4>1
      <4>2. CASE ~(x >= 1)
        BY <2>1, <4>2
      <4>3. QED  BY <4>1, <4>2
    <3>2. m \in {1, x} /\ m >= 1
      BY <3>1 DEF Max
    <3>3. QED  BY <2>1, <3>2
  <2> HIDE DEF m
  <2>3. {subBatchSize, m} \in SUBSET Nat /\ {subBatchSize, m} # {} /\ subBatchSize \in Nat \ {0}
    BY <2>2, PoolAssumption
  <2>4. Min({subBatchSize, m}) \in {subBatchSize, m}
    BY <2>3, Least
  <2>5. QED  BY <2>2, <2>3, <2>4 DEF m, x
<1> HIDE DEF n
<1> DEFINE d == [Desk EXCEPT !.jobs = JobsOf(cut), !.bad = {}]
           e == RunWorkers(d, InTurn)
<1>6. /\ d.jobs = JobsOf(cut) /\ d.bad = {} /\ d.job = job /\ d.busy = busy
      /\ d.count = activeWorkers /\ d.worker = worker /\ d.active = active
  BY DEF Desk
<1>7. AtWork(d) = {}
  BY <1>3, <1>6, DeskFields DEF AtRest, AtWork
<1>8. JobsOf(cut) \in Seq(Jobs) /\ Spread(round, d, {}) /\ Owed(d) # {}
  <2> HIDE DEF d
  <2>1. QED  BY <1>4, <1>5, <1>6, <1>7, JobsSpread
<1>9. d \in Desks
  BY <1>3, <1>8 DEF Desks
<1>10. jobs' = e.jobs /\ job' = e.job /\ busy' = e.busy /\ activeWorkers' = e.count
       /\ worker' = e.worker
  <2> HIDE DEF e
  <2>1. \E x \in {e} : /\ jobs' = x.jobs /\ job' = x.job /\ busy' = x.busy
                       /\ activeWorkers' = x.count /\ worker' = x.worker
    BY <1>2 DEF e
  <2>2. QED  BY <2>1
<1> HIDE DEF d
<1>11. Staffed(d, {})
  <2>1. Cardinality({}) = 0
    BY FS_EmptySet
  <2>2. \A s \in d.active : d.worker[s] # "none"
    BY <1>1, <1>3, <1>6 DEF AtRest, GateSettled
  <2>3. QED  BY <1>3, <1>6, <1>7, <2>1, <2>2 DEF Staffed, AtRest
<1>12. /\ e \in Desks /\ e.active = d.active /\ e.bad = d.bad
       /\ Spread(round, e, {}) /\ Staffed(e, {}) /\ Owed(e) = Owed(d)
       /\ e.jobs # <<>> => e.count # 0
  <2>1. InTurn \in Seq(Slots) /\ IsInjective(InTurn) /\ {} \in SUBSET Slots
    BY Orders
  <2>2. Idle(d, InTurn)
    <3>1. PICK s \in active : s \in Slots
      BY <1>1, <1>3
    <3>2. s \in d.active \ d.busy /\ d.worker[s] # "none"
      BY <1>1, <1>3, <1>6, <3>1 DEF AtRest, GateSettled
    <3>3. PICK i \in DOMAIN InTurn : InTurn[i] = s
      BY <3>1, Orders
    <3> HIDE DEF d
    <3>4. QED  BY <3>2, <3>3 DEF Idle
  <2> DEFINE r == round
             rec == {}
             order == InTurn
  <2>3. /\ rec \in SUBSET Slots /\ d \in Desks /\ order \in Seq(Slots) /\ IsInjective(order)
        /\ Spread(r, d, {}) /\ Staffed(d, rec) /\ (d.count = 0 => Idle(d, order))
    BY <1>8, <1>9, <1>11, <2>1, <2>2
  <2> HIDE DEF r, rec, order, d
  <2>4. /\ RunWorkers(d, order) \in Desks /\ RunWorkers(d, order).active = d.active
        /\ RunWorkers(d, order).bad = d.bad /\ Spread(r, RunWorkers(d, order), {})
        /\ Staffed(RunWorkers(d, order), rec) /\ Owed(RunWorkers(d, order)) = Owed(d)
        /\ RunWorkers(d, order).jobs # <<>> => RunWorkers(d, order).count # 0
    BY ONLY <2>3, RunWorkersKeeps, ZenonT(60)
  <2>5. QED  BY <2>4 DEF r, rec, order
<1> HIDE DEF e
<1>13. Desk' = e
  BY <1>1, <1>6, <1>10, <1>12 DEF Desk, Desks
<1>14. Recovering' = {}
  BY <1>1, <1>3 DEF Recovering
<1>15. Starting' /\ GateSettled' /\ \A s \in Slots : boot'[s] = "ready"
  <2>1. /\ boot' = [s \in Slots |-> "ready"]
        /\ attempt' = [s \in Slots |-> 0]
        /\ lastSignature' = [s \in Slots |-> "none"]
        /\ reproduced' = {} /\ deterministic' = FALSE /\ anyReady' = TRUE
    BY <1>1 DEF ForgetStartup
  <2>2. attempt' \in [Slots -> 0..RestartBudget]
    <3>1. 0 \in 0..RestartBudget
      BY BudgetAssumption
    <3>2. QED  BY <2>1, <3>1
  <2>3. Starting'
    BY <2>1, <2>2 DEF Starting
  <2>4. GateSettled' /\ \A s \in Slots : boot'[s] = "ready"
    BY <2>1 DEF GateSettled
  <2>5. QED  BY <2>3, <2>4
<1>16. Types'
  BY <1>1, <1>12, <1>13, <1>15 DEF PoolInv, Types, Counts, Settling
<1>17. Stages'
  BY <1>1, <1>15 DEF PoolInv, Stages, InFlight
<1>18. Budgets'
  BY <1>1 DEF PoolInv, Budgets
<1>19. activeWorkers' # 0
  <2>1. {} \in SUBSET Slots
    OBVIOUS
  <2>2. ASSUME e.count = 0 PROVE FALSE
    <3>1. e.jobs = <<>>
      BY <1>12, <2>2
    <3>2. Owed(e) = {}
      BY <1>12, <2>1, <2>2, <3>1, NobodyLeft
    <3>3. QED  BY <1>8, <1>12, <3>2
  <2>3. QED  BY <1>10, <2>2
<1>20. PoolInv'
  BY <1>1, <1>12, <1>13, <1>14, <1>16, <1>17, <1>18, <1>19 DEF PoolInv
<1>21. Dispatch!Begin
  <2>1. (InJobs \cup InSlots)' = Owed(e)
    <3>1. (InJobs \cup InSlots)' = Owed(Desk)'
      BY DEF InJobs, InSlots, Owed, Desk, AtWork
    <3>2. QED  BY <1>13, <3>1 DEF Owed
  <2>2. Delivered' = {}
    BY <1>1 DEF Delivered
  <2>3. (InJobs \cup InSlots)' # {}
    BY <1>8, <1>12, <2>1
  <2>4. QED  BY <1>1, <2>2, <2>3 DEF Dispatch!Begin
<1>22. QED  BY <1>20, <1>21 DEF Dispatch!Next

-----------------------------------------------------------------------------
(* The theorems.                                                           *)

\* A step that changes nothing.
LEMMA IdleStep ==
  ASSUME PoolInv, UNCHANGED vars
  PROVE  PoolInv' /\ [Dispatch!Next]_(Dispatch!vars)
<1>1. /\ UNCHANGED <<worker, active, startupVars, terminated>>
      /\ UNCHANGED <<jobs, job, recovery, busy, activeWorkers, results, round>>
      /\ UNCHANGED <<consecutive, respawns, quarantined, broken, outcome, aborted>>
  BY DEF vars, dispatchVars, poolVars
<1>2. Desk' = Desk /\ Recovering' = Recovering
  BY <1>1 DEF Desk, Recovering
<1>3. Types'
  BY <1>1, <1>2 DEF PoolInv, Types, Starting, Counts, Settling, startupVars
<1>4. Stages' /\ Budgets'
  BY <1>1 DEF PoolInv, Stages, Budgets, GateSettled, InFlight, startupVars
<1>5. AtRest => AtRest'
  BY <1>1, <1>2 DEF AtRest, AtWork, Desk, startupVars
<1>6. PoolInv'
  BY <1>1, <1>2, <1>3, <1>4, <1>5 DEF PoolInv
<1>7. QED  BY <1>1, <1>6, Unseen

\* Every step, one by one.
LEMMA EveryStep ==
  ASSUME PoolInv, [Next]_vars
  PROVE  PoolInv' /\ [Dispatch!Next]_(Dispatch!vars)
<1>1. CASE Call
  BY <1>1, CallStep
<1>2. CASE Begin
  BY <1>2, BeginStep
<1>3. CASE Refuse
  BY <1>3, RefuseStep
<1>4. CASE Terminate
  BY <1>4, TerminateStep
<1>5. CASE \E s \in Slots : Boot(s)
  BY <1>5, BootStep
<1>6. CASE \E s \in Slots : SubBatchDone(s)
  BY <1>6, FlushStep
<1>7. CASE \E s \in Slots : Result(s)
  BY <1>7, ResultStep
<1>8. CASE \E s \in Slots : WorkerDies(s)
  BY <1>8, DeathStep
<1>9. CASE \E s \in Slots : IdleExit(s)
  BY <1>9, ExitStep
<1>10. CASE \E s \in Slots : Timeout(s)
  BY <1>10, RetryStep, GiveUpStep DEF Timeout
<1>11. CASE \E s \in Slots : Recover(s)
  BY <1>11, StoppedStep, RemovedStep, ReadyStep, FailsStep, KilledStep DEF Recover
<1>12. CASE UNCHANGED vars
  BY <1>12, IdleStep
<1>13. QED
  BY <1>1, <1>2, <1>3, <1>4, <1>5, <1>6, <1>7, <1>8, <1>9, <1>10, <1>11, <1>12 DEF Next

\* The pool starts at rest.
LEMMA AtStart ==
  ASSUME Init
  PROVE  PoolInv /\ Dispatch!Init
<1>1. /\ jobs = <<>> /\ job = [s \in Slots |-> NoJob] /\ busy = {} /\ activeWorkers = 0
      /\ quarantined = {} /\ results = {} /\ outcome = "none" /\ broken = FALSE
      /\ round = 0 /\ aborted = FALSE /\ recovery = [s \in Slots |-> "none"]
      /\ consecutive = [s \in Slots |-> 0] /\ respawns = [s \in Slots |-> 0]
      /\ worker = [s \in Slots |-> "starting"] /\ active = Slots
      /\ boot = [s \in Slots |-> "starting"] /\ attempt = [s \in Slots |-> 0]
      /\ lastSignature = [s \in Slots |-> "none"] /\ reproduced = {}
      /\ deterministic = FALSE /\ anyReady = FALSE /\ terminated = FALSE
  BY DEF Init, StartupInit
<1>2. AtWork(Desk) = {} /\ Recovering = {}
  BY <1>1, DeskFields DEF AtWork, Recovering
<1>3. Desk \in Desks
  <2>1. <<>> \in Seq(Jobs) /\ worker \in [Slots -> WorkerStates] /\ 0 \in Int
    BY <1>1 DEF WorkerStates
  <2>2. QED  BY <1>1, <2>1 DEF Desk, Desks
<1>4. Starting
  <2>1. 0 \in 0..RestartBudget
    BY BudgetAssumption
  <2>2. attempt \in [Slots -> 0..RestartBudget]
    BY <1>1, <2>1
  <2>3. boot \in [Slots -> {"starting", "killing", "backoff", "ready", "dropped"}]
        /\ lastSignature \in [Slots -> Signatures \cup {"none"}]
    BY <1>1
  <2>4. QED  BY <1>1, <2>2, <2>3 DEF Starting
<1>5. Counts
  <2>1. 0 \in 0..consecutiveFailureThreshold /\ 0 \in 0..maxRespawnsPerSlot + 1
    BY PoolAssumption
  <2>2. QED  BY <1>1, <2>1 DEF Counts
<1>6. Settling
  <2>1. Len(Rounds) \in Nat
    BY PoolAssumption, LenProperties
  <2>2. round \in 0..Len(Rounds)
    BY <1>1, <2>1
  <2>3. results \in SUBSET Results
    BY <1>1
  <2>4. QED  BY <1>1, <2>2, <2>3 DEF Settling
<1>7. Stages
  BY <1>1 DEF Stages, InFlight
<1>8. Budgets
  BY <1>1, PoolAssumption DEF Budgets
<1>9. AtRest
  BY <1>1, <1>2 DEF AtRest
<1>10. PoolInv
  BY <1>1, <1>3, <1>4, <1>5, <1>6, <1>7, <1>8, <1>9 DEF PoolInv, Types
<1>11. Dispatch!Init
  BY <1>1 DEF Dispatch!Init, InJobs, InSlots, Delivered
<1>12. QED  BY <1>10, <1>11

\* The pool keeps its jobs apart and its slots counted, in every round.
THEOREM PoolInvHolds == Spec => []PoolInv
<1>1. Init => PoolInv
  BY AtStart
<1>2. PoolInv /\ [Next]_vars => PoolInv'
  BY EveryStep
<1>3. QED  BY <1>1, <1>2, PTL DEF Spec

\* The dispatch of the pool, with its splits, deaths, timeouts and retries,
\* implements the one of WorkerDispatch: it resolves with every file of the round
\* returned once or set aside as a culprit, or rejects the round as a whole.
THEOREM DispatchImplemented == Spec => ImplementsDispatch
<1>1. Init => Dispatch!Init
  BY AtStart
<1>2. PoolInv /\ [Next]_vars => [Dispatch!Next]_(Dispatch!vars)
  BY EveryStep
<1>3. QED  BY <1>1, <1>2, PoolInvHolds, PTL DEF Spec, ImplementsDispatch, Dispatch!Spec

\* What is queued, worked on and returned, as the pieces of the round.
LEMMA HeldApart ==
  ASSUME PoolInv, outcome \in {"running", "resolved"}
  PROVE  /\ \A h \in Held : Piece(h) \in Results /\ InGroup(round, Piece(h))
         /\ \A g, h \in Held : g # h => Apart(Piece(g), Piece(h))
<1>1. /\ Spread(round, Desk, results) /\ Desk \in Desks /\ results \in SUBSET Results
  BY DEF PoolInv, Types, Settling
<1>2. jobs \in Seq(Jobs) /\ job \in [Slots -> Jobs \cup {NoJob}]
  BY <1>1, DeskFields DEF Desks
<1> DEFINE queued == {jobs[k] : k \in DOMAIN jobs}
           worked == {job[s] : s \in AtWork(Desk)}
<1>3. Held = queued \cup worked \cup results
  <2>1. AtWork(Desk) = {t \in Slots : job[t] # NoJob}
    BY DeskFields DEF AtWork
  <2>2. ToSet(jobs) = queued
    BY DEF ToSet
  <2>3. QED  BY <2>1, <2>2 DEF Held
<1>4. \A p \in results : Piece(p) = p
  BY <1>1 DEF Results, Piece
<1>5. /\ \A k \in DOMAIN jobs : jobs[k] \in Jobs
      /\ \A s \in AtWork(Desk) : job[s] \in Jobs
  BY <1>2, DeskFields DEF AtWork
<1>6. \A h \in Held : Piece(h) \in Results
  BY <1>1, <1>3, <1>4, <1>5, AJob
<1>7. \A h \in Held : InGroup(round, Piece(h))
  <2>1. \A h \in queued \cup worked : InGroup(round, Piece(h))
    BY <1>1, DeskFields DEF Spread, Sound
  <2>2. \A p \in results : InGroup(round, Piece(p))
    BY <1>1, <1>4 DEF Spread, Sound
  <2>3. QED  BY <1>3, <2>1, <2>2
<1>8. \A p, q : Apart(p, q) <=> Apart(q, p)
  BY DEF Apart
<1>9. ASSUME NEW g \in Held, NEW h \in Held, g # h PROVE Apart(Piece(g), Piece(h))
  <2>1. \A x, y \in queued : x # y => Apart(Piece(x), Piece(y))
    BY <1>1, DeskFields DEF Spread
  <2>2. \A x, y \in worked : x # y => Apart(Piece(x), Piece(y))
    BY <1>1, DeskFields DEF Spread
  <2>3. \A x, y \in results : x # y => Apart(Piece(x), Piece(y))
    BY <1>1, <1>4 DEF Spread
  <2>4. \A x \in queued, y \in worked : Apart(Piece(x), Piece(y))
    BY <1>1, DeskFields DEF Spread
  <2>5. \A x \in queued, y \in results : Apart(Piece(x), Piece(y))
    BY <1>1, <1>4, DeskFields DEF Spread
  <2>6. \A x \in worked, y \in results : Apart(Piece(x), Piece(y))
    BY <1>1, <1>4, DeskFields DEF Spread
  <2> HIDE DEF queued, worked
  <2>7. QED  BY <1>3, <1>8, <1>9, <2>1, <2>2, <2>3, <2>4, <2>5, <2>6
<1>10. QED  BY <1>6, <1>7, <1>9

\* Pieces that are apart are in the order of their startIndexes, and each is in
\* the group of its files.
LEMMA InOrder ==
  ASSUME NEW r \in DOMAIN Rounds, NEW p \in Results, InGroup(r, p)
  PROVE  /\ \A f \in p.files : GroupOf(r, f) = GroupOf(r, p.start)
         /\ \A q \in Results : InGroup(r, q) /\ Apart(p, q) =>
                (p.start < q.start <=> \A a \in p.files, b \in q.files : a < b)
<1>1. p.start \in Nat /\ p.files \in SUBSET Nat
  BY DEF Results
<1>2. \A g \in DOMAIN Rounds[r] : Rounds[r][g] \in Nat
  BY PoolAssumption
<1>3. ASSUME NEW f \in p.files PROVE GroupOf(r, f) = GroupOf(r, p.start)
  <2>1. \A g \in DOMAIN Rounds[r] : f <= Rounds[r][g] <=> p.start <= Rounds[r][g]
    <3>1. f \in Nat /\ p.start <= f
      BY <1>1 DEF InGroup
    <3>2. TAKE g \in DOMAIN Rounds[r]
    <3>3. Rounds[r][g] < p.start \/ f <= Rounds[r][g]
      BY DEF InGroup
    <3>4. QED  BY <1>1, <1>2, <3>1, <3>3
  <2>2. {g \in DOMAIN Rounds[r] : f <= Rounds[r][g]}
            = {g \in DOMAIN Rounds[r] : p.start <= Rounds[r][g]}
    BY <2>1
  <2>3. QED  BY <2>2 DEF GroupOf
<1>4. ASSUME NEW q \in Results, InGroup(r, q), Apart(p, q)
      PROVE  p.start < q.start <=> \A a \in p.files, b \in q.files : a < b
  <2>1. /\ q.start \in Nat /\ q.files \in SUBSET Nat /\ p.files # {} /\ q.files # {}
        /\ p.files \subseteq Files(r) /\ q.files \subseteq Files(r)
    BY <1>4 DEF Results, InGroup
  <2>2. Cardinality(p.files) \in Nat \ {0} /\ Cardinality(q.files) \in Nat \ {0}
    BY <2>1, Places, FS_EmptySet
  <2>3. CASE Before(p, q)
    <3>1. p.start + Cardinality(p.files) <= q.start
      BY <2>3 DEF Before
    <3>2. p.start < q.start
      BY <1>1, <2>1, <2>2, <3>1
    <3>3. QED  BY <2>3, <3>2 DEF Before
  <2>4. CASE Before(q, p)
    <3>1. q.start + Cardinality(q.files) <= p.start
      BY <2>4 DEF Before
    <3>2. ~(p.start < q.start)
      BY <1>1, <2>1, <2>2, <3>1
    <3>3. PICK a \in p.files, b \in q.files : a \in Nat /\ b \in Nat /\ b < a
      BY <1>1, <2>1, <2>4 DEF Before
    <3>4. ~(a < b)
      BY <3>3
    <3>5. QED  BY <3>2, <3>4
  <2>5. QED  BY <1>4, <2>3, <2>4 DEF Apart
<1>5. QED  BY <1>3, <1>4

\* A dispatch that is not over counts somebody, so somebody works or recovers.
LEMMA SomebodyLeft ==
  ASSUME PoolInv
  PROVE  NeverStalls
<1> SUFFICES ASSUME outcome = "running"
             PROVE  \E s \in Slots : job[s] # NoJob \/ recovery[s] # "none"
  BY DEF NeverStalls
<1>1. Staffed(Desk, Recovering) /\ activeWorkers # 0
  BY DEF PoolInv
<1>2. Cardinality(AtWork(Desk) \cup Recovering) # 0
  BY <1>1, DeskFields DEF Staffed
<1>3. AtWork(Desk) \cup Recovering # {}
  BY <1>2, FS_EmptySet
<1>4. QED  BY <1>3, DeskFields DEF AtWork, Recovering

\* The invariant gives what the runs check.
LEMMA PoolInvSays == PoolInv => Inv
<1> SUFFICES ASSUME PoolInv PROVE Inv
  OBVIOUS
<1>1. /\ Desk \in Desks /\ Starting /\ Counts /\ Settling
      /\ job \in [Slots -> Jobs \cup {NoJob}]
  BY DeskFields DEF PoolInv, Types, Desks
<1>2. /\ outcome # "running" => AtRest
      /\ outcome = "running" => Staffed(Desk, Recovering)
      /\ broken => outcome = "rejected"
  BY DEF PoolInv, Stages
<1>3. /\ AtWork(Desk) = {s \in Slots : job[s] # NoJob}
      /\ AtWork(Desk) \cup Recovering \in SUBSET Slots
  BY DeskFields DEF AtWork, Recovering
<1>4. TypeOK
  <2>1. StartupTypeOK
    BY <1>1, DeskFields DEF StartupTypeOK, Starting, Settling, Desks
  <2>2. activeWorkers \in 0..size
    <3>1. CASE outcome = "running"
      BY <1>2, <1>3, <3>1, SlotsFinite, DeskFields DEF Staffed
    <3>2. CASE outcome # "running"
      BY <1>2, <3>2, SizeAssumption DEF AtRest
    <3>3. QED  BY <3>1, <3>2
  <2>3. ASSUME NEW s \in Slots PROVE job[s].phase \in {"none", "parsing", "flushing"}
    <3>1. CASE s \in AtWork(Desk)
      <4>1. outcome = "running"
        BY <1>2, <3>1 DEF AtRest
      <4>2. job[s].phase # "queued" /\ job[s] \in Jobs
        BY <1>1, <1>2, <1>3, <3>1, <4>1, DeskFields DEF Staffed
      <4>3. job[s].phase \in Phases
        BY <4>2 DEF Jobs
      <4>4. QED  BY <4>2, <4>3 DEF Phases
    <3>2. CASE s \notin AtWork(Desk)
      BY <1>3, <3>2 DEF NoJob
    <3>3. QED  BY <3>1, <3>2
  <2>4. busy \subseteq Slots
    BY <1>1, DeskFields DEF Desks
  <2>5. QED  BY <1>1, <2>1, <2>2, <2>3, <2>4 DEF TypeOK, Counts, Settling
<1>5. Attributed
  <2> SUFFICES ASSUME outcome \in {"running", "resolved"}, NEW h \in Held
               PROVE  /\ \A f \in h.files : GroupOf(round, f) = GroupOf(round, h.start)
                      /\ \A g \in Held \ {h} :
                             h.start < g.start <=> \A a \in h.files, b \in g.files : a < b
    BY DEF Attributed
  <2>1. round \in DOMAIN Rounds
    BY <1>1, PoolAssumption DEF Settling
  <2>2. /\ \A x \in Held : Piece(x) \in Results /\ InGroup(round, Piece(x))
        /\ \A g, x \in Held : g # x => Apart(Piece(g), Piece(x))
    BY HeldApart
  <2>3. \A x : Piece(x).start = x.start /\ Piece(x).files = x.files
    BY DEF Piece
  <2> HIDE DEF Piece
  <2>4. /\ \A f \in Piece(h).files : GroupOf(round, f) = GroupOf(round, Piece(h).start)
        /\ \A q \in Results : InGroup(round, q) /\ Apart(Piece(h), q) =>
               (Piece(h).start < q.start <=> \A a \in Piece(h).files, b \in q.files : a < b)
    <3> DEFINE p == Piece(h)
    <3>1. p \in Results /\ InGroup(round, p)
      BY <2>2
    <3> HIDE DEF p
    <3>2. /\ \A f \in p.files : GroupOf(round, f) = GroupOf(round, p.start)
          /\ \A q \in Results : InGroup(round, q) /\ Apart(p, q) =>
                 (p.start < q.start <=> \A a \in p.files, b \in q.files : a < b)
      BY <2>1, <3>1, InOrder
    <3>3. QED  BY <3>2 DEF p
  <2>5. ASSUME NEW g \in Held \ {h}
        PROVE  h.start < g.start <=> \A a \in h.files, b \in g.files : a < b
    <3>1. Piece(g) \in Results /\ InGroup(round, Piece(g)) /\ Apart(Piece(h), Piece(g))
      BY <2>2
    <3>2. Piece(h).start < Piece(g).start
              <=> \A a \in Piece(h).files, b \in Piece(g).files : a < b
      BY <2>4, <3>1
    <3>3. QED  BY <2>3, <3>2
  <2>6. QED  BY <2>3, <2>4, <2>5
<1>6. CountAgrees
  <2>1. {s \in Slots : job[s] # NoJob \/ recovery[s] # "none"} = AtWork(Desk) \cup Recovering
    BY <1>3 DEF Recovering
  <2>2. outcome = "running" => activeWorkers = Cardinality(AtWork(Desk) \cup Recovering)
    BY <1>2, DeskFields DEF Staffed
  <2>3. outcome = "resolved" => AtWork(Desk) \cup Recovering = {} /\ jobs = <<>>
    BY <1>2 DEF AtRest
  <2>4. QED  BY <2>1, <2>2, <2>3 DEF CountAgrees
<1>7. AbortOnlyByBreaker
  BY DEF PoolInv, Stages, AbortOnlyByBreaker
<1>8. NeverStalls
  BY SomebodyLeft
<1>9. QED  BY <1>4, <1>5, <1>6, <1>7, <1>8 DEF Inv

\* The states of the pool have their types, a result is sorted with the chunk and
\* in the order of its files, the counter that ends a dispatch counts who works
\* and who recovers, a dispatch that is not over has one or the other to fetch what
\* is queued, and only the breaker terminates a worker at work.
THEOREM InvHolds == Spec => []Inv
<1>1. QED  BY PoolInvHolds, PoolInvSays, PTL

=============================================================================
