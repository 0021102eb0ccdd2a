------------------------- MODULE PlanLemmas -------------------------
(***************************************************************************)
(* What the proofs about making a batch and those about inserting it both  *)
(* rest on: induction over the natural numbers, stated for sets instead of *)
(* predicates, and recursion over them, stated for functions instead of    *)
(* operators; the types of the blocks, of a batch and of the worker; and   *)
(* what is left of Inv to be shown for a step that only moves the worker   *)
(* on.                                                                     *)
(***************************************************************************)
EXTENDS InsertPlan, TLAPS

LOCAL INSTANCE WellFoundedInduction

\* Every set of numbers has a least one.
LEMMA Least ==
    ASSUME NEW T \in SUBSET Nat, T # {}
    PROVE  \E x \in T : \A y \in T : x <= y
  <1> DEFINE LessThan == {p \in Nat \X Nat : p[1] < p[2]}
  <1>1. IsWellFoundedOn(LessThan, Nat)
    BY NatLessThanWellFounded DEF OpToRel
  <1>2. PICK x \in T : \A y \in T : <<y, x>> \notin LessThan
    <2> HIDE DEF LessThan
    <2> QED BY <1>1, WFMin, Zenon
  <1>3. ASSUME NEW y \in T
        PROVE  x <= y
    <2>1. x \in Nat /\ y \in Nat
      OBVIOUS
    <2>2. y < x => <<y, x>> \in LessThan
      BY <2>1
    <2> HIDE DEF LessThan
    <2> QED BY <1>2, <2>1, <2>2
  <1> QED BY <1>3

\* A set with 0 that has n + 1 with every n has every number.
LEMMA Induction ==
    ASSUME NEW P \in SUBSET Nat, 0 \in P, \A n \in P : n + 1 \in P
    PROVE  P = Nat
  <1> SUFFICES ASSUME Nat \ P # {}
               PROVE  FALSE
    BY Zenon
  <1>1. PICK x \in Nat \ P : \A y \in Nat \ P : x <= y
    BY Least, Zenon
  <1>2. x - 1 \in Nat /\ x - 1 \notin Nat \ P
    BY <1>1
  <1> QED BY <1>1, <1>2

\* A set of numbers with a bound has a greatest one.
LEMMA Greatest ==
    ASSUME NEW T \in SUBSET Nat, T # {}, NEW n \in Nat, \A y \in T : y <= n
    PROVE  Max(T) \in T /\ \A y \in T : y <= Max(T)
  <1> DEFINE B == {m \in Nat : \A y \in T : y <= m}
  <1>1. PICK m \in B : \A k \in B : m <= k
    <2>1. B \in SUBSET Nat /\ n \in B
      OBVIOUS
    <2> HIDE DEF B
    <2> QED BY <2>1, Least
  <1>2. m \in T
    <2> SUFFICES ASSUME m \notin T
                 PROVE  FALSE
      OBVIOUS
    <2>1. PICK x \in T : TRUE
      BY Zenon
    <2>2. x \in Nat /\ x < m
      BY <1>1
    <2>3. m - 1 \in Nat /\ \A y \in T : y <= m - 1
      BY <1>1, <2>2
    <2> QED BY <1>1, <2>3
  <1>3. \E x \in T : \A y \in T : x >= y
    BY <1>1, <1>2
  <1>4. Max(T) \in T /\ \A y \in T : Max(T) >= y
    BY <1>3, Zenon DEF Max
  <1> QED BY <1>4

Recursive(f, S, b, g) ==
    f \in [Nat -> S] /\ f[0] = b /\ \A n \in Nat : f[n + 1] = g[<<f[n], n>>]

\* The function that recursion over the numbers defines exists.
LEMMA Recursion ==
    ASSUME NEW S, NEW b \in S, NEW g \in [S \X Nat -> S]
    PROVE  \E f : Recursive(f, S, b, g)
  <1> DEFINE Solves(n, f) == /\ f \in [0 .. n -> S] /\ f[0] = b
                             /\ \A k \in 0 .. n - 1 : f[k + 1] = g[<<f[k], k>>]
             P == {n \in Nat : \E f : Solves(n, f)}
  <1>1. P = Nat
    <2>1. 0 \in P
      <3>1. Solves(0, [k \in 0 .. 0 |-> b])
        OBVIOUS
      <3> QED BY <3>1, Zenon
    <2>2. ASSUME NEW n \in P
          PROVE  n + 1 \in P
      <3>1. PICK f : Solves(n, f)
        OBVIOUS
      <3> DEFINE h == [k \in 0 .. n + 1 |-> IF k = n + 1 THEN g[<<f[n], n>>] ELSE f[k]]
      <3>2. f[n] \in S /\ g[<<f[n], n>>] \in S
        BY <3>1
      <3>3. h \in [0 .. n + 1 -> S] /\ h[0] = b
        BY <3>1, <3>2
      <3>4. ASSUME NEW k \in 0 .. (n + 1) - 1
            PROVE  h[k + 1] = g[<<h[k], k>>]
        <4>1. CASE k = n
          <5>1. h[n + 1] = g[<<f[n], n>>] /\ h[n] = f[n]
            OBVIOUS
          <5> QED BY <4>1, <5>1, Zenon
        <4>2. CASE k # n
          <5>1. k \in 0 .. n - 1
            BY <4>2
          <5>2. h[k] = f[k] /\ h[k + 1] = f[k + 1]
            BY <5>1
          <5> QED BY <3>1, <5>1, <5>2
        <4> QED BY <4>1, <4>2
      <3>5. Solves(n + 1, h)
        BY <3>3, <3>4, Zenon
      <3>6. \E e : Solves(n + 1, e)
        <4> HIDE DEF Solves, h
        <4> QED BY <3>5
      <3> QED BY <3>6
    <2>3. P \in SUBSET Nat
      OBVIOUS
    <2> HIDE DEF P
    <2> QED BY <2>1, <2>2, <2>3, Induction
  <1>2. ASSUME NEW n \in Nat, NEW m \in Nat, NEW f, NEW h, Solves(n, f), Solves(m, h), n <= m
        PROVE  f[n] = h[n]
    <2> DEFINE Q == {k \in Nat : k <= n => f[k] = h[k]}
    <2>1. 0 \in Q
      BY <1>2
    <2>2. ASSUME NEW k \in Q
          PROVE  k + 1 \in Q
      <3> SUFFICES ASSUME k + 1 <= n
                   PROVE  f[k + 1] = h[k + 1]
        OBVIOUS
      <3>1. k \in 0 .. n - 1 /\ k \in 0 .. m - 1 /\ f[k] = h[k]
        BY <1>2
      <3> QED BY <3>1, <1>2, Zenon
    <2>3. Q \in SUBSET Nat
      OBVIOUS
    <2>4. Q = Nat
      <3> HIDE DEF Q
      <3> QED BY <2>1, <2>2, <2>3, Induction
    <2> QED BY <2>4
  <1> DEFINE F == [n \in Nat |-> (CHOOSE f : Solves(n, f))[n]]
  <1>3. ASSUME NEW n \in Nat
        PROVE  Solves(n, CHOOSE f : Solves(n, f))
    <2>1. \E f : Solves(n, f)
      BY <1>1
    <2> HIDE DEF Solves
    <2> QED BY <2>1, Zenon
  <1>4. F \in [Nat -> S]
    <2>1. ASSUME NEW n \in Nat PROVE (CHOOSE f : Solves(n, f))[n] \in S
      <3> DEFINE e == CHOOSE f : Solves(n, f)
      <3>1. Solves(n, e)
        BY <1>3, Zenon
      <3> HIDE DEF e
      <3>2. e[n] \in S
        BY <3>1
      <3> QED BY <3>2 DEF e
    <2> HIDE DEF Solves
    <2> QED BY <2>1
  <1>5. F[0] = b
    BY <1>3, Zenon
  <1>6. ASSUME NEW n \in Nat
        PROVE  F[n + 1] = g[<<F[n], n>>]
    <2>1. PICK f : f = (CHOOSE e : Solves(n, e)) /\ Solves(n, f)
      <3> HIDE DEF Solves
      <3> QED BY <1>3, Zenon
    <2>2. PICK h : h = (CHOOSE e : Solves(n + 1, e)) /\ Solves(n + 1, h)
      <3>1. n + 1 \in Nat
        OBVIOUS
      <3> HIDE DEF Solves
      <3> QED BY <1>3, <3>1
    <2>3. f[n] = h[n]
      <3>1. n + 1 \in Nat /\ n <= n + 1
        OBVIOUS
      <3> HIDE DEF Solves
      <3> QED BY <1>2, <2>1, <2>2, <3>1
    <2>4. F[n] = f[n] /\ F[n + 1] = h[n + 1]
      <3> HIDE DEF Solves
      <3> QED BY <2>1, <2>2
    <2>5. h[n + 1] = g[<<h[n], n>>]
      <3>1. n \in 0 .. (n + 1) - 1
        OBVIOUS
      <3> QED BY <2>2, <3>1, Zenon
    <2> QED BY <2>3, <2>4, <2>5, Zenon
  <1>7. Recursive(F, S, b, g)
    BY <1>4, <1>5, <1>6, Zenon DEF Recursive
  <1> QED BY <1>7

\* The world of the current state has its type.
LEMMA WorldType ==
    ASSUME Chains
    PROVE  /\ World \in Worlds /\ World.ledger = ledger /\ World.height = Len(snaps)
           /\ World.from = from /\ World.content = content
  BY DEF Chains, World, Worlds

\* The height of a chain is a natural number.
LEMMA BaseType == ASSUME NEW w \in Worlds, NEW o \in Owner PROVE Base(w, o) \in Nat
  BY DEF Worlds, Base, Owner

\* What a block refers to are account blocks.
LEMMA NeedsType ==
    ASSUME QueueAssumption, NEW w \in Worlds, NEW o \in Owner, NEW h \in 1 .. Limit(o)
    PROVE  Needs(w, o, h) \subseteq [acc : Accounts, h : Nat]
  <1>1. CASE o = None
    <2>1. \A a \in Accounts : w.content[h][a] \in Nat
      BY <1>1 DEF Worlds, QueueAssumption, Limit
    <2> QED BY <1>1, <2>1 DEF Needs
  <1>2. CASE o # None
    <2>1. [acc |-> o, h |-> h] \in Block
      BY <1>2 DEF Block, Owner, Limit
    <2>2. w.from[[acc |-> o, h |-> h]] \in Block \cup {None}
      BY <2>1 DEF Worlds
    <2>3. Block \subseteq [acc : Accounts, h : Nat]
      BY DEF Block, QueueAssumption
    <2> QED BY <1>2, <2>2, <2>3 DEF Needs
  <1> QED BY <1>1, <1>2

\* In the current state, needs are the references of the model: the send block of a receive
\* block, and the blocks that a snapshot block confirms.
LEMMA NeedsOf ==
    ASSUME Chains, QueueAssumption
    PROVE  /\ \A r : Stored(World, r) <=> InLedger(r)
           /\ \A a \in Accounts : \A h : Needs(World, a, h) = From([acc |-> a, h |-> h])
           /\ \A s \in 1 .. Snapshots : Needs(World, None, s) = SnapshotContent(s)
  <1>1. \A r : Stored(World, r) <=> InLedger(r)
    BY WorldType DEF Stored, InLedger
  <1>2. \A a \in Accounts : \A h : Needs(World, a, h) = From([acc |-> a, h |-> h])
    BY WorldType DEF Needs, From, QueueAssumption
  <1>3. ASSUME NEW s \in 1 .. Snapshots PROVE Needs(World, None, s) = SnapshotContent(s)
    <2>1. \A c \in Accounts : Confirmed(s - 1)[c] = IF s = 1 THEN 0 ELSE content[s - 1][c]
      BY DEF Confirmed, QueueAssumption
    <2> QED BY <2>1, WorldType DEF Needs, SnapshotContent
  <1> QED BY <1>1, <1>2, <1>3

\* What the parts of a batch are.
LEMMA BatchFacts ==
    ASSUME NEW q \in Batch
    PROVE  /\ Len(q.levels) \in Nat /\ DOMAIN q.levels = 1 .. Len(q.levels) /\ q.lastSnapshot \in Nat /\ q.version \in Nat
           /\ \A i \in 1 .. Len(q.levels) : q.levels[i] \in Level /\ q.levels[i].buckets \in [Owner -> Seq(Nat)]
           /\ \A i, o, h : Has(Buckets(q), o, h, i) <=> i \in 1 .. Len(q.levels) /\ h \in Range(q.levels[i].buckets[o])
  <1>1. q.levels \in Seq(Level) /\ q.lastSnapshot \in Nat /\ q.version \in Nat
    BY DEF Batch
  <1>2. Len(q.levels) \in Nat /\ DOMAIN q.levels = 1 .. Len(q.levels) /\ \A i \in 1 .. Len(q.levels) : q.levels[i] \in Level
    BY <1>1
  <1>3. \A l \in Level : l.buckets \in [Owner -> Seq(Nat)]
    BY DEF Level
  <1>4. \A i, o, h : Has(Buckets(q), o, h, i) <=> i \in 1 .. Len(q.levels) /\ h \in Range(q.levels[i].buckets[o])
    BY <1>2 DEF Has, Buckets
  <1> QED BY <1>1, <1>2, <1>3, <1>4

\* The pool's snapshot chain is the ledger's, but for a block of this node at its end.
LEMMA PoolSnapsType ==
    ASSUME Chains
    PROVE  /\ PoolSnaps \in Nat /\ Len(snaps) \in Nat /\ PoolSnaps <= Len(snaps)
           /\ OwnSnaps <=> PoolSnaps < Len(snaps)
  <1>1. Len(snaps) \in Nat /\ (snaps # <<>> => Len(snaps) > 0)
    BY DEF Chains
  <1>2. CASE OwnSnaps
    BY <1>1, <1>2 DEF PoolSnaps, OwnSnaps
  <1>3. CASE ~ OwnSnaps
    BY <1>1, <1>3 DEF PoolSnaps
  <1> QED BY <1>2, <1>3

\* A bucket with a height is not empty.
LEMMA EmptyHas == ASSUME NEW L, NEW o, NEW h, NEW i, Has(L, o, h, i) PROVE L[i][o] # <<>>
  BY DEF Has, Range

\* A plan with nothing in it is good.
LEMMA EmptyGood ==
    ASSUME NEW M \in Plans, NEW w, \A i \in DOMAIN M, p \in Owner : M[i][p] = <<>>
    PROVE  Good(M, w)
  <1>1. ASSUME NEW p \in Owner, NEW h \in Nat, NEW i \in Nat, Has(M, p, h, i) PROVE FALSE
    <2>1. M[i][p] # <<>>
      BY <1>1, EmptyHas
    <2> QED BY <1>1, <2>1 DEF Has
  <1>2. \A i \in DOMAIN M, p \in Owner : Increasing(M[i][p])
    BY DEF Increasing
  <1>3. Ordered(M)
    BY <1>1, <1>2 DEF Ordered
  <1>4. Connected(M, w) /\ References(M, w)
    BY <1>1 DEF Connected, References
  <1>5. Apart(M)
    BY DEF Apart, Owner
  <1> QED BY <1>3, <1>4, <1>5 DEF Good

\* The name of a phase tells what the worker has in hand.
LEMMA PhaseOf ==
    ASSUME NEW b \in Phases
    PROVE  /\ b.phase \in {"idle", "done", "next", "snapshot", "accounts", "chunk", "execute"}
           /\ b.phase = "next" => b \in Nexts
           /\ b.phase = "snapshot" => b \in Drains
           /\ b.phase = "accounts" => b \in Packs
           /\ b.phase \in {"chunk", "execute"} => b \in Chunkings
  BY DEF Phases, Idles, Nexts, Drains, Packs, Chunkings

\* No insertion has its type, and nothing in it.
LEMMA NoRunFacts ==
    /\ NoRun \in Runs /\ Nothing \in [Owner -> Seq(Nat)] /\ NoRun.level = 0 /\ NoRun.wait = Nothing
    /\ NoRun.running = {} /\ NoRun.failed = FALSE
  BY DEF NoRun, Runs, Nothing

\* A new batch is empty.
LEMMA NoBatchFacts ==
    ASSUME NEW v \in Nat
    PROVE  /\ NewBatch(v) \in Batch /\ Sorted(NewBatch(v)) /\ NewBatch(v).levels = <<>> /\ NewBatch(v).version = v
           /\ \A o, g : ~ InBatch(NewBatch(v), o, g)
  <1>1. NewBatch(v).levels = <<>> /\ NewBatch(v).version = v /\ NewBatch(v).lastSnapshot = 0
    BY DEF NewBatch
  <1>2. NewBatch(v) \in Batch
    BY DEF NewBatch, Batch
  <1>3. Sorted(NewBatch(v))
    BY <1>1 DEF Sorted
  <1>4. \A o, g : ~ InBatch(NewBatch(v), o, g)
    BY <1>1 DEF InBatch, Has, Buckets
  <1> QED BY <1>1, <1>2, <1>3, <1>4

\* What is left of a batch is a plan of as many levels.
LEMMA LeftType ==
    ASSUME NEW q \in Batch, NEW r \in Runs
    PROVE  LeftOf(q, r) \in Plans /\ DOMAIN LeftOf(q, r) = 1 .. Len(q.levels)
  <1>1. DOMAIN q.levels = 1 .. Len(q.levels) /\ Len(q.levels) \in Nat
        /\ \A i \in 1 .. Len(q.levels) : q.levels[i].buckets \in [Owner -> Seq(Nat)]
    BY BatchFacts
  <1>2. r.wait \in [Owner -> Seq(Nat)] /\ Nothing \in [Owner -> Seq(Nat)]
    BY NoRunFacts DEF Runs
  <1>3. \A i \in 1 .. Len(q.levels) : LeftOf(q, r)[i] \in [Owner -> Seq(Nat)]
    BY <1>1, <1>2 DEF LeftOf
  <1>4. LeftOf(q, r) = [i \in 1 .. Len(q.levels) |-> LeftOf(q, r)[i]]
    BY <1>1 DEF LeftOf
  <1>5. LeftOf(q, r) \in [1 .. Len(q.levels) -> [Owner -> Seq(Nat)]]
    BY <1>3, <1>4
  <1> QED BY <1>1, <1>5, Zenon DEF Plans

\* Before a batch is inserted, and when its first level begins, all of it is left.
LEMMA LeftAll ==
    ASSUME NEW q \in Batch, NEW r \in Runs, ~ r.failed,
           r.level = 0 \/ (r.level = 1 /\ r.wait = q.levels[1].buckets)
    PROVE  LeftOf(q, r) = Buckets(q)
  <1>1. DOMAIN q.levels = 1 .. Len(q.levels) /\ Len(q.levels) \in Nat
    BY BatchFacts
  <1>2. ASSUME NEW i \in DOMAIN q.levels PROVE LeftOf(q, r)[i] = q.levels[i].buckets
    BY <1>1 DEF LeftOf
  <1>3. LeftOf(q, r) = [i \in DOMAIN q.levels |-> LeftOf(q, r)[i]]
    BY DEF LeftOf
  <1> QED BY <1>2, <1>3 DEF Buckets

\* A step that leaves the blocks and the ledger leaves all that depends on them.
LEMMA Still ==
    ASSUME UNCHANGED <<blocks, chain>>
    PROVE  /\ from' = from /\ content' = content /\ ledger' = ledger /\ own' = own /\ snaps' = snaps
           /\ version' = version /\ World' = World
           /\ Chains => Chains'
           /\ Grows => Grows'
           /\ PoolSnaps' = PoolSnaps /\ (OwnSnaps' <=> OwnSnaps)
           /\ \A s : ChunkBlocks(s)' = ChunkBlocks(s)
  <1>1. /\ from' = from /\ content' = content /\ ledger' = ledger /\ own' = own /\ snaps' = snaps
        /\ version' = version
    BY DEF blocks, chain
  <1>2. World' = World
    BY <1>1 DEF World
  <1>3. Chains => Chains'
    BY <1>1 DEF Chains
  <1>4. Grows => Grows'
    BY <1>1 DEF Grows
  <1>5. OwnSnaps' <=> OwnSnaps
    BY <1>1 DEF OwnSnaps
  <1>6. PoolSnaps' = PoolSnaps
    BY <1>1, <1>5 DEF PoolSnaps
  <1>7. \A s : ChunkBlocks(s)' = ChunkBlocks(s)
    BY <1>1 DEF ChunkBlocks, Confirmed
  <1> QED BY <1>1, <1>2, <1>3, <1>4, <1>5, <1>6, <1>7

\* What is left of an empty batch is good.
LEMMA EmptyPlan ==
    ASSUME NEW q \in Batch, q.levels = <<>>, NEW r \in Runs, NEW w
    PROVE  Good(LeftOf(q, r), w)
  <1>1. LeftOf(q, r) \in Plans /\ DOMAIN LeftOf(q, r) = {}
    BY LeftType
  <1> QED BY <1>1, EmptyGood

\* The worker may always throw its batch away.
LEMMA GoIdle ==
    ASSUME Chains', Grows', version' \in Nat, batch' = NoBatch, build' = NotMaking, run' = NoRun
    PROVE  Inv'
  <1>1. batch' \in Batch /\ Sorted(batch') /\ batch'.levels = <<>> /\ batch'.version = 0
    BY NoBatchFacts DEF NoBatch
  <1>2. build'.phase = "idle" /\ build' \in Phases
    BY DEF NotMaking, Phases, Idles
  <1>3. Phase' /\ Chunks'
    BY <1>1, <1>2 DEF Phase, Chunks
  <1>4. Good(LeftOf(batch', run'), World')
    BY <1>1, NoRunFacts, EmptyPlan
  <1>5. Making'
    BY <1>2 DEF Making
  <1>6. Shape'
    BY <1>1, <1>2, <1>3, NoRunFacts DEF Shape
  <1> QED BY <1>4, <1>5, <1>6 DEF Inv, Plan

\* The insertion of a batch begins.
Starts(q) == run' = [NoRun EXCEPT !.level = 1, !.wait = q.levels[1].buckets]

\* The insertion of a batch begins with all of it left.
LEMMA StartsRun ==
    ASSUME NEW q \in Batch, q.levels # <<>>, Starts(q)
    PROVE  /\ run' \in Runs /\ run'.level \in DOMAIN q.levels /\ LeftOf(q, run') = Buckets(q)
  <1>1. 1 \in DOMAIN q.levels /\ q.levels[1].buckets \in [Owner -> Seq(Nat)]
    BY BatchFacts DEF Batch
  <1>2. run' \in Runs /\ run'.level = 1 /\ ~ run'.failed /\ run'.wait = q.levels[1].buckets
    BY <1>1, NoRunFacts, Zenon DEF Starts, NoRun, Runs
  <1> QED BY <1>1, <1>2, LeftAll

\* A good batch that is finished may be inserted.
LEMMA GoDone ==
    ASSUME Chains, Grows, version \in Nat, UNCHANGED <<blocks, chain>>, run = NoRun,
           NEW q \in Batch, Sorted(q), q.version <= version, Made(q),
           version = q.version => Good(Buckets(q), World)
    PROVE  Inv'
  <1>0. Chains' /\ Grows' /\ version' \in Nat /\ World' = World /\ version' = version
    BY Still
  <1>1. CASE q.levels = <<>>
    <2>1. batch' = NoBatch /\ build' = NotMaking /\ run' = NoRun
      BY <1>1 DEF Made
    <2> QED BY <2>1, <1>0, GoIdle
  <1>2. CASE q.levels # <<>>
    <2>1. batch' = q /\ build' = [phase |-> "done"] /\ Starts(q)
      BY <1>2 DEF Made, Starts
    <2>2. build'.phase = "done" /\ build' \in Phases
      BY <2>1 DEF Phases, Idles
    <2>3. run' \in Runs /\ run'.level \in DOMAIN q.levels /\ LeftOf(q, run') = Buckets(q)
      BY <1>2, <2>1, StartsRun
    <2>4. Phase' /\ Chunks'
      BY <1>0, <2>1, <2>2, <2>3 DEF Phase, Chunks
    <2>5. Making'
      BY <2>2 DEF Making
    <2>6. Shape'
      BY <1>0, <2>1, <2>2, <2>3, <2>4 DEF Shape
    <2>7. Plan'
      BY <1>0, <2>1, <2>3, <2>5 DEF Plan
    <2> QED BY <2>6, <2>7 DEF Inv
  <1> QED BY <1>1, <1>2

\* A step of the making of a batch: the batch stays good, and what is still to be added is above it.
LEMMA GoBuild ==
    ASSUME Chains, Grows, version \in Nat, UNCHANGED <<blocks, chain>>, run' = NoRun,
           batch' \in Batch, Sorted(batch'), batch'.version <= version,
           build' \in Phases, build'.phase \in {"next", "snapshot", "accounts", "chunk"}, Chunks',
           version = batch'.version => Good(Buckets(batch'), World) /\ Making'
    PROVE  Inv'
  <1>0. Chains' /\ Grows' /\ version' \in Nat /\ World' = World /\ version' = version
    BY Still
  <1>1. Phase'
    BY <1>0 DEF Phase
  <1>2. Shape'
    BY <1>0, <1>1, NoRunFacts DEF Shape
  <1>3. LeftOf(batch', run') = Buckets(batch')
    BY NoRunFacts, LeftAll
  <1>4. Plan'
    BY <1>0, <1>3 DEF Plan
  <1> QED BY <1>2, <1>4 DEF Inv

\* A batch of a chunk that is full may be inserted before the chunk goes on.
LEMMA GoExecute ==
    ASSUME Inv, UNCHANGED <<blocks, chain>>, build.phase = "chunk", batch.levels # <<>>, Execute
    PROVE  Inv'
  <1>0. Chains' /\ Grows' /\ version' \in Nat /\ World' = World /\ version' = version
    BY Still DEF Inv, Shape
  <1>1. batch' = batch /\ batch \in Batch /\ Starts(batch) /\ Sorted(batch)
    BY DEF Execute, Starts, Inv, Shape
  <1>2. build \in Chunkings /\ build' = [build EXCEPT !.phase = "execute"]
    BY PhaseOf DEF Inv, Shape, Execute
  <1>3. /\ build' \in Chunkings /\ build'.phase = "execute" /\ build'.s = build.s /\ build'.head = build.head
        /\ build'.blocks = build.blocks
    BY <1>2 DEF Chunkings
  <1>4. run' \in Runs /\ run'.level \in DOMAIN batch.levels /\ LeftOf(batch, run') = Buckets(batch)
    BY <1>1, StartsRun
  <1>5. LeftOf(batch, run) = Buckets(batch) /\ batch.version <= version
    BY <1>1, NoRunFacts, LeftAll DEF Inv, Shape, Phase
  <1>6. Phase'
    BY <1>0, <1>1, <1>3, <1>4, <1>5 DEF Phase
  <1>7. Chunks'
    BY <1>3, Still DEF Chunks, Inv, Shape
  <1>8. Shape'
    BY <1>0, <1>1, <1>3, <1>4, <1>6, <1>7 DEF Shape, Phases
  <1>9. Making'
    BY <1>3 DEF Making
  <1>10. Plan'
    BY <1>0, <1>1, <1>4, <1>5, <1>9 DEF Plan, Inv
  <1> QED BY <1>8, <1>10 DEF Inv

(* Making a batch. *)

\* An empty batch is good, and has no height.
LEMMA EmptyBuckets == ASSUME NEW q \in Batch, q.levels = <<>>, NEW w
                      PROVE  Good(Buckets(q), w) /\ \A o, g : ~ InBatch(q, o, g)
  <1>1. Good(LeftOf(q, NoRun), w) /\ LeftOf(q, NoRun) = Buckets(q)
    BY NoRunFacts, EmptyPlan, LeftAll
  <1>2. \A o, g : ~ InBatch(q, o, g)
    BY DEF InBatch, Has, Buckets
  <1> QED BY <1>1, <1>2

\* What holds while a batch is made.
LEMMA Building ==
    ASSUME Inv, build.phase \notin {"done", "execute"}
    PROVE  /\ run = NoRun /\ Chains /\ Grows /\ version \in Nat /\ batch \in Batch /\ Sorted(batch)
           /\ build \in Phases /\ batch.version <= version
           /\ version = batch.version => Good(Buckets(batch), World) /\ Making
  <1>1. /\ run = NoRun /\ Chains /\ Grows /\ version \in Nat /\ batch \in Batch /\ Sorted(batch)
        /\ build \in Phases /\ batch.version <= version
    BY DEF Inv, Shape, Phase
  <1>2. LeftOf(batch, run) = Buckets(batch)
    BY <1>1, NoRunFacts, LeftAll
  <1> QED BY <1>1, <1>2 DEF Inv, Plan
=============================================================================
