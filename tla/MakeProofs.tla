------------------------- MODULE MakeProofs -------------------------
(***************************************************************************)
(* The steps that make a batch keep Inv: makeSnapshotBlock, makePackage    *)
(* and insertChunks put only blocks into it whose predecessor is in the    *)
(* ledger or in the batch.                                                 *)
(***************************************************************************)
EXTENDS LevelLemmas

\* The blocks of an account that a snapshot block confirms and that are neither in the ledger
\* nor in the batch: above both, and growing.
LEMMA StackFacts ==
    ASSUME Chains, QueueAssumption, batch \in Batch, NEW s \in 1 .. Snapshots, NEW a \in Accounts
    PROVE  /\ Stack(s, a) \in Seq(1 .. Length) /\ Increasing(Stack(s, a))
           /\ \A k \in DOMAIN Stack(s, a) :
                 /\ Stack(s, a)[k] > ledger[a] /\ Stack(s, a)[k] <= content[s][a]
                 /\ \A h \in 1 .. content[s][a] : InBatch(batch, a, h) => h < Stack(s, a)[k]
  <1> DEFINE T == {TailHeight(a)} \cup {h \in 1 .. content[s][a] : Exists(batch, a, h)}
             top == Max(T)
             c == content[s][a]
             q == [i \in 1 .. c - top |-> top + i]
  <1>1. c \in 0 .. Length /\ ledger[a] \in Nat /\ own[a] \in Nat /\ Length \in Nat
    BY DEF Chains, QueueAssumption
  <1>2. TailHeight(a) \in Nat /\ TailHeight(a) >= ledger[a]
    BY <1>1 DEF TailHeight
  <1>3. top \in T /\ \A y \in T : y <= top
    <2>1. T \in SUBSET Nat /\ T # {}
      BY <1>1, <1>2
    <2>2. c + TailHeight(a) \in Nat /\ \A y \in T : y <= c + TailHeight(a)
      BY <1>1, <1>2
    <2> HIDE DEF T
    <2> QED BY <2>1, <2>2, Greatest
  <1>4. top \in Nat /\ top >= ledger[a] /\ \A h \in 1 .. c : Exists(batch, a, h) => h <= top
    <2> HIDE DEF top
    <2>1. T \subseteq Nat /\ TailHeight(a) \in T
      BY <1>1, <1>2
    <2>2. top \in Nat /\ TailHeight(a) <= top
      <3> HIDE DEF T
      <3> QED BY <2>1, <1>3, Zenon
    <2>3. \A h \in 1 .. c : Exists(batch, a, h) => h <= top
      BY <1>3, Zenon
    <2> QED BY <2>2, <2>3, <1>1, <1>2
  <1>5. Stack(s, a) = q \/ Stack(s, a) = <<>>
    BY Zenon DEF Stack
  <1> HIDE DEF top, c
  <1>6. \A k \in 1 .. c - top : q[k] = top + k /\ q[k] \in 1 .. Length /\ q[k] > ledger[a] /\ q[k] <= c
    BY <1>1, <1>4
  <1>7. DOMAIN q = 1 .. c - top /\ q \in Seq(1 .. Length)
    <2>1. DOMAIN q = 1 .. c - top /\ q = [i \in 1 .. c - top |-> q[i]]
      BY Zenon
    <2> HIDE DEF q
    <2>2. CASE c - top >= 0
      <3> DEFINE m == c - top
      <3>1. m \in Nat
        BY <2>2, <1>1, <1>4
      <3>2. q \in [1 .. m -> 1 .. Length]
        BY <2>1, <1>6, Zenon
      <3> HIDE DEF m
      <3>3. q \in Seq(1 .. Length)
        BY <3>1, <3>2
      <3> QED BY <3>3, <2>1, Zenon
    <2>3. CASE ~(c - top >= 0)
      <3>1. 1 .. c - top = {}
        BY <2>3, <1>1, <1>4
      <3>2. q = <<>>
        BY <3>1, <2>1
      <3> QED BY <3>2, <2>1
    <2> QED BY <2>2, <2>3, Zenon
  <1> HIDE DEF q
  <1>8. Increasing(q)
    BY <1>1, <1>4, <1>6, <1>7 DEF Increasing
  <1>9. \A k \in DOMAIN q, h \in 1 .. c : InBatch(batch, a, h) => h < q[k]
    <2> SUFFICES ASSUME NEW k \in DOMAIN q, NEW h \in 1 .. c, InBatch(batch, a, h)
                 PROVE  h < q[k]
      BY Zenon
    <2>1. Exists(batch, a, h)
      BY ExistsInBatch, Zenon
    <2>2. h <= top /\ q[k] = top + k /\ k >= 1
      BY <2>1, <1>1, <1>4, <1>6, <1>7
    <2> QED BY <2>2, <1>1, <1>4, <1>7
  <1>10. CASE Stack(s, a) = q
    BY <1>6, <1>7, <1>8, <1>9, <1>10, Zenon DEF c
  <1>11. CASE Stack(s, a) = <<>>
    BY <1>11 DEF Increasing
  <1> QED BY <1>5, <1>10, <1>11, Zenon

\* A block of a plan is one of its chain.
LEMMA BlockOf ==
    ASSUME NEW w, NEW q \in Batch, Good(Buckets(q), w), NEW o \in Owner, NEW g \in Nat, InBatch(q, o, g)
    PROVE  g \in 1 .. Limit(o)
  BY Zenon DEF Good, References, InBatch

\* Taking the next snapshot block stacks the blocks that it confirms.
LEMMA MakeSnapshotBlockInv == ASSUME QueueAssumption, Inv, MakeSnapshotBlock PROVE Inv'
  <1> DEFINE s == build.offset + 1
             stacks == [a \in Accounts |-> Stack(s, a)]
  <1>1. /\ build.phase = "next" /\ ~ OwnSnaps /\ build.offset < Snapshots
        /\ UNCHANGED <<blocks, chain>> /\ batch' = batch /\ run' = run
    BY Zenon DEF MakeSnapshotBlock, NextSnapshot
  <1>2. build' = [phase |-> "snapshot", s |-> s, stacks |-> stacks, round |-> NonEmpty(stacks), sum |-> FALSE]
    BY Zenon DEF MakeSnapshotBlock
  <1>3. /\ run = NoRun /\ Chains /\ Grows /\ version \in Nat /\ batch \in Batch /\ Sorted(batch)
        /\ build \in Phases /\ batch.version <= version
        /\ version = batch.version => Good(Buckets(batch), World) /\ MakingNext
    BY <1>1, Building, Zenon DEF Making
  <1>4. build.offset \in Nat /\ s \in 1 .. Snapshots /\ s - 1 = build.offset /\ Snapshots \in Nat
    BY <1>1, <1>3, PhaseOf DEF Nexts, QueueAssumption
  <1> HIDE DEF s
  <1>5. \A a \in Accounts : stacks[a] = Stack(s, a) /\ stacks[a] \in Seq(1 .. Length)
    BY <1>3, <1>4, StackFacts, Zenon
  <1>6. stacks \in [Accounts -> Seq(1 .. Length)] /\ NonEmpty(stacks) \in SUBSET Accounts
    BY <1>5, Zenon DEF NonEmpty
  <1> HIDE DEF stacks
  <1>7. build' \in Drains /\ build'.phase = "snapshot" /\ build'.s = s /\ build'.stacks = stacks
    BY <1>2, <1>4, <1>6, Zenon DEF Drains
  <1>8. ASSUME version = batch.version PROVE MakingSnapshot'
    <2>1. Good(Buckets(batch), World) /\ MakingNext
      BY <1>3, <1>8, Zenon
    <2>2. s > Len(snaps) /\ Upto(batch, None, s - 1)
      BY <2>1, <1>3, <1>4, PoolSnapsType DEF MakingNext
    <2>3. ASSUME NEW a \in Accounts
          PROVE  Upto(batch, a, content[s][a]) /\ \A g \in Nat : InBatch(batch, a, g) => g \in 1 .. content[s][a]
      <3>1. CASE batch.levels = <<>>
        BY <3>1, <1>3, EmptyBuckets, Zenon DEF Upto
      <3>2. CASE batch.levels # <<>>
        <4>1. build.offset \in 1 .. Snapshots /\ Upto(batch, a, content[build.offset][a])
          BY <3>2, <2>1, Zenon DEF MakingNext
        <4>2. s \in 2 .. Snapshots
          BY <1>4, <4>1
        <4>3. content[s - 1][a] <= content[s][a] /\ content[s - 1][a] \in Nat /\ content[s][a] \in Nat
          BY <1>3, <1>4, <4>1, <4>2 DEF Grows, Chains
        <4>4. \A g \in Nat : InBatch(batch, a, g) => g <= content[s][a] /\ g \in 1 .. Limit(a)
          BY <4>1, <4>3, <1>3, <1>4, <2>1, BlockOf DEF Upto, Owner
        <4> QED BY <4>3, <4>4 DEF Upto, Limit
      <3> QED BY <3>1, <3>2, Zenon
    <2>4. ASSUME NEW a \in Accounts
          PROVE  /\ Increasing(stacks[a])
                 /\ \A k \in DOMAIN stacks[a] :
                       /\ Upto(batch, a, stacks[a][k] - 1) /\ stacks[a][k] > ledger[a]
                       /\ stacks[a][k] <= content[s][a]
      <3>1. /\ stacks[a] \in Seq(1 .. Length) /\ Increasing(stacks[a])
            /\ \A k \in DOMAIN stacks[a] :
                  /\ stacks[a][k] > ledger[a] /\ stacks[a][k] <= content[s][a]
                  /\ \A h \in 1 .. content[s][a] : InBatch(batch, a, h) => h < stacks[a][k]
        BY <1>3, <1>4, <1>5, StackFacts
      <3>2. ASSUME NEW k \in DOMAIN stacks[a] PROVE Upto(batch, a, stacks[a][k] - 1)
        <4>1. stacks[a][k] \in Nat
          BY <3>1
        <4>2. \A g \in Nat : InBatch(batch, a, g) => g < stacks[a][k]
          BY <3>1, <2>3, Zenon
        <4> QED BY <4>1, <4>2 DEF Upto
      <3> QED BY <3>1, <3>2, Zenon
    <2> QED BY <2>2, <2>3, <2>4, <1>1, <1>7, Still, Zenon DEF MakingSnapshot
  <1>9. Chunks' /\ (version = batch.version => Making')
    BY <1>7, <1>8, Zenon DEF Making, Chunks
  <1>10. build' \in Phases
    BY <1>7, Zenon DEF Phases
  <1> QED BY <1>1, <1>3, <1>7, <1>9, <1>10, GoBuild, Zenon

\* With no snapshot block left the batch is finished, or the accounts are packed.
LEMMA NoSnapshotBlockInv == ASSUME Inv, NoSnapshotBlock PROVE Inv'
  <1>1. build.phase = "next" /\ UNCHANGED <<blocks, chain>>
    BY Zenon DEF NoSnapshotBlock
  <1>2. /\ run = NoRun /\ Chains /\ Grows /\ version \in Nat /\ batch \in Batch /\ Sorted(batch)
        /\ batch.version <= version /\ (version = batch.version => Good(Buckets(batch), World))
    BY <1>1, Building, Zenon
  <1>3. CASE batch.levels # <<>>
    <2>1. Made(batch)
      BY <1>3, Zenon DEF NoSnapshotBlock
    <2> QED BY <2>1, <1>1, <1>2, GoDone, Zenon
  <1>4. CASE batch.levels = <<>>
    <2>1. /\ build' = [phase |-> "accounts", offset |-> [a \in Accounts |-> Unset], round |-> Accounts, sum |-> FALSE]
          /\ batch' = batch /\ run' = run
      BY <1>4, Zenon DEF NoSnapshotBlock
    <2>2. build' \in Packs /\ build'.phase = "accounts" /\ \A a \in Accounts : build'.offset[a] = Unset
      BY <2>1, Zenon DEF Packs
    <2>3. MakingAccounts'
      BY <2>1, <2>2, <1>2, <1>4, EmptyBuckets DEF MakingAccounts, Upto
    <2>4. Making' /\ Chunks' /\ build' \in Phases
      BY <2>2, <2>3, Zenon DEF Making, Chunks, Phases
    <2> QED BY <2>1, <2>2, <2>4, <1>1, <1>2, GoBuild
  <1> QED BY <1>3, <1>4, Zenon

\* Accounts that are switched to the snapshot block cost the batch, which is empty.
LEMMA PendingFixInv == ASSUME QueueAssumption, Inv, NEW accounts \in SUBSET Accounts, PendingFix(accounts) PROVE Inv'
  <1>1. build.phase = "next" /\ from' = from /\ content' = content /\ ledger' = ledger /\ snaps' = snaps /\ run' = run
        /\ build' = NotMaking /\ batch' = NoBatch
    BY Zenon DEF PendingFix, NextSnapshot, blocks
  <1>2. run = NoRun /\ Chains /\ Grows /\ version \in Nat
    BY <1>1, Building, Zenon
  <1>3. own' \in [Accounts -> Nat] /\ version' \in Nat
    BY <1>2 DEF PendingFix, Chains
  <1>4. Chains' /\ Grows'
    BY <1>1, <1>2, <1>3, Zenon DEF Chains, Grows
  <1> QED BY <1>1, <1>2, <1>3, <1>4, GoIdle

\* The snapshot block is added once what it confirms is in the batch.
LEMMA AddSItemInv == ASSUME QueueAssumption, Inv, AddSItem PROVE Inv'
  <1> DEFINE added == addSnapshotItem(batch, build.s)
  <1>1. build.phase = "snapshot" /\ UNCHANGED <<blocks, chain>>
    BY Zenon DEF AddSItem
  <1>2. /\ run = NoRun /\ Chains /\ Grows /\ version \in Nat /\ batch \in Batch /\ Sorted(batch)
        /\ build \in Drains /\ batch.version <= version
        /\ version = batch.version => Good(Buckets(batch), World) /\ MakingSnapshot
    BY <1>1, Building, PhaseOf, Zenon DEF Making
  <1>3. \/ build' = [build EXCEPT !.round = NonEmpty(build.stacks), !.sum = FALSE] /\ batch' = batch /\ run' = run
        \/ added.err = "none" /\ build' = [phase |-> "next", offset |-> build.s] /\ batch' = added.q /\ run' = run
        \/ Made(batch)
    BY Zenon DEF AddSItem
  <1>4. CASE build' = [build EXCEPT !.round = NonEmpty(build.stacks), !.sum = FALSE] /\ batch' = batch /\ run' = run
    <2>1. build' \in Drains /\ build'.phase = "snapshot" /\ build'.s = build.s /\ build'.stacks = build.stacks
      BY <1>2, <1>4, Zenon DEF Drains, NonEmpty
    <2>2. MakingSnapshot => MakingSnapshot'
      BY <2>1, <1>1, <1>4, Still DEF MakingSnapshot
    <2>3. Chunks' /\ (MakingSnapshot => Making') /\ build' \in Phases
      BY <2>1, <2>2, Zenon DEF Making, Chunks, Phases
    <2> QED BY <2>1, <2>3, <1>1, <1>2, <1>4, GoBuild, Zenon
  <1>5. CASE added.err = "none" /\ build' = [phase |-> "next", offset |-> build.s] /\ batch' = added.q /\ run' = run
    <2>1. build.s \in 1 .. Snapshots /\ build.s \in Nat
      BY <1>2 DEF Drains, QueueAssumption
    <2>2. build' \in Nexts /\ build'.phase = "next" /\ build'.offset = build.s
      BY <1>5, <2>1, Zenon DEF Nexts
    <2>3. batch' \in Batch /\ Sorted(batch') /\ batch'.version = batch.version
      BY <1>2, <1>5, <2>1, SnapshotItemType, Zenon
    <2>4. ASSUME version = batch.version PROVE Good(Buckets(batch'), World) /\ MakingNext'
      <3>1. Good(Buckets(batch), World) /\ MakingSnapshot
        BY <1>2, <2>4, Zenon
      <3>2. /\ build.s > Len(snaps) /\ Upto(batch, None, build.s - 1) /\ ~ OwnSnaps
            /\ \A a \in Accounts : Upto(batch, a, content[build.s][a])
        BY <3>1, Zenon DEF MakingSnapshot
      <3>3. \A g \in Nat : InBatch(batch, None, g) => g < build.s
        BY <3>2, <2>1 DEF Upto
      <3>4. Fine(batch)
        BY <3>1, <1>2, Zenon DEF Fine
      <3>5. /\ Fine(batch')
            /\ \A p \in Owner, g \in Nat : InBatch(batch', p, g) <=> InBatch(batch, p, g) \/ (p = None /\ g = build.s)
        BY <3>2, <3>3, <3>4, <2>1, <1>2, <1>5, SnapshotItem
      <3>6. Upto(batch', None, build.s)
        BY <3>3, <3>5, <2>1 DEF Upto, Owner
      <3>7. \A a \in Accounts : Upto(batch', a, content[build.s][a])
        BY <3>2, <3>5, Zenon DEF Upto, Owner, QueueAssumption
      <3>8. MakingNext'
        BY <3>2, <3>6, <3>7, <2>1, <2>2, <1>1, <1>2, PoolSnapsType, Still DEF MakingNext
      <3> QED BY <3>5, <3>8, Zenon DEF Fine
    <2>5. Chunks' /\ (MakingNext' => Making') /\ build' \in Phases
      BY <2>2, Zenon DEF Making, Chunks, Phases
    <2> QED BY <2>2, <2>3, <2>4, <2>5, <1>1, <1>2, <1>5, GoBuild
  <1>6. CASE Made(batch)
    BY <1>1, <1>2, <1>6, GoDone, Zenon
  <1> QED BY <1>3, <1>4, <1>5, <1>6, Zenon

\* The batch is finished when no account adds anything.
LEMMA PackagesEndInv == ASSUME Inv, PackagesEnd PROVE Inv'
  <1>1. build.phase = "accounts" /\ UNCHANGED <<blocks, chain>>
    BY Zenon DEF PackagesEnd
  <1>2. /\ run = NoRun /\ Chains /\ Grows /\ version \in Nat /\ batch \in Batch /\ Sorted(batch)
        /\ build \in Packs /\ batch.version <= version
        /\ version = batch.version => Good(Buckets(batch), World) /\ MakingAccounts
    BY <1>1, Building, PhaseOf, Zenon DEF Making
  <1>3. CASE build.sum
    <2>1. build' = [build EXCEPT !.round = Accounts, !.sum = FALSE] /\ batch' = batch /\ run' = run
      BY <1>3, Zenon DEF PackagesEnd
    <2>2. build' \in Packs /\ build'.phase = "accounts" /\ build'.offset = build.offset
      BY <1>2, <2>1, Zenon DEF Packs
    <2>3. MakingAccounts => MakingAccounts'
      BY <2>1, <2>2, <1>1, Still, Zenon DEF MakingAccounts
    <2>4. Chunks' /\ (MakingAccounts => Making') /\ build' \in Phases
      BY <2>2, <2>3, Zenon DEF Making, Chunks, Phases
    <2> QED BY <2>1, <2>2, <2>4, <1>1, <1>2, GoBuild
  <1>4. CASE ~ build.sum
    <2>1. Made(batch)
      BY <1>4, Zenon DEF PackagesEnd
    <2> QED BY <2>1, <1>1, <1>2, GoDone
  <1> QED BY <1>3, <1>4, Zenon

\* The rest of a sequence is a sequence.
LEMMA RestType ==
    ASSUME NEW S, NEW s \in Seq(S), NEW n \in Nat
    PROVE  SubSeq(s, n + 1, Len(s)) \in Seq(S)
  OBVIOUS

\* The rest of an increasing sequence is increasing, and above the part taken.
LEMMA Rest ==
    ASSUME NEW S \in SUBSET Nat, NEW s \in Seq(S), Increasing(s), NEW n \in 0 .. Len(s)
    PROVE  /\ SubSeq(s, n + 1, Len(s)) \in Seq(S) /\ Increasing(SubSeq(s, n + 1, Len(s)))
           /\ \A k \in DOMAIN SubSeq(s, n + 1, Len(s)) :
                 /\ n + k \in DOMAIN s /\ SubSeq(s, n + 1, Len(s))[k] = s[n + k]
                 /\ \A l \in 1 .. n : s[l] < s[n + k]
  <1> DEFINE t == SubSeq(s, n + 1, Len(s))
  <1>1. Len(s) \in Nat /\ n \in Nat /\ n <= Len(s) /\ DOMAIN s = 1 .. Len(s)
    OBVIOUS
  <1>2. \A k \in 1 .. Len(s) : s[k] \in S /\ s[k] \in Nat
    <2>1. \A k \in 1 .. Len(s) : s[k] \in S
      OBVIOUS
    <2> QED BY <2>1, Zenon
  <1> DEFINE m == n + 1
  <1>3. m \in Nat \ {0} /\ m <= Len(s) + 1 /\ Len(s) - m + 1 = Len(s) - n /\ Len(s) - n \in Nat
    BY <1>1
  <1>4. DOMAIN t = 1 .. Len(s) - n /\ \A k \in 1 .. Len(s) - n : t[k] = s[n + k]
    <2>1. t = [k \in 1 .. (1 + Len(s) - m) |-> s[k + m - 1]]
      <3> HIDE DEF m
      <3>1. SubSeq(s, m, Len(s)) = [k \in 1 .. (1 + Len(s) - m) |-> s[k + m - 1]]
        BY <1>3 DEF SubSeq
      <3> QED BY <3>1, Zenon DEF m
    <2>2. 1 + Len(s) - m = Len(s) - n
      BY <1>1
    <2>3. \A k \in Nat : k + m - 1 = n + k
      BY <1>1
    <2> HIDE DEF m, t
    <2>4. DOMAIN t = 1 .. (1 + Len(s) - m) /\ \A k \in 1 .. (1 + Len(s) - m) : t[k] = s[k + m - 1]
      BY <2>1, Zenon
    <2>5. ASSUME NEW k \in 1 .. Len(s) - n PROVE t[k] = s[n + k]
      <3>1. k \in Nat /\ k \in 1 .. (1 + Len(s) - m)
        BY <2>2, <1>1
      <3>2. t[k] = s[k + m - 1] /\ k + m - 1 = n + k
        BY <3>1, <2>3, <2>4, Zenon
      <3> QED BY <3>2, Zenon
    <2>6. DOMAIN t = 1 .. Len(s) - n
      BY <2>2, <2>4, Zenon
    <2> QED BY <2>5, <2>6, Zenon
  <1>5. t \in Seq(S)
    BY <1>1, RestType, Zenon
  <1> HIDE DEF t, m
  <1>6. \A k \in 1 .. Len(s) - n : n + k \in 1 .. Len(s)
    BY <1>1
  <1>7. Increasing(t)
    <2> SUFFICES ASSUME NEW k \in 1 .. Len(s) - n, NEW l \in 1 .. Len(s) - n, k < l
                 PROVE  t[k] < t[l]
      BY <1>4, Zenon DEF Increasing
    <2>1. n + k < n + l /\ n + k \in DOMAIN s /\ n + l \in DOMAIN s
      BY <1>1, <1>6
    <2> QED BY <2>1, <1>4, Zenon DEF Increasing
  <1>8. ASSUME NEW k \in 1 .. Len(s) - n, NEW l \in 1 .. n PROVE s[l] < s[n + k]
    <2>1. l < n + k /\ l \in DOMAIN s /\ n + k \in DOMAIN s
      BY <1>1, <1>6
    <2> QED BY <2>1, Zenon DEF Increasing
  <1> QED BY <1>1, <1>4, <1>5, <1>6, <1>7, <1>8 DEF t, m

\* Draining an account adds the first blocks of its stack, and leaves the others.
LEMMA DrainAccountInv == ASSUME QueueAssumption, Inv, NEW a \in Accounts, DrainAccount(a) PROVE Inv'
  <1> DEFINE hs == build.stacks[a]
             added == AddAll(batch, a, hs)
  <1>1. build.phase = "snapshot" /\ UNCHANGED <<blocks, chain>>
    BY Zenon DEF DrainAccount
  <1>2. /\ run = NoRun /\ Chains /\ Grows /\ version \in Nat /\ batch \in Batch /\ Sorted(batch)
        /\ build \in Drains /\ batch.version <= version /\ batch.version \in Nat
        /\ version = batch.version => Good(Buckets(batch), World) /\ MakingSnapshot
    BY <1>1, Building, PhaseOf, BatchFacts, Zenon DEF Making
  <1>3. hs \in Seq(1 .. Length) /\ build.stacks \in [Accounts -> Seq(1 .. Length)] /\ Len(hs) \in Nat
    BY <1>2 DEF Drains
  <1>4. added \in Adding(batch.version)
    BY <1>2, <1>3, AddAllType, Zenon
  <1>5. added.q \in Batch /\ Sorted(added.q) /\ added.q.version = batch.version /\ added.n \in Nat
    BY <1>4, Zenon DEF Adding
  <1>6. ASSUME version = batch.version
        PROVE  AddedFirst(added, batch, a, hs) /\ MakingSnapshot /\ Increasing(hs)
    <2>1. Fine(batch) /\ MakingSnapshot
      BY <1>2, <1>6, Zenon DEF Fine
    <2>2. Increasing(hs) /\ \A k \in DOMAIN hs : Upto(batch, a, hs[k] - 1) /\ hs[k] > ledger[a] /\ hs[k] \in Nat
      BY <2>1, <1>3 DEF MakingSnapshot
    <2>3. \A k \in DOMAIN hs, g \in Nat : InBatch(batch, a, g) => g < hs[k]
      BY <2>2 DEF Upto
    <2>4. Above(batch, a, hs)
      BY <2>2, <2>3, Zenon DEF Above
    <2> QED BY <2>1, <2>2, <2>4, <1>2, <1>3, AddAllFirst, Zenon
  <1>7. CASE added.err = "max"
    <2>1. Made(added.q)
      BY <1>7, Zenon DEF DrainAccount
    <2>2. version = batch.version => Good(Buckets(added.q), World)
      BY <1>6, Zenon DEF AddedFirst, Fine
    <2> QED BY <2>1, <2>2, <1>1, <1>2, <1>5, GoDone
  <1>8. CASE added.err # "max"
    <2> DEFINE rest == SubSeq(hs, added.n + 1, Len(hs))
    <2>1. /\ build' = [build EXCEPT !.round = @ \ {a}, !.sum = @ \/ added.n > 0, !.stacks[a] = rest]
          /\ batch' = added.q /\ run' = run
      BY <1>8, Zenon DEF DrainAccount
    <2>2. rest \in Seq(1 .. Length)
      BY <1>3, <1>5, RestType, Zenon
    <2> HIDE DEF rest, added, hs
    <2>3. /\ build' \in Drains /\ build'.phase = "snapshot" /\ build'.s = build.s
          /\ \A c \in Accounts : build'.stacks[c] = IF c = a THEN rest ELSE build.stacks[c]
      BY <2>1, <2>2, <1>2, Zenon DEF Drains
    <2>4. ASSUME version = batch.version PROVE Good(Buckets(batch'), World) /\ MakingSnapshot'
      <3>1. AddedFirst(added, batch, a, hs) /\ MakingSnapshot /\ Increasing(hs)
        BY <1>6, <2>4, Zenon
      <3>2. /\ added.n \in 0 .. Len(hs) /\ Fine(batch')
            /\ \A p \in Owner, g \in Nat : InBatch(batch', p, g) =>
                  InBatch(batch, p, g) \/ (p = a /\ \E l \in 1 .. added.n : g = hs[l])
        BY <3>1, <2>1, Zenon DEF AddedFirst
      <3>3. a # None /\ a \in Owner /\ None \in Owner
        BY Zenon DEF Owner, QueueAssumption
      <3>4. /\ Increasing(rest)
            /\ \A k \in DOMAIN rest : /\ added.n + k \in DOMAIN hs /\ rest[k] = hs[added.n + k]
                                      /\ \A l \in 1 .. added.n : hs[l] < hs[added.n + k]
        <4>1. 1 .. Length \in SUBSET Nat
          BY DEF QueueAssumption
        <4> QED BY <4>1, <3>1, <3>2, <1>3, Rest, Zenon DEF rest
      <3>5. /\ \A k \in DOMAIN hs : hs[k] \in Nat /\ Upto(batch, a, hs[k] - 1) /\ hs[k] > ledger[a]
                                    /\ hs[k] <= content[build.s][a]
            /\ DOMAIN hs = 1 .. Len(hs)
        BY <3>1, <1>3 DEF MakingSnapshot, hs
      <3>6. Upto(batch', None, build.s - 1)
        BY <3>1, <3>2, <3>3, Zenon DEF MakingSnapshot, Upto
      <3>7. ASSUME NEW c \in Accounts, c # a
            PROVE  /\ Upto(batch', c, content[build.s][c]) /\ Increasing(build'.stacks[c])
                   /\ \A k \in DOMAIN build'.stacks[c] :
                         /\ Upto(batch', c, build'.stacks[c][k] - 1) /\ build'.stacks[c][k] > ledger[c]
                         /\ build'.stacks[c][k] <= content[build.s][c]
        <4>1. build'.stacks[c] = build.stacks[c] /\ c \in Owner
          BY <3>7, <2>3, Zenon DEF Owner
        <4>2. \A g \in Nat : InBatch(batch', c, g) => InBatch(batch, c, g)
          BY <4>1, <3>2, <3>7, Zenon
        <4>3. \A n : Upto(batch, c, n) => Upto(batch', c, n)
          BY <4>2, Zenon DEF Upto
        <4> QED BY <4>1, <4>3, <3>1, Zenon DEF MakingSnapshot
      <3>8. Upto(batch', a, content[build.s][a])
        <4>1. Upto(batch, a, content[build.s][a])
          BY <3>1, Zenon DEF MakingSnapshot
        <4>2. \A l \in 1 .. added.n : l \in DOMAIN hs
          BY <3>2, <3>5, <1>3
        <4> QED BY <4>1, <4>2, <3>2, <3>3, <3>5 DEF Upto
      <3>9. ASSUME NEW k \in DOMAIN rest
            PROVE  /\ Upto(batch', a, rest[k] - 1) /\ rest[k] > ledger[a] /\ rest[k] <= content[build.s][a]
        <4>1. rest[k] \in Nat /\ Upto(batch, a, rest[k] - 1) /\ rest[k] > ledger[a] /\ rest[k] <= content[build.s][a]
          BY <3>4, <3>5, Zenon
        <4>2. \A l \in 1 .. added.n : hs[l] < rest[k] /\ hs[l] \in Nat
          BY <3>2, <3>4, <3>5, <1>3
        <4>3. \A g \in Nat : InBatch(batch', a, g) => g <= rest[k] - 1
          BY <4>1, <4>2, <3>2, <3>3 DEF Upto
        <4> QED BY <4>1, <4>3, Zenon DEF Upto
      <3>10. build.s > Len(snaps) /\ ~ OwnSnaps
        BY <3>1, Zenon DEF MakingSnapshot
      <3>11. MakingSnapshot'
        <4>1. build'.stacks[a] = rest
          BY <2>3, Zenon
        <4> QED BY <4>1, <3>4, <3>6, <3>7, <3>8, <3>9, <3>10, <2>3, <1>1, Still DEF MakingSnapshot
      <3> QED BY <3>2, <3>11, Zenon DEF Fine
    <2>5. Chunks' /\ (MakingSnapshot' => Making') /\ build' \in Phases
      BY <2>3, Zenon DEF Making, Chunks, Phases
    <2> QED BY <2>1, <2>3, <2>4, <2>5, <1>1, <1>2, <1>5, GoBuild
  <1> QED BY <1>7, <1>8, Zenon

\* A package adds the next blocks of an account that are connected to its offset.
LEMMA MakePackageInv ==
    ASSUME QueueAssumption, Inv, NEW a \in Accounts, NEW n \in 0 .. Length, MakePackage(a, n)
    PROVE  Inv'
  <1> DEFINE offset == IF build.offset[a] = Unset THEN TailHeight(a) ELSE build.offset[a]
             hs == [i \in 1 .. n |-> offset + i]
             added == AddAll(batch, a, hs)
             allIn == offset + added.n = Length
             last == IF own[a] = 0 THEN offset + added.n ELSE build.offset[a]
  <1>1. build.phase = "accounts" /\ UNCHANGED <<blocks, chain>> /\ run' = run /\ batch' = added.q
    BY Zenon DEF MakePackage
  <1>2. n = 0 \/ (own[a] = 0 /\ offset + n <= Length)
    BY Zenon DEF MakePackage
  <1>3. /\ run = NoRun /\ Chains /\ Grows /\ version \in Nat /\ batch \in Batch /\ Sorted(batch)
        /\ build \in Packs /\ batch.version <= version
        /\ version = batch.version => Good(Buckets(batch), World) /\ MakingAccounts
    BY <1>1, Building, PhaseOf, Zenon DEF Making
  <1>4. /\ build' = [build EXCEPT !.round = @ \ {a}, !.offset[a] = last,
                                  !.sum = @ \/ added.n > (IF allIn THEN 1 ELSE 0)]
    BY <1>3, Zenon DEF MakePackage, Packs
  <1>5. build.offset \in [Accounts -> Nat \cup {Unset}] /\ ledger[a] \in Nat /\ own[a] \in Nat /\ n \in Nat /\ Length \in Nat
    BY <1>3 DEF Packs, Chains, QueueAssumption
  <1>6. offset \in Nat /\ (build.offset[a] # Unset => offset = build.offset[a])
        /\ (build.offset[a] = Unset /\ own[a] = 0 => offset = ledger[a])
    BY <1>5 DEF TailHeight
  <1> HIDE DEF offset, allIn
  <1>7. \A k \in 1 .. n : hs[k] = offset + k /\ hs[k] \in 1 .. Length
    BY <1>2, <1>5, <1>6
  <1>8. hs \in Seq(1 .. Length) /\ DOMAIN hs = 1 .. n /\ Len(hs) = n
    <2>1. hs = [k \in 1 .. n |-> hs[k]] /\ DOMAIN hs = 1 .. n
      BY Zenon
    <2> HIDE DEF hs
    <2>2. hs \in [1 .. n -> 1 .. Length]
      BY <2>1, <1>7, Zenon
    <2>3. hs \in Seq(1 .. Length)
      BY <2>2, <1>5
    <2> QED BY <2>1, <2>3, <1>5
  <1> HIDE DEF hs
  <1>9. added \in Adding(batch.version)
    BY <1>3, <1>8, AddAllType, Zenon
  <1>10. batch' \in Batch /\ Sorted(batch') /\ batch'.version = batch.version /\ added.n \in Nat
    BY <1>1, <1>9, Zenon DEF Adding
  <1> HIDE DEF added
  <1>11. last \in Nat \cup {Unset}
    BY <1>5, <1>6, <1>10
  <1> HIDE DEF last
  <1>12. /\ build' \in Packs /\ build'.phase = "accounts"
         /\ \A c \in Accounts : build'.offset[c] = IF c = a THEN last ELSE build.offset[c]
    BY <1>3, <1>4, <1>11, Zenon DEF Packs
  <1>13. ASSUME version = batch.version PROVE Good(Buckets(batch'), World) /\ MakingAccounts'
    <2>1. Fine(batch) /\ MakingAccounts
      BY <1>3, <1>13, Zenon DEF Fine
    <2>2. IF build.offset[a] = Unset THEN Upto(batch, a, 0)
          ELSE Upto(batch, a, build.offset[a]) /\ build.offset[a] >= ledger[a]
      BY <2>1, Zenon DEF MakingAccounts
    <2>3. Upto(batch, a, offset)
      BY <2>2, <1>5, <1>6 DEF Upto
    <2>4. own[a] = 0 => offset >= ledger[a]
      BY <2>2, <1>5, <1>6
    <2>5. Above(batch, a, hs)
      <3>1. Increasing(hs)
        BY <1>5, <1>6, <1>7, <1>8 DEF Increasing
      <3>2. ASSUME NEW k \in 1 .. n PROVE hs[k] > ledger[a] /\ \A g \in Nat : InBatch(batch, a, g) => g < hs[k]
        <4>1. own[a] = 0 /\ offset >= ledger[a] /\ k >= 1 /\ hs[k] = offset + k /\ k \in Nat
          BY <1>2, <1>5, <1>7, <2>4
        <4>2. \A g \in Nat : InBatch(batch, a, g) => g <= offset
          BY <2>3, Zenon DEF Upto
        <4> QED BY <4>1, <4>2, <1>5, <1>6
      <3> QED BY <3>1, <3>2, <1>8, Zenon DEF Above
    <2>6. AddedFirst(added, batch, a, hs)
      BY <2>1, <2>5, <1>3, <1>8, AddAllFirst, Zenon DEF added
    <2>7. /\ added.n \in 0 .. n /\ Fine(batch')
          /\ \A p \in Owner, g \in Nat : InBatch(batch', p, g) =>
                InBatch(batch, p, g) \/ (p = a /\ \E l \in 1 .. added.n : g = hs[l])
      BY <2>6, <1>1, <1>8, Zenon DEF AddedFirst
    <2>8. ASSUME NEW c \in Accounts, c # a
          PROVE  IF build.offset[c] = Unset THEN Upto(batch', c, 0)
                 ELSE Upto(batch', c, build.offset[c]) /\ build.offset[c] >= ledger[c]
      <3>1. \A g \in Nat : InBatch(batch', c, g) => InBatch(batch, c, g)
        BY <2>7, <2>8, Zenon DEF Owner
      <3>2. \A m : Upto(batch, c, m) => Upto(batch', c, m)
        BY <3>1, Zenon DEF Upto
      <3> QED BY <3>2, <2>1, Zenon DEF MakingAccounts
    <2>9. IF last = Unset THEN Upto(batch', a, 0) ELSE Upto(batch', a, last) /\ last >= ledger[a]
      <3>1. CASE own[a] = 0
        <4>1. last = offset + added.n /\ last \in Nat /\ last >= offset
          BY <3>1, <1>6, <1>10 DEF last
        <4>2. last # Unset
          BY <4>1 DEF Unset
        <4>3. \A l \in 1 .. added.n : hs[l] <= last /\ l \in 1 .. n
          BY <4>1, <1>5, <1>6, <1>7, <2>7
        <4>4. \A g \in Nat : InBatch(batch', a, g) => g <= last
          <5> SUFFICES ASSUME NEW g \in Nat, InBatch(batch', a, g) PROVE g <= last
            BY Zenon
          <5>1. InBatch(batch, a, g) \/ \E l \in 1 .. added.n : g = hs[l]
            BY <2>7, Zenon DEF Owner
          <5>2. CASE InBatch(batch, a, g)
            BY <5>2, <2>3, <4>1, <1>6 DEF Upto
          <5> QED BY <5>1, <5>2, <4>3, Zenon
        <4>5. Upto(batch', a, last)
          BY <4>4, Zenon DEF Upto
        <4> QED BY <4>1, <4>2, <4>5, <2>4, <3>1, <1>5, <1>6
      <3>2. CASE own[a] # 0
        <4>1. last = build.offset[a] /\ n = 0
          BY <3>2, <1>2, Zenon DEF last
        <4>2. \A g \in Nat : InBatch(batch', a, g) => InBatch(batch, a, g)
          BY <4>1, <2>7 DEF Owner
        <4>3. \A m : Upto(batch, a, m) => Upto(batch', a, m)
          BY <4>2, Zenon DEF Upto
        <4> QED BY <4>1, <4>3, <2>2, Zenon
      <3> QED BY <3>1, <3>2, Zenon
    <2>10. MakingAccounts'
      BY <2>8, <2>9, <1>1, <1>12, Still, Zenon DEF MakingAccounts
    <2> QED BY <2>7, <2>10, Zenon DEF Fine
  <1>14. Chunks' /\ (MakingAccounts' => Making') /\ build' \in Phases
    BY <1>12, Zenon DEF Making, Chunks, Phases
  <1> QED BY <1>1, <1>3, <1>10, <1>12, <1>13, <1>14, GoBuild

(* A chunk. *)

\* An empty batch has a level for every item.
LEMMA RoomAtFirst ==
    ASSUME QueueAssumption, NEW q \in Batch, Sorted(q), q.levels = <<>>, NEW b, NEW s
    PROVE  addAccountItem(q, b).err # "max" /\ addSnapshotItem(q, s).err # "max"
  <1>1. Len(q.levels) = 0 /\ Current(q) = 0 /\ q.lastSnapshot = 0 /\ \A o, h : LevelsOf(q, o, h) = {}
    BY BatchFacts DEF Sorted, Current, LevelsOf
  <1>2. MaxLevel \in Nat \ {0}
    BY Zenon DEF QueueAssumption
  <1>3. \A f, r : ReferTo(q, b, f, r) = f \/ (ReferTo(q, b, f, r) = [f EXCEPT !.err = "reference"])
    BY <1>1 DEF ReferTo
  <1>4. \A f, rs : ReferAll(q, b, f, rs) = f \/ (ReferAll(q, b, f, rs) = [f EXCEPT !.err = "reference"])
    BY <1>3, Zenon DEF ReferAll
  <1> DEFINE zero == [max |-> 0, err |-> "none"]
             one == [max |-> 0, err |-> "reference"]
             first == ReferAll(q, b, zero, From(b))
             found == ReferAll(q, b, first, Prev(b))
  <1>5. first = zero \/ first = one
    BY <1>4
  <1>6. found = zero \/ found = one
    <2> HIDE DEF first
    <2>1. [zero EXCEPT !.err = "reference"] = one /\ [one EXCEPT !.err = "reference"] = one
      OBVIOUS
    <2> HIDE DEF zero, one
    <2> QED BY <1>4, <1>5, <2>1, Zenon
  <1>7. found.max = 0 /\ found.err # "max"
    <2> HIDE DEF found
    <2> QED BY <1>6
  <1>8. addAccountItem(q, b).err # "max"
    <2> HIDE DEF found
    <2>1. addAccountItem(q, b) =
             LET least == IF found.max = 0 THEN q.lastSnapshot + 1 ELSE found.max
                 max == IF least <= Current(q) /\ q.levels[Current(q)].snapshot THEN Current(q) + 1 ELSE least
             IN CASE found.err # "none" -> [q |-> q, err |-> found.err]
                  [] found.err = "none" /\ max > MaxLevel -> [q |-> q, err |-> "max"]
                  [] found.err = "none" /\ max <= MaxLevel /\ ~ Follows(q, max, b.acc, b.h) ->
                        [q |-> q, err |-> "prev"]
                  [] OTHER -> [q |-> Added(q, max, b.acc, b.h), err |-> "none"]
      BY Zenon DEF addAccountItem, found
    <2> QED BY <2>1, <1>1, <1>2, <1>7
  <1>9. addSnapshotItem(q, s).err # "max"
    BY <1>1, <1>2 DEF addSnapshotItem
  <1> QED BY <1>8, <1>9, Zenon

\* A chunk in hand has its type.
LEMMA ChunkType ==
    ASSUME NEW s \in 1 .. Snapshots + 1, NEW head \in 1 .. Snapshots
    PROVE  /\ Chunk(s, head) \in Chunkings /\ Chunk(s, head).phase = "chunk"
           /\ Chunk(s, head).s = s /\ Chunk(s, head).head = head
           /\ Chunk(s, head).blocks = IF s <= head THEN ChunkBlocks(s) ELSE {}
  BY Zenon DEF Chunk, Chunkings, ChunkBlocks

\* The blocks of snapshot block s are above those of the one before.
LEMMA ChunkAbove ==
    ASSUME QueueAssumption, Chains, Grows, NEW s \in 1 .. Snapshots, NEW b \in ChunkBlocks(s)
    PROVE  /\ b \in Block /\ b.acc \in Accounts /\ b.h \in 1 .. Length /\ b.h <= content[s][b.acc]
           /\ content[s][b.acc] \in 0 .. Length
           /\ s > 1 => content[s - 1][b.acc] < b.h /\ content[s - 1][b.acc] \in 0 .. Length
  <1>1. b \in Block /\ b.acc \in Accounts /\ b.h \in 1 .. Length /\ b.h <= content[s][b.acc]
    BY Zenon DEF ChunkBlocks, Block
  <1>2. content[s][b.acc] \in 0 .. Length
    BY <1>1 DEF Chains
  <1>3. ASSUME s > 1 PROVE content[s - 1][b.acc] < b.h /\ content[s - 1][b.acc] \in 0 .. Length
    <2>1. s - 1 \in 1 .. Snapshots /\ s - 1 # 0
      BY <1>3 DEF QueueAssumption
    <2> QED BY <2>1, <1>1 DEF ChunkBlocks, Confirmed, Chains
  <1> QED BY <1>1, <1>2, <1>3, Zenon

\* A chunk begins with an empty batch.
LEMMA InsertChunksInv ==
    ASSUME QueueAssumption, Inv, NEW tail \in 1 .. Snapshots, NEW head \in 1 .. Snapshots, tail <= head,
           InsertChunks(tail, head)
    PROVE  Inv'
  <1>1. /\ build = NotMaking /\ (~ OwnSnaps \/ head <= PoolSnaps) /\ UNCHANGED <<blocks, chain>> /\ run' = run
        /\ batch' = NewBatch(version) /\ build' = Chunk(tail, head)
    BY Zenon DEF InsertChunks
  <1>2. run' = NoRun /\ Chains /\ Grows /\ version \in Nat
    BY <1>1, Building, Zenon DEF NotMaking
  <1>3. batch' \in Batch /\ Sorted(batch') /\ batch'.version = version /\ batch'.levels = <<>>
    BY <1>1, <1>2, NoBatchFacts, Zenon
  <1>4. Good(Buckets(batch'), World) /\ \A o, g : ~ InBatch(batch', o, g)
    BY <1>3, EmptyBuckets, Zenon
  <1>5. tail \in 1 .. Snapshots + 1
    BY DEF QueueAssumption
  <1>6. /\ build' \in Chunkings /\ build'.phase = "chunk" /\ build'.s = tail /\ build'.head = head
        /\ build'.blocks = ChunkBlocks(tail)
    BY <1>1, <1>5, ChunkType, Zenon
  <1>7. Chunks'
    <2>1. /\ ~ OwnSnaps' \/ build'.head <= PoolSnaps'
          /\ \A t : ChunkBlocks(t)' = ChunkBlocks(t)
      BY <1>1, <1>6, Still, Zenon
    <2>2. ~(build'.s > build'.head)
      BY <1>6
    <2>3. build'.blocks = ChunkBlocks(build'.s)
      BY <1>6, Zenon
    <2> QED BY <2>1, <2>2, <2>3, Zenon DEF Chunks
  <1>8. MakingChunk'
    BY <1>4, Zenon DEF MakingChunk, Upto
  <1>9. Making' /\ build' \in Phases
    BY <1>6, <1>8, Zenon DEF Making, Phases
  <1> QED BY <1>1, <1>2, <1>3, <1>4, <1>6, <1>7, <1>9, GoBuild

\* What addAccountItem returns has its type.
LEMMA AccountItemType ==
    ASSUME Chains, QueueAssumption, NEW q \in Batch, Sorted(q), NEW b \in Block
    PROVE  /\ addAccountItem(q, b).q \in Batch /\ Sorted(addAccountItem(q, b).q)
           /\ addAccountItem(q, b).q.version = q.version
  <1> DEFINE r == [q |-> q, err |-> "none", n |-> 0]
  <1>1. b.acc \in Accounts /\ b.h \in 1 .. Length /\ b = [acc |-> b.acc, h |-> b.h]
    BY RefsFacts, Zenon
  <1>2. r \in Adding(q.version)
    BY Zenon DEF Adding, Outcomes
  <1>3. AddNext(b.acc, r, b.h) \in Adding(q.version)
    BY <1>1, <1>2, AddNextType, Zenon
  <1>4. AddNext(b.acc, r, b.h).q = addAccountItem(q, b).q
    BY <1>1, Zenon DEF AddNext
  <1> QED BY <1>3, <1>4, Zenon DEF Adding

\* The end of an item of a chunk that is not added.
LEMMA ChunkRefused ==
    ASSUME QueueAssumption, Inv, UNCHANGED <<blocks, chain>>, build.phase = "chunk", NEW added, NEW next,
           ChunkStep(added, next), added.err # "none", added.err = "max" => batch.levels # <<>>
    PROVE  Inv'
  <1>1. CASE added.err = "max"
    <2>1. Execute
      BY <1>1, Zenon DEF ChunkStep
    <2> QED BY <1>1, <2>1, GoExecute, Zenon
  <1>2. CASE added.err # "max"
    <2>1. batch' = NoBatch /\ build' = NotMaking /\ run' = run
      BY <1>2, Zenon DEF ChunkStep
    <2>2. run = NoRun /\ Chains /\ Grows /\ version \in Nat
      BY Building, Zenon
    <2>3. Chains' /\ Grows' /\ version' \in Nat
      BY <2>2, Still, Zenon
    <2> QED BY <2>1, <2>2, <2>3, GoIdle, Zenon
  <1> QED BY <1>1, <1>2, Zenon

\* An account block of a chunk is added behind what it refers to, or refused.
LEMMA ChunkAccountInv == ASSUME QueueAssumption, Inv, NEW b \in Block, ChunkAccount(b) PROVE Inv'
  <1> DEFINE added == IF InLedger(b) THEN [q |-> batch, err |-> "none"] ELSE addAccountItem(batch, b)
             next == [build EXCEPT !.blocks = @ \ {b}]
  <1>1. /\ build.phase = "chunk" /\ b \in build.blocks /\ Refs(b) \cap build.blocks = {}
        /\ ChunkStep(added, next) /\ UNCHANGED <<blocks, chain>>
    BY Zenon DEF ChunkAccount
  <1>2. /\ run = NoRun /\ Chains /\ Grows /\ version \in Nat /\ batch \in Batch /\ Sorted(batch)
        /\ build \in Chunkings /\ batch.version <= version
        /\ version = batch.version => Good(Buckets(batch), World) /\ MakingChunk
    BY <1>1, Building, PhaseOf, Zenon DEF Making
  <1>3. CASE added.err # "none"
    <2>1. added.err = "max" => batch.levels # <<>>
      BY <1>2, <1>3, RoomAtFirst, Zenon
    <2> HIDE DEF added, next
    <2> QED BY <2>1, <1>1, <1>3, ChunkRefused, Zenon
  <1>4. CASE added.err = "none"
    <2>1. batch' = added.q /\ build' = next /\ run' = run
      BY <1>1, <1>4, Zenon DEF ChunkStep
    <2>2. batch' \in Batch /\ Sorted(batch') /\ batch'.version = batch.version
      BY <2>1, <1>2, AccountItemType, Zenon
    <2>3. /\ build' \in Chunkings /\ build'.phase = "chunk" /\ build'.s = build.s /\ build'.head = build.head
          /\ build'.blocks = build.blocks \ {b}
      BY <2>1, <1>1, <1>2, Zenon DEF Chunkings
    <2>4. /\ ~ OwnSnaps \/ build.head <= PoolSnaps
          /\ build.s > build.head => build.blocks = {}
          /\ build.s <= build.head =>
              /\ build.blocks \subseteq ChunkBlocks(build.s)
              /\ \A d \in build.blocks, c \in ChunkBlocks(build.s) :
                    c.acc = d.acc /\ c.h >= d.h => c \in build.blocks
      BY <1>1, Zenon DEF Inv, Shape, Chunks
    <2>5. build.s \in 1 .. Snapshots /\ build.s <= build.head /\ build.s \in Nat
      BY <2>4, <1>1, <1>2 DEF Chunkings, QueueAssumption
    <2>6. /\ build.blocks \subseteq ChunkBlocks(build.s)
          /\ \A d \in build.blocks, c \in ChunkBlocks(build.s) :
                c.acc = d.acc /\ c.h >= d.h => c \in build.blocks
      BY <2>4, <2>5, Zenon
    <2>7. b \in ChunkBlocks(build.s) /\ b.h \in 1 .. Length /\ b.acc \in Accounts /\ b.h <= content[build.s][b.acc]
      BY <2>5, <2>6, <1>1, <1>2, ChunkAbove, Zenon
    <2>8. ASSUME NEW d \in build.blocks, d # b, d.acc = b.acc PROVE d.h > b.h
      <3>1. d \in ChunkBlocks(build.s) /\ d \in Block /\ d.h \in 1 .. Length
        BY <2>5, <2>6, <1>2, ChunkAbove, Zenon
      <3>2. d.h # b.h
        BY <2>8, <3>1 DEF Block
      <3>3. ASSUME d.h < b.h PROVE FALSE
        <4> DEFINE c == [acc |-> b.acc, h |-> b.h - 1]
        <4>1. b.h # 1 /\ b.h - 1 \in 1 .. Length /\ b.h - 1 >= d.h
          BY <3>1, <3>3, <2>7 DEF QueueAssumption
        <4>2. c \in Prev(b) /\ c \in Block
          BY <4>1, <2>7, <1>2, RefsFacts, Zenon DEF Block
        <4>3. c \in ChunkBlocks(build.s)
          <5>1. Confirmed(build.s - 1)[b.acc] < d.h /\ Confirmed(build.s - 1)[b.acc] \in Int
            <6>1. Confirmed(build.s - 1)[b.acc] < d.h
              BY <3>1, <2>8, Zenon DEF ChunkBlocks
            <6>2. build.s - 1 # 0 => build.s - 1 \in 1 .. Snapshots
              BY <2>5 DEF QueueAssumption
            <6>3. Confirmed(build.s - 1)[b.acc] \in Int
              BY <6>2, <2>7, <1>2 DEF Confirmed, Chains
            <6> QED BY <6>1, <6>3, Zenon
          <5>2. content[build.s][b.acc] \in Int /\ b.h - 1 <= content[build.s][b.acc]
            BY <2>5, <2>7, <1>2 DEF Chains
          <5>3. Confirmed(build.s - 1)[b.acc] < b.h - 1
            BY <5>1, <4>1, <3>1, <2>7
          <5> QED BY <4>2, <5>2, <5>3, Zenon DEF ChunkBlocks
        <4>4. c \in build.blocks
          BY <4>1, <4>3, <2>6, <2>8, Zenon
        <4> QED BY <4>2, <4>4, <1>1, Zenon DEF Refs
      <3> QED BY <3>1, <3>2, <3>3, <2>7
    <2>9. Chunks'
      <3>1. build'.blocks \subseteq ChunkBlocks(build.s)
        BY <2>3, <2>6, Zenon
      <3>2. ASSUME NEW d \in build'.blocks, NEW c \in ChunkBlocks(build.s), c.acc = d.acc, c.h >= d.h
            PROVE  c \in build'.blocks
        <4>1. c \in build.blocks /\ d \in build.blocks /\ d # b
          BY <3>2, <2>3, <2>6, Zenon
        <4>2. c = b => d.h > b.h /\ d.h \in Int /\ b.h \in Int
          BY <4>1, <3>2, <2>5, <2>6, <2>7, <2>8, <1>2, ChunkAbove, SMTT(20)
        <4> QED BY <4>1, <4>2, <3>2, <2>3
      <3> QED BY <3>1, <3>2, <2>3, <2>4, <2>5, <1>1, Still DEF Chunks
    <2>10. ASSUME version = batch.version PROVE Good(Buckets(batch'), World) /\ MakingChunk'
      <3>1. Fine(batch) /\ MakingChunk
        BY <1>2, <2>10, Zenon DEF Fine
      <3>2. /\ Fine(batch')
            /\ \A p \in Owner, g \in Nat : InBatch(batch', p, g) => InBatch(batch, p, g) \/ (p = b.acc /\ g = b.h)
        <4>1. CASE InLedger(b)
          BY <4>1, <3>1, <2>1, Zenon
        <4>2. CASE ~ InLedger(b)
          <5>1. b.h > ledger[b.acc]
            BY <4>2, <2>7, <1>2 DEF InLedger, Chains
          <5>2. \A g \in Nat : InBatch(batch, b.acc, g) => g < b.h
            <6>1. Upto(batch, b.acc, b.h - 1)
              BY <3>1, <1>1, Zenon DEF MakingChunk
            <6> QED BY <6>1, <2>7, SMTT(20) DEF Upto
          <5>3. addAccountItem(batch, b).err = "none" /\ batch' = addAccountItem(batch, b).q
            BY <4>2, <2>1, <1>4, Zenon
          <5> QED BY <5>1, <5>2, <5>3, <3>1, <1>2, AccountItem, Zenon
        <4> QED BY <4>1, <4>2, Zenon
      <3>3. b.acc # None /\ None \in Owner /\ Accounts \subseteq Owner
        BY <2>7, Zenon DEF QueueAssumption, Owner
      <3>4. Upto(batch', None, build.s - 1)
        BY <3>1, <3>2, <3>3, Zenon DEF MakingChunk, Upto
      <3>5. ASSUME NEW a \in Accounts PROVE Upto(batch', a, content[build.s][a])
        <4>1. Upto(batch, a, content[build.s][a])
          BY <3>1, <2>5 DEF MakingChunk
        <4> QED BY <4>1, <3>2, <3>3, <2>7, Zenon DEF Upto
      <3>6. ASSUME NEW d \in build'.blocks PROVE Upto(batch', d.acc, d.h - 1)
        <4>1. d \in build.blocks /\ d # b
          BY <2>3, Zenon
        <4>2. d.acc \in Accounts /\ d.h \in 1 .. Length
          BY <4>1, <2>5, <2>6, <1>2, ChunkAbove, Zenon
        <4>3. Upto(batch, d.acc, d.h - 1)
          BY <4>1, <3>1, Zenon DEF MakingChunk
        <4>4. d.acc = b.acc => b.h <= d.h - 1
          BY <4>1, <4>2, <2>7, <2>8
        <4> QED BY <4>2, <4>3, <4>4, <3>2, <3>3, Zenon DEF Upto
      <3>7. MakingChunk'
        BY <3>4, <3>5, <3>6, <2>3, <2>5, <1>1, Still, Zenon DEF MakingChunk
      <3> QED BY <3>2, <3>7, Zenon DEF Fine
    <2>11. (MakingChunk' => Making') /\ build' \in Phases
      BY <2>3, Zenon DEF Making, Phases
    <2> QED BY <2>1, <2>2, <2>3, <2>9, <2>10, <2>11, <1>1, <1>2, GoBuild
  <1> QED BY <1>3, <1>4, Zenon

\* The snapshot block of a chunk is added after its account blocks, and the next chunk follows.
LEMMA ChunkSnapshotInv == ASSUME QueueAssumption, Inv, ChunkSnapshot PROVE Inv'
  <1> DEFINE s == build.s
             added == IF s <= Len(snaps) THEN [q |-> batch, err |-> "none"] ELSE addSnapshotItem(batch, s)
             next == Chunk(s + 1, build.head)
  <1>1. /\ build.phase = "chunk" /\ build.blocks = {} /\ s <= build.head
        /\ ChunkStep(added, next) /\ UNCHANGED <<blocks, chain>>
    BY Zenon DEF ChunkSnapshot
  <1>2. /\ run = NoRun /\ Chains /\ Grows /\ version \in Nat /\ batch \in Batch /\ Sorted(batch)
        /\ build \in Chunkings /\ batch.version <= version
        /\ version = batch.version => Good(Buckets(batch), World) /\ MakingChunk
    BY <1>1, Building, PhaseOf, Zenon DEF Making
  <1>3. /\ s \in 1 .. Snapshots /\ s \in Nat /\ s + 1 \in 1 .. Snapshots + 1 /\ build.head \in 1 .. Snapshots
        /\ Snapshots \in Nat /\ build.head \in Nat
    BY <1>1, <1>2 DEF Chunkings, QueueAssumption
  <1>4. CASE added.err # "none"
    <2>1. added.err = "max" => batch.levels # <<>>
      BY <1>2, <1>4, RoomAtFirst, Zenon
    <2> HIDE DEF added, next
    <2> QED BY <2>1, <1>1, <1>4, ChunkRefused, Zenon
  <1>5. CASE added.err = "none"
    <2>1. batch' = added.q /\ build' = next /\ run' = run
      BY <1>1, <1>5, Zenon DEF ChunkStep
    <2>2. batch' \in Batch /\ Sorted(batch') /\ batch'.version = batch.version
      BY <2>1, <1>2, <1>3, SnapshotItemType, Zenon
    <2>3. /\ build' \in Chunkings /\ build'.phase = "chunk" /\ build'.s = s + 1 /\ build'.head = build.head
          /\ build'.blocks = IF s + 1 <= build.head THEN ChunkBlocks(s + 1) ELSE {}
      BY <2>1, <1>3, ChunkType, SMTT(20)
    <2>4. ~ OwnSnaps \/ build.head <= PoolSnaps
      BY <1>1, Zenon DEF Inv, Shape, Chunks
    <2>5. s + 1 > build.head => ~(s + 1 <= build.head)
      BY <1>3
    <2>6. Chunks'
      BY <2>3, <2>4, <2>5, <1>1, Still, Zenon DEF Chunks
    <2>7. ASSUME version = batch.version PROVE Good(Buckets(batch'), World) /\ MakingChunk'
      <3>1. Fine(batch) /\ MakingChunk
        BY <1>2, <2>7, Zenon DEF Fine
      <3>2. Upto(batch, None, s - 1) /\ \A a \in Accounts : Upto(batch, a, content[s][a])
        BY <3>1, <1>3 DEF MakingChunk
      <3>3. \A g \in Nat : InBatch(batch, None, g) => g < s
        BY <3>2, <1>3, SMTT(20) DEF Upto
      <3>4. /\ Fine(batch')
            /\ \A p \in Owner, g \in Nat : InBatch(batch', p, g) => InBatch(batch, p, g) \/ (p = None /\ g = s)
        <4>1. CASE s <= Len(snaps)
          BY <4>1, <3>1, <2>1, Zenon
        <4>2. CASE ~(s <= Len(snaps))
          <5>1. s > Len(snaps) /\ ~ OwnSnaps
            BY <4>2, <2>4, <1>1, <1>2, <1>3, PoolSnapsType, SMTT(20)
          <5>2. addSnapshotItem(batch, s).err = "none" /\ batch' = addSnapshotItem(batch, s).q
            BY <4>2, <2>1, <1>5, Zenon
          <5> QED BY <5>1, <5>2, <3>1, <3>3, <1>2, <1>3, SnapshotItem
        <4> QED BY <4>1, <4>2, Zenon
      <3>5. None \in Owner /\ Accounts \subseteq Owner /\ None \notin Accounts
        BY Zenon DEF QueueAssumption, Owner
      <3>6. Upto(batch', None, (s + 1) - 1)
        BY <3>3, <3>4, <3>5, <1>3, SMTT(20) DEF Upto
      <3>7. \A a \in Accounts : Upto(batch', a, content[s][a]) /\ content[s][a] \in Nat
        <4> SUFFICES ASSUME NEW a \in Accounts
                     PROVE  Upto(batch', a, content[s][a]) /\ content[s][a] \in Nat
          BY Zenon
        <4>1. content[s][a] \in Nat
          BY <1>2, <1>3 DEF Chains
        <4>2. \A g \in Nat : InBatch(batch', a, g) => InBatch(batch, a, g)
          BY <3>4, <3>5, Zenon
        <4> QED BY <4>1, <4>2, <3>2, Zenon DEF Upto
      <3>8. ASSUME s + 1 <= Snapshots, NEW a \in Accounts PROVE Upto(batch', a, content[s + 1][a])
        <4>1. s + 1 \in 2 .. Snapshots /\ s + 1 \in 1 .. Snapshots /\ (s + 1) - 1 = s
          BY <3>8, <1>3
        <4> DEFINE t == s + 1
        <4>3. t \in 2 .. Snapshots /\ t \in 1 .. Snapshots /\ t - 1 = s
          BY <4>1, Zenon
        <4>2. content[s][a] <= content[t][a] /\ content[t][a] \in Nat
          <5> HIDE DEF t
          <5>1. content[t - 1][a] <= content[t][a]
            BY <4>3, <1>2, Zenon DEF Grows
          <5> QED BY <5>1, <4>3, <1>2 DEF Chains
        <4> QED BY <4>2, <3>7 DEF Upto
      <3>9. ASSUME NEW d \in build'.blocks PROVE Upto(batch', d.acc, d.h - 1)
        <4>1. s + 1 \in 1 .. Snapshots /\ d \in ChunkBlocks(s + 1) /\ s + 1 > 1 /\ (s + 1) - 1 = s
          BY <2>3, <3>9, <1>3
        <4> DEFINE t == s + 1
        <4>2. t \in 1 .. Snapshots /\ d \in ChunkBlocks(t) /\ t > 1 /\ t - 1 = s
          BY <4>1, Zenon
        <4> HIDE DEF t
        <4>3. d.acc \in Accounts /\ d.h \in 1 .. Length /\ content[s][d.acc] < d.h
          BY <4>2, <1>2, ChunkAbove, Zenon
        <4>4. Upto(batch', d.acc, content[s][d.acc]) /\ content[s][d.acc] \in Nat
          BY <4>3, <3>7, Zenon
        <4> QED BY <4>3, <4>4 DEF Upto
      <3>10. MakingChunk'
        BY <3>6, <3>8, <3>9, <2>3, <1>1, Still DEF MakingChunk
      <3> QED BY <3>4, <3>10, Zenon DEF Fine
    <2>8. (MakingChunk' => Making') /\ build' \in Phases
      BY <2>3, Zenon DEF Making, Phases
    <2> QED BY <2>1, <2>2, <2>3, <2>6, <2>7, <2>8, <1>1, <1>2, GoBuild, Zenon
  <1> QED BY <1>4, <1>5, Zenon

\* The batch of the last chunk is inserted.
LEMMA ChunksEndInv == ASSUME Inv, ChunksEnd PROVE Inv'
  <1>1. build.phase = "chunk" /\ UNCHANGED <<blocks, chain>>
    BY Zenon DEF ChunksEnd
  <1>2. CASE batch.levels # <<>>
    <2>1. Execute
      BY <1>2, Zenon DEF ChunksEnd
    <2> QED BY <2>1, <1>1, <1>2, GoExecute, Zenon
  <1>3. CASE batch.levels = <<>>
    <2>1. batch' = NoBatch /\ build' = NotMaking /\ run' = run
      BY <1>3, Zenon DEF ChunksEnd
    <2>2. run = NoRun /\ Chains /\ Grows /\ version \in Nat
      BY <1>1, Building, Zenon
    <2>3. Chains' /\ Grows' /\ version' \in Nat
      BY <2>2, <1>1, Still, Zenon
    <2> QED BY <2>1, <2>2, <2>3, GoIdle, Zenon
  <1> QED BY <1>2, <1>3, Zenon
=============================================================================
