------------------------- MODULE InsertProofs -------------------------
(***************************************************************************)
(* The steps that insert a batch, and those that change the ledger under   *)
(* it, keep Inv: a block that is inserted leaves a plan that is Good for   *)
(* the ledger with the block, and a ledger that is changed otherwise       *)
(* changes the version.                                                    *)
(***************************************************************************)
EXTENDS PlanLemmas

\* The first level of a plan that is not empty.
First(L, n) == n \in DOMAIN L /\ \A i \in DOMAIN L, o \in Owner : i < n => L[i][o] = <<>>

\* No height is in a level before the first one.
LEMMA FirstHas ==
    ASSUME NEW L \in Plans, NEW n, First(L, n), NEW o \in Owner, NEW h, NEW i \in Nat, Has(L, o, h, i)
    PROVE  i >= n /\ n \in Nat
  <1>1. n \in Nat /\ DOMAIN L \subseteq Nat
    BY DEF First, Plans
  <1>2. L[i][o] # <<>> /\ i \in DOMAIN L
    BY EmptyHas, Zenon DEF Has
  <1> QED BY <1>1, <1>2 DEF First

\* The head of an increasing sequence is its least element, and the tail has the others.
LEMMA HeadFacts ==
    ASSUME NEW s \in Seq(Nat), s # <<>>, Increasing(s)
    PROVE  /\ Head(s) \in Nat /\ Head(s) \in Range(s) /\ \A g \in Range(s) : g \in Nat /\ (g = Head(s) \/ g > Head(s))
           /\ Tail(s) \in Seq(Nat) /\ Increasing(Tail(s)) /\ Range(Tail(s)) = Range(s) \ {Head(s)}
  <1>1. /\ Len(s) \in Nat \ {0} /\ DOMAIN s = 1 .. Len(s) /\ Head(s) = s[1] /\ Tail(s) \in Seq(Nat)
        /\ DOMAIN Tail(s) = 1 .. Len(s) - 1 /\ \A k \in 1 .. Len(s) - 1 : Tail(s)[k] = s[k + 1]
        /\ \A k \in 1 .. Len(s) : s[k] \in Nat
    OBVIOUS
  <1> DEFINE t == Tail(s)
  <1> HIDE DEF t
  <1>2. \A k \in 2 .. Len(s) : s[k] > s[1]
    BY <1>1 DEF Increasing
  <1>3. \A k \in 1 .. Len(s) : k = 1 \/ (k \in 2 .. Len(s) /\ k - 1 \in 1 .. Len(s) - 1 /\ (k - 1) + 1 = k)
    BY <1>1
  <1>4. \A k \in 1 .. Len(s) - 1 : k + 1 \in 2 .. Len(s) /\ k + 1 \in 1 .. Len(s)
    BY <1>1
  <1>5. Increasing(t)
    BY <1>1, <1>4, SMTT(20) DEF Increasing, t
  <1>6. \A g \in Range(s) : g \in Nat /\ (g = Head(s) \/ g > Head(s))
    BY <1>1, <1>2, <1>3 DEF Range
  <1>7. Head(s) \in Range(s)
    BY <1>1 DEF Range
  <1>8. ASSUME NEW g PROVE g \in Range(t) <=> g \in Range(s) \ {Head(s)}
    <2>1. ASSUME g \in Range(t) PROVE g \in Range(s) \ {Head(s)}
      <3>1. PICK k \in 1 .. Len(s) - 1 : g = s[k + 1]
        BY <2>1, <1>1, Zenon DEF Range, t
      <3>2. k + 1 \in 2 .. Len(s) /\ k + 1 \in 1 .. Len(s)
        BY <1>4, Zenon
      <3>3. s[k + 1] > s[1] /\ s[1] \in Nat
        BY <3>2, <1>1, <1>2
      <3> QED BY <3>1, <3>2, <3>3, <1>1 DEF Range
    <2>2. ASSUME g \in Range(s) \ {Head(s)} PROVE g \in Range(t)
      <3>1. PICK k \in 1 .. Len(s) : g = s[k]
        BY <2>2, <1>1, Zenon DEF Range
      <3>2. k - 1 \in 1 .. Len(s) - 1 /\ (k - 1) + 1 = k
        BY <3>1, <2>2, <1>1, <1>3, Zenon
      <3>3. t[k - 1] = g
        BY <3>1, <3>2, <1>1, Zenon DEF t
      <3> QED BY <3>2, <3>3, <1>1, Zenon DEF Range, t
    <2> QED BY <2>1, <2>2, Zenon
  <1> QED BY <1>1, <1>5, <1>6, <1>7, <1>8, Zenon DEF t

\* The first block of a bucket of the first level: the next of its chain, and what it
\* needs is in the ledger.
LEMMA NextUp ==
    ASSUME QueueAssumption, NEW L \in Plans, NEW w \in Worlds, Good(L, w), NEW n, First(L, n),
           NEW o \in Owner, L[n][o] # <<>>
    PROVE  /\ Head(L[n][o]) = Base(w, o) + 1 /\ Head(L[n][o]) \in 1 .. Limit(o)
           /\ \A r \in Needs(w, o, Head(L[n][o])) : Stored(w, r)
  <1> DEFINE h == Head(L[n][o])
  <1>1. n \in Nat /\ n \in DOMAIN L /\ L[n][o] \in Seq(Nat) /\ Increasing(L[n][o])
    BY DEF First, Plans, Good, Ordered
  <1>2. h \in Nat /\ Has(L, o, h, n) /\ \A g : Has(L, o, g, n) => g \in Nat /\ (g = h \/ g > h)
    BY <1>1, HeadFacts, Zenon DEF Has
  <1> HIDE DEF h
  <1>3. h > Base(w, o) /\ (h = Base(w, o) + 1 \/ \E j \in Nat : Has(L, o, h - 1, j))
    BY <1>1, <1>2, Zenon DEF Good, Connected
  <1>4. Base(w, o) \in Nat /\ h - 1 \in Nat
    BY <1>2, <1>3, BaseType
  <1>5. \A g, i \in Nat : Has(L, o, g, i) => i >= n /\ g >= h
    <2> SUFFICES ASSUME NEW g \in Nat, NEW i \in Nat, Has(L, o, g, i)
                 PROVE  i >= n /\ g >= h
      BY Zenon
    <2>1. i >= n
      BY FirstHas, Zenon
    <2>2. i > n => g > h
      BY <1>1, <1>2, Zenon DEF Good, Ordered
    <2> QED BY <2>1, <2>2, <1>1, <1>2
  <1>6. h = Base(w, o) + 1
    BY <1>2, <1>3, <1>4, <1>5
  <1>7. h \in 1 .. Limit(o)
    BY <1>1, <1>2, Zenon DEF Good, References
  <1>8. ASSUME NEW r \in Needs(w, o, h) PROVE Stored(w, r)
    <2>1. r.acc \in Owner /\ r.h \in Nat
      BY <1>7, NeedsType DEF Owner
    <2>2. Stored(w, r) \/ \E j \in Nat : Has(L, r.acc, r.h, j) /\ (j < n \/ (r.acc = o /\ r.h < h))
      BY <1>1, <1>2, Zenon DEF Good, References
    <2>3. \A j \in Nat : Has(L, r.acc, r.h, j) => ~(j < n)
      BY <2>1, <1>1, FirstHas
    <2> QED BY <2>1, <2>2, <2>3, <1>2, <1>5
  <1> QED BY <1>6, <1>7, <1>8, Zenon DEF h

\* One more block of owner o is in the ledger.
Advances(v, w, o) ==
    /\ v.from = w.from /\ v.content = w.content /\ Base(v, o) = Base(w, o) + 1
    /\ \A p \in Owner : p # o => Base(v, p) = Base(w, p)

\* An insertion loses no block of the ledger, and adds the next one.
LEMMA AdvancesStored ==
    ASSUME QueueAssumption, NEW v \in Worlds, NEW w \in Worlds, NEW o \in Owner, Advances(v, w, o),
           NEW r \in [acc : Accounts, h : Nat]
    PROVE  /\ Stored(w, r) => Stored(v, r)
           /\ r.acc = o /\ r.h = Base(w, o) + 1 => Stored(v, r)
  <1>1. r.acc \in Accounts /\ r.acc \in Owner /\ r.acc # None /\ r.h \in Nat
    BY Zenon DEF Owner, QueueAssumption
  <1>2. Base(w, r.acc) \in Nat /\ Base(v, r.acc) \in Nat
    BY <1>1, BaseType, Zenon
  <1>3. Base(v, r.acc) = v.ledger[r.acc] /\ Base(w, r.acc) = w.ledger[r.acc]
    BY <1>1, Zenon DEF Base
  <1>4. Base(v, r.acc) >= Base(w, r.acc) /\ (r.acc = o => Base(v, r.acc) = Base(w, o) + 1)
    BY <1>1, <1>2 DEF Advances
  <1> QED BY <1>1, <1>2, <1>3, <1>4 DEF Stored

\* The plan without the first block of bucket o of level n.
Taken(M, L, n, o) ==
    /\ M \in Plans /\ DOMAIN M = DOMAIN L
    /\ \A i \in DOMAIN L, p \in Owner : M[i][p] = IF i = n /\ p = o THEN Tail(L[i][p]) ELSE L[i][p]

\* A plan stays good when the first block of a bucket of its first level is inserted.
LEMMA InsertHead ==
    ASSUME QueueAssumption, NEW L \in Plans, NEW w \in Worlds, Good(L, w), NEW n, First(L, n),
           NEW o \in Owner, L[n][o] # <<>>, NEW v \in Worlds, Advances(v, w, o), NEW M, Taken(M, L, n, o)
    PROVE  Good(M, v)
  <1> DEFINE hd == Head(L[n][o])
  <1>1. n \in Nat /\ n \in DOMAIN L /\ L[n][o] \in Seq(Nat) /\ Increasing(L[n][o]) /\ DOMAIN L \subseteq Nat
    BY DEF First, Plans, Good, Ordered
  <1>2. hd = Base(w, o) + 1
    BY NextUp
  <1>3. Base(w, o) \in Nat /\ hd \in Nat /\ Has(L, o, hd, n)
    <2>1. hd \in Nat /\ hd \in Range(L[n][o])
      BY <1>1, HeadFacts, Zenon
    <2> QED BY <2>1, <1>1, BaseType, Zenon DEF Has
  <1>4. Increasing(Tail(L[n][o])) /\ Range(Tail(L[n][o])) = Range(L[n][o]) \ {hd}
    BY <1>1, HeadFacts, Zenon
  <1> HIDE DEF hd
  <1>5. \A i \in Nat : Has(L, o, hd, i) => i = n
    <2> SUFFICES ASSUME NEW i \in Nat, Has(L, o, hd, i), i # n PROVE FALSE
      BY Zenon
    <2>1. i >= n
      BY FirstHas, Zenon
    <2>2. n < i
      BY <2>1, <1>1
    <2>3. hd < hd
      BY <2>2, <1>1, <1>3, Zenon DEF Good, Ordered
    <2> QED BY <2>3, <1>3
  <1>6. ASSUME NEW p \in Owner, NEW h \in Nat, NEW i \in Nat
        PROVE  Has(M, p, h, i) <=> Has(L, p, h, i) /\ ~(p = o /\ h = hd)
    <2>1. CASE i \in DOMAIN L /\ i = n /\ p = o
      BY <2>1, <1>4, Zenon DEF Taken, Has
    <2>2. CASE i \in DOMAIN L /\ ~(i = n /\ p = o)
      <3>1. M[i][p] = L[i][p] /\ i \in DOMAIN M
        BY <2>2, Zenon DEF Taken
      <3>2. Has(M, p, h, i) <=> Has(L, p, h, i)
        BY <3>1, <2>2, Zenon DEF Has
      <3> QED BY <3>2, <2>2, <1>5, Zenon
    <2>3. CASE i \notin DOMAIN L
      BY <2>3, Zenon DEF Taken, Has
    <2> QED BY <2>1, <2>2, <2>3, Zenon
  <1>7. Ordered(M)
    <2>1. ASSUME NEW p \in Owner, NEW i \in DOMAIN M PROVE Increasing(M[i][p])
      BY <1>4 DEF Taken, Good, Ordered
    <2>2. ASSUME NEW p \in Owner, NEW i \in Nat, NEW j \in Nat, NEW h \in Nat, NEW g \in Nat,
                 Has(M, p, h, i), Has(M, p, g, j), i < j
          PROVE  h < g
      BY <2>2, <1>6 DEF Good, Ordered
    <2> QED BY <2>1, <2>2, Zenon DEF Ordered
  <1>8. Connected(M, v)
    <2> SUFFICES ASSUME NEW p \in Owner, NEW i \in Nat, NEW h \in Nat, Has(M, p, h, i)
                 PROVE  h > Base(v, p) /\ (h = Base(v, p) + 1 \/ \E j \in Nat : Has(M, p, h - 1, j))
      BY Zenon DEF Connected
    <2>1. Has(L, p, h, i) /\ ~(p = o /\ h = hd)
      BY <1>6, Zenon
    <2>2. h > Base(w, p) /\ (h = Base(w, p) + 1 \/ \E j \in Nat : Has(L, p, h - 1, j))
      BY <2>1, Zenon DEF Good, Connected
    <2>3. Base(w, p) \in Nat /\ Base(v, p) \in Nat /\ h - 1 \in Nat
      BY <2>2, BaseType
    <2>4. Base(v, p) = IF p = o THEN hd ELSE Base(w, p)
      BY <1>2, Zenon DEF Advances
    <2>5. h > Base(v, p)
      BY <2>1, <2>2, <2>3, <2>4, <1>2
    <2>6. ASSUME h # Base(v, p) + 1 PROVE \E j \in Nat : Has(M, p, h - 1, j)
      <3>1. h # Base(w, p) + 1 /\ ~(p = o /\ h - 1 = hd)
        BY <2>6, <2>1, <2>3, <2>4, <1>2
      <3>2. PICK j \in Nat : Has(L, p, h - 1, j)
        BY <3>1, <2>2, Zenon
      <3>3. Has(M, p, h - 1, j)
        BY <3>1, <3>2, <2>3, <1>6, Zenon
      <3> QED BY <3>3, Zenon
    <2> QED BY <2>5, <2>6, Zenon
  <1>9. References(M, v)
    <2> SUFFICES ASSUME NEW p \in Owner, NEW i \in Nat, NEW h \in Nat, Has(M, p, h, i)
                 PROVE  /\ h \in 1 .. Limit(p)
                        /\ \A r \in Needs(v, p, h) :
                              \/ Stored(v, r)
                              \/ \E j \in Nat : Has(M, r.acc, r.h, j) /\ (j < i \/ (r.acc = p /\ r.h < h))
      BY Zenon DEF References
    <2>1. Has(L, p, h, i)
      BY <1>6, Zenon
    <2>2. h \in 1 .. Limit(p)
      BY <2>1, Zenon DEF Good, References
    <2>3. ASSUME NEW r \in Needs(v, p, h), ~ Stored(v, r)
          PROVE  \E j \in Nat : Has(M, r.acc, r.h, j) /\ (j < i \/ (r.acc = p /\ r.h < h))
      <3>1. Needs(v, p, h) = Needs(w, p, h)
        BY DEF Advances, Needs
      <3>2. r \in [acc : Accounts, h : Nat] /\ r.acc \in Owner /\ r.h \in Nat
        <4>1. Needs(v, p, h) \subseteq [acc : Accounts, h : Nat]
          BY <2>2, NeedsType, Zenon
        <4>2. r \in [acc : Accounts, h : Nat]
          BY <4>1, <2>3, Zenon
        <4> QED BY <4>2, Zenon DEF Owner
      <3>3. ~ Stored(w, r) /\ ~(r.acc = o /\ r.h = hd)
        BY <2>3, <3>2, <1>2, AdvancesStored, Zenon
      <3>4. PICK j \in Nat : Has(L, r.acc, r.h, j) /\ (j < i \/ (r.acc = p /\ r.h < h))
        BY <3>1, <3>3, <2>1, Zenon DEF Good, References
      <3>5. Has(M, r.acc, r.h, j)
        BY <3>2, <3>3, <3>4, <1>6, Zenon
      <3> QED BY <3>4, <3>5, Zenon
    <2> QED BY <2>2, <2>3, Zenon
  <1>10. Apart(M)
    <2> SUFFICES ASSUME NEW i \in DOMAIN M, M[i][None] # <<>>, NEW a \in Accounts
                 PROVE  M[i][a] = <<>>
      BY Zenon DEF Apart
    <2>1. a \in Owner /\ None \in Owner /\ a # None
      BY Zenon DEF Owner, QueueAssumption
    <2>2. L[i][None] # <<>>
      <3>1. CASE i = n /\ None = o
        BY <3>1, Zenon
      <3>2. CASE ~(i = n /\ None = o)
        BY <3>2, <2>1, Zenon DEF Taken
      <3> QED BY <3>1, <3>2, Zenon
    <2>3. L[i][a] = <<>>
      BY <2>2, Zenon DEF Good, Apart, Taken
    <2>4. ~(i = n /\ a = o)
      BY <2>3, Zenon
    <2> QED BY <2>1, <2>3, <2>4, Zenon DEF Taken
  <1> QED BY <1>7, <1>8, <1>9, <1>10, Zenon DEF Good

\* Some buckets of level n, and nothing else.
Kept(M, L, n) ==
    /\ M \in Plans /\ DOMAIN M = DOMAIN L
    /\ \A i \in DOMAIN M, p \in Owner : M[i][p] = <<>> \/ (i = n /\ M[i][p] = L[i][p])

\* A plan stays good when a bucket of its first level fails, and the later levels are given up.
LEMMA GiveUp ==
    ASSUME QueueAssumption, NEW L \in Plans, NEW w \in Worlds, Good(L, w), NEW n, First(L, n), NEW M, Kept(M, L, n)
    PROVE  Good(M, w)
  <1>1. n \in Nat
    BY DEF First, Plans
  <1>2. ASSUME NEW p \in Owner, NEW h \in Nat, NEW i \in Nat, Has(M, p, h, i)
        PROVE  i = n /\ Has(L, p, h, i) /\ M[n][p] = L[n][p]
    <2>1. M[i][p] # <<>> /\ i \in DOMAIN M
      BY <1>2, EmptyHas, Zenon DEF Has
    <2>2. i = n /\ M[i][p] = L[i][p]
      BY <2>1, Zenon DEF Kept
    <2> QED BY <1>2, <2>2, Zenon DEF Has, Kept
  <1>3. ASSUME NEW p \in Owner, NEW h \in Nat, NEW g \in Nat, Has(M, p, h, n),
               NEW j \in Nat, Has(L, p, g, j), g < h
        PROVE  Has(M, p, g, n)
    <2>1. Has(L, p, h, n) /\ M[n][p] = L[n][p]
      BY <1>1, <1>2, <1>3, Zenon
    <2>2. j >= n
      BY <1>3, FirstHas, Zenon
    <2>3. n < j => h < g
      BY <1>1, <1>3, <2>1, Zenon DEF Good, Ordered
    <2>4. j = n
      BY <1>1, <1>3, <2>2, <2>3
    <2> QED BY <1>3, <2>1, <2>4, Zenon DEF Has, Kept
  <1>4. Ordered(M)
    <2>1. ASSUME NEW p \in Owner, NEW i \in DOMAIN M PROVE Increasing(M[i][p])
      <3>1. Increasing(<<>>)
        BY DEF Increasing
      <3>2. Increasing(L[i][p])
        BY Zenon DEF Good, Ordered, Kept
      <3> QED BY <3>1, <3>2, Zenon DEF Kept
    <2>2. ASSUME NEW p \in Owner, NEW i \in Nat, NEW j \in Nat, NEW h \in Nat, NEW g \in Nat,
                 Has(M, p, h, i), Has(M, p, g, j), i < j
          PROVE  h < g
      BY <2>2, <1>2
    <2> QED BY <2>1, <2>2, Zenon DEF Ordered
  <1>5. Connected(M, w)
    <2> SUFFICES ASSUME NEW p \in Owner, NEW i \in Nat, NEW h \in Nat, Has(M, p, h, i)
                 PROVE  h > Base(w, p) /\ (h = Base(w, p) + 1 \/ \E j \in Nat : Has(M, p, h - 1, j))
      BY Zenon DEF Connected
    <2>1. i = n /\ Has(L, p, h, i)
      BY <1>2, Zenon
    <2>2. h > Base(w, p) /\ (h = Base(w, p) + 1 \/ \E j \in Nat : Has(L, p, h - 1, j))
      BY <2>1, Zenon DEF Good, Connected
    <2>3. h - 1 \in Nat /\ h - 1 < h
      BY <2>2, BaseType
    <2>4. ASSUME NEW j \in Nat, Has(L, p, h - 1, j) PROVE Has(M, p, h - 1, n)
      BY <2>1, <2>3, <2>4, <1>3, Zenon
    <2> QED BY <2>2, <2>4, <1>1, Zenon
  <1>6. References(M, w)
    <2> SUFFICES ASSUME NEW p \in Owner, NEW i \in Nat, NEW h \in Nat, Has(M, p, h, i)
                 PROVE  /\ h \in 1 .. Limit(p)
                        /\ \A r \in Needs(w, p, h) :
                              \/ Stored(w, r)
                              \/ \E j \in Nat : Has(M, r.acc, r.h, j) /\ (j < i \/ (r.acc = p /\ r.h < h))
      BY Zenon DEF References
    <2>1. i = n /\ Has(L, p, h, i)
      BY <1>2, Zenon
    <2>2. h \in 1 .. Limit(p)
      BY <2>1, Zenon DEF Good, References
    <2>3. ASSUME NEW r \in Needs(w, p, h), ~ Stored(w, r)
          PROVE  \E j \in Nat : Has(M, r.acc, r.h, j) /\ (j < i \/ (r.acc = p /\ r.h < h))
      <3>1. r.acc \in Owner /\ r.h \in Nat
        BY <2>2, NeedsType DEF Owner
      <3>2. PICK j \in Nat : Has(L, r.acc, r.h, j) /\ (j < i \/ (r.acc = p /\ r.h < h))
        BY <2>1, <2>3, Zenon DEF Good, References
      <3>3. j >= n
        BY <3>1, <3>2, FirstHas, Zenon
      <3>4. r.acc = p /\ r.h < h
        BY <3>2, <3>3, <2>1, <1>1
      <3>5. Has(M, p, r.h, n)
        BY <3>1, <3>2, <3>4, <2>1, <1>3, Zenon
      <3> QED BY <3>4, <3>5, <1>1, Zenon
    <2> QED BY <2>2, <2>3, Zenon
  <1>7. Apart(M)
    <2> SUFFICES ASSUME NEW i \in DOMAIN M, M[i][None] # <<>>, NEW a \in Accounts
                 PROVE  M[i][a] = <<>>
      BY Zenon DEF Apart
    <2>1. a \in Owner /\ None \in Owner
      BY Zenon DEF Owner
    <2>2. L[i][None] # <<>>
      BY <2>1, Zenon DEF Kept
    <2>3. L[i][a] = <<>>
      BY <2>2, Zenon DEF Good, Apart, Kept
    <2> QED BY <2>1, <2>3, Zenon DEF Kept
  <1> QED BY <1>4, <1>5, <1>6, <1>7, Zenon DEF Good

\* The invariant holds after MakeQueue: the batch is empty.
LEMMA MakeQueueInv == ASSUME Inv, MakeQueue PROVE Inv'
  <1>1. /\ run' = NoRun /\ Chains /\ Grows /\ version \in Nat /\ UNCHANGED <<blocks, chain>>
        /\ batch' = NewBatch(version) /\ build' = [phase |-> "next", offset |-> Len(snaps)]
    BY Building, Zenon DEF MakeQueue, NotMaking
  <1>2. batch' \in Batch /\ Sorted(batch') /\ batch'.version = version /\ batch'.levels = <<>>
    BY <1>1, NoBatchFacts, Zenon
  <1>3. build' \in Nexts /\ build'.phase = "next" /\ build'.offset = Len(snaps) /\ Len(snaps) \in Nat
    BY <1>1, PoolSnapsType, Zenon DEF Nexts
  <1>4. Good(Buckets(batch'), World) /\ \A o, g : ~ InBatch(batch', o, g)
    BY <1>2, EmptyBuckets, Zenon
  <1>5. MakingNext'
    BY <1>1, <1>2, <1>3, <1>4, Still DEF MakingNext, Upto
  <1>6. Making' /\ Chunks'
    BY <1>3, <1>5, Zenon DEF Making, Chunks
  <1> QED BY <1>1, <1>2, <1>3, <1>4, <1>6, GoBuild DEF Phases

(* Inserting a batch. *)

\* The world of the next state has its type.
LEMMA NextWorldType == ASSUME Chains' PROVE World' \in Worlds /\ World'.height = Len(snaps')
  BY DEF Chains, World, Worlds

\* While a batch is inserted, the level in hand is the first one with anything left.
LEMMA Running ==
    ASSUME Inv, run.level > 0 \/ \E o \in Owner : run.wait[o] # <<>>
    PROVE  /\ build.phase \in {"done", "execute"} /\ batch \in Batch /\ run \in Runs
           /\ run.level \in 1 .. Len(batch.levels) /\ run.level \in Nat
           /\ LeftOf(batch, run) \in Plans /\ First(LeftOf(batch, run), run.level)
           /\ LeftOf(batch, run)[run.level] = run.wait
  <1>1. batch \in Batch /\ run \in Runs
    BY Zenon DEF Inv, Shape
  <1>2. build.phase \in {"done", "execute"}
    <2>1. \A o \in Owner : NoRun.wait[o] = <<>>
      BY NoRunFacts, Zenon DEF Nothing
    <2>2. run # NoRun
      BY <2>1, NoRunFacts
    <2> QED BY <2>2, Zenon DEF Inv, Shape, Phase
  <1>3. run.level \in 1 .. Len(batch.levels) /\ DOMAIN batch.levels = 1 .. Len(batch.levels) /\ Len(batch.levels) \in Nat
    BY <1>1, <1>2, BatchFacts, Zenon DEF Inv, Shape, Phase
  <1>4. LeftOf(batch, run) \in Plans /\ DOMAIN LeftOf(batch, run) = 1 .. Len(batch.levels)
    BY <1>1, LeftType, Zenon
  <1>5. LeftOf(batch, run)[run.level] = run.wait
    BY <1>3, Zenon DEF LeftOf
  <1>6. ASSUME NEW i \in 1 .. Len(batch.levels), NEW o \in Owner, i < run.level PROVE LeftOf(batch, run)[i][o] = <<>>
    <2>1. LeftOf(batch, run)[i] = Nothing
      BY <1>3, <1>6 DEF LeftOf
    <2> QED BY <2>1, Zenon DEF Nothing
  <1>7. First(LeftOf(batch, run), run.level)
    BY <1>3, <1>4, <1>6, Zenon DEF First
  <1> QED BY <1>1, <1>2, <1>3, <1>4, <1>5, <1>7

\* The next block of a bucket follows its chain, and all that it needs is in the ledger.
LEMMA NextOf ==
    ASSUME QueueAssumption, Inv, version = batch.version, NEW o \in Owner, run.wait[o] # <<>>
    PROVE  /\ Head(run.wait[o]) = Base(World, o) + 1 /\ Head(run.wait[o]) \in 1 .. Limit(o)
           /\ \A r \in Needs(World, o, Head(run.wait[o])) : Stored(World, r)
  <1> DEFINE L == LeftOf(batch, run)
             n == run.level
             w == World
  <1>1. L \in Plans /\ First(L, n) /\ L[n] = run.wait
    BY Running, Zenon
  <1>2. w \in Worlds /\ Good(L, w)
    BY WorldType, Zenon DEF Inv, Shape, Plan
  <1> HIDE DEF L, n, w
  <1>3. /\ Head(L[n][o]) = Base(w, o) + 1 /\ Head(L[n][o]) \in 1 .. Limit(o)
        /\ \A r \in Needs(w, o, Head(L[n][o])) : Stored(w, r)
    <2>1. L[n][o] # <<>>
      BY <1>1, Zenon
    <2> QED BY <1>1, <1>2, <2>1, NextUp, Zenon
  <1> QED BY <1>1, <1>3, Zenon DEF w

\* A step of the insertion that leaves the level and the batch.
LEMMA GoOn ==
    ASSUME Inv, build.phase \in {"done", "execute"}, run'.level \in 1 .. Len(batch.levels), run' \in Runs,
           batch' = batch, build' = build, version' = version, from' = from, content' = content, Chains', Chunks',
           version = batch.version => Good(LeftOf(batch, run'), World')
    PROVE  Inv'
  <1>1. DOMAIN batch.levels = 1 .. Len(batch.levels)
    BY BatchFacts, Zenon DEF Inv, Shape
  <1>2. Phase'
    BY <1>1, Zenon DEF Inv, Shape, Phase
  <1>3. Grows'
    BY Zenon DEF Inv, Shape, Grows
  <1>4. Shape'
    BY <1>2, <1>3, Zenon DEF Inv, Shape
  <1>5. Making'
    BY Zenon DEF Making
  <1>6. Plan'
    BY <1>5, Zenon DEF Plan
  <1> QED BY <1>4, <1>6, Zenon DEF Inv

\* An inserted block is taken from the plan, and nothing else is.
LEMMA InsertedRun ==
    ASSUME Inv, NEW o \in Owner, run.wait[o] # <<>>, run' = Inserted(o)
    PROVE  /\ run' \in Runs /\ run'.level = run.level
           /\ Taken(LeftOf(batch, run'), LeftOf(batch, run), run.level, o)
  <1>1. batch \in Batch /\ run \in Runs /\ run.wait[o] \in Seq(Nat) /\ Tail(run.wait[o]) \in Seq(Nat)
    BY DEF Inv, Shape, Runs
  <1>2. /\ run' \in Runs /\ run'.level = run.level /\ run'.failed = run.failed
        /\ \A p \in Owner : run'.wait[p] = IF p = o THEN Tail(run.wait[o]) ELSE run.wait[p]
    BY <1>1, Zenon DEF Inserted, Runs
  <1>3. /\ LeftOf(batch, run') \in Plans /\ DOMAIN LeftOf(batch, run') = DOMAIN LeftOf(batch, run)
        /\ DOMAIN LeftOf(batch, run) = DOMAIN batch.levels
    BY <1>1, <1>2, LeftType, Zenon DEF LeftOf
  <1>4. ASSUME NEW i \in DOMAIN batch.levels, NEW p \in Owner
        PROVE  LeftOf(batch, run')[i][p] =
                  IF i = run.level /\ p = o THEN Tail(LeftOf(batch, run)[i][p]) ELSE LeftOf(batch, run)[i][p]
    <2>1. CASE i = run.level
      <3>1. LeftOf(batch, run')[i] = run'.wait /\ LeftOf(batch, run)[i] = run.wait
        BY <2>1, <1>2, Zenon DEF LeftOf
      <3> QED BY <3>1, <2>1, <1>2, Zenon
    <2>2. CASE i # run.level
      <3>1. LeftOf(batch, run')[i] = LeftOf(batch, run)[i]
        BY <2>2, <1>2, Zenon DEF LeftOf
      <3> QED BY <3>1, <2>2, Zenon
    <2> QED BY <2>1, <2>2, Zenon
  <1> QED BY <1>2, <1>3, <1>4, Zenon DEF Taken

\* A bucket that fails is given up, and so are the later levels.
LEMMA FailedRun ==
    ASSUME Inv, NEW o \in Owner, run.wait[o] # <<>>, run' = Failed(o)
    PROVE  /\ run' \in Runs /\ run'.level = run.level
           /\ Kept(LeftOf(batch, run'), LeftOf(batch, run), run.level)
           /\ \A i \in DOMAIN LeftOf(batch, run') : LeftOf(batch, run')[i][o] = <<>>
  <1>1. batch \in Batch /\ run \in Runs
    BY Zenon DEF Inv, Shape
  <1>2. /\ run' \in Runs /\ run'.level = run.level /\ run'.failed
        /\ \A p \in Owner : run'.wait[p] = IF p = o THEN <<>> ELSE run.wait[p]
    <2>1. <<>> \in Seq(Nat)
      OBVIOUS
    <2>2. run' = [level |-> run.level, wait |-> [run.wait EXCEPT ![o] = <<>>],
                  running |-> run.running \ {o}, failed |-> TRUE]
      BY <1>1, Zenon DEF Failed, Runs
    <2>3. [run.wait EXCEPT ![o] = <<>>] \in [Owner -> Seq(Nat)] /\ run.running \ {o} \in SUBSET Owner
      BY <1>1, <2>1, Zenon DEF Runs
    <2>4. run' \in Runs
      BY <1>1, <2>2, <2>3 DEF Runs
    <2>5. run'.level = run.level /\ run'.failed /\ run'.wait = [run.wait EXCEPT ![o] = <<>>]
      BY <2>2
    <2> QED BY <1>1, <2>4, <2>5 DEF Runs
  <1>3. /\ LeftOf(batch, run') \in Plans /\ DOMAIN LeftOf(batch, run') = DOMAIN LeftOf(batch, run)
        /\ DOMAIN LeftOf(batch, run) = DOMAIN batch.levels
    BY <1>1, <1>2, LeftType, Zenon DEF LeftOf
  <1>4. ASSUME NEW i \in DOMAIN batch.levels, NEW p \in Owner
        PROVE  /\ \/ LeftOf(batch, run')[i][p] = <<>>
                  \/ i = run.level /\ LeftOf(batch, run')[i][p] = LeftOf(batch, run)[i][p]
               /\ p = o => LeftOf(batch, run')[i][p] = <<>>
    <2>1. CASE i = run.level
      <3>1. LeftOf(batch, run')[i] = run'.wait /\ LeftOf(batch, run)[i] = run.wait
        BY <2>1, <1>2, Zenon DEF LeftOf
      <3> QED BY <3>1, <2>1, <1>2, Zenon
    <2>2. CASE i # run.level
      <3>1. LeftOf(batch, run')[i] = Nothing
        BY <2>2, <1>2, Zenon DEF LeftOf
      <3> QED BY <3>1, Zenon DEF Nothing
    <2> QED BY <2>1, <2>2, Zenon
  <1> QED BY <1>2, <1>3, <1>4 DEF Kept

\* Inserting an account block takes it from the plan and advances its chain.
LEMMA InsertAccountBlockInv == ASSUME QueueAssumption, Inv, NEW a \in Accounts, InsertAccountBlock(a) PROVE Inv'
  <1>1. /\ run.wait[a] # <<>> /\ version = batch.version /\ a \in Owner /\ a # None
        /\ ledger' = [ledger EXCEPT ![a] = @ + 1] /\ run' = Inserted(a)
        /\ from' = from /\ content' = content /\ own' = own /\ snaps' = snaps /\ version' = version
        /\ batch' = batch /\ build' = build
    BY Zenon DEF InsertAccountBlock, blocks, Owner, QueueAssumption
  <1>2. Chains /\ Chains'
    <2>1. Chains
      BY Zenon DEF Inv, Shape
    <2>2. ledger' \in [Accounts -> Nat]
      BY <2>1, <1>1, SMTT(20) DEF Chains
    <2> QED BY <2>1, <2>2, <1>1, Zenon DEF Chains
  <1>3. PoolSnaps' = PoolSnaps /\ (OwnSnaps' <=> OwnSnaps) /\ \A s : ChunkBlocks(s)' = ChunkBlocks(s)
    <2>1. (OwnSnaps' <=> OwnSnaps) /\ \A s : ChunkBlocks(s)' = ChunkBlocks(s)
      BY <1>1, Zenon DEF OwnSnaps, ChunkBlocks, Confirmed
    <2> QED BY <2>1, <1>1, Zenon DEF PoolSnaps
  <1>4. Chunks'
    BY <1>1, <1>3, Zenon DEF Inv, Shape, Chunks
  <1>5. World \in Worlds /\ World' \in Worlds
    BY <1>2, WorldType, NextWorldType, Zenon
  <1>6. Advances(World', World, a)
    BY <1>1, <1>2, Zenon DEF Advances, World, Base, Owner, Chains
  <1>7. Good(LeftOf(batch, run), World)
    BY <1>1, Zenon DEF Inv, Plan
  <1>8. /\ LeftOf(batch, run) \in Plans /\ First(LeftOf(batch, run), run.level)
        /\ LeftOf(batch, run)[run.level][a] # <<>>
    BY <1>1, Running, Zenon
  <1>9. run' \in Runs /\ run'.level = run.level /\ Taken(LeftOf(batch, run'), LeftOf(batch, run), run.level, a)
    BY <1>1, InsertedRun, Zenon
  <1>10. Good(LeftOf(batch, run'), World')
    BY <1>1, <1>5, <1>6, <1>7, <1>8, <1>9, InsertHead, Zenon
  <1> QED BY <1>1, <1>2, <1>4, <1>9, <1>10, Running, GoOn, Zenon

\* A failed bucket leaves a smaller plan that is still good.
LEMMA FailBucketInv == ASSUME QueueAssumption, Inv, NEW o \in Owner, FailBucket(o) PROVE Inv'
  <1>1. run.wait[o] # <<>> /\ run' = Failed(o) /\ UNCHANGED <<blocks, chain>> /\ batch' = batch /\ build' = build
    BY Zenon DEF FailBucket
  <1>2. Chains' /\ World' = World /\ World \in Worlds /\ from' = from /\ content' = content /\ version' = version
    BY <1>1, Still, WorldType, Zenon DEF Inv, Shape
  <1>3. Chunks'
    BY <1>1, Still DEF Inv, Shape, Chunks
  <1>4. LeftOf(batch, run) \in Plans /\ First(LeftOf(batch, run), run.level)
    BY <1>1, Running, Zenon
  <1>5. run' \in Runs /\ run'.level = run.level /\ Kept(LeftOf(batch, run'), LeftOf(batch, run), run.level)
    BY <1>1, FailedRun, Zenon
  <1>6. version = batch.version => Good(LeftOf(batch, run'), World')
    BY <1>2, <1>4, <1>5, GiveUp, Zenon DEF Inv, Plan
  <1> QED BY <1>1, <1>2, <1>3, <1>5, <1>6, Running, GoOn, Zenon

\* Cutting chains keeps the types of the chains.
LEMMA CutType ==
    ASSUME Chains, NEW n \in [Accounts -> Nat], CutTo(n)
    PROVE  ledger' \in [Accounts -> Nat] /\ own' \in [Accounts -> Nat]
  <1>1. ASSUME NEW a \in Accounts PROVE n[a] \in Nat /\ ledger[a] \in Nat /\ (~ n[a] < ledger[a] => n[a] - ledger[a] \in Nat)
    BY DEF Chains
  <1>2. ledger' \in [Accounts -> Nat]
    BY <1>1, Zenon DEF CutTo
  <1>3. own' \in [Accounts -> Nat]
    BY <1>1, Zenon DEF CutTo
  <1> QED BY <1>2, <1>3, Zenon

\* A snapshot block of the ledger has the height of every account.
LEMMA HeightsType == ASSUME Chains, NEW i \in DOMAIN snaps PROVE snaps[i].heights \in [Accounts -> Nat]
  <1> DEFINE R == [own : BOOLEAN, heights : [Accounts -> Nat]]
  <1>1. snaps \in Seq(R)
    BY Zenon DEF Chains
  <1>2. snaps[i] \in R
    <2> HIDE DEF R
    <2> QED BY <1>1
  <1> QED BY <1>2, Zenon

\* What the last snapshot block of the ledger confirms is a height of every account.
LEMMA FixedType == ASSUME Chains PROVE Fixed \in [Accounts -> Nat]
  <1>1. CASE snaps = <<>>
    BY <1>1, Zenon DEF Fixed
  <1>2. CASE snaps # <<>>
    <2>1. Fixed = snaps[Len(snaps)].heights /\ Len(snaps) \in DOMAIN snaps
      BY <1>2 DEF Fixed, Chains
    <2> QED BY <2>1, HeightsType, Zenon
  <1> QED BY <1>1, <1>2, Zenon

\* What a cut leaves is a height of every account.
LEMMA CutsType ==
    ASSUME QueueAssumption, NEW low, NEW high, NEW n \in Cuts(low, high) PROVE n \in [Accounts -> Nat]
  <1>1. n \in [Accounts -> 0 .. Length + MaxOwn]
    BY Zenon DEF Cuts
  <1> QED BY <1>1 DEF QueueAssumption

\* A snapshot block at the end of the ledger keeps its type.
LEMMA MoreSnaps ==
    ASSUME Chains, NEW b \in BOOLEAN, NEW h \in [Accounts -> Nat], snaps' = Append(snaps, [own |-> b, heights |-> h])
    PROVE  /\ snaps' \in Seq([own : BOOLEAN, heights : [Accounts -> Nat]]) /\ Len(snaps') = Len(snaps) + 1
           /\ ~ b => ~ OwnSnaps'
  <1> DEFINE x == [own |-> b, heights |-> h]
  <1>1. x \in [own : BOOLEAN, heights : [Accounts -> Nat]] /\ (x.own <=> b)
    BY Zenon
  <1> HIDE DEF x
  <1>2. snaps' = Append(snaps, x)
    BY Zenon DEF x
  <1>3. /\ snaps' \in Seq([own : BOOLEAN, heights : [Accounts -> Nat]]) /\ Len(snaps') = Len(snaps) + 1
        /\ Len(snaps) \in Nat /\ DOMAIN snaps = 1 .. Len(snaps) /\ DOMAIN snaps' = 1 .. Len(snaps) + 1
        /\ snaps'[Len(snaps) + 1] = x /\ \A i \in 1 .. Len(snaps) : snaps'[i] = snaps[i]
    BY <1>1, <1>2 DEF Chains
  <1>4. ~ b => ~ OwnSnaps'
    BY <1>1, <1>3, Zenon DEF OwnSnaps
  <1> QED BY <1>3, <1>4, Zenon

\* The larger of two natural numbers is one.
LEMMA MaxOfTwo == ASSUME NEW x \in Nat, NEW y \in Nat PROVE Max({x, y}) \in Nat
  <1>1. \E m \in {x, y} : \A z \in {x, y} : m >= z
    BY DEF Max
  <1> QED BY <1>1, Zenon DEF Max

\* Inserting a snapshot block advances the snapshot chain; when it deletes blocks, the rest of
\* the batch is given up.
LEMMA InsertSnapshotBlockInv == ASSUME QueueAssumption, Inv, InsertSnapshotBlock PROVE Inv'
  <1> DEFINE s == Head(run.wait[None])
             low == [a \in Accounts |-> Max({content[s][a], Fixed[a]})]
  <1>1. /\ None \in Owner /\ run.wait[None] # <<>> /\ ~ OwnSnaps /\ version = batch.version
        /\ snaps' = Append(snaps, [own |-> FALSE, heights |-> low])
        /\ from' = from /\ content' = content /\ version' = version /\ batch' = batch /\ build' = build
    BY Zenon DEF InsertSnapshotBlock, blocks, Owner
  <1>2. PICK n \in Cuts(low, Tails) : CutTo(n) /\ run' = IF n = Tails THEN Inserted(None) ELSE Failed(None)
    BY Zenon DEF InsertSnapshotBlock, DeleteEnds
  <1>3. Chains /\ World \in Worlds /\ Good(LeftOf(batch, run), World)
    BY <1>1, WorldType, Zenon DEF Inv, Shape, Plan
  <1>4. /\ LeftOf(batch, run) \in Plans /\ First(LeftOf(batch, run), run.level)
        /\ LeftOf(batch, run)[run.level] = run.wait /\ run.level \in 1 .. Len(batch.levels)
        /\ build.phase \in {"done", "execute"}
    BY <1>1, Running, Zenon
  <1>5. s \in 1 .. Snapshots
    BY <1>1, NextOf, Zenon DEF Limit
  <1>6. low \in [Accounts -> Nat]
    <2>1. ASSUME NEW a \in Accounts PROVE Max({content[s][a], Fixed[a]}) \in Nat
      <3>1. content[s][a] \in Nat /\ Fixed[a] \in Nat
        BY <1>3, <1>5, FixedType DEF Chains
      <3> QED BY <3>1, MaxOfTwo, Zenon
    <2> QED BY <2>1, Zenon
  <1> HIDE DEF low, s
  <1>7. ledger' \in [Accounts -> Nat] /\ own' \in [Accounts -> Nat]
    BY <1>2, <1>3, CutsType, CutType, Zenon
  <1>8. /\ snaps' \in Seq([own : BOOLEAN, heights : [Accounts -> Nat]]) /\ Len(snaps') = Len(snaps) + 1
        /\ ~ OwnSnaps'
    <2>1. FALSE \in BOOLEAN /\ ~ FALSE
      BY Zenon
    <2> QED BY <2>1, <1>1, <1>3, <1>6, MoreSnaps, Zenon
  <1>9. Chains'
    BY <1>1, <1>3, <1>7, <1>8, Zenon DEF Chains
  <1>10. World' \in Worlds
    BY <1>9, NextWorldType, Zenon
  <1>11. Chunks'
    <2>1. \A t : ChunkBlocks(t)' = ChunkBlocks(t)
      BY <1>1, Zenon DEF ChunkBlocks, Confirmed
    <2> QED BY <2>1, <1>1, <1>8, Zenon DEF Inv, Shape, Chunks
  <1>12. CASE n = Tails
    <2>1. run' = Inserted(None)
      BY <1>2, <1>12, Zenon
    <2>2. run' \in Runs /\ run'.level = run.level /\ Taken(LeftOf(batch, run'), LeftOf(batch, run), run.level, None)
      BY <1>1, <2>1, InsertedRun, Zenon
    <2>3. ledger' = ledger
      <3>1. ASSUME NEW a \in Accounts PROVE ~ n[a] < ledger[a]
        BY <1>12, <1>3 DEF Tails, TailHeight, Chains
      <3> QED BY <1>2, <1>3, <3>1, Zenon DEF CutTo, Chains
    <2>4. Advances(World', World, None)
      BY <1>1, <1>8, <2>3, Zenon DEF Advances, World, Base
    <2>5. Good(LeftOf(batch, run'), World')
      BY <1>1, <1>3, <1>4, <1>10, <2>2, <2>4, InsertHead, Zenon
    <2> QED BY <1>1, <1>4, <1>9, <1>11, <2>2, <2>5, GoOn, Zenon
  <1>13. CASE n # Tails
    <2>1. run' = Failed(None)
      BY <1>2, <1>13, Zenon
    <2>2. /\ run' \in Runs /\ run'.level = run.level /\ Kept(LeftOf(batch, run'), LeftOf(batch, run), run.level)
          /\ \A i \in DOMAIN LeftOf(batch, run') : LeftOf(batch, run')[i][None] = <<>>
      BY <1>1, <2>1, FailedRun, Zenon
    <2>3. \A a \in Accounts : LeftOf(batch, run)[run.level][a] = <<>>
      BY <1>1, <1>3, <1>4, Zenon DEF Good, Apart, First
    <2>4. \A i \in DOMAIN LeftOf(batch, run'), p \in Owner : LeftOf(batch, run')[i][p] = <<>>
      BY <2>2, <2>3 DEF Kept, Owner
    <2>5. Good(LeftOf(batch, run'), World')
      BY <2>2, <2>4, EmptyGood, Zenon DEF Kept
    <2> QED BY <1>1, <1>4, <1>9, <1>11, <2>2, <2>5, GoOn, Zenon
  <1> QED BY <1>12, <1>13, Zenon

\* The next level begins when nothing is left of the level in hand; after the last one, or a
\* failure, the batch is dropped, and a chunk goes on with an empty one.
LEMMA LevelDoneInv == ASSUME QueueAssumption, Inv, LevelDone PROVE Inv'
  <1>1. /\ run.level > 0 /\ UNCHANGED <<blocks, chain>>
        /\ run.failed \/ \A o \in Owner : run.wait[o] = <<>>
    BY Zenon DEF LevelDone
  <1>2. /\ build.phase \in {"done", "execute"} /\ batch \in Batch /\ run \in Runs /\ Chains /\ Grows
        /\ version \in Nat /\ build \in Phases /\ run.level \in 1 .. Len(batch.levels) /\ run.level \in Nat
    BY <1>1, Running, Zenon DEF Inv, Shape
  <1>3. Chains' /\ Grows' /\ version' = version /\ World' = World /\ from' = from /\ content' = content
    BY <1>1, <1>2, Still, Zenon
  <1>4. CASE ~ run.failed /\ run.level < Current(batch)
    <2> DEFINE n == run.level + 1
    <2>1. /\ batch' = batch /\ build' = build /\ \A o \in Owner : run.wait[o] = <<>>
          /\ run' = [NoRun EXCEPT !.level = n, !.wait = batch.levels[n].buckets]
      BY <1>1, <1>4, Zenon DEF LevelDone
    <2>2. n \in 1 .. Len(batch.levels) /\ n \in Nat /\ n > run.level /\ DOMAIN batch.levels = 1 .. Len(batch.levels)
      BY <1>2, <1>4, BatchFacts DEF Current
    <2>3. batch.levels[n].buckets \in [Owner -> Seq(Nat)]
      BY <1>2, <2>2, BatchFacts, Zenon
    <2>4. run' \in Runs /\ run'.level = n /\ run'.wait = batch.levels[n].buckets /\ ~ run'.failed
      <3> HIDE DEF n
      <3> QED BY <2>1, <2>2, <2>3, NoRunFacts, Zenon DEF NoRun, Runs
    <2>5. run.wait = Nothing
      BY <1>2, <2>1, Zenon DEF Runs, Nothing
    <2>6. ASSUME NEW i \in 1 .. Len(batch.levels) PROVE LeftOf(batch, run')[i] = LeftOf(batch, run)[i]
      <3>1. i = n \/ i > n \/ i = run.level \/ i < run.level
        BY <1>2, <2>6
      <3>2. LeftOf(batch, run')[i] = IF i = n THEN batch.levels[n].buckets
                                     ELSE IF i > n THEN batch.levels[i].buckets ELSE Nothing
        <4> HIDE DEF n
        <4> QED BY <2>2, <2>4, Zenon DEF LeftOf
      <3>3. LeftOf(batch, run)[i] = IF i = run.level THEN Nothing
                                    ELSE IF i > run.level THEN batch.levels[i].buckets ELSE Nothing
        BY <1>4, <2>2, <2>5, Zenon DEF LeftOf
      <3> QED BY <1>2, <3>1, <3>2, <3>3
    <2>7. LeftOf(batch, run') = LeftOf(batch, run)
      <3>1. /\ LeftOf(batch, run') = [i \in DOMAIN batch.levels |-> LeftOf(batch, run')[i]]
            /\ LeftOf(batch, run) = [i \in DOMAIN batch.levels |-> LeftOf(batch, run)[i]]
        BY Zenon DEF LeftOf
      <3> QED BY <2>2, <2>6, <3>1, Zenon
    <2>8. Chunks'
      BY <1>1, <2>1, Still, Zenon DEF Inv, Shape, Chunks
    <2>9. version = batch.version => Good(LeftOf(batch, run'), World')
      BY <1>3, <2>7, Zenon DEF Inv, Plan
    <2> QED BY <1>2, <1>3, <2>1, <2>2, <2>4, <2>8, <2>9, GoOn, Zenon
  <1>5. CASE ~ (~ run.failed /\ run.level < Current(batch))
    <2>1. run' = NoRun
      BY <1>5, Zenon DEF LevelDone
    <2>2. CASE Locked /\ ~ run.failed /\ build.s <= build.head
      <3>1. batch' = NewBatch(version) /\ build' = [build EXCEPT !.phase = "chunk"] /\ build \in Chunkings
            /\ build.phase = "execute"
        BY <1>2, <1>5, <2>2, PhaseOf, Zenon DEF LevelDone, Locked
      <3>2. /\ build' \in Chunkings /\ build'.phase = "chunk" /\ build'.s = build.s /\ build'.head = build.head
            /\ build'.blocks = build.blocks
        BY <3>1, Zenon DEF Chunkings
      <3>3. batch' \in Batch /\ Sorted(batch') /\ batch'.version = version /\ batch'.levels = <<>>
        BY <1>2, <3>1, NoBatchFacts, Zenon
      <3>4. Good(Buckets(batch'), World) /\ \A o, g : ~ InBatch(batch', o, g)
        BY <3>3, EmptyBuckets, Zenon
      <3>5. MakingChunk'
        BY <3>4, Zenon DEF MakingChunk, Upto
      <3>6. Making'
        BY <3>2, <3>5, Zenon DEF Making
      <3>7. Chunks'
        BY <1>1, <3>1, <3>2, Still DEF Inv, Shape, Chunks
      <3> QED BY <1>1, <1>2, <2>1, <3>2, <3>3, <3>4, <3>6, <3>7, GoBuild, SMTT(20) DEF Phases
    <2>3. CASE ~ (Locked /\ ~ run.failed /\ build.s <= build.head)
      <3>1. batch' = NoBatch /\ build' = NotMaking
        BY <1>5, <2>3, Zenon DEF LevelDone
      <3> QED BY <1>2, <1>3, <2>1, <3>1, GoIdle, Zenon
    <2> QED BY <2>2, <2>3, Zenon
  <1> QED BY <1>4, <1>5, Zenon

(* The other actors. *)

\* A block that this node adds itself is on no chain of the pool: the plan stays good.
LEMMA AddDirectAccountBlockInv ==
    ASSUME QueueAssumption, Inv, NEW a \in Accounts, AddDirectAccountBlock(a) PROVE Inv'
  <1>1. /\ ~ Locked /\ own' = [own EXCEPT ![a] = @ + 1] /\ from' = from /\ content' = content /\ ledger' = ledger
        /\ snaps' = snaps /\ version' = version /\ batch' = batch /\ build' = build /\ run' = run
    BY Zenon DEF AddDirectAccountBlock, blocks
  <1>2. Chains'
    BY <1>1 DEF Inv, Shape, Chains
  <1>3. World' = World /\ Grows' /\ Phase'
    BY <1>1, Zenon DEF Inv, Shape, World, Grows, Phase
  <1>4. OwnSnaps' <=> OwnSnaps
    BY <1>1, Zenon DEF OwnSnaps
  <1>5. Chunks'
    BY <1>1, Zenon DEF Chunks, Locked
  <1>6. Making => Making'
    <2>1. MakingNext => MakingNext'
      BY <1>1, Zenon DEF MakingNext
    <2>2. MakingSnapshot => MakingSnapshot'
      BY <1>1, <1>4, Zenon DEF MakingSnapshot
    <2>3. MakingAccounts => MakingAccounts'
      BY <1>1, Zenon DEF MakingAccounts
    <2>4. MakingChunk => MakingChunk'
      BY <1>1, Zenon DEF MakingChunk
    <2> QED BY <1>1, <2>1, <2>2, <2>3, <2>4, Zenon DEF Making
  <1>7. Plan'
    BY <1>1, <1>3, <1>6 DEF Inv, Plan
  <1> QED BY <1>1, <1>2, <1>3, <1>5, <1>7, Zenon DEF Inv, Shape

\* A step with a new version leaves no batch to insert.
LEMMA Outdated ==
    ASSUME Inv, Chains', version' = version + 1, ~ Locked, content' = content, batch' = batch, build' = build, run' = run
    PROVE  Inv'
  <1>1. version \in Nat /\ batch.version \in Nat /\ batch.version <= version
    BY BatchFacts, Zenon DEF Inv, Shape, Phase
  <1>2. version' \in Nat /\ batch'.version <= version' /\ version' # batch'.version
    BY <1>1
  <1>3. Grows' /\ Phase' /\ Chunks'
    BY <1>2, Zenon DEF Inv, Shape, Grows, Phase, Chunks, Locked
  <1>4. Plan'
    BY <1>2, Zenon DEF Plan
  <1> QED BY <1>2, <1>3, <1>4, Zenon DEF Inv, Shape

\* A snapshot block that this node produces raises the version, and outdates the batch.
LEMMA AddDirectSnapshotBlockInv == ASSUME QueueAssumption, Inv, AddDirectSnapshotBlock PROVE Inv'
  <1>1. /\ ~ Locked /\ version' = version + 1 /\ from' = from /\ content' = content
        /\ batch' = batch /\ build' = build /\ run' = run
    BY Zenon DEF AddDirectSnapshotBlock, blocks
  <1>2. Chains
    BY Zenon DEF Inv, Shape
  <1>3. CASE UNCHANGED <<ledger, own, snaps>>
    <2>1. Chains'
      BY <1>1, <1>2, <1>3, Zenon DEF Chains
    <2> QED BY <1>1, <2>1, Outdated, Zenon
  <1>4. CASE \E heights \in {n \in Cuts(Fixed, Tails) : ~ OwnSnaps} :
                /\ snaps' = Append(snaps, [own |-> TRUE, heights |-> heights])
                /\ \E n \in Cuts(heights, Tails) : CutTo(n)
    <2>1. PICK heights \in Cuts(Fixed, Tails) :
                /\ snaps' = Append(snaps, [own |-> TRUE, heights |-> heights])
                /\ \E n \in Cuts(heights, Tails) : CutTo(n)
      BY <1>4, Zenon
    <2>2. PICK n \in Cuts(heights, Tails) : CutTo(n)
      BY <2>1, Zenon
    <2>3. heights \in [Accounts -> Nat] /\ n \in [Accounts -> Nat]
      BY CutsType, Zenon
    <2>4. ledger' \in [Accounts -> Nat] /\ own' \in [Accounts -> Nat]
      BY <1>2, <2>2, <2>3, CutType, Zenon
    <2>5. snaps' \in Seq([own : BOOLEAN, heights : [Accounts -> Nat]])
      <3>1. TRUE \in BOOLEAN
        BY Zenon
      <3> QED BY <3>1, <1>2, <2>1, <2>3, MoreSnaps, Zenon
    <2>6. Chains'
      BY <1>1, <1>2, <2>4, <2>5, Zenon DEF Chains
    <2> QED BY <1>1, <2>6, Outdated, Zenon
  <1> QED BY <1>3, <1>4, Zenon DEF AddDirectSnapshotBlock

\* So does a switch back to the branch of the pool.
LEMMA CheckForkInv == ASSUME QueueAssumption, Inv, CheckFork PROVE Inv'
  <1>1. /\ build = NotMaking /\ OwnSnaps /\ version' = version + 1 /\ from' = from /\ content' = content
        /\ snaps' = SubSeq(snaps, 1, PoolSnaps) /\ batch' = batch /\ build' = build /\ run' = run
    BY Zenon DEF CheckFork, blocks
  <1>2. Chains /\ ~ Locked
    BY <1>1, Zenon DEF Inv, Shape, Locked, NotMaking
  <1>3. PICK i \in {PoolSnaps, PoolSnaps + 1} : CutTo(IF i = 0 THEN Confirmed(0) ELSE snaps[i].heights)
    BY Zenon DEF CheckFork
  <1>4. /\ PoolSnaps \in Nat /\ Len(snaps) \in Nat /\ PoolSnaps < Len(snaps) /\ i \in 0 .. Len(snaps)
        /\ DOMAIN snaps = 1 .. Len(snaps)
    BY <1>1, <1>2, PoolSnapsType DEF Chains
  <1> DEFINE n == IF i = 0 THEN Confirmed(0) ELSE snaps[i].heights
  <1>5. n \in [Accounts -> Nat]
    <2>1. CASE i = 0
      BY <2>1, Zenon DEF Confirmed
    <2>2. CASE i # 0
      <3>1. i \in DOMAIN snaps
        BY <1>4, <2>2
      <3> QED BY <1>2, <2>2, <3>1, HeightsType, Zenon
    <2> QED BY <2>1, <2>2, Zenon
  <1>6. CutTo(n)
    BY <1>3, Zenon
  <1> HIDE DEF n
  <1>7. ledger' \in [Accounts -> Nat] /\ own' \in [Accounts -> Nat]
    BY <1>2, <1>5, <1>6, CutType, Zenon
  <1>8. snaps' \in Seq([own : BOOLEAN, heights : [Accounts -> Nat]])
    <2> DEFINE R == [own : BOOLEAN, heights : [Accounts -> Nat]]
    <2>1. snaps \in Seq(R)
      BY <1>2, Zenon DEF Chains
    <2> HIDE DEF R
    <2>2. SubSeq(snaps, 1, PoolSnaps) \in Seq(R)
      BY <1>4, <2>1
    <2> QED BY <1>1, <2>2, Zenon DEF R
  <1>9. Chains'
    BY <1>1, <1>2, <1>7, <1>8, Zenon DEF Chains
  <1> QED BY <1>1, <1>2, <1>9, Outdated, Zenon

\* The invariant holds at the start.
LEMMA InitInv == ASSUME QueueAssumption, QueueInit PROVE Inv
  <1>1. PICK shape \in Shapes : from = shape.from /\ content = shape.content
    BY Zenon DEF QueueInit
  <1>2. /\ ledger = [a \in Accounts |-> 0] /\ own = ledger /\ snaps = <<>> /\ version = 0
        /\ batch = NoBatch /\ build = NotMaking /\ run = NoRun
    BY Zenon DEF QueueInit
  <1>3. from \in [Block -> Block \cup {None}] /\ content \in [1 .. Snapshots -> [Accounts -> 0 .. Length]] /\ Grows
    BY <1>1, Zenon DEF QueueAssumption, Grows
  <1>4. Chains
    BY <1>2, <1>3 DEF Chains
  <1>5. batch \in Batch /\ Sorted(batch) /\ batch.levels = <<>> /\ batch.version = 0
    BY <1>2, NoBatchFacts, Zenon DEF NoBatch
  <1>6. build.phase = "idle" /\ build \in Phases /\ run \in Runs
    BY <1>2, NoRunFacts, Zenon DEF NotMaking, Phases, Idles
  <1>7. Phase /\ Chunks
    BY <1>2, <1>5, <1>6 DEF Phase, Chunks
  <1>8. Good(LeftOf(batch, run), World) /\ Making
    BY <1>5, <1>6, EmptyPlan, Zenon DEF Making
  <1> QED BY <1>2, <1>3, <1>4, <1>5, <1>6, <1>7, <1>8, Zenon DEF Inv, Shape, Plan

\* A step that changes nothing keeps the invariant.
LEMMA StillInv == ASSUME Inv, UNCHANGED queueVars PROVE Inv'
  <1>1. /\ UNCHANGED <<blocks, chain>> /\ batch' = batch /\ build' = build /\ run' = run
    BY Zenon DEF queueVars, blocks, chain
  <1>2. /\ from' = from /\ content' = content /\ ledger' = ledger /\ snaps' = snaps
        /\ version' = version /\ World' = World /\ Chains' /\ Grows' /\ PoolSnaps' = PoolSnaps
        /\ (OwnSnaps' <=> OwnSnaps) /\ \A s : ChunkBlocks(s)' = ChunkBlocks(s)
    BY <1>1, Still, Zenon DEF Inv, Shape
  <1>3. Phase' /\ Chunks'
    BY <1>1, <1>2, Zenon DEF Inv, Shape, Phase, Chunks
  <1>4. Making => Making'
    BY <1>1, <1>2, Zenon DEF Making, MakingNext, MakingSnapshot, MakingAccounts, MakingChunk
  <1> QED BY <1>1, <1>2, <1>3, <1>4, Zenon DEF Inv, Shape, Plan

\* The invariant implies InOrder: the blocks that may be inserted next are the heads of the
\* buckets of the first level.
LEMMA InvInOrder == ASSUME QueueAssumption, Inv PROVE InOrder
  <1> SUFFICES ASSUME version = batch.version
               PROVE  /\ \A a \in Accounts : run.wait[a] # <<>> =>
                            /\ Head(run.wait[a]) = ledger[a] + 1
                            /\ \A r \in From([acc |-> a, h |-> Head(run.wait[a])]) : InLedger(r)
                      /\ run.wait[None] # <<>> =>
                            /\ Head(run.wait[None]) = Len(snaps) + 1
                            /\ \A r \in SnapshotContent(Head(run.wait[None])) : InLedger(r)
    BY Zenon DEF InOrder
  <1>1. Chains /\ World \in Worlds /\ World.ledger = ledger /\ World.height = Len(snaps)
        /\ Good(LeftOf(batch, run), World)
    BY WorldType, Zenon DEF Inv, Shape, Plan
  <1>2. ASSUME NEW o \in Owner, run.wait[o] # <<>>
        PROVE  /\ Head(run.wait[o]) = Base(World, o) + 1 /\ Head(run.wait[o]) \in 1 .. Limit(o)
               /\ \A r \in Needs(World, o, Head(run.wait[o])) : InLedger(r)
    <2>1. /\ Head(run.wait[o]) = Base(World, o) + 1 /\ Head(run.wait[o]) \in 1 .. Limit(o)
          /\ \A r \in Needs(World, o, Head(run.wait[o])) : Stored(World, r)
      BY <1>2, NextOf, Zenon
    <2> QED BY <1>1, <2>1, NeedsOf, Zenon
  <1>3. ASSUME NEW a \in Accounts, run.wait[a] # <<>>
        PROVE  /\ Head(run.wait[a]) = ledger[a] + 1
               /\ \A r \in From([acc |-> a, h |-> Head(run.wait[a])]) : InLedger(r)
    <2>1. a \in Owner /\ a # None
      BY Zenon DEF Owner, QueueAssumption
    <2>2. Base(World, a) = ledger[a]
      BY <1>1, <2>1, Zenon DEF Base
    <2>3. Needs(World, a, Head(run.wait[a])) = From([acc |-> a, h |-> Head(run.wait[a])])
      BY <1>1, NeedsOf, Zenon
    <2> QED BY <1>2, <1>3, <2>1, <2>2, <2>3, Zenon
  <1>4. ASSUME run.wait[None] # <<>>
        PROVE  /\ Head(run.wait[None]) = Len(snaps) + 1
               /\ \A r \in SnapshotContent(Head(run.wait[None])) : InLedger(r)
    <2>1. None \in Owner /\ Limit(None) = Snapshots /\ Base(World, None) = Len(snaps)
      BY <1>1, Zenon DEF Owner, Limit, Base
    <2>2. /\ Head(run.wait[None]) = Len(snaps) + 1 /\ Head(run.wait[None]) \in 1 .. Snapshots
          /\ \A r \in Needs(World, None, Head(run.wait[None])) : InLedger(r)
      BY <1>2, <1>4, <2>1, Zenon
    <2> QED BY <1>1, <2>2, NeedsOf, Zenon
  <1> QED BY <1>3, <1>4, Zenon
=============================================================================
