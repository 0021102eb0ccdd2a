------------------------- MODULE LevelLemmas -------------------------
(***************************************************************************)
(* What makes a batch: lemmas about addAccountItem, addSnapshotItem and    *)
(* AddAll (ledger/pool/batch).  A block that is added to a batch is put    *)
(* into a level after the levels of what it refers to, so the batch stays  *)
(* Good.  FoundLevel is the heart of it; AddAllFirst carries it from one   *)
(* block to the blocks of an account that are added one after another.     *)
(***************************************************************************)
EXTENDS PlanLemmas

\* The buckets of a batch are a plan.
LEMMA BucketsType == ASSUME NEW q \in Batch PROVE Buckets(q) \in Plans /\ DOMAIN Buckets(q) = 1 .. Len(q.levels)
  <1>1. q.levels \in Seq(Level)
    BY Zenon DEF Batch
  <1>2. DOMAIN q.levels = 1 .. Len(q.levels) /\ Len(q.levels) \in Nat
        /\ \A i \in DOMAIN q.levels : q.levels[i] \in Level
    BY <1>1
  <1>3. \A l \in Level : l.buckets \in [Owner -> Seq(Nat)]
    BY Zenon DEF Level
  <1>4. Buckets(q) \in [1 .. Len(q.levels) -> [Owner -> Seq(Nat)]]
    BY <1>2, <1>3, Zenon DEF Buckets
  <1> QED BY <1>2, <1>4, Zenon DEF Plans

\* The heights and the levels of a plan are natural numbers.
LEMMA HasType == ASSUME NEW L \in Plans, NEW o \in Owner, NEW h, NEW i, Has(L, o, h, i) PROVE h \in Nat /\ i \in Nat \ {0}
  BY DEF Plans, Has, Range

Old(q, i, p) == IF i <= Len(q.levels) THEN q.levels[i].buckets[p] ELSE <<>>

\* a is the batch q with h added at the end of the bucket of o in level max.
IsAdded(a, q, max, o, h) ==
    /\ a \in Batch /\ a.version = q.version /\ a.lastSnapshot = q.lastSnapshot
    /\ Len(a.levels) = IF max > Len(q.levels) THEN Len(q.levels) + 1 ELSE Len(q.levels)
    /\ \A i \in DOMAIN a.levels, p \in Owner :
          a.levels[i].buckets[p] = IF i = max /\ p = o THEN Append(Old(q, i, p), h) ELSE Old(q, i, p)
    /\ \A i \in DOMAIN a.levels :
          IF i <= Len(q.levels) THEN /\ a.levels[i].snapshot = q.levels[i].snapshot
                                     /\ a.levels[i].closed = q.levels[i].closed
          ELSE a.levels[i].snapshot = (o = None) /\ a.levels[i].closed = FALSE

\* Adding a block appends it to one bucket of one level, which may be a new one.
LEMMA AddedLevels ==
    ASSUME NEW q \in Batch, NEW max \in 1 .. Len(q.levels) + 1, NEW o \in Owner, NEW h \in Nat
    PROVE  IsAdded(Added(q, max, o, h), q, max, o, h)
  <1> DEFINE ls == IF max > Len(q.levels) THEN Append(q.levels, newLevel(o = None)) ELSE q.levels
             ms == [ls EXCEPT ![max].buckets[o] = Append(@, h)]
             a == Added(q, max, o, h)
  <1>1. newLevel(o = None) \in Level
    BY DEF newLevel, Level
  <1>2. ls \in Seq(Level) /\ max \in 1 .. Len(ls)
        /\ Len(ls) = IF max > Len(q.levels) THEN Len(q.levels) + 1 ELSE Len(q.levels)
    BY <1>1 DEF Batch
  <1>3. \A i \in 1 .. Len(ls) : ls[i] = IF i <= Len(q.levels) THEN q.levels[i] ELSE newLevel(o = None)
    BY <1>1 DEF Batch
  <1>4. a = [q EXCEPT !.levels = ms]
    BY Zenon DEF Added, Current
  <1> HIDE DEF ls
  <1>5. ls[max] \in Level /\ ls[max].buckets[o] \in Seq(Nat) /\ Append(ls[max].buckets[o], h) \in Seq(Nat)
    <2>1. ls[max] \in Level
      BY <1>2
    <2>2. ls[max].buckets \in [Owner -> Seq(Nat)]
      BY <2>1, Zenon DEF Level
    <2>3. ls[max].buckets[o] \in Seq(Nat)
      BY <2>2, Zenon
    <2> QED BY <2>1, <2>3
  <1>6. ms \in Seq(Level) /\ Len(ms) = Len(ls)
    <2> DEFINE b == Append(ls[max].buckets[o], h)
               l == [ls[max] EXCEPT !.buckets = [ls[max].buckets EXCEPT ![o] = b]]
    <2>1. b \in Seq(Nat)
      BY <1>5, Zenon
    <2> HIDE DEF b
    <2>2. l \in Level
      BY <1>5, <2>1, Zenon DEF Level
    <2>3. ms = [ls EXCEPT ![max] = l]
      BY Zenon DEF b
    <2> HIDE DEF l, ms
    <2> QED BY <1>2, <2>2, <2>3
  <1>7. \A i \in 1 .. Len(ls) : /\ ms[i].snapshot = ls[i].snapshot /\ ms[i].closed = ls[i].closed
                                /\ \A p \in Owner : ms[i].buckets[p] = IF i = max /\ p = o THEN Append(ls[i].buckets[p], h) ELSE ls[i].buckets[p]
    BY <1>2, <1>5, SMTT(20) DEF Level
  <1> HIDE DEF ms
  <1>8. a \in Batch /\ a.version = q.version /\ a.lastSnapshot = q.lastSnapshot /\ a.levels = ms
    BY <1>4, <1>6, Zenon DEF Batch
  <1>9. ASSUME NEW i \in 1 .. Len(ls), NEW p \in Owner
        PROVE  ls[i].buckets[p] = Old(q, i, p)
    BY <1>3 DEF Old, newLevel
  <1>10. ASSUME NEW i \in 1 .. Len(ls)
        PROVE  IF i <= Len(q.levels) THEN /\ ls[i].snapshot = q.levels[i].snapshot
                                          /\ ls[i].closed = q.levels[i].closed
               ELSE ls[i].snapshot = (o = None) /\ ls[i].closed = FALSE
    BY <1>3 DEF newLevel
  <1>11. DOMAIN a.levels = 1 .. Len(ls)
    BY <1>6, <1>8
  <1> HIDE DEF a
  <1>12. \A i \in DOMAIN a.levels, p \in Owner :
                 a.levels[i].buckets[p] = IF i = max /\ p = o THEN Append(Old(q, i, p), h) ELSE Old(q, i, p)
    BY <1>7, <1>8, <1>9, <1>11
  <1>13. \A i \in DOMAIN a.levels :
                 IF i <= Len(q.levels) THEN /\ a.levels[i].snapshot = q.levels[i].snapshot
                                            /\ a.levels[i].closed = q.levels[i].closed
                 ELSE a.levels[i].snapshot = (o = None) /\ a.levels[i].closed = FALSE
    BY <1>7, <1>8, <1>10, <1>11
  <1>14. Len(a.levels) = IF max > Len(q.levels) THEN Len(q.levels) + 1 ELSE Len(q.levels)
    BY <1>2, <1>6, <1>8, Zenon
  <1>15. IsAdded(a, q, max, o, h)
    BY <1>8, <1>12, <1>13, <1>14, Zenon DEF IsAdded
  <1> QED BY <1>15, Zenon DEF a

\* Append adds one element to the range.
LEMMA RangeAppend ==
    ASSUME NEW S, NEW s \in Seq(S), NEW x \in S
    PROVE  Range(Append(s, x)) = Range(s) \cup {x}
  <1>1. /\ DOMAIN s = 1 .. Len(s) /\ Len(s) \in Nat /\ DOMAIN Append(s, x) = 1 .. Len(s) + 1
        /\ Append(s, x)[Len(s) + 1] = x /\ \A i \in 1 .. Len(s) : Append(s, x)[i] = s[i]
    OBVIOUS
  <1> DEFINE t == Append(s, x)
  <1> HIDE DEF t
  <1>2. \A i \in 1 .. Len(s) + 1 : i \in 1 .. Len(s) \/ i = Len(s) + 1
    BY <1>1
  <1> QED BY <1>1, <1>2 DEF Range, t

\* Adding a block adds one height to the plan, and moves none.
LEMMA HasAdded ==
    ASSUME NEW q \in Batch, NEW max \in 1 .. Len(q.levels) + 1, NEW o \in Owner, NEW h \in Nat
    PROVE  \A p \in Owner : \A g, i \in Nat :
              Has(Buckets(Added(q, max, o, h)), p, g, i) <=>
                  Has(Buckets(q), p, g, i) \/ (p = o /\ g = h /\ i = max)
  <1> DEFINE a == Added(q, max, o, h)
  <1> SUFFICES ASSUME NEW p \in Owner, NEW g \in Nat, NEW i \in Nat
               PROVE  Has(Buckets(a), p, g, i) <=>
                         Has(Buckets(q), p, g, i) \/ (p = o /\ g = h /\ i = max)
    BY Zenon
  <1>0. IsAdded(a, q, max, o, h)
    BY AddedLevels, Zenon
  <1> HIDE DEF a
  <1>1. /\ a \in Batch
        /\ Len(a.levels) = IF max > Len(q.levels) THEN Len(q.levels) + 1 ELSE Len(q.levels)
        /\ \A j \in DOMAIN a.levels :
              a.levels[j].buckets[p] = IF j = max /\ p = o THEN Append(Old(q, j, p), h) ELSE Old(q, j, p)
    BY <1>0, Zenon DEF IsAdded
  <1>2. Len(q.levels) \in Nat /\ DOMAIN q.levels = 1 .. Len(q.levels) /\ DOMAIN a.levels = 1 .. Len(a.levels)
    BY <1>1 DEF Batch
  <1>3. Old(q, i, p) \in Seq(Nat) \/ i = 0
    <2>1. CASE i \in 1 .. Len(q.levels)
      <3>1. q.levels[i] \in Level
        BY <2>1, <1>2 DEF Batch
      <3>2. q.levels[i].buckets \in [Owner -> Seq(Nat)]
        BY <3>1, Zenon DEF Level
      <3> QED BY <3>2, <2>1 DEF Old
    <2>2. CASE i = 0 \/ i > Len(q.levels)
      BY <2>2, <1>2 DEF Old
    <2> QED BY <2>1, <2>2, <1>2
  <1>4. Has(Buckets(q), p, g, i) <=> i # 0 /\ g \in Range(Old(q, i, p))
    <2>1. Range(<<>>) = {}
      BY DEF Range
    <2> QED BY <1>2, <2>1 DEF Has, Buckets, Old
  <1>5. Has(Buckets(a), p, g, i) <=> i \in 1 .. Len(a.levels) /\ g \in Range(a.levels[i].buckets[p])
    BY <1>2, Zenon DEF Has, Buckets
  <1>6. i # 0 => Range(Append(Old(q, i, p), h)) = Range(Old(q, i, p)) \cup {h}
    BY <1>3, RangeAppend
  <1>7. i > Len(q.levels) => Range(Old(q, i, p)) = {}
    BY <1>2 DEF Range, Old
  <1> QED BY <1>1, <1>2, <1>4, <1>5, <1>6, <1>7

\* What a block receives from is a block.
LEMMA FromType == ASSUME Chains, NEW b \in Block PROVE From(b) \subseteq Block
  BY Zenon DEF Chains, From

\* Plan M is L with height h of o in level max, after all of its chain and all that it needs.
Joins(L, M, w, o, h, max) ==
    /\ \A p \in Owner : \A g, i \in Nat : Has(M, p, g, i) <=> Has(L, p, g, i) \/ (p = o /\ g = h /\ i = max)
    /\ \A p \in Owner, i \in DOMAIN M : Increasing(M[i][p])
    /\ Apart(M)
    /\ \A g, i \in Nat : Has(L, o, g, i) => g < h /\ i <= max
    /\ h > Base(w, o) /\ (h = Base(w, o) + 1 \/ \E j \in Nat : Has(L, o, h - 1, j))
    /\ h \in 1 .. Limit(o)
    /\ \A r \in Needs(w, o, h) :
          Stored(w, r) \/ \E j \in Nat : Has(L, r.acc, r.h, j) /\ (j < max \/ r.acc = o)

\* A good plan stays good when a block joins it behind all that it refers to.
LEMMA GoodAdded ==
    ASSUME QueueAssumption, NEW L \in Plans, NEW M \in Plans, NEW w \in Worlds, NEW o \in Owner, NEW h \in Nat,
           NEW max \in Nat, Good(L, w), Joins(L, M, w, o, h, max)
    PROVE  Good(M, w)
  <1>1. Ordered(M)
    BY DEF Good, Ordered, Joins
  <1>2. Connected(M, w)
    <2> SUFFICES ASSUME NEW p \in Owner, NEW i \in Nat, NEW g \in Nat, Has(M, p, g, i)
                 PROVE  g > Base(w, p) /\ (g = Base(w, p) + 1 \/ \E j \in Nat : Has(M, p, g - 1, j))
      BY Zenon DEF Connected
    <2>1. CASE Has(L, p, g, i)
      <3>1. g > Base(w, p) /\ (g = Base(w, p) + 1 \/ \E j \in Nat : Has(L, p, g - 1, j))
        BY <2>1, Zenon DEF Good, Connected
      <3>2. Base(w, p) \in Nat /\ g - 1 \in Nat
        BY <3>1, BaseType
      <3> QED BY <3>1, <3>2, Zenon DEF Joins
    <2>2. CASE p = o /\ g = h /\ i = max
      <3>1. Base(w, o) \in Nat /\ h - 1 \in Nat
        BY BaseType DEF Joins
      <3> QED BY <2>2, <3>1, Zenon DEF Joins
    <2> QED BY <2>1, <2>2, Zenon DEF Joins
  <1>3. ASSUME NEW p \in Owner, NEW i \in Nat, NEW g \in Nat, Has(M, p, g, i)
        PROVE  /\ g \in 1 .. Limit(p)
               /\ \A r \in Needs(w, p, g) :
                     Stored(w, r) \/ \E j \in Nat : Has(M, r.acc, r.h, j) /\ (j < i \/ (r.acc = p /\ r.h < g))
    <2>1. CASE Has(L, p, g, i)
      <3>1. /\ g \in 1 .. Limit(p)
            /\ \A r \in Needs(w, p, g) :
                     Stored(w, r) \/ \E j \in Nat : Has(L, r.acc, r.h, j) /\ (j < i \/ (r.acc = p /\ r.h < g))
        BY <2>1, Zenon DEF Good, References
      <3>2. \A r \in Needs(w, p, g) : r.acc \in Owner /\ r.h \in Nat
        BY <3>1, NeedsType DEF Owner
      <3> QED BY <3>1, <3>2, Zenon DEF Joins
    <2>2. CASE p = o /\ g = h /\ i = max
      <3>1. h \in 1 .. Limit(o) /\ \A r \in Needs(w, o, h) : r.acc \in Owner /\ r.h \in Nat
        BY NeedsType DEF Owner, Joins
      <3> QED BY <2>2, <3>1 DEF Joins
    <2> QED BY <1>3, <2>1, <2>2, Zenon DEF Joins
  <1>4. References(M, w)
    BY <1>3, Zenon DEF References
  <1> QED BY <1>1, <1>2, <1>4, Zenon DEF Good, Joins

\* No level has been found yet, or one after the last snapshot level, at most one new one.
FoundOK(q, f) ==
    /\ f \in [max : Nat, err : {"none", "reference", "max"}]
    /\ f.max = 0 \/ f.max > q.lastSnapshot
    /\ f.max <= Len(q.levels) + 1

\* Block r is in the ledger, or in a level that f lets b come after.
Behind(q, b, f, r) ==
    \/ InLedger(r)
    \/ \E i \in Nat : /\ Has(Buckets(q), r.acc, r.h, i)
                      /\ i < q.lastSnapshot \/ (f.max > 0 /\ LevelAfter(b, r, i) <= f.max)

\* A level with a block of an account.
LEMMA AccountLevel ==
    ASSUME NEW q \in Batch, Sorted(q), NEW a \in Accounts, NEW h, NEW i \in Nat, Has(Buckets(q), a, h, i)
    PROVE  /\ i \in 1 .. Len(q.levels) /\ ~ q.levels[i].snapshot
           /\ q.levels[i].closed => i < q.lastSnapshot
           /\ ~ q.levels[i].closed => i > q.lastSnapshot
  <1>1. i \in 1 .. Len(q.levels) /\ h \in Range(q.levels[i].buckets[a])
    BY BatchFacts, Zenon
  <1>2. q.levels[i].buckets[a] # <<>>
    BY <1>1 DEF Range
  <1>3. ~ q.levels[i].snapshot
    BY <1>1, <1>2, BatchFacts, Zenon DEF Sorted
  <1>4. i # q.lastSnapshot
    BY <1>1, <1>3 DEF Sorted
  <1> QED BY <1>1, <1>3, <1>4, BatchFacts DEF Sorted

\* One reference more: the level found is behind the level of that reference.
LEMMA ReferToFound ==
    ASSUME Chains, NEW q \in Batch, Sorted(q), NEW b \in Block, NEW r \in Block,
           NEW f, FoundOK(q, f), f.err = "none", ReferTo(q, b, f, r).err = "none"
    PROVE  /\ FoundOK(q, ReferTo(q, b, f, r))
           /\ ReferTo(q, b, f, r).max >= f.max
           /\ Behind(q, b, ReferTo(q, b, f, r), r)
  <1> DEFINE levels == LevelsOf(q, r.acc, r.h)
             m == Max(levels)
             g == ReferTo(q, b, f, r)
  <1>0. r.acc \in Accounts /\ r.h \in Nat
    BY DEF Block
  <1>1. levels \in SUBSET Nat /\ \A i \in levels : i <= Len(q.levels) /\ Has(Buckets(q), r.acc, r.h, i)
    <2>1. levels = {i \in 1 .. Len(q.levels) : r.h \in Range(q.levels[i].buckets[r.acc])}
      BY BatchFacts, Zenon DEF LevelsOf
    <2> HIDE DEF levels
    <2>2. \A i \in levels : i \in 1 .. Len(q.levels) /\ r.h \in Range(q.levels[i].buckets[r.acc])
      BY <2>1, Zenon
    <2>3. Len(q.levels) \in Nat
      BY BatchFacts, Zenon
    <2>4. \A i \in levels : Has(Buckets(q), r.acc, r.h, i)
      BY <2>2, BatchFacts, Zenon
    <2> QED BY <2>2, <2>3, <2>4
  <1>2. CASE levels = {}
    <2>1. g = f /\ InLedger(r)
      BY <1>2 DEF ReferTo
    <2> QED BY <2>1 DEF FoundOK, Behind
  <1>3. CASE levels # {}
    <2>1. m \in levels
      <3> HIDE DEF levels
      <3> QED BY <1>1, <1>3, BatchFacts, Greatest, Zenon
    <2>2. m \in 1 .. Len(q.levels) /\ Has(Buckets(q), r.acc, r.h, m)
      BY <1>1, <2>1, BatchFacts, Zenon
    <2>3. q.levels[m].closed => m < q.lastSnapshot
      BY <2>2, <1>0, AccountLevel
    <2>4. ~ q.levels[m].closed => m > q.lastSnapshot
      BY <2>2, <1>0, AccountLevel
    <2>5. LevelAfter(b, r, m) \in {m, m + 1}
      BY Zenon DEF LevelAfter
    <2>6. CASE q.levels[m].closed \/ m < f.max
      <3>1. g = f
        BY <2>6, <1>3, Zenon DEF ReferTo
      <3>2. LevelAfter(b, r, m) <= f.max \/ m < q.lastSnapshot
        BY <2>2, <2>3, <2>5, <2>6 DEF FoundOK
      <3> QED BY <3>1, <3>2, <2>2, <2>3, <2>6 DEF FoundOK, Behind
    <2>7. CASE ~ (q.levels[m].closed \/ m < f.max)
      <3>1. g = [max |-> LevelAfter(b, r, m), err |-> IF LevelAfter(b, r, m) > MaxLevel THEN "max" ELSE "none"]
        BY <2>7, <1>3, Zenon DEF ReferTo
      <3>2. g.max = LevelAfter(b, r, m) /\ g.err = "none"
        BY <3>1
      <3>3. g \in [max : Nat, err : {"none", "reference", "max"}]
        BY <3>1, <2>2, <2>5
      <3> HIDE DEF g
      <3>4. f.max \in Nat /\ q.lastSnapshot \in Nat /\ Len(q.levels) \in Nat
        BY BatchFacts, Zenon DEF FoundOK
      <3>5. g.max > q.lastSnapshot /\ g.max <= Len(q.levels) + 1 /\ g.max >= f.max
        BY <3>2, <3>4, <2>2, <2>4, <2>5, <2>7
      <3> QED BY <3>2, <3>3, <3>5, <3>4, <2>2, <2>5 DEF FoundOK, Behind, g
    <2> QED BY <2>6, <2>7, Zenon
  <1> QED BY <1>2, <1>3, Zenon

\* A higher level is behind whatever a lower one is behind.
LEMMA BehindGrows ==
    ASSUME NEW q \in Batch, NEW b \in Block, NEW r \in Block, NEW f, NEW g, FoundOK(q, f), FoundOK(q, g),
           f.max <= g.max, Behind(q, b, f, r)
    PROVE  Behind(q, b, g, r)
  <1>1. f.max \in Nat /\ g.max \in Nat
    BY Zenon DEF FoundOK
  <1>2. \A i \in Nat : LevelAfter(b, r, i) \in Nat
    BY DEF LevelAfter
  <1> QED BY <1>1, <1>2 DEF Behind

\* An error is never taken back.
LEMMA ReferAllErr ==
    ASSUME NEW q, NEW b, NEW rs, NEW f, ReferAll(q, b, f, rs).err = "none" PROVE f.err = "none"
  <1>1. ASSUME NEW r, ReferTo(q, b, f, r).err = "none" PROVE f.err = "none"
    BY <1>1 DEF ReferTo
  <1> QED BY <1>1, Zenon DEF ReferAll

\* All references of a kind: the level found is behind the level of each.
LEMMA ReferAllFound ==
    ASSUME Chains, NEW q \in Batch, Sorted(q), NEW b \in Block, NEW rs \in SUBSET Block, \A x, y \in rs : x = y,
           NEW f, FoundOK(q, f), ReferAll(q, b, f, rs).err = "none"
    PROVE  /\ FoundOK(q, ReferAll(q, b, f, rs)) /\ f.err = "none"
           /\ ReferAll(q, b, f, rs).max >= f.max
           /\ \A r \in rs : Behind(q, b, ReferAll(q, b, f, rs), r)
  <1>1. CASE rs = {}
    <2>1. f.max \in Nat
      BY Zenon DEF FoundOK
    <2> QED BY <1>1, <2>1 DEF ReferAll
  <1>2. CASE rs # {}
    <2> DEFINE r == CHOOSE x \in rs : TRUE
    <2>1. r \in rs /\ r \in Block /\ \A x \in rs : x = r
      BY <1>2, Zenon
    <2>2. ReferAll(q, b, f, rs) = ReferTo(q, b, f, r)
      BY <1>2, Zenon DEF ReferAll
    <2> HIDE DEF r
    <2>3. f.err = "none"
      BY <2>2 DEF ReferTo
    <2>4. /\ FoundOK(q, ReferTo(q, b, f, r)) /\ ReferTo(q, b, f, r).max >= f.max
          /\ Behind(q, b, ReferTo(q, b, f, r), r)
      BY <2>1, <2>2, <2>3, ReferToFound, Zenon
    <2> QED BY <2>1, <2>2, <2>3, <2>4, Zenon
  <1> QED BY <1>1, <1>2, Zenon

\* A block has at most one send block and at most one predecessor.
LEMMA RefsFacts ==
    ASSUME Chains, QueueAssumption, NEW b \in Block
    PROVE  /\ From(b) \in SUBSET Block /\ \A x, y \in From(b) : x = y
           /\ Prev(b) \in SUBSET Block /\ \A x, y \in Prev(b) : x = y
           /\ b.h # 1 => [acc |-> b.acc, h |-> b.h - 1] \in Prev(b)
           /\ b.acc \in Accounts /\ b.acc \in Owner /\ b.h \in 1 .. Length /\ b.h \in Nat
           /\ b = [acc |-> b.acc, h |-> b.h]
  <1>1. Length \in Nat
    BY Zenon DEF QueueAssumption
  <1>2. b.acc \in Accounts /\ b.acc \in Owner /\ b.h \in 1 .. Length /\ b.h \in Nat /\ b = [acc |-> b.acc, h |-> b.h]
    BY <1>1 DEF Block, Owner
  <1>3. Prev(b) = IF b.h = 1 THEN {} ELSE {[acc |-> b.acc, h |-> b.h - 1]}
    <2>1. [b EXCEPT !.h = b.h - 1] = [acc |-> b.acc, h |-> b.h - 1]
      BY DEF Block
    <2> QED BY <2>1, Zenon DEF Prev
  <1>4. b.h # 1 => [acc |-> b.acc, h |-> b.h - 1] \in Block
    BY <1>1, <1>2 DEF Block
  <1> QED BY <1>2, <1>3, <1>4, FromType, Zenon DEF From

\* In a sorted batch, accounts and snapshot blocks share no level.
LEMMA SortedApart == ASSUME NEW q \in Batch, Sorted(q) PROVE Apart(Buckets(q))
  BY BatchFacts, Zenon DEF Sorted, Apart, Buckets

\* The level that addAccountItem finds.
LEMMA FoundLevel ==
    ASSUME Chains, QueueAssumption, NEW q \in Batch, Sorted(q), NEW b \in Block,
           addAccountItem(q, b).err = "none"
    PROVE  \E max \in 1 .. Len(q.levels) + 1 :
              /\ max > q.lastSnapshot
              /\ addAccountItem(q, b).q = Added(q, max, b.acc, b.h)
              /\ \A r \in From(b) \cup Prev(b) :
                    \/ InLedger(r)
                    \/ \E i \in Nat : Has(Buckets(q), r.acc, r.h, i) /\ (i < max \/ (r.acc = b.acc /\ i <= max))
  <1> DEFINE zero == [max |-> 0, err |-> "none"]
             first == ReferAll(q, b, zero, From(b))
             found == ReferAll(q, b, first, Prev(b))
             least == IF found.max = 0 THEN q.lastSnapshot + 1 ELSE found.max
             max == IF least <= Len(q.levels) /\ q.levels[Len(q.levels)].snapshot
                    THEN Len(q.levels) + 1 ELSE least
  <1>1. found.err = "none" /\ addAccountItem(q, b).q = Added(q, max, b.acc, b.h)
    BY Zenon DEF addAccountItem, Current
  <1>2. FoundOK(q, zero)
    BY BatchFacts DEF FoundOK
  <1> HIDE DEF zero
  <1>3. ReferAll(q, b, zero, From(b)).err = "none" => 
            FoundOK(q, first) /\ \A r \in From(b) : Behind(q, b, first, r)
    BY <1>2, RefsFacts, ReferAllFound, Zenon
  <1>4. first.err = "none"
    BY <1>1, ReferAllErr
  <1> HIDE DEF first
  <1>5. FoundOK(q, first) /\ \A r \in From(b) : Behind(q, b, first, r)
    BY <1>3, <1>4, Zenon DEF first
  <1>6. FoundOK(q, found) /\ found.max >= first.max /\ \A r \in Prev(b) : Behind(q, b, found, r)
    BY <1>1, <1>5, RefsFacts, ReferAllFound, Zenon
  <1> HIDE DEF found
  <1>7. \A r \in From(b) \cup Prev(b) : Behind(q, b, found, r)
    BY <1>5, <1>6, BehindGrows, RefsFacts, Zenon DEF FoundOK
  <1>8. found.max \in Nat /\ q.lastSnapshot \in Nat /\ Len(q.levels) \in Nat /\ q.lastSnapshot <= Len(q.levels)
    BY <1>6, BatchFacts, Zenon DEF FoundOK, Sorted
  <1>9. max \in 1 .. Len(q.levels) + 1 /\ max > q.lastSnapshot /\ max >= found.max
    BY <1>6, <1>8 DEF FoundOK
  <1> HIDE DEF max
  <1>10. ASSUME NEW r \in From(b) \cup Prev(b)
         PROVE  \/ InLedger(r)
                \/ \E i \in Nat : Has(Buckets(q), r.acc, r.h, i) /\ (i < max \/ (r.acc = b.acc /\ i <= max))
    BY <1>7, <1>8, <1>9 DEF Behind, LevelAfter
  <1> QED BY <1>1, <1>9, <1>10, Zenon

\* What addAccountItem and addSnapshotItem keep.
Fine(q) == q \in Batch /\ Sorted(q) /\ Good(Buckets(q), World)

\* The buckets stay increasing when the height added is above those of its owner.
LEMMA AddedIncreasing ==
    ASSUME NEW q \in Batch, NEW max \in 1 .. Len(q.levels) + 1, NEW o \in Owner, NEW h \in Nat,
           Ordered(Buckets(q)), \A g, i \in Nat : Has(Buckets(q), o, g, i) => g < h
    PROVE  \A p \in Owner, i \in DOMAIN Buckets(Added(q, max, o, h)) : Increasing(Buckets(Added(q, max, o, h))[i][p])
  <1> DEFINE a == Added(q, max, o, h)
  <1>1. IsAdded(a, q, max, o, h)
    BY AddedLevels, Zenon
  <1> HIDE DEF a
  <1> SUFFICES ASSUME NEW p \in Owner, NEW i \in DOMAIN Buckets(a)
               PROVE  Increasing(Buckets(a)[i][p])
    BY Zenon DEF a
  <1>2. i \in DOMAIN a.levels /\ Buckets(a)[i][p] = a.levels[i].buckets[p]
    BY Zenon DEF Buckets
  <1>3. Buckets(a)[i][p] = IF i = max /\ p = o THEN Append(Old(q, i, p), h) ELSE Old(q, i, p)
    BY <1>1, <1>2, Zenon DEF IsAdded
  <1>4. i \in Nat \ {0}
    BY <1>1, <1>2, BatchFacts DEF IsAdded
  <1>5. Increasing(Old(q, i, p)) /\ Old(q, i, p) \in Seq(Nat)
    <2>1. CASE i <= Len(q.levels)
      <3>1. i \in 1 .. Len(q.levels) /\ i \in DOMAIN Buckets(q)
        BY <1>4, <2>1, BatchFacts, BucketsType
      <3>2. Old(q, i, p) = Buckets(q)[i][p]
        BY <2>1, <3>1, Zenon DEF Old, Buckets
      <3>3. Old(q, i, p) \in Seq(Nat)
        BY <2>1, <3>1, BatchFacts, Zenon DEF Old
      <3> QED BY <3>1, <3>2, <3>3 DEF Ordered
    <2>2. CASE ~(i <= Len(q.levels))
      BY <2>2 DEF Old, Increasing
    <2> QED BY <2>1, <2>2, Zenon
  <1>6. CASE i = max /\ p = o
    <2> DEFINE s == Old(q, i, p)
               t == Append(s, h)
    <2>1. \A k \in 1 .. Len(s) : s[k] < h /\ s[k] \in Nat
      <3> SUFFICES ASSUME NEW k \in 1 .. Len(s)
                   PROVE  s[k] < h /\ s[k] \in Nat
        BY Zenon
      <3>1. i <= Len(q.levels)
        BY <1>5 DEF Old
      <3>2. s[k] \in Nat /\ s[k] \in Range(s)
        BY <1>5 DEF Range
      <3>3. Has(Buckets(q), o, s[k], i)
        <4>1. s = q.levels[i].buckets[o] /\ i \in 1 .. Len(q.levels)
          BY <3>1, <1>4, <1>6, BatchFacts DEF Old
        <4> HIDE DEF s
        <4> QED BY <4>1, <3>2, BatchFacts, Zenon
      <3> QED BY <3>2, <3>3, <1>4, Zenon
    <2> HIDE DEF s
    <2>2. \A k, l \in 1 .. Len(s) : k < l => s[k] < s[l]
      BY <1>5 DEF Increasing, s
    <2>3. s \in Seq(Nat)
      BY <1>5, Zenon DEF s
    <2>4. DOMAIN t = 1 .. Len(s) + 1 /\ t[Len(s) + 1] = h /\ \A k \in 1 .. Len(s) : t[k] = s[k]
      BY <2>3
    <2>5. Len(s) \in Nat
      BY <2>3
    <2> HIDE DEF t
    <2>6. Increasing(t)
      BY <2>1, <2>2, <2>4, <2>5 DEF Increasing
    <2> QED BY <1>3, <1>6, <2>6, Zenon DEF s, t
  <1>7. CASE ~(i = max /\ p = o)
    BY <1>3, <1>5, <1>7, Zenon
  <1> QED BY <1>6, <1>7, Zenon

\* After the last level of snapshot blocks.
LEMMA AddedSorted ==
    ASSUME NEW q \in Batch, Sorted(q), QueueAssumption, NEW max \in 1 .. Len(q.levels) + 1,
           max > q.lastSnapshot, NEW a \in Accounts, NEW h \in Nat
    PROVE  Sorted(Added(q, max, a, h))
  <1> DEFINE n == Added(q, max, a, h)
  <1>0. a \in Owner /\ None \in Owner /\ a # None /\ Accounts \subseteq Owner
    BY Zenon DEF Owner, QueueAssumption
  <1>1. IsAdded(n, q, max, a, h)
    BY <1>0, AddedLevels, Zenon
  <1> HIDE DEF n
  <1>2. /\ Len(q.levels) \in Nat /\ q.lastSnapshot \in Nat /\ n \in Batch /\ n.lastSnapshot = q.lastSnapshot
        /\ DOMAIN n.levels = 1 .. Len(n.levels) /\ Len(n.levels) >= Len(q.levels) /\ Len(n.levels) \in Nat
        /\ DOMAIN q.levels = 1 .. Len(q.levels)
    BY <1>1, BatchFacts DEF IsAdded
  <1>3. n.lastSnapshot <= Len(n.levels) /\ (n.lastSnapshot > 0 => n.levels[n.lastSnapshot].snapshot)
    <2>1. q.lastSnapshot <= Len(q.levels) /\ (q.lastSnapshot > 0 => q.levels[q.lastSnapshot].snapshot)
      BY Zenon DEF Sorted
    <2>2. ASSUME q.lastSnapshot > 0
          PROVE  n.levels[q.lastSnapshot].snapshot
      <3>1. q.lastSnapshot \in 1 .. Len(q.levels)
        BY <1>2, <2>1, <2>2
      <3> QED BY <1>1, <2>1, <2>2, <3>1 DEF IsAdded
    <2> QED BY <1>2, <2>1, <2>2
  <1>4. ASSUME NEW i \in DOMAIN n.levels, n.levels[i].snapshot
        PROVE  i <= n.lastSnapshot /\ \A c \in Accounts : n.levels[i].buckets[c] = <<>>
    <2>1. i \in 1 .. Len(q.levels) /\ q.levels[i].snapshot
      <3>1. ~(i <= Len(q.levels)) => n.levels[i].snapshot = (a = None)
        BY <1>1, Zenon DEF IsAdded
      <3>2. i <= Len(q.levels)
        BY <3>1, <1>0, <1>4, Zenon
      <3>3. n.levels[i].snapshot = q.levels[i].snapshot
        BY <1>1, <3>2, Zenon DEF IsAdded
      <3> QED BY <3>2, <3>3, <1>2, <1>4
    <2>2. i <= q.lastSnapshot /\ \A c \in Accounts : q.levels[i].buckets[c] = <<>>
      BY <2>1, <1>2, Zenon DEF Sorted
    <2>3. \A c \in Accounts : n.levels[i].buckets[c] = Old(q, i, c)
      BY <2>2, <1>0, <1>1, <1>2 DEF IsAdded
    <2> QED BY <2>1, <2>2, <2>3, <1>2, Zenon DEF Old
  <1>5. ASSUME NEW i \in DOMAIN n.levels, ~ n.levels[i].snapshot
        PROVE  /\ n.levels[i].buckets[None] = <<>>
               /\ n.levels[i].closed => i < n.lastSnapshot
               /\ i < n.lastSnapshot => n.levels[i].closed
    <2>1. n.levels[i].buckets[None] = Old(q, i, None)
      BY <1>0, <1>1, Zenon DEF IsAdded
    <2>2. CASE i <= Len(q.levels)
      <3>1. i \in DOMAIN q.levels /\ ~ q.levels[i].snapshot /\ n.levels[i].closed = q.levels[i].closed
        BY <1>1, <1>2, <1>5, <2>2 DEF IsAdded
      <3>2. q.levels[i].buckets[None] = <<>>
        BY <3>1, Zenon DEF Sorted
      <3>3. q.levels[i].closed => i < q.lastSnapshot
        BY <3>1, Zenon DEF Sorted
      <3>4. i < q.lastSnapshot => q.levels[i].closed
        BY <3>1, Zenon DEF Sorted
      <3> QED BY <2>1, <2>2, <3>1, <3>2, <3>3, <3>4, <1>2, Zenon DEF Old
    <2>3. CASE ~(i <= Len(q.levels))
      <3>1. n.levels[i].closed = FALSE
        BY <1>1, <2>3, Zenon DEF IsAdded
      <3> QED BY <2>1, <2>3, <3>1, <1>2 DEF Old, Sorted
    <2> QED BY <2>2, <2>3, Zenon
  <1> QED BY <1>3, <1>4, <1>5, Zenon DEF Sorted, n

\* A block above the ledger and above its chain in the batch is refused or goes where
\* everything it needs comes before it.
LEMMA AccountItem ==
    ASSUME Chains, QueueAssumption, NEW q, Fine(q), NEW b \in Block, b.h > ledger[b.acc],
           \A g \in Nat : InBatch(q, b.acc, g) => g < b.h, addAccountItem(q, b).err = "none"
    PROVE  /\ Fine(addAccountItem(q, b).q) /\ addAccountItem(q, b).q.version = q.version
           /\ \A p \in Owner, g \in Nat : InBatch(addAccountItem(q, b).q, p, g) <=>
                 InBatch(q, p, g) \/ (p = b.acc /\ g = b.h)
  <1> DEFINE L == Buckets(q)
             a == b.acc
             h == b.h
  <1>0. /\ q \in Batch /\ Sorted(q) /\ Good(L, World) /\ L \in Plans
        /\ a \in Accounts /\ a \in Owner /\ h \in Nat /\ h \in 1 .. Length /\ b = [acc |-> a, h |-> h]
        /\ a # None /\ Base(World, a) = ledger[a] /\ ledger[a] \in Nat
    <2>1. q \in Batch /\ Sorted(q) /\ Good(L, World)
      BY Zenon DEF Fine
    <2>2. L \in Plans
      BY <2>1, BucketsType, Zenon
    <2>3. a \in Accounts /\ a \in Owner /\ h \in Nat /\ h \in 1 .. Length /\ b = [acc |-> a, h |-> h]
      BY RefsFacts, Zenon
    <2>4. a # None
      BY <2>3, Zenon DEF QueueAssumption
    <2>5. Base(World, a) = ledger[a] /\ ledger[a] \in Nat
      BY <2>3, <2>4, WorldType, Zenon DEF Base, Chains
    <2> QED BY <2>1, <2>2, <2>3, <2>4, <2>5, Zenon
  <1>1. PICK max \in 1 .. Len(q.levels) + 1 :
              /\ max > q.lastSnapshot
              /\ addAccountItem(q, b).q = Added(q, max, b.acc, b.h)
              /\ \A r \in From(b) \cup Prev(b) :
                    \/ InLedger(r)
                    \/ \E i \in Nat : Has(L, r.acc, r.h, i) /\ (i < max \/ (r.acc = b.acc /\ i <= max))
    BY <1>0, FoundLevel
  <1> DEFINE n == Added(q, max, a, h)
             M == Buckets(n)
  <1>2. /\ \A p \in Owner : \A g, i \in Nat : Has(M, p, g, i) <=> Has(L, p, g, i) \/ (p = a /\ g = h /\ i = max)
        /\ IsAdded(n, q, max, a, h) /\ Sorted(n)
    BY <1>0, <1>1, HasAdded, AddedLevels, AddedSorted, Zenon
  <1>3. \A g, i \in Nat : Has(L, a, g, i) => g < h
    BY <1>0, Zenon DEF InBatch
  <1>4. \A p \in Owner, i \in DOMAIN M : Increasing(M[i][p])
    BY <1>0, <1>3, AddedIncreasing, Zenon DEF Good
  <1>5. n \in Batch /\ n.version = q.version /\ M \in Plans /\ Apart(M) /\ max \in Nat
    BY <1>2, SortedApart, BucketsType, SMTT(20) DEF IsAdded
  <1> HIDE DEF n, M, L
  <1>6. \A g, i \in Nat : Has(L, a, g, i) => g > ledger[a] /\ g \in 1 .. Length
    <2>1. \A g, i \in Nat : Has(L, a, g, i) => g > Base(World, a)
      BY <1>0, Zenon DEF Good, Connected
    <2>2. \A g, i \in Nat : Has(L, a, g, i) => g \in 1 .. Length
      BY <1>0, Zenon DEF Good, References, Limit
    <2> QED BY <1>0, <2>1, <2>2, Zenon
  <1>7. /\ h = ledger[a] + 1 \/ \E j \in Nat : Has(L, a, h - 1, j)
        /\ \A g, i \in Nat : Has(L, a, g, i) => i <= max
    <2>1. CASE h = 1
      BY <1>0, <1>3, <1>6, <2>1
    <2>2. CASE h # 1
      <3> DEFINE r == [acc |-> a, h |-> h - 1]
      <3>1. r \in Prev(b)
        BY <2>2, RefsFacts, Zenon
      <3>2. InLedger(r) \/ \E i \in Nat : Has(L, a, h - 1, i) /\ i <= max
        BY <3>1, <1>1, <1>5, SMTT(20)
      <3>3. CASE InLedger(r)
        <4>1. h - 1 <= ledger[a]
          BY <3>3, Zenon DEF InLedger
        <4> QED BY <4>1, <1>0, <1>3, <1>6
      <3>4. CASE \E i \in Nat : Has(L, a, h - 1, i) /\ i <= max
        <4>1. PICK j \in Nat : Has(L, a, h - 1, j) /\ j <= max
          BY <3>4, Zenon
        <4>2. h - 1 \in Nat
          BY <1>0
        <4>3. \A g, i \in Nat : Has(L, a, g, i) => i <= j
          BY <4>1, <4>2, <1>0, <1>3, SMTT(20) DEF Good, Ordered
        <4> QED BY <4>1, <4>3, <1>5
      <3> QED BY <3>2, <3>3, <3>4, Zenon
    <2> QED BY <2>1, <2>2, Zenon
  <1>8. \A r \in From([acc |-> a, h |-> h]) : InLedger(r) \/ \E j \in Nat : Has(L, r.acc, r.h, j) /\ (j < max \/ r.acc = a)
    BY <1>0, <1>1, Zenon
  <1>9. Good(M, World)
    <2> HIDE DEF a, h
    <2>1. h > Base(World, a) /\ (h = Base(World, a) + 1 \/ \E j \in Nat : Has(L, a, h - 1, j))
      BY <1>0, <1>7, Zenon DEF a, h
    <2>2. \A g, i \in Nat : Has(L, a, g, i) => g < h /\ i <= max
      BY <1>3, <1>7, Zenon
    <2>3. h \in 1 .. Limit(a)
      BY <1>0, Zenon DEF Limit, a, h
    <2>4. \A r \in Needs(World, a, h) :
             Stored(World, r) \/ \E j \in Nat : Has(L, r.acc, r.h, j) /\ (j < max \/ r.acc = a)
      BY <1>0, <1>8, NeedsOf, Zenon DEF a, h
    <2>5. a \in Owner /\ h \in Nat
      BY <1>0, Zenon DEF a, h
    <2>6. \A p \in Owner : \A g, i \in Nat : Has(M, p, g, i) <=> Has(L, p, g, i) \/ (p = a /\ g = h /\ i = max)
      BY <1>2, Zenon DEF a, h
    <2>7. Joins(L, M, World, a, h, max)
      BY <1>4, <1>5, <2>1, <2>2, <2>3, <2>4, <2>6 DEF Joins
    <2> QED BY <1>0, <1>5, <2>5, <2>7, WorldType, GoodAdded, Zenon
  <1>10. Fine(n)
    BY <1>2, <1>5, <1>9, Zenon DEF Fine, M
  <1>11. \A p \in Owner, g \in Nat : InBatch(n, p, g) <=> InBatch(q, p, g) \/ (p = a /\ g = h)
    BY <1>2, <1>5, Zenon DEF InBatch, M, L
  <1> QED BY <1>1, <1>5, <1>10, <1>11 DEF n

\* The model finds a block in a batch by looking through its levels.
LEMMA ExistsInBatch == ASSUME NEW q \in Batch, NEW o, NEW h PROVE Exists(q, o, h) <=> InBatch(q, o, h)
  <1>1. LevelsOf(q, o, h) = {i \in 1 .. Len(q.levels) : h \in Range(q.levels[i].buckets[o])}
    BY BatchFacts, Zenon DEF LevelsOf
  <1>2. \A i \in 1 .. Len(q.levels) : i \in Nat
    BY BatchFacts
  <1> QED BY <1>1, <1>2, BatchFacts, Zenon DEF Exists, InBatch

\* Batch n is a with the levels from low to max closed.
Closes(n, a, low, max) ==
    /\ n \in Batch /\ n.version = a.version /\ n.lastSnapshot = max /\ Buckets(n) = Buckets(a)
    /\ Len(n.levels) = Len(a.levels)
    /\ \A i \in DOMAIN n.levels :
          /\ n.levels[i].snapshot = a.levels[i].snapshot /\ n.levels[i].buckets = a.levels[i].buckets
          /\ n.levels[i].closed = (a.levels[i].closed \/ (low < i /\ i < max))

\* Closing levels leaves their buckets.
LEMMA CloseLevels ==
    ASSUME NEW a \in Batch, NEW low \in Nat, NEW max \in Nat
    PROVE  Closes([a EXCEPT !.levels = Close(a.levels, low, max), !.lastSnapshot = max], a, low, max)
  <1> DEFINE ls == Close(a.levels, low, max)
             n == [a EXCEPT !.levels = ls, !.lastSnapshot = max]
  <1>1. \A l \in Level, c \in BOOLEAN : /\ [l EXCEPT !.closed = c] \in Level
                                        /\ [l EXCEPT !.closed = c].snapshot = l.snapshot
                                        /\ [l EXCEPT !.closed = c].closed = c
                                        /\ [l EXCEPT !.closed = c].buckets = l.buckets
    BY Zenon DEF Level
  <1>2. /\ DOMAIN ls = 1 .. Len(a.levels) /\ Len(a.levels) \in Nat
        /\ \A i \in 1 .. Len(a.levels) : ls[i] = [a.levels[i] EXCEPT !.closed = a.levels[i].closed \/ (low < i /\ i < max)]
    BY BatchFacts, Zenon DEF Close
  <1>3. \A i \in 1 .. Len(a.levels) : a.levels[i] \in Level /\ (a.levels[i].closed \/ (low < i /\ i < max)) \in BOOLEAN
    BY BatchFacts, Zenon
  <1>0. ls = [i \in 1 .. Len(a.levels) |-> ls[i]]
    BY BatchFacts, Zenon DEF Close
  <1> HIDE DEF ls
  <1>4. \A i \in 1 .. Len(a.levels) :
           /\ ls[i] \in Level /\ ls[i].snapshot = a.levels[i].snapshot
           /\ ls[i].closed = (a.levels[i].closed \/ (low < i /\ i < max)) /\ ls[i].buckets = a.levels[i].buckets
    <2> SUFFICES ASSUME NEW i \in 1 .. Len(a.levels)
                 PROVE  /\ ls[i] \in Level /\ ls[i].snapshot = a.levels[i].snapshot
                        /\ ls[i].closed = (a.levels[i].closed \/ (low < i /\ i < max)) /\ ls[i].buckets = a.levels[i].buckets
      BY Zenon
    <2> DEFINE c == a.levels[i].closed \/ (low < i /\ i < max)
    <2>1. c \in BOOLEAN /\ a.levels[i] \in Level /\ ls[i] = [a.levels[i] EXCEPT !.closed = c]
      BY <1>2, <1>3, Zenon
    <2> HIDE DEF c
    <2> QED BY <2>1, <1>1 DEF c
  <1>5. ls \in Seq(Level) /\ Len(ls) = Len(a.levels)
    <2> DEFINE m == Len(a.levels)
    <2>1. m \in Nat /\ ls \in [1 .. m -> Level]
      BY <1>0, <1>2, <1>4, Zenon
    <2> HIDE DEF m
    <2> QED BY <2>1 DEF m
  <1>6. n \in Batch /\ n.version = a.version /\ n.lastSnapshot = max /\ n.levels = ls
    BY <1>5, Zenon DEF Batch
  <1> HIDE DEF n
  <1>7. Buckets(n) = Buckets(a)
    BY <1>2, <1>4, <1>6, BatchFacts, Zenon DEF Buckets
  <1>8. Closes(n, a, low, max)
    BY <1>2, <1>4, <1>5, <1>6, <1>7, Zenon DEF Closes
  <1> QED BY <1>8, Zenon DEF n, ls

\* The levels stay sorted when a snapshot block is added and the levels before it are closed.
LEMMA AddedSnapshotSorted ==
    ASSUME NEW q \in Batch, Sorted(q), QueueAssumption, NEW max \in 1 .. Len(q.levels) + 1, NEW s \in Nat, NEW n,
           max = Len(q.levels) \/ max = Len(q.levels) + 1, max = Len(q.levels) => q.levels[max].snapshot,
           Closes(n, Added(q, max, None, s), q.lastSnapshot, max)
    PROVE  Sorted(n)
  <1> DEFINE a == Added(q, max, None, s)
  <1>0. None \in Owner /\ Accounts \subseteq Owner /\ None \notin Accounts
    BY Zenon DEF Owner, QueueAssumption
  <1>1. IsAdded(a, q, max, None, s) /\ Closes(n, a, q.lastSnapshot, max)
    BY <1>0, AddedLevels, Zenon
  <1> HIDE DEF a
  <1>2. /\ a \in Batch /\ n \in Batch /\ Len(q.levels) \in Nat /\ q.lastSnapshot \in Nat
        /\ Len(a.levels) = max /\ Len(n.levels) = max /\ n.lastSnapshot = max
        /\ DOMAIN q.levels = 1 .. Len(q.levels) /\ DOMAIN n.levels = 1 .. max /\ DOMAIN a.levels = 1 .. max
    BY <1>1, BatchFacts, SMTT(20) DEF IsAdded, Closes
  <1>3. \A i \in 1 .. max :
           /\ n.levels[i].snapshot = a.levels[i].snapshot /\ n.levels[i].buckets = a.levels[i].buckets
           /\ n.levels[i].closed = (a.levels[i].closed \/ (q.lastSnapshot < i /\ i < max))
    BY <1>1, <1>2, Zenon DEF Closes
  <1>4. \A i \in 1 .. max, p \in Owner :
           n.levels[i].buckets[p] = IF i = max /\ p = None THEN Append(Old(q, i, p), s) ELSE Old(q, i, p)
    <2>1. \A i \in 1 .. max, p \in Owner :
             a.levels[i].buckets[p] = IF i = max /\ p = None THEN Append(Old(q, i, p), s) ELSE Old(q, i, p)
      BY <1>1, <1>2 DEF IsAdded
    <2>2. \A i \in 1 .. max : n.levels[i].buckets = a.levels[i].buckets
      BY <1>3, Zenon
    <2> QED BY <2>1, <2>2
  <1>5. \A i \in 1 .. max : i <= Len(q.levels) => (n.levels[i].snapshot <=> q.levels[i].snapshot)
    BY <1>1, <1>2, <1>3, Zenon DEF IsAdded
  <1>6. \A i \in 1 .. max : i <= Len(q.levels) /\ q.levels[i].closed => n.levels[i].closed
    BY <1>1, <1>2, <1>3, Zenon DEF IsAdded
  <1>7. \A i \in 1 .. max : q.lastSnapshot < i /\ i < max => n.levels[i].closed
    BY <1>3, Zenon
  <1>8. n.levels[max].snapshot
    <2>1. CASE max = Len(q.levels)
      BY <2>1, <1>2, <1>5
    <2>2. CASE max = Len(q.levels) + 1
      <3>1. a.levels[max].snapshot = (None = None)
        BY <2>2, <1>1, <1>2 DEF IsAdded
      <3>2. n.levels[max].snapshot = a.levels[max].snapshot
        BY <1>3
      <3> QED BY <3>1, <3>2, Zenon
    <2> QED BY <2>1, <2>2, Zenon
  <1>9. ASSUME NEW i \in 1 .. max, n.levels[i].snapshot, NEW c \in Accounts
        PROVE  n.levels[i].buckets[c] = <<>>
    <2>1. n.levels[i].buckets[c] = Old(q, i, c)
      BY <1>0, <1>4, Zenon
    <2>2. i <= Len(q.levels) => q.levels[i].buckets[c] = <<>>
      BY <1>2, <1>5, <1>9 DEF Sorted
    <2> QED BY <2>1, <2>2, Zenon DEF Old
  <1>10. ASSUME NEW i \in 1 .. max, ~ n.levels[i].snapshot
         PROVE  i < max /\ n.levels[i].buckets[None] = <<>> /\ n.levels[i].closed
    <2>1. i < max /\ i \in 1 .. Len(q.levels)
      BY <1>8, <1>2, <1>10
    <2>2. ~ q.levels[i].snapshot
      BY <2>1, <1>2, <1>5, <1>10
    <2>3. q.levels[i].buckets[None] = <<>> /\ i # q.lastSnapshot
      BY <2>1, <2>2, <1>2 DEF Sorted
    <2>4. i < q.lastSnapshot => q.levels[i].closed
      BY <2>1, <2>2, <1>2, Zenon DEF Sorted
    <2>5. n.levels[i].buckets[None] = <<>>
      BY <2>1, <2>3, <1>0, <1>2, <1>4 DEF Old
    <2>6. n.levels[i].closed
      BY <2>1, <2>3, <2>4, <1>2, <1>6, <1>7
    <2> QED BY <2>1, <2>5, <2>6, Zenon
  <1> QED BY <1>2, <1>8, <1>9, <1>10 DEF Sorted

\* addSnapshotItem keeps a batch fine, and adds the one block.
LEMMA SnapshotItem ==
    ASSUME Chains, QueueAssumption, NEW q, Fine(q), NEW s \in 1 .. Snapshots, s > Len(snaps), ~ OwnSnaps,
           \A g \in Nat : InBatch(q, None, g) => g < s, addSnapshotItem(q, s).err = "none"
    PROVE  /\ Fine(addSnapshotItem(q, s).q) /\ addSnapshotItem(q, s).q.version = q.version
           /\ \A p \in Owner, g \in Nat : InBatch(addSnapshotItem(q, s).q, p, g) <=>
                 InBatch(q, p, g) \/ (p = None /\ g = s)
  <1> DEFINE L == Buckets(q)
             max == IF q.levels # <<>> /\ q.levels[Len(q.levels)].snapshot THEN Len(q.levels) ELSE Len(q.levels) + 1
             a == Added(q, max, None, s)
             n == [a EXCEPT !.levels = Close(a.levels, q.lastSnapshot, max), !.lastSnapshot = max]
             M == Buckets(a)
  <1>0. q \in Batch /\ Sorted(q) /\ Good(L, World) /\ L \in Plans /\ None \in Owner /\ None \notin Accounts /\ s \in Nat
    BY BucketsType, SMTT(20) DEF Fine, Owner, QueueAssumption
  <1>1. /\ addSnapshotItem(q, s).q = n
        /\ \A r \in SnapshotContent(s) : Exists(q, r.acc, r.h) \/ InLedger(r)
        /\ s > 1 => Exists(q, None, s - 1) \/ ~(s - 1 > PoolSnaps)
    BY Zenon DEF addSnapshotItem, Current
  <1>2. max \in 1 .. Len(q.levels) + 1 /\ (max = Len(q.levels) \/ max = Len(q.levels) + 1)
        /\ (max = Len(q.levels) => q.levels[max].snapshot) /\ max \in Nat /\ Len(q.levels) \in Nat
    BY <1>0, BatchFacts DEF Batch
  <1> HIDE DEF max
  <1>3. \A p \in Owner : \A g, i \in Nat : Has(M, p, g, i) <=> Has(L, p, g, i) \/ (p = None /\ g = s /\ i = max)
    BY <1>0, <1>2, HasAdded, Zenon
  <1>4. IsAdded(a, q, max, None, s)
    BY <1>0, <1>2, AddedLevels, Zenon
  <1>5. a \in Batch /\ a.version = q.version /\ M \in Plans /\ q.lastSnapshot \in Nat
    BY <1>4, <1>0, BucketsType, BatchFacts, Zenon DEF IsAdded
  <1>6. Closes(n, a, q.lastSnapshot, max)
    BY <1>2, <1>5, CloseLevels, Zenon
  <1>7. Sorted(n)
    BY <1>0, <1>2, <1>6, AddedSnapshotSorted, Zenon
  <1>8. \A g, i \in Nat : Has(L, None, g, i) => g < s
    BY Zenon DEF InBatch
  <1>9. \A p \in Owner, i \in DOMAIN M : Increasing(M[i][p])
    BY <1>0, <1>2, <1>8, AddedIncreasing, Zenon DEF Good
  <1> HIDE DEF n, a
  <1>10. n \in Batch /\ Buckets(n) = M /\ n.version = q.version
    BY <1>5, <1>6, Zenon DEF Closes
  <1>11. Apart(M)
    BY <1>7, <1>10, SortedApart, Zenon
  <1> HIDE DEF M, L
  <1>12. \A g, i \in Nat : Has(L, None, g, i) => g < s /\ i <= max
    BY <1>0, <1>2, <1>8, BatchFacts, SMTT(20) DEF L
  <1>13. Base(World, None) = Len(snaps) /\ s > Base(World, None) /\ (s = Base(World, None) + 1 \/ \E j \in Nat : Has(L, None, s - 1, j))
    <2>1. PoolSnaps = Len(snaps) /\ Len(snaps) \in Nat
      BY PoolSnapsType
    <2>2. s > 1 => InBatch(q, None, s - 1) \/ ~(s - 1 > PoolSnaps)
      BY <1>0, <1>1, ExistsInBatch, Zenon
    <2> QED BY <2>1, <2>2, <1>0, WorldType DEF Base, InBatch, L
  <1>14. ASSUME NEW r \in SnapshotContent(s)
         PROVE  InLedger(r) \/ \E j \in Nat : Has(L, r.acc, r.h, j) /\ j < max
    <2>1. r.acc \in Accounts
      <3>1. r \in Needs(World, None, s)
        BY <1>0, NeedsOf, Zenon
      <3>2. None \in Owner /\ s \in 1 .. Limit(None)
        BY <1>0, Zenon DEF Limit, Owner
      <3> QED BY <3>1, <3>2, WorldType, NeedsType, SMTT(20)
    <2>2. InLedger(r) \/ InBatch(q, r.acc, r.h)
      BY <1>0, <1>1, ExistsInBatch, Zenon
    <2>3. CASE InBatch(q, r.acc, r.h)
      <3>1. PICK j \in Nat : Has(L, r.acc, r.h, j)
        BY <2>3, Zenon DEF InBatch, L
      <3>2. j \in 1 .. Len(q.levels) /\ ~ q.levels[j].snapshot
        BY <3>1, <2>1, <1>0, AccountLevel, Zenon DEF L
      <3>3. j < max
        BY <3>2, <1>2
      <3> QED BY <3>1, <3>3, Zenon
    <2> QED BY <2>2, <2>3, Zenon
  <1>15. Joins(L, M, World, None, s, max)
    <2>1. s \in 1 .. Limit(None)
      BY Zenon DEF Limit
    <2>2. \A r \in Needs(World, None, s) :
             Stored(World, r) \/ \E j \in Nat : Has(L, r.acc, r.h, j) /\ (j < max \/ r.acc = None)
      BY <1>14, NeedsOf, Zenon
    <2> QED BY <1>3, <1>9, <1>11, <1>12, <1>13, <2>1, <2>2, Zenon DEF Joins
  <1>16. Good(M, World)
    BY <1>0, <1>2, <1>5, <1>15, WorldType, GoodAdded, Zenon
  <1>17. Fine(n)
    BY <1>7, <1>10, <1>16, Zenon DEF Fine
  <1>18. \A p \in Owner, g \in Nat : InBatch(n, p, g) <=> InBatch(q, p, g) \/ (p = None /\ g = s)
    BY <1>2, <1>3, <1>10, Zenon DEF InBatch, L
  <1> QED BY <1>1, <1>10, <1>17, <1>18, Zenon

\* How adding a block can end.
Outcomes == {"none", "reference", "max", "prev"}

\* The state of the addition of the blocks of an account.
Adding(v) == {r \in [q : Batch, err : Outcomes, n : Nat] : Sorted(r.q) /\ r.q.version = v}

\* What ReferTo returns.
LEMMA ReferType ==
    ASSUME NEW q \in Batch, NEW b, NEW r, NEW f \in [max : Nat, err : Outcomes]
    PROVE  ReferTo(q, b, f, r) \in [max : Nat, err : Outcomes]
  <1> DEFINE levels == LevelsOf(q, r.acc, r.h)
             m == Max(levels)
  <1>1. levels \in SUBSET Nat /\ \A i \in levels : i <= Len(q.levels)
    <2>1. levels = {i \in 1 .. Len(q.levels) : r.h \in Range(q.levels[i].buckets[r.acc])}
      BY BatchFacts, Zenon DEF LevelsOf
    <2>2. Len(q.levels) \in Nat
      BY BatchFacts, Zenon
    <2> HIDE DEF levels
    <2> QED BY <2>1, <2>2
  <1>2. levels # {} => m \in Nat
    <2> HIDE DEF levels
    <2> QED BY <1>1, BatchFacts, Greatest, Zenon
  <1>3. ReferTo(q, b, f, r) = f \/ ReferTo(q, b, f, r) = [f EXCEPT !.err = "reference"]
        \/ (levels # {} /\ ReferTo(q, b, f, r) =
               [max |-> LevelAfter(b, r, m), err |-> IF LevelAfter(b, r, m) > MaxLevel THEN "max" ELSE "none"])
    BY DEF ReferTo
  <1>4. levels # {} => LevelAfter(b, r, m) \in Nat
    BY <1>2 DEF LevelAfter
  <1> QED BY <1>3, <1>4 DEF Outcomes

\* A block that is refused leaves the batch.
LEMMA ItemType ==
    ASSUME NEW q \in Batch, NEW b
    PROVE  addAccountItem(q, b).err \in Outcomes /\ (addAccountItem(q, b).err # "none" => addAccountItem(q, b).q = q)
  <1> DEFINE zero == [max |-> 0, err |-> "none"]
             first == ReferAll(q, b, zero, From(b))
             found == ReferAll(q, b, first, Prev(b))
  <1>1. ASSUME NEW f \in [max : Nat, err : Outcomes], NEW rs PROVE ReferAll(q, b, f, rs) \in [max : Nat, err : Outcomes]
    BY ReferType, Zenon DEF ReferAll
  <1>2. zero \in [max : Nat, err : Outcomes]
    BY Zenon DEF Outcomes
  <1> HIDE DEF zero
  <1>3. found \in [max : Nat, err : Outcomes]
    BY <1>1, <1>2, Zenon
  <1>4. found.err \in Outcomes
    BY <1>3, Zenon
  <1> HIDE DEF found
  <1> QED BY <1>4, Zenon DEF addAccountItem, Outcomes, found, zero

\* The addition of one block more keeps the type.
LEMMA AddNextType ==
    ASSUME Chains, QueueAssumption, NEW a \in Accounts, NEW v, NEW r \in Adding(v), NEW h \in 1 .. Length
    PROVE  AddNext(a, r, h) \in Adding(v)
  <1> DEFINE b == [acc |-> a, h |-> h]
             add == addAccountItem(r.q, b)
  <1>1. b \in Block /\ b.acc = a /\ b.h = h
    BY Zenon DEF Block
  <1>2. r.q \in Batch /\ Sorted(r.q) /\ r.q.version = v /\ r.n \in Nat /\ r.err \in Outcomes
    BY Zenon DEF Adding
  <1>3. add.err \in Outcomes /\ (add.err # "none" => add.q = r.q)
    BY <1>2, ItemType, Zenon
  <1>4. add.q \in Batch /\ Sorted(add.q) /\ add.q.version = v
    <2>1. CASE add.err = "none"
      <3>1. PICK max \in 1 .. Len(r.q.levels) + 1 : max > r.q.lastSnapshot /\ add.q = Added(r.q, max, a, h)
        BY <1>1, <1>2, <2>1, FoundLevel, Zenon
      <3>2. a \in Owner /\ h \in Nat
        BY DEF Owner, QueueAssumption
      <3>3. Sorted(add.q) /\ IsAdded(add.q, r.q, max, a, h)
        <4> DEFINE q == r.q
        <4>1. q \in Batch /\ Sorted(q) /\ max \in 1 .. Len(q.levels) + 1 /\ max > q.lastSnapshot
          BY <3>1, <1>2, Zenon
        <4> HIDE DEF q
        <4>2. Sorted(Added(q, max, a, h)) /\ IsAdded(Added(q, max, a, h), q, max, a, h)
          BY <4>1, <3>2, AddedSorted, AddedLevels, Zenon
        <4> QED BY <4>2, <3>1, Zenon DEF q
      <3> QED BY <3>3, <1>2, Zenon DEF IsAdded
    <2>2. CASE add.err # "none"
      BY <2>2, <1>2, <1>3, Zenon
    <2> QED BY <2>1, <2>2, Zenon
  <1> HIDE DEF add
  <1>5. AddNext(a, r, h) = IF r.err # "none" THEN r
            ELSE [q |-> add.q, err |-> add.err, n |-> IF add.err = "none" THEN r.n + 1 ELSE r.n]
    BY Zenon DEF AddNext, add
  <1> QED BY <1>2, <1>3, <1>4, <1>5 DEF Adding

\* The values that AddAll goes through: they begin with b and go on with AddNext, one for each
\* element of q.
Values(c, S, b, q, r) ==
    /\ r \in [0 .. Len(q) -> S] /\ Len(q) \in Nat /\ r[0] = b
    /\ \A n \in 1 .. Len(q) : r[n] = AddNext(c, r[n - 1], q[n])

\* The values that AddAll goes through.
IsValues(c, b, q, f) == f = [i \in 0 .. Len(q) |-> IF i = 0 THEN b ELSE AddNext(c, f[i - 1], q[i])]

\* There are such values for every sequence of heights.
LEMMA ValuesExist ==
    ASSUME NEW c, NEW S, NEW U, NEW b \in S, \A s \in S, x \in U : AddNext(c, s, x) \in S,
           NEW q \in Seq(U)
    PROVE  \E f : IsValues(c, b, q, f)
  <1> DEFINE g == [p \in S \X Nat |-> IF p[2] + 1 <= Len(q) THEN AddNext(c, p[1], q[p[2] + 1]) ELSE p[1]]
  <1>0. Len(q) \in Nat /\ \A i \in 1 .. Len(q) : q[i] \in U
    OBVIOUS
  <1>1. g \in [S \X Nat -> S]
    <2> SUFFICES ASSUME NEW s \in S, NEW n \in Nat, n + 1 <= Len(q)
                 PROVE  AddNext(c, s, q[n + 1]) \in S
      BY Zenon
    <2>1. q[n + 1] \in U
      BY <1>0
    <2> QED BY <2>1, Zenon
  <1>2. PICK h : Recursive(h, S, b, g)
    <2> HIDE DEF g
    <2> QED BY <1>1, Recursion, Zenon
  <1>3. h[0] = b /\ \A n \in Nat : h[n] \in S /\ h[n + 1] = g[<<h[n], n>>]
    <2> HIDE DEF g
    <2> QED BY <1>2, Zenon DEF Recursive
  <1> DEFINE f == [i \in 0 .. Len(q) |-> h[i]]
  <1>4. ASSUME NEW i \in 0 .. Len(q), i # 0 PROVE f[i] = AddNext(c, f[i - 1], q[i])
    <2>1. PICK n \in Nat : n + 1 = i /\ i - 1 = n /\ n \in 0 .. Len(q)
      <3>1. i - 1 \in Nat /\ (i - 1) + 1 = i /\ i - 1 \in 0 .. Len(q)
        BY <1>0, <1>4
      <3> QED BY <3>1, Zenon
    <2>2. f[i] = g[<<h[n], n>>] /\ f[i - 1] = h[n] /\ h[n] \in S
      <3> HIDE DEF g
      <3> QED BY <1>3, <2>1, Zenon
    <2>3. n + 1 <= Len(q)
      BY <1>0, <2>1
    <2>4. g[<<h[n], n>>] = AddNext(c, h[n], q[n + 1])
      BY <2>2, <2>3, Zenon
    <2> HIDE DEF f, g
    <2> QED BY <2>1, <2>2, <2>4, Zenon
  <1>5. f = [i \in 0 .. Len(q) |-> IF i = 0 THEN b ELSE AddNext(c, f[i - 1], q[i])]
    <2>1. f = [i \in 0 .. Len(q) |-> f[i]] /\ f[0] = b
      BY <1>0, <1>3
    <2> HIDE DEF f
    <2> QED BY <1>4, <2>1, Zenon
  <1> HIDE DEF f
  <1> QED BY <1>5, Zenon DEF IsValues

\* AddAll is the last of the values that AddNext goes through.
LEMMA AddAllValues ==
    ASSUME NEW q, NEW a, NEW S, NEW U, NEW zero \in S, zero = [q |-> q, err |-> "none", n |-> 0],
           \A s \in S, x \in U : AddNext(a, s, x) \in S, NEW hs \in Seq(U)
    PROVE  \E r : Values(a, S, zero, hs, r) /\ AddAll(q, a, hs) = r[Len(hs)]
  <1> DEFINE r == CHOOSE f : f = [i \in 0 .. Len(hs) |-> IF i = 0 THEN zero ELSE AddNext(a, f[i - 1], hs[i])]
  <1>0. Len(hs) \in Nat /\ \A i \in 1 .. Len(hs) : hs[i] \in U
    OBVIOUS
  <1>1. AddAll(q, a, hs) = r[Len(hs)]
    BY Zenon DEF AddAll
  <1>2. r = [i \in 0 .. Len(hs) |-> IF i = 0 THEN zero ELSE AddNext(a, r[i - 1], hs[i])]
    <2>1. \E f : f = [i \in 0 .. Len(hs) |-> IF i = 0 THEN zero ELSE AddNext(a, f[i - 1], hs[i])]
      <3>1. \E f : IsValues(a, zero, hs, f)
        BY ValuesExist, Zenon
      <3> QED BY <3>1, Zenon DEF IsValues
    <2> QED BY <2>1, Zenon
  <1> HIDE DEF r
  <1>3. DOMAIN r = 0 .. Len(hs) /\ r[0] = zero /\ \A n \in 1 .. Len(hs) : r[n] = AddNext(a, r[n - 1], hs[n])
    <2>1. DOMAIN r = 0 .. Len(hs)
      BY <1>2, Zenon
    <2>2. ASSUME NEW i \in 0 .. Len(hs) PROVE r[i] = IF i = 0 THEN zero ELSE AddNext(a, r[i - 1], hs[i])
      BY <1>2, Zenon
    <2> QED BY <1>0, <2>1, <2>2
  <1> DEFINE P == {n \in Nat : n <= Len(hs) => r[n] \in S}
  <1>4. 0 \in P
    BY <1>3, Zenon
  <1>5. ASSUME NEW n \in P PROVE n + 1 \in P
    <2> SUFFICES ASSUME n + 1 <= Len(hs)
                 PROVE  r[n + 1] \in S
      OBVIOUS
    <2>1. n + 1 \in 1 .. Len(hs) /\ (n + 1) - 1 = n /\ r[n] \in S
      BY <1>0
    <2>2. r[n + 1] = AddNext(a, r[n], hs[n + 1]) /\ hs[n + 1] \in U
      BY <1>0, <1>3, <2>1, Zenon
    <2> QED BY <2>1, <2>2, Zenon
  <1>6. P = Nat
    <2>1. P \in SUBSET Nat
      BY Zenon
    <2> HIDE DEF P
    <2> QED BY <1>4, <1>5, <2>1, Induction, Zenon
  <1>7. r = [i \in 0 .. Len(hs) |-> r[i]]
    BY <1>2, Zenon
  <1>8. r \in [0 .. Len(hs) -> S]
    BY <1>0, <1>6, <1>7
  <1> QED BY <1>0, <1>1, <1>3, <1>8, Zenon DEF Values

\* hs may be added to the blocks of a in q.
Above(q, a, hs) ==
    /\ Increasing(hs)
    /\ \A k \in DOMAIN hs : hs[k] > ledger[a] /\ \A g \in Nat : InBatch(q, a, g) => g < hs[k]

\* r is the batch q with the first blocks of hs.
AddedFirst(r, q, a, hs) ==
    /\ r.n \in 0 .. Len(hs) /\ Fine(r.q) /\ r.q.version = q.version
    /\ \A p \in Owner, g \in Nat : InBatch(r.q, p, g) => InBatch(q, p, g) \/ (p = a /\ \E k \in 1 .. r.n : g = hs[k])

\* The first of m heights have been added, up to one that was refused.
FirstOf(r, q, a, hs, m) == AddedFirst(r, q, a, hs) /\ r.n <= m /\ (r.err = "none" => r.n = m)

\* The addition of one block more keeps that.
LEMMA AddNextFirst ==
    ASSUME Chains, QueueAssumption, NEW q, Fine(q), NEW a \in Accounts, NEW hs \in Seq(1 .. Length), Above(q, a, hs),
           NEW m \in 1 .. Len(hs), NEW r \in Adding(q.version), FirstOf(r, q, a, hs, m - 1)
    PROVE  FirstOf(AddNext(a, r, hs[m]), q, a, hs, m)
  <1> DEFINE t == AddNext(a, r, hs[m])
             b == [acc |-> a, h |-> hs[m]]
             add == addAccountItem(r.q, b)
  <1>0. b \in Block /\ b.acc = a /\ b.h = hs[m] /\ hs[m] \in 1 .. Length /\ hs[m] \in Nat /\ a \in Owner
    BY DEF Block, QueueAssumption, Owner
  <1>1. r.n \in Nat /\ r.q \in Batch /\ Fine(r.q) /\ m \in Nat /\ Len(hs) \in Nat
    <2>1. r \in [q : Batch, err : Outcomes, n : Nat]
      BY Zenon DEF Adding
    <2>2. Fine(r.q)
      BY Zenon DEF AddedFirst, FirstOf
    <2> QED BY <2>1, <2>2, SMTT(20)
  <1>2. CASE r.err # "none"
    <2>1. t = r
      BY <1>2, Zenon DEF AddNext
    <2> QED BY <2>1, <1>1, <1>2 DEF FirstOf
  <1>3. CASE r.err = "none" /\ add.err # "none"
    <2>1. add.q = r.q
      BY <1>1, <1>3, ItemType, Zenon
    <2>2. t = [q |-> r.q, err |-> add.err, n |-> r.n]
      BY <2>1, <1>3, Zenon DEF AddNext
    <2>3. t.q = r.q /\ t.n = r.n /\ t.err # "none"
      BY <2>2, <1>3, SMTT(20)
    <2> HIDE DEF t
    <2>4. t.n <= m
      BY <2>3, <1>1 DEF FirstOf
    <2> QED BY <2>3, <2>4, <1>1, Zenon DEF AddedFirst, FirstOf, t
  <1>4. CASE r.err = "none" /\ add.err = "none"
    <2>1. r.n = m - 1 /\ t = [q |-> add.q, err |-> add.err, n |-> r.n + 1]
      BY <1>4, Zenon DEF AddNext, FirstOf
    <2>2. t.q = add.q /\ t.n = m /\ t.err = "none"
      <3> HIDE DEF t, add
      <3>1. t.q = add.q /\ t.n = r.n + 1 /\ t.err = add.err
        BY <2>1, Zenon
      <3> QED BY <3>1, <2>1, <1>1, <1>4
    <2>3. b.h > ledger[b.acc]
      <3>1. m \in DOMAIN hs
        BY SMTT(20)
      <3>2. hs[m] > ledger[a]
        BY <3>1, Zenon DEF Above
      <3> HIDE DEF b
      <3> QED BY <3>2, <1>0, Zenon
    <2>4. ASSUME NEW g \in Nat, InBatch(r.q, a, g) PROVE g < hs[m]
      <3>1. InBatch(q, a, g) \/ \E k \in 1 .. r.n : g = hs[k]
        BY <2>4, <1>0, Zenon DEF AddedFirst, FirstOf
      <3>2. InBatch(q, a, g) => g < hs[m]
        BY DEF Above
      <3>3. \A k \in 1 .. r.n : k \in DOMAIN hs /\ k < m /\ m \in DOMAIN hs
        BY <2>1, <1>1, SMTT(20)
      <3>4. \A k \in 1 .. r.n : hs[k] < hs[m]
        BY <3>3, Zenon DEF Above, Increasing
      <3> QED BY <3>1, <3>2, <3>4, Zenon
    <2>5. /\ Fine(add.q) /\ add.q.version = r.q.version
          /\ \A p \in Owner, g \in Nat : InBatch(add.q, p, g) <=> InBatch(r.q, p, g) \/ (p = a /\ g = hs[m])
      BY <1>0, <1>1, <1>4, <2>3, <2>4, AccountItem, Zenon
    <2> HIDE DEF t, add
    <2>6. t.n \in 0 .. Len(hs) /\ Fine(t.q) /\ t.q.version = q.version
      BY <2>2, <2>5, <1>1 DEF AddedFirst, FirstOf
    <2>7. ASSUME NEW p \in Owner, NEW g \in Nat, InBatch(t.q, p, g)
          PROVE  InBatch(q, p, g) \/ (p = a /\ \E k \in 1 .. t.n : g = hs[k])
      <3>1. InBatch(r.q, p, g) \/ (p = a /\ g = hs[m])
        BY <2>2, <2>5, <2>7, Zenon
      <3>2. m \in 1 .. t.n /\ \A k \in 1 .. r.n : k \in 1 .. t.n
        BY <2>1, <2>2, <1>1
      <3> QED BY <3>1, <3>2, Zenon DEF AddedFirst, FirstOf
    <2>8. AddedFirst(t, q, a, hs)
      BY <2>6, <2>7, Zenon DEF AddedFirst
    <2>9. FirstOf(t, q, a, hs, m)
      BY <2>2, <2>8, <1>1 DEF FirstOf
    <2> QED BY <2>9, Zenon DEF t
  <1> QED BY <1>2, <1>3, <1>4, Zenon

\* What AddAll returns has its type.
LEMMA AddAllType ==
    ASSUME Chains, QueueAssumption, NEW q \in Batch, Sorted(q), NEW a \in Accounts, NEW hs \in Seq(1 .. Length)
    PROVE  AddAll(q, a, hs) \in Adding(q.version)
  <1> DEFINE zero == [q |-> q, err |-> "none", n |-> 0]
  <1>1. zero \in Adding(q.version)
    BY Zenon DEF Adding, Outcomes
  <1>2. \A r \in Adding(q.version), h \in 1 .. Length : AddNext(a, r, h) \in Adding(q.version)
    BY AddNextType, Zenon
  <1>3. zero = [q |-> q, err |-> "none", n |-> 0]
    BY Zenon
  <1> HIDE DEF zero
  <1>4. PICK r : Values(a, Adding(q.version), zero, hs, r) /\ AddAll(q, a, hs) = r[Len(hs)]
    BY <1>1, <1>2, <1>3, AddAllValues, SMTT(20)
  <1>5. r \in [0 .. Len(hs) -> Adding(q.version)] /\ Len(hs) \in Nat
    BY <1>4, Zenon DEF Values
  <1> QED BY <1>4, <1>5

\* AddAll keeps a batch fine, and adds the first blocks of the sequence.
LEMMA AddAllFirst ==
    ASSUME Chains, QueueAssumption, NEW q, Fine(q), NEW a \in Accounts, NEW hs \in Seq(1 .. Length), Above(q, a, hs)
    PROVE  AddedFirst(AddAll(q, a, hs), q, a, hs)
  <1> DEFINE zero == [q |-> q, err |-> "none", n |-> 0]
  <1>1. zero \in Adding(q.version)
    BY Zenon DEF Fine, Adding, Outcomes
  <1>2. \A r \in Adding(q.version), h \in 1 .. Length : AddNext(a, r, h) \in Adding(q.version)
    BY AddNextType, Zenon
  <1>3. AddedFirst(zero, q, a, hs) /\ zero.n = 0 /\ zero = [q |-> q, err |-> "none", n |-> 0]
    BY DEF AddedFirst
  <1> HIDE DEF zero
  <1>4. PICK r : Values(a, Adding(q.version), zero, hs, r) /\ AddAll(q, a, hs) = r[Len(hs)]
    BY <1>1, <1>2, <1>3, AddAllValues, SMTT(20)
  <1>5. /\ r \in [0 .. Len(hs) -> Adding(q.version)] /\ r[0] = zero /\ Len(hs) \in Nat
        /\ \A m \in 1 .. Len(hs) : r[m] = AddNext(a, r[m - 1], hs[m])
        /\ AddAll(q, a, hs) = r[Len(hs)]
    BY <1>4, Zenon DEF Values
  <1> DEFINE P == {m \in Nat : m <= Len(hs) => FirstOf(r[m], q, a, hs, m)}
  <1>6. 0 \in P
    BY <1>3, <1>5, SMTT(20) DEF FirstOf
  <1>7. ASSUME NEW m \in P PROVE m + 1 \in P
    <2> SUFFICES ASSUME m + 1 <= Len(hs)
                 PROVE  FirstOf(r[m + 1], q, a, hs, m + 1)
      BY SMTT(20)
    <2>1. m \in 0 .. Len(hs) /\ m + 1 \in 1 .. Len(hs) /\ (m + 1) - 1 = m /\ FirstOf(r[m], q, a, hs, m)
      BY <1>5
    <2>2. r[m + 1] = AddNext(a, r[m], hs[m + 1]) /\ r[m] \in Adding(q.version)
      BY <2>1, <1>5, Zenon
    <2> DEFINE k == m + 1
    <2>3. k \in 1 .. Len(hs) /\ k - 1 = m
      BY <2>1, Zenon
    <2> HIDE DEF k
    <2>4. FirstOf(AddNext(a, r[m], hs[k]), q, a, hs, k)
      BY <2>1, <2>2, <2>3, AddNextFirst, Zenon
    <2> QED BY <2>2, <2>4, Zenon DEF k
  <1>8. P = Nat
    <2> HIDE DEF P
    <2>1. P \in SUBSET Nat
      BY Zenon DEF P
    <2> QED BY <1>6, <1>7, <2>1, Induction, Zenon
  <1> QED BY <1>5, <1>8, SMTT(20) DEF FirstOf

\* What addSnapshotItem returns has its type, and a block that is refused leaves the batch.
LEMMA SnapshotItemType ==
    ASSUME QueueAssumption, NEW q \in Batch, Sorted(q), NEW s \in Nat
    PROVE  /\ addSnapshotItem(q, s).q \in Batch /\ Sorted(addSnapshotItem(q, s).q)
           /\ addSnapshotItem(q, s).q.version = q.version
           /\ addSnapshotItem(q, s).err # "none" => addSnapshotItem(q, s).q = q
  <1> DEFINE max == IF q.levels # <<>> /\ q.levels[Len(q.levels)].snapshot THEN Len(q.levels) ELSE Len(q.levels) + 1
             a == Added(q, max, None, s)
             n == [a EXCEPT !.levels = Close(a.levels, q.lastSnapshot, max), !.lastSnapshot = max]
  <1>1. /\ addSnapshotItem(q, s).err # "none" => addSnapshotItem(q, s).q = q
        /\ addSnapshotItem(q, s).err = "none" => addSnapshotItem(q, s).q = n
    BY Zenon DEF addSnapshotItem, Current
  <1>2. max \in 1 .. Len(q.levels) + 1 /\ (max = Len(q.levels) \/ max = Len(q.levels) + 1)
        /\ (max = Len(q.levels) => q.levels[max].snapshot) /\ max \in Nat
    BY BatchFacts DEF Batch
  <1> HIDE DEF max
  <1>3. None \in Owner /\ q.lastSnapshot \in Nat
    BY BatchFacts, Zenon DEF Owner
  <1>4. IsAdded(a, q, max, None, s)
    BY <1>2, <1>3, AddedLevels, Zenon
  <1>5. a \in Batch /\ a.version = q.version
    BY <1>4, Zenon DEF IsAdded
  <1>6. Closes(n, a, q.lastSnapshot, max)
    BY <1>2, <1>3, <1>5, CloseLevels, Zenon
  <1>7. Sorted(n)
    BY <1>2, <1>6, AddedSnapshotSorted, Zenon
  <1> HIDE DEF n, a
  <1>8. n \in Batch /\ n.version = q.version
    BY <1>5, <1>6, Zenon DEF Closes
  <1> QED BY <1>1, <1>7, <1>8, Zenon
=============================================================================
