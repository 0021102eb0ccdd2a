--------------------------- MODULE SkeletonProofs ---------------------------
(***************************************************************************)
(* Proofs about Skeleton, for any number of peers, whatever lists they     *)
(* answer, and any number of requests: the wait group counts the requests, *)
(* and construct follows the majority.                                     *)
(***************************************************************************)
EXTENDS Skeleton, FiniteSetTheorems, SequenceTheorems, TLAPS

Requests == Nat \X Peers
Handler == [mid : Requests, list : Seq(Hashes), step : {"remove", "add"}]

TypeOK ==
    /\ msgId \in Nat /\ first \in Nat /\ wg \in Int
    /\ pending \in SUBSET Requests /\ IsFiniteSet(pending)
    /\ sent \in SUBSET Requests /\ handlers \in SUBSET Handler
    /\ tree \in SUBSET (Seq(Hashes) \X Peers)
    /\ reliable \in SUBSET Peers /\ todo \in SUBSET Peers
    /\ pc \in {"idle", "ask", "sent"}
    /\ pc = "sent" => cur \in Requests

\* Requests that are not yet answered, or whose answer is being handled.
OnWay == sent \cup {h.mid : h \in handlers}

\* The requests of the current construct.
Current == {m \in OnWay : m[1] > first}

(***************************************************************************)
(* The ids that were given out.  The request just sent is not pending yet, *)
(* and it is the last.                                                     *)
(***************************************************************************)
Numbered ==
    /\ first <= msgId
    /\ \A m \in OnWay \cup pending : m[1] <= msgId
    /\ pc = "sent" => cur \notin pending /\ cur[1] <= msgId

(***************************************************************************)
(* Each peer is asked once, answers a request once, and its answer is      *)
(* handled once; until then it has nothing in the tree.  (Not so when the  *)
(* answer to an earlier request got into the tree.)                        *)
(***************************************************************************)
OnePerPeer ==
    /\ \A m, n \in Current : m[2] = n[2] => m = n
    /\ \A h, g \in handlers : h.mid = g.mid => h = g
    /\ \A h \in handlers : h.mid \notin sent
    /\ \A m \in Current : m[2] \notin todo
    /\ ~late => \A x \in tree : x[2] \notin todo /\ \A m \in Current : m[2] # x[2]

(***************************************************************************)
(* Of a node the tree has the nodes above it, too, and those that one peer *)
(* gave lie on one branch.                                                 *)
(***************************************************************************)
Agree(a, b) == \A i \in 1 .. Len(a) : i <= Len(b) => a[i] = b[i]

Branches ==
    /\ \A x \in tree : \A n \in 1 .. Len(x[1]) : <<SubSeq(x[1], 1, n), x[2]>> \in tree
    /\ ~late => \A x, y \in tree : x[2] = y[2] => Agree(x[1], y[1])

IInv == TypeOK /\ Numbered /\ OnePerPeer /\ Branches /\ WaitGroupExact
-----------------------------------------------------------------------------
\* The invariant holds at the start: there is no request.
LEMMA InitInv == Init => IInv
  <1> SUFFICES ASSUME Init
               PROVE  IInv
    OBVIOUS
  <1>1. TypeOK /\ Numbered /\ OnePerPeer /\ Branches
    <2>1. IsFiniteSet(pending)
      BY FS_EmptySet, Zenon DEF Init
    <2>2. TypeOK
      BY <2>1 DEF Init, TypeOK
    <2>3. OnWay = {} /\ Current = {}
      BY DEF Init, OnWay, Current
    <2> QED BY <2>2, <2>3 DEF Init, Numbered, OnePerPeer, Branches
  <1>2. WaitGroupExact
    BY FS_EmptySet DEF Init, WaitGroupExact
  <1> QED BY <1>1, <1>2 DEF IInv

\* The peer asked next is one of those left.
LEMMA NextPeerLeft == NextPeer \subseteq todo
  BY DEF NextPeer

\* The prefixes of a list.
LEMMA PrefixFacts ==
    ASSUME NEW l \in Seq(Hashes), NEW n \in 0 .. Len(l)
    PROVE  /\ SubSeq(l, 1, n) \in Seq(Hashes)
           /\ Len(SubSeq(l, 1, n)) = n
           /\ \A i \in 1 .. n : SubSeq(l, 1, n)[i] = l[i]
           /\ \A i \in 1 .. n : SubSeq(SubSeq(l, 1, n), 1, i) = SubSeq(l, 1, i)
  <1>1. \A i \in 1 .. n : l[i] \in Hashes
    OBVIOUS
  <1>2. /\ SubSeq(l, 1, n) \in Seq(Hashes)
        /\ Len(SubSeq(l, 1, n)) = n
        /\ \A i \in 1 .. n : SubSeq(l, 1, n)[i] = l[i]
    OBVIOUS
  <1>3. ASSUME NEW i \in 1 .. n
        PROVE  SubSeq(SubSeq(l, 1, n), 1, i) = SubSeq(l, 1, i)
    OBVIOUS
  <1> QED BY <1>2, <1>3
-----------------------------------------------------------------------------
(* Types, numbers and the wait group *)

\* An answer of a peer is a list of hashes.
LEMMA AnswerType ==
    ASSUME TypeOK, NEW mid \in sent, NEW l \in Lists[mid[2]]
    PROVE  mid \in Requests /\ l \in Seq(Hashes)
  BY SkeletonAssumption DEF TypeOK, Requests

\* A list is added as nodes of the tree.
LEMMA AddBranchType ==
    ASSUME NEW t \in SUBSET (Seq(Hashes) \X Peers), NEW l \in Seq(Hashes), NEW p \in Peers
    PROVE  AddBranch(t, l, p) \in SUBSET (Seq(Hashes) \X Peers)
  <1>1. \A n \in 1 .. Len(l) : SubSeq(l, 1, n) \in Seq(Hashes)
    BY PrefixFacts
  <1> QED BY <1>1 DEF AddBranch

\* Every step keeps the types.
LEMMA NextType ==
    ASSUME TypeOK, [Next]_vars
    PROVE  TypeOK'
  <1>1. CASE Construct
    <2>1. IsFiniteSet(pending') /\ Cardinality(pending) \in Nat
      BY <1>1, FS_EmptySet, FS_CardinalityType DEF TypeOK, Construct
    <2> QED BY <1>1, <2>1 DEF TypeOK, Construct
  <1>2. ASSUME NEW p \in NextPeer, SendRequest(p) \/ SendFails(p)
        PROVE  TypeOK'
    BY <1>2, NextPeerLeft DEF TypeOK, SendRequest, SendFails, Requests
  <1>3. CASE MakePending
    <2>1. IsFiniteSet(pending')
      BY <1>3, FS_AddElement DEF TypeOK, MakePending
    <2> QED BY <1>3, <2>1 DEF TypeOK, MakePending
  <1>4. CASE Return
    BY <1>4 DEF TypeOK, Return
  <1>5. ASSUME NEW mid \in sent, NEW l \in Lists[mid[2]], Answer(mid, l)
        PROVE  TypeOK'
    BY <1>5, AnswerType DEF TypeOK, Answer, Handler
  <1>6. ASSUME NEW h \in handlers, HandleRemove(h)
        PROVE  TypeOK'
    <2>1. IsFiniteSet(pending')
      BY <1>6, FS_RemoveElement DEF TypeOK, HandleRemove, RemovePending
    <2>2. handlers' \in SUBSET Handler /\ reliable' \in SUBSET Peers
      BY <1>6 DEF TypeOK, HandleRemove, Handler
    <2> QED BY <1>6, <2>1, <2>2 DEF TypeOK, HandleRemove, RemovePending
  <1>7. ASSUME NEW h \in handlers, HandleAdd(h)
        PROVE  TypeOK'
    <2>1. h.list \in Seq(Hashes) /\ h.mid[2] \in Peers
      BY DEF TypeOK, Handler, Requests
    <2>2. tree' \in SUBSET (Seq(Hashes) \X Peers)
      BY <1>7, <2>1, AddBranchType DEF TypeOK, HandleAdd
    <2> QED BY <1>7, <2>2 DEF TypeOK, HandleAdd
  <1>8. ASSUME NEW mid \in pending, Timeout(mid)
        PROVE  TypeOK'
    <2>1. IsFiniteSet(pending')
      BY <1>8, FS_RemoveElement DEF TypeOK, Timeout, RemovePending
    <2> QED BY <1>8, <2>1 DEF TypeOK, Timeout, RemovePending
  <1>9. CASE UNCHANGED vars
    BY <1>9 DEF vars, TypeOK
  <1> QED BY <1>1, <1>2, <1>3, <1>4, <1>5, <1>6, <1>7, <1>8, <1>9 DEF Next, Ask

\* A new request gets an id above all others, and its id only becomes pending later.
LEMMA NextNumbered ==
    ASSUME TypeOK, Numbered, [Next]_vars
    PROVE  Numbered'
  <1> USE DEF Numbered, OnWay
  <1>1. CASE Construct
    BY <1>1 DEF TypeOK, Construct
  <1>2. ASSUME NEW p \in NextPeer, SendRequest(p) \/ SendFails(p)
        PROVE  Numbered'
    BY <1>2, NextPeerLeft DEF TypeOK, SendRequest, SendFails, Requests, Handler
  <1>3. CASE MakePending
    BY <1>3 DEF TypeOK, MakePending
  <1>4. CASE Return
    BY <1>4 DEF TypeOK, Return
  <1>5. ASSUME NEW mid \in sent, NEW l \in Lists[mid[2]], Answer(mid, l)
        PROVE  Numbered'
    BY <1>5 DEF TypeOK, Answer
  <1>6. ASSUME NEW h \in handlers, HandleRemove(h)
        PROVE  Numbered'
    <2>1. {g.mid : g \in handlers'} \subseteq {g.mid : g \in handlers}
      BY <1>6 DEF TypeOK, HandleRemove, Handler
    <2> QED BY <1>6, <2>1 DEF TypeOK, HandleRemove, RemovePending
  <1>7. ASSUME NEW h \in handlers, HandleAdd(h)
        PROVE  Numbered'
    BY <1>7 DEF TypeOK, HandleAdd
  <1>8. ASSUME NEW mid \in pending, Timeout(mid)
        PROVE  Numbered'
    BY <1>8 DEF TypeOK, Timeout, RemovePending
  <1>9. CASE UNCHANGED vars
    BY <1>9 DEF vars
  <1> QED BY <1>1, <1>2, <1>3, <1>4, <1>5, <1>6, <1>7, <1>8, <1>9 DEF Next, Ask

\* A request is taken out of pending with its wg.Done.
LEMMA RemovePendingExact ==
    ASSUME TypeOK, WaitGroupExact, NEW mid, RemovePending(mid), UNCHANGED pc
    PROVE  WaitGroupExact'
  <1>1. /\ Cardinality(pending) \in Nat
        /\ Cardinality(pending \ {mid}) = IF mid \in pending THEN Cardinality(pending) - 1
                                          ELSE Cardinality(pending)
    BY FS_CardinalityType, FS_RemoveElement DEF TypeOK
  <1> QED BY <1>1 DEF WaitGroupExact, RemovePending

\* A step that removes a pending request, by its answer, its timeout or a reset, takes exactly
\* that one from the wait group.
LEMMA NextWaitGroup ==
    ASSUME TypeOK, Numbered, WaitGroupExact, [Next]_vars
    PROVE  WaitGroupExact'
  <1>0. Cardinality(pending) \in Nat
    BY FS_CardinalityType DEF TypeOK
  <1>1. CASE Construct
    <2>1. wg' = 0 /\ pending' = {} /\ pc' # "sent"
      BY <1>0, <1>1 DEF WaitGroupExact, Construct
    <2> QED BY <2>1, FS_EmptySet DEF WaitGroupExact
  <1>2. ASSUME NEW p \in NextPeer, SendRequest(p) \/ SendFails(p)
        PROVE  WaitGroupExact'
    BY <1>0, <1>2 DEF WaitGroupExact, SendRequest, SendFails
  <1>3. CASE MakePending
    <2>1. Cardinality(pending') = Cardinality(pending) + 1
      BY <1>3, FS_AddElement DEF TypeOK, Numbered, MakePending
    <2> QED BY <1>0, <1>3, <2>1 DEF WaitGroupExact, MakePending
  <1>4. CASE Return
    BY <1>4 DEF WaitGroupExact, Return
  <1>5. ASSUME NEW mid \in sent, NEW l \in Lists[mid[2]], Answer(mid, l)
        PROVE  WaitGroupExact'
    BY <1>5 DEF WaitGroupExact, Answer
  <1>6. ASSUME NEW h \in handlers, HandleRemove(h)
        PROVE  WaitGroupExact'
    BY <1>6, RemovePendingExact DEF HandleRemove
  <1>7. ASSUME NEW h \in handlers, HandleAdd(h)
        PROVE  WaitGroupExact'
    BY <1>7 DEF WaitGroupExact, HandleAdd
  <1>8. ASSUME NEW mid \in pending, Timeout(mid)
        PROVE  WaitGroupExact'
    BY <1>8, RemovePendingExact DEF Timeout
  <1>9. CASE UNCHANGED vars
    BY <1>9 DEF vars, WaitGroupExact
  <1> QED BY <1>1, <1>2, <1>3, <1>4, <1>5, <1>6, <1>7, <1>8, <1>9 DEF Next, Ask
-----------------------------------------------------------------------------
(* One answer of every peer *)

\* Every step keeps it that a peer is asked and heard once.
LEMMA NextOnePerPeer ==
    ASSUME TypeOK, Numbered, OnePerPeer, [Next]_vars
    PROVE  OnePerPeer'
  <1>1. CASE Construct
    <2>1. Current' = {}
      BY <1>1 DEF TypeOK, Numbered, Construct, OnWay, Current, Requests, Handler
    <2> QED BY <1>1, <2>1 DEF OnePerPeer, Construct
  <1>2. ASSUME NEW p \in NextPeer, SendRequest(p)
        PROVE  OnePerPeer'
    <2> DEFINE new == <<msgId + 1, p>>
    <2>1. /\ p \in todo /\ todo' = todo \ {p} /\ sent' = sent \cup {new}
          /\ UNCHANGED <<first, tree, handlers, late>>
      BY <1>2, NextPeerLeft DEF SendRequest
    <2>2. Current' \subseteq Current \cup {new}
      BY <2>1 DEF OnWay, Current
    <2>3. \A m \in Current : m[2] # p
      BY <2>1 DEF OnePerPeer
    <2>4. \A h \in handlers : h.mid # new
      BY DEF TypeOK, Numbered, OnWay, Requests, Handler
    <2> HIDE DEF new
    <2>5. new[2] = p
      BY DEF new
    <2> QED BY <2>1, <2>2, <2>3, <2>4, <2>5 DEF OnePerPeer
  <1>3. ASSUME NEW p \in NextPeer, SendFails(p)
        PROVE  OnePerPeer'
    BY <1>3 DEF OnePerPeer, SendFails, Current, OnWay
  <1>4. CASE MakePending \/ Return
    BY <1>4 DEF OnePerPeer, MakePending, Return, Current, OnWay
  <1>5. ASSUME NEW mid \in sent, NEW l \in Lists[mid[2]], Answer(mid, l)
        PROVE  OnePerPeer'
    <2> DEFINE new == [mid |-> mid, list |-> l, step |-> "remove"]
    <2>1. /\ handlers' \subseteq handlers \cup {new} /\ sent' = sent \ {mid}
          /\ UNCHANGED <<first, tree, todo, late>>
      BY <1>5 DEF Answer
    <2>2. new.mid = mid
      OBVIOUS
    <2> HIDE DEF new
    <2>3. Current' \subseteq Current
      BY <2>1, <2>2 DEF OnWay, Current
    <2> QED BY <2>1, <2>2, <2>3 DEF OnePerPeer
  <1>6. ASSUME NEW h \in handlers, HandleRemove(h)
        PROVE  OnePerPeer'
    <2> DEFINE new == [h EXCEPT !.step = "add"]
    <2>1. /\ handlers' \subseteq (handlers \ {h}) \cup {new}
          /\ UNCHANGED <<first, sent, tree, todo, late>>
      BY <1>6 DEF HandleRemove
    <2>2. new.mid = h.mid
      BY DEF TypeOK, Handler
    <2> HIDE DEF new
    <2>3. Current' \subseteq Current
      BY <2>1, <2>2 DEF OnWay, Current
    <2> QED BY <2>1, <2>2, <2>3 DEF OnePerPeer
  <1>7. ASSUME NEW h \in handlers, HandleAdd(h)
        PROVE  OnePerPeer'
    <2>1. /\ handlers' = handlers \ {h} /\ UNCHANGED <<first, sent, todo>>
          /\ tree' = AddBranch(tree, h.list, h.mid[2])
          /\ ~late' => ~late /\ ~(h.mid[1] <= first)
      BY <1>7 DEF HandleAdd
    <2>2. Current' \subseteq Current
      BY <2>1 DEF OnWay, Current
    <2>3. /\ \A m, n \in Current' : m[2] = n[2] => m = n
          /\ \A f, g \in handlers' : f.mid = g.mid => f = g
          /\ \A g \in handlers' : g.mid \notin sent'
          /\ \A m \in Current' : m[2] \notin todo'
      BY <2>1, <2>2 DEF OnePerPeer
    <2>4. ASSUME ~late', NEW x \in tree'
          PROVE  x[2] \notin todo' /\ \A m \in Current' : m[2] # x[2]
      <3>1. CASE x \in tree
        BY <2>1, <2>2, <2>4, <3>1 DEF OnePerPeer
      <3>2. CASE x[2] = h.mid[2]
        <4>1. h.mid \in Current
          BY <2>1, <2>4 DEF TypeOK, Handler, Requests, OnWay, Current
        <4>2. h.mid \notin Current'
          BY <2>1 DEF OnePerPeer, OnWay, Current
        <4> QED BY <2>1, <2>2, <3>2, <4>1, <4>2 DEF OnePerPeer
      <3> QED BY <2>1, <3>1, <3>2 DEF AddBranch
    <2> QED BY <2>3, <2>4 DEF OnePerPeer
  <1>8. ASSUME NEW mid \in pending, Timeout(mid)
        PROVE  OnePerPeer'
    BY <1>8 DEF OnePerPeer, Timeout, Current, OnWay
  <1>9. CASE UNCHANGED vars
    BY <1>9 DEF vars, OnePerPeer, Current, OnWay
  <1> QED BY <1>1, <1>2, <1>3, <1>4, <1>5, <1>6, <1>7, <1>8, <1>9 DEF Next, Ask

\* Every step keeps the tree closed under prefixes, with one branch for each peer.
LEMMA NextBranches ==
    ASSUME TypeOK, OnePerPeer, Branches, [Next]_vars
    PROVE  Branches'
  <1>1. CASE Construct
    BY <1>1 DEF Branches, Construct
  <1>2. ASSUME NEW h \in handlers, HandleAdd(h)
        PROVE  Branches'
    <2> DEFINE p == h.mid[2]
               new == {<<SubSeq(h.list, 1, n), p>> : n \in 1 .. Len(h.list)}
    <2>1. /\ tree' = tree \cup new
          /\ ~late' => ~late /\ ~(h.mid[1] <= first)
      BY <1>2 DEF HandleAdd, AddBranch
    <2>2. h \in Handler /\ h.list \in Seq(Hashes) /\ Len(h.list) \in Nat
      BY DEF TypeOK, Handler
    <2>3. ASSUME NEW x \in new, NEW n \in 1 .. Len(x[1])
          PROVE  <<SubSeq(x[1], 1, n), x[2]>> \in new
      <3>1. PICK m \in 1 .. Len(h.list) : x = <<SubSeq(h.list, 1, m), p>>
        OBVIOUS
      <3>2. n \in 1 .. m /\ SubSeq(x[1], 1, n) = SubSeq(h.list, 1, n) /\ x[2] = p
        BY <2>2, <3>1, PrefixFacts
      <3> QED BY <2>2, <3>2
    <2>4. ASSUME NEW x \in new, NEW y \in new
          PROVE  Agree(x[1], y[1])
      <3>1. PICK m \in 1 .. Len(h.list) : x[1] = SubSeq(h.list, 1, m)
        OBVIOUS
      <3>2. PICK n \in 1 .. Len(h.list) : y[1] = SubSeq(h.list, 1, n)
        OBVIOUS
      <3> QED BY <2>2, <3>1, <3>2, PrefixFacts DEF Agree
    <2>5. ASSUME ~late'
          PROVE  \A x \in tree : x[2] # p
      BY <2>1, <2>2, <2>5 DEF OnePerPeer, OnWay, Current, Handler, Requests, TypeOK
    <2>6. \A x \in new : x[2] = p
      OBVIOUS
    <2> HIDE DEF new, p
    <2>7. \A x \in tree' : \A n \in 1 .. Len(x[1]) : <<SubSeq(x[1], 1, n), x[2]>> \in tree'
      BY <2>1, <2>3 DEF Branches
    <2>8. ~late' => \A x, y \in tree' : x[2] = y[2] => Agree(x[1], y[1])
      BY <2>1, <2>4, <2>5, <2>6 DEF Branches
    <2> QED BY <2>7, <2>8 DEF Branches
  <1>3. CASE UNCHANGED <<tree, late>>
    BY <1>3 DEF Branches
  <1>4. \/ Construct \/ (\E h \in handlers : HandleAdd(h)) \/ UNCHANGED <<tree, late>>
    BY DEF Next, Ask, vars, SendRequest, SendFails, MakePending, Return, Answer, HandleRemove, Timeout
  <1> QED BY <1>1, <1>2, <1>3, <1>4

\* Every step of construct, of the peers and of the timers keeps the invariant.
LEMMA NextInv == IInv /\ [Next]_vars => IInv'
  BY NextType, NextNumbered, NextOnePerPeer, NextBranches, NextWaitGroup DEF IInv

\* The invariant behind the two theorems: ids are given out once, each peer is asked and heard
\* once by one construct, and the tree has one branch for each peer.
THEOREM Invariance == Spec => []IInv
  BY InitInv, NextInv, PTL DEF Spec

\* wg.Done is called exactly once for every request, whatever answers, timeouts and resets race
\* for it: the wait group counts the pending requests and the one being sent.
THEOREM WaitGroup == Spec => []WaitGroupExact
  <1>1. IInv => WaitGroupExact
    BY DEF IInv
  <1> QED BY <1>1, Invariance, PTL
-----------------------------------------------------------------------------
(* The majority *)

\* Every set of numbers has a least one.
LEMMA Least ==
    ASSUME NEW T \in SUBSET Nat, T # {}
    PROVE  \E x \in T : \A y \in T : x <= y
  <1> DEFINE LessThan == {p \in Nat \X Nat : p[1] < p[2]}
  <1>1. IsWellFoundedOn(LessThan, Nat)
    BY NatLessThanWellFounded DEF OpToRel
  <1>2. PICK x \in T : \A y \in T : <<y, x>> \notin LessThan
    <2> HIDE DEF LessThan
    <2> QED BY <1>1, WFMin, Zenon
  <1>3. ASSUME NEW y \in T
        PROVE  x <= y
    <2>1. x \in Nat /\ y \in Nat
      OBVIOUS
    <2>2. y < x => <<y, x>> \in LessThan
      BY <2>1
    <2> HIDE DEF LessThan
    <2> QED BY <1>2, <2>1, <2>2
  <1> QED BY <1>3

\* Where the branch that is returned leaves a path, there is a first difference.
LEMMA FirstDifference ==
    ASSUME NEW path \in Seq(Hashes), NEW l \in Seq(Hashes),
           ~(Len(path) <= Len(l) /\ SubSeq(l, 1, Len(path)) = path)
    PROVE  \E k \in 1 .. Len(path) :
              /\ k - 1 <= Len(l)
              /\ SubSeq(path, 1, k - 1) = SubSeq(l, 1, k - 1)
              /\ k <= Len(l) => path[k] # l[k]
  <1> DEFINE D == {k \in 1 .. Len(path) : k > Len(l) \/ path[k] # l[k]}
  <1>0. Len(path) \in Nat /\ Len(l) \in Nat
    OBVIOUS
  <1>1. D # {}
    <2> SUFFICES ASSUME \A k \in 1 .. Len(path) : k <= Len(l) /\ path[k] = l[k]
                 PROVE  Len(path) <= Len(l) /\ SubSeq(l, 1, Len(path)) = path
      BY <1>0
    <2>1. Len(path) <= Len(l)
      BY <1>0
    <2>2. /\ SubSeq(l, 1, Len(path)) \in Seq(Hashes)
          /\ Len(SubSeq(l, 1, Len(path))) = Len(path)
          /\ \A i \in 1 .. Len(path) : SubSeq(l, 1, Len(path))[i] = path[i]
      BY <1>0, <2>1, PrefixFacts
    <2> QED BY <2>1, <2>2, SeqEqual
  <1>2. PICK k \in D : \A j \in D : k <= j
    <2>1. D \in SUBSET Nat
      BY <1>0
    <2> HIDE DEF D
    <2> QED BY <1>1, <2>1, Least
  <1>3. k \in 1 .. Len(path) /\ \A j \in 1 .. k - 1 : j <= Len(l) /\ path[j] = l[j]
    BY <1>0, <1>2
  <1>4. k - 1 <= Len(l)
    BY <1>0, <1>3
  <1>5. /\ SubSeq(path, 1, k - 1) \in Seq(Hashes) /\ SubSeq(l, 1, k - 1) \in Seq(Hashes)
        /\ Len(SubSeq(path, 1, k - 1)) = k - 1 /\ Len(SubSeq(l, 1, k - 1)) = k - 1
        /\ \A i \in 1 .. k - 1 : SubSeq(path, 1, k - 1)[i] = SubSeq(l, 1, k - 1)[i]
    BY <1>0, <1>3, <1>4, PrefixFacts
  <1>6. SubSeq(path, 1, k - 1) = SubSeq(l, 1, k - 1)
    BY <1>5, SeqEqual
  <1>7. k <= Len(l) => path[k] # l[k]
    BY <1>0, <1>2
  <1> HIDE DEF D
  <1> QED BY <1>3, <1>4, <1>6, <1>7

\* Two nodes that most of the peers gave have a peer in common.
LEMMA CommonPeer ==
    ASSUME TypeOK, NEW a, NEW b,
           2 * Weight(tree, a) > Cardinality({x[2] : x \in tree}),
           2 * Weight(tree, b) > Cardinality({x[2] : x \in tree})
    PROVE  \E p \in Peers : <<a, p>> \in tree /\ <<b, p>> \in tree
  <1> DEFINE Voters == {x[2] : x \in tree}
             Of(c) == {p \in Peers : <<c, p>> \in tree}
  <1>1. Voters \subseteq Peers /\ Of(a) \subseteq Voters /\ Of(b) \subseteq Voters
    BY DEF TypeOK
  <1>2. IsFiniteSet(Voters)
    BY <1>1, SkeletonAssumption, FS_Subset
  <1>3. Cardinality(Voters) \in Nat /\ Cardinality(Of(a)) \in Nat /\ Cardinality(Of(b)) \in Nat
    BY <1>1, <1>2, FS_Subset, FS_CardinalityType
  <1>4. Cardinality(Of(a)) + Cardinality(Of(b)) > Cardinality(Voters)
    BY <1>3 DEF Weight
  <1>5. Of(a) \cap Of(b) # {}
    BY <1>1, <1>2, <1>4, FS_MajoritiesIntersect
  <1> QED BY <1>5

\* A node has at least the peers of every node below it.
LEMMA WeightGrows ==
    ASSUME IInv, NEW path \in Seq(Hashes), NEW k \in 1 .. Len(path)
    PROVE  /\ Weight(tree, path) \in Nat /\ Weight(tree, SubSeq(path, 1, k)) \in Nat
           /\ Weight(tree, path) <= Weight(tree, SubSeq(path, 1, k))
  <1> DEFINE Of(c) == {p \in Peers : <<c, p>> \in tree}
  <1>1. Of(path) \subseteq Of(SubSeq(path, 1, k))
    BY DEF IInv, Branches
  <1>2. /\ IsFiniteSet(Of(SubSeq(path, 1, k))) /\ IsFiniteSet(Of(path))
        /\ Cardinality(Of(path)) <= Cardinality(Of(SubSeq(path, 1, k)))
    BY <1>1, SkeletonAssumption, FS_Subset
  <1> QED BY <1>2, FS_CardinalityType DEF Weight

\* When most of the peers that are counted in the tree gave a list, bestBranch of it is the list
\* or a continuation of it, unless an answer to a request of an earlier construct was counted.
LEMMA BestIsMajority ==
    ASSUME IInv, ~late, NEW l \in BestBranches(tree), NEW path \in {x[1] : x \in tree},
           2 * Weight(tree, path) > Cardinality({x[2] : x \in tree})
    PROVE  Len(path) <= Len(l) /\ SubSeq(l, 1, Len(path)) = path
  <1>0. path \in Seq(Hashes) /\ l \in Seq(Hashes) /\ Len(path) \in Nat /\ Len(l) \in Nat
    <2>1. tree \in SUBSET (Seq(Hashes) \X Peers) /\ <<>> \in Seq(Hashes)
      BY DEF IInv, TypeOK
    <2>2. l \in {x[1] : x \in tree} \cup {<<>>}
      BY DEF BestBranches
    <2>3. path \in Seq(Hashes) /\ l \in Seq(Hashes)
      BY <2>1, <2>2
    <2> QED BY <2>3
  <1> SUFFICES ASSUME ~(Len(path) <= Len(l) /\ SubSeq(l, 1, Len(path)) = path)
               PROVE  FALSE
    OBVIOUS
  <1>1. PICK k \in 1 .. Len(path) : /\ k - 1 <= Len(l)
                                    /\ SubSeq(path, 1, k - 1) = SubSeq(l, 1, k - 1)
                                    /\ k <= Len(l) => path[k] # l[k]
    BY <1>0, FirstDifference
  <1> DEFINE a == SubSeq(path, 1, k)
             above == SubSeq(l, 1, k - 1)
  <1>2. /\ a \in Seq(Hashes) /\ Len(a) = k /\ a[k] = path[k]
        /\ SubSeq(a, 1, k - 1) = above /\ Len(above) = k - 1
    <2>1. a \in Seq(Hashes) /\ Len(a) = k /\ a[k] = path[k]
      BY <1>0, PrefixFacts
    <2>2. k - 1 \in 0 .. Len(l)
      BY <1>0, <1>1
    <2>3. Len(above) = k - 1
      BY <1>0, <2>2, PrefixFacts
    <2>4. SubSeq(a, 1, k - 1) = SubSeq(path, 1, k - 1)
      BY <1>0, <1>1
    <2> QED BY <1>1, <2>1, <2>3, <2>4
  <1>3. \E p \in Peers : <<a, p>> \in tree
    <2>1. PICK x \in tree : x[1] = path
      OBVIOUS
    <2>2. x[2] \in Peers
      BY DEF IInv, TypeOK
    <2>3. <<SubSeq(x[1], 1, k), x[2]>> \in tree
      BY <2>1 DEF IInv, Branches
    <2> QED BY <2>1, <2>2, <2>3
  <1>4. a \in Children(tree, above)
    BY <1>2, <1>3 DEF Children
  <1>5. CASE k > Len(l)
    <2>1. above = l
      BY <1>0, <1>1, <1>5, SubSeqFull
    <2> QED BY <1>4, <2>1 DEF BestBranches
  <1>6. CASE k <= Len(l)
    <2> DEFINE b == SubSeq(l, 1, k)
    <2>1. b \in Seq(Hashes) /\ Len(b) = k /\ b[k] = l[k]
      BY <1>0, <1>6, PrefixFacts
    <2>2. b \in Heaviest(tree, above)
      BY <1>0, <1>6 DEF BestBranches
    <2>3. Weight(tree, a) <= Weight(tree, b)
      BY <1>4, <2>2 DEF Heaviest
    <2>4. /\ Weight(tree, path) \in Nat /\ Weight(tree, a) \in Nat
          /\ Weight(tree, path) <= Weight(tree, a)
      BY <1>0, WeightGrows
    <2>5. Weight(tree, b) \in Nat
      <3>1. k \in 1 .. Len(b)
        BY <1>0, <2>1
      <3> HIDE DEF b
      <3> QED BY <2>1, <3>1, WeightGrows
    <2>6. Cardinality({x[2] : x \in tree}) \in Nat
      BY SkeletonAssumption, FS_Subset, FS_CardinalityType DEF IInv, TypeOK
    <2>7. /\ 2 * Weight(tree, a) > Cardinality({x[2] : x \in tree})
          /\ 2 * Weight(tree, b) > Cardinality({x[2] : x \in tree})
      BY <2>3, <2>4, <2>5, <2>6
    <2> HIDE DEF a, b
    <2>8. PICK p \in Peers : <<a, p>> \in tree /\ <<b, p>> \in tree
      BY <2>7, CommonPeer DEF IInv
    <2>9. Agree(a, b)
      BY <2>8 DEF IInv, Branches
    <2> QED BY <1>1, <1>2, <1>6, <2>1, <2>9 DEF Agree
  <1> QED BY <1>0, <1>5, <1>6

\* construct returns what most of the peers answered, however answers, timeouts and earlier
\* requests interleave, as long as no answer to an earlier request was counted.
THEOREM Majority == Spec => MajorityWins
  <1>1. ASSUME IInv, [Next]_vars
        PROVE  [MajorityStep]_vars
    <2> SUFFICES ASSUME Next, pc = "ask", pc' = "idle", ~late
                 PROVE  \A path \in {x[1] : x \in tree} :
                            2 * Weight(tree, path) > Cardinality({x[2] : x \in tree}) =>
                                Len(path) <= Len(list') /\ SubSeq(list', 1, Len(path)) = path
      BY <1>1 DEF MajorityStep
    <2>1. Return
      BY DEF Next, Ask, Construct, SendRequest, SendFails, MakePending, Answer, HandleRemove,
             HandleAdd, Timeout
    <2>2. list' \in BestBranches(tree)
      BY <2>1 DEF Return
    <2> QED BY <1>1, <2>2, BestIsMajority
  <1> QED BY <1>1, Invariance, PTL DEF Spec, MajorityWins
=============================================================================
