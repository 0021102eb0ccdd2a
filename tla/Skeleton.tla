------------------------------ MODULE Skeleton ------------------------------
(***************************************************************************)
(* The skeleton of a synchronisation (net/skeleton.go): construct asks the *)
(* reliable peers for the hashes of the chain, every hundred blocks, waits *)
(* until each has answered, failed or timed out, and follows the answers   *)
(* of most of them.                                                        *)
(*                                                                         *)
(* construct runs in the goroutine of the syncer, an answer is handled in  *)
(* the goroutine of its peer, a timeout in one of its own.  An answer may  *)
(* come before its request is pending, after its timeout, or while the     *)
(* next skeleton is constructed.                                           *)
(***************************************************************************)
EXTENDS Integers, Sequences, FiniteSets

CONSTANTS
    Peers,
    Hashes,     \* of snapshot blocks
    Lists,      \* of every peer the lists of hashes that it may answer; <<>> cannot be decoded
    Black,      \* the hashes of blackBlocks
    MaxMsgs     \* bound: requests sent

ASSUME SkeletonAssumption == IsFiniteSet(Peers) /\ Lists \in [Peers -> SUBSET Seq(Hashes)]

VARIABLES
    msgId,      \* of idGen
    first,      \* msgId when construct was called
    checking, wg,
    pending,    \* requests: the id and the peer
    tree,       \* the nodes: the path of each, and a peer that gave it
    reliable,   \* the peers that pickReliable may choose
    pc, todo,   \* where construct is, and the peers it has still to ask
    cur,        \* the request it has just sent
    sent,       \* requests not yet answered
    handlers,   \* answers being handled: the request, the list, and the next step
    list,       \* what construct returned
    late        \* not in the code: an answer to an earlier request is in the tree

vars == <<msgId, first, checking, wg, pending, tree, reliable, pc, todo, cur, sent, handlers, list, late>>

NoRequest == <<0, "none">>

Init ==
    /\ msgId = 0 /\ first = 0 /\ checking = FALSE /\ wg = 0
    /\ pending = {} /\ tree = {} /\ reliable = Peers
    /\ pc = "idle" /\ todo = {} /\ cur = NoRequest
    /\ sent = {} /\ handlers = {}
    /\ list = <<>> /\ late = FALSE
----------------------------------------------------------------------------
(* hashHeightNode *)

AddBranch(t, l, p) == t \cup {<<SubSeq(l, 1, n), p>> : n \in 1 .. Len(l)}

Weight(t, path) == Cardinality({p \in Peers : <<path, p>> \in t})
Children(t, path) == {x[1] : x \in {y \in t : Len(y[1]) = Len(path) + 1 /\ SubSeq(y[1], 1, Len(path)) = path}}

\* Mutant: the last child is taken.
HeaviestAny(t, path) == Children(t, path)

Heaviest(t, path) ==
    {c \in Children(t, path) : \A d \in Children(t, path) : Weight(t, d) <= Weight(t, c)}

\* bestBranch: at every node on to a child with the most peers, down to a leaf.
BestBranches(t) ==
    {l \in {x[1] : x \in t} \cup {<<>>} :
        /\ Children(t, l) = {}
        /\ \A n \in 1 .. Len(l) : SubSeq(l, 1, n) \in Heaviest(t, SubSeq(l, 1, n - 1))}
----------------------------------------------------------------------------
(* construct *)

\* getHashHeightList: reset, and construct up to the choice of peers.
Construct ==
    /\ pc = "idle"
    /\ first' = msgId
    /\ pending' = {} /\ wg' = wg - Cardinality(pending)
    /\ checking' = TRUE /\ tree' = {} /\ late' = FALSE
    /\ todo' \in {ps \in SUBSET reliable : msgId + Cardinality(ps) <= MaxMsgs}
    /\ pc' = "ask"
    /\ list' = <<>>
    /\ UNCHANGED <<msgId, reliable, cur, sent, handlers>>

\* The peers are interchangeable: the order in which they are asked is fixed.
NextPeer == {p \in todo : p = CHOOSE q \in todo : TRUE}

\* The next peer: wg.Add, then the send.
SendRequest(p) ==
    /\ pc = "ask"
    /\ todo' = todo \ {p}
    /\ wg' = wg + 1
    /\ msgId' = msgId + 1
    /\ cur' = <<msgId', p>>
    /\ sent' = sent \cup {cur'}
    /\ pc' = "sent"
    /\ UNCHANGED <<first, checking, pending, tree, reliable, handlers, list, late>>

\* The send fails: wg.Add and wg.Done.
SendFails(p) ==
    /\ pc = "ask"
    /\ todo' = todo \ {p}
    /\ UNCHANGED <<msgId, first, checking, wg, pending, tree, reliable, pc, cur, sent, handlers, list, late>>

\* After the send the request is made pending, and its timer is started, which runs at least as
\* long as the request is pending.
MakePending ==
    /\ pc = "sent"
    /\ pending' = pending \cup {cur}
    /\ pc' = "ask" /\ cur' = NoRequest
    /\ UNCHANGED <<msgId, first, checking, wg, tree, reliable, todo, sent, handlers, list, late>>

\* wg.Wait, and the best branch.
Return ==
    /\ pc = "ask" /\ todo = {} /\ wg = 0
    /\ list' \in BestBranches(tree)
    /\ checking' = FALSE
    /\ pc' = "idle"
    /\ UNCHANGED <<msgId, first, wg, pending, tree, reliable, todo, cur, sent, handlers, late>>
----------------------------------------------------------------------------
(* Answers and timeouts *)

\* Mutant: wg.Done for a request that is no longer pending, too.
RemovePendingAlways(mid) == pending' = pending \ {mid} /\ wg' = wg - 1

RemovePending(mid) ==
    /\ pending' = pending \ {mid}
    /\ wg' = IF mid \in pending THEN wg - 1 ELSE wg

\* receiveHashList ignores an answer while nothing is constructed.
Answer(mid, l) ==
    /\ mid \in sent
    /\ sent' = sent \ {mid}
    /\ handlers' = IF checking THEN handlers \cup {[mid |-> mid, list |-> l, step |-> "remove"]} ELSE handlers
    /\ UNCHANGED <<msgId, first, checking, wg, pending, tree, reliable, pc, todo, cur, list, late>>

\* Otherwise the request is removed; an answer with a black block makes its peer unreliable.
HandleRemove(h) ==
    LET black == \E i \in DOMAIN h.list : h.list[i] \in Black
    IN  /\ h.step = "remove"
        /\ RemovePending(h.mid)
        /\ reliable' = IF black THEN reliable \ {h.mid[2]} ELSE reliable
        /\ handlers' = (handlers \ {h}) \cup (IF black \/ h.list = <<>> THEN {} ELSE {[h EXCEPT !.step = "add"]})
        /\ UNCHANGED <<msgId, first, checking, tree, pc, todo, cur, sent, list, late>>

\* Then the list is added to the tree, whichever tree it is by then.
HandleAdd(h) ==
    /\ h.step = "add"
    /\ tree' = AddBranch(tree, h.list, h.mid[2])
    /\ late' = (late \/ h.mid[1] <= first)
    /\ handlers' = handlers \ {h}
    /\ UNCHANGED <<msgId, first, checking, wg, pending, reliable, pc, todo, cur, sent, list>>

\* Mutant: the timer does nothing.
TimeoutNot(mid) == mid \in pending /\ UNCHANGED vars

\* getHashListFailed, by the timer of the request; when it is no longer pending, nothing happens.
Timeout(mid) ==
    /\ mid \in pending
    /\ RemovePending(mid)
    /\ UNCHANGED <<msgId, first, checking, tree, reliable, pc, todo, cur, sent, handlers, list, late>>
----------------------------------------------------------------------------
\* The goroutine of construct, once it is called.
Ask == MakePending \/ Return \/ \E p \in NextPeer : SendRequest(p) \/ SendFails(p)

Next ==
    \/ Construct \/ Ask
    \/ \E mid \in sent : \E l \in Lists[mid[2]] : Answer(mid, l)
    \/ \E h \in handlers : HandleRemove(h) \/ HandleAdd(h)
    \/ \E mid \in pending : Timeout(mid)

\* construct goes on and timers fire; no peer need answer.
Fairness == WF_vars(Ask) /\ WF_vars(\E mid \in pending : Timeout(mid))

Spec == Init /\ [][Next]_vars /\ Fairness
----------------------------------------------------------------------------
(* Properties *)

\* The wait group counts exactly the requests that are pending, and the one between wg.Add and
\* pending: whatever answer, timeout and reset come first for a request, wg.Done is called once.
WaitGroupExact == wg = Cardinality(pending) + (IF pc = "sent" THEN 1 ELSE 0)

\* construct returns, even if no peer ever answers.
ConstructReturns == (pc = "ask") ~> (pc = "idle")

\* When most of the peers in the tree agree on a list, construct returns it, or a continuation of
\* it; unless an answer to an earlier request was counted.
MajorityStep ==
    pc = "ask" /\ pc' = "idle" /\ ~late =>
         \A path \in {x[1] : x \in tree} :
             2 * Weight(tree, path) > Cardinality({x[2] : x \in tree}) =>
                 Len(path) <= Len(list') /\ SubSeq(list', 1, Len(path)) = path
MajorityWins == [][MajorityStep]_vars
=============================================================================
