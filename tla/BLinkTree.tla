------------------------------ MODULE BLinkTree ------------------------------
(***************************************************************************)
(* The lock-based B-link-tree (BLinkTree/b_link_tree.h, b_link_node.h).    *)
(* A step is what a thread does between taking and giving up a latch; the  *)
(* latch itself is module SharedLatch, here only who holds it.  Readers of *)
(* inner nodes hold one latch and wait for nothing while they do, so that  *)
(* their latched section is one step.  root_ and upper_level_ are read     *)
(* without a latch of their own.  Nodes are numbered in order of           *)
(* allocation; the tree never deletes one.                                 *)
(***************************************************************************)
EXTENDS KeySeq

CONSTANTS Keys,                 \* positive integers
          leaf_split_at,        \* a leaf with this many keys is split:
          inner_split_at,       \*   node size times split threshold
          Threads,              \* positive integers
          Setups                \* trees and work for them: records [load, ops]

ASSUME BLinkTreeAssumption == /\ Keys \subseteq Nat \ {0} /\ Threads \subseteq Nat \ {0}
                              /\ leaf_split_at \in Nat \ {0, 1}
                              /\ inner_split_at \in Nat \ {0, 1}

Scans == {"ScanFixed", "ScanRange"}
Operations == ({"Insert", "Update", "Search"} \cup Scans) \X Keys \X Nat

ASSUME WorkAssumption ==
  \A s \in Setups : s.load \in Seq(Operations) /\ \A t \in Threads : s.ops[t] \in Seq(SUBSET Operations)

VARIABLES node,         \* the nodes
          latch,        \* who holds the latch of each node, and how
          root,         \* root_
          depth,        \* tree_depth_
          th,           \* the registers of each thread
          load,         \* operations left to run one by one to build the tree
          ops           \* then each thread runs this: a sequence of choices

vars == <<node, latch, root, depth, th, load, ops>>

nullptr == 0
NewNode(leaf) == [leaf |-> leaf, keys |-> <<>>,
                  kids |-> <<>>,      \* the children_ that mean something
                  sib |-> nullptr, upper |-> nullptr]
Free == [excl |-> nullptr, shared |-> {}]

Idle == [pc |-> "idle", op |-> "none", key |-> 0, arg |-> 0, cur |-> nullptr, work |-> nullptr,
         path |-> <<>>, new |-> nullptr, ret |-> FALSE,
         pairs |-> <<>>, stack |-> <<>>, done |-> 0]

Init == /\ node = <<NewNode(TRUE)>> /\ latch = <<Free>>
        /\ root = 1 /\ depth = 1
        /\ th = [t \in Threads |-> Idle]
        /\ \E s \in Setups : load = s.load /\ ops = s.ops

Loading == load # <<>>
Loader == Min(Threads)
At(t, l) == th[t].pc = l
Cur(t) == node[th[t].cur]
Work(t) == node[th[t].work]
Reg(t, r) == th' = [th EXCEPT ![t] = r]
Go(t, l) == Reg(t, [th[t] EXCEPT !.pc = l])
Writes(t) == th[t].op \in {"Insert", "Update"}

(* The latch of node n, seen from thread t. *)
CanShare(n) == latch[n].excl = nullptr
CanHold(n) == latch[n] = Free
Shared(t, n) == latch' = [latch EXCEPT ![n].shared = @ \cup {t}]
Exclusive(t, n) == latch' = [latch EXCEPT ![n].excl = t]
Unlatch(t, n) == latch' = [latch EXCEPT ![n].excl = nullptr, ![n].shared = @ \ {t}]

NodeScan(n, k) == Place(n.keys, k)
holds(n, k) == NodeScan(n, k) <= Len(n.keys) /\ n.keys[NodeScan(n, k)] = k

\* The node has been split and k is beyond it.
beyond(n, k) == n.sib # nullptr /\ Last(n.keys) < k
-----------------------------------------------------------------------------
(* LeafInsert and InnerInsert: the nodes after an entry has been added at i. *)

\* Mutant: the new right node forgets the level above.
NoUpper(n, keys, kids, id) ==
  LET cut == Len(n.keys) \div 2 + 1 IN
  <<[n EXCEPT !.keys = SubSeq(keys, 1, cut), !.kids = SubSeq(kids, 1, Min({cut, Len(kids)})), !.sib = id],
    [n EXCEPT !.keys = SubSeq(keys, cut + 1, Len(keys)), !.kids = SubSeq(kids, cut + 1, Len(kids)),
              !.upper = nullptr]>>

\* Both branches of either function leave the same halves: cut entries stay.
split(n, keys, kids, id) ==
  LET cut == Len(n.keys) \div 2 + 1 IN
  <<[n EXCEPT !.keys = SubSeq(keys, 1, cut), !.kids = SubSeq(kids, 1, Min({cut, Len(kids)})), !.sib = id],
    [n EXCEPT !.keys = SubSeq(keys, cut + 1, Len(keys)), !.kids = SubSeq(kids, cut + 1, Len(kids))]>>

LeafInsert(n, k, id) ==
  LET keys == InsertAt(n.keys, NodeScan(n, k), k) IN
  IF Len(keys) < leaf_split_at THEN <<[n EXCEPT !.keys = keys]>> ELSE split(n, keys, <<>>, id)

\* Mutant: the new child goes to the left of its key.
LeftOfKey(n, left_key, left, right, id) ==
  LET i == NodeScan(n, left_key)
      keys == InsertAt(n.keys, i, left_key)
      kids == IF n.keys = <<>> THEN <<left, right>> ELSE InsertAt(n.kids, i, right)
  IN IF Len(keys) < inner_split_at THEN <<[n EXCEPT !.keys = keys, !.kids = kids]>>
     ELSE split(n, keys, kids, id)

InnerInsert(n, left_key, left, right, id) ==
  LET i == NodeScan(n, left_key)
      keys == InsertAt(n.keys, i, left_key)
      kids == IF n.keys = <<>> THEN <<left, right>> ELSE InsertAt(n.kids, i + 1, right)
  IN IF Len(keys) < inner_split_at THEN <<[n EXCEPT !.keys = keys, !.kids = kids]>>
     ELSE split(n, keys, kids, id)

\* Node n becomes s[1]; a new right node s[2] is allocated if there is one.
Store(n, s) == /\ node' = [node EXCEPT ![n] = s[1]] \o Tail(s)
               /\ latch' = latch \o [i \in 1 .. Len(s) - 1 |-> Free]
NewId == Len(node) + 1
-----------------------------------------------------------------------------
(* Descent: TraverseInner, and the first loop of Insert *)

NextOp(t) == IF Loading THEN {Head(load)}
             ELSE IF th[t].done < Len(ops[t]) THEN ops[t][th[t].done + 1] ELSE {}

\* A call.  root_ is read.
Begin(t) == /\ At(t, "idle") /\ (Loading => t = Loader)
            /\ \E o \in NextOp(t) :
                 Reg(t, [th[t] EXCEPT !.pc = "descend", !.op = o[1], !.key = o[2], !.arg = o[3],
                                      !.cur = root, !.done = IF Loading THEN 0 ELSE @ + 1])
            /\ load' = IF Loading THEN Tail(load) ELSE load
            /\ UNCHANGED <<node, latch, root, depth>>

\* One inner node, under its shared latch.  Only Insert looks for its key
\* there, and only Insert keeps the path.
Descend(t) ==
  /\ At(t, "descend") /\ ~ Cur(t).leaf /\ CanShare(th[t].cur)
  /\ LET n == Cur(t)  k == th[t].key IN
     Reg(t, IF beyond(n, k) THEN [th[t] EXCEPT !.cur = n.sib]
            ELSE IF th[t].op = "Insert" /\ holds(n, k) THEN [th[t] EXCEPT !.pc = "return"]
            ELSE [th[t] EXCEPT !.cur = n.kids[NodeScan(n, k)],
                               !.path = IF th[t].op = "Insert" THEN Append(@, th[t].cur) ELSE @])
  /\ UNCHANGED <<node, latch, root, depth, load>>

LatchLeaf(t) ==
  /\ At(t, "descend") /\ Cur(t).leaf
  /\ IF Writes(t) THEN CanHold(th[t].cur) /\ Exclusive(t, th[t].cur)
                  ELSE CanShare(th[t].cur) /\ Shared(t, th[t].cur)
  /\ Go(t, "leaf")
  /\ UNCHANGED <<node, root, depth, load>>

\* Update, Search and the scans give up a leaf before they latch its sibling.
MoveRight(t) ==
  /\ At(t, "leaf") /\ th[t].op # "Insert" /\ beyond(Cur(t), th[t].key)
  /\ Unlatch(t, th[t].cur)
  /\ Reg(t, [th[t] EXCEPT !.cur = Cur(t).sib, !.pc = "descend"])
  /\ UNCHANGED <<node, root, depth, load>>

\* Insert latches the sibling first.
LatchSibling(t) ==
  /\ At(t, "leaf") /\ th[t].op = "Insert" /\ beyond(Cur(t), th[t].key) /\ CanHold(Cur(t).sib)
  /\ Exclusive(t, Cur(t).sib)
  /\ Reg(t, [th[t] EXCEPT !.work = Cur(t).sib, !.pc = "unlatch_left"])
  /\ UNCHANGED <<node, root, depth, load>>

UnlatchLeft(t) ==
  /\ At(t, "unlatch_left")
  /\ Unlatch(t, th[t].cur)
  /\ Reg(t, [th[t] EXCEPT !.cur = th[t].work, !.pc = "leaf"])
  /\ UNCHANGED <<node, root, depth, load>>
-----------------------------------------------------------------------------
(* In the leaf *)

\* Search and Update end here.  Values are left out: Update changes no key.
FoundOrNot(t) ==
  /\ At(t, "leaf") /\ th[t].op \in {"Search", "Update"} /\ ~ beyond(Cur(t), th[t].key)
  /\ Unlatch(t, th[t].cur)
  /\ Reg(t, [th[t] EXCEPT !.ret = holds(Cur(t), th[t].key), !.pc = "return"])
  /\ UNCHANGED <<node, root, depth, load>>

\* Insert finds its key and gives up.
InsertRefused(t) ==
  /\ At(t, "leaf") /\ th[t].op = "Insert" /\ ~ beyond(Cur(t), th[t].key) /\ holds(Cur(t), th[t].key)
  /\ Unlatch(t, th[t].cur)
  /\ Go(t, "return")
  /\ UNCHANGED <<node, root, depth, load>>

InsertKey(t) ==
  /\ At(t, "leaf") /\ th[t].op = "Insert" /\ ~ beyond(Cur(t), th[t].key) /\ ~ holds(Cur(t), th[t].key)
  /\ LET s == LeafInsert(Cur(t), th[t].key, NewId) IN
     /\ Store(th[t].cur, s)
     /\ Reg(t, [th[t] EXCEPT !.work = th[t].cur, !.ret = TRUE,
                             !.new = IF Len(s) = 2 THEN NewId ELSE nullptr,
                             !.pc = IF Len(s) = 2 THEN "split" ELSE "unlatch"])
  /\ UNCHANGED <<root, depth, load>>
-----------------------------------------------------------------------------
(* After a split: the second loop of Insert.  cur is latched, new is its     *)
(* right half, work becomes the node above.                                  *)

left_max_key(t) == Last(Cur(t).keys)
right_max_key(t) == Last(node[th[t].new].keys)

\* A new root is linked from both halves; root_ still names the left one.
NewRoot(t) ==
  /\ At(t, "split") /\ th[t].cur = root
  /\ node' = Append([node EXCEPT ![th[t].cur].upper = NewId, ![th[t].new].upper = NewId], NewNode(FALSE))
  /\ latch' = Append(latch, Free)
  /\ depth' = depth + 1
  /\ Reg(t, [th[t] EXCEPT !.work = NewId, !.pc = "latch_upper"])
  /\ UNCHANGED <<root, load>>

PopPath(t) ==
  /\ At(t, "split") /\ th[t].cur # root /\ th[t].path # <<>>
  /\ Reg(t, [th[t] EXCEPT !.work = Last(th[t].path), !.path = Front(@), !.pc = "latch_upper"])
  /\ UNCHANGED <<node, latch, root, depth, load>>

\* The tree has grown above the path.
TrackUpper(t) ==
  /\ At(t, "split") /\ th[t].cur # root /\ th[t].path = <<>>
  /\ Reg(t, [th[t] EXCEPT !.work = Cur(t).upper, !.pc = "latch_upper"])
  /\ UNCHANGED <<node, latch, root, depth, load>>

LatchUpper(t) ==
  /\ At(t, "latch_upper") /\ CanHold(th[t].work)
  /\ Exclusive(t, th[t].work)
  /\ root' = IF th[t].cur = root THEN th[t].work ELSE root
  /\ Go(t, "find")
  /\ UNCHANGED <<node, depth, load>>

LatchUpperSibling(t) ==
  /\ At(t, "find") /\ beyond(Work(t), right_max_key(t)) /\ CanHold(Work(t).sib)
  /\ Exclusive(t, Work(t).sib)
  /\ Go(t, "unlatch_upper")
  /\ UNCHANGED <<node, root, depth, load>>

UnlatchUpper(t) ==
  /\ At(t, "unlatch_upper")
  /\ Unlatch(t, th[t].work)
  /\ Reg(t, [th[t] EXCEPT !.work = Work(t).sib, !.pc = "find"])
  /\ UNCHANGED <<node, root, depth, load>>

UnlatchChild(t) ==
  /\ At(t, "find") /\ ~ beyond(Work(t), right_max_key(t))
  /\ Unlatch(t, th[t].cur)
  \* left_max_key was read at the head of the loop; from now on others may
  \* change cur.
  /\ Reg(t, [th[t] EXCEPT !.arg = left_max_key(t), !.pc = "insert"])
  /\ UNCHANGED <<node, root, depth, load>>

InsertChild(t) ==
  /\ At(t, "insert")
  /\ LET s == InnerInsert(Work(t), th[t].arg, th[t].cur, th[t].new, NewId) IN
     /\ Store(th[t].work, s)
     /\ Reg(t, [th[t] EXCEPT !.cur = th[t].work,
                             !.new = IF Len(s) = 2 THEN NewId ELSE nullptr,
                             !.pc = IF Len(s) = 2 THEN "split" ELSE "unlatch"])
  /\ UNCHANGED <<root, depth, load>>

UnlatchLast(t) ==
  /\ At(t, "unlatch")
  /\ Unlatch(t, th[t].work)
  /\ Go(t, "return")
  /\ UNCHANGED <<node, root, depth, load>>
-----------------------------------------------------------------------------
(* ScanFixed (arg pairs from key on) and ScanRange (from key below arg): the *)
(* shared latch of every leaf on the way is kept to the end.                 *)

\* No key from key on: the leaf is the rightmost one.
ScanEmpty(t) ==
  /\ At(t, "leaf") /\ th[t].op \in Scans /\ ~ beyond(Cur(t), th[t].key)
  /\ NodeScan(Cur(t), th[t].key) > Len(Cur(t).keys)
  /\ Unlatch(t, th[t].cur)
  /\ Go(t, "return")
  /\ UNCHANGED <<node, root, depth, load>>

ScanStart(t) ==
  /\ At(t, "leaf") /\ th[t].op \in Scans /\ ~ beyond(Cur(t), th[t].key)
  /\ NodeScan(Cur(t), th[t].key) <= Len(Cur(t).keys)
  /\ Reg(t, [th[t] EXCEPT !.stack = <<th[t].cur>>, !.ret = TRUE, !.pc = "scan"])
  /\ UNCHANGED <<node, latch, root, depth, load>>

\* Where the scan starts in the leaf it stands on, where it stops there, and
\* what it has then.
start(t) == IF Len(th[t].stack) = 1 THEN NodeScan(Cur(t), th[t].key) ELSE 1
stop(t) == IF th[t].op = "ScanFixed"
           THEN Min({Len(Cur(t).keys), start(t) + th[t].arg - Len(th[t].pairs) - 1})
           ELSE NodeScan(Cur(t), th[t].arg) - 1
taken(t) == th[t].pairs \o SubSeq(Cur(t).keys, start(t), stop(t))
full(t) == IF th[t].op = "ScanFixed" THEN Len(taken(t)) = th[t].arg ELSE stop(t) < Len(Cur(t).keys)

\* Mutant: the leaf is given up before its sibling is latched.
GivesUpLeaf(t) ==
  /\ At(t, "scan") /\ ~ full(t) /\ Cur(t).sib # nullptr
  /\ Unlatch(t, th[t].cur)
  /\ Reg(t, [th[t] EXCEPT !.pairs = taken(t), !.cur = Cur(t).sib, !.stack = <<>>, !.pc = "scan_next"])
  /\ UNCHANGED <<node, root, depth, load>>

\* The leaf is used up: on to its sibling.
ScanLeaf(t) ==
  /\ At(t, "scan") /\ ~ full(t) /\ Cur(t).sib # nullptr
  /\ Reg(t, [th[t] EXCEPT !.pairs = taken(t), !.cur = Cur(t).sib, !.pc = "scan_next"])
  /\ UNCHANGED <<node, latch, root, depth, load>>

ScanNext(t) ==
  /\ At(t, "scan_next") /\ CanShare(th[t].cur)
  /\ Shared(t, th[t].cur)
  /\ Reg(t, [th[t] EXCEPT !.stack = Append(@, th[t].cur), !.pc = "scan"])
  /\ UNCHANGED <<node, root, depth, load>>

ScanEnd(t) ==
  /\ At(t, "scan") /\ (full(t) \/ Cur(t).sib = nullptr)
  /\ Reg(t, [th[t] EXCEPT !.pairs = taken(t), !.pc = "release"])
  /\ UNCHANGED <<node, latch, root, depth, load>>

\* The latches are given up from the last leaf back to the first.
Release(t) ==
  /\ At(t, "release")
  /\ Unlatch(t, Last(th[t].stack))
  /\ Reg(t, [th[t] EXCEPT !.stack = Front(@), !.pc = IF Len(th[t].stack) = 1 THEN "return" ELSE @])
  /\ UNCHANGED <<node, root, depth, load>>

Return(t) == /\ At(t, "return")
             /\ Reg(t, [Idle EXCEPT !.done = th[t].done])
             /\ UNCHANGED <<node, latch, root, depth, load>>
-----------------------------------------------------------------------------
Step(t) == \/ Begin(t) \/ Descend(t) \/ LatchLeaf(t) \/ MoveRight(t) \/ LatchSibling(t) \/ UnlatchLeft(t)
           \/ FoundOrNot(t) \/ InsertRefused(t) \/ InsertKey(t)
           \/ NewRoot(t) \/ PopPath(t) \/ TrackUpper(t) \/ LatchUpper(t) \/ LatchUpperSibling(t)
           \/ UnlatchUpper(t) \/ UnlatchChild(t) \/ InsertChild(t) \/ UnlatchLast(t)
           \/ ScanEmpty(t) \/ ScanStart(t) \/ ScanLeaf(t) \/ ScanNext(t) \/ ScanEnd(t)
           \/ Release(t) \/ Return(t)

\* Every thread has run its operations.
Quiet == ~ Loading /\ \A t \in Threads : At(t, "idle") /\ th[t].done = Len(ops[t])
Finish == Quiet /\ UNCHANGED <<node, latch, root, depth, th, load>>

Next == ((\E t \in Threads : Step(t)) \/ Finish) /\ UNCHANGED ops

Spec == Init /\ [][Next]_vars
-----------------------------------------------------------------------------
(* Properties *)

NodeIds == DOMAIN node
InOrder(s) == \A i \in 2 .. Len(s) : s[i - 1] < s[i]
content == UNION {ToSet(node[n].keys) : n \in {m \in NodeIds : node[m].leaf}}

\* Links name nodes, the kids of an inner node go with its keys, and a latch
\* is held by one writer or by readers.
TypeOK ==
  /\ \A n \in NodeIds : /\ ToSet(node[n].keys) \subseteq Keys /\ ToSet(node[n].kids) \subseteq NodeIds
                        /\ {node[n].sib, node[n].upper} \subseteq NodeIds \cup {nullptr}
                        /\ ~ node[n].leaf /\ node[n].keys # <<>> =>
                             Len(node[n].kids) = Len(node[n].keys) + (IF node[n].sib = nullptr THEN 1 ELSE 0)
                        /\ latch[n].excl \in Threads \cup {nullptr} /\ latch[n].shared \subseteq Threads
                        /\ latch[n].excl # nullptr => latch[n].shared = {}
  /\ root \in NodeIds /\ depth \in Nat \ {0}

\* The levels from a node down to its leaves; a new root has no kids yet.
Height(n) == LET h[m \in NodeIds] == IF node[m].leaf THEN 1 ELSE 1 + h[node[m].kids[1]] IN h[n]

\* A split finds its parent, by the path of a thread that started below an
\* older root or by upper_level (assert(work != nullptr)): one level up, at or
\* left of the node that has the entry of the split node, and InnerInsert then
\* puts the new node directly behind it.
SplitFindsItsParent ==
  \A t \in Threads :
    /\ At(t, "latch_upper") =>
         /\ th[t].work # nullptr
         /\ Work(t).keys # <<>> => Height(th[t].work) = Height(th[t].cur) + 1
    /\ At(t, "insert") =>
         LET i == NodeScan(Work(t), th[t].arg) IN
         /\ i <= Len(Work(t).keys) \/ Work(t).sib = nullptr
         /\ Work(t).keys # <<>> => Work(t).kids[i] = th[t].cur /\ ~ holds(Work(t), th[t].arg)

\* With all latches of its leaves still held, a scan has exactly the keys that
\* are in the tree at this moment: ScanFixed the arg smallest from key on,
\* ScanRange those from key on and below arg.
ScanIsSnapshot ==
  \A t \in Threads : At(t, "release") /\ Last(th[t].stack) = th[t].cur =>
    LET from == {k \in content : k >= th[t].key} IN
    /\ InOrder(th[t].pairs)
    /\ ToSet(th[t].pairs) =
         IF th[t].op = "ScanRange" THEN {k \in from : k < th[t].arg}
         ELSE {k \in from : Cardinality({j \in from : j < k}) < th[t].arg}

\* SearchUnsafe: down from the root without a look at siblings.
Down(k) == LET w[i \in 1 .. depth] ==
                 IF i = 1 THEN root ELSE node[w[i - 1]].kids[NodeScan(node[w[i - 1]], k)]
           IN w
\* The nodes of a level from its leftmost node n on, and the leftmost nodes.
Level(n) == LET l[i \in NodeIds] == IF i = 1 THEN n
                                    ELSE IF l[i - 1] = nullptr THEN nullptr ELSE node[l[i - 1]].sib
            IN SelectSeq(l, LAMBDA m : m # nullptr)
Leftmost(d) == LET l[i \in 1 .. depth] == IF i = 1 THEN root ELSE node[l[i - 1]].kids[1] IN l[d]

\* With no operation under way the tree is whole: SearchUnsafe meets no node
\* it would have to leave for a sibling ("never happen") and finds exactly the
\* keys there are, ScanLeaf meets them in order, tree_depth_ is right, and
\* the destructor's walk from level to level meets every node.
QuietTreeIsWhole ==
  (\A t \in Threads : At(t, "idle")) =>
    /\ \A k \in Keys : LET w == Down(k) IN
         /\ \A i \in 1 .. depth : ~ beyond(node[w[i]], k) /\ node[w[i]].leaf = (i = depth)
         /\ holds(node[w[depth]], k) = (k \in content)
    /\ \A i \in DOMAIN Level(1) :
         /\ InOrder(node[Level(1)[i]].keys)
         /\ \A j \in 1 .. i - 1 :
              \A a \in ToSet(node[Level(1)[j]].keys), b \in ToSet(node[Level(1)[i]].keys) : a < b
    /\ UNION {ToSet(Level(Leftmost(d))) : d \in 1 .. depth} = NodeIds

\* The tree is a map: Insert takes effect, or finds its key in an inner node or
\* the leaf, in one step, Search and Update are answered in one step under the
\* latch of the leaf, and splits add and lose nothing.
call == [t \in Threads |->
          LET done == th[t].pc \notin {"idle", "descend", "leaf", "unlatch_left"} IN
          IF th[t].op \in Scans \cup {"none"} THEN [op |-> "none", key |-> 0, done |-> FALSE, ret |-> FALSE]
          ELSE [op |-> IF th[t].op = "Insert" THEN "upsert" ELSE "lookup", key |-> th[t].key,
                done |-> done, ret |-> done /\ (th[t].ret # (th[t].op = "Insert"))]]
Map == INSTANCE KVMap WITH content <- content, call <- call
IsMap == Map!Spec
=============================================================================
