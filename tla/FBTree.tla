------------------------------- MODULE FBTree -------------------------------
(***************************************************************************)
(* FB+-tree as a whole (FBTree/fbtree.h): descent, climbing with the path  *)
(* stack, splits and merges of inner nodes (FBTree/inode.h), and a root    *)
(* that grows and shrinks.  A step is what a thread does to a node while   *)
(* it holds the latch, or one validated read of a node: readers wait for   *)
(* the latch and compare versions, so they see no node in between (module  *)
(* LeafTree looks inside the leaves).  Nodes are numbered in order of      *)
(* allocation; none is reclaimed while a thread works (module Epoch).      *)
(***************************************************************************)
EXTENDS Integers, Sequences, SequencesExt, FiniteSetsExt

CONSTANTS Keys,                        \* positive integers
          kLeafSize, kLeafMergeSize,   \* LeafNode::kNodeSize, kMergeSize
          kInnerSize, kInnerMergeSize, \* InnerNode::kNodeSize, kMergeSize
          Threads,                     \* positive integers
          Setups                       \* trees and work for them: records [load, ops]

ASSUME FBTreeAssumption == /\ Keys \subseteq Nat \ {0}
                           /\ kLeafSize \in Nat \ {0} /\ kLeafSize % 2 = 0
                           /\ kInnerSize \in Nat \ {0} /\ kInnerSize % 2 = 0
                           /\ Threads \subseteq Nat \ {0}

VARIABLES node,         \* the nodes
          root,         \* root_
          depth,        \* tree_depth_
          track,        \* root_track_, by level from 1
          th,           \* the registers of each thread
          load,         \* operations left to run one by one to build the tree
          ops           \* then each thread runs this: a sequence of choices

vars == <<node, root, depth, track, th, load, ops>>
tree == <<root, depth, track>>

nullptr == 0
NewNode == [leaf |-> FALSE, lock |-> FALSE, sib |-> FALSE, del |-> FALSE,
            keys |-> <<>>,      \* anchors, or the keys of a leaf in order
            kids |-> <<>>,      \* children_
            next |-> nullptr,   \* next_ or sibling_
            high |-> 0]         \* high_key_ of a leaf
NewLeaf == [NewNode EXCEPT !.leaf = TRUE]

Idle == [pc |-> "idle", op |-> "none", key |-> 0, cur |-> nullptr, work |-> nullptr,
         next |-> nullptr, path |-> <<>>, rootid |-> 1, right |-> nullptr, mid |-> 0,
         up |-> FALSE, ret |-> FALSE, done |-> 0]

Init == /\ node = <<NewLeaf>>
        /\ root = 1 /\ depth = 1 /\ track = <<1>>
        /\ th = [t \in Threads |-> Idle]
        /\ \E s \in Setups : load = s.load /\ ops = s.ops

Loading == load # <<>>
Loader == Min(Threads)
At(t, l) == th[t].pc = l
Cur(t) == node[th[t].cur]
Work(t) == node[th[t].work]
Reg(t, r) == th' = [th EXCEPT ![t] = r]
Go(t, l) == Reg(t, [th[t] EXCEPT !.pc = l])
Latch(n) == node' = [node EXCEPT ![n].lock = TRUE]
Unlatch(n) == node' = [node EXCEPT ![n].lock = FALSE]
knum(n) == Len(n.keys)

\* The position of the first anchor not below k; knum + 1 if there is none.
index(keys, k) == 1 + Len(SelectSeq(keys, LAMBDA a : a < k))

\* to_next: a child, the sibling, or the left node if this one is deleted.
moves(n, k) == n.del \/ (index(n.keys, k) = knum(n) + 1 /\ n.sib)
to_next(n, k) ==
  IF n.del \/ index(n.keys, k) = knum(n) + 1 THEN n.next ELSE n.kids[index(n.keys, k)]

\* Mutant: a reader stays in a deleted leaf.
StaysInDeleted(n, k) == n.sib /\ n.high < k

\* Mutant: a split parent is not left for its sibling.
StaysHere(n, k) == n.del

\* LeafNode::to_sibling, and index_or_sibling of an inner node.
to_sibling(n, k) == n.del \/ (n.sib /\ n.high < k)
index_or_sibling(n, k) == n.del \/ (n.sib /\ knum(n) > 0 /\ index(n.keys, k) = knum(n) + 1)
-----------------------------------------------------------------------------
(* Nodes that change.  Each gives the nodes after it. *)

\* The flag of a new right node r of l; was: l had a sibling before.
SetSibling(l, r, was) == IF was THEN [l |-> l, r |-> [r EXCEPT !.sib = TRUE]]
                                ELSE [l |-> [l EXCEPT !.sib = TRUE], r |-> r]

\* LeafNode::upsert into a full leaf.
leaf_split(n, id, k) ==
  LET append == ~ n.sib /\ k > Last(n.keys)
      cut == IF append THEN kLeafSize ELSE kLeafSize \div 2
      high == n.keys[cut]
      low == SubSeq(n.keys, 1, cut)
      upp == SubSeq(n.keys, cut + 1, kLeafSize)
      put(s) == InsertAt(s, index(s, k), k)
      l == [n EXCEPT !.keys = IF k > high THEN low ELSE put(low), !.high = high, !.next = id]
      r == [NewLeaf EXCEPT !.keys = IF k > high THEN put(upp) ELSE upp, !.high = n.high, !.next = n.next]
  IN SetSibling(l, r, n.sib)

\* Mutant: the new child goes left of the one that was split.
ChildBefore(n, lchild, rchild, mid) ==
  LET i == index(n.keys, mid) IN
  IF i = knum(n) + 1
  THEN [n EXCEPT !.keys = Append(@, mid), !.kids = Append(@, lchild), !.next = rchild]
  ELSE [n EXCEPT !.keys = InsertAt(@, i, mid), !.kids = InsertAt(@, i, rchild)]

\* InnerNode::insert into a node with room: rchild goes right of lchild.
insert(n, lchild, rchild, mid) ==
  LET i == index(n.keys, mid) IN
  IF i = knum(n) + 1
  THEN [n EXCEPT !.keys = Append(@, mid), !.kids = Append(@, lchild), !.next = rchild]
  ELSE [n EXCEPT !.keys = InsertAt(@, i, mid), !.kids = InsertAt(@, i + 1, rchild)]

\* InnerNode::split of a full node: behind all anchors of the rightmost node
\* the new node gets only mid, otherwise half of the anchors.
inner_split(n, id, lchild, rchild, mid) ==
  LET i == index(n.keys, mid)
      last == i = kInnerSize + 1
      half == kInnerSize \div 2
      all == insert(n, lchild, rchild, mid)
      cut == IF last THEN kInnerSize ELSE IF i <= half THEN half + 1 ELSE half
      l == [n EXCEPT !.keys = SubSeq(all.keys, 1, cut), !.kids = SubSeq(all.kids, 1, cut), !.next = id]
      r == [NewNode EXCEPT !.keys = SubSeq(all.keys, cut + 1, kInnerSize + 1),
                           !.kids = SubSeq(all.kids, cut + 1, kInnerSize + 1), !.next = all.next]
  IN SetSibling(l, r, n.sib)

\* The right node r of n is emptied into n: l is n afterwards but for its links.
Absorb(l, n, r) == [l |-> [l EXCEPT !.next = r.next, !.sib = r.sib],
                    r |-> [r EXCEPT !.keys = <<>>, !.kids = <<>>, !.next = n, !.del = TRUE]]

\* LeafNode::merge and InnerNode::merge: when, and what.
leaf_merges(l, r) == knum(l) + knum(r) <= kLeafMergeSize \/ knum(l) = 0
leaf_merge(l, n, r) == Absorb([l EXCEPT !.keys = @ \o r.keys, !.high = r.high], n, r)
inner_merges(l, r) == knum(l) + knum(r) <= kInnerMergeSize \/ knum(r) = 0
inner_merge(l, n, r) == Absorb([l EXCEPT !.keys = @ \o r.keys, !.kids = @ \o r.kids], n, r)

\* InnerNode::remove of an anchor that is not the last one.
key_remove(n, i) == [n EXCEPT !.keys = RemoveAt(@, i), !.kids = RemoveAt(@, i + 1)]

\* bound_remove: the last anchor of the rightmost node, ...
last_remove(n) == [n EXCEPT !.keys = Front(@), !.kids = Front(@), !.next = Last(n.kids)]

\* ... of a node that swallows its right node, ...
bound_merges(l, r) == knum(l) - 1 + knum(r) <= kInnerMergeSize \/ knum(l) = 1 \/ knum(r) <= 1
bound_merge(l, n, r) ==
  IF knum(r) = 0
  THEN LET a == Absorb(last_remove(l), n, r) IN [a EXCEPT !.l.next = Last(l.kids)]
  ELSE Absorb([l EXCEPT !.keys = Front(@) \o r.keys, !.kids = @ \o Tail(r.kids)], n, r)

\* ... or of one that gives its last child to its right node.
bound_move(l, r) == [l |-> [l EXCEPT !.keys = Front(@), !.kids = Front(@)],
                     r |-> [r EXCEPT !.kids[1] = Last(l.kids)]]
-----------------------------------------------------------------------------
(* Descent (the first halves of upsert, remove and lookup) *)

NextOp(t) == IF Loading THEN {Head(load)}
              ELSE IF th[t].done < Len(ops[t]) THEN ops[t][th[t].done + 1] ELSE {}
MayBegin(t) == IF Loading THEN t = Loader ELSE At(Loader, "idle") \/ th[Loader].done > 0

Begin(t) == /\ At(t, "idle") /\ MayBegin(t)
            /\ \E o \in NextOp(t) :
                 Reg(t, [Idle EXCEPT !.pc = "descend", !.op = o[1], !.key = o[2], !.mid = o[2], !.cur = root,
                                     !.done = IF Loading THEN 0 ELSE th[t].done + 1])
            /\ load' = IF Loading THEN Tail(load) ELSE load
            /\ UNCHANGED <<node, tree>>

\* One hop: to_next waits for the latch and repeats until the version held.
Descend(t) == /\ At(t, "descend") /\ ~ Cur(t).leaf /\ ~ Cur(t).lock
              /\ Reg(t, [th[t] EXCEPT !.cur = to_next(Cur(t), th[t].mid),
                                      !.path = IF th[t].op = "lookup" \/ moves(Cur(t), th[t].mid)
                                               THEN @ ELSE Append(@, th[t].cur)])
              /\ UNCHANGED <<node, tree, load>>

\* Mutant: lookup does not go on to the sibling.
StaysInLeaf(t) == /\ At(t, "descend") /\ th[t].op = "lookup" /\ Cur(t).leaf /\ ~ Cur(t).lock
                  /\ Reg(t, [th[t] EXCEPT !.ret = Contains(Cur(t).keys, th[t].key), !.pc = "return"])
                  /\ UNCHANGED <<node, tree, load>>

\* lookup in a leaf, or on to its sibling.
ReadLeaf(t) == /\ At(t, "descend") /\ th[t].op = "lookup" /\ Cur(t).leaf /\ ~ Cur(t).lock
               /\ Reg(t, IF to_sibling(Cur(t), th[t].key)
                         THEN [th[t] EXCEPT !.cur = Cur(t).next]
                         ELSE [th[t] EXCEPT !.ret = Contains(Cur(t).keys, th[t].key), !.pc = "return"])
               /\ UNCHANGED <<node, tree, load>>

LatchLeaf(t) == /\ At(t, "descend") /\ th[t].op # "lookup" /\ Cur(t).leaf /\ ~ Cur(t).lock
                /\ Latch(th[t].cur) /\ Go(t, "leaf")
                /\ UNCHANGED <<tree, load>>

LatchSibling(t) == /\ At(t, "leaf") /\ to_sibling(Cur(t), th[t].key)
                   /\ ~ node[Cur(t).next].lock
                   /\ Latch(Cur(t).next)
                   /\ Reg(t, [th[t] EXCEPT !.work = Cur(t).next, !.pc = "left"])
                   /\ UNCHANGED <<tree, load>>

UnlatchLeft(t) == /\ At(t, "left")
                  /\ Unlatch(th[t].cur)
                  /\ Reg(t, [th[t] EXCEPT !.cur = th[t].work, !.work = nullptr, !.pc = "leaf"])
                  /\ UNCHANGED <<tree, load>>
-----------------------------------------------------------------------------
(* The leaf *)

AtLeaf(t, op) == At(t, "leaf") /\ th[t].op = op /\ ~ to_sibling(Cur(t), th[t].key)

\* LeafNode::upsert: exchange, insert or split.
UpsertKey(t) ==
  /\ AtLeaf(t, "upsert")
  /\ LET n == Cur(t)  k == th[t].key  id == Len(node) + 1  s == leaf_split(n, id, k) IN
     \/ /\ Contains(n.keys, k)
        /\ Reg(t, [th[t] EXCEPT !.ret = TRUE, !.pc = "unlatch"]) /\ UNCHANGED node
     \/ /\ ~ Contains(n.keys, k) /\ knum(n) < kLeafSize
        /\ node' = [node EXCEPT ![th[t].cur].keys = InsertAt(@, index(@, k), k)]
        /\ Go(t, "unlatch")
     \/ /\ ~ Contains(n.keys, k) /\ knum(n) = kLeafSize
        /\ node' = Append([node EXCEPT ![th[t].cur] = s.l], s.r)
        /\ Reg(t, [th[t] EXCEPT !.right = id, !.mid = s.l.high, !.pc = "climb"])
  /\ UNCHANGED <<tree, load>>

\* LeafNode::remove, with the test of merge that reads the sibling unlatched.
RemoveKey(t) ==
  /\ AtLeaf(t, "remove")
  /\ LET n == Cur(t)
         l == [n EXCEPT !.keys = SelectSeq(@, LAMBDA k : k # th[t].key)]
     IN /\ node' = [node EXCEPT ![th[t].cur] = l]
        /\ Reg(t, [th[t] EXCEPT !.ret = l # n,
                                !.pc = IF l # n /\ n.sib /\ leaf_merges(l, node[n.next])
                                       THEN "merge" ELSE "unlatch"])
  /\ UNCHANGED <<tree, load>>

\* What is left of merge once the right node is latched: test again and move.
\* The right node is unlatched before anyone else can see it.
MergeLeaf(t) ==
  /\ At(t, "merge") /\ ~ node[Cur(t).next].lock
  /\ LET r == Cur(t).next  m == leaf_merge(Cur(t), th[t].cur, node[r]) IN
     \/ /\ leaf_merges(Cur(t), node[r])
        /\ node' = [node EXCEPT ![th[t].cur] = m.l, ![r] = m.r]
        /\ Reg(t, [th[t] EXCEPT !.right = r, !.mid = Cur(t).high, !.pc = "climb"])
     \/ ~ leaf_merges(Cur(t), node[r]) /\ Go(t, "unlatch") /\ UNCHANGED node
  /\ UNCHANGED <<tree, load>>
-----------------------------------------------------------------------------
(* Climbing (the loops of upsert and remove) *)

\* path_stack.pop_back(), and a mutant that forgets it.
NotPopped(path) == path
pop_back(path) == Front(path)

\* The node one level up: a new root, the path taken down, or root_track_.
Climb(t) ==
  /\ At(t, "climb")
  /\ LET grow == th[t].op = "upsert" /\ th[t].cur = root
         up == th[t].rootid + 1
         known == IF up <= Len(track) THEN track[up] ELSE nullptr
     IN \/ /\ grow
           /\ node' = Append(node, NewNode)
           /\ Reg(t, [th[t] EXCEPT !.rootid = up, !.work = Len(node) + 1, !.pc = "latch"])
        \/ /\ ~ grow /\ th[t].path # <<>>
           /\ Reg(t, [th[t] EXCEPT !.rootid = up, !.work = Last(th[t].path), !.path = pop_back(@), !.pc = "latch"])
           /\ UNCHANGED node
        \/ /\ ~ grow /\ th[t].path = <<>>
           /\ Reg(t, [th[t] EXCEPT !.rootid = up, !.work = known, !.pc = "latch"])
           /\ UNCHANGED node
  /\ UNCHANGED <<tree, load>>

\* Mutant: the new root is announced before it is latched.
AnnouncedEarly(t) ==
  /\ At(t, "latch") /\ ~ Work(t).lock
  /\ Go(t, "find")
  /\ IF th[t].op = "upsert" /\ th[t].cur = root
     THEN /\ root' = th[t].work /\ depth' = depth + 1 /\ track' = Append(track, th[t].work)
          /\ UNCHANGED node
     ELSE Latch(th[t].work) /\ UNCHANGED tree
  /\ UNCHANGED load

\* A new root is announced only when it is latched.
LatchWork(t) ==
  /\ At(t, "latch") /\ ~ Work(t).lock
  /\ Latch(th[t].work) /\ Go(t, "find")
  /\ IF th[t].op = "upsert" /\ th[t].cur = root
     THEN /\ root' = th[t].work /\ depth' = depth + 1
          /\ track' = IF th[t].rootid <= Len(track) THEN [track EXCEPT ![th[t].rootid] = th[t].work]
                                                    ELSE Append(track, th[t].work)
     ELSE UNCHANGED tree
  /\ UNCHANGED load

LatchNext(t) == /\ At(t, "find") /\ index_or_sibling(Work(t), th[t].mid)
                /\ ~ node[Work(t).next].lock
                /\ Latch(Work(t).next)
                /\ Reg(t, [th[t] EXCEPT !.next = Work(t).next, !.pc = "leave"])
                /\ UNCHANGED <<tree, load>>

UnlatchWork(t) == /\ At(t, "leave")
                  /\ Unlatch(th[t].work)
                  /\ Reg(t, [th[t] EXCEPT !.work = th[t].next, !.next = nullptr, !.pc = "find"])
                  /\ UNCHANGED <<tree, load>>

\* The child is let go when its parent is held; remove keeps it at the root.
UnlatchChild(t) == /\ At(t, "find") /\ ~ index_or_sibling(Work(t), th[t].mid)
                   /\ IF th[t].op = "upsert" \/ th[t].work # root THEN Unlatch(th[t].cur) ELSE UNCHANGED node
                   /\ Go(t, IF th[t].op = "upsert" THEN "insert" ELSE "post")
                   /\ UNCHANGED <<tree, load>>

Insert(t) ==
  /\ At(t, "insert")
  /\ LET n == Work(t)  w == th[t].work  id == Len(node) + 1
         s == inner_split(n, id, th[t].cur, th[t].right, th[t].mid)
     IN \/ /\ knum(n) < kInnerSize
           /\ node' = [node EXCEPT ![w] = insert(n, th[t].cur, th[t].right, th[t].mid)]
           /\ Reg(t, [th[t] EXCEPT !.cur = w, !.right = nullptr, !.pc = "unlatch"])
        \/ /\ knum(n) = kInnerSize
           /\ node' = Append([node EXCEPT ![w] = s.l], s.r)
           /\ Reg(t, [th[t] EXCEPT !.cur = w, !.right = id, !.mid = Last(s.l.keys), !.pc = "climb"])
  /\ UNCHANGED <<tree, load>>

\* InnerNode::remove, bound_remove included; merge follows if it has to wait.
RemoveAnchor(t) ==
  /\ At(t, "post") /\ th[t].right # nullptr
  /\ LET n == Work(t)  w == th[t].work  i == index(n.keys, th[t].mid)
         r == n.next   l == key_remove(n, i)
         m == bound_merge(n, w, node[r])  v == bound_move(n, node[r])
         Done(merged, mid, up) == Reg(t, [th[t] EXCEPT !.right = merged, !.mid = mid, !.up = up, !.pc = "posted"])
     IN \/ /\ i < knum(n)
           /\ node' = [node EXCEPT ![w] = l]
           /\ IF n.sib /\ inner_merges(l, node[r]) THEN Go(t, "inner_merge")
                                                   ELSE Done(nullptr, th[t].mid, FALSE)
        \/ /\ i = knum(n) /\ ~ n.sib
           /\ node' = [node EXCEPT ![w] = last_remove(n)]
           /\ Done(nullptr, th[t].mid, FALSE)
        \/ /\ i = knum(n) /\ n.sib /\ ~ node[r].lock /\ bound_merges(n, node[r])
           /\ node' = [node EXCEPT ![w] = m.l, ![r] = m.r]
           /\ Done(r, th[t].mid, FALSE)
        \/ /\ i = knum(n) /\ n.sib /\ ~ node[r].lock /\ ~ bound_merges(n, node[r])
           /\ node' = [node EXCEPT ![w] = v.l, ![r] = v.r]
           /\ Done(nullptr, Last(v.l.keys), TRUE)
  /\ UNCHANGED <<tree, load>>

MergeInner(t) ==
  /\ At(t, "inner_merge") /\ ~ node[Work(t).next].lock
  /\ LET w == th[t].work  r == Work(t).next  m == inner_merge(Work(t), w, node[r]) IN
     \/ /\ inner_merges(Work(t), node[r])
        /\ node' = [node EXCEPT ![w] = m.l, ![r] = m.r]
        /\ Reg(t, [th[t] EXCEPT !.right = r, !.mid = Last(Work(t).keys), !.pc = "posted"])
     \/ /\ ~ inner_merges(Work(t), node[r])
        /\ Reg(t, [th[t] EXCEPT !.right = nullptr, !.pc = "posted"])
        /\ UNCHANGED node
  /\ UNCHANGED <<tree, load>>

\* anchor_update: goes on up when the anchor was the last of its node.
UpdateAnchor(t) ==
  /\ At(t, "post") /\ th[t].right = nullptr
  /\ LET n == Work(t)  i == index(n.keys, th[t].mid) IN
     /\ node' = [node EXCEPT ![th[t].work].keys[i] = th[t].mid]
     /\ Reg(t, [th[t] EXCEPT !.up = n.sib /\ i = knum(n), !.pc = "posted"])
  /\ UNCHANGED <<tree, load>>

\* Mutant: the root without anchors is deleted but stays the root.
StaysRoot(t) ==
  /\ At(t, "posted") /\ th[t].work = root
  /\ Reg(t, [th[t] EXCEPT !.right = nullptr, !.up = FALSE, !.pc = "shrunk"])
  /\ node' = [node EXCEPT ![th[t].work].del = (knum(Work(t)) = 0)]
  /\ UNCHANGED <<tree, load>>

\* At the root: root_remove leaves a root with one child to that child.
RootRemove(t) ==
  /\ At(t, "posted") /\ th[t].work = root
  /\ Reg(t, [th[t] EXCEPT !.right = nullptr, !.up = FALSE, !.pc = "shrunk"])
  /\ IF knum(Work(t)) = 0
     THEN /\ node' = [node EXCEPT ![th[t].work].del = TRUE]
          /\ root' = Work(t).next /\ depth' = depth - 1 /\ UNCHANGED track
     ELSE UNCHANGED <<node, tree>>
  /\ UNCHANGED load

RootDone(t) == /\ At(t, "shrunk")
               /\ Unlatch(th[t].cur)
               /\ Reg(t, [th[t] EXCEPT !.cur = th[t].work, !.pc = "unlatch"])
               /\ UNCHANGED <<tree, load>>

Posted(t) == /\ At(t, "posted") /\ th[t].work # root
             /\ Reg(t, [th[t] EXCEPT !.cur = th[t].work,
                                     !.pc = IF th[t].right # nullptr \/ th[t].up THEN "climb" ELSE "unlatch"])
             /\ UNCHANGED <<node, tree, load>>

UnlatchLast(t) == /\ At(t, "unlatch")
                  /\ Unlatch(th[t].cur) /\ Go(t, "return")
                  /\ UNCHANGED <<tree, load>>

Return(t) == /\ At(t, "return")
             /\ Reg(t, [Idle EXCEPT !.done = th[t].done])
             /\ UNCHANGED <<node, tree, load>>

Step(t) == \/ Begin(t) \/ Descend(t) \/ ReadLeaf(t) \/ LatchLeaf(t) \/ LatchSibling(t) \/ UnlatchLeft(t)
           \/ UpsertKey(t) \/ RemoveKey(t) \/ MergeLeaf(t)
           \/ Climb(t) \/ LatchWork(t) \/ LatchNext(t) \/ UnlatchWork(t) \/ UnlatchChild(t) \/ Insert(t)
           \/ RemoveAnchor(t) \/ MergeInner(t) \/ UpdateAnchor(t) \/ RootRemove(t) \/ RootDone(t) \/ Posted(t)
           \/ UnlatchLast(t) \/ Return(t)

\* Every thread has run its operations.
Finish == /\ ~ Loading
          /\ \A t \in Threads : At(t, "idle") /\ th[t].done = Len(ops[t])
          /\ UNCHANGED <<node, tree, th, load>>

Next == ((\E t \in Threads : Step(t)) \/ Finish) /\ UNCHANGED ops

Spec == Init /\ [][Next]_vars
-----------------------------------------------------------------------------
(* Properties *)

NodeIds == DOMAIN node

\* The variables have their types: every link is a node or null.
TypeOK ==
  /\ \A n \in NodeIds : /\ node[n].leaf \in BOOLEAN /\ node[n].lock \in BOOLEAN
                        /\ node[n].sib \in BOOLEAN /\ node[n].del \in BOOLEAN
                        /\ ToSet(node[n].keys) \subseteq Keys
                        /\ ToSet(node[n].kids) \subseteq NodeIds
                        /\ node[n].next \in NodeIds \cup {nullptr}
  /\ root \in NodeIds /\ depth \in Nat \ {0} /\ ToSet(track) \subseteq NodeIds
  /\ \A t \in Threads : /\ ~ At(t, "idle") => th[t].cur # nullptr
                        /\ {th[t].cur, th[t].work, th[t].next, th[t].right} \subseteq NodeIds \cup {nullptr}
                        /\ ToSet(th[t].path) \subseteq NodeIds

\* Where an undisturbed search for k gets from node n.
Hop(n, k) == IF ~ node[n].leaf THEN to_next(node[n], k)
             ELSE IF to_sibling(node[n], k) THEN node[n].next ELSE n
Walk(n, k) == LET w[i \in 0 .. 2 * Len(node)] == IF i = 0 THEN n ELSE Hop(w[i - 1], k) IN w[2 * Len(node)]

\* A new root is announced latched and still without children: searches wait.
RootIsReady == node[root].leaf \/ node[root].next # nullptr

\* At every moment a search from the root for a key that is in a leaf ends in
\* that leaf, whatever splits, merges and root changes are half done
\* (fbtree.h upsert and remove change one level at a time).
KeysAreReachable ==
  RootIsReady => \A n \in NodeIds : node[n].leaf => \A k \in ToSet(node[n].keys) : Walk(root, k) = n

\* A thread that stands on a node it read some time ago, be it split, merged
\* away or no longer the root by now, is led to the leaf of its key by to_next
\* and to_sibling all the same.
LateWalkersArrive ==
  RootIsReady => \A t \in Threads : th[t].pc \in {"descend", "leaf"} =>
                   Walk(th[t].cur, th[t].key) = Walk(root, th[t].key)

\* The child to the right of anchor i of n, in the next node behind the last.
FirstChild(n) == IF knum(n) > 0 THEN n.kids[1] ELSE n.next
RightOf(n, i) == IF i < knum(n) THEN n.kids[i + 1] ELSE IF n.sib THEN FirstChild(node[n.next]) ELSE n.next

\* The node that took over what a deleted node had.
Alive(n) == LET a[i \in 0 .. Len(node)] ==
                  IF i = 0 THEN n ELSE IF node[a[i - 1]].del THEN node[a[i - 1]].next ELSE a[i - 1]
            IN a[Len(node)]

\* The place that climbing finds is the place of the child: upsert inserts
\* right of the node that was split, remove takes out the anchor between the
\* two nodes that were merged, anchor_update replaces the anchor of the node
\* whose high key sank (the "insert error", "remove error" and "anchor update
\* error" conditions of inode.h, and more).
PlaceIsFound ==
  \A t \in Threads :
    LET n == Work(t)  i == index(n.keys, th[t].mid) IN
    /\ At(t, "insert") => IF i <= knum(n) THEN n.keys[i] # th[t].mid /\ Alive(n.kids[i]) = Alive(th[t].cur)
                                          ELSE ~ n.sib /\ (n.next # nullptr => Alive(n.next) = Alive(th[t].cur))
    /\ At(t, "post") => /\ i <= knum(n) /\ Alive(n.kids[i]) = Alive(th[t].cur)
                        /\ th[t].right # nullptr => n.keys[i] = th[t].mid /\ Alive(RightOf(n, i)) = Alive(th[t].cur)

\* The registers of a climbing thread name what the code asserts they name:
\* the loops find an inner node, never null (assert(work != nullptr)) and never
\* a leaf; a root that remove leaves without anchors has the node the thread
\* holds for its only child (assert(next == current)); the root is never a
\* deleted node, and only its latch holder may see it with a sibling.
ClimbsAboveLeaves ==
  /\ TypeOK
  /\ \A t \in Threads : At(t, "latch") => th[t].work # nullptr /\ ~ Work(t).leaf
  /\ \A t \in Threads : At(t, "find") => ~ Work(t).leaf
  /\ \A t \in Threads : At(t, "posted") /\ th[t].work = root /\ knum(Work(t)) = 0 => Work(t).next = th[t].cur
  /\ ~ node[root].del /\ (node[root].sib => node[root].lock)

\* No thread waits for a latch that it holds itself.
NeverWaitsForItself ==
  \A t \in Threads : /\ At(t, "latch") => th[t].work # th[t].cur
                     /\ At(t, "find") /\ index_or_sibling(Work(t), th[t].mid) =>
                          Work(t).next \notin {th[t].cur, th[t].work}

\* The tree is a map: every operation takes effect and gets its answer in one
\* step, an upsert or remove when it has the leaf latched and a lookup when it
\* reads it, and splits, merges and root changes add and lose nothing.
content == UNION {ToSet(node[n].keys) : n \in {m \in NodeIds : node[m].leaf}}
call == [t \in Threads |-> [op |-> th[t].op, key |-> th[t].key,
                            done |-> th[t].pc \notin {"idle", "descend", "leaf", "left"}, ret |-> th[t].ret]]
Map == INSTANCE KVMap WITH content <- content, call <- call
IsMap == Map!Spec

\* With no latch held the tree is whole: the live nodes are those reachable
\* from the root, each child once, its high key is its anchor, its right
\* sibling the next child; the root has no sibling, and tree_depth_ and
\* root_track_ name the levels and their leftmost nodes (the destructor,
\* begin and the climbing loops start there).
Children(n) == IF n.leaf THEN <<>> ELSE n.kids \o (IF n.sib THEN <<>> ELSE <<n.next>>)
High(n) == IF n.leaf THEN n.high ELSE Last(n.keys)
Leftmost(d) == LET f[i \in 1 .. depth] == IF i = depth THEN root ELSE Children(node[f[i + 1]])[1] IN f[d]
Live == {n \in NodeIds : ~ node[n].del}
TreeIsWhole ==
  (\A n \in NodeIds : ~ node[n].lock) =>
    /\ ~ node[root].sib
    /\ \A d \in 1 .. depth : track[d] = Leftmost(d) /\ node[track[d]].leaf = (d = 1)
    /\ \A c \in Live \ {root} :
         Quantify(Live, LAMBDA p : Contains(Children(node[p]), c)) = 1
    /\ \A p \in Live : \A i \in 1 .. (IF node[p].leaf THEN 0 ELSE knum(node[p])) :
         LET c == node[node[p].kids[i]] IN
         /\ c.sib /\ High(c) = node[p].keys[i] /\ c.next = RightOf(node[p], i)
=============================================================================
