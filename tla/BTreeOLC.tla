------------------------------ MODULE BTreeOLC ------------------------------
(***************************************************************************)
(* The B+-tree with optimistic lock coupling (BTreeOLC_child_layout.h, the *)
(* one that is built).  Each load of root and of a version word, each      *)
(* compare-and-swap and each unlock is a step.  What is read of a node     *)
(* between two looks at its version is one step, and so is what is written *)
(* to it while it is locked: a torn read is always followed by a failing   *)
(* check (VersionLock, ValidReadIsSnapshot).  There is no removal.         *)
(***************************************************************************)
EXTENDS Integers, Sequences, SequencesExt, FiniteSetsExt

CONSTANTS Keys, Threads,        \* positive integers
          leafEntries,          \* maxEntries of a leaf
          innerEntries,         \* maxEntries of an inner node
          Setups                \* trees and work for them: records [load, ops]

VARIABLES node,    \* the nodes, in order of allocation
          root,
          th,      \* the registers of each thread
          load,    \* keys left to insert one by one to build the tree
          ops      \* then each thread runs this: a sequence of choices

vars == <<node, root, th, load, ops>>

nullptr == 0
NewNode(leaf) == [leaf |-> leaf, keys |-> <<>>, kids |-> <<>>, ver |-> 0, locked |-> FALSE]
Idle == [pc |-> "idle", op |-> "none", key |-> 0, arg |-> 0, cur |-> nullptr, ver |-> 0,
         parent |-> nullptr, pver |-> 0, ret |-> FALSE, out |-> FALSE, pairs |-> <<>>, done |-> 0]

Init == /\ node = <<NewNode(TRUE)>> /\ root = 1
        /\ th = [t \in Threads |-> Idle]
        /\ \E s \in Setups : load = s.load /\ ops = s.ops

Loading == load # <<>>
At(t, l) == th[t].pc = l
Cur(t) == node[th[t].cur]
Reg(t, r) == th' = [th EXCEPT ![t] = r]
Go(t, l) == Reg(t, [th[t] EXCEPT !.pc = l])
Restart(t) == [th[t] EXCEPT !.pc = "root", !.cur = nullptr, !.ver = 0, !.parent = nullptr, !.pver = 0, !.pairs = <<>>]

\* The version word of n has not changed since v was read.
Same(n, v) == ~ node[n].locked /\ node[n].ver = v
Locked(n) == node' = [node EXCEPT ![n].locked = TRUE]
Unlocked(n) == node' = [node EXCEPT ![n].locked = FALSE, ![n].ver = @ + 1]
-----------------------------------------------------------------------------
(* Nodes.  lowerBound is a binary search over sorted keys. *)

lowerBound(n, k) == 1 + Len(SelectSeq(n.keys, LAMBDA a : a < k))
has(n, k) == lowerBound(n, k) <= Len(n.keys) /\ n.keys[lowerBound(n, k)] = k
isFull(n) == Len(n.keys) = IF n.leaf THEN leafEntries ELSE innerEntries - 1

\* BTreeLeaf::insert, an upsert.
leaf_insert(n, k) == IF has(n, k) THEN n ELSE [n EXCEPT !.keys = InsertAt(@, lowerBound(n, k), k)]

\* BTreeInner::insert: the child goes right of the one that was split.
inner_insert(n, k, child) ==
  LET pos == lowerBound(n, k)
  IN [n EXCEPT !.keys = InsertAt(@, pos, k), !.kids = InsertAt(@, pos + 1, child)]

\* split of either: left part, separator, new right part.  A leaf keeps its
\* separator, an inner node gives it up.
split(n) ==
  LET count == Len(n.keys)
      moved == count - count \div 2
      left == IF n.leaf THEN count - moved ELSE count - moved - 1
      sep == IF n.leaf THEN left ELSE left + 1
  IN [left |-> [n EXCEPT !.keys = SubSeq(@, 1, left), !.kids = SubSeq(@, 1, Min({left + 1, Len(@)}))],
      sep |-> n.keys[sep],
      right |-> [NewNode(n.leaf) EXCEPT !.keys = SubSeq(n.keys, sep + 1, count),
                                        !.kids = SubSeq(n.kids, left + 2, Len(n.kids))]]
-----------------------------------------------------------------------------
(* The way down, the same in insert, lookup and scan *)

Begin(t) ==
  /\ At(t, "idle")
  /\ \E o \in IF Loading THEN {<<"insert", Head(load), 0>>}
              ELSE IF th[t].done < Len(ops[t]) THEN ops[t][th[t].done + 1] ELSE {} :
       Reg(t, [Idle EXCEPT !.pc = "root", !.op = o[1], !.key = o[2], !.arg = o[3],
                           !.done = IF Loading THEN 0 ELSE th[t].done + 1])
  /\ Loading => t = Min(Threads)
  /\ load' = IF Loading THEN Tail(load) ELSE load
  /\ UNCHANGED <<node, root>>

ReadRoot(t) == /\ At(t, "root") /\ Reg(t, [th[t] EXCEPT !.cur = root, !.pc = "root_version"])
               /\ UNCHANGED <<node, root, load>>

RootVersion(t) ==
  /\ At(t, "root_version")
  /\ Reg(t, IF Cur(t).locked THEN Restart(t) ELSE [th[t] EXCEPT !.ver = Cur(t).ver, !.pc = "root_again"])
  /\ UNCHANGED <<node, root, load>>

RootAgain(t) == /\ At(t, "root_again")
                /\ Reg(t, IF th[t].cur # root THEN Restart(t) ELSE [th[t] EXCEPT !.pc = "visit"])
                /\ UNCHANGED <<node, root, load>>

\* A full node is split on the way; a leaf with room is locked, and only then
\* is the parent checked.
Visit(t) == /\ At(t, "visit")
            /\ Go(t, IF th[t].op = "insert" /\ isFull(Cur(t))
                     THEN IF th[t].parent = nullptr THEN "lock_node" ELSE "lock_parent"
                     ELSE IF ~ Cur(t).leaf THEN "check_parent"
                     ELSE IF th[t].op = "insert" THEN "lock_leaf" ELSE "read")
            /\ UNCHANGED <<node, root, load>>

CheckParent(t) ==
  /\ At(t, "check_parent")
  /\ Reg(t, IF th[t].parent # nullptr /\ ~ Same(th[t].parent, th[t].pver) THEN Restart(t)
            ELSE [th[t] EXCEPT !.parent = th[t].cur, !.pver = th[t].ver, !.pc = "child"])
  /\ UNCHANGED <<node, root, load>>

\* parent is the node whose child is read, cur becomes that child.
ReadChild(t) ==
  /\ At(t, "child")
  /\ LET n == node[th[t].parent]
     IN Reg(t, [th[t] EXCEPT !.cur = n.kids[lowerBound(n, th[t].key)], !.pc = "check_child"])
  /\ UNCHANGED <<node, root, load>>

CheckChild(t) ==
  /\ At(t, "check_child")
  /\ Reg(t, IF Same(th[t].parent, th[t].pver) THEN [th[t] EXCEPT !.pc = "child_version"] ELSE Restart(t))
  /\ UNCHANGED <<node, root, load>>

ChildVersion(t) ==
  /\ At(t, "child_version")
  /\ Reg(t, IF Cur(t).locked THEN Restart(t) ELSE [th[t] EXCEPT !.ver = Cur(t).ver, !.pc = "visit"])
  /\ UNCHANGED <<node, root, load>>
-----------------------------------------------------------------------------
(* insert *)

LockParent(t) ==
  /\ At(t, "lock_parent")
  /\ IF Same(th[t].parent, th[t].pver) THEN Locked(th[t].parent) /\ Go(t, "lock_node")
     ELSE Reg(t, Restart(t)) /\ UNCHANGED node
  /\ UNCHANGED <<root, load>>

LockNode(t) ==
  /\ At(t, "lock_node")
  /\ IF Same(th[t].cur, th[t].ver)
     THEN Locked(th[t].cur) /\ Go(t, IF th[t].parent = nullptr THEN "still_root" ELSE "split")
     ELSE UNCHANGED node /\ IF th[t].parent = nullptr THEN Reg(t, Restart(t)) ELSE Go(t, "unlock_parent")
  /\ UNCHANGED <<root, load>>

\* There is a new parent.
StillRoot(t) == /\ At(t, "still_root") /\ Go(t, IF th[t].cur = root THEN "split" ELSE "unlock_node")
                /\ UNCHANGED <<node, root, load>>

Split(t) ==
  /\ At(t, "split")
  /\ LET s == split(Cur(t))
         new == Len(node) + 1
         halves == Append([node EXCEPT ![th[t].cur] = s.left], s.right)
     IN IF th[t].parent = nullptr
        THEN /\ node' = Append(halves, [NewNode(FALSE) EXCEPT !.keys = <<s.sep>>, !.kids = <<th[t].cur, new>>])
             /\ root' = new + 1
        ELSE /\ node' = [halves EXCEPT ![th[t].parent] = inner_insert(@, s.sep, new)]
             /\ UNCHANGED root
  /\ Go(t, "unlock_node") /\ UNCHANGED load

UnlockNode(t) == /\ At(t, "unlock_node") /\ Unlocked(th[t].cur)
                 /\ IF th[t].parent = nullptr THEN Reg(t, Restart(t)) ELSE Go(t, "unlock_parent")
                 /\ UNCHANGED <<root, load>>

UnlockParent(t) == /\ At(t, "unlock_parent") /\ Unlocked(th[t].parent) /\ Reg(t, Restart(t))
                   /\ UNCHANGED <<root, load>>

\* Mutant: the leaf is locked without a look at the version that was read.
LockBlind(t) ==
  /\ At(t, "lock_leaf")
  /\ IF ~ Cur(t).locked THEN Locked(th[t].cur) /\ Go(t, "leaf_parent")
     ELSE Reg(t, Restart(t)) /\ UNCHANGED node
  /\ UNCHANGED <<root, load>>

LockLeaf(t) ==
  /\ At(t, "lock_leaf")
  /\ IF Same(th[t].cur, th[t].ver) THEN Locked(th[t].cur) /\ Go(t, "leaf_parent")
     ELSE Reg(t, Restart(t)) /\ UNCHANGED node
  /\ UNCHANGED <<root, load>>

LeafParent(t) ==
  /\ At(t, "leaf_parent")
  /\ IF th[t].parent = nullptr \/ Same(th[t].parent, th[t].pver)
     THEN Go(t, "insert") /\ UNCHANGED node
     ELSE Reg(t, Restart(t)) /\ Unlocked(th[t].cur)
  /\ UNCHANGED <<root, load>>

Insert(t) == /\ At(t, "insert")
             /\ node' = [node EXCEPT ![th[t].cur] = leaf_insert(@, th[t].key)]
             /\ Reg(t, [th[t] EXCEPT !.pc = "unlock_leaf", !.ret = has(Cur(t), th[t].key)])
             /\ UNCHANGED <<root, load>>

UnlockLeaf(t) == /\ At(t, "unlock_leaf") /\ Unlocked(th[t].cur) /\ Go(t, "return")
                 /\ UNCHANGED <<root, load>>
-----------------------------------------------------------------------------
(* lookup and scan *)

\* success is set only if the key is found; result keeps what it got.  A scan
\* copies from one leaf, at most arg values.
ReadLeaf(t) ==
  /\ At(t, "read")
  /\ LET pos == lowerBound(Cur(t), th[t].key)
         found == has(Cur(t), th[t].key)
     IN \E success \in IF found THEN {TRUE} ELSE BOOLEAN :
          Reg(t, [th[t] EXCEPT !.pc = "read_parent",
                    !.ret = th[t].op = "lookup" /\ success, !.out = @ \/ found,
                    !.pairs = IF th[t].op = "lookup" THEN <<>>
                              ELSE SubSeq(Cur(t).keys, pos, Min({pos + th[t].arg - 1, Len(Cur(t).keys)}))])
  /\ UNCHANGED <<node, root, load>>

ReadParent(t) ==
  /\ At(t, "read_parent")
  /\ Reg(t, IF th[t].parent = nullptr \/ Same(th[t].parent, th[t].pver)
            THEN [th[t] EXCEPT !.pc = "read_check"] ELSE Restart(t))
  /\ UNCHANGED <<node, root, load>>

\* Mutant: the answer is given without the last check.
Trusts(t) == /\ At(t, "read_check") /\ Go(t, "return") /\ UNCHANGED <<node, root, load>>

ReadCheck(t) == /\ At(t, "read_check")
                /\ Reg(t, IF Same(th[t].cur, th[t].ver) THEN [th[t] EXCEPT !.pc = "return"] ELSE Restart(t))
                /\ UNCHANGED <<node, root, load>>

Return(t) == /\ At(t, "return") /\ Reg(t, [Idle EXCEPT !.done = th[t].done])
             /\ UNCHANGED <<node, root, load>>

Step(t) == \/ Begin(t) \/ ReadRoot(t) \/ RootVersion(t) \/ RootAgain(t) \/ Visit(t)
           \/ CheckParent(t) \/ ReadChild(t) \/ CheckChild(t) \/ ChildVersion(t)
           \/ LockParent(t) \/ LockNode(t) \/ StillRoot(t) \/ Split(t) \/ UnlockNode(t) \/ UnlockParent(t)
           \/ LockLeaf(t) \/ LeafParent(t) \/ Insert(t) \/ UnlockLeaf(t)
           \/ ReadLeaf(t) \/ ReadParent(t) \/ ReadCheck(t) \/ Return(t)

Finish == /\ ~ Loading /\ \A t \in Threads : At(t, "idle") /\ th[t].done = Len(ops[t])
          /\ UNCHANGED <<node, root, th, load>>

Next == ((\E t \in Threads : Step(t)) \/ Finish) /\ UNCHANGED ops

Spec == Init /\ [][Next]_vars
-----------------------------------------------------------------------------
(* Properties *)

NodeIds == DOMAIN node
content == UNION {ToSet(node[n].keys) : n \in {m \in NodeIds : node[m].leaf}}

\* Where a search for k ends that nobody disturbs.
Leaf(k) == LET down[n \in NodeIds] == IF node[n].leaf THEN n ELSE down[node[n].kids[lowerBound(node[n], k)]]
           IN down[root]

\* Whenever no node is locked, a search from the root finds exactly the keys
\* that are in the leaves: an insert went to the leaf its key belongs to, also
\* when a split moved that key's range between its look at the parent and its
\* lock, and eager splits of inner nodes lost no child.
KeysAreReachable ==
  (\A n \in NodeIds : ~ node[n].locked) => \A k \in Keys : has(node[Leaf(k)], k) = (k \in content)

\* What a scan returns is, at its last check, a run of the tree's keys from its
\* start on without a gap, and it is empty only if there is no key to return.
NoGap(t) == LET from == {k \in content : k >= th[t].key}
                got == ToSet(th[t].pairs)
            IN /\ got = {k \in from : Quantify(from, LAMBDA j : j < k) < Len(th[t].pairs)}
               /\ got = {} => from = {}
ScanIsGapless ==
  [][\A t \in Threads : At(t, "read_check") /\ th'[t].pc = "return" /\ th[t].op = "scan" => NoGap(t)]_vars

\* The tree is a map: an insert takes effect in one step, the result of a
\* lookup is written exactly if the key is there at its last check, and no
\* split, restart or failed upgrade adds or loses a key.
call == [t \in Threads |->
          LET done == At(t, "return") \/ At(t, "unlock_leaf") IN
          IF th[t].op \in {"none", "scan"} THEN [op |-> "none", key |-> 0, done |-> FALSE, ret |-> FALSE]
          ELSE [op |-> IF th[t].op = "insert" THEN "upsert" ELSE "lookup", key |-> th[t].key, done |-> done,
                ret |-> done /\ IF th[t].op = "insert" THEN th[t].ret ELSE th[t].out]]
Map == INSTANCE KVMap WITH content <- content, call <- call
IsMap == Map!Spec

\* A lookup answers TRUE only if it has found the key and written the result.
FindsOnlyResults == \A t \in Threads : At(t, "return") /\ th[t].op = "lookup" => (th[t].ret => th[t].out)
=============================================================================
