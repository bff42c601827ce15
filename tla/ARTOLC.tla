------------------------------- MODULE ARTOLC -------------------------------
(***************************************************************************)
(* The adaptive radix tree with optimistic lock coupling (ARTOLC/Tree.cpp, *)
(* N.cpp and the four node types).  Each load of a version word, each      *)
(* compare-and-swap and each unlock is a step; what is read of a node      *)
(* between two looks at its version is one step, and so is what is written *)
(* to a node under its lock, together with the unlock if it follows.       *)
(*                                                                         *)
(* A key is a sequence of bytes, all of one length, and its TID is the key *)
(* itself.  A node type is the number of entries it has room for and the   *)
(* number at which a removal moves to the next smaller type.  Obsolete     *)
(* nodes are never reused (the epochs of Epoche.cpp see to that).          *)
(***************************************************************************)
EXTENDS Integers, Sequences, SequencesExt, FiniteSetsExt

CONSTANTS Keys, Threads,
          KeyLen,                \* bytes of a key
          Full, Underfull,       \* by node type: entries of a full, an underfull node
          maxStoredPrefixLength,
          Setups                 \* trees and work for them: records [load, ops]

VARIABLES node,    \* the inner nodes in order of allocation; the first is root
          th,      \* the registers of each thread
          load,    \* keys left to insert one by one to build the tree
          ops      \* then each thread runs this: a sequence of choices

vars == <<node, th, load, ops>>

root == 1
nullptr == [id |-> 0, tid |-> <<>>]
Leaf(k) == [id |-> 0, tid |-> k]
Node(i) == [id |-> i, tid |-> <<>>]
isLeaf(c) == c.id = 0 /\ c.tid # <<>>
Stored(s) == SubSeq(s, 1, Min({Len(s), maxStoredPrefixLength}))

\* A node with the prefix s, of which the first n bytes count, and entries.
NewNode(type, s, n, kids) == [type |-> type, prefix |-> Stored(SubSeq(s, 1, Min({n, Len(s)}))), plen |-> n,
                              kids |-> kids, ver |-> 0, locked |-> FALSE, obsolete |-> FALSE]
NoKids == [b \in {} |-> nullptr]
Idle == [pc |-> "idle", op |-> "none", key |-> <<>>, cur |-> 0, v |-> 0, parent |-> 0, pv |-> 0,
         bytes |-> <<>>,     \* parentKey and nodeKey
         level |-> 0, next |-> nullptr, opt |-> FALSE, split |-> <<>>, second |-> 0,
         ret |-> FALSE, done |-> 0]

Init == /\ node = <<NewNode(Len(Full), <<>>, 0, NoKids)>>
        /\ th = [t \in Threads |-> Idle]
        /\ \E s \in Setups : load = s.load /\ ops = s.ops

\* The first thread builds the tree, and has it built before the others start.
Loader == Min(Threads)
Loading == load # <<>>
At(t, l) == th[t].pc = l
Cur(t) == node[th[t].cur]
Reg(t, r) == th' = [th EXCEPT ![t] = r]
Go(t, l) == Reg(t, [th[t] EXCEPT !.pc = l])
Answer(t, found) == [Idle EXCEPT !.pc = "return", !.op = th[t].op, !.key = th[t].key, !.ret = found, !.done = th[t].done]
Restart(t) == [Idle EXCEPT !.pc = "version", !.op = th[t].op, !.key = th[t].key, !.cur = root, !.done = th[t].done]

\* readLockOrRestart fails; readUnlockOrRestart and the upgrade succeed.
Taken(n) == node[n].locked \/ node[n].obsolete
Same(n, v) == ~ node[n].locked /\ node[n].ver = v
Lock(n) == [n EXCEPT !.locked = TRUE]
Unlock(n) == [n EXCEPT !.locked = FALSE, !.ver = @ + 1]
Obsolete(n) == [n EXCEPT !.locked = FALSE, !.ver = @ + 1, !.obsolete = TRUE]
-----------------------------------------------------------------------------
(* Nodes *)

count(n) == Cardinality(DOMAIN n.kids)
getChild(n, b) == IF b \in DOMAIN n.kids THEN n.kids[b] ELSE nullptr
byte(k, i) == IF i < Len(k) THEN k[i + 1] ELSE 0
with(n, b, c) == [n EXCEPT !.kids = [x \in DOMAIN @ \cup {b} |-> IF x = b THEN c ELSE @[x]]]
without(n, b) == [n EXCEPT !.kids = [x \in DOMAIN @ \ {b} |-> @[x]]]

\* getAnyChild: the first leaf, or the last child; getAnyChildTid follows it,
\* and fails at a node that is locked or obsolete.
getAnyChild(n) == LET leaves == {b \in DOMAIN n.kids : isLeaf(n.kids[b])}
                  IN n.kids[IF leaves # {} THEN Min(leaves) ELSE Max(DOMAIN n.kids)]
getAnyChildTid(n) ==
  LET tid[i \in DOMAIN node] == IF Taken(i) \/ DOMAIN node[i].kids = {} THEN <<>>
                                ELSE LET c == getAnyChild(node[i]) IN IF isLeaf(c) THEN c.tid ELSE tid[c.id]
  IN tid[n]

\* checkPrefix: only the stored bytes are compared, the rest is left to checkKey.
checkPrefix(n, k, level) ==
  IF n.plen = 0 THEN [match |-> TRUE, opt |-> FALSE]
  ELSE [match |-> KeyLen > level + n.plen /\ \A i \in 1 .. Len(n.prefix) : n.prefix[i] = byte(k, level + i - 1),
        opt |-> n.plen > maxStoredPrefixLength]

\* checkPrefixPessimistic: all bytes, the others from the key of any leaf below.
\* At a mismatch: how many bytes matched, the byte and the rest of the prefix.
Whole(n, kt, level) == n.prefix \o SubSeq(kt, level + Len(n.prefix) + 1, Min({level + n.plen, Len(kt)}))
Mismatch(s, k, level) == {i \in 1 .. Len(s) : s[i] # byte(k, level + i - 1)}
-----------------------------------------------------------------------------
(* The way down *)

Begin(t) ==
  /\ At(t, "idle")
  /\ \E o \in IF Loading THEN {<<"insert", Head(load)>>}
              ELSE IF th[t].done < Len(ops[t]) THEN ops[t][th[t].done + 1] ELSE {} :
       Reg(t, [Idle EXCEPT !.pc = "version", !.op = o[1], !.key = o[2], !.cur = root,
                           !.done = IF Loading THEN 0 ELSE th[t].done + 1])
  /\ t # Loader => ~ Loading /\ (At(Loader, "idle") \/ th[Loader].done > 0)
  /\ load' = IF Loading THEN Tail(load) ELSE load
  /\ UNCHANGED node

\* Only a lookup then looks at the parent again before it reads the node.
Version(t) ==
  /\ At(t, "version")
  /\ Reg(t, IF Taken(th[t].cur) THEN Restart(t)
            ELSE [th[t] EXCEPT !.v = Cur(t).ver, !.pc = IF th[t].op = "lookup" /\ th[t].parent # 0 THEN "couple"
                                                        ELSE "read"])
  /\ UNCHANGED <<node, load>>

Couple(t) == /\ At(t, "couple")
             /\ Reg(t, IF Same(th[t].parent, th[t].pv) THEN [th[t] EXCEPT !.pc = "read"] ELSE Restart(t))
             /\ UNCHANGED <<node, load>>

\* lookup and remove: the prefix and the child.
Read(t) ==
  /\ At(t, "read") /\ th[t].op # "insert"
  /\ LET p == checkPrefix(Cur(t), th[t].key, th[t].level)
         level == th[t].level + Cur(t).plen
         b == byte(th[t].key, level)
     IN Reg(t, IF ~ p.match THEN [th[t] EXCEPT !.pc = "check", !.next = nullptr]
               ELSE [th[t] EXCEPT !.pc = "check", !.opt = @ \/ p.opt, !.level = level,
                                  !.bytes = Append(@, b), !.next = getChild(Cur(t), b)])
  /\ UNCHANGED <<node, load>>

\* insert: the same with the whole prefix.
ReadWhole(t) ==
  /\ At(t, "read") /\ th[t].op = "insert"
  /\ LET kt == getAnyChildTid(th[t].cur)
         s == IF Cur(t).plen <= maxStoredPrefixLength THEN Cur(t).prefix ELSE Whole(Cur(t), kt, th[t].level)
         bad == Mismatch(s, th[t].key, th[t].level)
         level == th[t].level + Cur(t).plen
         b == byte(th[t].key, level)
     IN Reg(t, IF Cur(t).plen > maxStoredPrefixLength /\ kt = <<>> THEN Restart(t)
               ELSE IF bad # {} THEN [th[t] EXCEPT !.pc = "lock_parent", !.next = Node(th[t].cur),
                                                   !.split = SubSeq(s, Min(bad), Len(s)),
                                                   !.level = @ + Min(bad) - 1]
               ELSE [th[t] EXCEPT !.pc = "check", !.level = level, !.bytes = Append(@, b),
                                  !.next = getChild(Cur(t), b)])
  /\ UNCHANGED <<node, load>>

\* On to the child.
Descend(t) == [th[t] EXCEPT !.pc = "version", !.cur = th[t].next.id, !.parent = th[t].cur, !.pv = th[t].v,
                            !.level = @ + 1, !.next = nullptr, !.bytes = <<Last(@)>>]

\* checkKey, where bytes of the key have not been compared.
Found(t) == th[t].level < KeyLen - 1 \/ th[t].opt => th[t].next.tid = th[t].key

\* insert past an inner node; otherwise the node is locked.
Onward(t) == IF th[t].op = "insert" /\ th[t].next.id # 0 THEN Descend(t) ELSE [th[t] EXCEPT !.pc = "lock_one"]

\* The check behind the read, and what it leads to.
Check(t) ==
  /\ At(t, "check")
  /\ LET r == th[t]
         n == count(Cur(t))
         replace == [r EXCEPT !.pc = "lock_parent"]
         stay == IF r.parent = 0 THEN Onward(t) ELSE [r EXCEPT !.pc = "recheck"]
     IN Reg(t, IF ~ Same(r.cur, r.v) THEN Restart(t)
               ELSE IF r.op = "insert"
                    THEN IF r.next = nullptr /\ n = Full[Cur(t).type] THEN replace ELSE stay
               ELSE IF r.next = nullptr THEN Answer(t, FALSE)
               ELSE IF ~ isLeaf(r.next) THEN Descend(t)
               ELSE IF r.op = "lookup" THEN Answer(t, Found(t))
               ELSE IF r.next.tid # r.key THEN Answer(t, FALSE)
               ELSE IF r.parent # 0 /\ n \in {2, Underfull[Cur(t).type]} THEN replace ELSE stay)
  /\ UNCHANGED <<node, load>>

\* insert and remove: the parent has not changed either.
Recheck(t) ==
  /\ At(t, "recheck")
  /\ Reg(t, IF Same(th[t].parent, th[t].pv) THEN Onward(t) ELSE Restart(t))
  /\ UNCHANGED <<node, load>>
-----------------------------------------------------------------------------
(* Locks *)

LockOne(t) ==
  /\ At(t, "lock_one")
  /\ IF Same(th[t].cur, th[t].v)
     THEN node' = [node EXCEPT ![th[t].cur] = Lock(@)] /\ Go(t, "change")
     ELSE Reg(t, Restart(t)) /\ UNCHANGED node
  /\ UNCHANGED load

LockParent(t) ==
  /\ At(t, "lock_parent")
  /\ IF Same(th[t].parent, th[t].pv)
     THEN node' = [node EXCEPT ![th[t].parent] = Lock(@)] /\ Go(t, "lock_node")
     ELSE Reg(t, Restart(t)) /\ UNCHANGED node
  /\ UNCHANGED load

LockNode(t) ==
  /\ At(t, "lock_node")
  /\ IF Same(th[t].cur, th[t].v)
     THEN /\ node' = [node EXCEPT ![th[t].cur] = Lock(@)]
          /\ Go(t, IF th[t].split # <<>> THEN "split" ELSE IF th[t].op = "insert" THEN "grow"
                   ELSE IF count(Cur(t)) = 2 THEN "second" ELSE "shrink")
     ELSE Reg(t, Restart(t)) /\ node' = [node EXCEPT ![th[t].parent] = Unlock(@)]
  /\ UNCHANGED load
-----------------------------------------------------------------------------
(* Changes *)

parentKey(t) == th[t].bytes[1]
nodeKey(t) == Last(th[t].bytes)
New == Len(node) + 1

\* Under the lock of one node: a new entry, an upsert, a leaf that becomes a
\* node with two leaves, or a removal.
N4of(t, key) ==
  LET k == th[t].key
      from == th[t].level + 1
      p == Min({i \in 0 .. KeyLen : byte(k, from + i) # byte(key, from + i)})
      two == [b \in {byte(k, from + p), byte(key, from + p)} |-> IF b = byte(k, from + p) THEN Leaf(k) ELSE Leaf(key)]
  IN NewNode(1, SubSeq(k, from + 1, Len(k)), p, two)
Change(t) ==
  /\ At(t, "change")
  /\ LET r == th[t]
         put(c) == [node EXCEPT ![r.cur] = Unlock(with(@, nodeKey(t), c))]
     IN node' = IF r.op = "remove" THEN [node EXCEPT ![r.cur] = Unlock(without(@, nodeKey(t)))]
                ELSE IF r.next = nullptr \/ r.next.tid = r.key THEN put(Leaf(r.key))
                ELSE Append(put(Node(New)), N4of(t, r.next.tid))
  /\ Reg(t, Answer(t, th[t].next.tid = th[t].key)) /\ UNCHANGED load

\* The prefix does not match: a node with its first bytes goes between.
SplitPrefix(t) ==
  /\ At(t, "split")
  /\ LET r == th[t]
         n == Cur(t).plen - Len(r.split)
         b == byte(r.key, r.level)
         kids == [x \in {b, r.split[1]} |-> IF x = b THEN Leaf(r.key) ELSE Node(r.cur)]
     IN node' = Append([node EXCEPT ![r.parent] = Unlock(with(@, parentKey(t), Node(New)))],
                       NewNode(1, Cur(t).prefix, n, kids))
  /\ Go(t, "set_prefix") /\ UNCHANGED load

\* Mutant: the rest of the prefix keeps the byte that leads to the node.
KeepsByte(t) ==
  /\ At(t, "set_prefix")
  /\ node' = [node EXCEPT ![th[t].cur] = Unlock([@ EXCEPT !.prefix = Stored(th[t].split), !.plen = Len(th[t].split)])]
  /\ Reg(t, Answer(t, FALSE)) /\ UNCHANGED load

SetPrefix(t) ==
  /\ At(t, "set_prefix")
  /\ LET rest == Tail(th[t].split)
     IN node' = [node EXCEPT ![th[t].cur] = Unlock([@ EXCEPT !.prefix = Stored(rest), !.plen = Len(rest)])]
  /\ Reg(t, Answer(t, FALSE)) /\ UNCHANGED load

\* Mutant: the old node is left in the parent.
NotReplaced(t) ==
  /\ At(t, "grow")
  /\ node' = Append(node, with([Cur(t) EXCEPT !.type = @ + 1, !.ver = 0, !.locked = FALSE], nodeKey(t), Leaf(th[t].key)))
  /\ Go(t, "retire") /\ UNCHANGED load

\* insertGrow of a full node and removeAndShrink of an underfull one: a copy of
\* another type replaces it in the parent.
Grow(t) ==
  /\ At(t, "grow")
  /\ node' = Append([node EXCEPT ![th[t].parent] = with(@, parentKey(t), Node(New))],
                    with([Cur(t) EXCEPT !.type = @ + 1, !.ver = 0, !.locked = FALSE], nodeKey(t), Leaf(th[t].key)))
  /\ Go(t, "retire") /\ UNCHANGED load

Shrink(t) ==
  /\ At(t, "shrink")
  /\ node' = Append([node EXCEPT ![th[t].parent] = with(@, parentKey(t), Node(New))],
                    without([Cur(t) EXCEPT !.type = @ - 1, !.ver = 0, !.locked = FALSE], nodeKey(t)))
  /\ Reg(t, [th[t] EXCEPT !.ret = TRUE, !.pc = "retire"]) /\ UNCHANGED load

\* writeUnlockObsolete and markNodeForDeletion, while the parent is still locked.
Retire(t) == /\ At(t, "retire") /\ node' = [node EXCEPT ![th[t].cur] = Obsolete(@)]
             /\ Go(t, "unlock_parent") /\ UNCHANGED load

UnlockParent(t) == /\ At(t, "unlock_parent") /\ node' = [node EXCEPT ![th[t].parent] = Unlock(@)]
                   /\ Reg(t, Answer(t, th[t].ret)) /\ UNCHANGED load

\* remove from a node of two: the other child takes its place, under its own
\* lock if it is a node.
secondByte(t) == CHOOSE b \in DOMAIN Cur(t).kids : b # nodeKey(t)
Second(t) ==
  /\ At(t, "second")
  /\ LET c == Cur(t).kids[secondByte(t)]
         p == th[t].parent
         changed == Unlock(with(node[p], parentKey(t), c))
     IN IF isLeaf(c) THEN node' = [node EXCEPT ![p] = changed]
                          /\ Reg(t, [th[t] EXCEPT !.pc = "obsolete", !.ret = TRUE])
        ELSE IF Taken(c.id) THEN node' = [node EXCEPT ![th[t].cur] = Unlock(@), ![p] = Unlock(@)]
                                 /\ Reg(t, Restart(t))
        ELSE node' = [node EXCEPT ![p] = changed, ![c.id] = Lock(@)]
             /\ Reg(t, [th[t] EXCEPT !.second = c.id, !.pc = "add_prefix", !.ret = TRUE])
  /\ UNCHANGED load

\* addPrefixBefore: of the old node's prefix and the byte that led to the child.
AddPrefix(t) ==
  /\ At(t, "add_prefix")
  /\ LET n == Cur(t)
         s == IF n.plen < maxStoredPrefixLength THEN Append(n.prefix, secondByte(t)) ELSE n.prefix
     IN node' = [node EXCEPT ![th[t].second] =
                   Unlock([@ EXCEPT !.prefix = Stored(s \o @), !.plen = @ + n.plen + 1])]
  /\ Go(t, "obsolete") /\ UNCHANGED load

MarkObsolete(t) == /\ At(t, "obsolete") /\ node' = [node EXCEPT ![th[t].cur] = Obsolete(@)]
                   /\ Reg(t, Answer(t, TRUE)) /\ UNCHANGED load

Return(t) == /\ At(t, "return") /\ Reg(t, [Idle EXCEPT !.done = th[t].done]) /\ UNCHANGED <<node, load>>

Step(t) == \/ Begin(t) \/ Version(t) \/ Couple(t) \/ Read(t) \/ ReadWhole(t) \/ Check(t) \/ Recheck(t)
           \/ LockOne(t) \/ LockParent(t) \/ LockNode(t) \/ Change(t) \/ SplitPrefix(t) \/ SetPrefix(t)
           \/ Grow(t) \/ Shrink(t) \/ Retire(t) \/ UnlockParent(t)
           \/ Second(t) \/ AddPrefix(t) \/ MarkObsolete(t) \/ Return(t)

Finish == /\ ~ Loading /\ \A t \in Threads : At(t, "idle") /\ th[t].done = Len(ops[t])
          /\ UNCHANGED <<node, th, load>>

Next == ((\E t \in Threads : Step(t)) \/ Finish) /\ UNCHANGED ops

Spec == Init /\ [][Next]_vars
-----------------------------------------------------------------------------
(* Properties *)

\* The nodes that can be reached from the root, and the keys of their leaves.
Kids(n) == {node[n].kids[b] : b \in DOMAIN node[n].kids}
Reached == LET below[n \in DOMAIN node] == {n} \cup UNION {below[c.id] : c \in {x \in Kids(n) : ~ isLeaf(x)}}
           IN below[root]
content == {c.tid : c \in {x \in UNION {Kids(n) : n \in Reached} : isLeaf(x)}}

\* Where an undisturbed search for k ends: the leaf, or nothing.
Search(k) ==
  LET f[n \in DOMAIN node, level \in 0 .. KeyLen] ==
        LET p == checkPrefix(node[n], k, level)
            l == level + node[n].plen
            c == getChild(node[n], byte(k, l))
        IN IF ~ p.match \/ l >= KeyLen \/ c = nullptr THEN nullptr
           ELSE IF isLeaf(c) THEN c ELSE f[c.id, l + 1]
  IN f[root, 0]

\* Whenever no node is locked, every key that hangs in the tree is found by
\* its bytes: path compression, prefix splits and the merging of a node with
\* its only child keep prefixes and levels right.
KeysAreReachable ==
  (\A n \in DOMAIN node : ~ node[n].locked) => \A k \in Keys : (Search(k).tid = k) = (k \in content)

\* A node that is marked for deletion can no longer be reached from the root,
\* so that only threads that entered their epoch before can still read it.
RetiredIsUnlinked == \A n \in Reached : ~ node[n].obsolete

\* The tree is a map: lookup answers what is there at its last check, and
\* insert and remove take effect in one step.
Number(k) == FoldLeft(LAMBDA a, b : 10 * a + b, 0, k)
call == [t \in Threads |->
          LET done == th[t].pc \in {"return", "set_prefix", "retire", "unlock_parent", "add_prefix", "obsolete"} IN
          IF th[t].op = "none" THEN [op |-> "none", key |-> 0, done |-> FALSE, ret |-> FALSE]
          ELSE [op |-> IF th[t].op = "insert" THEN "upsert" ELSE th[t].op, key |-> Number(th[t].key), done |-> done,
                ret |-> done /\ th[t].ret]]
Map == INSTANCE KVMap WITH Keys <- {Number(k) : k \in Keys}, content <- {Number(k) : k \in content}, call <- call
IsMap == Map!Spec
=============================================================================
