------------------------- MODULE BLinkTreeInvariant -------------------------
(***************************************************************************)
(* The inductive invariant of the lock-based B-link-tree, for the proofs.  *)
(***************************************************************************)
EXTENDS BLinkTree

\* Place finds the first element that is not below k, or the place behind
\* all: a fact about sequences of keys that holds in every state.  It is a
\* conjunct of the invariant because its proof needs the theorems about
\* well-founded relations, which only the last proof module extends.
PlaceIsFirst ==
  \A s \in Seq(Nat), k \in Nat :
    /\ Place(s, k) \in 1 .. Len(s) + 1
    /\ Place(s, k) <= Len(s) => s[Place(s, k)] >= k
    /\ \A i \in 1 .. Len(s) : i < Place(s, k) => s[i] < k

\* What the variables hold.
Nodes == [leaf : BOOLEAN, keys : Seq(Keys), kids : Seq(Nat), sib : Nat, upper : Nat]
Latches == [excl : Threads \cup {nullptr}, shared : SUBSET Threads]
Labels == {"idle", "descend", "leaf", "unlatch_left", "split", "latch_upper", "find", "unlatch_upper",
           "insert", "unlatch", "scan", "scan_next", "release", "return"}
Registers == [pc : Labels, op : {"Insert", "Update", "Search", "none"} \cup Scans, key : Nat, arg : Nat,
              cur : Nat, work : Nat, path : Seq(Nat), new : Nat, ret : BOOLEAN,
              pairs : Seq(Keys), stack : Seq(Nat), done : Nat]

\* A link is the number of a node, or null.
Links == 0 .. Len(node)

Types == /\ node \in Seq(Nodes) /\ latch \in Seq(Latches) /\ Len(latch) = Len(node)
         /\ root \in NodeIds /\ depth \in Nat \ {0}
         /\ th \in [Threads -> Registers]
         /\ load \in Seq(Operations)
         /\ \A t \in Threads : ops[t] \in Seq(SUBSET Operations)

\* Links name nodes, in nodes and in registers.
Named(g) == /\ {g.cur, g.work, g.new} \subseteq Links
            /\ \A i \in DOMAIN g.path : g.path[i] \in NodeIds
            /\ \A i \in DOMAIN g.stack : g.stack[i] \in NodeIds
\* All links are links to nodes there are.
Linked == /\ \A n \in NodeIds : /\ node[n].sib \in Links /\ node[n].upper \in Links
                                /\ \A i \in DOMAIN node[n].kids : node[n].kids[i] \in NodeIds
          /\ \A t \in Threads : Named(th[t])

\* Where a thread is while it has a split to post in the parent.
Splitting == {"split", "latch_upper", "find", "unlatch_upper"}

\* The nodes a thread holds exclusively, by where it is.
Owns(t, n) ==
  \/ th[t].pc = "leaf" /\ Writes(t) /\ n = th[t].cur
  \/ th[t].pc = "unlatch_left" /\ n \in {th[t].cur, th[t].work}
  \/ th[t].pc \in Splitting /\ n = th[t].cur
  \/ th[t].pc \in {"find", "unlatch_upper", "insert", "unlatch"} /\ n = th[t].work
  \/ th[t].pc = "unlatch_upper" /\ n = Work(t).sib

\* The leaves a thread holds together with other readers.
Reads(t, n) ==
  \/ th[t].pc = "leaf" /\ ~ Writes(t) /\ n = th[t].cur
  \/ th[t].pc \in {"scan", "scan_next", "release"} /\ \E i \in DOMAIN th[t].stack : n = th[t].stack[i]

\* The latches say what the threads hold, and a writer is alone.
Latched == /\ \A t \in Threads, n \in NodeIds : /\ Owns(t, n) => latch[n].excl = t
                                                /\ Reads(t, n) => t \in latch[n].shared
           /\ \A n \in NodeIds : latch[n].excl # nullptr => latch[n].shared = {}

\* An inner node into which nothing has been put yet: a new root.
Empty(n) == ~ node[n].leaf /\ node[n].keys = <<>>

\* The keys of a node are in order, those of a leaf above its bound.
Ordered(low, n) ==
  /\ \A i, j \in DOMAIN node[n].keys : i < j => node[n].keys[i] <= node[n].keys[j]
  /\ node[n].leaf => /\ \A i, j \in DOMAIN node[n].keys : i < j => node[n].keys[i] < node[n].keys[j]
                     /\ \A i \in DOMAIN node[n].keys : low[n] < node[n].keys[i]
                     /\ node[n].kids = <<>>

\* The sibling starts where the node ends.
Continued(low, n) ==
  node[n].sib # nullptr => /\ node[n].keys # <<>> /\ low[node[n].sib] = Last(node[n].keys)
                           /\ node[node[n].sib].leaf = node[n].leaf /\ node[node[n].sib].keys # <<>>

\* No kid starts to the right of its separator, and separators are keys.
Routes(low, n) ==
  ~ node[n].leaf =>
    /\ node[n].keys = <<>> => node[n].kids = <<>>
    /\ node[n].keys # <<>> /\ node[n].sib = nullptr => Len(node[n].kids) = Len(node[n].keys) + 1
    /\ node[n].keys # <<>> /\ node[n].sib # nullptr => Len(node[n].kids) = Len(node[n].keys)
    /\ \A i \in DOMAIN node[n].kids : /\ ~ Empty(node[n].kids[i])
                                      /\ i = 1 => low[node[n].kids[i]] <= low[n]
                                      /\ i > 1 => low[node[n].kids[i]] <= node[n].keys[i - 1]
    /\ \A i \in DOMAIN node[n].keys : node[n].keys[i] \in content

\* What holds of every node.
NodeOK(low, n) == /\ Ordered(low, n) /\ Continued(low, n) /\ Routes(low, n)
                  /\ node[n].upper # nullptr => ~ node[node[n].upper].leaf

\* Two leaves have no key in common: one ends before the other starts.
LeftOf(low, m, n) == node[m].sib # nullptr /\ Last(node[m].keys) <= low[n]
Disjoint(low) == \A m, n \in NodeIds : node[m].leaf /\ node[n].leaf /\ m # n => LeftOf(low, m, n) \/ LeftOf(low, n, m)

\* Somebody holds the empty node n and is going to fill it.
Filling(n) == \E u \in Threads : th[u].pc \in {"find", "insert"} /\ th[u].work = n

\* Operation and result of a thread, by where it is.
Calls(t) == LET g == th[t] IN
  /\ g.pc = "idle" <=> g.op = "none"
  /\ g.pc # "idle" => g.key \in Keys
  /\ g.pc \in {"idle", "descend", "leaf", "unlatch_left"} => ~ g.ret
  /\ g.pc \in Splitting \cup {"unlatch_left", "insert", "unlatch"} => g.op = "Insert"
  /\ g.pc \in {"scan", "scan_next", "release"} => g.op \in Scans
  /\ g.op = "Insert" /\ g.pc \in Splitting \cup {"insert", "unlatch"} => g.ret

\* A thread on its way down is at or left of the leaf for its key.
Descends(low, t) == LET g == th[t] IN
  /\ g.pc \in {"descend", "leaf", "unlatch_left"} => g.cur \in NodeIds /\ low[g.cur] < g.key
  /\ g.pc = "descend" => (Empty(g.cur) => Filling(g.cur))
  /\ g.pc \in {"leaf", "unlatch_left"} => node[g.cur].leaf
  /\ g.pc = "unlatch_left" => g.work \in NodeIds /\ node[g.work].leaf /\ low[g.work] < g.key /\ g.work # g.cur
  /\ \A i \in DOMAIN g.path : ~ node[g.path[i]].leaf /\ ~ Empty(g.path[i])

\* What a thread with a split to post knows of the halves and the parent.
Climbs(low, t) == LET g == th[t] IN
  /\ g.pc \in Splitting \cup {"insert"} =>
       /\ g.cur \in NodeIds /\ node[g.cur].keys # <<>>
       /\ g.new \in NodeIds /\ node[g.new].keys # <<>> 
  /\ g.pc \in Splitting => /\ node[g.cur].sib = g.new
                           /\ Last(node[g.cur].keys) <= Last(node[g.new].keys)
  /\ g.pc \in {"latch_upper", "find", "unlatch_upper", "insert"} =>
       g.work \in NodeIds /\ ~ node[g.work].leaf
  /\ g.pc = "unlatch" => g.work \in NodeIds /\ ~ Empty(g.work)
  /\ g.pc \in {"find", "unlatch_upper"} => g.work # g.cur
  /\ g.pc = "unlatch_upper" => node[g.work].sib \notin {nullptr, g.cur, g.work}
  /\ g.pc \in {"find", "insert"} => (Empty(g.work) => low[g.work] = low[g.cur])
  /\ g.pc = "insert" => /\ low[g.new] = g.arg /\ g.arg \in content
                        /\ node[g.work].sib # nullptr => g.arg <= Last(node[g.work].keys)

\* The leaves that a scan holds are in order.
Scanning(low, t) == LET g == th[t] IN
  /\ g.pc \in {"scan", "scan_next", "release"} => g.stack # <<>>
  /\ g.pc = "scan" => g.cur = Last(g.stack)
  /\ g.pc = "scan_next" => g.cur \in NodeIds /\ node[g.cur].leaf /\ low[Last(g.stack)] < low[g.cur]
  /\ \A i \in DOMAIN g.stack : node[g.stack[i]].leaf
  /\ \A i, j \in DOMAIN g.stack : i < j => low[g.stack[i]] < low[g.stack[j]]

\* A thread that has made a new root and not latched it.
Creates(t) == th[t].pc = "latch_upper" /\ th[t].cur = root
\* The root starts below all keys; an empty node is being filled, and before
\* that only its maker can post into it; only the topmost nodes have no parent.
Roots(low) ==
  /\ low[root] = 0 /\ (Empty(root) => Filling(root))
  /\ \A t \in Threads : Creates(t) =>
       /\ Empty(th[t].work) /\ low[th[t].work] = low[th[t].cur] /\ th[t].work # root
       /\ node[th[t].cur].upper = th[t].work
       /\ \A u \in Threads \ {t} : th[u].pc \in {"latch_upper", "find", "unlatch_upper", "insert"} => th[u].work # th[t].work
  /\ \A t \in Threads : th[t].pc = "latch_upper" /\ th[t].cur # root => (Empty(th[t].work) => Filling(th[t].work))
  /\ \A n \in NodeIds : node[n].upper # nullptr /\ Empty(node[n].upper) =>
       Filling(node[n].upper) \/ \E u \in Threads : Creates(u) /\ th[u].work = node[n].upper /\ n \in {th[u].cur, th[u].new}
  /\ \A n \in NodeIds : node[n].upper = nullptr =>
       n = root \/ \E u \in Threads : \/ Creates(u) /\ n = th[u].work
                                      \/ th[u].pc = "split" /\ th[u].cur = root /\ n = th[u].new

\* The nodes that a thread can go to from its registers.
Uses(u, n) == \/ n \in {th[u].cur, th[u].work, th[u].new}
              \/ \E i \in DOMAIN th[u].path : th[u].path[i] = n
              \/ \E i \in DOMAIN th[u].stack : th[u].stack[i] = n
\* Until its parent is latched nobody but the maker knows of a right half,
\* except by the link of the left half.
Private(t) == th[t].pc \in Splitting =>
  /\ th[t].new # root /\ th[t].new # th[t].cur /\ th[t].new # th[t].work
  /\ \A i \in DOMAIN th[t].path : th[t].path[i] # th[t].new
  /\ \A n \in NodeIds : /\ n # th[t].cur => node[n].sib # th[t].new
                        /\ node[n].upper # th[t].new
                        /\ \A i \in DOMAIN node[n].kids : node[n].kids[i] # th[t].new
  /\ \A u \in Threads \ {t} : ~ Uses(u, th[t].new)

\* low[n] is the bound below the keys of node n; it never changes.
J(low) == /\ low \in [NodeIds -> Nat] /\ PlaceIsFirst
          /\ Types /\ Linked /\ Latched /\ Disjoint(low) /\ Roots(low)
          /\ \A n \in NodeIds : NodeOK(low, n)
          /\ \A t \in Threads : Calls(t) /\ Descends(low, t) /\ Climbs(low, t) /\ Scanning(low, t) /\ Private(t)
\* The inductive invariant: such bounds exist.
IInv == \E low : J(low)
=============================================================================
