--------------------------- MODULE BLinkTreeProofs --------------------------
(***************************************************************************)
(* Proofs about the lock-based B-link-tree, part 4: what holds of it for   *)
(* every set of keys and threads, every node size and every workload: the  *)
(* invariant, that it implements the map, and that scans see a snapshot.   *)
(***************************************************************************)
EXTENDS BLinkTreeWalks, BLinkTreeSplits, FiniteSetTheorems, WellFoundedInduction
-----------------------------------------------------------------------------
(* The invariant *)

\* A set of naturals that is not empty has a least member: what Min chooses.
LEMMA Least ==
  ASSUME NEW S \in SUBSET Nat, S # {}
  PROVE  Min(S) \in S /\ \A y \in S : Min(S) <= y
<1>1. PICK x \in S : \A y \in S : ~ (<<y, x>> \in OpToRel(<, Nat))
  BY NatLessThanWellFounded, WFMin, Zenon
<1>2. \A y \in S : x <= y
  <2> TAKE y \in S
  <2>1. <<y, x>> \in Nat \X Nat  OBVIOUS
  <2>2. ~ (y < x)  BY <1>1, <2>1 DEF OpToRel
  <2> QED  BY <2>2
<1> QED  BY <1>2, Zenon DEF Min

\* Place finds the first element that is not below k, or the place behind all:
\* node_scan and leaf_scan stop there.
LEMMA PlaceFinds == PlaceIsFirst
<1> SUFFICES ASSUME NEW s \in Seq(Nat), NEW k \in Nat
             PROVE  /\ Place(s, k) \in 1 .. Len(s) + 1
                    /\ Place(s, k) <= Len(s) => s[Place(s, k)] >= k
                    /\ \A i \in 1 .. Len(s) : i < Place(s, k) => s[i] < k
  BY DEF PlaceIsFirst
<1> DEFINE S == {i \in 1 .. Len(s) + 1 : i <= Len(s) => s[i] >= k}
<1>1. Len(s) \in Nat /\ \A i \in 1 .. Len(s) : s[i] \in Nat  OBVIOUS
<1>2. Len(s) + 1 \in S  BY <1>1
<1>3. S \in SUBSET Nat  BY <1>1
<1>4. Min(S) \in S /\ \A y \in S : Min(S) <= y  BY <1>2, <1>3, Least, Zenon
<1>5. \A i \in 1 .. Len(s) : i < Min(S) => ~ (s[i] >= k)
  <2> SUFFICES ASSUME NEW i \in 1 .. Len(s), i < Min(S), s[i] >= k PROVE FALSE  OBVIOUS
  <2>1. i \in S  BY <1>1
  <2> QED  BY <2>1, <1>4, <1>3
<1>6. Place(s, k) = Min(S)  BY DEF Place
<1> HIDE DEF S
<1>7. Min(S) \in 1 .. Len(s) + 1 /\ (Min(S) <= Len(s) => s[Min(S)] >= k)  BY <1>4 DEF S
<1> QED  BY <1>5, <1>6, <1>7, <1>1

\* Every step keeps the invariant.
LEMMA StepInv ==
  ASSUME IInv, [Next]_vars
  PROVE  IInv'
<1>1. PICK low : J(low)  BY DEF IInv
<1>2. ASSUME NEW t \in Threads, Walk(t), UNCHANGED ops PROVE IInv'
  <2>1. J(low)'  BY <1>1, <1>2, WalkInv
  <2> QED  BY <2>1 DEF IInv
<1>3. ASSUME NEW t \in Threads, InsertKey(t) \/ InsertChild(t), UNCHANGED ops PROVE IInv'
  <2>1. PICK c, lw, id : Grows(low, lw, t, c, id)  BY <1>1, <1>3, KeyStep, ChildStep
  <2>2. J(lw)'  BY <1>1, <2>1, GrowsInv
  <2> QED  BY <2>2 DEF IInv
<1>4. ASSUME NEW t \in Threads, NewRoot(t), UNCHANGED ops PROVE IInv'
  <2>1. PICK lw, x, y, id : Raised(low, lw, t, x, y, id)  BY <1>1, <1>4, Raises
  <2>2. J(lw)'  BY <1>1, <2>1, RaisedInv
  <2> QED  BY <2>2 DEF IInv
<1>5. ASSUME UNCHANGED vars PROVE IInv'
  <2>1. J(low)'  BY <1>1, <1>5, SameInv
  <2> QED  BY <2>1 DEF IInv
<1>6. Finish /\ UNCHANGED ops => UNCHANGED vars  BY DEF Finish, vars
<1>7. \A t \in Threads : Step(t) => Walk(t) \/ InsertKey(t) \/ InsertChild(t) \/ NewRoot(t)  BY Zenon DEF Step, Walk
<1> QED  BY <1>2, <1>3, <1>4, <1>5, <1>6, <1>7, Zenon DEF Next

\* Every step goes from a state in which the invariant holds to another one.
THEOREM TreeInvariant == Spec => []IInv
<1>1. Init => IInv  BY InitInv, PlaceFinds
<1>2. IInv /\ [Next]_vars => IInv'  BY StepInv
<1> QED  BY <1>1, <1>2, PTL DEF Spec

\* The invariant says all that TypeOK says.
LEMMA InvTypeOK ==
  ASSUME NEW low, J(low)
  PROVE  TypeOK
<1>0. Types /\ Linked /\ Latched  BY DEF J
<1>1. ASSUME NEW n \in NodeIds
      PROVE  /\ ToSet(node[n].keys) \subseteq Keys /\ ToSet(node[n].kids) \subseteq NodeIds
             /\ {node[n].sib, node[n].upper} \subseteq NodeIds \cup {nullptr}
             /\ ~ node[n].leaf /\ node[n].keys # <<>> =>
                  Len(node[n].kids) = Len(node[n].keys) + (IF node[n].sib = nullptr THEN 1 ELSE 0)
             /\ latch[n].excl \in Threads \cup {nullptr} /\ latch[n].shared \subseteq Threads
             /\ latch[n].excl # nullptr => latch[n].shared = {}
  <2>1. ToSet(node[n].keys) \subseteq Keys /\ Len(node[n].keys) \in Nat  BY <1>0, NodeFacts DEF ToSet
  <2>2. ToSet(node[n].kids) \subseteq NodeIds  BY <1>0 DEF Linked, ToSet
  <2>3. Links = NodeIds \cup {nullptr}  BY <1>0, NodeFacts DEF Links, nullptr
  <2>4. Routes(low, n)  BY DEF J, NodeOK
  <2>5. ~ node[n].leaf /\ node[n].keys # <<>> =>
          Len(node[n].kids) = Len(node[n].keys) + (IF node[n].sib = nullptr THEN 1 ELSE 0)
    <3> SUFFICES ASSUME ~ node[n].leaf /\ node[n].keys # <<>>
                 PROVE  Len(node[n].kids) = Len(node[n].keys) + (IF node[n].sib = nullptr THEN 1 ELSE 0)
      BY Zenon
    <3>1. CASE node[n].sib = nullptr  BY <2>1, <2>4, <3>1 DEF Routes
    <3>2. CASE node[n].sib # nullptr
      <4>1. Len(node[n].kids) = Len(node[n].keys)  BY <2>4, <3>2, Zenon DEF Routes
      <4> QED  BY <2>1, <3>2, <4>1
    <3> QED  BY <3>1, <3>2, Zenon
  <2>6. latch[n].excl \in Threads \cup {nullptr} /\ latch[n].shared \subseteq Threads  BY <1>0, NodeFacts
  <2> QED  BY <1>0, <2>1, <2>2, <2>3, <2>5, <2>6, Zenon DEF Linked, Latched
<1> QED  BY <1>0, <1>1, Zenon DEF TypeOK, Types

\* Links name nodes, kids go with keys, and a latch has one writer or readers,
\* for every workload.
THEOREM TreeTypeOK == Spec => []TypeOK
<1>1. IInv => TypeOK  BY InvTypeOK DEF IInv
<1> QED  BY <1>1, TreeInvariant, PTL
-----------------------------------------------------------------------------
(* The tree implements the map *)

\* An inner node has keys of the tree only.
LEMMA InnerDecides ==
  ASSUME NEW low, J(low), NEW c \in NodeIds, ~ node[c].leaf, NEW k \in Nat, holds(node[c], k)
  PROVE  k \in content
<1>0. Types /\ Routes(low, c)  BY DEF J, NodeOK
<1>1. PICK s, i : s = node[c].keys /\ i = Place(s, k)  OBVIOUS
<1>2. s \in Seq(Nat) /\ Len(s) \in Nat /\ DOMAIN s = 1 .. Len(s)  BY <1>0, <1>1, NodeFacts
<1>3. i \in 1 .. Len(s) + 1  BY <1>1, <1>2, PlaceFacts
<1>4. i <= Len(s) /\ s[i] = k  BY <1>1 DEF holds, NodeScan
<1>5. i \in DOMAIN s  BY <1>2, <1>3, <1>4
<1> QED  BY <1>0, <1>1, <1>4, <1>5 DEF Routes

\* What the map sees of a thread's registers.
View(g) ==
  LET done == g.pc \notin {"idle", "descend", "leaf", "unlatch_left"} IN
  IF g.op \in Scans \cup {"none"} THEN [op |-> "none", key |-> 0, done |-> FALSE, ret |-> FALSE]
  ELSE [op |-> IF g.op = "Insert" THEN "upsert" ELSE "lookup", key |-> g.key,
        done |-> done, ret |-> done /\ (g.ret # (g.op = "Insert"))]

\* The map sees the registers of one thread change.
LEMMA CallIsView ==
  ASSUME NEW t \in Threads, \A u \in Threads \ {t} : th'[u] = th[u]
  PROVE  /\ call[t] = View(th[t]) /\ call'[t] = View(th'[t])
         /\ call' = [call EXCEPT ![t] = View(th'[t])]
         /\ View(th'[t]) = View(th[t]) => call' = call
<1>1. call = [u \in Threads |-> View(th[u])]  BY Zenon DEF call, View
<1>2. call' = [u \in Threads |-> View(th'[u])]  BY Zenon DEF call, View
<1>3. \A u \in Threads \ {t} : View(th'[u]) = View(th[u])  BY Zenon
<1> HIDE DEF View
<1> QED  BY <1>1, <1>2, <1>3

\* The three moves of the map, in terms of the registers.
LEMMA MapCall ==
  ASSUME NEW t \in Threads, \A u \in Threads \ {t} : th'[u] = th[u], content' = content,
         th[t].op = "none", th'[t].op \in {"Insert", "Update", "Search"}, th'[t].key \in Keys, th'[t].pc = "descend"
  PROVE  Map!Call(t)
<1>1. View(th[t]) = Map!NoCall  BY DEF View, Map!NoCall
<1>2. View(th'[t]) \in [op : Map!Operations, key : Keys, done : {FALSE}, ret : {FALSE}]
  <2>1. View(th'[t]) = [op |-> IF th'[t].op = "Insert" THEN "upsert" ELSE "lookup", key |-> th'[t].key, done |-> FALSE, ret |-> FALSE]
    BY Zenon DEF View, Scans
  <2> QED  BY <2>1 DEF Map!Operations
<1>3. /\ call[t] = View(th[t]) /\ call'[t] = View(th'[t]) /\ call' = [call EXCEPT ![t] = View(th'[t])]
  BY CallIsView
<1> HIDE DEF View
<1> QED  BY <1>1, <1>2, <1>3, Zenon DEF Map!Call

\* An operation returns when the map operation does.
LEMMA MapReturn ==
  ASSUME NEW t \in Threads, \A u \in Threads \ {t} : th'[u] = th[u], content' = content,
         th[t].op \in {"Insert", "Update", "Search"}, th[t].pc = "return", th'[t].op = "none"
  PROVE  Map!Return(t)
<1>1. View(th'[t]) = Map!NoCall  BY DEF View, Map!NoCall
<1>2. View(th[t]).done  BY Zenon DEF View, Scans
<1>3. /\ call[t] = View(th[t]) /\ call' = [call EXCEPT ![t] = View(th'[t])]
  BY CallIsView
<1> HIDE DEF View
<1> QED  BY <1>1, <1>2, <1>3 DEF Map!Return

\* An operation takes effect with the right result.
LEMMA MapAct ==
  ASSUME NEW t \in Threads, \A u \in Threads \ {t} : th'[u] = th[u],
         th[t].op \in {"Insert", "Update", "Search"}, th[t].pc \in {"descend", "leaf"},
         th'[t].op = th[t].op, th'[t].key = th[t].key,
         th'[t].pc \notin {"idle", "descend", "leaf", "unlatch_left"}, th'[t].ret \in BOOLEAN,
         (th'[t].ret # (th[t].op = "Insert")) <=> (th[t].key \in content),
         content' = IF th[t].op = "Insert" THEN content \cup {th[t].key} ELSE content
  PROVE  Map!Act(t)
<1> DEFINE o == IF th[t].op = "Insert" THEN "upsert" ELSE "lookup"
<1>1. View(th[t]) = [op |-> o, key |-> th[t].key, done |-> FALSE, ret |-> FALSE]  BY Zenon DEF View, Scans
<1>2. View(th'[t]) = [op |-> o, key |-> th[t].key, done |-> TRUE, ret |-> th[t].key \in content]
  <2>1. View(th'[t]) = [op |-> o, key |-> th[t].key, done |-> TRUE, ret |-> (th'[t].ret # (th[t].op = "Insert"))]
    BY Zenon DEF View, Scans
  <2>2. (th'[t].ret # (th[t].op = "Insert")) = (th[t].key \in content)  OBVIOUS
  <2> QED  BY <2>1, <2>2, Zenon
<1>3. /\ call[t] = View(th[t]) /\ call' = [call EXCEPT ![t] = View(th'[t])]
  BY CallIsView
<1> HIDE DEF View
<1>4. call' = [call EXCEPT ![t] = [call[t] EXCEPT !.done = TRUE, !.ret = call[t].key \in content]]
  <2>1. [call[t] EXCEPT !.done = TRUE, !.ret = call[t].key \in content]
          = [op |-> o, key |-> th[t].key, done |-> TRUE, ret |-> th[t].key \in content]
    <3>1. PICK p, k, v, yes, no : p = o /\ k = th[t].key /\ v = (k \in content) /\ yes = TRUE /\ no = FALSE  BY Zenon
    <3>2. call[t] = [op |-> p, key |-> k, done |-> no, ret |-> no]  BY <1>1, <1>3, <3>1, Zenon
    <3>3. PICK r, f : r = [op |-> p, key |-> k, done |-> no, ret |-> no] /\ f = [r EXCEPT !.done = yes]  BY Zenon
    <3>4. f = [op |-> p, key |-> k, done |-> yes, ret |-> no] /\ r.key = k  BY <3>3
    <3>5. [f EXCEPT !.ret = v] = [op |-> p, key |-> k, done |-> yes, ret |-> v]  BY <3>4
    <3>6. [r EXCEPT !.done = yes, !.ret = v] = [op |-> p, key |-> k, done |-> yes, ret |-> v]
      BY <3>3, <3>5, Zenon
    <3>7. call[t] = r /\ (call[t].key \in content) = v  BY <3>1, <3>2, <3>3, <3>4, Zenon
    <3>8. [call[t] EXCEPT !.done = TRUE, !.ret = call[t].key \in content] = [r EXCEPT !.done = yes, !.ret = v]
      BY <3>1, <3>7, Zenon
    <3> QED  BY <3>1, <3>6, <3>8, Zenon
  <2> QED  BY <1>2, <1>3, <2>1, Zenon
<1>5. call' = [call EXCEPT ![t].done = TRUE, ![t].ret = call[t].key \in content]
  BY <1>4, Zenon
<1>6. call[t].op \in Map!Operations /\ ~ call[t].done  BY <1>1, <1>3 DEF Map!Operations
<1>7. content' = CASE call[t].op = "upsert" -> content \cup {call[t].key}
                   [] call[t].op = "remove" -> content \ {call[t].key}
                   [] OTHER -> content
  BY <1>1, <1>3
<1> QED  BY <1>5, <1>6, <1>7, Zenon DEF Map!Act

\* The map does not see what a thread does before it gets its answer, after
\* that, or in a scan.
LEMMA MapStutters ==
  ASSUME NEW t \in Threads, \A u \in Threads \ {t} : th'[u] = th[u], content' = content,
         \/ th'[t].op \in Scans \cup {"none"} /\ th[t].op \in Scans \cup {"none"}
         \/ /\ th'[t].op = th[t].op /\ th'[t].key = th[t].key /\ th'[t].ret = th[t].ret
            /\ th'[t].pc \in {"idle", "descend", "leaf", "unlatch_left"} <=> th[t].pc \in {"idle", "descend", "leaf", "unlatch_left"}
  PROVE  UNCHANGED Map!vars
<1>1. View(th'[t]) = View(th[t])
  <2>1. CASE th'[t].op \in Scans \cup {"none"} /\ th[t].op \in Scans \cup {"none"}  BY <2>1 DEF View
  <2>2. CASE /\ th'[t].op = th[t].op /\ th'[t].key = th[t].key /\ th'[t].ret = th[t].ret
             /\ th'[t].pc \in {"idle", "descend", "leaf", "unlatch_left"} <=> th[t].pc \in {"idle", "descend", "leaf", "unlatch_left"}
    BY <2>2 DEF View
  <2> QED  BY <2>1, <2>2
<1>2. call' = call  BY <1>1, CallIsView
<1> QED  BY <1>2 DEF Map!vars

\* A step of the tree is a step of the map or changes nothing of it.
LEMMA MapStep ==
  ASSUME IInv, [Next]_vars
  PROVE  [Map!Next]_(Map!vars)
<1>1. PICK low : J(low)  BY DEF IInv
<1>2. Types  BY <1>1 DEF J
<1>3. ASSUME UNCHANGED vars PROVE UNCHANGED Map!vars
  <2>1. node' = node /\ th' = th  BY <1>3 DEF vars
  <2>2. content' = content  BY <2>1 DEF content, NodeIds
  <2>3. call' = call  BY <2>1, Zenon DEF call
  <2> QED  BY <2>2, <2>3 DEF Map!vars
<1>4. ASSUME NEW t \in Threads, Step(t), UNCHANGED ops PROVE (\E u \in Threads : Map!Call(u) \/ Map!Act(u) \/ Map!Return(u)) \/ UNCHANGED Map!vars
  <2> DEFINE g == th[t]
  <2>0. \A u \in Threads \ {t} : th'[u] = th[u]  BY <1>2, <1>4, Others
  <2>a. /\ Calls(t) /\ Descends(low, t) /\ g.key \in Nat /\ g.ret \in BOOLEAN
        /\ g.op \in {"Insert", "Update", "Search", "none"} \cup Scans
    BY <1>1, <1>2, RegisterFacts DEF J
  <2>b. Walk(t) => content' = content
    <3> HAVE Walk(t)
    <3>1. node' = node  BY <1>1, <1>4, WalkTypes
    <3> QED  BY <3>1 DEF content, NodeIds
  <2>1. CASE Begin(t)
    <3>1. PICK o : Calling(t, o)  BY <1>1, <2>1, MoreEffects, Zenon
    <3>2. /\ o[1] \in {"Insert", "Update", "Search"} \cup Scans /\ o[2] \in Keys
      BY <3>1 DEF Calling, Operations
    <3>3. th'[t].pc = "descend" /\ th'[t].op = o[1] /\ th'[t].key = o[2]  BY <3>1 DEF Calling, Becomes
    <3>4. content' = content  BY <2>1, <2>b DEF Walk
    <3>5. g.op = "none"  BY <2>1, <2>a DEF Begin, At, Calls
    <3>6. CASE o[1] \in Scans
      <4>1. UNCHANGED Map!vars  BY <2>0, <3>3, <3>4, <3>5, <3>6, MapStutters
      <4> QED  BY <4>1
    <3>7. CASE o[1] \in {"Insert", "Update", "Search"}
      <4>1. Map!Call(t)  BY <2>0, <3>2, <3>3, <3>4, <3>5, <3>7, MapCall
      <4> QED  BY <4>1
    <3> QED  BY <3>2, <3>6, <3>7
  <2>2. CASE Descend(t)
    <3>0. content' = content  BY <2>2, <2>b DEF Walk
    <3>1. g.pc = "descend"  BY <2>2 DEF Descend, At
    <3>2. \/ \E c, p : Moving(t, "descend", c, p)
          \/ Found(t) /\ Moving(t, "return", g.cur, g.path)
      BY <1>1, <2>2, MoreEffects, Zenon
    <3>3. ASSUME NEW c, NEW p, Moving(t, "descend", c, p) PROVE UNCHANGED Map!vars
      <4>1. th'[t].op = g.op /\ th'[t].key = g.key /\ th'[t].ret = g.ret /\ th'[t].pc = "descend"  BY <3>3 DEF Moving, Becomes
      <4> QED  BY <2>0, <3>0, <3>1, <4>1, MapStutters
    <3>4. ASSUME Found(t), Moving(t, "return", g.cur, g.path) PROVE Map!Act(t)
      <4>1. th'[t].op = g.op /\ th'[t].key = g.key /\ th'[t].ret = g.ret /\ th'[t].pc = "return"  BY <3>4 DEF Moving, Becomes
      <4>2. g.op = "Insert" /\ holds(node[g.cur], g.key)  BY <3>4 DEF Found, Cur
      <4>3. g.cur \in NodeIds /\ ~ node[g.cur].leaf  BY <1>1, <2>2, NextNode, Zenon DEF Cur
      <4>4. g.key \in content  BY <1>1, <2>a, <4>2, <4>3, InnerDecides
      <4>5. g.ret = FALSE  BY <2>a, <3>1 DEF Calls
      <4>6. content' = content \cup {g.key}  BY <3>0, <4>4
      <4> QED  BY <2>0, <3>1, <4>1, <4>2, <4>4, <4>5, <4>6, MapAct, Zenon
    <3> QED  BY <3>2, <3>3, <3>4
  <2>3. CASE LatchLeaf(t) \/ MoveRight(t) \/ LatchSibling(t) \/ UnlatchLeft(t)
    <3>0. content' = content  BY <2>3, <2>b DEF Walk
    <3>1. g.pc \in {"descend", "leaf", "unlatch_left"}  BY <2>3 DEF LatchLeaf, MoveRight, LatchSibling, UnlatchLeft, At
    <3>2. th'[t].op = g.op /\ th'[t].key = g.key /\ th'[t].ret = g.ret /\ th'[t].pc \in {"descend", "leaf", "unlatch_left"}
      BY <1>2, <2>3, Effects, Zenon DEF Becomes
    <3>3. UNCHANGED Map!vars  BY <2>0, <3>0, <3>1, <3>2, MapStutters
    <3> QED  BY <3>3
  <2>4. CASE FoundOrNot(t) \/ InsertRefused(t) \/ InsertKey(t)
    <3>1. /\ g.pc = "leaf" /\ g.op \in {"Insert", "Update", "Search"} /\ ~ beyond(node[g.cur], g.key)
      BY <2>4 DEF FoundOrNot, InsertRefused, InsertKey, At, Cur
    <3>2. g.cur \in NodeIds /\ node[g.cur].leaf /\ low[g.cur] < g.key /\ g.ret = FALSE  BY <2>a, <3>1 DEF Descends, Calls
    <3>3. holds(node[g.cur], g.key) <=> g.key \in content  BY <1>1, <2>a, <3>1, <3>2, LeafDecides
    <3>4. CASE FoundOrNot(t)
      <4>1. content' = content  BY <3>4, <2>b DEF Walk
      <4>2. Becomes(t, "return", g.op, g.key, g.arg, g.cur, g.work, g.path, g.new, holds(Cur(t), g.key), g.pairs, g.stack)
        BY <1>2, <3>4, Effects, Zenon
      <4>3. th'[t].op = g.op /\ th'[t].key = g.key /\ th'[t].ret = holds(node[g.cur], g.key) /\ th'[t].pc = "return"
        BY <4>2 DEF Becomes, Cur
      <4>4. g.op # "Insert"  BY <3>4 DEF FoundOrNot
      <4>5. th'[t].ret = (g.key \in content) /\ th'[t].ret \in BOOLEAN
        <5>1. holds(node[g.cur], g.key) \in BOOLEAN  BY DEF holds
        <5> QED  BY <3>3, <4>3, <5>1
      <4>6. ((th'[t].ret # (g.op = "Insert")) <=> (g.key \in content))  BY <4>4, <4>5
      <4>7. Map!Act(t)  BY <2>0, <3>1, <4>1, <4>3, <4>4, <4>5, <4>6, MapAct, Zenon
      <4> QED  BY <4>7
    <3>5. CASE InsertRefused(t)
      <4>1. content' = content  BY <3>5, <2>b DEF Walk
      <4>2. Becomes(t, "return", g.op, g.key, g.arg, g.cur, g.work, g.path, g.new, g.ret, g.pairs, g.stack)
        BY <1>2, <3>5, Effects, Zenon
      <4>3. th'[t].op = g.op /\ th'[t].key = g.key /\ th'[t].ret = FALSE /\ th'[t].pc = "return"
        BY <3>2, <4>2 DEF Becomes
      <4>4. g.op = "Insert" /\ g.key \in content  BY <3>3, <3>5 DEF InsertRefused, Cur
      <4>5. content' = content \cup {g.key}  BY <4>1, <4>4
      <4>6. Map!Act(t)  BY <2>0, <3>1, <4>3, <4>4, <4>5, MapAct, Zenon
      <4> QED  BY <4>6
    <3>6. CASE InsertKey(t)
      <4>1. PICK c, lw, id : Grows(low, lw, t, c, id) /\ NewContent(t, c) /\ node[c].leaf  BY <1>1, <1>4, <3>6, KeyStep
      <4>2. content' = content \cup {g.key}  BY <4>1 DEF NewContent
      <4>3. g.op = "Insert" /\ g.key \notin content  BY <3>3, <3>6 DEF InsertKey, Cur
      <4>4. th'[t].op = "Insert" /\ th'[t].key = g.key /\ th'[t].ret = TRUE /\ th'[t].pc \in {"split", "unlatch"}
        BY <4>1 DEF Grows, FitsIn, IsSplit, Adds, Becomes
      <4>5. ((th'[t].ret # (g.op = "Insert")) <=> (g.key \in content)) /\ th'[t].ret \in BOOLEAN  BY <4>3, <4>4, Zenon
      <4>6. Map!Act(t)  BY <2>0, <3>1, <4>2, <4>3, <4>4, <4>5, MapAct
      <4> QED  BY <4>6
    <3> QED  BY <2>4, <3>4, <3>5, <3>6
  <2>5. CASE PopPath(t) \/ TrackUpper(t) \/ LatchUpper(t) \/ LatchUpperSibling(t) \/ UnlatchUpper(t) \/ UnlatchChild(t) \/ UnlatchLast(t)
    <3>0. content' = content  BY <2>5, <2>b DEF Walk
    <3>1. g.pc \in {"split", "latch_upper", "find", "unlatch_upper", "unlatch"}
      BY <2>5 DEF PopPath, TrackUpper, LatchUpper, LatchUpperSibling, UnlatchUpper, UnlatchChild, UnlatchLast, At
    <3>2. /\ th'[t].op = g.op /\ th'[t].key = g.key /\ th'[t].ret = g.ret
          /\ th'[t].pc \in {"latch_upper", "find", "unlatch_upper", "insert", "return"}
      BY <1>2, <2>5, Effects, Zenon DEF Becomes
    <3>3. UNCHANGED Map!vars  BY <2>0, <3>0, <3>1, <3>2, MapStutters
    <3> QED  BY <3>3
  <2>6. CASE InsertChild(t)
    <3>1. PICK c, lw, id : Grows(low, lw, t, c, id) /\ NewContent(t, c) /\ ~ node[c].leaf  BY <1>1, <1>4, <2>6, ChildStep
    <3>2. content' = content  BY <3>1 DEF NewContent
    <3>3. g.pc = "insert"  BY <2>6 DEF InsertChild, At
    <3>4. g.op = "Insert" /\ g.ret = TRUE  BY <2>a, <3>3 DEF Calls
    <3>5. th'[t].op = "Insert" /\ th'[t].key = g.key /\ th'[t].ret = TRUE /\ th'[t].pc \in {"split", "unlatch"}
      BY <3>1 DEF Grows, FitsIn, IsSplit, Adds, Becomes
    <3>6. UNCHANGED Map!vars  BY <2>0, <3>2, <3>3, <3>4, <3>5, MapStutters, Zenon
    <3> QED  BY <3>6
  <2>7. CASE NewRoot(t)
    <3>1. PICK lw, x, y, id : Raised(low, lw, t, x, y, id)  BY <1>1, <1>4, <2>7, Raises
    <3>2. content' = content  BY <3>1 DEF Raised
    <3>3. g.pc = "split"  BY <2>7 DEF NewRoot, At
    <3>4. g.op = "Insert" /\ g.ret = TRUE  BY <2>a, <3>3 DEF Calls, Splitting
    <3>5. th'[t].op = "Insert" /\ th'[t].key = g.key /\ th'[t].ret = TRUE /\ th'[t].pc = "latch_upper"
      BY <3>1 DEF Raised, Becomes
    <3>6. UNCHANGED Map!vars  BY <2>0, <3>2, <3>3, <3>4, <3>5, MapStutters, Zenon
    <3> QED  BY <3>6
  <2>8. CASE ScanEmpty(t) \/ ScanStart(t) \/ ScanLeaf(t) \/ ScanNext(t) \/ ScanEnd(t) \/ Release(t)
    <3>0. content' = content  BY <2>8, <2>b DEF Walk
    <3>1. g.op \in Scans
      BY <2>8, <2>a DEF Calls, ScanEmpty, ScanStart, ScanLeaf, ScanNext, ScanEnd, Release, At
    <3>2. th'[t].op = g.op
      <4>1. Release(t) => th'[t].op = g.op  BY <1>1, MoreEffects, Zenon DEF Becomes
      <4> QED  BY <1>2, <2>8, <4>1, Effects, Zenon DEF Becomes
    <3>3. UNCHANGED Map!vars  BY <2>0, <3>0, <3>1, <3>2, MapStutters
    <3> QED  BY <3>3
  <2>9. CASE Return(t)
    <3>0. content' = content  BY <2>9, <2>b DEF Walk
    <3>1. g.pc = "return" /\ g.op # "none"  BY <2>9, <2>a DEF Return, At, Calls
    <3>2. th'[t].op = "none"  BY <1>1, <2>9, MoreEffects, Zenon DEF Becomes
    <3>3. CASE g.op \in Scans
      <4>1. UNCHANGED Map!vars  BY <2>0, <3>0, <3>2, <3>3, MapStutters
      <4> QED  BY <4>1
    <3>4. CASE g.op \in {"Insert", "Update", "Search"}
      <4>1. Map!Return(t)  BY <2>0, <3>0, <3>1, <3>2, <3>4, MapReturn
      <4> QED  BY <4>1
    <3> QED  BY <2>a, <3>1, <3>3, <3>4
  <2> QED  BY <1>4, <2>1, <2>2, <2>3, <2>4, <2>5, <2>6, <2>7, <2>8, <2>9, Zenon DEF Step
<1>5. Finish /\ UNCHANGED ops => UNCHANGED vars  BY DEF Finish, vars
<1> QED  BY <1>3, <1>4, <1>5, Zenon DEF Next, Map!Next

\* The tree is a map, for every workload of every number of threads: Insert,
\* Search and Update take effect and get their answers in one step, and
\* splits, new roots and scans change nothing of the set of keys.
THEOREM TreeIsMap == Spec => IsMap
<1>1. Init => Map!Init
  <2> HAVE Init
  <2>1. node = <<NewNode(TRUE)>> /\ th = [t \in Threads |-> Idle]  BY DEF Init
  <2>2. content = {}
    <3>1. node[1].keys = <<>> /\ DOMAIN node = 1 .. 1  BY <2>1 DEF NewNode
    <3>2. \A n \in NodeIds : ToSet(node[n].keys) = {}  BY <3>1 DEF NodeIds, ToSet
    <3> QED  BY <3>2 DEF content
  <2>3. call = [t \in Threads |-> Map!NoCall]
    <3>1. \A t \in Threads : th[t].op = "none"  BY <2>1 DEF Idle
    <3> QED  BY <3>1 DEF call, Map!NoCall
  <2> QED  BY <2>2, <2>3 DEF Map!Init
<1>2. IInv /\ [Next]_vars => [Map!Next]_(Map!vars)  BY MapStep
<1> QED  BY <1>1, <1>2, TreeInvariant, PTL DEF Spec, IsMap, Map!Spec
-----------------------------------------------------------------------------
(* The first keys from a key on *)

\* An increasing sequence with exactly the members of F up to hi has the
\* smallest ones: as many as it is long, or all.
LEMMA Smallest ==
  ASSUME NEW F \in SUBSET Nat, NEW p \in Seq(Nat), Increasing(p), NEW hi \in Int,
         \A k \in Nat : k \in ToSet(p) <=> k \in F /\ k <= hi,
         NEW n \in Nat, Len(p) = n \/ (Len(p) < n /\ \A k \in F : k <= hi)
  PROVE  ToSet(p) = {k \in F : Cardinality({j \in F : j < k}) < n}
<1> DEFINE Below(k) == {j \in F : j < k}
<1>1. PICK l : l = Len(p)  OBVIOUS
<1>2. l \in Nat /\ DOMAIN p = 1 .. l /\ \A i \in 1 .. l : p[i] \in Nat /\ p[i] \in ToSet(p)
  BY <1>1 DEF ToSet
<1>3. \A k \in ToSet(p) : k \in Nat /\ \E i \in 1 .. l : p[i] = k  BY <1>2 DEF ToSet
<1>4. \A i \in 1 .. l : p[i] \in F /\ p[i] <= hi  BY <1>2
<1>5. \A k \in Nat : IsFiniteSet(Below(k)) /\ Cardinality(Below(k)) \in Nat
  <2> TAKE k \in Nat
  <2>1. IsFiniteSet(0 .. k)  BY FS_Interval
  <2>2. Below(k) \in SUBSET (0 .. k)
    <3>1. \A j \in F : j < k => j \in 0 .. k  OBVIOUS
    <3> QED  BY <3>1, Zenon
  <2> HIDE DEF Below
  <2>3. IsFiniteSet(Below(k))  BY <2>1, <2>2, FS_Subset
  <2> QED  BY <2>3, FS_CardinalityType
<1>6. ASSUME NEW x \in 0 .. l, NEW k \in Nat, \A i \in 1 .. x : p[i] < k
      PROVE  Cardinality(Below(k)) >= x /\ ((\A j \in Below(k) : \E i \in 1 .. x : p[i] = j) => Cardinality(Below(k)) = x)
  <2> DEFINE T == {p[i] : i \in 1 .. x}
             f == [i \in 1 .. x |-> p[i]]
  <2>1. x \in Nat /\ \A i \in 1 .. x : i \in 1 .. l  BY <1>2
  <2>2. f \in Bijection(1 .. x, T)
    <3>1. ASSUME NEW i \in 1 .. x, NEW j \in 1 .. x, p[i] = p[j] PROVE i = j
      <4>1. i \in 1 .. l /\ j \in 1 .. l /\ i \in Int /\ j \in Int  BY <2>1
      <4>2. ~ (i < j) /\ ~ (j < i)
        <5>1. i < j => p[i] < p[j]  BY <1>2, <4>1 DEF Increasing
        <5>2. j < i => p[j] < p[i]  BY <1>2, <4>1, Zenon DEF Increasing
        <5> QED  BY <1>2, <3>1, <4>1, <5>1, <5>2
      <4> QED  BY <4>1, <4>2
    <3> QED  BY <3>1 DEF Bijection, Injection, Surjection, IsInjective
  <2>3. ExistsBijection(1 .. x, T)  BY <2>2, Zenon DEF ExistsBijection
  <2>4. Cardinality(T) = x /\ IsFiniteSet(T)
    <3> HIDE DEF T, f
    <3>1. IsFiniteSet(1 .. x)  BY <2>1, FS_Interval
    <3>2. Cardinality(T) = x  BY <2>1, <2>3, FS_CountingElements
    <3>3. IsFiniteSet(T)  BY <2>3, <3>1, FS_Bijection
    <3> QED  BY <3>2, <3>3
  <2>5. T \in SUBSET Below(k)  BY <1>2, <1>4, <1>6, <2>1
  <2>6. (\A j \in Below(k) : \E i \in 1 .. x : p[i] = j) => Below(k) = T  BY <2>5, Zenon
  <2> HIDE DEF T, f, Below
  <2>7. IsFiniteSet(Below(k)) /\ Cardinality(Below(k)) \in Nat  BY <1>5
  <2>8. Cardinality(T) <= Cardinality(Below(k))  BY <2>5, <2>7, FS_Subset
  <2> QED  BY <2>1, <2>4, <2>6, <2>7, <2>8
<1>7. ASSUME NEW i \in 1 .. l PROVE Cardinality(Below(p[i])) < n
  <2>1. i - 1 \in 0 .. l /\ p[i] \in Nat /\ i \in Nat  BY <1>2
  <2>2. \A j \in 1 .. i - 1 : p[j] < p[i]
    <3> TAKE j \in 1 .. i - 1
    <3>1. j \in DOMAIN p /\ i \in DOMAIN p /\ j < i  BY <1>2
    <3> QED  BY <3>1 DEF Increasing
  <2>3. ASSUME NEW j \in Below(p[i]) PROVE \E x \in 1 .. i - 1 : p[x] = j
    <3>1. j \in F /\ j < p[i] /\ j \in Nat  OBVIOUS
    <3>2. j <= hi  BY <1>2, <1>4, <3>1
    <3>3. PICK x \in 1 .. l : p[x] = j  BY <1>3, <3>1, <3>2
    <3>4. ~ (i < x)
      <4>1. i < x => p[i] < p[x]  BY <1>2 DEF Increasing
      <4> QED  BY <1>2, <3>1, <3>3, <4>1
    <3>5. x # i  BY <3>1, <3>3
    <3>6. x \in 1 .. i - 1  BY <1>2, <3>4, <3>5
    <3> QED  BY <3>3, <3>6
  <2> HIDE DEF Below
  <2>4. Cardinality(Below(p[i])) = i - 1  BY <1>6, <2>1, <2>2, <2>3, Zenon
  <2> QED  BY <1>1, <1>2, <2>4
<1>8. ASSUME NEW k \in F, k \notin ToSet(p) PROVE ~ (Cardinality(Below(k)) < n)
  <2>1. k \in Nat /\ ~ (k <= hi)  BY <1>8
  <2>2. l = n  BY <1>1, <1>8, <2>1
  <2>3. \A i \in 1 .. l : p[i] < k  BY <1>2, <1>4, <2>1
  <2>4. l \in 0 .. l  BY <1>2
  <2> HIDE DEF Below
  <2>5. Cardinality(Below(k)) >= l /\ Cardinality(Below(k)) \in Nat  BY <1>5, <1>6, <2>1, <2>3, <2>4
  <2> QED  BY <1>2, <2>2, <2>5
<1>9. \A k \in ToSet(p) : k \in F /\ Cardinality(Below(k)) < n
  <2> HIDE DEF Below
  <2> QED  BY <1>3, <1>4, <1>7
<1>10. ToSet(p) = {k \in F : Cardinality(Below(k)) < n}
  <2> HIDE DEF Below
  <2> QED  BY <1>8, <1>9, Zenon
<1> QED  BY <1>10

-----------------------------------------------------------------------------
(* The steps of the scans *)

\* ScanStart: the first leaf is the one for the first key.
LEMMA GathersFirst ==
  ASSUME NEW low, J(low), NEW t \in Threads, ScanStart(t), Gathered(low, t)
  PROVE  Gathered(low, t)'
<1> DEFINE g == th[t]
           c == th[t].cur
<1>0. Types /\ g.pc = "leaf" /\ node' = node  BY DEF J, ScanStart, At
<1>1. /\ th'[t].pc = "scan" /\ th'[t].stack = <<c>> /\ th'[t].pairs = g.pairs /\ th'[t].key = g.key /\ g.pairs = <<>>
  BY <1>0, Effects, Zenon DEF Becomes, Gathered
<1>2. c \in NodeIds /\ low[c] < g.key /\ node[c].leaf /\ low[c] \in Nat /\ g.key \in Nat
  BY <1>0, RegisterFacts, Zenon DEF J, Descends
<1>3. Here(t)' = c /\ Len(<<c>>) = 1 /\ DOMAIN <<c>> = {1} /\ <<c>>[1] = c
  <2>1. Len(<<c>>) = 1 /\ <<c>>[1] = c /\ DOMAIN <<c>> = {1}  OBVIOUS
  <2> QED  BY <1>1, <2>1 DEF Here, Last
<1>4. PICK s, a : s = node[c].keys /\ a = Place(s, g.key)  OBVIOUS
<1>5. s \in Seq(Nat) /\ Len(s) \in Nat /\ DOMAIN s = 1 .. Len(s)  BY <1>0, <1>2, <1>4, NodeFacts
<1>6. a \in 1 .. Len(s) + 1 /\ (a <= Len(s) => s[a] >= g.key)  BY <1>2, <1>4, <1>5, PlaceFacts, Zenon
<1>7. a <= Len(s)  BY <1>4 DEF ScanStart, NodeScan, Cur
<1>8. s # <<>> /\ g.key <= Last(s)
  <2>0. a \in 1 .. Len(s) /\ Len(s) \in 1 .. Len(s) /\ Len(s) # 0 /\ (a < Len(s) \/ a = Len(s))
    <3>1. \A l \in Nat : \A i \in 1 .. l + 1 : i <= l => i \in 1 .. l /\ l \in 1 .. l /\ l # 0 /\ (i < l \/ i = l)  OBVIOUS
    <3> QED  BY <1>5, <1>6, <1>7, <3>1, Zenon
  <2>a. Len(<<>>) = 0  OBVIOUS
  <2>1. s # <<>> /\ Last(s) = s[Len(s)] /\ a \in DOMAIN s /\ Len(s) \in DOMAIN s /\ (a < Len(s) \/ a = Len(s))
    BY <1>5, <2>0, <2>a, Zenon DEF Last
  <2>2. a < Len(s) => s[a] < s[Len(s)]  BY <1>2, <1>4, <2>1, Zenon DEF J, NodeOK, Ordered
  <2>3. s[a] \in Nat /\ s[Len(s)] \in Nat  BY <1>5, <2>1
  <2> QED  BY <1>2, <1>6, <1>7, <2>1, <2>2, <2>3
<1>9. Covers(low, t)'
  <2>1. \A k \in Nat : g.key <= k => low[c] < k  BY <1>2
  <2> SUFFICES ASSUME NEW k \in Nat, g.key <= k, ~ beyond(node[c], k)
               PROVE  \E i \in DOMAIN <<c>> : low[<<c>>[i]] < k /\ ~ beyond(node[<<c>>[i]], k)
    BY <1>0, <1>1, <1>3, Zenon DEF Covers, InRange
  <2> QED  BY <1>3, <2>1, Zenon
<1>10. Increasing(th[t].pairs)'
  <2>1. Increasing(<<>>)  BY DEF Increasing
  <2> QED  BY <1>1, <2>1
<1>11. Started(low, t)'
  <2>1. low[Here(t)'] < g.key /\ g.key <= Last(node[Here(t)'].keys) /\ th'[t].pairs = <<>>  BY <1>1, <1>2, <1>3, <1>4, <1>8
  <2> QED  BY <1>0, <1>1, <2>1, Zenon DEF Started
<1>12. (node[Here(t)].keys # <<>>)'  BY <1>0, <1>3, <1>4, <1>8, Zenon
<1>13. Len(th'[t].stack) = 1  BY <1>1, <1>3, Zenon
<1>14. th'[t].pc \notin {"idle", "descend", "leaf", "unlatch_left", "scan_next", "release"}  BY <1>1
<1> QED  BY <1>9, <1>10, <1>11, <1>12, <1>13, <1>14, Zenon DEF Gathered

\* ScanLeaf: with all keys of the leaf, on to the sibling.
LEMMA GathersOn ==
  ASSUME NEW low, J(low), NEW t \in Threads, ScanLeaf(t), Gathered(low, t)
  PROVE  Gathered(low, t)'
<1> DEFINE g == th[t]
           c == Here(t)
<1>0. Types /\ g.pc = "scan" /\ At(t, "scan") /\ node' = node /\ g.pc \in ScanLabels /\ content' = content
  BY SameTree DEF J, ScanLeaf, At, ScanLabels
<1>1. /\ th'[t].pc = "scan_next" /\ th'[t].stack = g.stack /\ th'[t].pairs = taken(t) /\ th'[t].key = g.key
      /\ th'[t].op = g.op /\ th'[t].arg = g.arg /\ th'[t].cur = Cur(t).sib
  BY <1>0, Effects, Zenon DEF Becomes
<1>2. c \in NodeIds /\ node[c].leaf /\ low[c] \in Nat /\ g.cur = c  BY <1>0, HereFacts
<1>3. Here(t)' = c  BY <1>1, Zenon DEF Here
<1>4. PICK s, a, b : Taking(low, t, s, a, b)  BY <1>0, Takes
<1>5. s = node[c].keys /\ Len(s) \in Nat \ {0} /\ Last(s) = s[Len(s)] /\ a \in 1 .. Len(s) /\ s[Len(s)] >= g.key /\ s[Len(s)] \in Nat
  <2>1. s = node[c].keys /\ Len(s) \in Nat \ {0} /\ Last(s) = s[Len(s)] /\ a \in 1 .. Len(s)  BY <1>2, <1>4, Zenon DEF Taking, Cur
  <2>2. Len(s) \in 1 .. Len(s) /\ Len(s) >= a  BY <2>1
  <2>3. s[Len(s)] >= g.key /\ s[Len(s)] \in Nat  BY <1>4, <2>2, Zenon DEF Taking
  <2> QED  BY <2>1, <2>3
<1>6. ~ full(t) /\ node[c].sib # nullptr /\ th'[t].cur = node[c].sib  BY <1>1, <1>2 DEF ScanLeaf, Cur
<1>7. /\ Increasing(taken(t)) /\ b = Len(s) /\ (g.op = "ScanFixed" => Len(taken(t)) < g.arg)
      /\ g.op = "ScanRange" => Last(s) < g.arg
  <2>1. /\ Increasing(taken(t))
        /\ ~ full(t) => b = Len(s) /\ (th[t].op = "ScanFixed" => Len(taken(t)) < th[t].arg)
                                   /\ (th[t].op = "ScanRange" => Last(s) < th[t].arg)
    BY <1>0, <1>4, Stops
  <2> QED  BY <1>6, <2>1, Zenon
<1>8. low[node[c].sib] = Last(s)  BY <1>2, <1>5, <1>6, Sibling
<1>9. PICK hi \in Int : Got(t, hi) /\ hi = Last(s)  BY <1>0, <1>4, <1>7, GetsTo, Zenon
<1>10. Wants(t, hi)'
  <2>1. Has(t, hi)'  BY <1>0, <1>1, <1>3, <1>9, Zenon DEF Has, Got
  <2> QED  BY <1>1, <1>7, <1>9, <2>1, Zenon DEF Wants
<1>11. hi = low[th'[t].cur]  BY <1>6, <1>8, <1>9
<1>12. Wants(t, low[th[t].cur])'  BY <1>10, <1>11, Zenon DEF Wants, Has
<1>13. Covers(low, t)'
  <2>1. Covers(low, t)  BY <1>0, Zenon DEF Gathered, Gathers
  <2>2. \A n, k : InRange(low, n, k)' <=> InRange(low, n, k)  BY <1>0, Zenon DEF InRange
  <2> QED  BY <1>0, <1>1, <1>3, <2>1, <2>2, Zenon DEF Covers
<1>14. (node[Here(t)].keys # <<>>)' /\ (node[Here(t)].sib = th[t].cur)'
  <2>1. node[c].keys # <<>>  BY <1>0 DEF Gathered, Gathers
  <2> QED  BY <1>0, <1>3, <1>6, <2>1, Zenon
<1>15. th'[t].key <= low[th'[t].cur]  BY <1>1, <1>5, <1>6, <1>8, Zenon
<1>16. Increasing(th[t].pairs)'  BY <1>1, <1>7, Zenon
<1>17. th'[t].pc \notin {"idle", "descend", "leaf", "unlatch_left", "scan", "release"}  BY <1>1
<1> QED  BY <1>12, <1>13, <1>14, <1>15, <1>16, <1>17, Zenon DEF Gathered

\* ScanNext: the sibling starts where the leaf before ends.
LEMMA GathersNext ==
  ASSUME NEW low, J(low), NEW t \in Threads, ScanNext(t), Gathered(low, t)
  PROVE  Gathered(low, t)'
<1> DEFINE g == th[t]
           c == Here(t)
           d == th[t].cur
<1>0. Types /\ g.pc = "scan_next" /\ node' = node /\ g.pc \in ScanLabels /\ content' = content
  BY SameTree DEF J, ScanNext, At, ScanLabels
<1>1. /\ th'[t].pc = "scan" /\ th'[t].stack = Append(g.stack, d) /\ th'[t].pairs = g.pairs /\ th'[t].key = g.key
      /\ th'[t].op = g.op /\ th'[t].arg = g.arg
  BY <1>0, Effects, Zenon DEF Becomes
<1>2. /\ c \in NodeIds /\ d \in NodeIds /\ node[c].leaf /\ low[d] \in Nat /\ Len(g.stack) \in Nat \ {0}
      /\ g.key \in Nat /\ g.stack \in Seq(Nat) /\ d \in Nat
  BY <1>0, HereFacts, RegisterFacts, Zenon
<1>3. /\ node[c].sib = d /\ g.key <= low[d] /\ Wants(t, low[d]) /\ Covers(low, t) /\ Increasing(g.pairs)
  BY <1>0, Zenon DEF Gathered, Gathers
<1>4. d # nullptr  BY <1>0, <1>2, LinksAre DEF nullptr
<1>5. low[d] = Last(node[c].keys) /\ node[d].keys # <<>> /\ node[d].leaf
  <2>1. node[c].sib # nullptr  BY <1>3, <1>4
  <2>2. /\ low[node[c].sib] = Last(node[c].keys) /\ node[node[c].sib].leaf = node[c].leaf
        /\ node[node[c].sib].keys # <<>>
    BY <1>2, <2>1, Sibling, Zenon
  <2> QED  BY <1>2, <1>3, <2>2, Zenon
<1>6. PICK s : s = Append(g.stack, d)  BY Zenon
<1>7. /\ Len(s) = Len(g.stack) + 1 /\ s[Len(g.stack) + 1] = d /\ DOMAIN s = 1 .. Len(g.stack) + 1
      /\ \A i \in DOMAIN g.stack : i \in DOMAIN s /\ s[i] = g.stack[i]
  BY <1>2, <1>6
<1>8. Here(t)' = d /\ Len(s) # 1 /\ Len(g.stack) + 1 \in DOMAIN s
  <2>1. Last(s) = d  BY <1>7 DEF Last
  <2> QED  BY <1>1, <1>2, <1>6, <1>7, <2>1 DEF Here
<1>9. ASSUME NEW k \in Nat, k <= low[d] PROVE ~ beyond(node[d], k) /\ ~ beyond(node[c], k)
  <2>1. PICK l : l = Len(node[d].keys)  BY Zenon
  <2>2. l \in DOMAIN node[d].keys /\ Last(node[d].keys) = node[d].keys[l] /\ node[d].keys[l] \in Nat
    <3>1. node[d].keys \in Seq(Nat) /\ DOMAIN node[d].keys = 1 .. Len(node[d].keys)  BY <1>0, <1>2, NodeFacts
    <3>2. l \in Nat \ {0} /\ Last(node[d].keys) = node[d].keys[l]  BY <1>5, <2>1, <3>1, FrontLast, Zenon
    <3>3. l \in DOMAIN node[d].keys  BY <2>1, <3>1, <3>2
    <3> QED  BY <3>1, <3>2, <3>3
  <2>3. low[d] < node[d].keys[l]  BY <1>2, <1>5, <2>2, Zenon DEF J, NodeOK, Ordered
  <2> HIDE DEF c, d, g
  <2> QED  BY <1>2, <1>5, <1>9, <2>2, <2>3 DEF beyond, d, c
<1>10. Covers(low, t)'
  <2> SUFFICES ASSUME NEW k \in Nat, g.key <= k, ~ beyond(node[d], k)
               PROVE  \E i \in DOMAIN s : low[s[i]] < k /\ ~ beyond(node[s[i]], k)
    BY <1>0, <1>1, <1>6, <1>8, Zenon DEF Covers, InRange
  <2>1. CASE k <= low[d]
    <3>1. PICK i \in DOMAIN g.stack : InRange(low, g.stack[i], k)  BY <1>3, <1>9, <2>1 DEF Covers
    <3> QED  BY <1>7, <3>1, Zenon DEF InRange
  <2>2. CASE ~ (k <= low[d])
    <3>1. low[d] < k  BY <1>2, <2>2
    <3> QED  BY <1>7, <1>8, <3>1, Zenon
  <2> QED  BY <2>1, <2>2
<1>11. Wants(t, low[Here(t)])'
  <2>1. PICK v : v = low[d]  OBVIOUS
  <2>2. Wants(t, v)  BY <1>3, <2>1
  <2>3. \A k \in Nat : k <= v => ~ beyond(node[d], k)  BY <1>9, <2>1
  <2>4. Has(t, v)'  BY <1>0, <1>1, <1>8, <2>2, <2>3, Zenon DEF Has, Wants
  <2>5. Wants(t, v)'  BY <1>1, <2>2, <2>4, Zenon DEF Wants
  <2>6. v = low[Here(t)']  BY <1>8, <2>1, Zenon
  <2> QED  BY <2>5, <2>6, Zenon DEF Wants, Has
<1>12. (node[Here(t)].keys # <<>>)' /\ th'[t].key <= low[Here(t)']  BY <1>0, <1>1, <1>3, <1>5, <1>8, Zenon
<1>13. Increasing(th[t].pairs)'  BY <1>1, <1>3, Zenon
<1>14. Len(th'[t].stack) # 1  BY <1>1, <1>6, <1>8, Zenon
<1>15. th'[t].pc \notin {"idle", "descend", "leaf", "unlatch_left", "scan_next", "release"}  BY <1>1
<1> QED  BY <1>10, <1>11, <1>12, <1>13, <1>14, <1>15, Zenon DEF Gathered

\* ScanEnd: the scan has what it was asked for.
LEMMA GathersLast ==
  ASSUME NEW low, J(low), NEW t \in Threads, ScanEnd(t), Gathered(low, t)
  PROVE  Gathered(low, t)'
<1> DEFINE g == th[t]
           c == Here(t)
<1>0. Types /\ g.pc = "scan" /\ At(t, "scan") /\ node' = node /\ g.pc \in ScanLabels /\ content' = content
  BY SameTree DEF J, ScanEnd, At, ScanLabels
<1>1. /\ th'[t].pc = "release" /\ th'[t].stack = g.stack /\ th'[t].pairs = taken(t) /\ th'[t].key = g.key
      /\ th'[t].op = g.op /\ th'[t].arg = g.arg /\ th'[t].cur = g.cur
  BY <1>0, Effects, Zenon DEF Becomes
<1>2. /\ c \in NodeIds /\ low[c] \in Nat /\ g.cur = c /\ Len(g.stack) \in DOMAIN g.stack /\ c = g.stack[Len(g.stack)]
      /\ g.stack \in Seq(Nat) /\ DOMAIN g.stack = 1 .. Len(g.stack) /\ Len(g.stack) \in Nat
  BY <1>0, HereFacts, RegisterFacts, Zenon
<1>3. Here(t)' = c  BY <1>1, Zenon DEF Here
<1>4. Increasing(taken(t))  BY <1>0, Takes, Stops, Zenon
<1>5. full(t) \/ Cur(t).sib = nullptr  BY DEF ScanEnd
<1>6. \E hi \in Int : Ended(t, hi)'
  <2>1. PICK hi \in Int :
          /\ Got(t, hi)
          /\ g.op = "ScanRange" => hi = g.arg - 1
          /\ g.op = "ScanFixed" =>
               \/ Len(taken(t)) = g.arg
               \/ Len(taken(t)) < g.arg /\ node[c].sib = nullptr /\ \A k \in content : g.key <= k => k <= hi
    BY <1>0, <1>5, GetsAll, Zenon
  <2>2. Has(t, hi)'  BY <1>0, <1>1, <1>3, <2>1, Zenon DEF Has, Got
  <2>3. Ended(t, hi)'  BY <1>0, <1>1, <1>3, <2>1, <2>2, Zenon DEF Ended
  <2> QED  BY <2>3
<1>7. Covers(low, t)'
  <2>1. Covers(low, t)  BY <1>0, Zenon DEF Gathered, Gathers
  <2>2. \A n, k : InRange(low, n, k)' <=> InRange(low, n, k)  BY <1>0, Zenon DEF InRange
  <2> QED  BY <1>0, <1>1, <1>3, <2>1, <2>2, Zenon DEF Covers
<1>8. (node[Here(t)].keys # <<>>)'
  <2>1. node[c].keys # <<>>  BY <1>0, Zenon DEF Gathered, Gathers
  <2> QED  BY <1>0, <1>3, <2>1, Zenon
<1>9. \A i \in 1 .. Len(th'[t].stack) - 1 : th'[t].stack[i] # th'[t].cur
  <2> SUFFICES ASSUME NEW i \in 1 .. Len(g.stack) - 1 PROVE g.stack[i] # g.cur  BY <1>1
  <2>1. i \in DOMAIN g.stack /\ i < Len(g.stack)  BY <1>2
  <2>2. low[g.stack[i]] < low[c]  BY <1>2, <2>1, Zenon DEF J, Scanning
  <2> QED  BY <1>2, <2>2
<1>10. Increasing(th[t].pairs)'  BY <1>1, <1>4, Zenon
<1>11. th'[t].pc \notin {"idle", "descend", "leaf", "unlatch_left", "scan_next", "scan"}  BY <1>1
<1> QED  BY <1>6, <1>7, <1>8, <1>9, <1>10, <1>11, Zenon DEF Gathered

\* Release: from the first leaf let go on, nothing more is said.
LEMMA GathersNoMore ==
  ASSUME NEW low, J(low), NEW t \in Threads, Release(t), Gathered(low, t)
  PROVE  Gathered(low, t)'
<1> DEFINE g == th[t]
           s == Front(th[t].stack)
<1>0. Types /\ g.pc = "release" /\ g.pc \in ScanLabels  BY DEF J, Release, At, ScanLabels
<1>1. th'[t].pc = (IF Len(g.stack) = 1 THEN "return" ELSE "release") /\ th'[t].stack = s /\ th'[t].cur = g.cur
  BY MoreEffects, Zenon DEF Becomes
<1>2. g.stack \in Seq(Nat) /\ Len(g.stack) \in Nat \ {0}  BY <1>0, HereFacts, RegisterFacts, Zenon
<1>3. /\ Len(s) = Len(g.stack) - 1 /\ s \in Seq(Nat) /\ \A i \in 1 .. Len(g.stack) - 1 : s[i] = g.stack[i]
  <2>1. g.stack # <<>>  BY <1>2
  <2> QED  BY <1>2, <2>1, FrontLast, Zenon
<1>4. \A i \in 1 .. Len(g.stack) - 1 : g.stack[i] # g.cur  BY <1>0, Zenon DEF Gathered
<1> HIDE DEF s
<1>5. \A i \in 1 .. Len(s) : s[i] # g.cur  BY <1>2, <1>3, <1>4, Zenon
<1>6. CASE Len(g.stack) = 1
  <2>1. th'[t].pc = "return"  BY <1>1, <1>6
  <2> QED  BY <2>1, Zenon DEF Gathered, Gathers
<1>7. CASE Len(g.stack) # 1
  <2>1. th'[t].pc = "release"  BY <1>1, <1>7
  <2>2. Len(s) \in 1 .. Len(s) /\ Len(s) \in Nat
    <3>1. \A l \in Nat \ {0} : l # 1 => l - 1 \in 1 .. l - 1 /\ l - 1 \in Nat  OBVIOUS
    <3> QED  BY <1>2, <1>3, <1>7, <3>1, Zenon
  <2>3. Here(t)' # th'[t].cur  BY <1>1, <1>5, <2>2 DEF Here, Last
  <2>4. \A i \in 1 .. Len(th'[t].stack) - 1 : th'[t].stack[i] # th'[t].cur  BY <1>1, <1>5, <2>2
  <2> QED  BY <2>1, <2>3, <2>4, Zenon DEF Gathered, Gathers
<1> QED  BY <1>6, <1>7

\* No step of its own spoils what a scan has gathered.
LEMMA WalkGathers ==
  ASSUME NEW low, J(low), NEW t \in Threads, Walk(t), UNCHANGED ops, Gathered(low, t)
  PROVE  Gathered(low, t)'
<1> DEFINE g == th[t]
<1>0. Types  BY DEF J
<1>1. g.pc \in {"idle", "descend", "leaf", "unlatch_left"} => g.pairs = <<>>  BY Zenon DEF Gathered
<1>2. CASE \/ Begin(t) \/ Descend(t) \/ LatchLeaf(t) \/ MoveRight(t) \/ LatchSibling(t) \/ UnlatchLeft(t) \/ Return(t)
  <2>1. th'[t].pairs = <<>> /\ th'[t].pc \in {"idle", "descend", "leaf", "unlatch_left", "return"}
    <3>1. CASE Begin(t)
      <4>1. g.pc = "idle"  BY <3>1 DEF Begin, At
      <4> QED  BY <1>1, <3>1, <4>1, MoreEffects, Zenon DEF Calling, Becomes
    <3>2. CASE Descend(t)
      <4>1. g.pc = "descend"  BY <3>2 DEF Descend, At
      <4> QED  BY <1>1, <3>2, <4>1, MoreEffects, Zenon DEF Moving, Becomes
    <3>3. CASE Return(t)  BY <3>3, MoreEffects, Zenon DEF Becomes
    <3>4. CASE LatchLeaf(t) \/ MoveRight(t) \/ LatchSibling(t) \/ UnlatchLeft(t)
      <4>1. g.pc \in {"descend", "leaf", "unlatch_left"}
        BY <3>4 DEF LatchLeaf, MoveRight, LatchSibling, UnlatchLeft, At
      <4>2. g.pairs = <<>>  BY <1>1, <4>1
      <4> QED  BY <1>0, <3>4, <4>2, Effects, Zenon DEF Becomes
    <3> QED  BY <1>2, <3>1, <3>2, <3>3, <3>4, Zenon
  <2> QED  BY <2>1, Zenon DEF Gathered, Gathers
<1>3. CASE \/ FoundOrNot(t) \/ InsertRefused(t) \/ ScanEmpty(t) \/ UnlatchLast(t)
           \/ PopPath(t) \/ TrackUpper(t) \/ LatchUpper(t) \/ LatchUpperSibling(t) \/ UnlatchUpper(t) \/ UnlatchChild(t)
  <2>1. th'[t].pc \in {"return", "latch_upper", "find", "unlatch_upper", "insert"}
    <3>1. CASE FoundOrNot(t) \/ InsertRefused(t) \/ ScanEmpty(t) \/ UnlatchLast(t)
      BY <1>0, <3>1, Effects, Zenon DEF Becomes
    <3>2. CASE PopPath(t) \/ TrackUpper(t) \/ LatchUpper(t) \/ LatchUpperSibling(t) \/ UnlatchUpper(t) \/ UnlatchChild(t)
      BY <1>0, <3>2, Effects, Zenon DEF Becomes
    <3> QED  BY <1>3, <3>1, <3>2, Zenon
  <2> QED  BY <2>1, Zenon DEF Gathered, Gathers
<1> QED  BY <1>2, <1>3, GathersFirst, GathersOn, GathersNext, GathersLast, GathersNoMore, Zenon DEF Walk

\* A writer gathers nothing.
LEMMA WriterGathers ==
  ASSUME Types, NEW lw, NEW t \in Threads, InsertKey(t) \/ InsertChild(t) \/ NewRoot(t)
  PROVE  Gathered(lw, t)'
<1>1. \A r : Reg(t, r) => th'[t] = r  BY DEF Types, Reg
<1>2. th[t] \in Registers  BY RegisterFacts
<1>3. InsertKey(t) => th'[t].pc \in {"split", "unlatch"}  BY <1>1, <1>2, ZenonT(30) DEF InsertKey, Registers
<1>4. InsertChild(t) => th'[t].pc \in {"split", "unlatch"}  BY <1>1, <1>2, ZenonT(30) DEF InsertChild, Registers
<1>5. NewRoot(t) => th'[t].pc = "latch_upper"  BY Effects, Zenon DEF Becomes
<1>6. th'[t].pc \in {"split", "unlatch", "latch_upper"}  BY <1>3, <1>4, <1>5
<1> QED  BY <1>6, Zenon DEF Gathered, Gathers

\* The steps of the others leave all this alone: a leaf that the scan holds they
\* cannot latch, and keys elsewhere are not in its range.
LEMMA StepKeeps ==
  ASSUME NEW low, J(low), NEW u \in Threads, Step(u), UNCHANGED ops, NEW t \in Threads \ {u}
  PROVE  Kept(low, t)
<1>0. Types  BY DEF J
<1>1. th'[t] = th[t]  BY <1>0, Others
<1> SUFFICES ASSUME th[t].pc \in ScanLabels
             PROVE  /\ content \subseteq content' /\ content' \subseteq Nat
                    /\ \A i \in DOMAIN th[t].stack :
                         /\ node'[th[t].stack[i]].keys = node[th[t].stack[i]].keys
                         /\ node'[th[t].stack[i]].sib = node[th[t].stack[i]].sib
                         /\ \A k \in Nat : InRange(low, th[t].stack[i], k) /\ k \in content' => k \in content
  BY <1>1 DEF Kept
<1>2. \A i \in DOMAIN th[t].stack : th[t].stack[i] \in NodeIds /\ node[th[t].stack[i]].leaf /\ Reads(t, th[t].stack[i])
  BY HereFacts
<1>a. content \subseteq Nat  BY <1>0, ContentKeys
<1>3. CASE Walk(u)
  <2>1. node' = node  BY <1>3, WalkTypes
  <2>2. content' = content  BY <2>1 DEF content, NodeIds
  <2> QED  BY <1>a, <2>1, <2>2
<1>4. CASE InsertKey(u)
  <2>1. PICK c, lw, id : Grows(low, lw, u, c, id) /\ NewContent(u, c) /\ node[c].leaf  BY <1>4, KeyStep
  <2>2. /\ c \in NodeIds /\ ~ Reads(t, c) /\ content' = content \cup {th[u].key}
    BY <2>1, GrowthFacts DEF NewContent
  <2>3. \A n \in NodeIds \ {c} : node'[n] = node[n]  BY <2>1 DEF Grows
  <2>4. th[u].pc = "leaf" /\ ~ beyond(node[th[u].cur], th[u].key)  BY <1>4 DEF InsertKey, At, Cur
  <2>5. c = th[u].cur  BY <2>1, <2>4 DEF Grows, Fills
  <2>6. InRange(low, c, th[u].key)  BY <2>4, <2>5 DEF J, Descends, InRange
  <2>7. th[u].key \in Nat  BY <1>0, RegisterFacts
  <2>8. ASSUME NEW i \in DOMAIN th[t].stack PROVE th[t].stack[i] \in NodeIds \ {c}  BY <1>2, <2>2
  <2>9. ASSUME NEW i \in DOMAIN th[t].stack, InRange(low, th[t].stack[i], th[u].key) PROVE FALSE
    <3>1. PICK n : n = th[t].stack[i]  OBVIOUS
    <3>2. n \in NodeIds /\ n # c /\ node[n].leaf /\ InRange(low, n, th[u].key)  BY <1>2, <2>8, <2>9, <3>1
    <3> QED  BY <2>1, <2>2, <2>6, <2>7, <3>2, RangesApart
  <2> QED  BY <1>a, <2>2, <2>3, <2>7, <2>8, <2>9, Zenon
<1>5. CASE InsertChild(u)
  <2>1. PICK c, lw, id : Grows(low, lw, u, c, id) /\ NewContent(u, c) /\ ~ node[c].leaf  BY <1>5, ChildStep
  <2>2. content' = content /\ \A n \in NodeIds \ {c} : node'[n] = node[n]  BY <2>1 DEF NewContent, Grows
  <2>3. \A i \in DOMAIN th[t].stack : th[t].stack[i] \in NodeIds \ {c}  BY <1>2, <2>1
  <2> QED  BY <1>a, <2>2, <2>3
<1>6. CASE NewRoot(u)
  <2>1. PICK lw, x, y, id : Raised(low, lw, u, x, y, id)  BY <1>6, Raises
  <2>2. content' = content /\ \A n \in NodeIds : node'[n].keys = node[n].keys /\ node'[n].sib = node[n].sib
    BY <2>1 DEF Raised
  <2> QED  BY <1>a, <1>2, <2>2
<1>7. Walk(u) \/ InsertKey(u) \/ InsertChild(u) \/ NewRoot(u)  BY Zenon DEF Step, Walk
<1> QED  BY <1>3, <1>4, <1>5, <1>6, <1>7, Zenon

\* The invariant, with what the scans have gathered.
SInv == \E low : J(low) /\ \A t \in Threads : Gathered(low, t)

\* No scan has begun.
LEMMA InitGathered ==
  ASSUME Init
  PROVE  SInv
<1>1. PICK low : J(low)  BY InitInv, PlaceFinds DEF IInv
<1>2. th = [t \in Threads |-> Idle]  BY DEF Init
<1>3. \A t \in Threads : th[t].pc = "idle" /\ th[t].pairs = <<>>  BY <1>2 DEF Idle
<1>4. \A t \in Threads : Gathered(low, t)  BY <1>3 DEF Gathered, Gathers
<1> QED  BY <1>1, <1>4 DEF SInv

\* Every step keeps what the scans have gathered.
LEMMA StepGathered ==
  ASSUME SInv, [Next]_vars
  PROVE  SInv'
<1>1. PICK low : J(low) /\ \A t \in Threads : Gathered(low, t)  BY DEF SInv
<1>0. Types  BY <1>1 DEF J
<1>2. ASSUME NEW t \in Threads, Step(t), UNCHANGED ops,
             NEW lw, J(lw)', \A n \in NodeIds : lw[n] = low[n], Gathered(lw, t)'
      PROVE  SInv'
  <2>1. \A u \in Threads \ {t} : Gathered(lw, u)'  BY <1>1, <1>2, StepKeeps, GatheredKept
  <2>2. \A u \in Threads : Gathered(lw, u)'  BY <1>2, <2>1
  <2> QED  BY <1>2, <2>2 DEF SInv
<1>3. ASSUME NEW t \in Threads, Walk(t), UNCHANGED ops PROVE SInv'
  <2>1. J(low)' /\ Gathered(low, t)'  BY <1>1, <1>3, WalkInv, WalkGathers
  <2>2. Step(t)  BY <1>3, Zenon DEF Step, Walk
  <2> QED  BY <1>2, <1>3, <2>1, <2>2
<1>4. ASSUME NEW t \in Threads, InsertKey(t) \/ InsertChild(t), UNCHANGED ops PROVE SInv'
  <2>1. PICK c, lw, id : Grows(low, lw, t, c, id)  BY <1>1, <1>4, KeyStep, ChildStep
  <2>2. J(lw)' /\ \A n \in NodeIds : lw[n] = low[n]  BY <1>1, <2>1, GrowsInv DEF Grows
  <2>3. Step(t) /\ Gathered(lw, t)'  BY <1>0, <1>4, WriterGathers DEF Step
  <2> QED  BY <1>2, <1>4, <2>2, <2>3
<1>5. ASSUME NEW t \in Threads, NewRoot(t), UNCHANGED ops PROVE SInv'
  <2>1. PICK lw, x, y, id : Raised(low, lw, t, x, y, id)  BY <1>1, <1>5, Raises
  <2>2. J(lw)'  BY <1>1, <2>1, RaisedInv
  <2>4. \A n \in NodeIds : lw[n] = low[n]  BY <2>1, Zenon DEF Raised
  <2>3. Step(t) /\ Gathered(lw, t)'  BY <1>0, <1>5, WriterGathers DEF Step
  <2> QED  BY <1>2, <1>5, <2>2, <2>3, <2>4
<1>6. ASSUME UNCHANGED vars PROVE SInv'
  <2>1. J(low)'  BY <1>1, <1>6, SameInv
  <2>2. node' = node /\ th' = th  BY <1>6 DEF vars
  <2>3. content' = content  BY <2>2, SameTree
  <2>4. content \subseteq Nat  BY <1>0, ContentKeys
  <2>5. \A t \in Threads : Kept(low, t)  BY <2>2, <2>3, <2>4 DEF Kept
  <2>6. \A t \in Threads : Gathered(low, t)'  BY <1>1, <2>5, GatheredKept
  <2> QED  BY <2>1, <2>6 DEF SInv
<1>7. Finish /\ UNCHANGED ops => UNCHANGED vars  BY DEF Finish, vars
<1>8. \A t \in Threads : Step(t) => Walk(t) \/ InsertKey(t) \/ InsertChild(t) \/ NewRoot(t)  BY Zenon DEF Step, Walk
<1> QED  BY <1>3, <1>4, <1>5, <1>6, <1>7, <1>8, Zenon DEF Next

\* What the invariant says of a finished scan is what ScanIsSnapshot says.
LEMMA GatheredIsSnapshot ==
  ASSUME NEW low, J(low), NEW t \in Threads, Gathered(low, t), At(t, "release"), Last(th[t].stack) = th[t].cur
  PROVE  LET from == {k \in content : k >= th[t].key} IN
         /\ InOrder(th[t].pairs)
         /\ ToSet(th[t].pairs) =
              IF th[t].op = "ScanRange" THEN {k \in from : k < th[t].arg}
              ELSE {k \in from : Cardinality({j \in from : j < k}) < th[t].arg}
<1> DEFINE g == th[t]
           from == {k \in content : k >= th[t].key}
<1>0. Types /\ Calls(t) /\ g.pc = "release" /\ Here(t) = g.cur  BY DEF J, At, Here
<1>1. g.key \in Nat /\ g.arg \in Nat /\ g.pairs \in Seq(Keys) /\ g.op \in Scans /\ content \subseteq Nat
  BY <1>0, RegisterFacts, ContentKeys DEF Calls
<1>2. g.pairs \in Seq(Nat)  BY <1>1, BLinkTreeAssumption, Widened, Zenon
<1>3. Increasing(g.pairs)  BY <1>0, Zenon DEF Gathered, Gathers
<1>4. PICK hi \in Int : Ended(t, hi)  BY <1>0, Zenon DEF Gathered
<1>5. \A k \in Nat : k \in ToSet(g.pairs) <=> k \in content /\ g.key <= k /\ k <= hi  BY <1>4 DEF Ended, Has
<1>6. InOrder(g.pairs)
  <2>1. PICK p : p = g.pairs  OBVIOUS
  <2>2. p \in Seq(Nat) /\ Increasing(p) /\ Len(p) \in Nat /\ DOMAIN p = 1 .. Len(p)  BY <1>2, <1>3, <2>1
  <2>3. ASSUME NEW i \in 2 .. Len(p) PROVE p[i - 1] < p[i]
    <3>1. i - 1 \in DOMAIN p /\ i \in DOMAIN p /\ i - 1 < i  BY <2>2
    <3> QED  BY <2>2, <3>1 DEF Increasing
  <2> QED  BY <2>1, <2>3 DEF InOrder
<1>7. ToSet(g.pairs) \subseteq Nat  BY <1>2 DEF ToSet
<1>8. CASE g.op = "ScanRange"
  <2>1. hi = g.arg - 1  BY <1>4, <1>8 DEF Ended
  <2>2. \A k \in Nat : k <= hi <=> k < g.arg  BY <1>1, <2>1
  <2>3. \A k \in Nat : k >= g.key <=> g.key <= k  BY <1>1
  <2>4. ToSet(g.pairs) = {k \in from : k < g.arg}
    <3>1. \A k \in Nat : k \in ToSet(g.pairs) <=> k \in content /\ k >= g.key /\ k < g.arg  BY <1>5, <2>2, <2>3, Zenon
    <3> QED  BY <1>1, <1>7, <3>1, Zenon
  <2> QED  BY <1>6, <1>8, <2>4, Zenon
<1>9. CASE g.op = "ScanFixed"
  <2>1. PICK F, p, n : F = from /\ p = g.pairs /\ n = g.arg  BY Zenon
  <2>2. F \in SUBSET Nat /\ p \in Seq(Nat) /\ Increasing(p) /\ n \in Nat  BY <1>1, <1>2, <1>3, <2>1, Zenon
  <2>3. \A k \in Nat : k \in ToSet(p) <=> k \in F /\ k <= hi
    <3>1. \A k \in Nat : k >= g.key <=> g.key <= k  BY <1>1
    <3> QED  BY <1>5, <2>1, <3>1, Zenon
  <2>4. Len(p) = n \/ (Len(p) < n /\ \A k \in F : k <= hi)
    <3>1. Len(g.pairs) = g.arg \/ (Len(g.pairs) < g.arg /\ \A k \in content : g.key <= k => k <= hi)
      BY <1>4, <1>9 DEF Ended
    <3>2. \A k \in F : k \in content /\ g.key <= k  BY <1>1, <2>1
    <3> QED  BY <2>1, <3>1, <3>2, Zenon
  <2>5. ToSet(p) = {k \in F : Cardinality({j \in F : j < k}) < n}  BY <2>2, <2>3, <2>4, Smallest, Zenon
  <2>6. g.op # "ScanRange"  BY <1>9
  <2> QED  BY <1>6, <2>1, <2>5, <2>6, Zenon
<1> QED  BY <1>1, <1>8, <1>9 DEF Scans

\* What ScanFixed and ScanRange (b_link_tree.h) have gathered while they still
\* hold all leaves they went through is in order, and exactly the keys that
\* the tree then holds in the range or among the first ones asked for: while a
\* scan goes from leaf to leaf, inserts and splits beside it neither hide a
\* key from it nor show it one twice.
THEOREM TreeScans == Spec => []ScanIsSnapshot
<1>1. Init => SInv  BY InitGathered
<1>2. SInv /\ [Next]_vars => SInv'  BY StepGathered
<1>3. SInv => ScanIsSnapshot
  <2> SUFFICES ASSUME SInv PROVE ScanIsSnapshot  OBVIOUS
  <2>1. PICK low : J(low) /\ \A t \in Threads : Gathered(low, t)  BY DEF SInv
  <2> QED  BY <2>1, GatheredIsSnapshot, Zenon DEF ScanIsSnapshot
<1> QED  BY <1>1, <1>2, <1>3, PTL DEF Spec
=============================================================================
