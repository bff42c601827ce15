------------------------------ MODULE LeafScan ------------------------------
(***************************************************************************)
(* Range scans of FB+-tree: begin, lower_bound and upper_bound make an     *)
(* iterator (FBTree::bound, LeafNode::access) and advance moves it, while  *)
(* the operations of LeafTree run.  A scan advances until the end.         *)
(***************************************************************************)
EXTENDS LeafTree

VARIABLES always,    \* history: keys that were there ever since a scan began
          ever       \* history: keys that were there at some time of the scan

scanvars == <<vars, always, ever>>

Scans == {"scan", "lower", "upper"}
Scanning(t) == th[t].op \in Scans
upper(t) == th[t].op = "upper"

ScanInit == /\ Init
            /\ always = [t \in Threads |-> {}]
            /\ ever = [t \in Threads |-> {}]

\* access(kv, pos, version) on leaf n, returning to site.
Access(r, n, kv, pos, ver, site) ==
  [r EXCEPT !.pc = "ordered", !.n = n, !.old = kv, !.pos = pos, !.ver = ver, !.site = site]

\* The iterator moves to what was found; null is the end.
Arrive(t, kv, pos, ver) ==
  LET n == th[t].n
      out == Append(th[t].out, kv.key)
      it == [node |-> n, ver |-> ver, kv |-> kv, pos |-> pos] IN
  IF kv.key > 0
  THEN Reg(t, Access([th[t] EXCEPT !.it = it, !.out = out], n, kv, pos + 1, ver, "node"))
  ELSE Reg(t, [Idle EXCEPT !.pc = "done", !.op = th[t].op, !.key = th[t].key,
                           !.out = IF kv = NoKV THEN th[t].out ELSE out])

\* begin(): the leftmost leaf, which is never merged away.
Begin(t) ==
  /\ At(t, "idle") /\ ~ Loading
  /\ \E k \in Keys : <<"scan", k>> \in ops[t]
  /\ Reg(t, [Idle EXCEPT !.pc = "sibling_begin", !.op = "scan", !.n = 1, !.site = "begin"])
  /\ UNCHANGED <<leaf, parent, load>>
-----------------------------------------------------------------------------
(* LeafNode::access *)

\* If the pairs are in order the slot is loaded without a latch.
Ordered(t) ==
  /\ At(t, "ordered")
  /\ Reg(t, IF Me(t).ord THEN [th[t] EXCEPT !.pc = "access_end", !.cur = access(Me(t), th[t].pos)]
                         ELSE [th[t] EXCEPT !.pc = "access_latch"])
  /\ UNCHANGED <<leaf, parent, load>>

\* What follows an access, by the place it was called from.
Accessed(t, kv, pos, ver) ==
  LET r == [th[t] EXCEPT !.cur = kv, !.pos = pos, !.ver = ver] IN
  IF th[t].site = "sibling" THEN Reg(t, [r EXCEPT !.pc = "left"])
  ELSE IF kv = NoKV /\ th[t].site # "begin" THEN Reg(t, [r EXCEPT !.pc = "has_next"])
  ELSE Arrive(t, kv, pos, ver)

AccessEnd(t) ==
  /\ At(t, "access_end") /\ ~ Me(t).lock
  /\ IF valid(Me(t), th[t].ver) THEN Accessed(t, th[t].cur, th[t].pos, th[t].ver)
                                ELSE Go(t, "access_latch")
  /\ UNCHANGED <<leaf, parent, load>>

\* Otherwise the leaf is latched and sorted.
Sort(t, l) == IF Me(t).ord THEN [th[t] EXCEPT !.pc = l] ELSE Run(t, kv_sort(Me(t), th[t].n), l)

AccessLatch(t) ==
  /\ At(t, "access_latch") /\ ~ Me(t).lock
  /\ Latch(th[t].n) /\ Reg(t, Sort(t, "access_sorted"))
  /\ UNCHANGED <<parent, load>>

\* The next pair is found by the key of the last one, or by position.
AccessSorted(t) ==
  LET b == bound(Me(t), th[t].old.key, TRUE) IN
  /\ At(t, "access_sorted")
  /\ Unlatch(th[t].n)
  /\ IF th[t].old # NoKV THEN Accessed(t, b.kv, b.pos, Me(t).ver)
     ELSE Accessed(t, access(Me(t), th[t].pos), th[t].pos, Me(t).ver)
  /\ UNCHANGED <<parent, load>>
-----------------------------------------------------------------------------
(* iterator::advance, on to the sibling *)

\* sibling(): has_sibling, or deleted, and then the pointer.
HasNext(t) ==
  /\ \/ At(t, "has_next") /\ Go(t, IF Me(t).sib THEN "next" ELSE "deleted_next")
     \/ /\ At(t, "deleted_next")
        /\ IF Me(t).del THEN Go(t, "next") ELSE Arrive(t, NoKV, 0, 0)
  /\ UNCHANGED <<leaf, parent, load>>

NextLeaf(t) ==
  /\ At(t, "next")
  /\ IF Me(t).sibling = nullptr THEN Arrive(t, NoKV, 0, 0)
     ELSE Reg(t, [th[t] EXCEPT !.n = Me(t).sibling, !.site = "sibling",
                    !.pc = IF th[t].it.node = nullptr THEN "begin" ELSE "sibling_begin"])
  /\ UNCHANGED <<leaf, parent, load>>

\* The first pair of the sibling ...
SiblingBegin(t) ==
  /\ At(t, "sibling_begin") /\ ~ Me(t).lock
  /\ Reg(t, Access(th[t], th[t].n, NoKV, 1, Me(t).ver, th[t].site))
  /\ UNCHANGED <<leaf, parent, load>>

\* Mutant: the leaf on the left is not looked at again.
LeftTrusted(t) ==
  /\ At(t, "left")
  /\ Arrive(t, th[t].cur, th[t].pos, th[t].ver)
  /\ UNCHANGED <<leaf, parent, load>>

\* ... is next if the leaf on the left has not changed; otherwise it is
\* searched by key, with a version that forces the latch.
Left(t) ==
  /\ At(t, "left") /\ ~ leaf[th[t].it.node].lock
  /\ IF valid(leaf[th[t].it.node], th[t].it.ver) THEN Arrive(t, th[t].cur, th[t].pos, th[t].ver)
     ELSE Reg(t, Access(th[t], th[t].n, th[t].it.kv, 1, 0, "forced"))
  /\ UNCHANGED <<leaf, parent, load>>
-----------------------------------------------------------------------------
(* FBTree::bound *)

\* Without latch when the pairs are in order.
BoundSearch(t) ==
  LET b == bound(Me(t), th[t].key, upper(t)) IN
  /\ At(t, "search") /\ Scanning(t)
  /\ Reg(t, IF Me(t).ord THEN [th[t] EXCEPT !.pc = "bound_end", !.cur = b.kv, !.pos = b.pos]
                         ELSE [th[t] EXCEPT !.pc = "latch"])
  /\ UNCHANGED <<leaf, parent, load>>

\* A leaf without a bound sends the search to its sibling.
Bounded(t, kv, pos, ver) ==
  IF kv = NoKV THEN Go(t, "has_next") ELSE Arrive(t, kv, pos, ver)

BoundEnd(t) ==
  /\ At(t, "bound_end") /\ ~ Me(t).lock
  /\ IF valid(Me(t), th[t].ver) THEN Bounded(t, th[t].cur, th[t].pos, th[t].ver) ELSE Go(t, "begin")
  /\ UNCHANGED <<leaf, parent, load>>

BoundLatched(t) ==
  /\ At(t, "latched") /\ ~ goes_on(t) /\ Scanning(t)
  /\ Reg(t, Sort(t, "bound_sorted"))
  /\ UNCHANGED <<leaf, parent, load>>

BoundSorted(t) ==
  LET b == bound(Me(t), th[t].key, upper(t)) IN
  /\ At(t, "bound_sorted")
  /\ Unlatch(th[t].n) /\ Bounded(t, b.kv, b.pos, Me(t).ver)
  /\ UNCHANGED <<parent, load>>
-----------------------------------------------------------------------------
ScanStep(t) ==
  \/ Begin(t) \/ \E op \in {"lower", "upper"}, k \in Keys : Start(t, op, k)
  \/ Ordered(t) \/ AccessEnd(t) \/ AccessLatch(t) \/ AccessSorted(t)
  \/ HasNext(t) \/ NextLeaf(t) \/ SiblingBegin(t) \/ Left(t)
  \/ BoundSearch(t) \/ BoundEnd(t) \/ BoundLatched(t) \/ BoundSorted(t)

Present(lf, regs) == {k \in Keys : Has(lf, regs, k) /\ ~ Inserting(regs, k)}
Watch ==
  LET now(t) == Present(leaf', th')
      new(t) == th[t].pc = "idle" IN
  /\ always' = [t \in Threads |->
       IF th'[t].op \notin Scans THEN {} ELSE IF th'[t].pc = "done" THEN always[t]
       ELSE IF new(t) THEN now(t) ELSE always[t] \cap now(t)]
  /\ ever' = [t \in Threads |->
       IF th'[t].op \notin Scans THEN {} ELSE IF th'[t].pc = "done" THEN ever[t]
       ELSE ever[t] \cup {k \in Keys : Has(leaf', th', k)}]

ScanNext == ((\E t \in Threads : Step(t) \/ ScanStep(t)) \/ Finish) /\ Observe /\ Watch
            /\ UNCHANGED <<ops, string>>

ScanSpec == ScanInit /\ [][ScanNext]_scanvars
-----------------------------------------------------------------------------
Ended(t) == th[t].pc = "done" /\ Scanning(t)
Asked(t) == {k \in Keys : CASE th[t].op = "scan"  -> TRUE
                            [] th[t].op = "lower" -> k >= th[t].key
                            [] th[t].op = "upper" -> k > th[t].key}

\* A scan yields keys in ascending order and only keys that were there, over
\* any splits, merges and sorts of the leaves under it (fbtree.h:63-90).
ScanInOrder ==
  \A t \in Threads : Scanning(t) =>
    LET out == SelectSeq(th[t].out, LAMBDA k : k > 0) IN
    /\ \A i \in 2 .. Len(out) : out[i - 1] < out[i]
    /\ \A i \in DOMAIN out : out[i] \in ever[t] \cap Asked(t)

\* An iterator points to a pair or to the end, never to a slot that nobody
\* has written (lnode.h:444: past the last key "std::make_pair(nullptr, 0)").
IteratorsPointToPairs ==
  \A t \in Threads : \A i \in DOMAIN th[t].out : th[t].out[i] # Junk.key

\* A scan yields every key that was there all the time (README: "concurrent
\* linearizable range scan on linked list of leaf nodes").
ScanComplete ==
  \A t \in Threads : Ended(t) =>
    \A k \in always[t] \cap Asked(t) : \E i \in DOMAIN th[t].out : th[t].out[i] = k
=============================================================================
