----------------------------- MODULE QueueLock -----------------------------
(***************************************************************************)
(* The queue locks of OptiQL/latches: MCSLock (MCS.h) and OMCSLock         *)
(* (OMCSImpl.h), the lock of every node of artomcs_optiql.  A thread joins *)
(* by exchanging the tail for its own queue node, links itself behind the  *)
(* node it found there, and spins on its own node; the holder passes the   *)
(* lock along the links.  OMCSLock leaves a version in the tail when       *)
(* nobody waits, so that readers can go without a lock, and, built with    *)
(* OMCS_OP_READ and OMCS_OFFSET, opens the tail to readers while the lock  *)
(* is on its way from one holder to the next.                              *)
(*                                                                         *)
(* As in VersionLock the clients read or write two cells that are equal    *)
(* whenever nobody holds the lock.                                         *)
(***************************************************************************)
EXTENDS Naturals, Sequences

CONSTANTS Threads,  \* each with one queue node
          NoThread, \* the null queue node
          Calls,    \* bound: calls that the threads make
          kLockedBit, \* the top bit, above every version of the instance
          UpgradeOpen \* whether clients upgrade what they read from an open tail

VARIABLES kind,     \* "mcs", "omcs", or "omcs_op_read"
          tail,     \* tail_: queue node, version, consistent bit
          qnode,    \* next_ and version_ (granted_ of MCSLock) of each thread
          th,       \* each thread: where it is, the tail it has loaded (seen)
                    \* and what it has read of the cells (got)
          cell,     \* the two cells
          left,     \* calls yet to be made
          queue     \* history: who has joined and not left, in that order

vars == <<kind, tail, qnode, th, cell, left, queue>>

op_read == kind = "omcs_op_read"

\* A tail is a version nobody holds, or a queue node, with the consistent
\* bit and the version of the last holder if it is open to readers.
Free(v) == [node |-> NoThread, version |-> v, consistent |-> FALSE]
make_qnode_ptr(t) == [node |-> t, version |-> 0, consistent |-> FALSE]
has_locked_bit(f) == f.node # NoThread
kInvalidVersion == 0
kVersionStride == 1

\* The tail as the number that try_lock adds a stride to.
AsVersion(f) == f.version + (IF has_locked_bit(f) THEN kLockedBit ELSE 0)

\* OMCSLock counts versions through its holders, MCSLock grants with a 1.
next_version(v) == IF kind = "mcs" THEN 1 ELSE v + kVersionStride

\* What the last holder leaves in the tail.
Released(t) == Free(IF kind = "mcs" THEN 0 ELSE qnode[t].version)

Outside == [pc |-> "idle", seen |-> Free(0), got |-> <<0, 0>>]
Goto(t, l) == th' = [th EXCEPT ![t].pc = l]
Load(t, l) == th' = [th EXCEPT ![t].pc = l, ![t].seen = tail]
Return(t) == th' = [th EXCEPT ![t] = Outside]

Init == /\ kind \in {"mcs", "omcs", "omcs_op_read"}
        /\ tail = Free(0)
        /\ qnode = [t \in Threads |-> [next |-> NoThread, version |-> kInvalidVersion]]
        /\ th = [t \in Threads |-> Outside]
        /\ cell = <<0, 0>>
        /\ left = Calls
        /\ queue = <<>>
-----------------------------------------------------------------------------
Call == left > 0 /\ left' = left - 1

\* lock: reset the queue node, which nobody points to, and join the queue.
Exchange(t) ==
  /\ th[t].pc = "idle" /\ Call
  /\ tail' = make_qnode_ptr(t)
  /\ queue' = Append(queue, t)
  /\ IF has_locked_bit(tail)
     THEN /\ qnode' = [qnode EXCEPT ![t] = [next |-> NoThread, version |-> kInvalidVersion]]
          /\ Load(t, "link")
     ELSE /\ qnode' = [qnode EXCEPT ![t] =
               [next |-> NoThread,
                version |-> IF kind = "mcs" THEN kInvalidVersion ELSE next_version(tail.version)]]
          /\ Goto(t, "locked")
  /\ UNCHANGED <<kind, cell>>

\* pred->set_next(qnode)
Link(t) ==
  /\ th[t].pc = "link"
  /\ qnode' = [qnode EXCEPT ![th[t].seen.node].next = t]
  /\ Goto(t, "wait")
  /\ UNCHANGED <<kind, tail, cell, left, queue>>

\* the spin that ends when the predecessor has set the version
Granted(t) ==
  /\ th[t].pc = "wait" /\ qnode[t].version # kInvalidVersion
  /\ Goto(t, IF op_read THEN "close" ELSE "locked")
  /\ UNCHANGED <<kind, tail, qnode, cell, left, queue>>

\* the tail left open to readers while the new holder writes
LeftOpen(t) ==
  /\ th[t].pc = "close"
  /\ Goto(t, "locked")
  /\ UNCHANGED <<kind, tail, qnode, cell, left, queue>>

\* lock_turn_off_opread: no reader may start from here on.
CloseToReaders(t) ==
  /\ th[t].pc = "close"
  /\ tail' = [tail EXCEPT !.version = 0, !.consistent = FALSE]
  /\ Goto(t, "locked")
  /\ UNCHANGED <<kind, qnode, cell, left, queue>>

Write(t) ==
  /\ \/ th[t].pc = "locked" /\ cell' = [cell EXCEPT ![1] = @ + 1] /\ Goto(t, "half")
     \/ th[t].pc = "half" /\ cell' = [cell EXCEPT ![2] = @ + 1] /\ Goto(t, "unlock")
  /\ UNCHANGED <<kind, tail, qnode, left, queue>>

\* unlock looks for a successor.
Unlock(t) ==
  /\ th[t].pc = "unlock"
  /\ Goto(t, IF qnode[t].next = NoThread THEN "u_cas"
             ELSE IF op_read THEN "u_open" ELSE "u_grant")
  /\ UNCHANGED <<kind, tail, qnode, cell, left, queue>>

\* the last holder stores its version without looking
UnlockStore(t) ==
  /\ th[t].pc = "u_cas"
  /\ tail' = Released(t) /\ queue' = Tail(queue) /\ Return(t)
  /\ UNCHANGED <<kind, qnode, cell, left>>

\* No successor in sight: give the tail back, unless somebody has joined.
UnlockLast(t) ==
  /\ th[t].pc = "u_cas"
  /\ IF tail = make_qnode_ptr(t)
     THEN tail' = Released(t) /\ queue' = Tail(queue) /\ Return(t)
     ELSE UNCHANGED <<tail, queue>> /\ Goto(t, IF op_read THEN "u_open" ELSE "u_next")
  /\ UNCHANGED <<kind, qnode, cell, left>>

\* fetch_or of the consistent bit and the version.  The version bits are
\* clear then: a tail with a queue node has them only while it is open.
OpenToReaders(t) ==
  /\ th[t].pc = "u_open"
  /\ tail' = [tail EXCEPT !.version = qnode[t].version, !.consistent = TRUE]
  /\ Goto(t, "u_next")
  /\ UNCHANGED <<kind, qnode, cell, left, queue>>

\* The successor has joined and will link itself.
AwaitNext(t) ==
  /\ th[t].pc = "u_next" /\ qnode[t].next # NoThread
  /\ Goto(t, "u_grant")
  /\ UNCHANGED <<kind, tail, qnode, cell, left, queue>>

Grant(t) ==
  /\ th[t].pc = "u_grant"
  /\ qnode' = [qnode EXCEPT ![qnode[t].next].version = next_version(qnode[t].version)]
  /\ queue' = Tail(queue)
  /\ Return(t)
  /\ UNCHANGED <<kind, tail, cell, left>>

\* try_begin_read: a version, or a tail that is open to readers.
begin_read(t) ==
  /\ th[t].pc = "idle" /\ kind # "mcs" /\ Call
  /\ has_locked_bit(tail) => op_read /\ tail.consistent
  /\ Load(t, "read1")
  /\ UNCHANGED <<kind, tail, qnode, cell, queue>>

Read(t) ==
  /\ \/ th[t].pc = "read1" /\ th' = [th EXCEPT ![t].got[1] = cell[1], ![t].pc = "read2"]
     \/ th[t].pc = "read2" /\ th' = [th EXCEPT ![t].got[2] = cell[2], ![t].pc = "read"]
  /\ UNCHANGED <<kind, tail, qnode, cell, left, queue>>

validate_read(t) ==
  /\ th[t].pc = "read"
  /\ IF tail = th[t].seen THEN Goto(t, "valid") ELSE Return(t)
  /\ UNCHANGED <<kind, tail, qnode, cell, left, queue>>

Leave(t) ==
  /\ th[t].pc = "valid"
  /\ Return(t)
  /\ UNCHANGED <<kind, tail, qnode, cell, left, queue>>

\* try_lock: what was validated is to be exchanged for the queue node.
TryLock(t) ==
  /\ th[t].pc = "valid" /\ (UpgradeOpen \/ ~has_locked_bit(th[t].seen))
  /\ qnode' = [qnode EXCEPT ![t] = [next |-> NoThread,
                                    version |-> next_version(AsVersion(th[t].seen))]]
  /\ Goto(t, "try_cas")
  /\ UNCHANGED <<kind, tail, cell, left, queue>>

\* MCSLock's try_lock loads the tail instead.
TryLockMCS(t) ==
  /\ th[t].pc = "idle" /\ kind = "mcs" /\ Call
  /\ ~has_locked_bit(tail)
  /\ qnode' = [qnode EXCEPT ![t] = [next |-> NoThread, version |-> kInvalidVersion]]
  /\ Load(t, "try_cas")
  /\ UNCHANGED <<kind, tail, cell, queue>>

TryCas(t) ==
  /\ th[t].pc = "try_cas"
  /\ IF tail = th[t].seen
     THEN tail' = make_qnode_ptr(t) /\ queue' = Append(queue, t) /\ Goto(t, "locked")
     ELSE UNCHANGED <<tail, queue>> /\ Return(t)
  /\ UNCHANGED <<kind, qnode, cell, left>>

Step(t) == \/ Exchange(t) \/ Link(t) \/ Granted(t) \/ CloseToReaders(t) \/ Write(t)
           \/ Unlock(t) \/ UnlockLast(t) \/ OpenToReaders(t) \/ AwaitNext(t) \/ Grant(t)
           \/ begin_read(t) \/ Read(t) \/ validate_read(t) \/ Leave(t)
           \/ TryLock(t) \/ TryLockMCS(t) \/ TryCas(t)

Next == \E t \in Threads : Step(t)

Spec == Init /\ [][Next]_vars
-----------------------------------------------------------------------------
Holding == {"close", "locked", "half", "unlock", "u_cas", "u_open", "u_next", "u_grant"}
Holders == {t \in Threads : th[t].pc \in Holding}

\* The version bits of a tail with a queue node are set only while it is open,
\* which is what lets fetch_or and fetch_and stand for store and clear.
TypeOK == /\ tail.node \in Threads \cup {NoThread} /\ tail.version \in Nat
          /\ has_locked_bit(tail) /\ ~tail.consistent => tail.version = 0
          /\ \A t \in Threads : qnode[t].next \in Threads \cup {NoThread}

\* One holder at a time, and the lock goes round in the order in which the
\* threads exchanged the tail, also when a successor is slow to link itself
\* or a holder finds no successor and then somebody joins (OMCSImpl.h:297-327,
\* 379-417, MCS.h:69-82, 113-125).
HeldInQueueOrder == /\ \A t, u \in Holders : t = u
                    /\ \A t \in Holders : queue # <<>> /\ Head(queue) = t

\* A validated read saw both cells of one version, also one that began on a
\* tail open to readers while the lock was being passed on
\* (OMCSImpl.h:330-340, 386-410, 442-448).
ValidReadIsSnapshot == \A t \in Threads : th[t].pc = "valid" => th[t].got[1] = th[t].got[2]

\* What a thread upgrades is what it read: no write came between its
\* validation and its exchange of the tail (OMCSImpl.h:349-370).
UpgradeKeepsRead == [][\A t \in Threads :
                         (th[t].pc = "try_cas" /\ th'[t].pc = "locked" /\ kind # "mcs") => th[t].got = cell]_vars
=============================================================================
