-------------------------- MODULE QueueLockProofs --------------------------
(***************************************************************************)
(* The queue locks for any number of threads and calls: one holder at a    *)
(* time, in the order of the exchanges of the tail; validated reads are    *)
(* snapshots; an upgrade writes over what was read.                        *)
(*                                                                         *)
(* The invariant ties the history of who has joined to what the lock       *)
(* itself stores: the tail names the last one, the links follow the        *)
(* history as far as the threads have linked themselves, and only the      *)
(* first can hold the lock or have been granted it.  It also says what a   *)
(* version counts: the writes that are complete once its holder is.        *)
(***************************************************************************)
EXTENDS QueueLock, SequenceTheorems, TLAPS

\* Where a thread is while it waits for the lock, ...
Waiting == {"link", "wait"}
\* ... and while it reads what the lock protects.
Reading == {"read1", "read2", "read"}
\* What the variables hold.
PCs == {"idle", "valid", "try_cas"} \cup Reading \cup Waiting \cup Holding
Tails == [node : Threads \cup {NoThread}, version : Nat, consistent : BOOLEAN]
QNodes == [next : Threads \cup {NoThread}, version : Nat]
Registers == [pc : PCs, seen : Tails, got : [1 .. 2 -> Nat]]
\* The places in the queue.
Places == 1 .. Len(queue)

\* Variables and registers have their types.
Types == /\ kind \in {"mcs", "omcs", "omcs_op_read"}
         /\ tail \in Tails
         /\ qnode \in [Threads -> QNodes]
         /\ th \in [Threads -> Registers]
         /\ cell \in [1 .. 2 -> Nat]
         /\ left \in Nat
         /\ queue \in Seq(Threads)

\* Who is in the queue, once, and what the tail says of it.
QueueIsTail ==
  /\ \A i, j \in Places : queue[i] = queue[j] => i = j
  /\ \A t \in Threads : th[t].pc \in Waiting \cup Holding <=> \E i \in Places : queue[i] = t
  /\ tail.node = IF queue = <<>> THEN NoThread ELSE queue[Len(queue)]
  /\ tail.node # NoThread /\ ~tail.consistent => tail.version = 0

\* The first one holds the lock or has been granted it; those behind wait.
FirstHolds ==
  \A i \in Places :
    IF i = 1 THEN th[queue[i]].pc \in Holding \/ (th[queue[i]].pc = "wait" /\ qnode[queue[i]].version # 0)
    ELSE /\ th[queue[i]].pc \in Waiting /\ qnode[queue[i]].version = 0
         /\ th[queue[i]].pc = "link" => th[queue[i]].seen.node = queue[i - 1]

\* The links are those that the waiting threads have made.
LinksFollowQueue ==
  \A i \in Places :
    qnode[queue[i]].next = IF i < Len(queue) /\ th[queue[i + 1]].pc = "wait" THEN queue[i + 1] ELSE NoThread

\* A holder that goes on to a successor has one.
Passing ==
  \A t \in Threads : /\ th[t].pc \in {"u_open", "u_next", "u_grant"} => Len(queue) > 1
                     /\ th[t].pc = "u_grant" => qnode[t].next # NoThread
                     /\ th[t].pc = "u_open" => op_read

\* The tail is open only between a holder's last look and the next holder's close.
OpenWhilePassing ==
  tail.consistent => /\ queue # <<>>
                     /\ op_read
                     /\ th[queue[1]].pc \in {"u_next", "u_grant", "wait", "close"}

\* The consistent bit is only seen on a tail with a queue node.
Clean == \A t \in Threads : th[t].pc \in Reading \cup {"valid"} /\ ~has_locked_bit(th[t].seen) => ~th[t].seen.consistent

\* A thread that tries to lock brings a clean node and a tail nobody held.
Trying == \A t \in Threads : th[t].pc = "try_cas" => /\ qnode[t].next = NoThread
                                                     /\ ~has_locked_bit(th[t].seen)
                                                     /\ ~th[t].seen.consistent

\* Who holds the lock and who is next.
Order == QueueIsTail /\ FirstHolds /\ LinksFollowQueue /\ Passing /\ OpenWhilePassing /\ Trying

\* The complete writes are counted by the version that is free, open, or on
\* its way out; the holder's own write is not yet in, half in, or in.
Pair(a, b) == cell[1] = a /\ cell[2] = b
Versions ==
  kind # "mcs" =>
    /\ queue = <<>> => Pair(tail.version, tail.version)
    /\ queue # <<>> =>
         LET v == qnode[queue[1]].version
             p == th[queue[1]].pc IN
         /\ v > 0
         /\ p \in {"wait", "close", "locked"} => Pair(v - 1, v - 1)
         /\ p = "half" => Pair(v, v - 1)
         /\ p \in Holding \ {"close", "locked", "half"} => Pair(v, v)
    /\ tail.consistent => Pair(tail.version, tail.version)

\* What a reader has read is no older than the version it began with, and the
\* cells only grow.
ReadIsCurrent(t) ==
  LET r == th[t] IN
  /\ r.pc \in Reading => r.seen.version <= cell[1] /\ r.seen.version <= cell[2]
  /\ r.pc \in Reading => ~has_locked_bit(r.seen) \/ r.seen.consistent
  /\ r.pc \in {"read2", "read"} => r.seen.version <= r.got[1] /\ r.got[1] <= cell[1]
  /\ r.pc = "read" => r.seen.version <= r.got[2] /\ r.got[2] <= cell[2]
  /\ r.pc \in {"valid", "try_cas"} => r.got[1] = r.seen.version /\ r.got[2] = r.seen.version
  /\ r.pc = "try_cas" => qnode[t].version = r.seen.version + 1
\* Every reader of a lock with versions.
Reads == kind # "mcs" => \A t \in Threads : ReadIsCurrent(t)

\* MCSLock never reads.
NoReads == kind = "mcs" => \A t \in Threads : th[t].pc \notin Reading \cup {"valid"}

\* The inductive invariant.
IInv == Types /\ Order /\ Versions /\ Reads /\ Clean /\ NoReads
-----------------------------------------------------------------------------
\* A new lock is free and its version is that of the cells.
LEMMA InitInv == ASSUME NoThread \notin Threads, Calls \in Nat
                 PROVE  Init => IInv
<1> SUFFICES ASSUME Init PROVE IInv  OBVIOUS
<1>1. Free(0) \in Tails /\ Free(0).node = NoThread /\ Free(0).version = 0 /\ ~Free(0).consistent
  BY DEF Tails, Free
<1>2. <<0, 0>> \in [1 .. 2 -> Nat]  OBVIOUS
<1>3. \A t \in Threads : th[t] = Outside  BY Zenon DEF Init
<1>4. queue = <<>> /\ Len(queue) = 0  BY DEF Init
<1>5. Outside \in Registers
  BY <1>1, <1>2 DEF Outside, PCs, Registers
<1>6. Outside.pc = "idle"  BY DEF Outside
<1>7. Types  BY <1>1, <1>2, <1>5 DEF Types, Init, kInvalidVersion, QNodes
<1>8. Order
  BY <1>1, <1>3, <1>4, <1>6
  DEF Init, Order, QueueIsTail, FirstHolds, LinksFollowQueue, Passing, OpenWhilePassing, Trying,
      Waiting, Holding, Places
<1>9. Versions /\ Reads /\ Clean /\ NoReads
  BY <1>1, <1>3, <1>4, <1>6 DEF Init, Versions, Reads, ReadIsCurrent, Clean, NoReads, Pair, Reading
<1> QED  BY <1>7, <1>8, <1>9 DEF IInv

\* A record of th after the usual changes of it.
LEMMA NewRegisters ==
  ASSUME Types, NEW t \in Threads
  PROVE  /\ \A l : Goto(t, l) => /\ th' = [th EXCEPT ![t] = th'[t]]
                                /\ th'[t] = [pc |-> l, seen |-> th[t].seen, got |-> th[t].got]
         /\ \A l : Load(t, l) => /\ th' = [th EXCEPT ![t] = th'[t]]
                                /\ th'[t] = [pc |-> l, seen |-> tail, got |-> th[t].got]
         /\ Return(t) => th' = [th EXCEPT ![t] = th'[t]] /\ th'[t] = Outside
BY DEF Types, Registers, Goto, Load, Return

\* The holder is the first of the queue.
LEMMA HolderIsFirst ==
  ASSUME IInv, NEW t \in Threads, th[t].pc \in Holding
  PROVE  queue # <<>> /\ Len(queue) > 0 /\ queue[1] = t
<1>1. PICK i \in Places : queue[i] = t  BY DEF IInv, Order, QueueIsTail
<1>2. i = 1  BY <1>1 DEF IInv, Order, FirstHolds, Holding, Waiting
<1> QED  BY <1>1, <1>2 DEF IInv, Types, Places

\* A waiting thread that has not been granted the lock has one in front.
LEMMA WaiterHasPredecessor ==
  ASSUME IInv, NEW t \in Threads, th[t].pc = "link"
  PROVE  \E i \in Places : i > 1 /\ i - 1 \in Places /\ queue[i] = t /\ th[t].seen.node = queue[i - 1]
                           /\ queue[i - 1] \in Threads
<1>1. PICK i \in Places : queue[i] = t  BY DEF IInv, Order, QueueIsTail, Waiting
<1>2. i > 1  BY <1>1 DEF IInv, Types, Order, FirstHolds, Holding, Waiting, Places
<1> QED  BY <1>1, <1>2 DEF IInv, Types, Order, FirstHolds, Waiting, Places

\* Everything keeps its type.
LEMMA TypesStep == ASSUME NoThread \notin Threads, ~UpgradeOpen, IInv, NEW t \in Threads, Step(t)
                   PROVE  Types'
<1>0. Types  BY DEF IInv
<1>a. make_qnode_ptr(t) \in Tails  BY DEF make_qnode_ptr, Tails
<1>b. \A v \in Nat : Free(v) \in Tails  BY DEF Free, Tails
<1>c. Outside \in Registers  BY <1>b DEF Outside, Registers, PCs
<1>l. \A l \in PCs, f \in Tails : [pc |-> l, seen |-> f, got |-> th[t].got] \in Registers
  BY <1>0 DEF Types, Registers
<1>m. th[t].seen \in Tails /\ tail \in Tails  BY <1>0 DEF Types, Registers
<1>d. \A l \in PCs : Goto(t, l) => th' \in [Threads -> Registers]
  <2> SUFFICES ASSUME NEW l \in PCs, Goto(t, l) PROVE th' \in [Threads -> Registers]  OBVIOUS
  <2>1. th'[t] = [pc |-> l, seen |-> th[t].seen, got |-> th[t].got]  BY <1>0, NewRegisters
  <2>2. th'[t] \in Registers  BY <2>1, <1>l, <1>m
  <2>3. th' = [th EXCEPT ![t] = th'[t]]  BY <1>0, NewRegisters, Zenon
  <2> QED  BY <2>2, <2>3, <1>0 DEF Types
<1>e. \A l \in PCs : Load(t, l) => th' \in [Threads -> Registers]
  <2> SUFFICES ASSUME NEW l \in PCs, Load(t, l) PROVE th' \in [Threads -> Registers]  OBVIOUS
  <2>1. th'[t] = [pc |-> l, seen |-> tail, got |-> th[t].got]  BY <1>0, NewRegisters
  <2>2. th'[t] \in Registers  BY <2>1, <1>l, <1>m
  <2>3. th' = [th EXCEPT ![t] = th'[t]]  BY <1>0, NewRegisters, Zenon
  <2> QED  BY <2>2, <2>3, <1>0 DEF Types
<1>f. Return(t) => th' \in [Threads -> Registers]
  BY <1>0, <1>c, NewRegisters DEF Types
<1>g. Released(t) \in Tails  BY <1>0, <1>b DEF Types, QNodes, Released
<1>h. \A n \in Threads \cup {NoThread}, v \in Nat : [next |-> n, version |-> v] \in QNodes
  BY DEF QNodes
<1>i. /\ {"idle", "valid", "try_cas", "read1", "read2", "read", "link", "wait", "close", "locked",
          "half", "unlock", "u_cas", "u_open", "u_next", "u_grant"} \subseteq PCs
  BY DEF PCs, Holding, Waiting, Reading
<1>j. \A v \in Nat : next_version(v) \in Nat  BY DEF next_version, kVersionStride
<1>k. \A u \in Threads : th[u] \in Registers /\ qnode[u] \in QNodes /\ qnode[u].version \in Nat
  BY <1>0 DEF Types, QNodes
<1>1. CASE Exchange(t)
  <2>1. th' \in [Threads -> Registers]  BY <1>1, <1>d, <1>e, <1>i DEF Exchange
  <2>2. qnode' \in [Threads -> QNodes]
    <3>1. next_version(tail.version) \in Nat  BY <1>0, <1>j DEF Types, Tails
    <3>2. \E v \in Nat : qnode' = [qnode EXCEPT ![t] = [next |-> NoThread, version |-> v]]
      BY <1>1, <3>1 DEF Exchange, kInvalidVersion
    <3> QED  BY <3>2, <1>0, <1>h DEF Types
  <2> QED  BY <1>0, <1>1, <1>a, <2>1, <2>2 DEF Exchange, Call, Types
<1>2. CASE Link(t)
  <2>1. th' \in [Threads -> Registers]  BY <1>2, <1>d, <1>i DEF Link
  <2>2. th[t].seen.node \in Threads  BY <1>2, WaiterHasPredecessor DEF Link
  <2>3. qnode' \in [Threads -> QNodes]
    BY <1>2, <1>0, <2>2 DEF Link, Types, QNodes
  <2> QED  BY <1>0, <1>2, <2>1, <2>3 DEF Link, Types
<1>3. CASE Granted(t) \/ Unlock(t) \/ AwaitNext(t)
  <2>1. th' \in [Threads -> Registers]  BY <1>3, <1>d, <1>i DEF Granted, Unlock, AwaitNext
  <2> QED  BY <1>0, <1>3, <2>1 DEF Granted, Unlock, AwaitNext, Types
<1>4. CASE CloseToReaders(t) \/ OpenToReaders(t)
  <2>1. th' \in [Threads -> Registers]  BY <1>4, <1>d, <1>i DEF CloseToReaders, OpenToReaders
  <2>2. tail' \in Tails
    <3>1. CASE CloseToReaders(t)  BY <3>1, <1>0, Zenon DEF CloseToReaders, Types, Tails
    <3>2. CASE OpenToReaders(t)  BY <3>2, <1>0, <1>k, Zenon DEF OpenToReaders, Types, Tails
    <3> QED  BY <1>4, <3>1, <3>2
  <2> QED  BY <1>0, <1>4, <2>1, <2>2 DEF CloseToReaders, OpenToReaders, Types
<1>5. CASE Write(t)
  <2>1. th' \in [Threads -> Registers]  BY <1>5, <1>d, <1>i DEF Write
  <2>2. cell' \in [1 .. 2 -> Nat]  BY <1>5, <1>0 DEF Write, Types
  <2> QED  BY <1>0, <1>5, <2>1, <2>2 DEF Write, Types
<1>6. CASE UnlockLast(t)
  <2>1. th' \in [Threads -> Registers]  BY <1>6, <1>d, <1>f, <1>i DEF UnlockLast
  <2>2. queue' \in Seq(Threads)
    <3>1. queue # <<>> /\ queue \in Seq(Threads)
      BY <1>6, <1>0, HolderIsFirst DEF UnlockLast, Types, Holding
    <3>2. Tail(queue) \in Seq(Threads)  BY <3>1
    <3> QED  BY <1>6, <3>1, <3>2 DEF UnlockLast
  <2> QED  BY <1>0, <1>6, <2>1, <2>2, <1>g DEF UnlockLast, Types
<1>7. CASE Grant(t)
  <2>1. th' \in [Threads -> Registers]  BY <1>7, <1>f DEF Grant
  <2>2. queue' \in Seq(Threads)
    BY <1>7, <1>0, HolderIsFirst, HeadTailProperties DEF Grant, Types, Holding
  <2>3. qnode[t].next \in Threads
    BY <1>0, <1>7 DEF Grant, IInv, Order, Passing, Types, QNodes
  <2>4. qnode' \in [Threads -> QNodes]
    BY <1>7, <1>0, <2>3, <1>j, <1>k DEF Grant, Types, QNodes
  <2> QED  BY <1>0, <1>7, <2>1, <2>2, <2>4 DEF Grant, Types
<1>8. CASE begin_read(t)
  <2>1. th' \in [Threads -> Registers]  BY <1>8, <1>e, <1>i DEF begin_read
  <2> QED  BY <1>0, <1>8, <2>1 DEF begin_read, Call, Types
<1>9. CASE Read(t)
  <2>1. th' \in [Threads -> Registers]
    <3>1. \A i \in 1 .. 2 : [th[t].got EXCEPT ![i] = cell[i]] \in [1 .. 2 -> Nat]
      BY <1>0 DEF Types, Registers
    <3>2. \A l \in PCs, g \in [1 .. 2 -> Nat] : [pc |-> l, seen |-> th[t].seen, got |-> g] \in Registers
      BY <1>m DEF Registers
    <3>3. CASE th[t].pc = "read1"
      <4>1. th' = [th EXCEPT ![t] = [pc |-> "read2", seen |-> th[t].seen,
                                     got |-> [th[t].got EXCEPT ![1] = cell[1]]]]
        BY <1>9, <3>3, <1>0 DEF Read, Types, Registers
      <4> QED  BY <4>1, <3>1, <3>2, <1>0, <1>i DEF Types
    <3>4. CASE th[t].pc = "read2"
      <4>1. th' = [th EXCEPT ![t] = [pc |-> "read", seen |-> th[t].seen,
                                     got |-> [th[t].got EXCEPT ![2] = cell[2]]]]
        BY <1>9, <3>4, <1>0 DEF Read, Types, Registers
      <4> QED  BY <4>1, <3>1, <3>2, <1>0, <1>i DEF Types
    <3> QED  BY <1>9, <3>3, <3>4 DEF Read
  <2> QED  BY <1>0, <1>9, <2>1 DEF Read, Types
<1>10. CASE validate_read(t) \/ Leave(t)
  <2>1. th' \in [Threads -> Registers]  BY <1>10, <1>d, <1>f, <1>i DEF validate_read, Leave
  <2> QED  BY <1>0, <1>10, <2>1 DEF validate_read, Leave, Types
<1>11. CASE TryLock(t)
  <2>1. th' \in [Threads -> Registers]  BY <1>11, <1>d, <1>i DEF TryLock
  <2>2. AsVersion(th[t].seen) \in Nat
    BY <1>11, <1>0 DEF TryLock, AsVersion, Types, Registers, Tails
  <2>3. qnode' \in [Threads -> QNodes]
    BY <1>11, <1>0, <2>2, <1>h, <1>j DEF TryLock, Types
  <2> QED  BY <1>0, <1>11, <2>1, <2>3 DEF TryLock, Types
<1>12. CASE TryLockMCS(t)
  <2>1. th' \in [Threads -> Registers]  BY <1>12, <1>e, <1>i DEF TryLockMCS
  <2>2. qnode' \in [Threads -> QNodes]
    BY <1>12, <1>0, <1>h DEF TryLockMCS, Types, kInvalidVersion
  <2> QED  BY <1>0, <1>12, <2>1, <2>2 DEF TryLockMCS, Call, Types
<1>13. CASE TryCas(t)
  <2>1. th' \in [Threads -> Registers]  BY <1>13, <1>d, <1>f, <1>i DEF TryCas
  <2>2. queue' \in Seq(Threads)
    <3>1. Append(queue, t) \in Seq(Threads)  BY <1>0 DEF Types
    <3> QED  BY <3>1, <1>0, <1>13 DEF TryCas, Types
  <2> QED  BY <1>0, <1>13, <1>a, <2>1, <2>2 DEF TryCas, Types
<1> QED
  BY <1>1, <1>2, <1>3, <1>4, <1>5, <1>6, <1>7, <1>8, <1>9, <1>10, <1>11, <1>12, <1>13 DEF Step

\* The steps of a thread outside the queue leave the queue's order alone.
LEMMA OutsideOrder ==
  ASSUME IInv, Types', NEW t \in Threads,
         th[t].pc \notin Waiting \cup Holding, th'[t].pc \notin Waiting \cup Holding,
         \A u \in Threads : u # t => th'[u] = th[u] /\ qnode'[u] = qnode[u],
         UNCHANGED <<kind, tail, queue>>
  PROVE  QueueIsTail' /\ FirstHolds' /\ LinksFollowQueue' /\ Passing' /\ OpenWhilePassing'
<1> USE DEF Order, Places
<1>1. Types /\ Order  BY DEF IInv
<1>2. \A i \in Places : queue[i] \in Threads /\ queue[i] # t
  BY <1>1 DEF Types, QueueIsTail
<1>3. \A i \in Places : th'[queue[i]] = th[queue[i]] /\ qnode'[queue[i]] = qnode[queue[i]]
  BY <1>2
<1>4. QueueIsTail'  BY <1>1, <1>2 DEF QueueIsTail
<1>5. FirstHolds'  BY <1>1, <1>3 DEF FirstHolds
<1>6. LinksFollowQueue'
  <2>1. \A i \in Places : i < Len(queue) => i + 1 \in Places  BY <1>1 DEF Types
  <2> QED  BY <1>1, <1>3, <2>1 DEF LinksFollowQueue
<1>7. Passing'  BY <1>1, Zenon DEF Passing, Holding, op_read
<1>8. OpenWhilePassing'
  <2>1. queue # <<>> => 1 \in Places  BY <1>1 DEF Types
  <2> QED  BY <1>1, <1>3, <2>1 DEF OpenWhilePassing, op_read
<1> QED  BY <1>4, <1>5, <1>6, <1>7, <1>8

\* Neither do those of the first thread that keep the lock with it.
LEMMA HoldingOrder ==
  ASSUME IInv, Types', NEW t \in Threads,
         queue # <<>>, queue[1] = t, th'[t].pc \in Holding,
         \A u \in Threads : u # t => th'[u] = th[u],
         UNCHANGED <<kind, qnode, queue>>, tail'.node = tail.node
  PROVE  /\ (tail'.node # NoThread /\ ~tail'.consistent => tail'.version = 0) => QueueIsTail'
         /\ FirstHolds' /\ LinksFollowQueue' /\ Trying'
<1> USE DEF Order, Places
<1>1. Types /\ Order  BY DEF IInv
<1>2. 1 \in Places  BY <1>1 DEF Types
<1>3. \A i \in Places : queue[i] \in Threads /\ (i # 1 => queue[i] # t)
  BY <1>1, <1>2 DEF Types, QueueIsTail
<1>4. \A i \in Places : i # 1 => th'[queue[i]] = th[queue[i]]  BY <1>3
<1>5. ASSUME tail'.node # NoThread /\ ~tail'.consistent => tail'.version = 0
      PROVE  QueueIsTail'
  <2>1. \A u \in Threads : th'[u].pc \in Waiting \cup Holding <=> \E i \in Places : queue[i] = u
    BY <1>1, <1>2 DEF QueueIsTail
  <2> QED  BY <1>1, <1>5, <2>1 DEF QueueIsTail
<1>6. FirstHolds'  BY <1>1, <1>4 DEF FirstHolds
<1>7. LinksFollowQueue'
  <2>1. \A i \in Places : i < Len(queue) => i + 1 \in Places /\ i + 1 # 1  BY <1>1 DEF Types
  <2> QED  BY <1>1, <1>4, <2>1 DEF LinksFollowQueue
<1>8. Trying'  BY <1>1, Zenon DEF Trying, Holding, has_locked_bit
<1> QED  BY <1>5, <1>6, <1>7, <1>8

\* The thread at the end: it joins behind the queue it finds, or first.
LEMMA JoinOrder ==
  ASSUME NoThread \notin Threads, IInv, Types', NEW t \in Threads,
         th[t].pc \notin Waiting \cup Holding,
         queue' = Append(queue, t), tail' = make_qnode_ptr(t), UNCHANGED kind,
         \A u \in Threads : u # t => th'[u] = th[u] /\ qnode'[u] = qnode[u],
         qnode'[t].next = NoThread,
         IF queue = <<>> THEN th'[t].pc \in Holding \ {"u_open", "u_next", "u_grant"}
         ELSE th'[t].pc = "link" /\ th'[t].seen.node = tail.node /\ qnode'[t].version = 0
  PROVE  Order'
<1> USE DEF Order, Places
<1>1. Types /\ Order  BY DEF IInv
<1>2. \A i \in Places : queue[i] \in Threads /\ queue[i] # t
  BY <1>1 DEF Types, QueueIsTail
<1>3. /\ Len(queue') = Len(queue) + 1 /\ queue'[Len(queue) + 1] = t /\ queue' # <<>>
      /\ \A i \in Places : queue'[i] = queue[i]
      /\ Places' = Places \cup {Len(queue) + 1} /\ Len(queue) + 1 \notin Places
      /\ Len(queue) \in Nat
  BY <1>1 DEF Types
<1>4. \A i \in Places : th'[queue[i]] = th[queue[i]] /\ qnode'[queue[i]] = qnode[queue[i]]
  BY <1>2
<1>5. tail'.node = t /\ tail'.version = 0 /\ ~tail'.consistent  BY DEF make_qnode_ptr
<1>6. Places # {} => queue # <<>>  BY <1>1 DEF Types
<1>7. QueueIsTail'
  <2>1. \A i, j \in Places' : queue'[i] = queue'[j] => i = j
    BY <1>1, <1>2, <1>3 DEF QueueIsTail
  <2>2. \A u \in Threads : th'[u].pc \in Waiting \cup Holding <=> \E i \in Places' : queue'[i] = u
    <3>1. th'[t].pc \in Waiting \cup Holding  BY DEF Waiting
    <3>2. \A u \in Threads : u # t => (\E i \in Places' : queue'[i] = u) <=> \E i \in Places : queue[i] = u
      BY <1>3
    <3> QED  BY <1>1, <1>3, <3>1, <3>2 DEF QueueIsTail
  <2> QED  BY <2>1, <2>2, <1>3, <1>5 DEF QueueIsTail
<1>8. FirstHolds'
  <2>1. \A i \in Places : i # 1 => i - 1 \in Places  BY <1>1 DEF Types
  <2>2. Len(queue) + 1 # 1 => Len(queue) \in Places /\ queue # <<>> /\ tail.node = queue[Len(queue)]
    BY <1>1 DEF Types, QueueIsTail
  <2>3. queue = <<>> => Len(queue) + 1 = 1  BY <1>1 DEF Types
  <2> SUFFICES ASSUME NEW i \in Places'
               PROVE  IF i = 1
                      THEN \/ th'[queue'[i]].pc \in Holding
                           \/ th'[queue'[i]].pc = "wait" /\ qnode'[queue'[i]].version # 0
                      ELSE /\ th'[queue'[i]].pc \in Waiting /\ qnode'[queue'[i]].version = 0
                           /\ th'[queue'[i]].pc = "link" => th'[queue'[i]].seen.node = queue'[i - 1]
    BY DEF FirstHolds
  <2>4. CASE i \in Places  BY <1>1, <1>3, <1>4, <2>1, <2>4 DEF FirstHolds
  <2>5. CASE i = Len(queue) + 1
    <3>1. CASE queue = <<>>  BY <1>3, <2>3, <2>5, <3>1
    <3>2. CASE queue # <<>>
      <4>1. i # 1  BY <1>1, <2>5, <3>2 DEF Types
      <4>2. i - 1 = Len(queue)  BY <1>3, <2>5
      <4> QED  BY <1>3, <2>2, <2>5, <3>2, <4>1, <4>2 DEF Waiting
    <3> QED  BY <3>1, <3>2
  <2> QED  BY <1>3, <2>4, <2>5
<1>9. LinksFollowQueue'
  <2> SUFFICES ASSUME NEW i \in Places'
               PROVE  qnode'[queue'[i]].next = IF i < Len(queue') /\ th'[queue'[i + 1]].pc = "wait"
                                               THEN queue'[i + 1] ELSE NoThread
    BY DEF LinksFollowQueue
  <2>1. CASE i = Len(queue) + 1  BY <1>3, <2>1
  <2>2. CASE i = Len(queue) /\ i \in Places
    <3>1. qnode[queue[i]].next = NoThread  BY <1>1, <2>2 DEF LinksFollowQueue
    <3>2. queue # <<>>  BY <1>6, <2>2
    <3>3. th'[queue'[i + 1]].pc = "link"  BY <1>3, <2>2, <3>2
    <3> QED  BY <1>3, <1>4, <2>2, <3>1, <3>3
  <2>3. CASE i \in Places /\ i # Len(queue)
    <3>1. i < Len(queue) /\ i < Len(queue') /\ i + 1 \in Places  BY <1>3, <2>3
    <3> QED  BY <1>1, <1>3, <1>4, <2>3, <3>1 DEF LinksFollowQueue
  <2> QED  BY <1>3, <2>1, <2>2, <2>3
<1>10. Passing'
  <2>1. th'[t].pc \notin {"u_open", "u_next", "u_grant"}  BY DEF Holding
  <2> QED  BY <1>1, <1>3, <2>1 DEF Passing, op_read
<1>11. OpenWhilePassing'  BY <1>5 DEF OpenWhilePassing
<1>12. Trying'
  <2>1. th'[t].pc # "try_cas"  BY DEF Holding
  <2> QED  BY <1>1, <2>1, Zenon DEF Trying, has_locked_bit
<1> QED  BY <1>7, <1>8, <1>9, <1>10, <1>11, <1>12

\* The first thread leaves: the one behind it, if any, has been granted the
\* lock and is then first.
LEMMA LeaveOrder ==
  ASSUME NoThread \notin Threads, IInv, Types', NEW t \in Threads, th[t].pc \in Holding,
         queue' = Tail(queue), UNCHANGED kind, th'[t].pc = "idle",
         \A u \in Threads : u # t => th'[u] = th[u],
         \A u \in Threads : qnode'[u].next = qnode[u].next,
         \A i \in Places : i > 2 => qnode'[queue[i]] = qnode[queue[i]],
         IF Len(queue) = 1 THEN tail'.node = NoThread /\ ~tail'.consistent
         ELSE /\ th[queue[2]].pc = "wait" /\ qnode'[queue[2]].version # 0
              /\ tail' = tail
  PROVE  Order'
<1> USE DEF Order, Places
<1>1. Types /\ Order  BY DEF IInv
<1>2. queue # <<>> /\ Len(queue) > 0 /\ queue[1] = t  BY HolderIsFirst
<1>3. Len(queue) \in Nat /\ 1 \in Places  BY <1>1, <1>2 DEF Types
<1>4. \A i \in Places : queue[i] \in Threads /\ (i # 1 => queue[i] # t)
  BY <1>1, <1>2, <1>3 DEF Types, QueueIsTail
<1>5. /\ Len(queue') = Len(queue) - 1
      /\ \A i \in Places' : i + 1 \in Places /\ i + 1 # 1 /\ queue'[i] = queue[i + 1]
      /\ \A i \in Places : i # 1 => i - 1 \in Places' /\ queue'[i - 1] = queue[i]
      /\ queue' = <<>> <=> Len(queue) = 1
  <2>1. Len(queue') = Len(queue) - 1 /\ queue' \in Seq(Threads)  BY <1>1, <1>2 DEF Types
  <2>2. \A i \in Places' : queue'[i] = queue[i + 1]  BY <1>1, <1>2, HeadTailProperties DEF Types
  <2>3. \A i \in Places' : i + 1 \in Places /\ i + 1 # 1  BY <1>3, <2>1
  <2>4. \A i \in Places : i # 1 => i - 1 \in Places' /\ (i - 1) + 1 = i  BY <1>3, <2>1
  <2>5. queue' = <<>> <=> Len(queue) = 1
    <3>1. queue' # <<>> => Len(queue') # 0  BY <2>1, EmptySeq
    <3>2. queue' = <<>> => Len(queue') = 0  BY Zenon
    <3> QED  BY <1>3, <2>1, <3>1, <3>2
  <2>6. \A i \in Places : i # 1 => queue'[i - 1] = queue[i]  BY <2>2, <2>4
  <2> QED  BY <2>1, <2>2, <2>3, <2>4, <2>5, <2>6
<1>6. \A i \in Places' : th'[queue'[i]] = th[queue[i + 1]]  BY <1>4, <1>5
<1>7. QueueIsTail'
  <2>1. \A i, j \in Places' : queue'[i] = queue'[j] => i = j
    BY <1>1, <1>5 DEF QueueIsTail
  <2>2. \A u \in Threads : th'[u].pc \in Waiting \cup Holding <=> \E i \in Places' : queue'[i] = u
    <3> SUFFICES ASSUME NEW u \in Threads
                 PROVE  th'[u].pc \in Waiting \cup Holding <=> \E i \in Places' : queue'[i] = u
      OBVIOUS
    <3>1. CASE u = t
      <4>1. th'[u].pc \notin Waiting \cup Holding  BY <3>1 DEF Waiting, Holding
      <4>2. \A i \in Places' : queue'[i] # t  BY <1>4, <1>5
      <4> QED  BY <3>1, <4>1, <4>2
    <3>2. CASE u # t
      <4>1. th'[u].pc \in Waiting \cup Holding <=> \E i \in Places : queue[i] = u
        BY <1>1, <3>2 DEF QueueIsTail
      <4>2. (\E i \in Places : queue[i] = u) <=> \E i \in Places' : queue'[i] = u
        <5>1. ASSUME NEW i \in Places, queue[i] = u PROVE \E j \in Places' : queue'[j] = u
          BY <1>2, <1>5, <3>2, <5>1, Zenon
        <5>2. ASSUME NEW j \in Places', queue'[j] = u PROVE \E i \in Places : queue[i] = u
          BY <1>5, <5>2
        <5> QED  BY <5>1, <5>2
      <4> QED  BY <4>1, <4>2
    <3> QED  BY <3>1, <3>2
  <2>3. tail'.node = IF queue' = <<>> THEN NoThread ELSE queue'[Len(queue')]
    <3>1. CASE Len(queue) = 1  BY <1>5, <3>1
    <3>2. CASE Len(queue) # 1
      <4>1. tail.node = queue[Len(queue)]  BY <1>1, <1>2 DEF QueueIsTail
      <4>2. Len(queue) \in Places  BY <1>3
      <4>3. queue'[Len(queue')] = queue[Len(queue)]  BY <1>3, <1>5, <3>2, <4>2
      <4> QED  BY <1>5, <3>2, <4>1, <4>3
    <3> QED  BY <3>1, <3>2
  <2>4. tail'.node # NoThread /\ ~tail'.consistent => tail'.version = 0
    BY <1>1 DEF QueueIsTail
  <2> QED  BY <2>1, <2>2, <2>3, <2>4 DEF QueueIsTail
<1>8. FirstHolds'
  <2> SUFFICES ASSUME NEW i \in Places'
               PROVE  IF i = 1
                      THEN \/ th'[queue'[i]].pc \in Holding
                           \/ th'[queue'[i]].pc = "wait" /\ qnode'[queue'[i]].version # 0
                      ELSE /\ th'[queue'[i]].pc \in Waiting /\ qnode'[queue'[i]].version = 0
                           /\ th'[queue'[i]].pc = "link" => th'[queue'[i]].seen.node = queue'[i - 1]
    BY Zenon DEF FirstHolds
  <2>1. CASE i = 1
    <3>1. 2 \in Places /\ queue'[1] = queue[2] /\ th'[queue'[1]] = th[queue[2]] /\ Len(queue) # 1
      BY <1>3, <1>5, <1>6, <2>1
    <3> QED  BY <2>1, <3>1
  <2>2. CASE i # 1
    <3>1. i + 1 > 2 /\ i + 1 \in Places /\ queue'[i] = queue[i + 1] /\ i \in Places /\ i - 1 \in Places'
          /\ queue'[i - 1] = queue[i]
      BY <1>3, <1>5, <2>2
    <3>2. qnode'[queue[i + 1]] = qnode[queue[i + 1]]  BY <3>1
    <3> QED  BY <1>1, <1>6, <2>2, <3>1, <3>2 DEF FirstHolds
  <2> QED  BY <2>1, <2>2
<1>9. LinksFollowQueue'
  <2> SUFFICES ASSUME NEW i \in Places'
               PROVE  qnode'[queue'[i]].next = IF i < Len(queue') /\ th'[queue'[i + 1]].pc = "wait"
                                               THEN queue'[i + 1] ELSE NoThread
    BY DEF LinksFollowQueue
  <2>1. i + 1 \in Places /\ queue'[i] = queue[i + 1] /\ queue[i + 1] \in Threads  BY <1>4, <1>5
  <2>2. i < Len(queue') <=> i + 1 < Len(queue)  BY <1>3, <1>5
  <2>3. i < Len(queue') => i + 1 \in Places' /\ queue'[i + 1] = queue[i + 2]  BY <1>3, <1>5
  <2>4. qnode'[queue'[i]].next = qnode[queue[i + 1]].next  BY <2>1
  <2>5. qnode[queue[i + 1]].next = IF i + 1 < Len(queue) /\ th[queue[i + 2]].pc = "wait"
                                   THEN queue[i + 2] ELSE NoThread
    BY <1>1, <2>1 DEF LinksFollowQueue
  <2> QED  BY <1>6, <2>2, <2>3, <2>4, <2>5
<1>10. Passing'
  <2>1. \A u \in Threads : th[u].pc \in Holding => u = t  BY HolderIsFirst, <1>2
  <2>2. \A u \in Threads : th'[u].pc \notin {"u_open", "u_next", "u_grant"}
    BY <2>1 DEF Holding
  <2> QED  BY <2>2 DEF Passing
<1>11. OpenWhilePassing'
  <2> SUFFICES ASSUME tail'.consistent PROVE OpenWhilePassing'  BY DEF OpenWhilePassing
  <2>1. Len(queue) # 1 /\ tail.consistent  OBVIOUS
  <2>2. 1 \in Places'  BY <1>3, <1>5, <2>1
  <2>3. th'[queue'[1]].pc = "wait"  BY <1>5, <1>6, <2>1, <2>2
  <2> QED  BY <1>1, <1>5, <2>1, <2>3 DEF OpenWhilePassing, op_read
<1>12. Trying'
  BY <1>1, Zenon DEF Trying, has_locked_bit
<1> QED  BY <1>7, <1>8, <1>9, <1>10, <1>11, <1>12

\* Every step keeps the queue in order.
LEMMA OrderStep ==
  ASSUME NoThread \notin Threads, ~UpgradeOpen, IInv, Types', NEW t \in Threads, Step(t)
  PROVE  Order'
<1>0. Types /\ Order  BY DEF IInv
<1>a. \A l : Goto(t, l) => th'[t].pc = l /\ th'[t].seen = th[t].seen /\ \A u \in Threads : u # t => th'[u] = th[u]
  BY <1>0, NewRegisters DEF Types
<1>b. \A l : Load(t, l) => th'[t].pc = l /\ th'[t].seen = tail /\ \A u \in Threads : u # t => th'[u] = th[u]
  BY <1>0, NewRegisters DEF Types
<1>c. Return(t) => th'[t].pc = "idle" /\ \A u \in Threads : u # t => th'[u] = th[u]
  BY <1>0, NewRegisters DEF Types, Outside
<1>d. tail.node = NoThread <=> queue = <<>>
  <2>1. queue # <<>> => Len(queue) \in Places  BY <1>0, EmptySeq DEF Types, Places
  <2>2. queue # <<>> => queue[Len(queue)] \in Threads  BY <1>0, <2>1 DEF Types, Places
  <2> QED  BY <1>0, <2>2 DEF Order, QueueIsTail
<1>1. CASE Exchange(t)
  <2>1. th[t].pc \notin Waiting \cup Holding  BY <1>1 DEF Exchange, Waiting, Holding
  <2>2. \A u \in Threads : u # t => th'[u] = th[u] /\ qnode'[u] = qnode[u]
    BY <1>0, <1>1, <1>a, <1>b DEF Exchange, Types
  <2>3. qnode'[t].next = NoThread  BY <1>0, <1>1 DEF Exchange, Types
  <2>4. CASE queue = <<>>
    <3>1. th'[t].pc = "locked"  BY <1>1, <1>a, <1>d, <2>4 DEF Exchange, has_locked_bit
    <3> QED  BY <1>1, <2>1, <2>2, <2>3, <2>4, <3>1, JoinOrder DEF Exchange, Holding
  <2>5. CASE queue # <<>>
    <3>1. th'[t].pc = "link" /\ th'[t].seen.node = tail.node /\ qnode'[t].version = 0
      BY <1>0, <1>1, <1>b, <1>d, <2>5 DEF Exchange, has_locked_bit, Types, kInvalidVersion
    <3> QED  BY <1>1, <2>1, <2>2, <2>3, <2>5, <3>1, JoinOrder DEF Exchange
  <2> QED  BY <2>4, <2>5
<1>2. CASE Link(t)
  <2> USE DEF Places
  <2>1. PICK k \in Places : /\ k > 1 /\ k - 1 \in Places /\ queue[k] = t
                            /\ th[t].seen.node = queue[k - 1] /\ queue[k - 1] \in Threads
    BY <1>2, WaiterHasPredecessor DEF Link
  <2>2. /\ th'[t].pc = "wait" /\ th[t].pc = "link"
        /\ \A u \in Threads : u # t => th'[u] = th[u]
        /\ UNCHANGED <<kind, tail, queue>>
        /\ qnode' = [qnode EXCEPT ![queue[k - 1]].next = t]
    BY <1>2, <1>a, <2>1 DEF Link
  <2>3. \A u \in Threads : /\ qnode'[u].version = qnode[u].version
                           /\ qnode'[u].next = IF u = queue[k - 1] THEN t ELSE qnode[u].next
    BY <1>0, <2>1, <2>2 DEF Types, QNodes
  <2>4. \A i \in Places : queue[i] \in Threads /\ (i # k => queue[i] # t) /\ (i # k - 1 => queue[i] # queue[k - 1])
    BY <1>0, <2>1 DEF Types, Order, QueueIsTail
  <2>5. QueueIsTail'  BY <1>0, <2>2 DEF Order, QueueIsTail, Waiting
  <2>6. FirstHolds'
    <3> SUFFICES ASSUME NEW i \in Places
                 PROVE  IF i = 1
                        THEN \/ th'[queue[i]].pc \in Holding
                             \/ th'[queue[i]].pc = "wait" /\ qnode'[queue[i]].version # 0
                        ELSE /\ th'[queue[i]].pc \in Waiting /\ qnode'[queue[i]].version = 0
                             /\ th'[queue[i]].pc = "link" => th'[queue[i]].seen.node = queue[i - 1]
      BY <2>2 DEF FirstHolds
    <3>1. CASE i = k  BY <1>0, <2>1, <2>2, <2>3, <3>1 DEF Order, FirstHolds, Waiting
    <3>2. CASE i # k  BY <1>0, <2>2, <2>3, <2>4, <3>2 DEF Order, FirstHolds
    <3> QED  BY <3>1, <3>2
  <2>7. LinksFollowQueue'
    <3> SUFFICES ASSUME NEW i \in Places
                 PROVE  qnode'[queue[i]].next = IF i < Len(queue) /\ th'[queue[i + 1]].pc = "wait"
                                                THEN queue[i + 1] ELSE NoThread
      BY <2>2 DEF LinksFollowQueue
    <3>0. Len(queue) \in Nat  BY <1>0 DEF Types
    <3>1. CASE i = k - 1
      <4>1. i < Len(queue) /\ i + 1 = k  BY <2>1, <3>0, <3>1
      <4> QED  BY <2>1, <2>2, <2>3, <3>1, <4>1
    <3>2. CASE i # k - 1
      <4>1. qnode'[queue[i]].next = qnode[queue[i]].next  BY <2>3, <2>4, <3>2
      <4>2. i < Len(queue) => i + 1 \in Places /\ i + 1 # k  BY <2>1, <3>0, <3>2
      <4>3. i < Len(queue) => th'[queue[i + 1]] = th[queue[i + 1]]  BY <2>2, <2>4, <4>2
      <4> QED  BY <1>0, <4>1, <4>3 DEF Order, LinksFollowQueue
    <3> QED  BY <3>1, <3>2
  <2>8. Passing'
    <3>1. \A u \in Threads : qnode[u].next # NoThread => qnode'[u].next # NoThread  BY <2>3
    <3> QED  BY <1>0, <2>2, <3>1 DEF Order, Passing, op_read
  <2>9. OpenWhilePassing'
    <3>1. queue # <<>> => queue[1] # t  BY <2>1, <2>4
    <3>2. queue # <<>> => th'[queue[1]] = th[queue[1]]  BY <2>1, <2>2, <2>4, <3>1
    <3> QED  BY <1>0, <2>2, <3>2 DEF Order, OpenWhilePassing, op_read
  <2>10. Trying'
    <3>1. \A u \in Threads : th[u].pc = "try_cas" => u # queue[k - 1]
      BY <1>0, <2>1 DEF Order, QueueIsTail, Waiting, Holding
    <3> QED  BY <1>0, <2>2, <2>3, <3>1 DEF Order, Trying, has_locked_bit
  <2> QED  BY <2>5, <2>6, <2>7, <2>8, <2>9, <2>10 DEF Order
<1>3. CASE Granted(t) \/ CloseToReaders(t) \/ Write(t) \/ Unlock(t) \/ OpenToReaders(t) \/ AwaitNext(t)
           \/ (UnlockLast(t) /\ tail # make_qnode_ptr(t))
  <2>1. queue # <<>> /\ queue[1] = t /\ 1 \in Places
    <3>1. CASE Granted(t)
      <4>1. PICK i \in Places : queue[i] = t
        BY <1>0, <3>1 DEF Granted, Order, QueueIsTail, Waiting
      <4>2. i = 1  BY <1>0, <3>1, <4>1 DEF Granted, Order, FirstHolds, kInvalidVersion
      <4> QED  BY <1>0, <4>1, <4>2 DEF Places, Types
    <3>2. CASE th[t].pc \in Holding  BY <1>0, <3>2, HolderIsFirst DEF Places, Types
    <3> QED
      BY <1>3, <3>1, <3>2 DEF CloseToReaders, Write, Unlock, OpenToReaders, AwaitNext, UnlockLast, Holding
  <2>2. /\ th'[t].pc \in Holding
        /\ \A u \in Threads : u # t => th'[u] = th[u]
        /\ UNCHANGED <<kind, qnode, queue>>
    BY <1>3, <1>a
    DEF Granted, CloseToReaders, Write, Unlock, OpenToReaders, AwaitNext, UnlockLast, Holding
  <2>3. tail'.node = tail.node /\ (tail'.node # NoThread /\ ~tail'.consistent => tail'.version = 0)
    BY <1>0, <1>3, Zenon
    DEF Types, Tails, Order, QueueIsTail, Granted, CloseToReaders, Write, Unlock, OpenToReaders, AwaitNext,
        UnlockLast
  <2>4. QueueIsTail' /\ FirstHolds' /\ LinksFollowQueue' /\ Trying'
    BY <2>1, <2>2, <2>3, HoldingOrder
  <2>5. Passing'
    <3>1. th'[t].pc \in {"u_open", "u_next", "u_grant"} => Len(queue) > 1
      <4>1. CASE Unlock(t)
        <5>1. th'[t].pc \in {"u_open", "u_next", "u_grant"} => qnode[t].next # NoThread
          BY <1>a, <4>1 DEF Unlock
        <5>2. qnode[t].next # NoThread => 1 < Len(queue)
          BY <1>0, <2>1 DEF Order, LinksFollowQueue
        <5> QED  BY <1>0, <5>1, <5>2 DEF Types
      <4>2. CASE UnlockLast(t) /\ tail # make_qnode_ptr(t)
        <5>1. ~tail.consistent  BY <1>0, <2>1, <4>2 DEF Order, OpenWhilePassing, UnlockLast
        <5>2. tail.node # NoThread /\ tail.version = 0  BY <1>0, <1>d, <2>1, <5>1 DEF Order, QueueIsTail
        <5>3. tail = [node |-> tail.node, version |-> 0, consistent |-> FALSE]
          BY <1>0, <5>1, <5>2 DEF Types, Tails
        <5>4. tail.node # t  BY <4>2, <5>3 DEF make_qnode_ptr
        <5>5. Len(queue) # 1  BY <1>0, <2>1, <5>4 DEF Order, QueueIsTail
        <5>6. Len(queue) \in Nat /\ 1 <= Len(queue)  BY <1>0, <2>1 DEF Types, Places
        <5>7. \A n \in Nat : n # 1 /\ 1 <= n => n > 1  OBVIOUS
        <5> QED  BY <5>5, <5>6, <5>7, Zenon
      <4>3. CASE OpenToReaders(t) \/ AwaitNext(t)
        BY <1>0, <4>3 DEF OpenToReaders, AwaitNext, Order, Passing
      <4>4. CASE Granted(t) \/ CloseToReaders(t) \/ Write(t)
        BY <1>a, <4>4 DEF Granted, CloseToReaders, Write
      <4> QED  BY <1>3, <4>1, <4>2, <4>3, <4>4
    <3>2. th'[t].pc = "u_grant" => qnode[t].next # NoThread
      BY <1>3, <1>a
      DEF Granted, CloseToReaders, Write, Unlock, OpenToReaders, AwaitNext, UnlockLast
    <3>3. th'[t].pc = "u_open" => op_read
      BY <1>3, <1>a
      DEF Granted, CloseToReaders, Write, Unlock, OpenToReaders, AwaitNext, UnlockLast
    <3> QED  BY <1>0, <2>2, <3>1, <3>2, <3>3 DEF Order, Passing, op_read
  <2>6. OpenWhilePassing'
    <3>1. CASE Granted(t)
      <4>1. tail.consistent => th'[t].pc = "close"
        BY <1>0, <1>a, <3>1 DEF Granted, Order, OpenWhilePassing
      <4> QED  BY <1>0, <2>1, <2>2, <3>1, <4>1 DEF Granted, Order, OpenWhilePassing, op_read
    <3>2. CASE CloseToReaders(t)
      <4>1. ~tail'.consistent  BY <1>0, <3>2 DEF CloseToReaders, Types, Tails
      <4> QED  BY <4>1 DEF OpenWhilePassing
    <3>3. CASE Write(t) \/ Unlock(t) \/ (UnlockLast(t) /\ tail # make_qnode_ptr(t))
      <4>1. ~tail'.consistent
        BY <1>0, <2>1, <3>3 DEF Order, OpenWhilePassing, Write, Unlock, UnlockLast
      <4> QED  BY <4>1 DEF OpenWhilePassing
    <3>4. CASE OpenToReaders(t)
      <4>1. th'[t].pc = "u_next"  BY <1>a, <3>4 DEF OpenToReaders
      <4>2. op_read  BY <1>0, <3>4 DEF OpenToReaders, Order, Passing
      <4> QED  BY <2>1, <2>2, <4>1, <4>2 DEF OpenWhilePassing, op_read
    <3>5. CASE AwaitNext(t)
      <4>1. th'[t].pc = "u_grant"  BY <1>a, <3>5 DEF AwaitNext
      <4> QED  BY <1>0, <2>1, <2>2, <3>5, <4>1 DEF AwaitNext, Order, OpenWhilePassing, op_read
    <3> QED  BY <1>3, <3>1, <3>2, <3>3, <3>4, <3>5
  <2> QED  BY <2>4, <2>5, <2>6 DEF Order
<1>4. CASE UnlockLast(t) /\ tail = make_qnode_ptr(t)
  <2>1. th[t].pc \in Holding  BY <1>4 DEF UnlockLast, Holding
  <2>2. queue # <<>> /\ Len(queue) > 0 /\ queue[1] = t  BY <2>1, HolderIsFirst
  <2>3. Len(queue) = 1
    <3>1. tail.node = queue[Len(queue)] /\ tail.node = t
      BY <1>0, <1>4, <2>2 DEF Order, QueueIsTail, make_qnode_ptr
    <3>2. 1 \in Places /\ Len(queue) \in Places  BY <1>0, <2>2 DEF Types, Places
    <3> QED  BY <1>0, <2>2, <3>1, <3>2, Zenon DEF Order, QueueIsTail
  <2>4. tail'.node = NoThread /\ ~tail'.consistent  BY <1>4 DEF UnlockLast, Released, Free
  <2>5. /\ queue' = Tail(queue) /\ UNCHANGED <<kind, qnode>> /\ th'[t].pc = "idle"
        /\ \A u \in Threads : u # t => th'[u] = th[u]
    BY <1>4, <1>c DEF UnlockLast
  <2> QED  BY <2>1, <2>3, <2>4, <2>5, LeaveOrder
<1>5. CASE Grant(t)
  <2>1. th[t].pc \in Holding  BY <1>5 DEF Grant, Holding
  <2>2. queue # <<>> /\ queue[1] = t  BY <2>1, HolderIsFirst
  <2>3. Len(queue) > 1 /\ qnode[t].next # NoThread  BY <1>0, <1>5 DEF Grant, Order, Passing
  <2>4. 1 \in Places /\ 2 \in Places /\ 1 < Len(queue)  BY <1>0, <2>3 DEF Types, Places
  <2>5. qnode[t].next = queue[2] /\ th[queue[2]].pc = "wait"
    BY <1>0, <2>2, <2>3, <2>4 DEF Order, LinksFollowQueue
  <2>6. queue[2] \in Threads  BY <1>0, <2>4 DEF Types, Places
  <2>7. qnode[t].version \in Nat /\ next_version(qnode[t].version) # 0
    BY <1>0 DEF Types, QNodes, next_version, kVersionStride
  <2>8. /\ \A u \in Threads : qnode'[u].next = qnode[u].next
        /\ qnode'[queue[2]].version # 0
        /\ \A u \in Threads : u # queue[2] => qnode'[u] = qnode[u]
    BY <1>0, <1>5, <2>5, <2>6, <2>7 DEF Grant, Types, QNodes
  <2>9. \A i \in Places : i > 2 => queue[i] \in Threads /\ queue[i] # queue[2]
    BY <1>0, <2>4 DEF Types, Places, Order, QueueIsTail
  <2>10. /\ queue' = Tail(queue) /\ UNCHANGED <<kind, tail>> /\ th'[t].pc = "idle"
         /\ \A u \in Threads : u # t => th'[u] = th[u]
    BY <1>5, <1>c DEF Grant
  <2>11. \A i \in Places : i > 2 => qnode'[queue[i]] = qnode[queue[i]]  BY <2>8, <2>9
  <2>12. Len(queue) # 1
    <3>1. \A n \in Nat : 1 < n => n # 1  OBVIOUS
    <3>2. Len(queue) \in Nat  BY <1>0 DEF Types
    <3> QED  BY <2>4, <3>1, <3>2, Zenon
  <2> QED  BY <2>1, <2>5, <2>8, <2>10, <2>11, <2>12, LeaveOrder
<1>6. CASE begin_read(t) \/ Read(t) \/ validate_read(t) \/ Leave(t) \/ TryLock(t) \/ TryLockMCS(t)
           \/ (TryCas(t) /\ tail # th[t].seen)
  <2>1. th[t].pc \notin Waiting \cup Holding
    BY <1>6 DEF begin_read, Read, validate_read, Leave, TryLock, TryLockMCS, TryCas, Waiting, Holding
  <2>2. th'[t].pc \notin Waiting \cup Holding /\ \A u \in Threads : u # t => th'[u] = th[u]
    <3>1. CASE Read(t)  BY <1>0, <3>1 DEF Read, Types, Registers, Waiting, Holding
    <3>2. CASE ~Read(t)
      BY <1>6, <3>2, <1>a, <1>b, <1>c
      DEF begin_read, validate_read, Leave, TryLock, TryLockMCS, TryCas, Waiting, Holding
    <3> QED  BY <3>1, <3>2
  <2>3. UNCHANGED <<kind, tail, queue>> /\ \A u \in Threads : u # t => qnode'[u] = qnode[u]
    BY <1>0, <1>6 DEF begin_read, Read, validate_read, Leave, TryLock, TryLockMCS, TryCas, Types
  <2>4. QueueIsTail' /\ FirstHolds' /\ LinksFollowQueue' /\ Passing' /\ OpenWhilePassing'
    BY <2>1, <2>2, <2>3, OutsideOrder
  <2>5. th'[t].pc = "try_cas" => /\ qnode'[t].next = NoThread
                                 /\ ~has_locked_bit(th'[t].seen)
                                 /\ ~th'[t].seen.consistent
    <3>1. CASE TryLock(t)
      <4>1. ~has_locked_bit(th[t].seen) /\ th'[t].seen = th[t].seen  BY <1>a, <3>1 DEF TryLock
      <4>2. ~th[t].seen.consistent  BY <1>0, <3>1, <4>1 DEF TryLock, IInv, Clean
      <4> QED  BY <1>0, <3>1, <4>1, <4>2 DEF TryLock, Types
    <3>2. CASE TryLockMCS(t)
      <4>1. ~has_locked_bit(tail) /\ th'[t].seen = tail  BY <1>b, <3>2 DEF TryLockMCS
      <4>2. ~tail.consistent  BY <1>0, <1>d, <4>1 DEF Order, OpenWhilePassing, has_locked_bit
      <4> QED  BY <1>0, <3>2, <4>1, <4>2 DEF TryLockMCS, Types
    <3>3. CASE ~TryLock(t) /\ ~TryLockMCS(t)
      <4>1. th'[t].pc # "try_cas"
        <5>1. CASE Read(t)  BY <1>0, <5>1 DEF Read, Types, Registers
        <5>2. CASE ~Read(t)
          BY <1>6, <3>3, <5>2, <1>a, <1>b, <1>c DEF begin_read, validate_read, Leave, TryCas
        <5> QED  BY <5>1, <5>2
      <4> QED  BY <4>1
    <3> QED  BY <3>1, <3>2, <3>3
  <2>6. Trying'  BY <1>0, <2>2, <2>3, <2>5 DEF Order, Trying, has_locked_bit
  <2> QED  BY <2>4, <2>6 DEF Order
<1>7. CASE TryCas(t) /\ tail = th[t].seen
  <2>1. th[t].pc \notin Waiting \cup Holding  BY <1>7 DEF TryCas, Waiting, Holding
  <2>2. queue = <<>>  BY <1>0, <1>7, <1>d DEF TryCas, Order, Trying, has_locked_bit
  <2>3. /\ queue' = Append(queue, t) /\ tail' = make_qnode_ptr(t) /\ UNCHANGED <<kind, qnode>>
        /\ \A u \in Threads : u # t => th'[u] = th[u]
        /\ th'[t].pc = "locked"
    BY <1>7, <1>a DEF TryCas
  <2>4. qnode'[t].next = NoThread  BY <1>0, <1>7, <2>3 DEF TryCas, Order, Trying
  <2> QED  BY <2>1, <2>2, <2>3, <2>4, JoinOrder DEF Holding
<1> QED
  BY <1>1, <1>2, <1>3, <1>4, <1>5, <1>6, <1>7 DEF Step

\* What a thread may begin to read with is the version of both cells.
LEMMA ReadableIsCurrent ==
  ASSUME NoThread \notin Threads, IInv, kind # "mcs", ~has_locked_bit(tail) \/ tail.consistent
  PROVE  Pair(tail.version, tail.version)
<1>1. CASE tail.consistent  BY <1>1 DEF IInv, Versions
<1>2. CASE ~has_locked_bit(tail)
  <2>1. queue # <<>> => queue[Len(queue)] \in Threads  BY EmptySeq DEF IInv, Types
  <2>2. queue # <<>> => tail.node \in Threads  BY <2>1 DEF IInv, Order, QueueIsTail
  <2> QED  BY <1>2, <2>2 DEF IInv, Versions, has_locked_bit
<1> QED  BY <1>1, <1>2

\* The versions count the writes.
LEMMA VersionsStep ==
  ASSUME NoThread \notin Threads, ~UpgradeOpen, IInv, Types', Order', NEW t \in Threads, Step(t)
  PROVE  Versions'
<1> SUFFICES ASSUME kind # "mcs", kind' = kind PROVE Versions'
  BY DEF Versions, Step, Exchange, Link, Granted, CloseToReaders, Write, Unlock, UnlockLast, OpenToReaders,
         AwaitNext, Grant, begin_read, Read, validate_read, Leave, TryLock, TryLockMCS, TryCas
<1>0. Types /\ Order /\ Versions /\ Reads /\ Trying  BY DEF IInv, Order
<1>a. \A l : Goto(t, l) => th'[t].pc = l /\ \A u \in Threads : u # t => th'[u] = th[u]
  BY <1>0, NewRegisters DEF Types
<1>b. \A l : Load(t, l) => th'[t].pc = l /\ \A u \in Threads : u # t => th'[u] = th[u]
  BY <1>0, NewRegisters DEF Types
<1>c. Return(t) => th'[t].pc = "idle" /\ \A u \in Threads : u # t => th'[u] = th[u]
  BY <1>0, NewRegisters DEF Types, Outside
<1>d. queue # <<>> => 1 \in Places /\ queue[1] \in Threads  BY <1>0, EmptySeq DEF Types, Places
<1>e. tail.node = NoThread <=> queue = <<>>
  <2>1. queue # <<>> => queue[Len(queue)] \in Threads  BY <1>0, EmptySeq DEF Types
  <2> QED  BY <1>0, <2>1 DEF Order, QueueIsTail
<1>f. /\ cell[1] \in Nat /\ cell[2] \in Nat /\ tail.version \in Nat
      /\ \A u \in Threads : qnode[u].version \in Nat
  BY <1>0 DEF Types, Tails, QNodes
<1>g. \A v : next_version(v) = v + 1  BY DEF next_version, kVersionStride
\* a first thread that stays where it is
<1>h. ASSUME queue # <<>>, queue' # <<>>, queue'[1] = queue[1], queue[1] # t,
             \A u \in Threads : u # t => th'[u] = th[u],
             qnode'[queue[1]].version = qnode[queue[1]].version,
             cell' = cell, tail' = tail \/ ~tail'.consistent
      PROVE  Versions'
  <2>1. th'[queue'[1]] = th[queue[1]]  BY <1>d, <1>h
  <2> QED  BY <1>0, <1>h, <2>1 DEF Versions, Pair
\* a thread that becomes the first
<1>i. ASSUME queue = <<>>, queue' = Append(queue, t), th'[t].pc = "locked", cell' = cell,
             tail' = make_qnode_ptr(t), qnode'[t].version = tail.version + 1
      PROVE  Versions'
  <2>1. queue' = <<t>> /\ queue' # <<>> /\ queue'[1] = t  BY <1>i
  <2>2. Pair(tail.version, tail.version)  BY <1>0, <1>i DEF Versions
  <2>3. ~tail'.consistent  BY <1>i DEF make_qnode_ptr
  <2> QED  BY <1>f, <1>i, <2>1, <2>2, <2>3 DEF Versions, Pair, Holding
<1>1. CASE Exchange(t)
  <2>1. CASE queue = <<>>
    <3>1. th'[t].pc = "locked" /\ qnode'[t].version = tail.version + 1
      BY <1>0, <1>1, <1>a, <1>e, <1>g, <2>1 DEF Exchange, has_locked_bit, Types
    <3> QED  BY <1>1, <1>i, <2>1, <3>1 DEF Exchange
  <2>2. CASE queue # <<>>
    <3>1. queue[1] # t  BY <1>0, <1>1, <1>d, <2>2 DEF Exchange, Order, QueueIsTail, Waiting, Holding
    <3>2. queue' # <<>> /\ queue'[1] = queue[1]  BY <1>0, <1>1, <1>d, <2>2 DEF Exchange, Types, Places
    <3>3. qnode'[queue[1]] = qnode[queue[1]]  BY <1>0, <1>1, <1>d, <2>2, <3>1 DEF Exchange, Types
    <3>4. cell' = cell /\ ~tail'.consistent  BY <1>1 DEF Exchange, make_qnode_ptr
    <3>5. \A u \in Threads : u # t => th'[u] = th[u]  BY <1>1, <1>a, <1>b DEF Exchange
    <3> QED  BY <1>h, <2>2, <3>1, <3>2, <3>3, <3>4, <3>5
  <2> QED  BY <2>1, <2>2
<1>2. CASE Link(t)
  <2>1. PICK k \in Places : /\ k > 1 /\ k - 1 \in Places /\ queue[k] = t
                            /\ th[t].seen.node = queue[k - 1] /\ queue[k - 1] \in Threads
    BY <1>2, WaiterHasPredecessor DEF Link
  <2>2. queue # <<>> /\ 1 \in Places  BY <2>1 DEF Places
  <2>3. queue[1] # t  BY <1>0, <2>1, <2>2 DEF Order, QueueIsTail
  <2>4. qnode'[queue[1]].version = qnode[queue[1]].version
    BY <1>0, <1>2, <1>d, <2>1, <2>2 DEF Link, Types, QNodes
  <2>5. \A u \in Threads : u # t => th'[u] = th[u]  BY <1>2, <1>a DEF Link
  <2> QED  BY <1>2, <1>h, <2>2, <2>3, <2>4, <2>5 DEF Link
<1>3. CASE Granted(t)
  <2>1. PICK i \in Places : queue[i] = t
    BY <1>0, <1>3 DEF Granted, Order, QueueIsTail, Waiting
  <2>2. i = 1  BY <1>0, <1>3, <2>1 DEF Granted, Order, FirstHolds, kInvalidVersion
  <2>3. queue # <<>>  BY <2>1 DEF Places
  <2>4. th[t].pc = "wait" /\ th'[t].pc \in {"close", "locked"}  BY <1>3, <1>a DEF Granted
  <2> QED  BY <1>0, <1>3, <2>1, <2>2, <2>3, <2>4 DEF Granted, Versions, Pair, Holding
<1>4. CASE CloseToReaders(t)
  <2>1. queue # <<>> /\ queue[1] = t  BY <1>4, HolderIsFirst DEF CloseToReaders, Holding
  <2>2. ~tail'.consistent  BY <1>0, <1>4 DEF CloseToReaders, Types, Tails
  <2>3. th[t].pc = "close" /\ th'[t].pc = "locked"  BY <1>4, <1>a DEF CloseToReaders
  <2> QED  BY <1>0, <1>4, <2>1, <2>2, <2>3 DEF CloseToReaders, Versions, Pair, Holding
<1>5. CASE Write(t)
  <2>1. queue # <<>> /\ queue[1] = t  BY <1>5, HolderIsFirst DEF Write, Holding
  <2>2. ~tail.consistent  BY <1>0, <1>5, <2>1 DEF Write, Order, OpenWhilePassing
  <2>3. CASE th[t].pc = "locked"
    <3>1. cell'[1] = cell[1] + 1 /\ cell'[2] = cell[2] /\ th'[t].pc = "half"
      BY <1>0, <1>5, <1>a, <2>3 DEF Write, Types
    <3>2. Pair(qnode[t].version - 1, qnode[t].version - 1)  BY <1>0, <2>1, <2>3 DEF Versions
    <3> QED  BY <1>0, <1>5, <1>f, <2>1, <2>2, <3>1, <3>2 DEF Write, Versions, Pair, Holding
  <2>4. CASE th[t].pc = "half"
    <3>1. cell'[1] = cell[1] /\ cell'[2] = cell[2] + 1 /\ th'[t].pc = "unlock"
      BY <1>0, <1>5, <1>a, <2>4 DEF Write, Types
    <3>2. Pair(qnode[t].version, qnode[t].version - 1)  BY <1>0, <2>1, <2>4 DEF Versions
    <3> QED  BY <1>0, <1>5, <1>f, <2>1, <2>2, <3>1, <3>2 DEF Write, Versions, Pair, Holding
  <2> QED  BY <1>5, <2>3, <2>4 DEF Write
<1>6. CASE Unlock(t) \/ AwaitNext(t) \/ OpenToReaders(t) \/ (UnlockLast(t) /\ tail # make_qnode_ptr(t))
  <2>1. queue # <<>> /\ queue[1] = t
    BY <1>6, HolderIsFirst DEF Unlock, AwaitNext, OpenToReaders, UnlockLast, Holding
  <2>2. /\ th[t].pc \in Holding \ {"close", "locked", "half"}
        /\ th'[t].pc \in Holding \ {"close", "locked", "half"}
    BY <1>6, <1>a DEF Unlock, AwaitNext, OpenToReaders, UnlockLast, Holding
  <2>3. Pair(qnode[t].version, qnode[t].version)  BY <1>0, <2>1, <2>2 DEF Versions
  <2>4. queue' = queue /\ qnode' = qnode /\ cell' = cell
    BY <1>6 DEF Unlock, AwaitNext, OpenToReaders, UnlockLast
  <2>5. tail' = tail \/ tail'.version = qnode[t].version
    BY <1>0, <1>6, Zenon DEF Unlock, AwaitNext, OpenToReaders, UnlockLast, Types, Tails
  <2>6. th'[t].pc \notin {"wait", "close", "locked", "half"}  BY <2>2 DEF Holding
  <2> QED  BY <1>0, <2>1, <2>2, <2>3, <2>4, <2>5, <2>6 DEF Versions, Pair
<1>7. CASE UnlockLast(t) /\ tail = make_qnode_ptr(t)
  <2>1. queue # <<>> /\ queue[1] = t  BY <1>7, HolderIsFirst DEF UnlockLast, Holding
  <2>2. Pair(qnode[t].version, qnode[t].version)  BY <1>0, <1>7, <2>1 DEF Versions, UnlockLast, Holding
  <2>3. tail'.version = qnode[t].version /\ tail'.node = NoThread /\ cell' = cell
    BY <1>7 DEF UnlockLast, Released, Free
  <2>4. queue' = <<>>
    <3>1. queue' # <<>> => queue'[Len(queue')] \in Threads  BY EmptySeq DEF Types
    <3> QED  BY <2>3, <3>1 DEF Order, QueueIsTail
  <2> QED  BY <2>2, <2>3, <2>4 DEF Versions, Pair
<1>8. CASE Grant(t)
  <2>1. queue # <<>> /\ queue[1] = t  BY <1>8, HolderIsFirst DEF Grant, Holding
  <2>2. Len(queue) > 1 /\ qnode[t].next # NoThread  BY <1>0, <1>8 DEF Grant, Order, Passing
  <2>3. 1 \in Places /\ 2 \in Places /\ 1 < Len(queue)  BY <1>0, <2>2 DEF Types, Places
  <2>4. qnode[t].next = queue[2] /\ th[queue[2]].pc = "wait"
    BY <1>0, <2>1, <2>2, <2>3 DEF Order, LinksFollowQueue
  <2>5. queue[2] \in Threads /\ queue[2] # t  BY <1>0, <2>1, <2>3 DEF Types, Places, Order, QueueIsTail
  <2>6. Pair(qnode[t].version, qnode[t].version)  BY <1>0, <1>8, <2>1 DEF Versions, Grant, Holding
  <2>7. qnode'[queue[2]].version = qnode[t].version + 1
    BY <1>0, <1>8, <1>g, <2>4, <2>5 DEF Grant, Types, QNodes
  <2>8. queue' # <<>> /\ queue'[1] = queue[2]
    <3>1. Len(queue') = Len(queue) - 1 /\ queue' = Tail(queue)  BY <1>0, <1>8, <2>1 DEF Grant, Types
    <3>2. 1 \in 1 .. Len(Tail(queue))  BY <1>0, <2>2, <3>1 DEF Types
    <3>3. queue'[1] = queue[1 + 1]  BY <1>0, <2>1, <3>1, <3>2, HeadTailProperties DEF Types
    <3> QED  BY <3>1, <3>2, <3>3
  <2>9. th'[queue[2]] = th[queue[2]] /\ cell' = cell /\ tail' = tail
    BY <1>8, <1>c, <2>5 DEF Grant
  <2> QED  BY <1>0, <1>f, <2>4, <2>6, <2>7, <2>8, <2>9 DEF Versions, Pair, Holding
<1>9. CASE begin_read(t) \/ Read(t) \/ validate_read(t) \/ Leave(t) \/ TryLock(t) \/ TryLockMCS(t)
           \/ (TryCas(t) /\ tail # th[t].seen)
  <2>1. th[t].pc \notin Waiting \cup Holding
    BY <1>9 DEF begin_read, Read, validate_read, Leave, TryLock, TryLockMCS, TryCas, Waiting, Holding
  <2>2. queue # <<>> => queue[1] # t  BY <1>0, <1>d, <2>1 DEF Order, QueueIsTail
  <2>3. \A u \in Threads : u # t => th'[u] = th[u]
    <3>1. CASE Read(t)  BY <1>0, <3>1 DEF Read, Types
    <3>2. CASE ~Read(t)
      BY <1>9, <3>2, <1>a, <1>b, <1>c DEF begin_read, validate_read, Leave, TryLock, TryLockMCS, TryCas
    <3> QED  BY <3>1, <3>2
  <2>4. UNCHANGED <<tail, queue, cell>> /\ \A u \in Threads : u # t => qnode'[u] = qnode[u]
    BY <1>0, <1>9 DEF begin_read, Read, validate_read, Leave, TryLock, TryLockMCS, TryCas, Types
  <2>5. CASE queue = <<>>  BY <1>0, <2>4, <2>5 DEF Versions, Pair
  <2>6. CASE queue # <<>>  BY <1>d, <1>h, <2>2, <2>3, <2>4, <2>6
  <2> QED  BY <2>5, <2>6
<1>10. CASE TryCas(t) /\ tail = th[t].seen
  <2>1. queue = <<>>  BY <1>0, <1>10, <1>e DEF TryCas, Trying, has_locked_bit
  <2>2. /\ queue' = Append(queue, t) /\ tail' = make_qnode_ptr(t) /\ UNCHANGED <<cell, qnode>>
        /\ th'[t].pc = "locked"
    BY <1>10, <1>a DEF TryCas
  <2>3. qnode[t].version = tail.version + 1  BY <1>0, <1>10 DEF TryCas, Reads, ReadIsCurrent
  <2> QED  BY <1>i, <2>1, <2>2, <2>3
<1> QED
  BY <1>1, <1>2, <1>3, <1>4, <1>5, <1>6, <1>7, <1>8, <1>9, <1>10 DEF Step

\* The cells never shrink.
LEMMA CellsGrow ==
  ASSUME Types, NEW t \in Threads, Step(t)
  PROVE  cell[1] <= cell'[1] /\ cell[2] <= cell'[2]
<1>1. cell[1] \in Nat /\ cell[2] \in Nat  BY DEF Types
<1>2. CASE Write(t)  BY <1>1, <1>2 DEF Write, Types
<1>3. CASE ~Write(t)
  <2>1. cell' = cell
    BY <1>3 DEF Step, Exchange, Link, Granted, CloseToReaders, Unlock, UnlockLast, OpenToReaders, AwaitNext,
                Grant, begin_read, Read, validate_read, Leave, TryLock, TryLockMCS, TryCas
  <2> QED  BY <1>1, <2>1
<1> QED  BY <1>2, <1>3

\* What the readers hold stays as old as it was; a validated read is of one
\* version.
LEMMA ReadsStep ==
  ASSUME NoThread \notin Threads, ~UpgradeOpen, IInv, Types', NEW t \in Threads, Step(t)
  PROVE  Reads' /\ Clean' /\ NoReads'
<1>0. Types /\ Order /\ Versions /\ Reads /\ Clean /\ NoReads /\ Trying  BY DEF IInv, Order
<1>a. \A l : Goto(t, l) => /\ th'[t].pc = l /\ th'[t].seen = th[t].seen /\ th'[t].got = th[t].got
                           /\ \A u \in Threads : u # t => th'[u] = th[u]
  BY <1>0, NewRegisters DEF Types
<1>b. \A l : Load(t, l) => /\ th'[t].pc = l /\ th'[t].seen = tail /\ th'[t].got = th[t].got
                           /\ \A u \in Threads : u # t => th'[u] = th[u]
  BY <1>0, NewRegisters DEF Types
<1>c. Return(t) => th'[t].pc = "idle" /\ \A u \in Threads : u # t => th'[u] = th[u]
  BY <1>0, NewRegisters DEF Types, Outside
<1>d. /\ cell[1] \in Nat /\ cell[2] \in Nat /\ cell'[1] \in Nat /\ cell'[2] \in Nat /\ tail.version \in Nat
      /\ cell[1] <= cell'[1] /\ cell[2] <= cell'[2]
  BY <1>0, CellsGrow DEF Types, Tails
<1>e. \A u \in Threads : /\ th[u].seen.version \in Nat /\ th[u].got[1] \in Nat /\ th[u].got[2] \in Nat
                         /\ th[u].got \in [1 .. 2 -> Nat]
  BY <1>0 DEF Types, Registers, Tails
<1>f. \A u \in Threads : u # t => th'[u] = th[u]
  <2>1. CASE Read(t)  BY <1>0, <2>1 DEF Read, Types
  <2>2. CASE ~Read(t)
    BY <2>2, <1>a, <1>b, <1>c
    DEF Step, Exchange, Link, Granted, CloseToReaders, Write, Unlock, UnlockLast, OpenToReaders,
        AwaitNext, Grant, begin_read, validate_read, Leave, TryLock, TryLockMCS, TryCas
  <2> QED  BY <2>1, <2>2
<1>g. kind' = kind
  BY DEF Step, Exchange, Link, Granted, CloseToReaders, Write, Unlock, UnlockLast, OpenToReaders,
         AwaitNext, Grant, begin_read, Read, validate_read, Leave, TryLock, TryLockMCS, TryCas
\* nobody else sets the version of one who tries
<1>h. ASSUME NEW u \in Threads, u # t, th[u].pc = "try_cas"
      PROVE  qnode'[u].version = qnode[u].version
  <2>1. CASE Link(t)
    <3>1. th[t].seen.node \in Threads  BY <2>1, WaiterHasPredecessor DEF Link
    <3> QED  BY <1>0, <1>h, <2>1, <3>1 DEF Link, Types, QNodes
  <2>2. CASE Grant(t)
    <3>1. th[t].pc \in Holding  BY <2>2 DEF Grant, Holding
    <3>2. queue # <<>> /\ queue[1] = t /\ Len(queue) > 1 /\ qnode[t].next # NoThread
      BY <1>0, <2>2, <3>1, HolderIsFirst DEF Grant, Order, Passing
    <3>3. 1 \in Places /\ 1 < Len(queue)  BY <1>0, <3>2 DEF Types, Places
    <3>4. qnode[t].next = queue[2] /\ th[queue[2]].pc = "wait"
      BY <1>0, <3>2, <3>3 DEF Order, LinksFollowQueue
    <3> QED  BY <1>0, <1>h, <2>2, <3>4 DEF Grant, Types, QNodes
  <2>3. CASE ~Link(t) /\ ~Grant(t)
    BY <1>0, <1>h, <2>3
    DEF Types, Step, Exchange, Granted, CloseToReaders, Write, Unlock, UnlockLast, OpenToReaders,
        AwaitNext, begin_read, Read, validate_read, Leave, TryLock, TryLockMCS, TryCas
  <2> QED  BY <2>1, <2>2, <2>3
\* the other threads
<1>i. ASSUME NEW u \in Threads, u # t, kind # "mcs" PROVE ReadIsCurrent(u)'
  <2>1. th'[u] = th[u] /\ ReadIsCurrent(u)  BY <1>0, <1>f, <1>i DEF Reads
  <2>2. th[u].pc = "try_cas" => qnode'[u].version = qnode[u].version  BY <1>h, <1>i
  <2> QED  BY <1>d, <1>e, <2>1, <2>2 DEF ReadIsCurrent, has_locked_bit, Reading
<1>1. CASE begin_read(t)
  <2>1. th'[t].pc = "read1" /\ th'[t].seen = tail /\ cell' = cell /\ kind # "mcs"
    BY <1>1, <1>b DEF begin_read
  <2>2. ~has_locked_bit(tail) \/ tail.consistent  BY <1>1 DEF begin_read
  <2>3. Pair(tail.version, tail.version)  BY <2>1, <2>2, ReadableIsCurrent
  <2>4. ReadIsCurrent(t)'
    BY <1>d, <2>1, <2>2, <2>3 DEF ReadIsCurrent, Pair, has_locked_bit
  <2>5. ~has_locked_bit(tail) => ~tail.consistent
    <3>1. queue # <<>> => queue[Len(queue)] \in Threads  BY <1>0, EmptySeq DEF Types
    <3> QED  BY <1>0, <3>1 DEF Order, QueueIsTail, OpenWhilePassing, has_locked_bit
  <2>6. Clean'  BY <1>0, <1>f, <2>1, <2>5 DEF Clean, has_locked_bit
  <2> QED  BY <1>g, <1>i, <2>1, <2>4, <2>6 DEF Reads, NoReads
<1>2. CASE Read(t)
  <2>1. kind # "mcs"  BY <1>0, <1>2 DEF Read, NoReads, Reading
  <2>2. cell' = cell /\ ReadIsCurrent(t)  BY <1>0, <1>2, <2>1 DEF Read, Reads
  <2>3. th'[t].seen = th[t].seen  BY <1>0, <1>2 DEF Read, Types, Registers
  <2>4. CASE th[t].pc = "read1"
    <3>1. th'[t].pc = "read2" /\ th'[t].got[1] = cell[1]
      BY <1>0, <1>2, <1>e, <2>4 DEF Read, Types, Registers
    <3>2. ReadIsCurrent(t)'
      BY <1>d, <1>e, <2>2, <2>3, <2>4, <3>1 DEF ReadIsCurrent, Reading, has_locked_bit
    <3>3. Clean'  BY <1>0, <1>f, <2>3, <2>4, <3>1 DEF Clean, has_locked_bit, Reading
    <3> QED  BY <1>g, <1>i, <2>1, <3>2, <3>3 DEF Reads, NoReads
  <2>5. CASE th[t].pc = "read2"
    <3>1. th'[t].pc = "read" /\ th'[t].got[2] = cell[2] /\ th'[t].got[1] = th[t].got[1]
      <4>1. th' = [th EXCEPT ![t] = [pc |-> "read", seen |-> th[t].seen,
                                     got |-> [th[t].got EXCEPT ![2] = cell[2]]]]
        BY <1>0, <1>2, <2>5 DEF Read, Types, Registers
      <4> QED  BY <1>0, <1>e, <4>1 DEF Types
    <3>2. ReadIsCurrent(t)'
      BY <1>d, <1>e, <2>2, <2>3, <2>5, <3>1 DEF ReadIsCurrent, Reading, has_locked_bit
    <3>3. Clean'  BY <1>0, <1>f, <2>3, <2>5, <3>1 DEF Clean, has_locked_bit, Reading
    <3> QED  BY <1>g, <1>i, <2>1, <3>2, <3>3 DEF Reads, NoReads
  <2> QED  BY <1>2, <2>4, <2>5 DEF Read
<1>3. CASE validate_read(t) /\ tail = th[t].seen
  <2>1. kind # "mcs"  BY <1>0, <1>3 DEF validate_read, NoReads, Reading
  <2>2. /\ th[t].pc = "read" /\ th'[t].pc = "valid" /\ th'[t].seen = th[t].seen /\ th'[t].got = th[t].got
    BY <1>3, <1>a DEF validate_read
  <2>3. ReadIsCurrent(t)  BY <1>0, <2>1 DEF Reads
  <2>4. ~has_locked_bit(tail) \/ tail.consistent  BY <1>3, <2>2, <2>3 DEF ReadIsCurrent, Reading
  <2>5. Pair(th[t].seen.version, th[t].seen.version)  BY <1>3, <2>1, <2>4, ReadableIsCurrent
  <2>6. th[t].got[1] = th[t].seen.version /\ th[t].got[2] = th[t].seen.version
    BY <1>d, <1>e, <2>2, <2>3, <2>5 DEF ReadIsCurrent, Pair
  <2>7. ReadIsCurrent(t)'  BY <2>2, <2>6 DEF ReadIsCurrent, Reading
  <2>8. Clean'  BY <1>0, <1>f, <2>2 DEF Clean, has_locked_bit, Reading
  <2> QED  BY <1>g, <1>i, <2>1, <2>7, <2>8 DEF Reads, NoReads
<1>4. CASE TryLock(t)
  <2>1. kind # "mcs"  BY <1>0, <1>4 DEF TryLock, NoReads
  <2>2. /\ th[t].pc = "valid" /\ th'[t].pc = "try_cas" /\ th'[t].seen = th[t].seen /\ th'[t].got = th[t].got
        /\ ~has_locked_bit(th[t].seen)
    BY <1>4, <1>a DEF TryLock
  <2>3. ReadIsCurrent(t)  BY <1>0, <2>1 DEF Reads
  <2>4. qnode'[t].version = th[t].seen.version + 1
    BY <1>0, <1>4, <1>e, <2>1, <2>2 DEF TryLock, next_version, kVersionStride, AsVersion, Types
  <2>5. ReadIsCurrent(t)'  BY <2>2, <2>3, <2>4 DEF ReadIsCurrent, Reading
  <2>6. Clean'  BY <1>0, <1>f, <2>2 DEF Clean, has_locked_bit, Reading
  <2> QED  BY <1>g, <1>i, <2>1, <2>5, <2>6 DEF Reads, NoReads
<1>5. CASE ~begin_read(t) /\ ~Read(t) /\ ~(validate_read(t) /\ tail = th[t].seen) /\ ~TryLock(t)
  <2>1. th'[t].pc \notin Reading \cup {"valid"}
    BY <1>5, <1>a, <1>b, <1>c
    DEF Step, Exchange, Link, Granted, CloseToReaders, Write, Unlock, UnlockLast, OpenToReaders,
        AwaitNext, Grant, validate_read, Leave, TryLockMCS, TryCas, Reading
  <2>2. th'[t].pc = "try_cas" => kind = "mcs"
    BY <1>5, <1>a, <1>b, <1>c
    DEF Step, Exchange, Link, Granted, CloseToReaders, Write, Unlock, UnlockLast, OpenToReaders,
        AwaitNext, Grant, validate_read, Leave, TryLockMCS, TryCas
  <2>3. kind # "mcs" => ReadIsCurrent(t)'  BY <2>1, <2>2 DEF ReadIsCurrent, Reading
  <2>4. Reads'  BY <1>g, <1>i, <2>3 DEF Reads
  <2>5. Clean'  BY <1>0, <1>f, <2>1 DEF Clean, has_locked_bit
  <2>6. NoReads'  BY <1>0, <1>f, <1>g, <2>1 DEF NoReads
  <2> QED  BY <2>4, <2>5, <2>6
<1> QED  BY <1>1, <1>2, <1>3, <1>4, <1>5
-----------------------------------------------------------------------------
\* NoThread is the null queue node, and clients upgrade only what they read of
\* a free lock: an upgrade through an open tail lets two threads hold it.
Assumptions == NoThread \notin Threads /\ Calls \in Nat /\ ~UpgradeOpen

\* Every step keeps the invariant.
LEMMA StepInv == ASSUME Assumptions PROVE IInv /\ [Next]_vars => IInv'
<1> SUFFICES ASSUME IInv, [Next]_vars PROVE IInv'  OBVIOUS
<1>1. CASE Next
  <2>1. PICK t \in Threads : Step(t)  BY <1>1 DEF Next
  <2>2. Types'  BY <2>1, TypesStep DEF Assumptions
  <2>3. Order'  BY <2>1, <2>2, OrderStep DEF Assumptions
  <2>4. Versions'  BY <2>1, <2>2, <2>3, VersionsStep DEF Assumptions
  <2>5. Reads' /\ Clean' /\ NoReads'  BY <2>1, <2>2, ReadsStep DEF Assumptions
  <2> QED  BY <2>2, <2>3, <2>4, <2>5 DEF IInv
<1>2. CASE UNCHANGED vars
  <2>1. /\ kind' = kind /\ tail' = tail /\ qnode' = qnode /\ th' = th /\ cell' = cell /\ left' = left
        /\ queue' = queue
    BY <1>2 DEF vars
  <2>2. Types /\ Order /\ Versions /\ Reads /\ Clean /\ NoReads  BY DEF IInv
  <2>3. Types'  BY <2>1, <2>2 DEF Types
  <2>4. Places' = Places  BY <2>1 DEF Places
  <2>5. Order'
    <3>1. QueueIsTail'  BY <2>1, <2>2, <2>4 DEF Order, QueueIsTail
    <3>2. FirstHolds'  BY <2>1, <2>2, <2>4 DEF Order, FirstHolds
    <3>3. LinksFollowQueue'  BY <2>1, <2>2, <2>4 DEF Order, LinksFollowQueue
    <3>4. Passing'  BY <2>1, <2>2, <2>4 DEF Order, Passing, op_read
    <3>5. OpenWhilePassing'  BY <2>1, <2>2, <2>4 DEF Order, OpenWhilePassing, op_read, has_locked_bit
    <3>6. Trying'  BY <2>1, <2>2, <2>4 DEF Order, Trying, op_read, has_locked_bit
    <3> QED  BY <3>1, <3>2, <3>3, <3>4, <3>5, <3>6 DEF Order
  <2>6. Versions'  BY <2>1, <2>2 DEF Versions, Pair
  <2>7. Reads'  BY <2>1, <2>2 DEF Reads, ReadIsCurrent, Pair, op_read, has_locked_bit
  <2>8. Clean' /\ NoReads'  BY <2>1, <2>2 DEF Clean, NoReads, op_read
  <2> QED  BY <2>3, <2>5, <2>6, <2>7, <2>8 DEF IInv
<1> QED  BY <1>1, <1>2

\* The only step from a try to the lock is the exchange of an unchanged tail.
LEMMA UpgradeStep ==
  ASSUME Assumptions, IInv, [Next]_vars
  PROVE  [\A t \in Threads :
            (th[t].pc = "try_cas" /\ th'[t].pc = "locked" /\ kind # "mcs") => th[t].got = cell]_vars
<1> SUFFICES ASSUME Next, NEW u \in Threads, th[u].pc = "try_cas", th'[u].pc = "locked", kind # "mcs"
             PROVE  th[u].got = cell
  OBVIOUS
<1>1. PICK t \in Threads : Step(t)  BY DEF Next
<1>2. Types /\ Reads  BY DEF IInv
<1>3. t = u
  <2> SUFFICES ASSUME t # u PROVE th'[u] = th[u]  OBVIOUS
  <2>1. th' = [th EXCEPT ![t] = th'[t]]
    <3>1. CASE Read(t)  BY <1>2, <3>1 DEF Read, Types
    <3>2. CASE ~Read(t)
      BY <1>1, <1>2, <3>2, NewRegisters, Zenon
      DEF Step, Exchange, Link, Granted, CloseToReaders, Write, Unlock, UnlockLast, OpenToReaders,
          AwaitNext, Grant, begin_read, validate_read, Leave, TryLock, TryLockMCS, TryCas
    <3> QED  BY <3>1, <3>2
  <2> QED  BY <1>2, <2>1 DEF Types
<1>4. TryCas(u)
  BY <1>1, <1>3
  DEF Step, Exchange, Link, Granted, CloseToReaders, Write, Unlock, UnlockLast, OpenToReaders,
      AwaitNext, Grant, begin_read, Read, validate_read, Leave, TryLock, TryLockMCS
<1>5. tail = th[u].seen
  <2>1. Return(u) => th'[u].pc = "idle"  BY <1>2, NewRegisters DEF Outside
  <2> QED  BY <1>4, <2>1 DEF TryCas
<1>6. ~has_locked_bit(tail)  BY <1>5 DEF IInv, Order, Trying
<1>7. Pair(tail.version, tail.version)  BY <1>6, ReadableIsCurrent DEF Assumptions
<1>8. th[u].got[1] = cell[1] /\ th[u].got[2] = cell[2]
  BY <1>2, <1>5, <1>7 DEF Reads, ReadIsCurrent, Pair
<1>9. th[u].got \in [1 .. 2 -> Nat] /\ cell \in [1 .. 2 -> Nat]  BY <1>2 DEF Types, Registers
<1> QED  BY <1>8, <1>9

\* The invariant says what TLC checks.
LEMMA InvImplies == IInv => TypeOK /\ HeldInQueueOrder /\ ValidReadIsSnapshot
<1> SUFFICES ASSUME IInv PROVE TypeOK /\ HeldInQueueOrder /\ ValidReadIsSnapshot  OBVIOUS
<1>1. TypeOK  BY DEF IInv, Types, Tails, QNodes, Order, QueueIsTail, TypeOK, has_locked_bit
<1>2. HeldInQueueOrder  BY HolderIsFirst DEF HeldInQueueOrder, Holders
<1>3. ValidReadIsSnapshot  BY DEF IInv, NoReads, Reads, ReadIsCurrent, ValidReadIsSnapshot
<1> QED  BY <1>1, <1>2, <1>3

\* The tail names a queue node or none, and its version bits are clear under a
\* queue node unless it is open to readers, which is what the fetch_or and
\* fetch_and of OMCSLock rely on (OMCSImpl.h:297-327, 386-417).
THEOREM QueueTypeOK == ASSUME Assumptions PROVE Spec => []TypeOK
<1>1. Init => IInv  BY InitInv DEF Assumptions
<1>2. IInv => TypeOK  BY InvImplies
<1>3. IInv /\ [Next]_vars => IInv'  BY StepInv
<1> QED  BY <1>1, <1>2, <1>3, PTL DEF Spec

\* At most one thread holds a queue lock, and it is the first that has joined
\* and not left, whatever the order in which joining, linking, granting and
\* giving back interleave (OMCSImpl.h:297-417, MCS.h:69-125).
THEOREM QueueOrder == ASSUME Assumptions PROVE Spec => []HeldInQueueOrder
<1>1. Init => IInv  BY InitInv DEF Assumptions
<1>2. IInv => HeldInQueueOrder  BY InvImplies
<1>3. IInv /\ [Next]_vars => IInv'  BY StepInv
<1> QED  BY <1>1, <1>2, <1>3, PTL DEF Spec

\* A read that validate_read lets through saw both cells of one version, also
\* if it began on a tail open to readers (OMCSImpl.h:330-340, 442-448).
THEOREM ReadsAreSnapshots == ASSUME Assumptions PROVE Spec => []ValidReadIsSnapshot
<1>1. Init => IInv  BY InitInv DEF Assumptions
<1>2. IInv => ValidReadIsSnapshot  BY InvImplies
<1>3. IInv /\ [Next]_vars => IInv'  BY StepInv
<1> QED  BY <1>1, <1>2, <1>3, PTL DEF Spec

\* A try_lock that succeeds after a validated read finds the cells as they
\* were read (OMCSImpl.h:349-370).
THEOREM UpgradesKeepWhatWasRead == ASSUME Assumptions PROVE Spec => UpgradeKeepsRead
<1>1. Init => IInv  BY InitInv DEF Assumptions
<1>2. IInv /\ [Next]_vars => [\A t \in Threads :
        (th[t].pc = "try_cas" /\ th'[t].pc = "locked" /\ kind # "mcs") => th[t].got = cell]_vars
  BY UpgradeStep
<1>3. IInv /\ [Next]_vars => IInv'  BY StepInv
<1> QED  BY <1>1, <1>2, <1>3, PTL DEF Spec, UpgradeKeepsRead
=============================================================================
