------------------------------ MODULE MCLocks ------------------------------
(***************************************************************************)
(* The version locks, the locks of OptiQL and the latch of the B-link-tree *)
(* side by side.  Each behaviour is about one of them, named by lock; the  *)
(* variables of the others keep their initial values.  VersionLock gives   *)
(* the names without a prefix, Q!, R! and L! are QueueLock, RWQueueLock    *)
(* and SharedLatch.                                                        *)
(***************************************************************************)
EXTENDS VersionLock

CONSTANTS Locks,   \* the locks the run is about
          QueueCalls, RWCalls, ReuseNodes, Upgrades,
          LatchThreads, WLatch

VARIABLES lock,
          qkind, qtail, qnode, qth, cell, left, queue,
          rkind, rtail, next_writer, reader_count, rflag, requests, completions, rnode,
          calls, mynode, rpc, ptr, mine,
          lflag, lpc

Q == INSTANCE QueueLock
       WITH NoThread <- 0, Calls <- QueueCalls, kLockedBit <- 100,
            UpgradeOpen <- Upgrades, kind <- qkind, tail <- qtail, th <- qth

R == INSTANCE RWQueueLock
       WITH Calls <- RWCalls, Reuse <- ReuseNodes, Wrap <- 4, kind <- rkind,
            tail <- rtail, flag <- rflag, qnode <- rnode, pc <- rpc

L == INSTANCE SharedLatch WITH Threads <- LatchThreads, flag <- lflag, pc <- lpc

qvars == <<qkind, qtail, qnode, qth, cell, left, queue>>
rvars == <<rkind, rtail, next_writer, reader_count, rflag, requests, completions, rnode,
           calls, mynode, rpc, ptr, mine>>
lvars == <<lflag, lpc>>
allvars == <<lock, vars, qvars, rvars, lvars>>

MCThreads == 1 .. 3

\* The kinds of the locks that a behaviour is not about are fixed.
MCInit == /\ lock \in Locks
          /\ Init /\ Q!Init /\ R!Init /\ L!Init
          /\ lock # "version" => kind = "OptLock"
          /\ lock # "queue" => qkind = "mcs"
          /\ lock # "rw" => rkind = "queue"

VersionNext == lock = "version" /\ Next /\ UNCHANGED <<lock, qvars, rvars, lvars>>
QueueNext == lock = "queue" /\ Q!Next /\ UNCHANGED <<lock, vars, rvars, lvars>>
RWNext == lock = "rw" /\ R!Next /\ UNCHANGED <<lock, vars, qvars, lvars>>
LatchNext == lock = "latch" /\ L!Next /\ UNCHANGED <<lock, vars, qvars, rvars>>

\* The calls of the bounded instances are over, or nobody may enter any more.
\* A thread that is never served shows as a deadlock.
Over == /\ \/ lock = "version" /\ \A t \in Threads : pc[t] = "idle"
           \/ lock = "queue" /\ left = 0 /\ \A t \in Threads : qth[t].pc = "idle"
           \/ lock = "rw" /\ calls = RWCalls /\ \A t \in Threads : rpc[t] = "idle"
        /\ UNCHANGED allvars

MCNext == VersionNext \/ QueueNext \/ RWNext \/ LatchNext \/ Over

MCSpec == MCInit /\ [][MCNext]_allvars
-----------------------------------------------------------------------------
\* The queue locks: one holder at a time, in the order of the exchanges.
HeldInQueueOrder == Q!HeldInQueueOrder

\* The queue locks' readers: a validated read saw one version, and a thread
\* that upgrades it writes over what it read.
QueueReads == [](Q!TypeOK /\ Q!ValidReadIsSnapshot) /\ Q!UpgradeKeepsRead

\* The reader-writer locks: a writer is alone.
WriterIsAlone == R!WriterIsAlone

\* The latch: a writer is alone, whatever the transient counts of readers that
\* are backing out (latch.h:72-74, 98).
Exclusion == L!Exclusion

\* The latch: the word is exactly the writer bit plus the readers inside and
\* backing out, so no fetch_sub underflows and no reader is lost (latch.h:47).
FlagExact == L!FlagExact
=============================================================================
