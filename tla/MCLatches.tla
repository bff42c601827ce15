----------------------------- MODULE MCLatches -----------------------------
(***************************************************************************)
(* Two spinning locks side by side, with fairness.  Each behaviour is      *)
(* about the reader-first latch (SharedLatch) or about one of the reader-  *)
(* writer locks (RWQueueLock as R!), named by lock; the variables of the   *)
(* other keep their initial values.                                        *)
(***************************************************************************)
EXTENDS SharedLatch

CONSTANTS RWCalls, ReuseNodes

VARIABLES lock,
          rkind, rtail, next_writer, reader_count, rflag, requests, completions, rnode,
          calls, mynode, rpc, ptr, mine

R == INSTANCE RWQueueLock
       WITH Threads <- 1 .. 3, Calls <- RWCalls, Reuse <- ReuseNodes, Wrap <- 4, kind <- rkind,
            tail <- rtail, flag <- rflag, qnode <- rnode, pc <- rpc

rvars == <<rkind, rtail, next_writer, reader_count, rflag, requests, completions, rnode,
           calls, mynode, rpc, ptr, mine>>
allvars == <<lock, vars, rvars>>

MCThreads == 1 .. 4
MCWLatch == 8

\* The kind of the lock that a behaviour is not about is fixed.
MCInit == /\ lock \in {"shared", "rw"}
          /\ Init /\ R!Init
          /\ lock # "rw" => rkind = "queue"

SharedNext == lock = "shared" /\ Next /\ UNCHANGED <<lock, rvars>>
RWNext == lock = "rw" /\ R!Next /\ UNCHANGED <<lock, vars>>

\* The calls of the bounded instance are over.
Over == /\ lock = "rw" /\ calls = RWCalls /\ \A t \in 1 .. 3 : rpc[t] = "idle"
        /\ UNCHANGED allvars

MCNext == SharedNext \/ RWNext \/ Over

\* The fairness of the two modules, which says nothing of a lock that is not used.
MCSpec == /\ MCInit /\ [][MCNext]_allvars
          /\ \A t \in Threads : WF_vars(Called(t) /\ Step(t))
          /\ \A t \in 1 .. 3 : WF_rvars(rpc[t] # "idle" /\ R!Step(t))
-----------------------------------------------------------------------------
\* No wake-up is lost: who joins the reader-writer queue gets in, and who asks
\* for a centralised lock that prefers it.
RWServes == R!WritersGetIn /\ R!ReadersGetIn
=============================================================================
