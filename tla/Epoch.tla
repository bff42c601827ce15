------------------------------- MODULE Epoch -------------------------------
(***************************************************************************)
(* Epoch-based reclamation of util/epoch.h.  Every operation on an index   *)
(* runs between startop and endop.  startop reads the global epoch, frees  *)
(* what this thread retired long enough ago, announces the epoch it read,  *)
(* and every kOpThreshold-th call looks at one more thread; the thread     *)
(* that has looked at all of them advances the global epoch.               *)
(*                                                                         *)
(* The client is the index: blocks are linked into it, a guarded thread    *)
(* can reach linked blocks and keeps what it reached until endop, and a    *)
(* thread that takes a block out both unlinks and retires it before its    *)
(* endop, in either order: FBTree::remove retires a merged node first.     *)
(* Memory is sequentially consistent here.                                 *)
(***************************************************************************)
EXTENDS Integers, Sequences, FiniteSets

CONSTANTS Threads,
          Blocks,         \* memory blocks of the index
          Kinds,          \* the retire interfaces in use: retire(void*) fills
                          \* LimboBags, retire(std::function) TypeLimboBags
          kBagSize,       \* blocks per limbo bag
          kOpThreshold,   \* operations between two looks at another thread
          MaxEpoch        \* bound: the global epoch stops here

kEpochIncrement == 2

ASSUME EpochAssumption == /\ Kinds \subseteq {"raw", "type"}
                          /\ kBagSize \in Nat \ {0}
                          /\ kOpThreshold \in Nat \ {0}
                          /\ MaxEpoch \in Nat

VARIABLES
  gepoch,        \* gepoch_
  limbo_lists,   \* limbo_lists_: the registered threads, in order
  pc,            \* where each thread is in startop
  thread_epoch,  \* LimboList::thread_epoch, read by the other threads
  local_epoch,   \* LimboList::local_epoch
  checked_it,    \* LimboList::checked_it, an index into limbo_lists
  opcount,       \* LimboList::opcount
  token,         \* free_token and type_token
  limbo,         \* the bags from head to tail, one list per kind of retire
  linked,        \* blocks reachable in the index
  unlinked,      \* blocks a thread has unlinked and not yet retired
  doomed,        \* blocks a thread has retired and not yet unlinked
  held,          \* blocks a guarded thread has reached
  freed,         \* blocks given back to the allocator
  announced_at,  \* history: the global epoch when the guarded thread announced
  late           \* history: blocks retired under a late announcement

lists == <<token, limbo>>
client == <<linked, unlinked, doomed, held>>
announcement == <<thread_epoch, announced_at>>
vars == <<gepoch, limbo_lists, pc, announcement, local_epoch, checked_it, opcount,
          lists, client, freed, late>>

PCs == {"idle", "reclaim", "announce", "scan", "end_check", "advance", "active"}

is_quiescent(e) == e % 2 = 1
with_quiescent(e) == IF is_quiescent(e) THEN e ELSE e + 1
real_epoch(e) == IF is_quiescent(e) THEN e - 1 ELSE e

Registered == {limbo_lists[i] : i \in DOMAIN limbo_lists}
End == Len(limbo_lists) + 1

Goto(t, l) == pc' = [pc EXCEPT ![t] = l]

Init ==
  /\ gepoch = 0
  /\ limbo_lists = <<>>
  /\ pc = [t \in Threads |-> "idle"]
  /\ thread_epoch = [t \in Threads |-> with_quiescent(0)]
  /\ local_epoch = [t \in Threads |-> with_quiescent(0)]
  /\ checked_it = [t \in Threads |-> 1]
  /\ opcount = [t \in Threads |-> 0]
  /\ token = [t \in Threads |-> [k \in Kinds |-> FALSE]]
  /\ limbo = [t \in Threads |-> [k \in Kinds |-> <<>>]]
  /\ linked = Blocks
  /\ unlinked = [t \in Threads |-> {}]
  /\ doomed = [t \in Threads |-> {}]
  /\ held = [t \in Threads |-> {}]
  /\ freed = {}
  /\ announced_at = [t \in Threads |-> 0]
  /\ late = {}
-----------------------------------------------------------------------------
(* LimboList *)

\* The epoch a bag has after a block retired at epoch e joins it.
bag_epoch(bag, e) == e

\* A full tail bag is followed by a new one.
InFront(bags, bag) == <<bag>> \o bags                     \* mutant
new_bag(bags, bag) == Append(bags, bag)

\* LimboList::add: the tail bag takes the block and the epoch e of its thread.
add(bags, b, e) ==
  LET n == Len(bags) IN
  IF n = 0 \/ Len(bags[n].blocks) = kBagSize
  THEN new_bag(bags, [epoch |-> e, blocks |-> <<b>>])
  ELSE [bags EXCEPT ![n] = [epoch |-> bag_epoch(bags[n], e),
                            blocks |-> Append(bags[n].blocks, b)]]

\* More than two epochs lie between a bag and the global epoch.
TwoEpochs(e, g) == g - e >= 2 * kEpochIncrement            \* mutant
old_enough(e, g) == g - e > 2 * kEpochIncrement

\* LimboList::free releases from the head bag when it is not also the tail
\* and is more than two epochs old; otherwise it drops the token.
can_free(bags, tok, g) ==
  tok /\ Len(bags) > 1 /\ old_enough(bags[1].epoch, g)

\* The blocks one call releases, and the bags it leaves.
released(bags, nfree) ==
  {bags[1].blocks[i] : i \in {j \in DOMAIN bags[1].blocks : j <= nfree}}
remaining(bags, nfree) ==
  LET cur == bags[1].blocks IN
  IF nfree >= Len(cur) THEN Tail(bags)      \* the bag is empty: recycled
  ELSE [bags EXCEPT ![1] = [epoch |-> bags[1].epoch,
                            blocks |-> SubSeq(cur, nfree + 1, Len(cur))]]
-----------------------------------------------------------------------------
(* startop *)

\* limbo_list(): the first call of a thread adds its LimboList at the end.
Register(t) ==
  /\ pc[t] = "idle"
  /\ t \notin Registered
  /\ limbo_lists' = Append(limbo_lists, t)
  /\ UNCHANGED <<gepoch, pc, announcement, local_epoch, checked_it, opcount, lists,
                 client, freed, late>>

\* A new global epoch restarts the look round and renews the tokens.
NotRewound(t) == checked_it[t]                             \* mutant
rewound(t) == IF gepoch # local_epoch[t] THEN 1 ELSE checked_it[t]
NotRenewed(t) == token[t]                                  \* mutant
renewed(t) == IF gepoch # local_epoch[t] THEN [k \in Kinds |-> TRUE] ELSE token[t]

\* Load of the global epoch.
Start(t) ==
  /\ pc[t] = "idle"
  /\ t \in Registered
  /\ local_epoch' = [local_epoch EXCEPT ![t] = gepoch]
  /\ checked_it' = [checked_it EXCEPT ![t] = rewound(t)]
  /\ token' = [token EXCEPT ![t] = renewed(t)]
  /\ Goto(t, "reclaim")
  /\ UNCHANGED <<gepoch, limbo_lists, announcement, opcount, limbo, client, freed, late>>

\* free(gepoch, nfree) and type_free(gepoch, nfree).
Reclaim(t, nfree) ==
  LET can(k) == can_free(limbo[t][k], token[t][k], local_epoch[t]) IN
  /\ pc[t] = "reclaim"
  /\ token' = [token EXCEPT ![t] = [k \in Kinds |-> can(k)]]
  /\ limbo' = [limbo EXCEPT ![t] =
                 [k \in Kinds |-> IF can(k) THEN remaining(limbo[t][k], nfree)
                                            ELSE limbo[t][k]]]
  /\ freed' = freed \cup UNION {released(limbo[t][k], nfree) : k \in {j \in Kinds : can(j)}}
  /\ Goto(t, "announce")
  /\ UNCHANGED <<gepoch, limbo_lists, announcement, local_epoch, checked_it, opcount,
                 client, late>>

\* Every kOpThreshold-th operation looks at another thread.
next_opcount(t) == IF opcount[t] + 1 = kOpThreshold THEN 0 ELSE opcount[t] + 1

\* The store to thread_epoch, and the count of operations.
Announce(t) ==
  /\ pc[t] = "announce"
  /\ thread_epoch' = [thread_epoch EXCEPT ![t] = local_epoch[t]]
  /\ announced_at' = [announced_at EXCEPT ![t] = gepoch]
  /\ opcount' = [opcount EXCEPT ![t] = next_opcount(t)]
  /\ Goto(t, IF opcount[t] + 1 = kOpThreshold THEN "scan" ELSE "active")
  /\ UNCHANGED <<gepoch, limbo_lists, local_epoch, checked_it, lists, client, freed, late>>

\* A thread does not hold the epoch back if it is at the epoch or quiescent.
NotAhead(tepoch, epoch) == tepoch <= epoch \/ is_quiescent(tepoch)         \* mutant
passes(tepoch, epoch) == real_epoch(tepoch) = epoch \/ is_quiescent(tepoch)

\* One look at the thread at checked_it; past the end there is nobody to look at.
Scan(t) ==
  LET pass == /\ checked_it[t] # End
              /\ passes(thread_epoch[limbo_lists[checked_it[t]]], local_epoch[t]) IN
  /\ pc[t] = "scan"
  /\ checked_it' = [checked_it EXCEPT ![t] = IF pass THEN checked_it[t] + 1 ELSE checked_it[t]]
  /\ Goto(t, IF pass THEN "end_check" ELSE "active")
  /\ UNCHANGED <<gepoch, limbo_lists, announcement, local_epoch, opcount, lists, client,
                 freed, late>>

\* it == limbo_lists_.end(), evaluated after the look.
EndCheck(t) ==
  /\ pc[t] = "end_check"
  /\ Goto(t, IF checked_it[t] = End THEN "advance" ELSE "active")
  /\ UNCHANGED <<gepoch, limbo_lists, announcement, local_epoch, checked_it, opcount, lists,
                 client, freed, late>>

\* compare_exchange_strong(gepoch, gepoch + kEpochIncrement) on gepoch_.
cas_succeeds(t) == gepoch = local_epoch[t]

Advance(t) ==
  /\ pc[t] = "advance"
  /\ gepoch' = IF cas_succeeds(t) /\ gepoch < MaxEpoch
               THEN gepoch + kEpochIncrement ELSE gepoch
  /\ Goto(t, "active")
  /\ UNCHANGED <<limbo_lists, announcement, local_epoch, checked_it, opcount, lists, client,
                 freed, late>>
-----------------------------------------------------------------------------
(* The guarded operation of the client, and endop *)

Reach(t, b) ==
  /\ pc[t] = "active"
  /\ b \in linked
  /\ held' = [held EXCEPT ![t] = held[t] \cup {b}]
  /\ UNCHANGED <<gepoch, limbo_lists, pc, announcement, local_epoch, checked_it, opcount,
                 lists, linked, unlinked, doomed, freed, late>>

\* The announcement came late if the global epoch had moved since the load.
Retired(t, b, k) ==
  /\ limbo' = [limbo EXCEPT ![t] = [limbo[t] EXCEPT ![k] = add(limbo[t][k], b, local_epoch[t])]]
  /\ late' = IF announced_at[t] # local_epoch[t] THEN late \cup {b} ELSE late
  /\ UNCHANGED token

Unlink(t, b) ==
  /\ pc[t] = "active"
  /\ b \in linked
  /\ \A r \in Threads : b \notin doomed[r]
  /\ linked' = linked \ {b}
  /\ unlinked' = [unlinked EXCEPT ![t] = unlinked[t] \cup {b}]
  /\ UNCHANGED <<gepoch, limbo_lists, pc, announcement, local_epoch, checked_it, opcount,
                 lists, doomed, held, freed, late>>

retire(t, b, k) ==
  /\ pc[t] = "active"
  /\ b \in unlinked[t]
  /\ unlinked' = [unlinked EXCEPT ![t] = unlinked[t] \ {b}]
  /\ Retired(t, b, k)
  /\ UNCHANGED <<gepoch, limbo_lists, pc, announcement, local_epoch, checked_it, opcount,
                 linked, doomed, held, freed>>

\* A merged node is retired, and then the entries that lead to it are removed.
RetireFirst(t, b, k) ==
  /\ pc[t] = "active"
  /\ b \in linked
  /\ \A r \in Threads : b \notin doomed[r]
  /\ doomed' = [doomed EXCEPT ![t] = doomed[t] \cup {b}]
  /\ Retired(t, b, k)
  /\ UNCHANGED <<gepoch, limbo_lists, pc, announcement, local_epoch, checked_it, opcount,
                 linked, unlinked, held, freed>>

UnlinkLast(t, b) ==
  /\ pc[t] = "active"
  /\ b \in doomed[t]
  /\ linked' = linked \ {b}
  /\ doomed' = [doomed EXCEPT ![t] = doomed[t] \ {b}]
  /\ UNCHANGED <<gepoch, limbo_lists, pc, announcement, local_epoch, checked_it, opcount,
                 lists, unlinked, held, freed, late>>

endop(t) ==
  /\ pc[t] = "active"
  /\ unlinked[t] = {} /\ doomed[t] = {}
  /\ thread_epoch' = [thread_epoch EXCEPT ![t] = with_quiescent(local_epoch[t])]
  /\ announced_at' = [announced_at EXCEPT ![t] = 0]
  /\ held' = [held EXCEPT ![t] = {}]
  /\ Goto(t, "idle")
  /\ UNCHANGED <<gepoch, limbo_lists, local_epoch, checked_it, opcount, lists,
                 linked, unlinked, doomed, freed, late>>
-----------------------------------------------------------------------------
Startop(t) ==
  \/ Register(t) \/ Start(t)
  \/ \E n \in 1 .. kBagSize : Reclaim(t, n)
  \/ Announce(t) \/ Scan(t) \/ EndCheck(t) \/ Advance(t)

Client(t) ==
  \/ \E b \in Blocks : Reach(t, b) \/ Unlink(t, b) \/ UnlinkLast(t, b)
  \/ \E b \in Blocks, k \in Kinds : retire(t, b, k) \/ RetireFirst(t, b, k)
  \/ endop(t)

Next == \E t \in Threads : Startop(t) \/ Client(t)

Spec == Init /\ [][Next]_vars

\* Every thread keeps calling operations, and finishes each of them.
Fairness == \A t \in Threads :
  /\ WF_vars(Startop(t))
  /\ WF_vars(endop(t))
  /\ WF_vars(\E b \in Blocks, k \in Kinds : retire(t, b, k))
  /\ WF_vars(\E b \in Blocks : UnlinkLast(t, b))
-----------------------------------------------------------------------------
Bag == [epoch : Nat, blocks : Seq(Blocks)]

TypeOK ==
  /\ gepoch \in Nat /\ gepoch % kEpochIncrement = 0
  /\ limbo_lists \in Seq(Threads)
  /\ pc \in [Threads -> PCs]
  /\ thread_epoch \in [Threads -> Nat]
  /\ local_epoch \in [Threads -> Nat]
  /\ checked_it \in [Threads -> Nat \ {0}]
  /\ \A t \in Threads : checked_it[t] <= End
  /\ opcount \in [Threads -> 0 .. kOpThreshold - 1]
  /\ token \in [Threads -> [Kinds -> BOOLEAN]]
  /\ limbo \in [Threads -> [Kinds -> Seq(Bag)]]
  /\ linked \subseteq Blocks
  /\ unlinked \in [Threads -> SUBSET Blocks]
  /\ doomed \in [Threads -> SUBSET Blocks]
  /\ held \in [Threads -> SUBSET Blocks]
  /\ freed \subseteq Blocks
  /\ announced_at \in [Threads -> Nat]
  /\ late \subseteq Blocks

Active(t) == ~ is_quiescent(thread_epoch[t])

\* While a thread is inside an operation the global epoch moves at most once
\* after its announcement, however many threads look round at the same time,
\* each from an epoch and a position of its own (epoch.h:296-309).
ActiveThreadPinsEpoch ==
  \A t \in Threads : Active(t) => gepoch <= announced_at[t] + kEpochIncrement

\* No block is given back while a guarded thread still has it: what "blocks
\* retired at epoch 0 may be referenced by a thread at epoch 1, while the
\* global epoch is 2" (epoch.h:199-200) promises of waiting for more than two.
NoUseAfterFree == \A t \in Threads : held[t] \cap freed = {}

\* The wait of more than two epochs is enough for every block whose retiring
\* thread announced the epoch that was global at that moment (epoch.h:201).
OnlyLateBlocksAtRisk == \A t \in Threads : held[t] \cap freed \subseteq late

\* free looks at the head bag alone.  That is enough because no bag further
\* back is older and none is newer than the thread (epoch.h:168, 197-201).
BagsInEpochOrder ==
  \A t \in Threads, k \in Kinds : \A i \in DOMAIN limbo[t][k] :
    /\ limbo[t][k][i].epoch <= local_epoch[t]
    /\ i > 1 => limbo[t][k][i - 1].epoch <= limbo[t][k][i].epoch

\* As long as threads keep working the global epoch moves on: no thread waits
\* at the end of limbo_lists_ for an epoch that nobody will install, whoever
\* registers in the middle of a look round (epoch.h:280-283, 298-309).
EpochMovesOn ==
  \A e \in {2 * i : i \in 0 .. MaxEpoch \div 2 - 1} : gepoch = e ~> gepoch > e

\* A bag that is no longer the tail is given back once the epoch has moved far
\* enough (the bound lets it): a dropped token is never lost (epoch.h:211-212, 282).
InFrontBag(b) ==
  \E t \in Threads, k \in Kinds :
    \E i \in 1 .. Len(limbo[t][k]) - 1 : \E j \in DOMAIN limbo[t][k][i].blocks :
      /\ limbo[t][k][i].blocks[j] = b
      /\ limbo[t][k][i].epoch + 2 * kEpochIncrement < MaxEpoch
FrontBagsAreFreed ==
  \A b \in Blocks : (InFrontBag(b) /\ gepoch < MaxEpoch) ~> b \in freed
=============================================================================
