---------------------------- MODULE EpochProofs ----------------------------
(***************************************************************************)
(* What epoch-based reclamation guarantees, for any number of threads and  *)
(* blocks, any bag size and any operation threshold.                       *)
(*                                                                         *)
(* PinInv: a guarded thread t announced when the global epoch was          *)
(* announced_at[t].  A thread that looks round from a later epoch cannot   *)
(* get past t, so only look rounds that began before can still advance the *)
(* global epoch, and they share one compare-and-exchange that succeeds.    *)
(*                                                                         *)
(* SafeInv: who still holds a retired block announced at most one epoch    *)
(* after its bag, unless the retiring thread announced late.               *)
(***************************************************************************)
EXTENDS Epoch, TLAPS

\* Where a thread is between announcing an epoch and withdrawing it.
Guarded(t) == pc[t] \in {"scan", "end_check", "advance", "active"}

\* What a thread has announced, by where it is, and who can pass over it
\* while it is active: nobody.
PinInv ==
  /\ \A t \in Threads :
       /\ local_epoch[t] <= gepoch \/ local_epoch[t] = 1
       /\ pc[t] # "idle" => /\ t \in Registered
                            /\ local_epoch[t] <= gepoch
                            /\ local_epoch[t] % 2 = 0
       /\ ~ Guarded(t) => thread_epoch[t] % 2 = 1
       /\ Guarded(t) => /\ thread_epoch[t] = local_epoch[t]
                        /\ local_epoch[t] <= announced_at[t]
                        /\ announced_at[t] <= gepoch
                        /\ gepoch <= announced_at[t] + 2
                        /\ announced_at[t] % 2 = 0
  /\ \A t, c \in Threads :
       Guarded(t) /\ local_epoch[c] >= announced_at[t] + 2 =>
         /\ pc[c] # "advance"
         /\ \A i \in 1 .. Len(limbo_lists) : limbo_lists[i] = t => checked_it[c] <= i

USE DEF kEpochIncrement
-----------------------------------------------------------------------------
\* Epochs are even; a thread's announcement is odd when it is quiescent.
LEMMA EvenPlusTwo == \A n \in Nat : n % 2 = 0 => (n + 2) % 2 = 0
OBVIOUS

\* Announced epochs are even, the quiescent mark makes them odd.
LEMMA EvenPlusOne == \A n \in Nat : n % 2 = 0 => (n + 1) % 2 = 1
OBVIOUS

\* Epochs differ by two or more.
LEMMA EvenGap == \A m, n \in Nat : m % 2 = 0 /\ n % 2 = 0 /\ m > n => m >= n + 2
OBVIOUS
-----------------------------------------------------------------------------
(* The bags of a thread *)

\* Adding a block to well-formed bags leaves well-formed bags.
LEMMA AddType ==
  ASSUME NEW bags \in Seq(Bag), NEW b \in Blocks, NEW e \in Nat
  PROVE  add(bags, b, e) \in Seq(Bag)
<1> DEFINE n == Len(bags)
<1>1. CASE n = 0 \/ Len(bags[n].blocks) = kBagSize
  <2>1. [epoch |-> e, blocks |-> <<b>>] \in Bag  BY DEF Bag
  <2> QED  BY <1>1, <2>1 DEF add, new_bag
<1>2. CASE ~ (n = 0 \/ Len(bags[n].blocks) = kBagSize)
  <2>1. n \in 1 .. Len(bags) /\ bags[n] \in Bag  BY <1>2
  <2>2. Append(bags[n].blocks, b) \in Seq(Blocks)  BY <2>1 DEF Bag
  <2>3. [epoch |-> e, blocks |-> Append(bags[n].blocks, b)] \in Bag  BY <2>2 DEF Bag
  <2> QED  BY <1>2, <2>1, <2>3 DEF add, bag_epoch
<1> QED  BY <1>1, <1>2

\* So does releasing blocks of the head bag.
LEMMA RemainingType ==
  ASSUME NEW bags \in Seq(Bag), Len(bags) > 1, NEW n \in Nat
  PROVE  remaining(bags, n) \in Seq(Bag)
<1>1. bags[1] \in Bag  OBVIOUS
<1>2. CASE n >= Len(bags[1].blocks)  BY <1>2 DEF remaining
<1>3. CASE ~ (n >= Len(bags[1].blocks))
  <2>1. SubSeq(bags[1].blocks, n + 1, Len(bags[1].blocks)) \in Seq(Blocks)
    BY <1>1, <1>3 DEF Bag
  <2>2. [epoch |-> bags[1].epoch,
         blocks |-> SubSeq(bags[1].blocks, n + 1, Len(bags[1].blocks))] \in Bag
    BY <1>1, <2>1 DEF Bag
  <2> QED  BY <1>3, <2>2 DEF remaining
<1> QED  BY <1>2, <1>3

\* What is released are blocks.
LEMMA ReleasedType ==
  ASSUME NEW bags \in Seq(Bag), Len(bags) > 1, NEW n \in Nat
  PROVE  released(bags, n) \subseteq Blocks
<1>1. bags[1] \in Bag  OBVIOUS
<1> QED  BY <1>1 DEF released, Bag
-----------------------------------------------------------------------------
\* The types of the variables, at first ...
LEMMA TypeInit == Init => TypeOK
BY EpochAssumption DEF Init, TypeOK, PCs, with_quiescent, is_quiescent, End

\* ... and after every step.
LEMMA TypeStep == TypeOK /\ [Next]_vars => TypeOK'
<1> SUFFICES ASSUME TypeOK, [Next]_vars PROVE TypeOK'  OBVIOUS
<1> USE EpochAssumption
<1>1. ASSUME NEW t \in Threads, Register(t) PROVE TypeOK'
  BY <1>1 DEF TypeOK, Register, announcement, lists, client, End
<1>2. ASSUME NEW t \in Threads, Start(t) PROVE TypeOK'
  BY <1>2 DEF TypeOK, Start, announcement, client, End, Goto, PCs, rewound, renewed
<1>3. ASSUME NEW t \in Threads, NEW n \in 1 .. kBagSize, Reclaim(t, n) PROVE TypeOK'
  <2> DEFINE can(k) == can_free(limbo[t][k], token[t][k], local_epoch[t])
  <2>1. \A k \in Kinds : limbo[t][k] \in Seq(Bag)  BY DEF TypeOK
  <2>2. \A k \in Kinds : can(k) => Len(limbo[t][k]) > 1  BY DEF can_free
  <2>3. \A k \in Kinds : can(k) => remaining(limbo[t][k], n) \in Seq(Bag)
    BY <2>1, <2>2, RemainingType
  <2>4. \A k \in Kinds : can(k) => released(limbo[t][k], n) \subseteq Blocks
    BY <2>1, <2>2, ReleasedType
  <2>5. \A k \in Kinds : can(k) \in BOOLEAN
    BY DEF can_free, TypeOK, old_enough
  <2> HIDE DEF can
  <2>6. token' \in [Threads -> [Kinds -> BOOLEAN]]
    BY <1>3, <2>5 DEF TypeOK, Reclaim, can
  <2>7. limbo' \in [Threads -> [Kinds -> Seq(Bag)]]
    BY <1>3, <2>1, <2>3 DEF TypeOK, Reclaim, can
  <2>8. freed' \subseteq Blocks
    BY <1>3, <2>4 DEF TypeOK, Reclaim, can
  <2> QED  BY <1>3, <2>6, <2>7, <2>8
           DEF TypeOK, Reclaim, announcement, client, End, Goto, PCs
<1>4. ASSUME NEW t \in Threads, Announce(t) PROVE TypeOK'
  <2>1. pc' \in [Threads -> PCs]  BY <1>4 DEF TypeOK, Announce, Goto, PCs
  <2>2. next_opcount(t) \in 0 .. kOpThreshold - 1  BY DEF TypeOK, next_opcount
  <2>3. opcount' \in [Threads -> 0 .. kOpThreshold - 1]
    BY <1>4, <2>2 DEF TypeOK, Announce
  <2>4. thread_epoch' \in [Threads -> Nat] /\ announced_at' \in [Threads -> Nat]
    BY <1>4 DEF TypeOK, Announce
  <2> QED  BY <1>4, <2>1, <2>3, <2>4 DEF TypeOK, Announce, lists, client, End
<1>5. ASSUME NEW t \in Threads, Scan(t) PROVE TypeOK'
  <2>1. pc' \in [Threads -> PCs]  BY <1>5 DEF TypeOK, Scan, Goto, PCs
  <2>2. \/ checked_it' = checked_it
        \/ /\ checked_it' = [checked_it EXCEPT ![t] = checked_it[t] + 1]
           /\ checked_it[t] # End
    BY <1>5 DEF TypeOK, Scan
  <2>3. /\ checked_it' \in [Threads -> Nat \ {0}]
        /\ \A c \in Threads : checked_it'[c] <= End
    <3>1. Len(limbo_lists) \in Nat /\ End = Len(limbo_lists) + 1  BY DEF TypeOK, End
    <3>2. /\ checked_it \in [Threads -> Nat \ {0}]
          /\ \A c \in Threads : checked_it[c] <= End
      BY DEF TypeOK
    <3>3. checked_it[t] # End => checked_it[t] + 1 <= End  BY <3>1, <3>2
    <3> QED  BY <2>2, <3>1, <3>2, <3>3
  <2> QED  BY <1>5, <2>1, <2>3 DEF TypeOK, Scan, announcement, lists, client, End
<1>6. ASSUME NEW t \in Threads, EndCheck(t) PROVE TypeOK'
  BY <1>6 DEF TypeOK, EndCheck, announcement, lists, client, End, Goto, PCs
<1>7. ASSUME NEW t \in Threads, Advance(t) PROVE TypeOK'
  <2>1. pc' \in [Threads -> PCs]  BY <1>7 DEF TypeOK, Advance, Goto, PCs
  <2>2. gepoch' = gepoch \/ gepoch' = gepoch + 2  BY <1>7 DEF Advance
  <2>3. gepoch' \in Nat /\ gepoch' % 2 = 0
    <3>1. gepoch \in Nat /\ gepoch % 2 = 0  BY DEF TypeOK
    <3> QED  BY <2>2, <3>1, EvenPlusTwo
  <2> QED  BY <1>7, <2>1, <2>3 DEF TypeOK, Advance, announcement, lists, client, End
<1>8. ASSUME NEW t \in Threads, NEW b \in Blocks, Reach(t, b) PROVE TypeOK'
  BY <1>8 DEF TypeOK, Reach, announcement, lists, End
<1>9. ASSUME NEW t \in Threads, NEW b \in Blocks, Unlink(t, b) PROVE TypeOK'
  BY <1>9 DEF TypeOK, Unlink, announcement, lists, End
<1>10. ASSUME NEW t \in Threads, NEW b \in Blocks, NEW k \in Kinds, retire(t, b, k)
       PROVE TypeOK'
  <2>1. add(limbo[t][k], b, local_epoch[t]) \in Seq(Bag)  BY AddType DEF TypeOK
  <2> QED  BY <1>10, <2>1 DEF TypeOK, retire, Retired, announcement, End
<1>11. ASSUME NEW t \in Threads, NEW b \in Blocks, NEW k \in Kinds, RetireFirst(t, b, k)
       PROVE TypeOK'
  <2>1. add(limbo[t][k], b, local_epoch[t]) \in Seq(Bag)  BY AddType DEF TypeOK
  <2> QED  BY <1>11, <2>1 DEF TypeOK, RetireFirst, Retired, announcement, End
<1>12. ASSUME NEW t \in Threads, NEW b \in Blocks, UnlinkLast(t, b) PROVE TypeOK'
  BY <1>12 DEF TypeOK, UnlinkLast, announcement, lists, End
<1>13. ASSUME NEW t \in Threads, endop(t) PROVE TypeOK'
  <2>1. pc' \in [Threads -> PCs]  BY <1>13 DEF TypeOK, endop, Goto, PCs
  <2>2. with_quiescent(local_epoch[t]) \in Nat  BY DEF TypeOK, with_quiescent
  <2>3. /\ thread_epoch' \in [Threads -> Nat] /\ announced_at' \in [Threads -> Nat]
        /\ held' \in [Threads -> SUBSET Blocks]
    BY <1>13, <2>2 DEF TypeOK, endop
  <2> QED  BY <1>13, <2>1, <2>3 DEF TypeOK, endop, lists, End
<1>14. CASE UNCHANGED vars
  BY <1>14 DEF vars, TypeOK, announcement, lists, client, End
<1> QED  BY <1>1, <1>2, <1>3, <1>4, <1>5, <1>6, <1>7, <1>8, <1>9, <1>10, <1>13, <1>14,
            <1>11, <1>12
         DEF Next, Startop, Client
-----------------------------------------------------------------------------
(* The global epoch and the guarded threads *)

\* At first nobody is active.
LEMMA PinInit == Init => PinInv
BY DEF Init, PinInv, Guarded, with_quiescent, is_quiescent

\* Actions of the client and frees change nothing the pins are about.
LEMMA PinFrame ==
  ASSUME PinInv,
         UNCHANGED <<gepoch, limbo_lists, pc, thread_epoch, announced_at, local_epoch, checked_it>>
  PROVE  PinInv'
BY DEF PinInv, Guarded, Registered

\* Every step keeps what pins the epoch.
LEMMA PinStep == TypeOK /\ PinInv /\ [Next]_vars => PinInv'
<1> SUFFICES ASSUME TypeOK, PinInv, [Next]_vars PROVE PinInv'  OBVIOUS
<1>0. /\ gepoch \in Nat /\ gepoch % 2 = 0
      /\ limbo_lists \in Seq(Threads)
      /\ Len(limbo_lists) \in Nat
      /\ pc \in [Threads -> PCs]
      /\ thread_epoch \in [Threads -> Nat]
      /\ local_epoch \in [Threads -> Nat]
      /\ announced_at \in [Threads -> Nat]
      /\ checked_it \in [Threads -> Nat \ {0}]
  BY DEF TypeOK
<1> DEFINE P1(t) ==
       /\ local_epoch[t] <= gepoch \/ local_epoch[t] = 1
       /\ pc[t] # "idle" => /\ t \in Registered
                            /\ local_epoch[t] <= gepoch
                            /\ local_epoch[t] % 2 = 0
       /\ ~ Guarded(t) => thread_epoch[t] % 2 = 1
       /\ Guarded(t) => /\ thread_epoch[t] = local_epoch[t]
                        /\ local_epoch[t] <= announced_at[t]
                        /\ announced_at[t] <= gepoch
                        /\ gepoch <= announced_at[t] + 2
                        /\ announced_at[t] % 2 = 0
           P2(t, c) ==
       Guarded(t) /\ local_epoch[c] >= announced_at[t] + 2 =>
         /\ pc[c] # "advance"
         /\ \A i \in 1 .. Len(limbo_lists) : limbo_lists[i] = t => checked_it[c] <= i
<1>a. (\A t \in Threads : P1(t)) /\ \A t, c \in Threads : P2(t, c)  BY DEF PinInv
<1>b. ASSUME \A t \in Threads : P1(t)', \A t, c \in Threads : P2(t, c)' PROVE PinInv'
  BY <1>b DEF PinInv
<1> HIDE DEF P1, P2
<1>1. ASSUME NEW u \in Threads, Register(u) PROVE PinInv'
  <2>1. /\ pc[u] = "idle" /\ limbo_lists' = Append(limbo_lists, u)
        /\ UNCHANGED <<gepoch, pc, thread_epoch, announced_at, local_epoch, checked_it>>
    BY <1>1 DEF Register, announcement
  <2>2. Registered \subseteq Registered'
    <3>1. \A i \in 1 .. Len(limbo_lists) :
            i \in 1 .. Len(limbo_lists') /\ limbo_lists'[i] = limbo_lists[i]
      BY <1>0, <2>1
    <3>2. DOMAIN limbo_lists = 1 .. Len(limbo_lists) /\ DOMAIN limbo_lists' = 1 .. Len(limbo_lists')
      BY <1>0, <2>1
    <3> QED  BY <3>1, <3>2 DEF Registered
  <2>3. \A t \in Threads : P1(t)'  BY <1>a, <2>1, <2>2 DEF P1, Guarded
  <2>4. \A t, c \in Threads : P2(t, c)'
    <3> SUFFICES ASSUME NEW t \in Threads, NEW c \in Threads,
                        Guarded(t), local_epoch[c] >= announced_at[t] + 2
                 PROVE  /\ pc[c] # "advance"
                        /\ \A i \in 1 .. Len(limbo_lists') :
                             limbo_lists'[i] = t => checked_it[c] <= i
      BY <2>1 DEF P2, Guarded
    <3>1. t # u  BY <2>1 DEF Guarded
    <3>2. \A i \in 1 .. Len(limbo_lists') : limbo_lists'[i] = t =>
            i \in 1 .. Len(limbo_lists) /\ limbo_lists[i] = t
      <4>1. /\ Len(limbo_lists') = Len(limbo_lists) + 1
            /\ limbo_lists'[Len(limbo_lists) + 1] = u
            /\ \A i \in 1 .. Len(limbo_lists) : limbo_lists'[i] = limbo_lists[i]
        BY <1>0, <2>1
      <4>2. Len(limbo_lists) \in Nat  BY <1>0
      <4> QED  BY <3>1, <4>1, <4>2
    <3> QED  BY <1>a, <3>2 DEF P2
  <2> QED  BY <1>b, <2>3, <2>4
<1>2. ASSUME NEW u \in Threads, Start(u) PROVE PinInv'
  <2>1. /\ pc[u] = "idle" /\ u \in Registered
        /\ pc' = [pc EXCEPT ![u] = "reclaim"]
        /\ local_epoch' = [local_epoch EXCEPT ![u] = gepoch]
        /\ checked_it' = [checked_it EXCEPT ![u] = rewound(u)]
        /\ UNCHANGED <<gepoch, limbo_lists, thread_epoch, announced_at>>
    BY <1>2 DEF Start, announcement, Goto
  <2>2. Registered' = Registered  BY <2>1 DEF Registered
  <2>3. \A t \in Threads : P1(t)'
    <3> SUFFICES ASSUME NEW t \in Threads PROVE P1(t)'  OBVIOUS
    <3>1. CASE t = u  BY <1>0, <1>a, <2>1, <2>2, <3>1 DEF P1, Guarded
    <3>2. CASE t # u  BY <1>0, <1>a, <2>1, <2>2, <3>2 DEF P1, Guarded
    <3> QED  BY <3>1, <3>2
  <2>4. \A t, c \in Threads : P2(t, c)'
    <3> SUFFICES ASSUME NEW t \in Threads, NEW c \in Threads PROVE P2(t, c)'  OBVIOUS
    <3>1. t = u => ~ Guarded(t)'  BY <1>0, <2>1 DEF Guarded
    <3>2. t # u => (Guarded(t)' <=> Guarded(t))  BY <1>0, <2>1 DEF Guarded
    <3>3. CASE t = u  BY <3>1, <3>3 DEF P2
    <3>4. CASE t # u /\ c # u  BY <1>0, <1>a, <2>1, <3>2, <3>4 DEF P2
    <3>5. CASE t # u /\ c = u
      <4>1. CASE gepoch = local_epoch[u]
        <5>1. checked_it' = checked_it /\ local_epoch' = local_epoch
          BY <1>0, <2>1, <4>1 DEF rewound
        <5>2. pc'[c] # "advance"  BY <1>0, <2>1, <3>5
        <5> QED  BY <1>a, <2>1, <3>2, <3>5, <5>1, <5>2 DEF P2
      <4>2. CASE gepoch # local_epoch[u]
        <5>1. checked_it'[c] = 1 /\ pc'[c] = "reclaim"
          BY <1>0, <2>1, <3>5, <4>2 DEF rewound
        <5> QED  BY <1>0, <2>1, <5>1 DEF P2
      <4> QED  BY <4>1, <4>2
    <3> QED  BY <3>3, <3>4, <3>5
  <2> QED  BY <1>b, <2>3, <2>4
<1>3. ASSUME NEW u \in Threads, Announce(u) PROVE PinInv'
  <2>1. /\ pc[u] = "announce"
        /\ pc' \in [Threads -> PCs] /\ pc'[u] \in {"scan", "active"}
        /\ \A t \in Threads : t # u => pc'[t] = pc[t]
        /\ thread_epoch' = [thread_epoch EXCEPT ![u] = local_epoch[u]]
        /\ announced_at' = [announced_at EXCEPT ![u] = gepoch]
        /\ UNCHANGED <<gepoch, limbo_lists, local_epoch, checked_it>>
    BY <1>0, <1>3 DEF Announce, Goto, PCs
  <2>2. Registered' = Registered  BY <2>1 DEF Registered
  <2>3. \A t \in Threads : P1(t)'
    <3> SUFFICES ASSUME NEW t \in Threads PROVE P1(t)'  OBVIOUS
    <3>1. CASE t = u  BY <1>0, <1>a, <2>1, <2>2, <3>1 DEF P1, Guarded
    <3>2. CASE t # u  BY <1>0, <1>a, <2>1, <2>2, <3>2 DEF P1, Guarded
    <3> QED  BY <3>1, <3>2
  <2>4. \A t, c \in Threads : P2(t, c)'
    <3> SUFFICES ASSUME NEW t \in Threads, NEW c \in Threads PROVE P2(t, c)'  OBVIOUS
    <3>1. CASE t = u
      <4>1. ~ (local_epoch[c] >= gepoch + 2)
        <5>1. local_epoch[c] <= gepoch \/ local_epoch[c] = 1  BY <1>a DEF P1
        <5>2. local_epoch[c] \in Nat /\ gepoch \in Nat  BY <1>0
        <5> QED  BY <5>1, <5>2
      <4>2. local_epoch'[c] = local_epoch[c] /\ announced_at'[t] = gepoch
        BY <1>0, <2>1, <3>1
      <4> QED  BY <4>1, <4>2 DEF P2
    <3>2. CASE t # u
      <4>1. Guarded(t)' <=> Guarded(t)  BY <2>1, <3>2 DEF Guarded
      <4>2. announced_at'[t] = announced_at[t]  BY <1>0, <2>1, <3>2
      <4>3. pc'[c] = "advance" => pc[c] = "advance"  BY <2>1
      <4> QED  BY <1>a, <2>1, <4>1, <4>2, <4>3 DEF P2
    <3> QED  BY <3>1, <3>2
  <2> QED  BY <1>b, <2>3, <2>4
<1>4. ASSUME NEW u \in Threads, Scan(u) PROVE PinInv'
  <2>1. /\ pc[u] = "scan"
        /\ pc' \in [Threads -> PCs] /\ pc'[u] \in {"end_check", "active"}
        /\ \A t \in Threads : t # u => pc'[t] = pc[t]
        /\ UNCHANGED <<gepoch, limbo_lists, local_epoch, thread_epoch, announced_at>>
    BY <1>0, <1>4 DEF Scan, Goto, PCs, announcement
  <2>2. Registered' = Registered  BY <2>1 DEF Registered
  <2>3. \A t \in Threads : Guarded(t)' <=> Guarded(t)  BY <2>1 DEF Guarded
  <2>4. \A t \in Threads : P1(t)'
    <3> SUFFICES ASSUME NEW t \in Threads PROVE P1(t)'  OBVIOUS
    <3>1. pc'[t] # "idle" => pc[t] # "idle"  BY <2>1
    <3> QED  BY <1>a, <2>1, <2>2, <2>3, <3>1 DEF P1
  <2>5. \A t, c \in Threads : P2(t, c)'
    <3> SUFFICES ASSUME NEW t \in Threads, NEW c \in Threads,
                        Guarded(t), local_epoch[c] >= announced_at[t] + 2
                 PROVE  /\ pc'[c] # "advance"
                        /\ \A i \in 1 .. Len(limbo_lists) :
                             limbo_lists[i] = t => checked_it'[c] <= i
      BY <2>1, <2>3 DEF P2
    <3>1. pc'[c] # "advance"  BY <1>a, <2>1 DEF P2
    <3>2. \A i \in 1 .. Len(limbo_lists) : limbo_lists[i] = t => checked_it[c] <= i
      BY <1>a DEF P2
    <3>3. CASE checked_it'[c] = checked_it[c]  BY <3>1, <3>2, <3>3
    <3>4. CASE checked_it'[c] # checked_it[c]
      <4>1. /\ c = u /\ checked_it'[c] = checked_it[c] + 1
            /\ passes(thread_epoch[limbo_lists[checked_it[c]]], local_epoch[c])
        BY <1>0, <1>4, <3>4 DEF Scan
      <4>2. ~ passes(thread_epoch[t], local_epoch[c])
        <5>1. /\ thread_epoch[t] = local_epoch[t] /\ local_epoch[t] <= announced_at[t]
              /\ local_epoch[t] % 2 = 0
          BY <1>a DEF P1, Guarded
        <5> QED  BY <1>0, <5>1 DEF passes, real_epoch, is_quiescent
      <4>3. limbo_lists[checked_it[c]] # t  BY <4>1, <4>2
      <4>4. checked_it[c] \in Nat  BY <1>0
      <4>5. \A i \in 1 .. Len(limbo_lists) : limbo_lists[i] = t => checked_it[c] # i  BY <4>3
      <4>6. \A i \in 1 .. Len(limbo_lists) : limbo_lists[i] = t => checked_it[c] + 1 <= i
        BY <3>2, <4>4, <4>5
      <4> QED  BY <3>1, <4>1, <4>6
    <3> QED  BY <3>3, <3>4
  <2> QED  BY <1>b, <2>4, <2>5
<1>5. ASSUME NEW u \in Threads, EndCheck(u) PROVE PinInv'
  <2>1. /\ pc[u] = "end_check"
        /\ pc' \in [Threads -> PCs] /\ pc'[u] \in {"advance", "active"}
        /\ pc'[u] = "advance" => checked_it[u] = Len(limbo_lists) + 1
        /\ \A t \in Threads : t # u => pc'[t] = pc[t]
        /\ UNCHANGED <<gepoch, limbo_lists, local_epoch, thread_epoch, announced_at, checked_it>>
    BY <1>0, <1>5 DEF EndCheck, Goto, PCs, announcement, End
  <2>2. Registered' = Registered  BY <2>1 DEF Registered
  <2>3. \A t \in Threads : Guarded(t)' <=> Guarded(t)  BY <2>1 DEF Guarded
  <2>4. \A t \in Threads : P1(t)'
    <3> SUFFICES ASSUME NEW t \in Threads PROVE P1(t)'  OBVIOUS
    <3>1. pc'[t] # "idle" => pc[t] # "idle"  BY <2>1
    <3> QED  BY <1>a, <2>1, <2>2, <2>3, <3>1 DEF P1
  <2>5. \A t, c \in Threads : P2(t, c)'
    <3> SUFFICES ASSUME NEW t \in Threads, NEW c \in Threads,
                        Guarded(t), local_epoch[c] >= announced_at[t] + 2
                 PROVE  pc'[c] # "advance"
      BY <1>a, <2>1, <2>3 DEF P2
    <3>1. t \in Registered  BY <1>a DEF P1, Guarded
    <3>2. PICK i \in 1 .. Len(limbo_lists) : limbo_lists[i] = t
      BY <1>0, <3>1 DEF Registered
    <3>3. checked_it[c] <= i  BY <1>a, <3>2 DEF P2
    <3>4. checked_it[c] # Len(limbo_lists) + 1  BY <1>0, <3>2, <3>3
    <3> QED  BY <1>a, <2>1, <3>4 DEF P2
  <2> QED  BY <1>b, <2>4, <2>5
<1>6. ASSUME NEW u \in Threads, Advance(u) PROVE PinInv'
  <2>1. /\ pc[u] = "advance"
        /\ pc' = [pc EXCEPT ![u] = "active"]
        /\ gepoch' = gepoch \/ (gepoch' = gepoch + 2 /\ gepoch = local_epoch[u])
        /\ UNCHANGED <<limbo_lists, local_epoch, thread_epoch, announced_at, checked_it>>
    BY <1>6 DEF Advance, Goto, announcement, cas_succeeds
  <2>2. Registered' = Registered  BY <2>1 DEF Registered
  <2>3. \A t \in Threads : Guarded(t)' <=> Guarded(t)  BY <1>0, <2>1 DEF Guarded
  <2>4. \A t \in Threads : P1(t)'
    <3> SUFFICES ASSUME NEW t \in Threads PROVE P1(t)'  OBVIOUS
    <3>1. pc'[t] # "idle" => pc[t] # "idle"  BY <1>0, <2>1
    <3>2. gepoch' = gepoch + 2 /\ Guarded(t) => gepoch <= announced_at[t]
      <4> SUFFICES ASSUME gepoch' = gepoch + 2, Guarded(t), ~ (gepoch <= announced_at[t])
                   PROVE  FALSE
        OBVIOUS
      <4>0. /\ gepoch \in Nat /\ gepoch % 2 = 0
            /\ announced_at[t] \in Nat /\ announced_at[t] % 2 = 0
        BY <1>0, <1>a DEF P1
      <4>1. gepoch >= announced_at[t] + 2  BY <4>0, EvenGap
      <4>2. gepoch = local_epoch[u]  BY <2>1, <4>0
      <4>3. pc[u] # "advance"  BY <1>a, <4>1, <4>2 DEF P2
      <4> QED  BY <2>1, <4>3
    <3>3. gepoch \in Nat /\ local_epoch[t] \in Nat /\ announced_at[t] \in Nat  BY <1>0
    <3>4. gepoch' = gepoch \/ gepoch' = gepoch + 2  BY <2>1
    <3>5. gepoch <= gepoch' /\ gepoch' \in Nat  BY <3>3, <3>4
    <3>6. Guarded(t) => gepoch' <= announced_at[t] + 2
      BY <1>a, <3>2, <3>3, <3>4 DEF P1
    <3>7. UNCHANGED <<local_epoch, thread_epoch, announced_at>>  BY <2>1
    <3> QED  BY <1>a, <2>2, <2>3, <3>1, <3>3, <3>5, <3>6, <3>7 DEF P1
  <2>5. \A t, c \in Threads : P2(t, c)'
    <3> SUFFICES ASSUME NEW t \in Threads, NEW c \in Threads PROVE P2(t, c)'  OBVIOUS
    <3>1. pc'[c] = "advance" => pc[c] = "advance"  BY <1>0, <2>1
    <3> QED  BY <1>a, <2>1, <2>3, <3>1 DEF P2
  <2> QED  BY <1>b, <2>4, <2>5
<1>7. ASSUME NEW u \in Threads, endop(u) PROVE PinInv'
  <2>1. /\ pc[u] = "active"
        /\ pc' = [pc EXCEPT ![u] = "idle"]
        /\ thread_epoch' = [thread_epoch EXCEPT ![u] = with_quiescent(local_epoch[u])]
        /\ announced_at' = [announced_at EXCEPT ![u] = 0]
        /\ UNCHANGED <<gepoch, limbo_lists, local_epoch, checked_it>>
    BY <1>7 DEF endop, Goto
  <2>2. Registered' = Registered  BY <2>1 DEF Registered
  <2>3. with_quiescent(local_epoch[u]) % 2 = 1
    BY <1>0, <1>a, <2>1, EvenPlusOne DEF P1, with_quiescent, is_quiescent
  <2>4. \A t \in Threads : P1(t)'
    <3> SUFFICES ASSUME NEW t \in Threads PROVE P1(t)'  OBVIOUS
    <3>1. CASE t = u  BY <1>0, <1>a, <2>1, <2>2, <2>3, <3>1 DEF P1, Guarded
    <3>2. CASE t # u  BY <1>0, <1>a, <2>1, <2>2, <3>2 DEF P1, Guarded
    <3> QED  BY <3>1, <3>2
  <2>5. \A t, c \in Threads : P2(t, c)'
    <3> SUFFICES ASSUME NEW t \in Threads, NEW c \in Threads PROVE P2(t, c)'  OBVIOUS
    <3>1. CASE t = u
      <4>1. ~ Guarded(t)'  BY <1>0, <2>1, <3>1 DEF Guarded
      <4> QED  BY <4>1 DEF P2
    <3>2. CASE t # u
      <4>1. (Guarded(t)' <=> Guarded(t)) /\ announced_at'[t] = announced_at[t]
        BY <1>0, <2>1, <3>2 DEF Guarded
      <4>2. pc'[c] = "advance" => pc[c] = "advance"  BY <1>0, <2>1
      <4> QED  BY <1>a, <2>1, <4>1, <4>2 DEF P2
    <3> QED  BY <3>1, <3>2
  <2> QED  BY <1>b, <2>4, <2>5
<1>8. ASSUME NEW u \in Threads, NEW n \in 1 .. kBagSize, Reclaim(u, n) PROVE PinInv'
  <2>1. /\ pc[u] = "reclaim" /\ pc' = [pc EXCEPT ![u] = "announce"]
        /\ UNCHANGED <<gepoch, limbo_lists, local_epoch, thread_epoch, announced_at, checked_it>>
    BY <1>8 DEF Reclaim, Goto, announcement
  <2>2. Registered' = Registered  BY <2>1 DEF Registered
  <2>3. \A t \in Threads : /\ Guarded(t)' <=> Guarded(t)
                           /\ pc'[t] # "idle" => pc[t] # "idle"
                           /\ pc'[t] = "advance" => pc[t] = "advance"
    BY <1>0, <2>1 DEF Guarded
  <2>4. \A t \in Threads : P1(t)'  BY <1>a, <2>1, <2>2, <2>3 DEF P1
  <2>5. \A t, c \in Threads : P2(t, c)'  BY <1>a, <2>1, <2>3 DEF P2
  <2> QED  BY <1>b, <2>4, <2>5
<1>9. ASSUME NEW u \in Threads, NEW b \in Blocks,
             \/ Reach(u, b) \/ Unlink(u, b) \/ UnlinkLast(u, b)
             \/ \E k \in Kinds : retire(u, b, k) \/ RetireFirst(u, b, k)
      PROVE PinInv'
  BY <1>9, PinFrame DEF Reach, Unlink, UnlinkLast, retire, RetireFirst, announcement
<1>10. CASE UNCHANGED vars
  BY <1>10, PinFrame DEF vars, announcement
<1> QED  BY <1>1, <1>2, <1>3, <1>4, <1>5, <1>6, <1>7, <1>8, <1>9, <1>10
         DEF Next, Startop, Client
-----------------------------------------------------------------------------
(* Retired blocks and the threads that still hold them *)

\* The parts of a bag have their types.
LEMMA BagParts ==
  ASSUME NEW bag \in Bag
  PROVE  bag.epoch \in Nat /\ bag.blocks \in Seq(Blocks) /\ Len(bag.blocks) \in Nat
<1>1. bag.epoch \in Nat /\ bag.blocks \in Seq(Blocks)  BY DEF Bag
<1> QED  BY <1>1

\* Block x is in a bag of epoch f.
InBag(bags, x, f) ==
  \E i \in 1 .. Len(bags) : /\ bags[i].epoch = f
                            /\ \E j \in 1 .. Len(bags[i].blocks) : bags[i].blocks[j] = x

\* add puts b into a bag of epoch e; every other block stays where it was, or
\* its bag now has epoch e.
LEMMA AddInBag ==
  ASSUME NEW bags \in Seq(Bag), NEW b \in Blocks, NEW e \in Nat, NEW x, NEW f,
         InBag(add(bags, b, e), x, f)
  PROVE  \/ x = b /\ f = e
         \/ InBag(bags, x, f)
         \/ f = e /\ \E g \in Nat : InBag(bags, x, g)
<1> DEFINE n == Len(bags)
<1>1. PICK i \in 1 .. Len(add(bags, b, e)) :
        /\ add(bags, b, e)[i].epoch = f
        /\ \E j \in 1 .. Len(add(bags, b, e)[i].blocks) : add(bags, b, e)[i].blocks[j] = x
  BY DEF InBag
<1>2. PICK j \in 1 .. Len(add(bags, b, e)[i].blocks) : add(bags, b, e)[i].blocks[j] = x
  BY <1>1
<1>3. CASE n = 0 \/ Len(bags[n].blocks) = kBagSize
  <2>1. add(bags, b, e) = Append(bags, [epoch |-> e, blocks |-> <<b>>])
    BY <1>3 DEF add, new_bag
  <2>2. CASE i = n + 1
    <3>1. add(bags, b, e)[i] = [epoch |-> e, blocks |-> <<b>>]  BY <2>1, <2>2
    <3> QED  BY <1>1, <1>2, <3>1
  <2>3. CASE i # n + 1
    <3>1. i \in 1 .. n /\ add(bags, b, e)[i] = bags[i]  BY <2>1, <2>3
    <3> QED  BY <1>1, <1>2, <3>1 DEF InBag
  <2> QED  BY <2>2, <2>3
<1>4. CASE ~ (n = 0 \/ Len(bags[n].blocks) = kBagSize)
  <2>a. n \in 1 .. Len(bags) /\ DOMAIN bags = 1 .. Len(bags) /\ bags[n] \in Bag  BY <1>4
  <2>0. /\ n \in 1 .. n /\ bags[n] \in Bag /\ bags[n].blocks \in Seq(Blocks)
        /\ bags[n].epoch \in Nat /\ n \in DOMAIN bags
    BY <2>a, BagParts
  <2>1. add(bags, b, e) = [bags EXCEPT ![n] = [epoch |-> e, blocks |-> Append(bags[n].blocks, b)]]
    BY <1>4 DEF add, bag_epoch
  <2>2. i \in 1 .. n  BY <2>0, <2>1
  <2>3. CASE i = n
    <3>1. add(bags, b, e)[i] = [epoch |-> e, blocks |-> Append(bags[n].blocks, b)]
      BY <2>0, <2>1, <2>3
    <3>2. f = e  BY <1>1, <3>1
    <3>3. j \in 1 .. Len(bags[n].blocks) + 1 /\ Append(bags[n].blocks, b)[j] = x
      BY <1>2, <2>0, <3>1
    <3>4. CASE j = Len(bags[n].blocks) + 1  BY <2>0, <3>2, <3>3, <3>4
    <3>5. CASE j # Len(bags[n].blocks) + 1
      <4>1. j \in 1 .. Len(bags[n].blocks) /\ bags[n].blocks[j] = x
        BY <2>0, <3>3, <3>5
      <4>2. InBag(bags, x, bags[n].epoch)  BY <2>0, <4>1 DEF InBag
      <4> QED  BY <2>0, <3>2, <4>2
    <3> QED  BY <3>4, <3>5
  <2>4. CASE i # n
    <3>1. add(bags, b, e)[i] = bags[i]  BY <2>1, <2>2, <2>4
    <3> QED  BY <1>1, <1>2, <2>2, <3>1 DEF InBag
  <2> QED  BY <2>3, <2>4
<1> QED  BY <1>3, <1>4

\* free leaves a subset of the blocks, each in a bag of the same epoch.
LEMMA RemainingInBag ==
  ASSUME NEW bags \in Seq(Bag), Len(bags) > 1, NEW n \in Nat, NEW x, NEW f,
         InBag(remaining(bags, n), x, f)
  PROVE  InBag(bags, x, f)
<1>a. bags[1] \in Bag /\ 1 \in DOMAIN bags  OBVIOUS
<1>0. bags[1] \in Bag /\ bags[1].blocks \in Seq(Blocks) /\ Len(bags[1].blocks) \in Nat
  BY <1>a, BagParts
<1>1. PICK i \in 1 .. Len(remaining(bags, n)) :
        /\ remaining(bags, n)[i].epoch = f
        /\ \E j \in 1 .. Len(remaining(bags, n)[i].blocks) : remaining(bags, n)[i].blocks[j] = x
  BY DEF InBag
<1>2. PICK j \in 1 .. Len(remaining(bags, n)[i].blocks) : remaining(bags, n)[i].blocks[j] = x
  BY <1>1
<1>3. CASE n >= Len(bags[1].blocks)
  <2>1. remaining(bags, n) = Tail(bags)  BY <1>3 DEF remaining
  <2>2. i + 1 \in 1 .. Len(bags) /\ remaining(bags, n)[i] = bags[i + 1]  BY <2>1
  <2> QED  BY <1>1, <1>2, <2>2 DEF InBag
<1>4. CASE ~ (n >= Len(bags[1].blocks))
  <2> DEFINE rest == SubSeq(bags[1].blocks, n + 1, Len(bags[1].blocks))
  <2>1. remaining(bags, n) = [bags EXCEPT ![1] = [epoch |-> bags[1].epoch, blocks |-> rest]]
    BY <1>4 DEF remaining
  <2>2. i \in 1 .. Len(bags)  BY <2>1
  <2>3. CASE i = 1
    <3>1. remaining(bags, n)[i] = [epoch |-> bags[1].epoch, blocks |-> rest]
      BY <1>a, <2>1, <2>3
    <3>2. Len(rest) = Len(bags[1].blocks) - n
          /\ \A l \in 1 .. Len(rest) : rest[l] = bags[1].blocks[n + l]
      BY <1>0, <1>4
    <3> HIDE DEF rest
    <3>3. j \in 1 .. Len(rest) /\ rest[j] = x  BY <1>2, <3>1
    <3>4. n + j \in 1 .. Len(bags[1].blocks) /\ bags[1].blocks[n + j] = x
      BY <1>0, <1>4, <3>2, <3>3
    <3>5. bags[1].epoch = f  BY <1>1, <3>1
    <3> QED  BY <2>2, <2>3, <3>4, <3>5 DEF InBag
  <2>4. CASE i # 1
    <3>1. remaining(bags, n)[i] = bags[i]  BY <2>1, <2>2, <2>4
    <3> QED  BY <1>1, <1>2, <2>2, <3>1 DEF InBag
  <2> QED  BY <2>3, <2>4
<1> QED  BY <1>3, <1>4

\* What free releases was in the head bag.
LEMMA ReleasedInBag ==
  ASSUME NEW bags \in Seq(Bag), Len(bags) > 1, NEW n \in Nat, NEW x \in released(bags, n)
  PROVE  InBag(bags, x, bags[1].epoch)
<1>0. bags[1] \in Bag  OBVIOUS
<1>1. bags[1].blocks \in Seq(Blocks)  BY <1>0, BagParts
<1>2. DOMAIN bags[1].blocks = 1 .. Len(bags[1].blocks)  BY <1>1
<1> QED  BY <1>2 DEF released, InBag

\* After a retire every bag is as before, or has the epoch of its thread.
LEMMA RetiredInBag ==
  ASSUME TypeOK, NEW u \in Threads, NEW b \in Blocks, NEW k \in Kinds, Retired(u, b, k)
  PROVE  \A r \in Threads, j \in Kinds, x \in Blocks, f \in Nat : InBag(limbo'[r][j], x, f) =>
           \/ InBag(limbo[r][j], x, f)
           \/ /\ r = u /\ f = local_epoch[u]
              /\ x = b \/ \E g \in Nat : InBag(limbo[r][j], x, g)
<1>1. /\ limbo \in [Threads -> [Kinds -> Seq(Bag)]]
      /\ limbo[u][k] \in Seq(Bag) /\ limbo[u] \in [Kinds -> Seq(Bag)]
      /\ local_epoch[u] \in Nat
      /\ limbo' = [limbo EXCEPT ![u] = [limbo[u] EXCEPT ![k] = add(limbo[u][k], b, local_epoch[u])]]
  BY DEF TypeOK, Retired
<1> SUFFICES ASSUME NEW r \in Threads, NEW j \in Kinds, NEW x \in Blocks, NEW f \in Nat,
                    InBag(limbo'[r][j], x, f)
             PROVE  \/ InBag(limbo[r][j], x, f)
                    \/ /\ r = u /\ f = local_epoch[u]
                       /\ x = b \/ \E g \in Nat : InBag(limbo[r][j], x, g)
  OBVIOUS
<1>2. CASE r = u /\ j = k
  <2>1. limbo'[r][j] = add(limbo[u][k], b, local_epoch[u])  BY <1>1, <1>2
  <2>2. InBag(add(limbo[u][k], b, local_epoch[u]), x, f)  BY <2>1
  <2> QED  BY <1>1, <1>2, <2>2, AddInBag
<1>3. CASE ~ (r = u /\ j = k)
  <2>1. limbo'[r][j] = limbo[r][j]  BY <1>1, <1>3
  <2> QED  BY <2>1
<1> QED  BY <1>2, <1>3

\* Only a guarded thread has references or unfinished removals.
Busy(t) == held[t] # {} \/ unlinked[t] # {} \/ doomed[t] # {}
HoldersActive == \A t \in Threads : Busy(t) => pc[t] = "active"

\* A linked block is nowhere else, but for a bag of the thread that retired it
\* and will unlink it; a bag is no younger than its thread.
Detached ==
  /\ linked \cap freed = {}
  /\ \A r \in Threads : linked \cap unlinked[r] = {}
  /\ \A r \in Threads, k \in Kinds, x \in Blocks, f \in Nat :
       InBag(limbo[r][k], x, f) =>
         /\ x \notin linked \/ x \in doomed[r]
         /\ f <= local_epoch[r] /\ f <= gepoch

\* The bag of a block that is still linked is no older than the announcement
\* of the thread that retired it, unless that was late.
DoomedBags ==
  \A r \in Threads, k \in Kinds, x \in Blocks, f \in Nat :
    InBag(limbo[r][k], x, f) /\ x \in doomed[r] /\ x \notin late => announced_at[r] <= f

\* Who holds a block announced at most one epoch after its remover did.
UnlinkedHolders ==
  \A r, t \in Threads : \A x \in unlinked[r] \cap held[t] :
    announced_at[t] <= announced_at[r] + 2

\* Who holds a block that was not retired late announced at most one epoch
\* after the epoch of its bag.
LimboHolders ==
  \A r, t \in Threads, k \in Kinds, x \in Blocks, f \in Nat :
    InBag(limbo[r][k], x, f) /\ x \in held[t] /\ x \notin late => announced_at[t] <= f + 2

\* The inductive invariant of safe reclamation.
SafeInv == HoldersActive /\ Detached /\ DoomedBags /\ UnlinkedHolders /\ LimboHolders /\ OnlyLateBlocksAtRisk

\* At first nothing is unlinked or held.
LEMMA SafeInit == Init => SafeInv
<1> SUFFICES ASSUME Init PROVE SafeInv  OBVIOUS
<1>1. \A r \in Threads, k \in Kinds : \A x, f : ~ InBag(limbo[r][k], x, f)
  BY DEF Init, InBag
<1> QED  BY <1>1 DEF Init, SafeInv, HoldersActive, Busy, Detached, DoomedBags, UnlinkedHolders,
                     LimboHolders, OnlyLateBlocksAtRisk

\* A step that touches no block keeps SafeInv if holders stay as announced
\* and a thread's epoch only moves up to the global one.
LEMMA SafeFrame ==
  ASSUME TypeOK, TypeOK', SafeInv,
         UNCHANGED <<limbo, linked, unlinked, doomed, held, freed, late>>,
         \A t \in Threads : Busy(t) =>
            pc'[t] = "active" /\ announced_at'[t] = announced_at[t],
         \A t \in Threads : local_epoch'[t] = local_epoch[t] \/ local_epoch'[t] = gepoch',
         gepoch <= gepoch'
  PROVE  SafeInv'
<1>1. HoldersActive'  BY DEF SafeInv, HoldersActive, Busy
<1>2. Detached'
  <2>1. gepoch \in Nat /\ gepoch' \in Nat  BY DEF TypeOK
  <2>2. \A r \in Threads, k \in Kinds, x \in Blocks, f \in Nat :
          InBag(limbo[r][k], x, f) =>
            (x \notin linked \/ x \in doomed[r]) /\ f <= local_epoch'[r] /\ f <= gepoch'
    BY <2>1 DEF SafeInv, Detached
  <2> QED  BY <2>2 DEF SafeInv, Detached
<1>6. DoomedBags'  BY DEF SafeInv, DoomedBags, Busy
<1>3. UnlinkedHolders'  BY DEF SafeInv, UnlinkedHolders, Busy
<1>4. LimboHolders'  BY DEF SafeInv, LimboHolders, Busy
<1>5. OnlyLateBlocksAtRisk'  BY DEF SafeInv, OnlyLateBlocksAtRisk
<1> QED  BY <1>1, <1>2, <1>3, <1>4, <1>5, <1>6 DEF SafeInv

\* Every step keeps the blocks that somebody holds from being freed.
LEMMA SafeStep == TypeOK /\ TypeOK' /\ PinInv /\ SafeInv /\ [Next]_vars => SafeInv'
<1> SUFFICES ASSUME TypeOK, TypeOK', PinInv, SafeInv, [Next]_vars PROVE SafeInv'  OBVIOUS
<1>0. /\ gepoch \in Nat
      /\ pc \in [Threads -> PCs]
      /\ local_epoch \in [Threads -> Nat]
      /\ announced_at \in [Threads -> Nat]
      /\ unlinked \in [Threads -> SUBSET Blocks]
      /\ doomed \in [Threads -> SUBSET Blocks]
      /\ held \in [Threads -> SUBSET Blocks]
      /\ limbo \in [Threads -> [Kinds -> Seq(Bag)]]
  BY DEF TypeOK
<1>a. HoldersActive /\ Detached /\ DoomedBags /\ UnlinkedHolders /\ LimboHolders /\ OnlyLateBlocksAtRisk
  BY DEF SafeInv
<1>b. \A t \in Threads : pc[t] # "active" => held[t] = {} /\ unlinked[t] = {} /\ doomed[t] = {}
  BY <1>a DEF HoldersActive, Busy
<1>c. \A t \in Threads : pc[t] = "active" =>
        /\ local_epoch[t] <= announced_at[t]
        /\ announced_at[t] <= gepoch
        /\ gepoch <= announced_at[t] + 2
  BY DEF PinInv, Guarded
<1>1. ASSUME NEW u \in Threads, Register(u) PROVE SafeInv'
  <2>1. UNCHANGED <<gepoch, pc, local_epoch, announced_at, limbo, linked, unlinked, doomed, held, freed, late>>
    BY <1>1 DEF Register, announcement, lists, client
  <2>2. gepoch <= gepoch'  BY <1>0, <2>1
  <2> QED  BY <1>a, <2>1, <2>2, SafeFrame DEF HoldersActive, Busy
<1>2. ASSUME NEW u \in Threads, Start(u) PROVE SafeInv'
  <2>1. /\ pc[u] = "idle" /\ pc' = [pc EXCEPT ![u] = "reclaim"]
        /\ local_epoch' = [local_epoch EXCEPT ![u] = gepoch]
        /\ UNCHANGED <<gepoch, announced_at, limbo, linked, unlinked, doomed, held, freed, late>>
    BY <1>2 DEF Start, Goto, announcement, client
  <2>2. gepoch <= gepoch'  BY <1>0, <2>1
  <2>3. \A t \in Threads : local_epoch'[t] = local_epoch[t] \/ local_epoch'[t] = gepoch'
    BY <1>0, <2>1
  <2>4. \A t \in Threads : Busy(t) => pc'[t] = "active"
    BY <1>0, <1>a, <1>b, <2>1 DEF HoldersActive, Busy
  <2> QED  BY <2>1, <2>2, <2>3, <2>4, SafeFrame
<1>3. ASSUME NEW u \in Threads, Announce(u) PROVE SafeInv'
  <2>1. /\ pc[u] = "announce" /\ \A t \in Threads : t # u => pc'[t] = pc[t]
        /\ announced_at' = [announced_at EXCEPT ![u] = gepoch]
        /\ UNCHANGED <<gepoch, local_epoch, limbo, linked, unlinked, doomed, held, freed, late>>
    BY <1>0, <1>3 DEF Announce, Goto, lists, client
  <2>2. gepoch <= gepoch'  BY <1>0, <2>1
  <2>4. \A t \in Threads : Busy(t) =>
          pc'[t] = "active" /\ announced_at'[t] = announced_at[t]
    BY <1>0, <1>a, <1>b, <2>1 DEF HoldersActive, Busy
  <2> QED  BY <2>1, <2>2, <2>4, SafeFrame
<1>4. ASSUME NEW u \in Threads, Scan(u) \/ EndCheck(u) \/ Advance(u) PROVE SafeInv'
  <2>1. /\ pc[u] # "active" /\ \A t \in Threads : t # u => pc'[t] = pc[t]
        /\ gepoch' = gepoch \/ gepoch' = gepoch + 2
        /\ UNCHANGED <<announced_at, local_epoch, limbo, linked, unlinked, doomed, held, freed, late>>
    BY <1>0, <1>4 DEF Scan, EndCheck, Advance, Goto, lists, client, announcement
  <2>2. gepoch <= gepoch'  BY <1>0, <2>1
  <2>4. \A t \in Threads : Busy(t) => pc'[t] = "active"
    BY <1>a, <1>b, <2>1 DEF HoldersActive, Busy
  <2> QED  BY <2>1, <2>2, <2>4, SafeFrame
<1>5. CASE UNCHANGED vars
  <2>1. UNCHANGED <<gepoch, pc, local_epoch, announced_at, limbo, linked, unlinked, doomed, held, freed, late>>
    BY <1>5 DEF vars, announcement, lists, client
  <2>2. gepoch <= gepoch'  BY <1>0, <2>1
  <2> QED  BY <1>a, <2>1, <2>2, SafeFrame DEF HoldersActive, Busy
<1>6. ASSUME NEW u \in Threads, NEW n \in 1 .. kBagSize, Reclaim(u, n) PROVE SafeInv'
  <2> DEFINE can(k) == can_free(limbo[u][k], token[u][k], local_epoch[u])
  <2>1. /\ pc[u] = "reclaim" /\ pc' = [pc EXCEPT ![u] = "announce"]
        /\ limbo' = [limbo EXCEPT ![u] =
             [k \in Kinds |-> IF can(k) THEN remaining(limbo[u][k], n) ELSE limbo[u][k]]]
        /\ freed' = freed \cup UNION {released(limbo[u][k], n) : k \in {j \in Kinds : can(j)}}
        /\ UNCHANGED <<gepoch, announced_at, local_epoch, linked, unlinked, doomed, held, late>>
    BY <1>6 DEF Reclaim, Goto, announcement, client
  <2>2. \A k \in Kinds : can(k) => /\ Len(limbo[u][k]) > 1
                                   /\ local_epoch[u] - limbo[u][k][1].epoch > 4
    BY DEF can_free, old_enough
  <2>3. \A k \in Kinds : limbo[u][k] \in Seq(Bag)  BY <1>0
  <2>4. n \in Nat  BY EpochAssumption
  <2> HIDE DEF can
  <2>5. \A r \in Threads, k \in Kinds, x \in Blocks, f \in Nat :
          InBag(limbo'[r][k], x, f) => InBag(limbo[r][k], x, f)
    <3> SUFFICES ASSUME NEW r \in Threads, NEW k \in Kinds, NEW x \in Blocks, NEW f \in Nat,
                        InBag(limbo'[r][k], x, f)
                 PROVE  InBag(limbo[r][k], x, f)
      OBVIOUS
    <3>1. CASE r = u /\ can(k)
      <4>1. limbo'[r][k] = remaining(limbo[u][k], n)  BY <1>0, <2>1, <3>1
      <4> QED  BY <2>2, <2>3, <2>4, <3>1, <4>1, RemainingInBag
    <3>2. CASE ~ (r = u /\ can(k))
      <4>1. limbo'[r][k] = limbo[r][k]  BY <1>0, <2>1, <3>2
      <4> QED  BY <4>1
    <3> QED  BY <3>1, <3>2
  <2>6. \A x \in freed' : x \in freed \/
          \E k \in Kinds : can(k) /\ InBag(limbo[u][k], x, limbo[u][k][1].epoch)
    BY <2>1, <2>2, <2>3, <2>4, ReleasedInBag
  <2>7. \A k \in Kinds : can(k) => limbo[u][k][1].epoch \in Nat
    <3>1. \A k \in Kinds : can(k) => limbo[u][k][1] \in Bag  BY <2>2, <2>3
    <3> QED  BY <3>1, BagParts
  <2>8. freed' \subseteq Blocks  BY DEF TypeOK
  <2>9. HoldersActive'  BY <1>0, <1>a, <1>b, <2>1 DEF HoldersActive, Busy
  <2>10. Detached'
    <3>1. linked \cap freed' = {}  BY <1>a, <1>b, <2>1, <2>6, <2>7, <2>8 DEF Detached
    <3> QED  BY <1>a, <2>1, <2>5, <3>1 DEF Detached
  <2>14. DoomedBags'  BY <1>a, <2>1, <2>5 DEF DoomedBags
  <2>11. UnlinkedHolders'  BY <1>a, <2>1 DEF UnlinkedHolders
  <2>12. LimboHolders'  BY <1>a, <2>1, <2>5 DEF LimboHolders
  <2>13. OnlyLateBlocksAtRisk'
    <3> SUFFICES ASSUME NEW t \in Threads, NEW x \in held[t], x \in freed', x \notin late
                 PROVE  FALSE
      BY <2>1 DEF OnlyLateBlocksAtRisk
    <3>1. x \notin freed  BY <1>a DEF OnlyLateBlocksAtRisk
    <3>2. PICK k \in Kinds : can(k) /\ InBag(limbo[u][k], x, limbo[u][k][1].epoch)
      BY <2>6, <3>1
    <3> DEFINE f == limbo[u][k][1].epoch
    <3>3. f \in Nat /\ local_epoch[u] - f > 4  BY <2>2, <2>7, <3>2
    <3>4. announced_at[t] <= f + 2  BY <1>a, <2>8, <3>2, <3>3 DEF LimboHolders
    <3>5. gepoch <= announced_at[t] + 2  BY <1>b, <1>c
    <3>6. local_epoch[u] <= gepoch  BY <2>1 DEF PinInv
    <3>7. gepoch \in Nat /\ local_epoch[u] \in Nat /\ announced_at[t] \in Nat  BY <1>0
    <3> QED  BY <3>3, <3>4, <3>5, <3>6, <3>7
  <2> QED  BY <2>9, <2>10, <2>11, <2>12, <2>13, <2>14 DEF SafeInv
<1>7. ASSUME NEW u \in Threads, NEW b \in Blocks, Reach(u, b) PROVE SafeInv'
  <2>1. /\ pc[u] = "active" /\ b \in linked
        /\ held' = [held EXCEPT ![u] = held[u] \cup {b}]
        /\ UNCHANGED <<gepoch, pc, announced_at, local_epoch, limbo, linked, unlinked, doomed, freed, late>>
    BY <1>7 DEF Reach, announcement, lists
  <2>2. \A t \in Threads : \A x \in held'[t] : x \in held[t] \/ (x = b /\ t = u)
    BY <1>0, <2>1
  <2>3. HoldersActive'  BY <1>0, <1>a, <2>1 DEF HoldersActive, Busy
  <2>4. Detached'  BY <1>a, <2>1 DEF Detached
  <2>5. UnlinkedHolders'  BY <1>a, <2>1, <2>2 DEF UnlinkedHolders, Detached
  <2>6. LimboHolders'
    <3> SUFFICES ASSUME NEW r \in Threads, NEW t \in Threads, NEW k \in Kinds,
                        NEW x \in Blocks, NEW f \in Nat,
                        InBag(limbo[r][k], x, f), x \in held'[t], x \notin late
                 PROVE  announced_at[t] <= f + 2
      BY <2>1 DEF LimboHolders
    <3>1. CASE x \in held[t]  BY <1>a, <3>1 DEF LimboHolders
    <3>2. CASE x = b /\ t = u
      <4>1. x \in doomed[r]  BY <1>a, <2>1, <3>2 DEF Detached
      <4>2. announced_at[r] <= f  BY <1>a, <4>1 DEF DoomedBags
      <4>3. gepoch <= announced_at[r] + 2  BY <1>b, <1>c, <4>1
      <4>4. announced_at[u] <= gepoch  BY <1>c, <2>1
      <4>5. gepoch \in Nat /\ announced_at[r] \in Nat /\ announced_at[u] \in Nat  BY <1>0
      <4> QED  BY <3>2, <4>2, <4>3, <4>4, <4>5
    <3> QED  BY <2>2, <3>1, <3>2
  <2>8. DoomedBags'  BY <1>a, <2>1 DEF DoomedBags
  <2>7. OnlyLateBlocksAtRisk'  BY <1>a, <2>1, <2>2 DEF OnlyLateBlocksAtRisk, Detached
  <2> QED  BY <2>3, <2>4, <2>5, <2>6, <2>7, <2>8 DEF SafeInv
<1>8. ASSUME NEW u \in Threads, NEW b \in Blocks, Unlink(u, b) PROVE SafeInv'
  <2>1. /\ pc[u] = "active" /\ b \in linked /\ linked' = linked \ {b}
        /\ unlinked' = [unlinked EXCEPT ![u] = unlinked[u] \cup {b}]
        /\ UNCHANGED <<gepoch, pc, announced_at, local_epoch, limbo, doomed, held, freed, late>>
    BY <1>8 DEF Unlink, announcement, lists
  <2>2. \A t \in Threads : \A x \in unlinked'[t] : x \in unlinked[t] \/ (x = b /\ t = u)
    BY <1>0, <2>1
  <2>3. HoldersActive'  BY <1>0, <1>a, <2>1 DEF HoldersActive, Busy
  <2>4. Detached'
    <3>1. \A r \in Threads : linked' \cap unlinked'[r] = {}  BY <1>a, <2>1, <2>2 DEF Detached
    <3> QED  BY <1>a, <2>1, <3>1 DEF Detached
  <2>5. UnlinkedHolders'
    <3> SUFFICES ASSUME NEW r \in Threads, NEW t \in Threads, NEW x \in unlinked'[r],
                        x \in held[t]
                 PROVE  announced_at[t] <= announced_at[r] + 2
      BY <2>1 DEF UnlinkedHolders
    <3>1. CASE x \in unlinked[r]  BY <1>a, <3>1 DEF UnlinkedHolders
    <3>2. CASE r = u
      <4>1. announced_at[t] <= gepoch /\ gepoch <= announced_at[u] + 2
        BY <1>b, <1>c, <2>1
      <4>2. announced_at[t] \in Nat /\ announced_at[u] \in Nat /\ gepoch \in Nat  BY <1>0
      <4> QED  BY <3>2, <4>1, <4>2
    <3> QED  BY <2>2, <3>1, <3>2
  <2>6. LimboHolders'  BY <1>a, <2>1 DEF LimboHolders
  <2>7. OnlyLateBlocksAtRisk'  BY <1>a, <2>1 DEF OnlyLateBlocksAtRisk
  <2>8. DoomedBags'  BY <1>a, <2>1 DEF DoomedBags
  <2> QED  BY <2>3, <2>4, <2>5, <2>6, <2>7, <2>8 DEF SafeInv
<1>9. ASSUME NEW u \in Threads, NEW b \in Blocks, NEW k \in Kinds, retire(u, b, k)
      PROVE SafeInv'
  <2>1. /\ pc[u] = "active" /\ b \in unlinked[u]
        /\ unlinked' = [unlinked EXCEPT ![u] = unlinked[u] \ {b}]
        /\ late \subseteq late'
        /\ b \notin late' => announced_at[u] = local_epoch[u]
        /\ UNCHANGED <<gepoch, pc, announced_at, local_epoch, linked, doomed, held, freed>>
    BY <1>9 DEF retire, Retired, announcement
  <2>2. /\ gepoch \in Nat /\ local_epoch[u] \in Nat /\ announced_at[u] \in Nat
        /\ limbo[u][k] \in Seq(Bag) /\ limbo[u] \in [Kinds -> Seq(Bag)]
    BY <1>0
  <2>3. local_epoch[u] <= gepoch
    <3>1. local_epoch[u] <= announced_at[u] /\ announced_at[u] <= gepoch  BY <1>c, <2>1
    <3> QED  BY <2>2, <3>1
  <2>4. b \notin linked  BY <1>a, <2>1 DEF Detached
  <2>5. \A r \in Threads, j \in Kinds, x \in Blocks, f \in Nat : InBag(limbo'[r][j], x, f) =>
          \/ InBag(limbo[r][j], x, f)
          \/ /\ r = u /\ f = local_epoch[u]
             /\ x = b \/ \E g \in Nat : InBag(limbo[r][j], x, g)
    BY <1>9, RetiredInBag DEF retire
  <2>6. HoldersActive'  BY <1>0, <1>a, <2>1 DEF HoldersActive, Busy
  <2>7. Detached'
    <3>1. \A r \in Threads : linked \cap unlinked'[r] = {}
      BY <1>0, <1>a, <2>1 DEF Detached
    <3>2. \A r \in Threads, j \in Kinds, x \in Blocks, f \in Nat :
            InBag(limbo'[r][j], x, f) => (x \notin linked \/ x \in doomed[r]) /\ f <= local_epoch[r] /\ f <= gepoch
      <4> SUFFICES ASSUME NEW r \in Threads, NEW j \in Kinds, NEW x \in Blocks, NEW f \in Nat,
                          InBag(limbo'[r][j], x, f)
                   PROVE  (x \notin linked \/ x \in doomed[r]) /\ f <= local_epoch[r] /\ f <= gepoch
        OBVIOUS
      <4>1. CASE InBag(limbo[r][j], x, f)  BY <1>a, <4>1 DEF Detached
      <4>2. CASE r = u /\ f = local_epoch[u] /\ (x = b \/ \E g \in Nat : InBag(limbo[r][j], x, g))
        <5>1. x \notin linked \/ x \in doomed[r]  BY <1>a, <2>4, <4>2 DEF Detached
        <5> QED  BY <2>2, <2>3, <4>2, <5>1
      <4> QED  BY <2>5, <4>1, <4>2
    <3> QED  BY <1>a, <2>1, <3>1, <3>2 DEF Detached
  <2>8. UnlinkedHolders'
    <3>1. \A r \in Threads : unlinked'[r] \subseteq unlinked[r]  BY <1>0, <2>1
    <3> QED  BY <1>a, <2>1, <3>1 DEF UnlinkedHolders
  <2>9. LimboHolders'
    <3> SUFFICES ASSUME NEW r \in Threads, NEW t \in Threads, NEW j \in Kinds,
                        NEW x \in Blocks, NEW f \in Nat,
                        InBag(limbo'[r][j], x, f), x \in held[t], x \notin late'
                 PROVE  announced_at[t] <= f + 2
      BY <2>1 DEF LimboHolders
    <3>0. x \notin late /\ announced_at[t] \in Nat  BY <1>0, <2>1
    <3>1. CASE InBag(limbo[r][j], x, f)  BY <1>a, <3>0, <3>1 DEF LimboHolders
    <3>2. CASE f = local_epoch[u] /\ x = b
      <4>1. announced_at[t] <= announced_at[u] + 2  BY <1>a, <2>1, <3>2 DEF UnlinkedHolders
      <4>2. announced_at[u] = local_epoch[u]  BY <2>1, <3>2
      <4> QED  BY <3>2, <4>1, <4>2
    <3>3. CASE r = u /\ f = local_epoch[u] /\ \E g \in Nat : InBag(limbo[r][j], x, g)
      <4>1. PICK g \in Nat : InBag(limbo[u][j], x, g)  BY <3>3
      <4>2. g <= local_epoch[u]  BY <1>a, <4>1 DEF Detached
      <4>3. announced_at[t] <= g + 2  BY <1>a, <3>0, <4>1 DEF LimboHolders
      <4> QED  BY <2>2, <3>0, <3>3, <4>2, <4>3
    <3> QED  BY <2>5, <3>1, <3>2, <3>3
  <2>11. DoomedBags'
    <3> SUFFICES ASSUME NEW r \in Threads, NEW j \in Kinds, NEW x \in Blocks, NEW f \in Nat,
                        InBag(limbo'[r][j], x, f), x \in doomed[r], x \notin late'
                 PROVE  announced_at[r] <= f
      BY <2>1 DEF DoomedBags
    <3>1. CASE InBag(limbo[r][j], x, f)  BY <1>a, <2>1, <3>1 DEF DoomedBags
    <3>2. CASE r = u /\ f = local_epoch[u] /\ x = b  BY <1>0, <2>1, <2>2, <3>2
    <3>3. CASE r = u /\ f = local_epoch[u] /\ \E g \in Nat : InBag(limbo[r][j], x, g)
      <4>1. PICK g \in Nat : InBag(limbo[u][j], x, g)  BY <3>3
      <4>2. g <= local_epoch[u]  BY <1>a, <4>1 DEF Detached
      <4>3. announced_at[u] <= g  BY <1>a, <2>1, <3>3, <4>1 DEF DoomedBags
      <4> QED  BY <2>2, <3>3, <4>2, <4>3
    <3> QED  BY <2>5, <3>1, <3>2, <3>3
  <2>10. OnlyLateBlocksAtRisk'  BY <1>a, <2>1 DEF OnlyLateBlocksAtRisk
  <2> QED  BY <2>6, <2>7, <2>8, <2>9, <2>10, <2>11 DEF SafeInv
<1>10. ASSUME NEW u \in Threads, NEW b \in Blocks, NEW k \in Kinds, RetireFirst(u, b, k)
      PROVE SafeInv'
  <2>1. /\ pc[u] = "active" /\ b \in linked /\ \A r \in Threads : b \notin doomed[r]
        /\ doomed' = [doomed EXCEPT ![u] = doomed[u] \cup {b}]
        /\ late \subseteq late'
        /\ b \notin late' => announced_at[u] = local_epoch[u]
        /\ UNCHANGED <<gepoch, pc, announced_at, local_epoch, linked, unlinked, held, freed>>
    BY <1>10 DEF RetireFirst, Retired, announcement
  <2>2. /\ gepoch \in Nat /\ local_epoch[u] \in Nat /\ announced_at[u] \in Nat
        /\ limbo[u][k] \in Seq(Bag) /\ limbo[u] \in [Kinds -> Seq(Bag)]
    BY <1>0
  <2>3. local_epoch[u] <= gepoch
    <3>1. local_epoch[u] <= announced_at[u] /\ announced_at[u] <= gepoch  BY <1>c, <2>1
    <3> QED  BY <2>2, <3>1
  <2>4. /\ b \in doomed'[u]
        /\ \A r \in Threads : doomed[r] \subseteq doomed'[r]
        /\ \A r \in Threads : \A x \in doomed'[r] : x \in doomed[r] \/ x = b
    BY <1>0, <2>1
  <2>b. \A r \in Threads, j \in Kinds, f \in Nat : ~ InBag(limbo[r][j], b, f)
    BY <1>a, <2>1 DEF Detached
  <2>5. \A r \in Threads, j \in Kinds, x \in Blocks, f \in Nat : InBag(limbo'[r][j], x, f) =>
          \/ InBag(limbo[r][j], x, f)
          \/ /\ r = u /\ f = local_epoch[u]
             /\ x = b \/ \E g \in Nat : InBag(limbo[r][j], x, g)
    BY <1>10, RetiredInBag DEF RetireFirst
  <2>6. HoldersActive'  BY <1>0, <1>a, <2>1 DEF HoldersActive, Busy
  <2>7. Detached'
    <3>2. \A r \in Threads, j \in Kinds, x \in Blocks, f \in Nat : InBag(limbo'[r][j], x, f) =>
            (x \notin linked \/ x \in doomed'[r]) /\ f <= local_epoch[r] /\ f <= gepoch
      <4> SUFFICES ASSUME NEW r \in Threads, NEW j \in Kinds, NEW x \in Blocks, NEW f \in Nat,
                          InBag(limbo'[r][j], x, f)
                   PROVE  (x \notin linked \/ x \in doomed'[r]) /\ f <= local_epoch[r] /\ f <= gepoch
        OBVIOUS
      <4>1. CASE InBag(limbo[r][j], x, f)  BY <1>a, <2>4, <4>1 DEF Detached
      <4>2. CASE r = u /\ f = local_epoch[u] /\ (x = b \/ \E g \in Nat : InBag(limbo[r][j], x, g))
        <5>1. x \notin linked \/ x \in doomed'[r]  BY <1>a, <2>4, <4>2 DEF Detached
        <5> QED  BY <2>2, <2>3, <4>2, <5>1
      <4> QED  BY <2>5, <4>1, <4>2
    <3> QED  BY <1>a, <2>1, <3>2 DEF Detached
  <2>8. UnlinkedHolders'  BY <1>a, <2>1 DEF UnlinkedHolders
  <2>9. LimboHolders'
    <3> SUFFICES ASSUME NEW r \in Threads, NEW t \in Threads, NEW j \in Kinds,
                        NEW x \in Blocks, NEW f \in Nat,
                        InBag(limbo'[r][j], x, f), x \in held[t], x \notin late'
                 PROVE  announced_at[t] <= f + 2
      BY <2>1 DEF LimboHolders
    <3>0. x \notin late /\ announced_at[t] \in Nat  BY <1>0, <2>1
    <3>1. CASE InBag(limbo[r][j], x, f)  BY <1>a, <3>0, <3>1 DEF LimboHolders
    <3>2. CASE f = local_epoch[u] /\ x = b
      <4>1. announced_at[t] <= gepoch /\ gepoch <= announced_at[u] + 2  BY <1>b, <1>c, <2>1
      <4>2. announced_at[u] = local_epoch[u]  BY <2>1, <3>2
      <4> QED  BY <2>2, <3>0, <3>2, <4>1, <4>2
    <3>3. CASE r = u /\ f = local_epoch[u] /\ \E g \in Nat : InBag(limbo[r][j], x, g)
      <4>1. PICK g \in Nat : InBag(limbo[u][j], x, g)  BY <3>3
      <4>2. g <= local_epoch[u]  BY <1>a, <4>1 DEF Detached
      <4>3. announced_at[t] <= g + 2  BY <1>a, <3>0, <4>1 DEF LimboHolders
      <4> QED  BY <2>2, <3>0, <3>3, <4>2, <4>3
    <3> QED  BY <2>5, <3>1, <3>2, <3>3
  <2>11. DoomedBags'
    <3> SUFFICES ASSUME NEW r \in Threads, NEW j \in Kinds, NEW x \in Blocks, NEW f \in Nat,
                        InBag(limbo'[r][j], x, f), x \in doomed'[r], x \notin late'
                 PROVE  announced_at[r] <= f
      BY <2>1 DEF DoomedBags
    <3>1. CASE InBag(limbo[r][j], x, f)  BY <1>a, <2>1, <2>4, <2>b, <3>1 DEF DoomedBags
    <3>2. CASE r = u /\ f = local_epoch[u] /\ x = b  BY <1>0, <2>1, <2>2, <3>2
    <3>3. CASE r = u /\ f = local_epoch[u] /\ \E g \in Nat : InBag(limbo[r][j], x, g)
      <4>1. PICK g \in Nat : InBag(limbo[u][j], x, g)  BY <3>3
      <4>2. g <= local_epoch[u]  BY <1>a, <4>1 DEF Detached
      <4>3. announced_at[u] <= g  BY <1>a, <2>1, <2>4, <2>b, <3>3, <4>1 DEF DoomedBags
      <4> QED  BY <2>2, <3>3, <4>2, <4>3
    <3> QED  BY <2>5, <3>1, <3>2, <3>3
  <2>10. OnlyLateBlocksAtRisk'  BY <1>a, <2>1 DEF OnlyLateBlocksAtRisk
  <2> QED  BY <2>6, <2>7, <2>8, <2>9, <2>10, <2>11 DEF SafeInv
<1>11. ASSUME NEW u \in Threads, NEW b \in Blocks, UnlinkLast(u, b) PROVE SafeInv'
  <2>1. /\ pc[u] = "active" /\ linked' = linked \ {b}
        /\ doomed' = [doomed EXCEPT ![u] = doomed[u] \ {b}]
        /\ UNCHANGED <<gepoch, pc, announced_at, local_epoch, limbo, unlinked, held, freed, late>>
    BY <1>11 DEF UnlinkLast, announcement, lists
  <2>2. /\ \A r \in Threads : doomed'[r] \subseteq doomed[r]
        /\ \A r \in Threads : \A x \in doomed[r] : x # b => x \in doomed'[r]
    BY <1>0, <2>1
  <2>3. HoldersActive'  BY <1>0, <1>a, <2>1 DEF HoldersActive, Busy
  <2>4. Detached'  BY <1>a, <2>1, <2>2 DEF Detached
  <2>5. DoomedBags'  BY <1>a, <2>1, <2>2 DEF DoomedBags
  <2>6. UnlinkedHolders'  BY <1>a, <2>1 DEF UnlinkedHolders
  <2>7. LimboHolders'  BY <1>a, <2>1 DEF LimboHolders
  <2>8. OnlyLateBlocksAtRisk'  BY <1>a, <2>1 DEF OnlyLateBlocksAtRisk
  <2> QED  BY <2>3, <2>4, <2>5, <2>6, <2>7, <2>8 DEF SafeInv
<1>12. ASSUME NEW u \in Threads, endop(u) PROVE SafeInv'
  <2>1. /\ pc[u] = "active" /\ unlinked[u] = {} /\ doomed[u] = {}
        /\ pc' = [pc EXCEPT ![u] = "idle"]
        /\ held' = [held EXCEPT ![u] = {}]
        /\ announced_at' = [announced_at EXCEPT ![u] = 0]
        /\ UNCHANGED <<gepoch, local_epoch, limbo, linked, unlinked, doomed, freed, late>>
    BY <1>12 DEF endop, Goto, lists
  <2>2. \A t \in Threads : t # u => held'[t] = held[t] /\ announced_at'[t] = announced_at[t]
    BY <1>0, <2>1
  <2>3. held'[u] = {} /\ unlinked'[u] = {} /\ doomed'[u] = {}  BY <1>0, <2>1
  <2>4. HoldersActive'  BY <1>0, <1>a, <2>1 DEF HoldersActive, Busy
  <2>5. Detached'  BY <1>a, <2>1 DEF Detached
  <2>6. UnlinkedHolders'
    <3> SUFFICES ASSUME NEW r \in Threads, NEW t \in Threads,
                        NEW x \in unlinked'[r], x \in held'[t]
                 PROVE  announced_at'[t] <= announced_at'[r] + 2
      BY DEF UnlinkedHolders
    <3>1. r # u /\ t # u  BY <2>3
    <3> QED  BY <1>a, <2>1, <2>2, <3>1 DEF UnlinkedHolders
  <2>7. LimboHolders'
    <3> SUFFICES ASSUME NEW r \in Threads, NEW t \in Threads, NEW j \in Kinds,
                        NEW x \in Blocks, NEW f \in Nat,
                        InBag(limbo[r][j], x, f), x \in held'[t], x \notin late
                 PROVE  announced_at'[t] <= f + 2
      BY <2>1 DEF LimboHolders
    <3>1. t # u  BY <2>3
    <3> QED  BY <1>a, <2>2, <3>1 DEF LimboHolders
  <2>9. DoomedBags'
    <3> SUFFICES ASSUME NEW r \in Threads, NEW j \in Kinds, NEW x \in Blocks, NEW f \in Nat,
                        InBag(limbo[r][j], x, f), x \in doomed'[r], x \notin late
                 PROVE  announced_at'[r] <= f
      BY <2>1 DEF DoomedBags
    <3>1. r # u  BY <2>3
    <3> QED  BY <1>a, <2>1, <2>2, <3>1 DEF DoomedBags
  <2>8. OnlyLateBlocksAtRisk'  BY <1>0, <1>a, <2>1 DEF OnlyLateBlocksAtRisk
  <2> QED  BY <2>4, <2>5, <2>6, <2>7, <2>8, <2>9 DEF SafeInv
<1> QED  BY <1>1, <1>2, <1>3, <1>4, <1>5, <1>6, <1>7, <1>8, <1>9, <1>12, <1>10, <1>11
         DEF Next, Startop, Client
-----------------------------------------------------------------------------
(* The order of the bags *)

\* From head to tail no bag is older than the one before it, and none is newer
\* than e.
Ordered(bags, e) == \A i \in 1 .. Len(bags) : /\ bags[i].epoch <= e
                                              /\ i > 1 => bags[i - 1].epoch <= bags[i].epoch

\* A block is added to a bag of the current epoch, at the end.
LEMMA AddOrdered ==
  ASSUME NEW bags \in Seq(Bag), NEW b \in Blocks, NEW e \in Nat, Ordered(bags, e)
  PROVE  Ordered(add(bags, b, e), e)
<1> DEFINE n == Len(bags)
<1>0. \A i \in 1 .. n : bags[i] \in Bag /\ bags[i].epoch \in Nat  BY BagParts
<1>1. CASE n = 0 \/ Len(bags[n].blocks) = kBagSize
  <2>1. add(bags, b, e) = Append(bags, [epoch |-> e, blocks |-> <<b>>])
    BY <1>1 DEF add, new_bag
  <2>2. /\ Len(add(bags, b, e)) = n + 1
        /\ add(bags, b, e)[n + 1].epoch = e
        /\ \A i \in 1 .. n : add(bags, b, e)[i] = bags[i]
    BY <2>1
  <2> SUFFICES ASSUME NEW i \in 1 .. Len(add(bags, b, e))
               PROVE  /\ add(bags, b, e)[i].epoch <= e
                      /\ i > 1 => add(bags, b, e)[i - 1].epoch <= add(bags, b, e)[i].epoch
    BY DEF Ordered
  <2>3. n \in Nat /\ i \in 1 .. n + 1  BY <2>2
  <2>4. CASE i = n + 1  BY <1>0, <2>2, <2>3, <2>4 DEF Ordered
  <2>5. CASE i # n + 1
    <3>1. i \in 1 .. n /\ (i > 1 => i - 1 \in 1 .. n)  BY <2>3, <2>5
    <3> QED  BY <1>0, <2>2, <3>1 DEF Ordered
  <2> QED  BY <2>4, <2>5
<1>2. CASE ~ (n = 0 \/ Len(bags[n].blocks) = kBagSize)
  <2>1. add(bags, b, e) = [bags EXCEPT ![n] = [epoch |-> e, blocks |-> Append(bags[n].blocks, b)]]
    BY <1>2 DEF add, bag_epoch
  <2>2. /\ Len(add(bags, b, e)) = n /\ n \in 1 .. n
        /\ add(bags, b, e)[n].epoch = e
        /\ \A i \in 1 .. n : i # n => add(bags, b, e)[i] = bags[i]
    BY <1>2, <2>1
  <2> SUFFICES ASSUME NEW i \in 1 .. Len(add(bags, b, e))
               PROVE  /\ add(bags, b, e)[i].epoch <= e
                      /\ i > 1 => add(bags, b, e)[i - 1].epoch <= add(bags, b, e)[i].epoch
    BY DEF Ordered
  <2>3. n \in Nat /\ i \in 1 .. n /\ (i > 1 => i - 1 \in 1 .. n /\ i - 1 # n)  BY <2>2
  <2>4. CASE i = n  BY <1>0, <2>2, <2>3, <2>4 DEF Ordered
  <2>5. CASE i # n  BY <1>0, <2>2, <2>3, <2>5 DEF Ordered
  <2> QED  BY <2>4, <2>5
<1> QED  BY <1>1, <1>2

\* What is left when bags in front are freed is in order.
LEMMA RemainingOrdered ==
  ASSUME NEW bags \in Seq(Bag), Len(bags) > 1, NEW m \in Nat, NEW e \in Nat, Ordered(bags, e)
  PROVE  Ordered(remaining(bags, m), e)
<1>0. \A i \in 1 .. Len(bags) : bags[i] \in Bag /\ bags[i].epoch \in Nat  BY BagParts
<1>1. CASE m >= Len(bags[1].blocks)
  <2>1. remaining(bags, m) = Tail(bags)  BY <1>1 DEF remaining
  <2>2. /\ Len(remaining(bags, m)) = Len(bags) - 1
        /\ \A i \in 1 .. Len(bags) - 1 : remaining(bags, m)[i] = bags[i + 1]
    BY <2>1
  <2> SUFFICES ASSUME NEW i \in 1 .. Len(remaining(bags, m))
               PROVE  /\ remaining(bags, m)[i].epoch <= e
                      /\ i > 1 => remaining(bags, m)[i - 1].epoch <= remaining(bags, m)[i].epoch
    BY DEF Ordered
  <2>3. i + 1 \in 1 .. Len(bags) /\ i \in 1 .. Len(bags) - 1 /\ (i > 1 => i - 1 \in 1 .. Len(bags) - 1)
    BY <2>2
  <2>4. /\ bags[i + 1].epoch <= e
        /\ bags[(i + 1) - 1].epoch <= bags[i + 1].epoch
    BY <2>3 DEF Ordered
  <2>5. (i + 1) - 1 = i /\ (i - 1) + 1 = i  BY <2>3
  <2> QED  BY <2>2, <2>3, <2>4, <2>5
<1>2. CASE ~ (m >= Len(bags[1].blocks))
  <2>1. /\ Len(remaining(bags, m)) = Len(bags)
        /\ \A i \in 1 .. Len(bags) : remaining(bags, m)[i].epoch = bags[i].epoch
    BY <1>2 DEF remaining
  <2> SUFFICES ASSUME NEW i \in 1 .. Len(remaining(bags, m))
               PROVE  /\ remaining(bags, m)[i].epoch <= e
                      /\ i > 1 => remaining(bags, m)[i - 1].epoch <= remaining(bags, m)[i].epoch
    BY DEF Ordered
  <2>2. i \in 1 .. Len(bags) /\ (i > 1 => i - 1 \in 1 .. Len(bags))  BY <2>1
  <2> QED  BY <2>1, <2>2 DEF Ordered
<1> QED  BY <1>1, <1>2

\* Every list is in order up to the epoch of its thread and the global one.
OrderInv == \A t \in Threads, k \in Kinds : Ordered(limbo[t][k], local_epoch[t]) /\ Ordered(limbo[t][k], gepoch)

\* At first the bags are empty.
LEMMA OrderInit == Init => OrderInv
BY DEF Init, OrderInv, Ordered

\* The bounds may grow, and a thread may take over the global one.
LEMMA OrderFrame ==
  ASSUME TypeOK, TypeOK', OrderInv, UNCHANGED limbo, gepoch <= gepoch',
         \A t \in Threads : local_epoch'[t] = local_epoch[t] \/ local_epoch'[t] = gepoch'
  PROVE  OrderInv'
<1> SUFFICES ASSUME NEW t \in Threads, NEW k \in Kinds
             PROVE  Ordered(limbo[t][k], local_epoch'[t]) /\ Ordered(limbo[t][k], gepoch')
  BY DEF OrderInv
<1>1. gepoch \in Nat /\ gepoch' \in Nat /\ limbo[t][k] \in Seq(Bag)  BY DEF TypeOK
<1>2. \A i \in 1 .. Len(limbo[t][k]) : limbo[t][k][i] \in Bag /\ limbo[t][k][i].epoch \in Nat
  BY <1>1, BagParts
<1>3. Ordered(limbo[t][k], gepoch')  BY <1>1, <1>2 DEF OrderInv, Ordered
<1> QED  BY <1>3 DEF OrderInv

\* A retire at the epoch of an active thread.
LEMMA OrderRetired ==
  ASSUME TypeOK, PinInv, OrderInv, NEW u \in Threads, pc[u] = "active", NEW b \in Blocks, NEW k \in Kinds,
         Retired(u, b, k), UNCHANGED <<gepoch, local_epoch>>
  PROVE  OrderInv'
<1>1. /\ limbo \in [Threads -> [Kinds -> Seq(Bag)]] /\ limbo[u] \in [Kinds -> Seq(Bag)]
      /\ limbo[u][k] \in Seq(Bag) /\ local_epoch[u] \in Nat /\ gepoch \in Nat
      /\ limbo' = [limbo EXCEPT ![u] = [limbo[u] EXCEPT ![k] = add(limbo[u][k], b, local_epoch[u])]]
  BY DEF TypeOK, Retired
<1>2. local_epoch[u] <= gepoch  BY DEF PinInv
<1>3. Ordered(add(limbo[u][k], b, local_epoch[u]), local_epoch[u])  BY <1>1, AddOrdered DEF OrderInv
<1>4. add(limbo[u][k], b, local_epoch[u]) \in Seq(Bag)  BY <1>1, AddType
<1>5. \A i \in 1 .. Len(add(limbo[u][k], b, local_epoch[u])) :
        /\ add(limbo[u][k], b, local_epoch[u])[i] \in Bag
        /\ add(limbo[u][k], b, local_epoch[u])[i].epoch \in Nat
  BY <1>4, BagParts
<1>6. Ordered(add(limbo[u][k], b, local_epoch[u]), gepoch)
  <2> DEFINE out == add(limbo[u][k], b, local_epoch[u])
  <2> HIDE DEF out
  <2>1. Ordered(out, local_epoch[u])  BY <1>3 DEF out
  <2>2. \A i \in 1 .. Len(out) : out[i].epoch \in Nat  BY <1>5 DEF out
  <2>3. Ordered(out, gepoch)  BY <1>1, <1>2, <2>1, <2>2 DEF Ordered
  <2> QED  BY <2>3 DEF out
<1> SUFFICES ASSUME NEW r \in Threads, NEW j \in Kinds
             PROVE  Ordered(limbo'[r][j], local_epoch[r]) /\ Ordered(limbo'[r][j], gepoch)
  BY DEF OrderInv
<1>7. CASE r = u /\ j = k
  <2>1. limbo'[r][j] = add(limbo[u][k], b, local_epoch[u])  BY <1>1, <1>7
  <2> QED  BY <1>3, <1>6, <1>7, <2>1
<1>8. CASE ~ (r = u /\ j = k)
  <2>1. limbo'[r][j] = limbo[r][j]  BY <1>1, <1>8
  <2> QED  BY <2>1 DEF OrderInv
<1> QED  BY <1>7, <1>8

\* Every step keeps the bags in order.
LEMMA OrderStep == TypeOK /\ TypeOK' /\ PinInv /\ OrderInv /\ [Next]_vars => OrderInv'
<1> SUFFICES ASSUME TypeOK, TypeOK', PinInv, OrderInv, [Next]_vars PROVE OrderInv'  OBVIOUS
<1>0. /\ gepoch \in Nat /\ local_epoch \in [Threads -> Nat] /\ pc \in [Threads -> PCs]
      /\ limbo \in [Threads -> [Kinds -> Seq(Bag)]]
  BY DEF TypeOK
<1>1. ASSUME NEW u \in Threads, Start(u) PROVE OrderInv'
  <2>1. /\ gepoch' = gepoch /\ UNCHANGED limbo
        /\ local_epoch' = [local_epoch EXCEPT ![u] = gepoch]
    BY <1>1 DEF Start
  <2> QED  BY <1>0, <2>1, OrderFrame
<1>2. ASSUME NEW u \in Threads,
             \/ Register(u) \/ Announce(u) \/ Scan(u) \/ EndCheck(u) \/ Advance(u) \/ endop(u)
             \/ \E b \in Blocks : Reach(u, b) \/ Unlink(u, b) \/ UnlinkLast(u, b)
      PROVE OrderInv'
  <2>1. /\ gepoch' = gepoch \/ gepoch' = gepoch + 2
        /\ UNCHANGED <<limbo, local_epoch>>
    BY <1>2 DEF Register, Announce, Scan, EndCheck, Advance, endop, Reach, Unlink, UnlinkLast, lists
  <2>2. gepoch <= gepoch'  BY <1>0, <2>1
  <2> QED  BY <2>1, <2>2, OrderFrame
<1>3. CASE UNCHANGED vars
  <2>1. UNCHANGED <<gepoch, limbo, local_epoch>>  BY <1>3 DEF vars, lists
  <2>2. gepoch <= gepoch'  BY <1>0, <2>1
  <2> QED  BY <2>1, <2>2, OrderFrame
<1>4. ASSUME NEW u \in Threads, NEW b \in Blocks, NEW k \in Kinds,
             retire(u, b, k) \/ RetireFirst(u, b, k)
      PROVE OrderInv'
  BY <1>4, OrderRetired DEF retire, RetireFirst
<1>5. ASSUME NEW u \in Threads, NEW m \in 1 .. kBagSize, Reclaim(u, m) PROVE OrderInv'
  <2> DEFINE can(k) == can_free(limbo[u][k], token[u][k], local_epoch[u])
  <2>1. /\ limbo' = [limbo EXCEPT ![u] =
              [k \in Kinds |-> IF can(k) THEN remaining(limbo[u][k], m) ELSE limbo[u][k]]]
        /\ UNCHANGED <<gepoch, local_epoch>>
    BY <1>5 DEF Reclaim
  <2>2. \A k \in Kinds : can(k) => Len(limbo[u][k]) > 1  BY DEF can_free
  <2>3. m \in Nat  BY EpochAssumption
  <2> HIDE DEF can
  <2> SUFFICES ASSUME NEW r \in Threads, NEW k \in Kinds
               PROVE  Ordered(limbo'[r][k], local_epoch[r]) /\ Ordered(limbo'[r][k], gepoch)
    BY <2>1 DEF OrderInv
  <2>4. CASE r = u /\ can(k)
    <3>1. limbo'[r][k] = remaining(limbo[u][k], m)  BY <1>0, <2>1, <2>4
    <3>2. limbo[u][k] \in Seq(Bag) /\ local_epoch[u] \in Nat  BY <1>0
    <3> QED  BY <1>0, <2>2, <2>3, <2>4, <3>1, <3>2, RemainingOrdered DEF OrderInv
  <2>5. CASE ~ (r = u /\ can(k))
    <3>1. limbo'[r][k] = limbo[r][k]  BY <1>0, <2>1, <2>5
    <3> QED  BY <3>1 DEF OrderInv
  <2> QED  BY <2>4, <2>5
<1> QED  BY <1>1, <1>2, <1>3, <1>4, <1>5 DEF Next, Startop, Client
-----------------------------------------------------------------------------
\* The fields of every LimboList and the global epoch keep their types, and
\* checked_it never passes the end of limbo_lists_.
THEOREM EpochTypeOK == Spec => []TypeOK
BY TypeInit, TypeStep, PTL DEF Spec

\* A guarded thread holds the global epoch within one increment of where it
\* was at its announcement, for any number of threads looking round.
THEOREM PinnedEpoch == Spec => []ActiveThreadPinsEpoch
<1>1. TypeOK /\ PinInv => ActiveThreadPinsEpoch
  <2> SUFFICES ASSUME TypeOK, PinInv, NEW t \in Threads, Active(t)
               PROVE  gepoch <= announced_at[t] + 2
    BY DEF ActiveThreadPinsEpoch
  <2>1. Guarded(t)  BY DEF PinInv, Active, is_quiescent
  <2> QED  BY <2>1 DEF PinInv
<1> QED  BY TypeInit, TypeStep, PinInit, PinStep, <1>1, PTL DEF Spec

\* Waiting for more than two epochs protects every block whose retiring
\* thread announced the epoch that was global at that moment.
THEOREM ReclaimSafeUnlessLate == Spec => []OnlyLateBlocksAtRisk
<1>1. SafeInv => OnlyLateBlocksAtRisk  BY DEF SafeInv
<1> QED  BY TypeInit, TypeStep, PinInit, PinStep, SafeInit, SafeStep, <1>1, PTL DEF Spec

\* From head to tail the bags of a thread are in epoch order, so that free may
\* look at the head alone, however retires and frees alternate.
THEOREM BagsAreOrdered == Spec => []BagsInEpochOrder
<1>1. TypeOK /\ OrderInv => BagsInEpochOrder
  <2> SUFFICES ASSUME TypeOK, OrderInv, NEW t \in Threads, NEW k \in Kinds, NEW i \in DOMAIN limbo[t][k]
               PROVE  /\ limbo[t][k][i].epoch <= local_epoch[t]
                      /\ i > 1 => limbo[t][k][i - 1].epoch <= limbo[t][k][i].epoch
    BY DEF BagsInEpochOrder
  <2>1. limbo[t][k] \in Seq(Bag)  BY DEF TypeOK
  <2>2. i \in 1 .. Len(limbo[t][k])  BY <2>1
  <2> QED  BY <2>2 DEF OrderInv, Ordered
<1> QED  BY TypeInit, TypeStep, PinInit, PinStep, OrderInit, OrderStep, <1>1, PTL DEF Spec
=============================================================================
