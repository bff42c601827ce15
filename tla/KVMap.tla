-------------------------------- MODULE KVMap --------------------------------
(***************************************************************************)
(* What the index promises: a set of keys on which every operation takes   *)
(* effect, and gets its answer, at one moment between its call and its     *)
(* return.  Values are left out; an upsert of a key that is there answers  *)
(* TRUE, for the old pair it returns.                                      *)
(***************************************************************************)
CONSTANTS Keys, Threads

VARIABLES content,   \* the keys in the map
          call       \* the operation in progress of each thread

vars == <<content, call>>

Operations == {"upsert", "remove", "lookup"}
NoCall == [op |-> "none", key |-> 0, done |-> FALSE, ret |-> FALSE]

Init == content = {} /\ call = [t \in Threads |-> NoCall]

Call(t) == /\ call[t] = NoCall
           /\ call'[t] \in [op : Operations, key : Keys, done : {FALSE}, ret : {FALSE}]
           /\ call' = [call EXCEPT ![t] = call'[t]]
           /\ UNCHANGED content

\* The operation takes effect: ret tells whether the key was there.
Act(t) == /\ call[t].op \in Operations /\ ~ call[t].done
          /\ call' = [call EXCEPT ![t].done = TRUE, ![t].ret = call[t].key \in content]
          /\ content' = CASE call[t].op = "upsert" -> content \cup {call[t].key}
                          [] call[t].op = "remove" -> content \ {call[t].key}
                          [] OTHER -> content

Return(t) == /\ call[t].done
             /\ call' = [call EXCEPT ![t] = NoCall]
             /\ UNCHANGED content

Next == \E t \in Threads : Call(t) \/ Act(t) \/ Return(t)

Spec == Init /\ [][Next]_vars
=============================================================================
