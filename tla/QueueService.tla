---------------------------- MODULE QueueService ----------------------------
(***************************************************************************)
(* The queue of src/src/queue.c with calls of one step each, for as long   *)
(* as the program runs: what LockedQueue, whose calls are made of steps,   *)
(* implements.                                                             *)
(***************************************************************************)
EXTENDS MsgQueue

CONSTANT Message    \* the nodes that are pushed

VARIABLE got        \* what the latest lock_queue_pop returned

vars == <<qvars, got>>

Init == QueueInit /\ got = NULL

lock_queue_push ==
  /\ \E m \in Message : queue_push(m)
  /\ UNCHANGED got

lock_queue_pop ==
  \E m \in Message \cup {NULL} :
    /\ queue_pop(m)
    /\ got' = m

Next == lock_queue_push \/ lock_queue_pop

Spec == Init /\ [][Next]_vars

=============================================================================
