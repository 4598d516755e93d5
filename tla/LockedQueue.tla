---------------------------- MODULE LockedQueue -----------------------------
(***************************************************************************)
(* One queue used by several threads: Lock, the two halves of queue_push   *)
(* and of queue_pop, and UnLock are steps of their own.  Producers call    *)
(* lock_queue_push (or global_queue_push), consumers are threads inside    *)
(* work_thread_get_step, which calls lock_queue_pop until it has a         *)
(* message.  QueueTraffic and QueueService take each locked call for one   *)
(* atomic step; this module shows that they may.  The program runs for     *)
(* ever: a message that has been used, or that a left-over tail has lost,  *)
(* may be pushed again.                                                    *)
(***************************************************************************)
EXTENDS MsgQueue

CONSTANTS
  Producer, Consumer,   \* threads
  Message               \* the nodes that are pushed

ASSUME LockedAssumption ==
  /\ Producer \cap Consumer = {} /\ NULL \notin Producer \cup Consumer
  /\ Message # {} /\ NULL \notin Message

VARIABLES
  lock_,      \* the thread that holds the mutex
  pc,         \* where each thread is
  p,          \* the local pointer of make_queue_node's or queue_pop's caller
  ret,        \* what the latest lock_queue_pop of each consumer returned
  done        \* the queue, and what was got, when the latest call took effect

threadVars == <<lock_, pc, p, ret>>
vars == <<qvars, threadVars, done>>

Thread == Producer \cup Consumer

\* The messages that are neither queued nor in a consumer's hands.
Fresh == Message \ ({Contents[i] : i \in DOMAIN Contents} \cup {ret[t] : t \in Consumer})
\* There is a cell to be had (bound).
Room == tmp_queue.head # NULL \/ Kept # Cell

\* What done records.
Snapshot(q, t, nx, d, h) == [queue |-> q, tmp_queue |-> t, next |-> nx, data |-> d, heap |-> h]

Init ==
  /\ QueueInit
  /\ lock_ = NULL
  /\ pc = [t \in Thread |-> "idle"]
  /\ p = [t \in Thread |-> NULL]
  /\ ret = [t \in Consumer |-> NULL]
  /\ done = [mem |-> Snapshot(queue, tmp_queue, next, data, heap), got |-> NULL]

Goto(t, step) == pc' = [pc EXCEPT ![t] = step]

\* The call takes effect here: message m (NULL for none) is delivered.
Effect(delivered, m) ==
  done' = [mem |-> Snapshot(queue', tmp_queue', next', data', heap'),
           got |-> IF delivered THEN m ELSE done.got]

\* Mutant of Lock: it does not wait.
LockNot(t) ==
  /\ pc[t] = "idle"
  /\ t \in Producer => Fresh # {} /\ Room
  /\ lock_' = t
  /\ Goto(t, "locked")
  /\ UNCHANGED <<qvars, p, ret, done>>

Lock(t) ==
  /\ pc[t] = "idle" /\ lock_ = NULL
  /\ t \in Producer => Fresh # {} /\ Room
  /\ lock_' = t
  /\ Goto(t, "locked")
  /\ UNCHANGED <<qvars, p, ret, done>>

UnLock(t) ==
  /\ pc[t] = "unlock"
  /\ lock_' = NULL
  /\ Goto(t, "idle")
  /\ p' = [p EXCEPT ![t] = NULL]
  /\ UNCHANGED <<qvars, ret, done>>

-----------------------------------------------------------------------------
(* queue_push in two steps: a cell is had, then it is linked. *)

make_queue_node(t) ==
  /\ t \in Producer /\ pc[t] = "locked"
  /\ IF tmp_queue.head # NULL
     THEN /\ p' = [p EXCEPT ![t] = tmp_queue.head]
          /\ tmp_queue' = [tmp_queue EXCEPT !.head = next[tmp_queue.head],
                                            !.size = Decrement(@)]
          /\ next' = [next EXCEPT ![tmp_queue.head] = NULL]
          /\ UNCHANGED <<data, heap>>
     ELSE \E c \in Cell \ Kept :
            /\ p' = [p EXCEPT ![t] = c]
            /\ heap' = Kept \cup {c}
            /\ next' = [next EXCEPT ![c] = NULL]
            /\ data' = [data EXCEPT ![c] = NULL]
            /\ UNCHANGED tmp_queue
  /\ Goto(t, "link")
  /\ UNCHANGED <<queue, lock_, ret, done>>

link(t) ==
  /\ t \in Producer /\ pc[t] = "link"
  /\ queue' = LinkCell(queue, p[t])
  /\ next' = LinkNext(queue, next, p[t])
  /\ \E m \in Fresh : data' = [data EXCEPT ![p[t]] = m]
  /\ UNCHANGED <<tmp_queue, heap>>
  /\ Effect(FALSE, NULL)
  /\ Goto(t, "unlock")
  /\ UNCHANGED <<lock_, p, ret>>

-----------------------------------------------------------------------------
(* queue_pop in two steps: the cell is unlinked, then given back. *)

\* An empty queue ends the call.
unlink(t) ==
  /\ t \in Consumer /\ pc[t] = "locked"
  /\ IF queue.head = NULL
     THEN /\ UNCHANGED <<qvars, p>>
          /\ ret' = [ret EXCEPT ![t] = NULL]
          /\ Effect(TRUE, NULL)
          /\ Goto(t, "unlock")
     ELSE /\ p' = [p EXCEPT ![t] = queue.head]
          /\ queue' = [queue EXCEPT !.head = next[queue.head]]
          /\ Goto(t, "release")
          /\ UNCHANGED <<tmp_queue, next, data, heap, ret, done>>
  /\ UNCHANGED lock_

release_queue_node(t) ==
  /\ t \in Consumer /\ pc[t] = "release"
  /\ IF tmp_queue.size > MAX_BUF_Q
     THEN heap' = heap \ {p[t]} /\ UNCHANGED <<tmp_queue, next, data>>
     ELSE /\ tmp_queue' = [LinkCell(tmp_queue, p[t]) EXCEPT !.size = @ + 1]
          /\ next' = LinkNext(tmp_queue, [next EXCEPT ![p[t]] = NULL], p[t])
          /\ data' = [data EXCEPT ![p[t]] = NULL]
          /\ UNCHANGED heap
  /\ ret' = [ret EXCEPT ![t] = data[p[t]]]
  /\ UNCHANGED queue
  /\ Effect(TRUE, data[p[t]])
  /\ Goto(t, "unlock")
  /\ UNCHANGED <<lock_, p>>

Step(t) == make_queue_node(t) \/ link(t) \/ unlink(t) \/ release_queue_node(t) \/ UnLock(t)

Next == \E t \in Thread : Lock(t) \/ Step(t)

Spec == Init /\ [][Next]_vars

\* A thread that holds the mutex goes on, and a free mutex is granted to one of
\* those that want it.  Which one is nobody's promise: a default pthread mutex
\* may leave a thread waiting for as long as others come back for it.
FairSpec ==
  Spec /\ WF_vars(\E t \in Thread : Lock(t)) /\ \A t \in Thread : WF_vars(Step(t))

-----------------------------------------------------------------------------

\* Every locked call is atomic for the others: seen through `done`, which
\* changes when a call takes effect, threads in any number do what the two of
\* QueueService do.
Atomic == INSTANCE QueueService WITH
  queue <- done.mem.queue, tmp_queue <- done.mem.tmp_queue, next <- done.mem.next,
  data <- done.mem.data, heap <- done.mem.heap, got <- done.got

ImplementsAtomicCalls == Atomic!Spec

\* The queue may lose messages but never seizes up: in whatever order the mutex
\* is granted, as long as pushes and pops both go on, the pops go on returning
\* messages, even when tails are left over, recycled cells have strayed into
\* the message list and the free list's counter has wrapped.
KeepsDelivering ==
  /\ []<>(\E t \in Producer : pc[t] = "link")
  /\ []<>(\E t \in Consumer : pc[t] = "unlock")
  => []<>(\E t \in Consumer : pc[t] = "unlock" /\ ret[t] # NULL)

=============================================================================
