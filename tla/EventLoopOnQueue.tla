-------------------------- MODULE EventLoopOnQueue --------------------------
(***************************************************************************)
(* The event loop of src/src/loop.c on the queue of src/src/queue.c: the   *)
(* threads of LoopThreads with the msg_q_ of MsgQueue, pointers and all.   *)
(* It implements EventLoop, where msg_q_ is only known by its promises.    *)
(***************************************************************************)
EXTENDS LoopThreads, MsgQueue, TLC

\* malloc has an address to give.
ASSUME HeapAssumption == Cell # {}

VARIABLE leftOver   \* history: some list has been emptied with its tail left over

vars == <<threadVars, qvars, leftOver>>

QueueLoopInit == Init /\ QueueInit /\ leftOver = FALSE

NoteLeftOver ==
  leftOver' = (leftOver \/ LeftOverTail(queue') \/ LeftOverTail(tmp_queue'))

Push ==
  /\ \E n \in AnyNode : main_push(n) /\ queue_push(n)
  /\ NoteLeftOver

Pop ==
  /\ \E m \in AnyNode \cup {NULL} : io_pop(m) /\ queue_pop(m)
  /\ NoteLeftOver

QueueLoopNext ==
  \/ Push
  \/ Pop
  \/ (MainStep \/ IoStep \/ Client) /\ UNCHANGED <<qvars, leftOver>>

QueueLoopSpec == QueueLoopInit /\ [][QueueLoopNext]_vars

-----------------------------------------------------------------------------

\* A queue of queue.c is as good for the event loop as LossyFifo: everything
\* the loop does on it, it may do according to EventLoop, so that EventLoop's
\* safety properties hold of the real queue.
Abstract == INSTANCE EventLoop WITH
              QLEN <- Cardinality(Cell), pending <- Contents, lossy <- leftOver

ImplementsEventLoop == Abstract!LoopSpec

\* For TLC: connections, nodes and cells are interchangeable.
Symmetry == Permutations(Conn) \cup Permutations(Node) \cup Permutations(Cell)

=============================================================================
