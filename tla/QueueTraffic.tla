---------------------------- MODULE QueueTraffic ----------------------------
(***************************************************************************)
(* A producer and a consumer of one queue: main_thread_loop pushes, an io  *)
(* thread (or work_thread_get_a_step) pops.  The producer numbers what it  *)
(* pushes 1, 2, 3, ..., so that the order of delivery, duplicates and      *)
(* losses can be read off the numbers.  Every call holds lock_ throughout, *)
(* so calls are atomic and their interleaving is all there is to explore.  *)
(***************************************************************************)
EXTENDS MsgQueue

CONSTANT MaxPush    \* how many messages the producer pushes (bound)

ASSUME MaxPushAssumption == MaxPush \in Nat

ASSUME TicketAssumption == NULL \notin Nat

VARIABLES
  pushed,   \* number of the latest message pushed
  last,     \* number of the latest message popped
  got,      \* result of the latest lock_queue_pop
  leftOver  \* history: some list has been emptied with its tail left over

vars == <<qvars, pushed, last, got, leftOver>>

Ticket == 1 .. MaxPush

Init ==
  /\ QueueInit
  /\ pushed = 0
  /\ last = 0
  /\ got = NULL
  /\ leftOver = FALSE

NoteLeftOver ==
  leftOver' = (leftOver \/ LeftOverTail(queue') \/ LeftOverTail(tmp_queue'))

lock_queue_push ==
  /\ pushed < MaxPush
  /\ queue_push(pushed + 1)
  /\ pushed' = pushed + 1
  /\ NoteLeftOver
  /\ UNCHANGED <<last, got>>

lock_queue_pop ==
  \E m \in Ticket \cup {NULL} :
    /\ queue_pop(m)
    /\ got' = m
    /\ last' = IF m = NULL THEN last ELSE m
    /\ NoteLeftOver
    /\ UNCHANGED pushed

Next == lock_queue_push \/ lock_queue_pop

Spec == Init /\ [][Next]_vars

-----------------------------------------------------------------------------

TypeOK ==
  /\ QueueTypeOK(Ticket)
  /\ pushed \in 0 .. MaxPush
  /\ last \in 0 .. MaxPush
  /\ got \in Ticket \cup {NULL}
  /\ leftOver \in BOOLEAN

\* The message list holds what was pushed and not popped, oldest first.
AllQueued ==
  \E cells \in [1 .. pushed - last -> Cell] :
    /\ IsChain(next, queue.head, cells)
    /\ \A i \in DOMAIN cells : data[cells[i]] = last + i

\* UniqueOwner and OwnedIsAllocated of MsgQueue: whatever sequence of pushes
\* and pops leaves tails behind, the two lists of queue.c stay disjoint,
\* loop-free and inside allocated memory.
ListsIntact == UniqueOwner /\ OwnedIsAllocated

\* queue_pop delivers in the order of queue_push and never delivers a
\* message twice: what it returns is younger than all it returned before.
InOrder == [][lock_queue_pop /\ got' # NULL => got' > last]_vars

\* Until one of the two lists has been emptied with a tail left over, the
\* queue loses nothing: what was pushed and not yet popped is in the list,
\* message by message and in order, and nothing else is.
NothingLostBeforeLeftOver == ~leftOver => AllQueued

\* lock_queue_push asserts that no NULL message enters the queue
\* (queue.c:158), and its users take a NULL from lock_queue_pop to mean that
\* the queue is empty: every cell in the message list carries a message.
NoNullQueued ==
  \A i \in 1 .. Cardinality(Cell) :
    LET c == Trail(next, queue.head)[i] IN c # NULL => data[c] # NULL

\* The queue implements LossyFifo: an exact FIFO queue until a tail is left
\* over, an ordered, at-most-once but lossy one from then on.
Fifo == INSTANCE LossyFifo WITH
          Message <- Ticket, None <- NULL,
          pending <- Contents, result <- got, lossy <- leftOver

ImplementsLossyFifo == Fifo!Spec

=============================================================================
