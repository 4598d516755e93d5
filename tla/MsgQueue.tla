------------------------------ MODULE MsgQueue ------------------------------
(***************************************************************************)
(* The linked queue of src/src/queue.c, pointer by pointer.                *)
(*                                                                         *)
(* A queue is two singly linked lists of queue_node cells: the messages    *)
(* (struct queue_) and, hanging off tmp_queue_, the cells waiting to be    *)
(* reused.  Both lists are built by the same three-way linking code, which *)
(* appends behind `tail` and never looks at whether `tail` is still in the *)
(* list; no operation ever resets `tail`.  The memory is modelled cell by  *)
(* cell so that what those left-over tails do can be seen.                 *)
(*                                                                         *)
(* The operations are actions over the variables below; each is executed   *)
(* whole under lock_ (lock_queue_push, lock_queue_pop).  The modules that  *)
(* instantiate this one supply the threads that call them.                 *)
(***************************************************************************)
EXTENDS Comm, Integers, FiniteSets, Sequences

CONSTANTS
  Cell,       \* addresses malloc can return for a queue_node (bounds the heap)
  MAX_BUF_Q,  \* comm.h:40, free-list size above which a cell is freed
  INT_MAX     \* largest value of the C int that holds `size`

ASSUME NullAssumption == NULL \notin Cell
ASSUME CellAssumption == IsFiniteSet(Cell)
ASSUME SizeAssumption ==
  /\ MAX_BUF_Q \in Nat
  /\ INT_MAX \in Nat
  /\ MAX_BUF_Q < INT_MAX

VARIABLES
  queue,      \* head and tail of the message list, and its unused size
  tmp_queue,  \* *queue->tmp_queue_: head, tail and size of the free list
  next,       \* next[c]: the next pointer stored at address c
  data,       \* data[c]: the message pointer stored at address c
  heap        \* the allocated cells

qvars == <<queue, tmp_queue, next, data, heap>>

Pointer == Cell \cup {NULL}

INT_MIN == -INT_MAX - 1

List == [head : Pointer, tail : Pointer, size : INT_MIN .. INT_MAX]

-----------------------------------------------------------------------------
(* queue_init: two zeroed structs. *)

EmptyList == [head |-> NULL, tail |-> NULL, size |-> 0]

QueueInit ==
  /\ queue = EmptyList
  /\ tmp_queue = EmptyList
  /\ next = [c \in Cell |-> NULL]
  /\ data = [c \in Cell |-> NULL]
  /\ heap = {}

-----------------------------------------------------------------------------
(* The linking code shared by queue_push and release_queue_node: an empty  *)
(* list gets a head only; otherwise the cell goes behind `tail`, or behind *)
(* `head` when there is no tail yet.                                       *)

LinkCellKeepTail(l, p) ==
  IF l.head = NULL THEN [l EXCEPT !.head = p]
  ELSE IF l.tail = NULL THEN [l EXCEPT !.tail = p] ELSE l

LinkNextHead(l, nx, p) ==
  IF l.head = NULL THEN nx ELSE [nx EXCEPT ![l.head] = p]

\* Mutant of LinkCell: a list is taken for empty only when it has no tail.
LinkCellNoTail(l, p) ==
  IF l.head = NULL /\ l.tail = NULL THEN [l EXCEPT !.head = p] ELSE [l EXCEPT !.tail = p]

LinkCell(l, p) ==
  IF l.head = NULL THEN [l EXCEPT !.head = p] ELSE [l EXCEPT !.tail = p]

LinkNext(l, nx, p) ==
  IF l.head = NULL THEN nx
  ELSE [nx EXCEPT ![IF l.tail = NULL THEN l.head ELSE l.tail] = p]

\* `size--` on an int, wrapping at its width.
Decrement(n) == IF n = INT_MIN THEN INT_MAX ELSE n - 1

-----------------------------------------------------------------------------
(* What malloc may return.  Cells that no pointer of the queue leads to    *)
(* any more are leaked: the program can never touch them again, so the     *)
(* model lets their addresses be used again and the heap stays finite.     *)

Roots == {queue.head, queue.tail, tmp_queue.head, tmp_queue.tail} \ {NULL}

ClosedUnderNext(S) == \A c \in S : next[c] # NULL => next[c] \in S

Kept ==
  {c \in heap : \A S \in SUBSET Cell : Roots \subseteq S /\ ClosedUnderNext(S) => c \in S}

\* The three ways make_queue_node and queue_push touch a new cell p: its
\* next is cleared, its data set, and it is linked into the message list.
Enqueue(p, m) ==
  /\ queue' = LinkCell(queue, p)
  /\ next' = LinkNext(queue, [next EXCEPT ![p] = NULL], p)
  /\ data' = [data EXCEPT ![p] = m]

(* queue_push when the free list has a head: its cell is reused. *)
PushReused(m) ==
  /\ tmp_queue.head # NULL
  /\ Enqueue(tmp_queue.head, m)
  /\ tmp_queue' = [tmp_queue EXCEPT !.head = next[tmp_queue.head],
                                    !.size = Decrement(@)]
  /\ UNCHANGED heap

(* queue_push when the free list is empty: the cell is malloc'ed, and may  *)
(* be one that was freed while a tail still points to it.                  *)
PushMalloced(m) ==
  /\ tmp_queue.head = NULL
  /\ \E p \in Cell \ Kept :
       /\ Enqueue(p, m)
       /\ heap' = Kept \cup {p}
  /\ UNCHANGED tmp_queue

queue_push(m) == PushReused(m) \/ PushMalloced(m)

-----------------------------------------------------------------------------
(* queue_pop of an empty list returns NULL and changes nothing. *)
PopEmpty(m) ==
  /\ queue.head = NULL
  /\ m = NULL
  /\ UNCHANGED qvars

\* Mutants of PopRecycled: the cell's next is not cleared; the free list has
\* no limit.
PopRecycledDirty(m) ==
  LET p == queue.head IN
  /\ p # NULL
  /\ tmp_queue.size <= MAX_BUF_Q
  /\ m = data[p]
  /\ queue' = [queue EXCEPT !.head = next[p]]
  /\ tmp_queue' = [LinkCell(tmp_queue, p) EXCEPT !.size = @ + 1]
  /\ next' = LinkNext(tmp_queue, next, p)
  /\ data' = [data EXCEPT ![p] = NULL]
  /\ UNCHANGED heap

PopRecycledAlways(m) ==
  LET p == queue.head IN
  /\ p # NULL
  /\ m = data[p]
  /\ queue' = [queue EXCEPT !.head = next[p]]
  /\ tmp_queue' = [LinkCell(tmp_queue, p) EXCEPT !.size = @ + 1]
  /\ next' = LinkNext(tmp_queue, [next EXCEPT ![p] = NULL], p)
  /\ data' = [data EXCEPT ![p] = NULL]
  /\ UNCHANGED heap

(* The popped cell goes to the free list. *)
PopRecycled(m) ==
  LET p == queue.head IN
  /\ p # NULL
  /\ tmp_queue.size <= MAX_BUF_Q
  /\ m = data[p]
  /\ queue' = [queue EXCEPT !.head = next[p]]
  /\ tmp_queue' = [LinkCell(tmp_queue, p) EXCEPT !.size = @ + 1]
  /\ next' = LinkNext(tmp_queue, [next EXCEPT ![p] = NULL], p)
  /\ data' = [data EXCEPT ![p] = NULL]
  /\ UNCHANGED heap

\* Mutant of PopFreed: the head is not moved on.
PopFreedStuck(m) ==
  LET p == queue.head IN
  /\ p # NULL
  /\ tmp_queue.size > MAX_BUF_Q
  /\ m = data[p]
  /\ heap' = heap \ {p}
  /\ UNCHANGED <<queue, tmp_queue, next, data>>

(* The free list is over its limit: the popped cell is freed; neither tail *)
(* is looked at.                                                           *)
PopFreed(m) ==
  LET p == queue.head IN
  /\ p # NULL
  /\ tmp_queue.size > MAX_BUF_Q
  /\ m = data[p]
  /\ queue' = [queue EXCEPT !.head = next[p]]
  /\ heap' = heap \ {p}
  /\ UNCHANGED <<tmp_queue, next, data>>

\* m is what queue_pop returns.
queue_pop(m) == PopEmpty(m) \/ PopRecycled(m) \/ PopFreed(m)

-----------------------------------------------------------------------------
(* What the pointers have to satisfy. *)

QueueTypeOK(Message) ==
  /\ queue \in List
  /\ tmp_queue \in List
  /\ next \in [Cell -> Pointer]
  /\ data \in [Cell -> Message \cup {NULL}]
  /\ heap \in SUBSET Cell

\* No cell is reached by two pointers: the lists never share a cell and
\* neither of them runs into a loop, whatever the left-over tails did.
UniqueOwner ==
  /\ queue.head # NULL => queue.head # tmp_queue.head
  /\ \A c \in heap : next[c] # NULL => next[c] \notin {queue.head, tmp_queue.head}
  /\ \A c, d \in heap : next[c] # NULL /\ next[c] = next[d] => c = d

\* No list leads to a freed cell, so queue_pop and make_queue_node never
\* read freed memory.
OwnedIsAllocated ==
  /\ {queue.head, tmp_queue.head} \subseteq heap \cup {NULL}
  /\ \A c \in heap : next[c] \in heap \cup {NULL}

-----------------------------------------------------------------------------
(* The message list as a sequence, for the properties. *)

\* Following nx from head meets cells[1], cells[2], ... and then NULL.
IsChain(nx, head, cells) ==
  /\ head = IF 1 \in DOMAIN cells THEN cells[1] ELSE NULL
  /\ \A i \in DOMAIN cells :
       nx[cells[i]] = IF i + 1 \in DOMAIN cells THEN cells[i + 1] ELSE NULL

\* The pointers met on the way from head, all NULL behind the last cell.
Trail(nx, head) ==
  LET nth[i \in 1 .. Cardinality(Cell)] ==
        IF i = 1 THEN head ELSE IF nth[i - 1] = NULL THEN NULL ELSE nx[nth[i - 1]]
  IN nth

\* The members of a finite set of numbers in ascending order.
Ascending(S) ==
  CHOOSE f \in [1 .. Cardinality(S) -> S] : \A i, j \in DOMAIN f : i < j => f[i] < f[j]

\* The messages d that cells of the list carry, from head on.
Carried(nx, head, d) ==
  LET trail == Trail(nx, head)
      full == {i \in 1 .. Cardinality(Cell) : trail[i] # NULL /\ d[trail[i]] # NULL}
  IN [k \in 1 .. Cardinality(full) |-> d[trail[Ascending(full)[k]]]]

\* The messages that pops can still return, oldest first.
Contents == Carried(next, queue.head, data)

\* A list has been emptied and its tail still points to a cell it no longer
\* holds: the next cell but one linked into it is lost.
LeftOverTail(l) == l.head = NULL /\ l.tail # NULL

=============================================================================
