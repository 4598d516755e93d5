------------------------ MODULE QueueTrafficProofs -------------------------
(***************************************************************************)
(* Theorems about a queue of src/src/queue.c and the threads that use it,  *)
(* for every heap, every MAX_BUF_Q and every number of messages.           *)
(***************************************************************************)
EXTENDS QueueLife, MsgQueueProofs

\* A queue_pop and what its caller notes of it, in lock_queue_pop and in the
\* loop of release_queue.
Popped ==
  \E m \in Ticket \cup {NULL} :
    /\ queue_pop(m)
    /\ got' = m
    /\ last' = IF m = NULL THEN last ELSE m
    /\ pushed' = pushed

\* The shape of the lists needs nothing but the types to be inductive.
IntactInv == TypeOK /\ ListsIntact

LEMMA IntactInit == Init => IntactInv
  <1> SUFFICES ASSUME Init PROVE IntactInv
    OBVIOUS
  <1>1. EmptyList \in List
    BY SizeAssumption DEF EmptyList, List, Pointer, INT_MIN
  <1>2. QueueTypeOK(Ticket)
    BY <1>1 DEF Init, QueueInit, QueueTypeOK, Pointer
  <1>3. TypeOK
    <2>1. pushed \in 0 .. MaxPush /\ last \in 0 .. MaxPush
      BY MaxPushAssumption DEF Init
    <2>2. got \in Ticket \cup {NULL} /\ leftOver \in BOOLEAN
      BY DEF Init
    <2>3. QED
      BY <1>2, <2>1, <2>2 DEF TypeOK
  <1>4. ListsIntact
    BY DEF Init, QueueInit, EmptyList, ListsIntact, UniqueOwner, OwnedIsAllocated
  <1>5. QED
    BY <1>3, <1>4 DEF IntactInv

LEMMA IntactPop == IntactInv /\ Popped /\ leftOver' \in BOOLEAN => IntactInv'
  <1> SUFFICES ASSUME IntactInv, Popped, leftOver' \in BOOLEAN PROVE IntactInv'
    OBVIOUS
  <1>1. QueueTypeOK(Ticket) /\ UniqueOwner /\ OwnedIsAllocated
    BY DEF IntactInv, TypeOK, ListsIntact
  <1>2. PICK m \in Ticket \cup {NULL} :
          /\ queue_pop(m)
          /\ got' = m
          /\ last' = IF m = NULL THEN last ELSE m
          /\ pushed' = pushed
    BY DEF Popped
  <1>3. QueueTypeOK(Ticket)' /\ UniqueOwner' /\ OwnedIsAllocated'
    BY <1>1, <1>2, PopIntact
  <1>4. pushed' \in 0 .. MaxPush /\ last' \in 0 .. MaxPush /\ got' \in Ticket \cup {NULL}
    BY <1>2, MaxPushAssumption DEF Ticket, IntactInv, TypeOK
  <1>5. TypeOK'
    BY <1>3, <1>4 DEF TypeOK, QueueTypeOK, Ticket
  <1>6. QED
    BY <1>3, <1>5 DEF IntactInv, ListsIntact

LEMMA IntactNext == IntactInv /\ [Next]_vars => IntactInv'
  <1> SUFFICES ASSUME IntactInv, [Next]_vars PROVE IntactInv'
    OBVIOUS
  <1>1. QueueTypeOK(Ticket) /\ UniqueOwner /\ OwnedIsAllocated
    BY DEF IntactInv, TypeOK, ListsIntact
  <1>2. CASE lock_queue_push
    <2>1. pushed + 1 \in Ticket /\ queue_push(pushed + 1)
      BY <1>2, MaxPushAssumption DEF lock_queue_push, Ticket, IntactInv, TypeOK
    <2>2. QueueTypeOK(Ticket)' /\ UniqueOwner' /\ OwnedIsAllocated'
      BY <1>1, <2>1, PushIntact
    <2>3. pushed' \in 0 .. MaxPush /\ last' \in 0 .. MaxPush /\ got' \in Ticket \cup {NULL}
      BY <1>2, <2>1 DEF lock_queue_push, Ticket, IntactInv, TypeOK
    <2>4. leftOver' \in BOOLEAN
      BY <1>2 DEF lock_queue_push, NoteLeftOver
    <2>5. TypeOK'
      BY <2>2, <2>3, <2>4 DEF TypeOK, QueueTypeOK, Ticket
    <2>6. QED
      BY <2>2, <2>5 DEF IntactInv, ListsIntact
  <1>3. CASE lock_queue_pop
    <2>1. Popped /\ leftOver' \in BOOLEAN
      BY <1>3 DEF lock_queue_pop, Popped, NoteLeftOver
    <2>2. QED
      BY <2>1, IntactPop
  <1>4. CASE UNCHANGED vars
    BY <1>4 DEF vars, qvars, IntactInv, TypeOK, QueueTypeOK, Ticket, ListsIntact,
                UniqueOwner, OwnedIsAllocated
  <1>5. QED
    BY <1>2, <1>3, <1>4 DEF Next

\* The fields of both queue structs, the cells and the history keep their
\* types; the size counter stays within the C int.
THEOREM TypeCorrect == Spec => []TypeOK
  <1>1. IntactInv => TypeOK
    BY DEF IntactInv
  <1>2. QED
    BY IntactInit, IntactNext, <1>1, PTL DEF Spec

\* queue_push and queue_pop never make the message list and the free list
\* share a cell, run in a circle or lead into freed memory.
THEOREM ListsStayIntact == Spec => []ListsIntact
  <1>1. IntactInv => ListsIntact
    BY DEF IntactInv
  <1>2. QED
    BY IntactInit, IntactNext, <1>1, PTL DEF Spec

-----------------------------------------------------------------------------
(* Order of delivery.  Give every cell a rank that grows with the time it  *)
(* was last linked into a list, whichever list that was.  next always      *)
(* leads from a lower to a higher rank (a cell can only point to one       *)
(* linked after it, or, through a left-over tail, to itself), messages     *)
(* follow the ranks, and the head of the message list outranks r, the rank *)
(* of the cell popped last.                                                *)

Ranked(rank, k, r) ==
  /\ r < k
  /\ \A c \in Cell : rank[c] < k
  /\ \A c \in heap : next[c] # NULL /\ next[c] # c => rank[c] < rank[next[c]]
  /\ \A c, d \in Cell :
       data[c] # NULL /\ data[d] # NULL /\ rank[c] < rank[d] => data[c] < data[d]
  /\ queue.head # NULL => r < rank[queue.head]
  /\ \A c \in Cell : data[c] # NULL /\ r < rank[c] => last < data[c]
  /\ \A c \in Cell : data[c] # NULL => data[c] <= pushed
  /\ last <= pushed

OrderInv == \E rank \in [Cell -> Nat], k, r \in Nat : Ranked(rank, k, r)

LEMMA OrderInit == Init => OrderInv
  <1> SUFFICES ASSUME Init PROVE OrderInv
    OBVIOUS
  <1> DEFINE rank == [c \in Cell |-> 0]
  <1>1. rank \in [Cell -> Nat]
    OBVIOUS
  <1>2. Ranked(rank, 1, 0)
    BY DEF Ranked, Init, QueueInit, EmptyList
  <1>3. QED
    BY <1>1, <1>2 DEF OrderInv

\* A push gives the highest rank to the cell it links.
LEMMA OrderPush == IntactInv /\ OrderInv /\ lock_queue_push => OrderInv'
  <1> SUFFICES ASSUME IntactInv, OrderInv, lock_queue_push PROVE OrderInv'
    OBVIOUS
  <1>1. PICK rank \in [Cell -> Nat], k \in Nat, r \in Nat : Ranked(rank, k, r)
    BY DEF OrderInv
  <1>2. /\ QueueTypeOK(Ticket)
        /\ pushed \in Nat /\ last \in Nat
        /\ OwnedIsAllocated
    BY MaxPushAssumption DEF IntactInv, TypeOK, ListsIntact
  <1>3. /\ queue_push(pushed + 1)
        /\ pushed' = pushed + 1 /\ last' = last
    BY DEF lock_queue_push
  <1>4. PICK p \in Cell : Enqueue(p, pushed + 1) /\ heap' \subseteq heap \cup {p}
    <2>1. CASE PushReused(pushed + 1)
      BY <1>2, <2>1 DEF PushReused, OwnedIsAllocated, QueueTypeOK
    <2>2. CASE PushMalloced(pushed + 1)
      <3>1. Kept \subseteq heap
        BY DEF Kept
      <3>2. QED
        BY <2>2, <3>1 DEF PushMalloced
    <2>3. QED
      BY <1>3, <2>1, <2>2 DEF queue_push
  <1> DEFINE nx == [next EXCEPT ![p] = NULL]
             rk == [rank EXCEPT ![p] = k]
  <1>5. /\ queue \in List /\ nx \in [Cell -> Pointer]
        /\ nx[p] = NULL /\ \A c \in Cell \ {p} : nx[c] = next[c]
        /\ data' = [data EXCEPT ![p] = pushed + 1]
        /\ queue' = LinkCell(queue, p) /\ next' = LinkNext(queue, nx, p)
    BY <1>2, <1>4 DEF Enqueue, QueueTypeOK, Pointer
  <1>6. /\ rk \in [Cell -> Nat] /\ rk[p] = k
        /\ \A c \in Cell \ {p} : rk[c] = rank[c] /\ rk[c] < k
    BY <1>1 DEF Ranked
  <1>7. \A c \in Cell : data'[c] = IF c = p THEN pushed + 1 ELSE data[c]
    BY <1>2, <1>5 DEF QueueTypeOK
  <1>8. \A c \in Cell : data[c] # NULL => data[c] \in Nat
    BY <1>2 DEF QueueTypeOK, Ticket
  <1>. HIDE DEF nx, rk
  <1>9. next' \in [Cell -> Pointer] /\ \A c \in Cell : next'[c] # p => next'[c] = nx[c]
    <2>1. next' \in [Cell -> Pointer]
      BY <1>5, LinkFacts
    <2>2. CASE queue.head = NULL
      <3>1. next' = nx
        BY <1>5, <2>2, LinkFacts
      <3>2. QED
        BY <2>1, <3>1
    <2>3. CASE queue.head # NULL
      <3>1. PICK t \in Cell : next' = [nx EXCEPT ![t] = p]
        BY <1>5, <2>3, LinkFacts
      <3>2. QED
        BY <1>5, <2>1, <3>1
    <2>4. QED
      BY <2>2, <2>3
  <1>10. \A c \in heap' : next'[c] # NULL /\ next'[c] # c => rk[c] < rk[next'[c]]
    <2> SUFFICES ASSUME NEW c \in heap', next'[c] # NULL, next'[c] # c
                 PROVE  rk[c] < rk[next'[c]]
      OBVIOUS
    <2>1. c \in Cell
      BY <1>2, <1>4 DEF QueueTypeOK
    <2>2. CASE next'[c] = p
      BY <1>6, <2>1, <2>2
    <2>3. CASE next'[c] # p
      <3>1. c # p /\ next'[c] = next[c] /\ c \in heap
        BY <1>4, <1>5, <1>9, <2>1, <2>3
      <3>2. next[c] \in Cell
        BY <1>2, <3>1 DEF OwnedIsAllocated, QueueTypeOK
      <3>3. rank[c] < rank[next[c]]
        BY <1>1, <3>1 DEF Ranked
      <3>4. QED
        BY <1>6, <2>1, <2>3, <3>1, <3>2, <3>3
    <2>4. QED
      BY <2>2, <2>3
  <1>11. queue'.head # NULL => r < rk[queue'.head]
    <2>1. CASE queue.head = NULL
      <3>1. queue'.head = p
        BY <1>5, <2>1, LinkFacts
      <3>2. QED
        BY <1>1, <1>6, <3>1 DEF Ranked
    <2>2. CASE queue.head # NULL
      <3>1. queue'.head = queue.head /\ queue.head \in Cell
        BY <1>5, <2>2, LinkFacts DEF List, Pointer
      <3>2. r < rank[queue.head] /\ r < k
        BY <1>1, <2>2 DEF Ranked
      <3>3. QED
        BY <1>6, <3>1, <3>2
    <2>3. QED
      BY <2>1, <2>2
  <1>12. \A c, d \in Cell :
           data'[c] # NULL /\ data'[d] # NULL /\ rk[c] < rk[d] => data'[c] < data'[d]
    <2> SUFFICES ASSUME NEW c \in Cell, NEW d \in Cell,
                        data'[c] # NULL, data'[d] # NULL, rk[c] < rk[d]
                 PROVE  data'[c] < data'[d]
      OBVIOUS
    <2>1. c # p
      BY <1>1, <1>6
    <2>2. CASE d = p
      BY <1>1, <1>2, <1>7, <1>8, <2>1, <2>2 DEF Ranked
    <2>3. CASE d # p
      BY <1>1, <1>6, <1>7, <2>1, <2>3 DEF Ranked
    <2>4. QED
      BY <2>2, <2>3
  <1>13. /\ \A c \in Cell : data'[c] # NULL /\ r < rk[c] => last' < data'[c]
         /\ \A c \in Cell : data'[c] # NULL => data'[c] <= pushed'
         /\ last' <= pushed'
    BY <1>1, <1>2, <1>3, <1>6, <1>7, <1>8 DEF Ranked
  <1>14. r < k + 1 /\ \A c \in Cell : rk[c] < k + 1
    BY <1>1, <1>6 DEF Ranked
  <1>15. Ranked(rk, k + 1, r)'
    BY <1>10, <1>11, <1>12, <1>13, <1>14 DEF Ranked
  <1>16. QED
    BY <1>6, <1>15 DEF OrderInv

\* A pop returns the head's message, younger than everything popped before,
\* and ranks the cell anew when it joins the free list.
LEMMA OrderPop ==
  IntactInv /\ OrderInv /\ Popped =>
    OrderInv' /\ (got' # NULL => got' > last)
  <1> SUFFICES ASSUME IntactInv, OrderInv, Popped
               PROVE  OrderInv' /\ (got' # NULL => got' > last)
    OBVIOUS
  <1>1. PICK rank \in [Cell -> Nat], k \in Nat, r \in Nat : Ranked(rank, k, r)
    BY DEF OrderInv
  <1>2. /\ QueueTypeOK(Ticket)
        /\ pushed \in Nat /\ last \in Nat
        /\ UniqueOwner /\ OwnedIsAllocated
    BY MaxPushAssumption DEF IntactInv, TypeOK, ListsIntact
  <1>3. PICK m \in Ticket \cup {NULL} :
          /\ queue_pop(m)
          /\ got' = m
          /\ last' = IF m = NULL THEN last ELSE m
          /\ pushed' = pushed
    BY DEF Popped
  <1>4. CASE PopEmpty(m)
    <2>1. Ranked(rank, k, r)'
      BY <1>1, <1>3, <1>4 DEF PopEmpty, qvars, Ranked
    <2>2. QED
      BY <1>3, <1>4, <2>1 DEF PopEmpty, OrderInv
  <1>7. PICK p \in Pointer : p = queue.head
    BY <1>2 DEF QueueTypeOK, List
  <1>5. CASE p # NULL /\ m = data[p] /\ queue' = [queue EXCEPT !.head = next[p]]
             /\ heap' \subseteq heap
             /\ (PopFreed(m) \/ PopRecycled(m))
    <2>1. /\ p \in heap /\ p \in Cell /\ next[p] # p
          /\ next[p] \in heap \cup {NULL}
          /\ \A c \in heap : next[c] # p
          /\ queue'.head = next[p]
      BY <1>2, <1>5, <1>7, NullAssumption
         DEF UniqueOwner, OwnedIsAllocated, QueueTypeOK, List
    <2>11. PICK s \in Nat : s = rank[p]
      BY <1>1, <2>1
    <2>2. \A c \in Cell : data[c] # NULL => data[c] \in Nat
      BY <1>2 DEF QueueTypeOK, Ticket
    <2>3. r < s /\ s < k
      BY <1>1, <1>5, <1>7, <2>1, <2>11 DEF Ranked
    <2>4. m # NULL => m \in Nat /\ last < m /\ m <= pushed
      BY <1>1, <1>5, <2>1, <2>2, <2>3, <2>11 DEF Ranked
    <2>5. next[p] # NULL => s < rank[next[p]]
      BY <1>1, <2>1, <2>11 DEF Ranked
    <2>6. last' \in Nat /\ last <= last' /\ last' <= pushed'
      BY <1>1, <1>2, <1>3, <2>4 DEF Ranked
    <2>7. \A c \in Cell : data[c] # NULL /\ s < rank[c] => last' < data[c]
      <3> SUFFICES ASSUME NEW c \in Cell, data[c] # NULL, s < rank[c]
                   PROVE  last' < data[c]
        OBVIOUS
      <3>1. CASE m = NULL
        <4>1. last' = last /\ r < rank[c]
          BY <1>1, <1>3, <2>3, <3>1
        <4>2. QED
          BY <1>1, <4>1 DEF Ranked
      <3>2. CASE m # NULL
        <4>1. last' = data[p] /\ data[p] # NULL
          BY <1>3, <1>5, <3>2
        <4>2. QED
          BY <1>1, <2>1, <2>11, <4>1 DEF Ranked
      <3>3. QED
        BY <3>1, <3>2
    <2>8. CASE PopFreed(m)
      <3>1. next' = next /\ data' = data
        BY <2>8 DEF PopFreed
      <3>2. Ranked(rank, k, s)'
        BY <1>1, <1>3, <1>5, <2>1, <2>3, <2>5, <2>6, <2>7, <3>1 DEF Ranked
      <3>3. QED
        BY <1>3, <2>3, <2>4, <3>2 DEF OrderInv
    <2>9. CASE PopRecycled(m)
      <3> DEFINE nx == [next EXCEPT ![p] = NULL]
      <3>13. PICK rk \in [Cell -> Nat] : rk = [rank EXCEPT ![p] = k]
        BY <1>1
      <3>1. /\ tmp_queue \in List /\ nx \in [Cell -> Pointer]
            /\ nx[p] = NULL /\ \A c \in Cell \ {p} : nx[c] = next[c]
            /\ next' = LinkNext(tmp_queue, nx, p)
            /\ data' = [data EXCEPT ![p] = NULL]
        <4>1. nx \in [Cell -> Pointer] /\ tmp_queue \in List
          BY <1>2 DEF QueueTypeOK, Pointer
        <4>2. nx[p] = NULL /\ \A c \in Cell \ {p} : nx[c] = next[c]
          BY <1>2, <2>1 DEF QueueTypeOK
        <4>3. next' = LinkNext(tmp_queue, nx, p) /\ data' = [data EXCEPT ![p] = NULL]
          BY <1>7, <2>9 DEF PopRecycled
        <4>4. QED
          BY <4>1, <4>2, <4>3
      <3>2. /\ rk[p] = k
            /\ \A c \in Cell \ {p} : rk[c] = rank[c] /\ rk[c] < k
        BY <1>1, <2>1, <3>13 DEF Ranked
      <3>3. \A c \in Cell : data'[c] = IF c = p THEN NULL ELSE data[c]
        BY <1>2, <2>1, <3>1 DEF QueueTypeOK
      <3>. HIDE DEF nx
      <3>4. next' \in [Cell -> Pointer] /\ \A c \in Cell : next'[c] # p => next'[c] = nx[c]
        <4>1. p \in Cell
          BY <2>1
        <4>2. next' \in [Cell -> Pointer]
          BY <3>1, <4>1, LinkFacts
        <4>3. CASE tmp_queue.head = NULL
          <5>1. next' = nx
            BY <3>1, <4>1, <4>3, LinkFacts
          <5>2. QED
            BY <4>2, <5>1
        <4>4. CASE tmp_queue.head # NULL
          <5>1. PICK t \in Cell : next' = [nx EXCEPT ![t] = p]
            BY <3>1, <4>1, <4>4, LinkFacts
          <5>2. QED
            BY <3>1, <4>2, <5>1
        <4>5. QED
          BY <4>3, <4>4
      <3>5. \A c \in heap' : next'[c] # NULL /\ next'[c] # c => rk[c] < rk[next'[c]]
        <4> SUFFICES ASSUME NEW c \in heap', next'[c] # NULL, next'[c] # c
                     PROVE  rk[c] < rk[next'[c]]
          OBVIOUS
        <4>1. c \in heap /\ c \in Cell
          BY <1>2, <1>5 DEF QueueTypeOK
        <4>2. CASE next'[c] = p
          BY <3>2, <4>1, <4>2
        <4>3. CASE next'[c] # p
          <5>1. c # p /\ next'[c] = next[c]
            BY <3>1, <3>4, <4>1, <4>3
          <5>2. next[c] \in Cell
            BY <1>2, <4>1, <5>1 DEF OwnedIsAllocated, QueueTypeOK
          <5>3. rank[c] < rank[next[c]]
            BY <1>1, <4>1, <5>1 DEF Ranked
          <5>4. QED
            BY <3>2, <4>1, <4>3, <5>1, <5>2, <5>3
        <4>4. QED
          BY <4>2, <4>3
      <3>6. queue'.head # NULL => s < rk[queue'.head]
        <4>1. next[p] # NULL => next[p] \in Cell
          BY <1>2, <2>1 DEF QueueTypeOK
        <4>2. QED
          BY <2>1, <2>5, <3>2, <4>1
      <3>7. \A c, d \in Cell :
              data'[c] # NULL /\ data'[d] # NULL /\ rk[c] < rk[d] => data'[c] < data'[d]
        BY <1>1, <3>2, <3>3 DEF Ranked
      <3>8. \A c \in Cell : data'[c] # NULL /\ s < rk[c] => last' < data'[c]
        BY <2>7, <3>2, <3>3
      <3>9. \A c \in Cell : data'[c] # NULL => data'[c] <= pushed'
        BY <1>1, <1>3, <3>3 DEF Ranked
      <3>10. s < k + 1 /\ \A c \in Cell : rk[c] < k + 1
        BY <1>1, <2>3, <3>2 DEF Ranked
      <3>11. Ranked(rk, k + 1, s)'
        BY <2>6, <3>5, <3>6, <3>7, <3>8, <3>9, <3>10 DEF Ranked
      <3>12. QED
        BY <1>3, <2>3, <2>4, <3>2, <3>11 DEF OrderInv
    <2>10. QED
      BY <1>5, <2>8, <2>9
  <1>6. QED
    <2>1. PopEmpty(m) \/ PopFreed(m) \/ PopRecycled(m)
      BY <1>3 DEF queue_pop
    <2>2. PopFreed(m) \/ PopRecycled(m) =>
            /\ p # NULL /\ m = data[p] /\ queue' = [queue EXCEPT !.head = next[p]]
            /\ heap' \subseteq heap
      BY <1>7 DEF PopFreed, PopRecycled
    <2>3. QED
      BY <1>4, <1>5, <2>1, <2>2

LEMMA OrderNext == IntactInv /\ OrderInv /\ [Next]_vars => OrderInv'
  <1> SUFFICES ASSUME IntactInv, OrderInv, [Next]_vars PROVE OrderInv'
    OBVIOUS
  <1>1. CASE UNCHANGED vars
    BY <1>1 DEF vars, qvars, OrderInv, Ranked
  <1>2. lock_queue_pop => Popped
    BY DEF lock_queue_pop, Popped
  <1>3. QED
    BY <1>1, <1>2, OrderPush, OrderPop DEF Next

\* Messages leave the queue of queue.c in the order they entered it, each at
\* most once, even after left-over tails have made it lose some of them.
THEOREM DeliversInOrder == Spec => InOrder
  <1>1. IntactInv /\ OrderInv /\ [Next]_vars =>
          [lock_queue_pop /\ got' # NULL => got' > last]_vars
    BY OrderPop DEF lock_queue_pop, Popped
  <1>2. QED
    BY IntactInit, IntactNext, OrderInit, OrderNext, <1>1, PTL DEF Spec, InOrder

-----------------------------------------------------------------------------
(* The end of the queue's life: what holds of the calls one at a time holds *)
(* of the release as well, although FreeCell takes cells from the free list *)
(* without looking at its tail.                                             *)

LifeTypeOK ==
  /\ phase \in {"traffic", "buf", "release", "released"}
  /\ togo \in INT_MIN .. INT_MAX
  /\ freed \in SUBSET (Ticket \X {"udata", "node"})
  /\ whole \in BOOLEAN

\* What was freed is what was popped since the release began.
FreedInv == \A b \in freed : b[1] <= last

LifeInv == IntactInv /\ OrderInv /\ LifeTypeOK /\ FreedInv

LEMMA LifeInitHolds == LifeInit => LifeInv
  <1>1. LifeInit => LifeTypeOK /\ FreedInv
    BY SizeAssumption DEF LifeInit, LifeTypeOK, FreedInv, INT_MIN
  <1>2. QED
    BY <1>1, IntactInit, OrderInit DEF LifeInit, LifeInv

\* Freeing the free list's head: the cell leaves the heap, its successor
\* becomes the head.
LEMMA FreeCellIntact == IntactInv /\ FreeCell => IntactInv'
  <1> SUFFICES ASSUME IntactInv, FreeCell PROVE IntactInv'
    OBVIOUS
  <1>1. QueueTypeOK(Ticket) /\ UniqueOwner /\ OwnedIsAllocated
    BY DEF IntactInv, TypeOK, ListsIntact
  <1>2. /\ queue' = queue /\ next' = next /\ data' = data
        /\ heap' = heap \ {tmp_queue.head}
        /\ pushed' = pushed /\ last' = last /\ got' = got /\ leftOver' = leftOver
    BY DEF FreeCell
  <1>3. /\ tmp_queue' \in List
        /\ tmp_queue'.head = IF tmp_queue.head = NULL THEN NULL ELSE next[tmp_queue.head]
    <2>1. Decrement(tmp_queue.size) \in INT_MIN .. INT_MAX
      BY <1>1, DecrementType DEF QueueTypeOK, List
    <2>2. tmp_queue.head # NULL => tmp_queue.head \in Cell /\ next[tmp_queue.head] \in Pointer
      BY <1>1 DEF QueueTypeOK, List, Pointer
    <2>3. QED
      BY <1>1, <2>1, <2>2 DEF FreeCell, QueueTypeOK, List, Pointer
  <1>4. TypeOK'
    BY <1>1, <1>2, <1>3 DEF IntactInv, TypeOK, QueueTypeOK, Ticket
  <1>5. CASE tmp_queue.head = NULL
    <2>1. heap' = heap /\ tmp_queue'.head = tmp_queue.head
      BY <1>1, <1>2, <1>3, <1>5, NullAssumption DEF QueueTypeOK
    <2>2. QED
      BY <1>1, <1>2, <1>4, <2>1 DEF IntactInv, ListsIntact, UniqueOwner, OwnedIsAllocated
  <1>6. CASE tmp_queue.head # NULL
    <2>1. /\ tmp_queue.head \in heap
          /\ next[tmp_queue.head] \in heap \cup {NULL}
          /\ next[tmp_queue.head] # tmp_queue.head
          /\ \A c \in heap : next[c] # tmp_queue.head
          /\ queue.head # tmp_queue.head
      BY <1>1, <1>6 DEF UniqueOwner, OwnedIsAllocated
    <2>2. UniqueOwner'
      BY <1>1, <1>2, <1>3, <1>6, <2>1 DEF UniqueOwner
    <2>3. OwnedIsAllocated'
      BY <1>1, <1>2, <1>3, <1>6, <2>1 DEF OwnedIsAllocated
    <2>4. QED
      BY <1>4, <2>2, <2>3 DEF IntactInv, ListsIntact
  <1>7. QED
    BY <1>5, <1>6

LEMMA FreeCellOrder == IntactInv /\ OrderInv /\ FreeCell => OrderInv'
  <1> SUFFICES ASSUME IntactInv, OrderInv, FreeCell PROVE OrderInv'
    OBVIOUS
  <1>1. PICK rank \in [Cell -> Nat], k \in Nat, r \in Nat : Ranked(rank, k, r)
    BY DEF OrderInv
  <1>2. Ranked(rank, k, r)'
    BY <1>1 DEF FreeCell, Ranked
  <1>3. QED
    BY <1>2 DEF OrderInv

\* A turn of release_queue's loop is a pop; what it frees was never popped
\* before.
LEMMA FreeMessageStep ==
  LifeInv /\ FreeMessage =>
    LifeInv' /\ (got' # NULL => Blocks(got') \cap freed = {} /\ got' > last)
  <1> SUFFICES ASSUME LifeInv, FreeMessage
               PROVE  LifeInv' /\ (got' # NULL => Blocks(got') \cap freed = {} /\ got' > last)
    OBVIOUS
  <1>1. Popped /\ leftOver' = leftOver /\ leftOver \in BOOLEAN
    BY DEF FreeMessage, Popped, LifeInv, IntactInv, TypeOK
  <1>2. IntactInv' /\ OrderInv' /\ (got' # NULL => got' > last)
    BY <1>1, IntactPop, OrderPop DEF LifeInv
  <1>3. /\ got' \in Ticket \cup {NULL}
        /\ last' = IF got' = NULL THEN last ELSE got'
        /\ freed' = IF got' = NULL THEN freed ELSE freed \cup Blocks(got')
        /\ phase' \in {"release", "released"}
        /\ togo' = togo /\ whole' = whole
    BY DEF FreeMessage
  <1>4. LifeTypeOK'
    BY <1>3 DEF LifeInv, LifeTypeOK, Blocks
  <1>5. (\A b \in freed : b[1] \in Nat) /\ last \in Nat
    BY MaxPushAssumption DEF LifeInv, IntactInv, TypeOK, LifeTypeOK, Ticket
  <1>6. got' # NULL => got' \in Nat
    BY <1>3 DEF Ticket
  <1>7. \A b \in freed' : b[1] <= last'
    BY <1>2, <1>3, <1>5, <1>6 DEF LifeInv, FreedInv, Blocks
  <1>8. got' # NULL => Blocks(got') \cap freed = {}
    BY <1>2, <1>5, <1>6 DEF LifeInv, FreedInv, Blocks
  <1>9. QED
    BY <1>2, <1>4, <1>7, <1>8 DEF LifeInv, FreedInv

LEMMA LifeStep ==
  LifeInv /\ [LifeNext]_lifeVars =>
    LifeInv' /\ [FreeMessage /\ got' # NULL => Blocks(got') \cap freed = {} /\ got' > last]_lifeVars
  <1> SUFFICES ASSUME LifeInv, [LifeNext]_lifeVars
               PROVE  /\ LifeInv'
                      /\ FreeMessage /\ got' # NULL => Blocks(got') \cap freed = {} /\ got' > last
    OBVIOUS
  <1>1. CASE FreeMessage
    BY <1>1, FreeMessageStep
  <1>2. ASSUME UNCHANGED vars PROVE IntactInv' /\ OrderInv' /\ last' = last
    <2>1. [Next]_vars /\ last' = last
      BY <1>2 DEF vars
    <2>2. QED
      BY <2>1, IntactNext, OrderNext DEF LifeInv
  <1>3. CASE Traffic
    <2>1. IntactInv' /\ OrderInv'
      BY <1>3, IntactNext, OrderNext DEF Traffic, LifeInv
    <2>2. last' >= last /\ last \in Nat /\ last' \in Nat /\ \A b \in freed : b[1] \in Nat
      <3>1. lock_queue_pop => Popped
        BY DEF lock_queue_pop, Popped
      <3>2. lock_queue_pop /\ got' # NULL => got' > last
        BY <3>1, OrderPop DEF LifeInv
      <3>3. lock_queue_pop => last' = IF got' = NULL THEN last ELSE got'
        BY DEF lock_queue_pop
      <3>4. last \in Nat /\ last' \in Nat /\ \A b \in freed : b[1] \in Nat
        BY <2>1, MaxPushAssumption DEF LifeInv, IntactInv, TypeOK, LifeTypeOK, Ticket
      <3>5. lock_queue_push => last' = last
        BY DEF lock_queue_push
      <3>6. QED
        BY <1>3, <3>2, <3>3, <3>4, <3>5 DEF Traffic, Next
    <2>3. LifeTypeOK' /\ FreedInv'
      BY <1>3, <2>2 DEF Traffic, LifeInv, LifeTypeOK, FreedInv, Ticket
    <2>4. QED
      BY <1>3, <2>1, <2>3 DEF Traffic, FreeMessage, LifeInv
  <1>4. CASE release_buf_queue
    <2>1. tmp_queue.size \in INT_MIN .. INT_MAX
      BY DEF LifeInv, IntactInv, TypeOK, QueueTypeOK, List
    <2>2. LifeTypeOK' /\ FreedInv'
      BY <1>2, <1>4, <2>1 DEF release_buf_queue, LifeInv, LifeTypeOK, FreedInv, Ticket
    <2>3. QED
      BY <1>2, <1>4, <2>2 DEF release_buf_queue, FreeMessage, LifeInv
  <1>5. CASE FreeCell
    <2>1. LifeTypeOK' /\ FreedInv'
      BY <1>5, SizeAssumption DEF FreeCell, LifeInv, LifeTypeOK, FreedInv, Ticket, INT_MIN
    <2>2. QED
      BY <1>5, <2>1, FreeCellIntact, FreeCellOrder DEF FreeCell, FreeMessage, LifeInv
  <1>6. CASE release_queue
    <2>1. LifeTypeOK' /\ FreedInv'
      BY <1>2, <1>6 DEF release_queue, LifeInv, LifeTypeOK, FreedInv, Ticket
    <2>2. QED
      BY <1>1, <1>2, <1>6, <2>1 DEF release_queue, LifeInv
  <1>7. CASE UNCHANGED lifeVars
    <2>1. UNCHANGED vars /\ UNCHANGED <<phase, togo, freed, whole>>
      BY <1>7 DEF lifeVars
    <2>2. LifeTypeOK' /\ FreedInv'
      BY <1>2, <2>1 DEF LifeInv, LifeTypeOK, FreedInv, Ticket
    <2>3. QED
      BY <1>1, <1>2, <2>1, <2>2 DEF LifeInv
  <1>8. QED
    BY <1>1, <1>3, <1>4, <1>5, <1>6, <1>7 DEF LifeNext

\* The lists stay intact until the queue is gone: release_buf_queue and
\* release_queue free no cell that a list still leads to.
THEOREM IntactUntilReleased == LifeSpec => [](TypeOK /\ ListsIntact)
  <1>1. LifeInv => TypeOK /\ ListsIntact
    BY DEF LifeInv, IntactInv
  <1>2. QED
    BY LifeInitHolds, LifeStep, <1>1, PTL DEF LifeSpec

\* release_queue frees no message that was delivered, and no message's node or
\* udata twice, even when tails were left over.
THEOREM FreesOnce == LifeSpec => FreedOnce
  BY LifeInitHolds, LifeStep, PTL DEF LifeSpec, FreedOnce

-----------------------------------------------------------------------------
(* Nothing is lost before a tail is left over.  As long as none is, both    *)
(* lists are chains of distinct cells, the two chains are disjoint, and     *)
(* each tail is NULL or the last cell of its chain; the message chain       *)
(* carries last + 1, ..., pushed.  The release needs less: that neither     *)
(* pointer of the free list leads into the message chain.                   *)

Messages(n, cells) ==
  /\ n = pushed - last
  /\ Distinct(cells)
  /\ IsChain(next, queue.head, cells)
  /\ \A i \in 1 .. n :
       data[cells[i]] = last + i /\ cells[i] # tmp_queue.head /\ cells[i] # tmp_queue.tail

Spares(t, spare, n, cells) ==
  /\ t = tmp_queue.size
  /\ Distinct(spare)
  /\ IsChain(next, tmp_queue.head, spare)
  /\ \A i \in 1 .. n, j \in 1 .. t : cells[i] # spare[j]

Shape(n, cells, t, spare) ==
  /\ Messages(n, cells)
  /\ phase \in {"traffic", "buf"} => Spares(t, spare, n, cells)
  /\ phase = "traffic" => TailFits(queue, cells) /\ TailFits(tmp_queue, spare)
  /\ phase = "buf" => togo = t
  /\ phase = "released" => n = 0

ShapeInv ==
  ~leftOver => \E n, t \in Nat :
                 \E cells \in [1 .. n -> heap], spare \in [1 .. t -> heap] :
                   Shape(n, cells, t, spare)

WholeInv == phase # "traffic" /\ whole => ~leftOver

LEMMA ShapeInit == LifeInit => ShapeInv /\ WholeInv
  <1> SUFFICES ASSUME LifeInit PROVE ShapeInv /\ WholeInv
    OBVIOUS
  <1> DEFINE none == [i \in 1 .. 0 |-> NULL]
  <1>1. none \in [1 .. 0 -> heap] /\ DOMAIN none = {}
    OBVIOUS
  <1>2. /\ queue = EmptyList /\ tmp_queue = EmptyList
        /\ pushed = 0 /\ last = 0 /\ phase = "traffic"
    BY DEF LifeInit, Init, QueueInit
  <1>. HIDE DEF none
  <1>3. Distinct(none) /\ IsChain(next, NULL, none) /\ TailFits(EmptyList, none)
    BY <1>1 DEF Distinct, IsChain, TailFits, EmptyList
  <1>4. Shape(0, none, 0, none)
    BY <1>1, <1>2, <1>3 DEF Shape, Messages, Spares, EmptyList
  <1>5. WholeInv
    BY <1>2 DEF WholeInv
  <1>6. QED
    BY <1>1, <1>4, <1>5 DEF ShapeInv

\* A pop takes the first cell of the message chain and leaves the rest alone,
\* wherever it puts that cell.
LEMMA PopShape ==
  ASSUME IntactInv, Popped,
         NEW n \in Nat, NEW cells \in [1 .. n -> heap], Messages(n, cells),
         queue.head # NULL
  PROVE  /\ n >= 1 /\ queue.head = cells[1] /\ last' = last + 1 /\ got' # NULL
         /\ Rest(cells, n) \in [1 .. n - 1 -> heap']
         /\ queue'.head = next[cells[1]] /\ queue'.tail = queue.tail
         /\ Messages(n - 1, Rest(cells, n))'
  <1>1. QueueTypeOK(Ticket) /\ OwnedIsAllocated /\ pushed \in Nat /\ last \in Nat
    BY MaxPushAssumption DEF IntactInv, TypeOK, ListsIntact
  <1>2. PICK m \in Ticket \cup {NULL} :
          /\ queue_pop(m)
          /\ got' = m
          /\ last' = IF m = NULL THEN last ELSE m
          /\ pushed' = pushed
    BY DEF Popped
  <1>3. /\ n = pushed - last /\ Chained(n, cells)
        /\ \A i \in 1 .. n : data[cells[i]] = last + i
    BY DEF Messages, Chained
  <1>4. PICK rest : rest = Rest(cells, n)
    OBVIOUS
  <1>5. /\ n >= 1 /\ queue.head = cells[1] /\ m = data[cells[1]]
        /\ rest \in [1 .. n - 1 -> heap']
        /\ queue'.head = next[cells[1]] /\ queue'.tail = queue.tail
        /\ Chained(n - 1, rest)'
        /\ \A i \in 1 .. n - 1 : data'[rest[i]] = data[cells[i + 1]]
    <2>1. queue_pop(m) /\ Chained(n, cells)
      BY <1>2, <1>3
    <2>2. /\ n >= 1 /\ queue.head = cells[1] /\ m = data[cells[1]]
          /\ Rest(cells, n) \in [1 .. n - 1 -> heap']
          /\ queue'.head = next[cells[1]] /\ queue'.tail = queue.tail
          /\ Chained(n - 1, Rest(cells, n))'
          /\ \A i \in 1 .. n - 1 : data'[Rest(cells, n)[i]] = data[cells[i + 1]]
      BY <1>1, <2>1, PopChained
    <2>3. QED
      BY <1>4, <2>2
  <1>6. m = last + 1 /\ m # NULL /\ last' = last + 1
    <2>1. 1 \in 1 .. n
      BY <1>5
    <2>2. m = last + 1
      BY <1>3, <1>5, <2>1
    <2>3. QED
      BY <1>1, <1>2, <2>2, TicketAssumption
  <1>7. Messages(n - 1, rest)'
    <2>1. n - 1 = pushed' - last'
      BY <1>1, <1>2, <1>3, <1>6
    <2>2. \A i \in 1 .. n - 1 : data'[rest[i]] = last' + i
      <3> TAKE i \in 1 .. n - 1
      <3>1. i + 1 \in 1 .. n /\ data'[rest[i]] = data[cells[i + 1]]
        BY <1>5
      <3>2. data'[rest[i]] = last + (i + 1)
        BY <1>3, <3>1
      <3>3. QED
        BY <1>1, <1>6, <3>2
    <2>3. QED
      BY <1>5, <2>1, <2>2 DEF Messages, Chained
  <1>8. QED
    BY <1>2, <1>4, <1>5, <1>6, <1>7

\* With the message chain empty the pop returns NULL and changes nothing.
LEMMA PopNothing ==
  ASSUME Popped, queue.head = NULL
  PROVE  got' = NULL /\ UNCHANGED <<qvars, last, pushed>>
  BY DEF Popped, queue_pop, PopEmpty, PopRecycled, PopFreed

\* During the traffic the lists are tidy as well.
LEMMA ShapeTidy ==
  ASSUME NEW n \in Nat, NEW cells, NEW t \in Nat, NEW spare,
         Shape(n, cells, t, spare), phase = "traffic"
  PROVE  Tidy(n, cells, t, spare)
  BY DEF Shape, Messages, Spares, Tidy, Chained

\* A push hangs its cell behind the message chain; if the cell is reused, the
\* free chain loses its first one.
LEMMA PushShape ==
  ASSUME IntactInv, phase = "traffic", phase' = phase, lock_queue_push, ShapeInv
  PROVE  ShapeInv'
  <1> SUFFICES ASSUME ~leftOver' PROVE ShapeInv'
    BY DEF ShapeInv
  <1>1. /\ QueueTypeOK(Ticket) /\ UniqueOwner /\ OwnedIsAllocated
        /\ pushed \in 0 .. MaxPush /\ last \in Nat /\ pushed \in Nat
    BY MaxPushAssumption DEF IntactInv, TypeOK, ListsIntact
  <1>2. PICK m : m = pushed + 1
    OBVIOUS
  <1>3. /\ m \in Ticket /\ queue_push(m)
        /\ pushed' = pushed + 1 /\ last' = last
        /\ ~leftOver /\ ~LeftOverTail(tmp_queue')
    <2>1. queue_push(pushed + 1) /\ pushed < MaxPush /\ pushed' = pushed + 1 /\ last' = last
      BY DEF lock_queue_push
    <2>2. m \in Ticket
      BY <1>1, <1>2, <2>1, MaxPushAssumption DEF Ticket
    <2>3. ~leftOver /\ ~LeftOverTail(tmp_queue')
      BY DEF lock_queue_push, NoteLeftOver
    <2>4. QED
      BY <1>2, <2>1, <2>2, <2>3
  <1>4. PICK n \in Nat, t \in Nat :
          \E cells \in [1 .. n -> heap], spare \in [1 .. t -> heap] : Shape(n, cells, t, spare)
    BY <1>3 DEF ShapeInv
  <1>5. PICK cells \in [1 .. n -> heap], spare \in [1 .. t -> heap] : Shape(n, cells, t, spare)
    BY <1>4
  <1>6. /\ Tidy(n, cells, t, spare)
        /\ n = pushed - last /\ \A i \in 1 .. n : data[cells[i]] = last + i
    BY <1>5, ShapeTidy DEF Shape, Messages
  <1>7. TidyAndMore(n, cells, m)
    BY <1>1, <1>3, <1>6, PushTidy
  <1>8. PICK p \in heap' : \E u \in Nat : \E left \in [1 .. u -> heap'] :
          /\ More(cells, n, p) \in [1 .. n + 1 -> heap']
          /\ Tidy(n + 1, More(cells, n, p), u, left)'
          /\ data'[p] = m /\ \A i \in 1 .. n : data'[cells[i]] = data[cells[i]]
    BY <1>7 DEF TidyAndMore
  <1>9. PICK u \in Nat : \E left \in [1 .. u -> heap'] :
          /\ More(cells, n, p) \in [1 .. n + 1 -> heap']
          /\ Tidy(n + 1, More(cells, n, p), u, left)'
          /\ data'[p] = m /\ \A i \in 1 .. n : data'[cells[i]] = data[cells[i]]
    BY <1>8
  <1>10. PICK more : more = More(cells, n, p)
    OBVIOUS
  <1>11. PICK left \in [1 .. u -> heap'] :
          /\ more \in [1 .. n + 1 -> heap']
          /\ Tidy(n + 1, more, u, left)'
          /\ data'[p] = m /\ \A i \in 1 .. n : data'[cells[i]] = data[cells[i]]
    BY <1>9, <1>10
  <1>12. more[n + 1] = p /\ \A i \in 1 .. n : more[i] = cells[i]
    BY <1>10 DEF More
  <1>13. \A i \in 1 .. n + 1 : data'[more[i]] = last' + i
    <2> TAKE i \in 1 .. n + 1
    <2>1. CASE i = n + 1
      BY <1>1, <1>2, <1>3, <1>6, <1>11, <1>12, <2>1
    <2>2. CASE i \in 1 .. n
      BY <1>3, <1>6, <1>11, <1>12, <2>2
    <2>3. QED
      BY <2>1, <2>2
  <1>14. n + 1 = pushed' - last' /\ n + 1 \in Nat
    BY <1>1, <1>3, <1>6
  <1>15. Shape(n + 1, more, u, left)'
    BY <1>11, <1>13, <1>14 DEF Shape, Messages, Spares, Tidy, Chained
  <1>16. \E cs \in [1 .. n + 1 -> heap'], sp \in [1 .. u -> heap'] : Shape(n + 1, cs, u, sp)'
    BY <1>11, <1>15
  <1>17. QED
    BY <1>14, <1>16 DEF ShapeInv

\* During the traffic a popped cell joins the free chain, or is freed.
LEMMA PopTrafficShape ==
  ASSUME IntactInv, phase = "traffic", phase' = phase, lock_queue_pop, ShapeInv
  PROVE  ShapeInv'
  <1> SUFFICES ASSUME ~leftOver' PROVE ShapeInv'
    BY DEF ShapeInv
  <1>1. QueueTypeOK(Ticket) /\ OwnedIsAllocated
    BY DEF IntactInv, TypeOK, ListsIntact
  <1>2. Popped /\ ~leftOver /\ ~LeftOverTail(queue')
    BY DEF lock_queue_pop, NoteLeftOver, Popped
  <1>3. PICK n \in Nat, t \in Nat :
          \E cells \in [1 .. n -> heap], spare \in [1 .. t -> heap] : Shape(n, cells, t, spare)
    BY <1>2 DEF ShapeInv
  <1>4. PICK cells \in [1 .. n -> heap], spare \in [1 .. t -> heap] : Shape(n, cells, t, spare)
    BY <1>3
  <1>5. CASE queue.head = NULL
    <2>1. UNCHANGED <<queue, tmp_queue, next, data, heap, last, pushed, phase>>
      BY <1>2, <1>5, PopNothing DEF qvars
    <2>2. Shape(n, cells, t, spare)'
      BY <1>4, <2>1 DEF Shape, Messages, Spares
    <2>3. \E cs \in [1 .. n -> heap'], sp \in [1 .. t -> heap'] : Shape(n, cs, t, sp)'
      BY <2>1, <2>2
    <2>4. QED
      BY <2>3 DEF ShapeInv
  <1>6. CASE queue.head # NULL
    <2>1. Tidy(n, cells, t, spare) /\ Messages(n, cells)
      BY <1>4, ShapeTidy DEF Shape
    <2>2. PICK rest : rest = Rest(cells, n)
      OBVIOUS
    <2>3. n >= 1 /\ rest \in [1 .. n - 1 -> heap'] /\ Messages(n - 1, rest)'
      BY <1>2, <1>6, <2>1, <2>2, PopShape
    <2>4. PICK m \in Ticket \cup {NULL} : queue_pop(m)
      BY <1>2 DEF Popped
    <2>5. PICK u \in Nat : \E left \in [1 .. u -> heap'] : Tidy(n - 1, Rest(cells, n), u, left)'
      BY <1>1, <1>2, <1>6, <2>1, <2>4, PopTidy
    <2>6. PICK left \in [1 .. u -> heap'] : Tidy(n - 1, rest, u, left)'
      BY <2>2, <2>5
    <2>7. Shape(n - 1, rest, u, left)'
      BY <2>3, <2>6 DEF Shape, Spares, Tidy
    <2>8. \E cs \in [1 .. n - 1 -> heap'], sp \in [1 .. u -> heap'] : Shape(n - 1, cs, u, sp)'
      BY <2>3, <2>7
    <2>9. n - 1 \in Nat
      BY <2>3
    <2>10. QED
      BY <2>8, <2>9 DEF ShapeInv
  <1>7. QED
    BY <1>5, <1>6

\* release_buf_queue frees the free chain cell by cell.
LEMMA FreeCellShape ==
  ASSUME IntactInv, FreeCell, ShapeInv
  PROVE  ShapeInv'
  <1> SUFFICES ASSUME ~leftOver' PROVE ShapeInv'
    BY DEF ShapeInv
  <1>1. QueueTypeOK(Ticket) /\ heap \in SUBSET Cell
    BY DEF IntactInv, TypeOK, QueueTypeOK
  <1>2. /\ phase = "buf" /\ phase' = "buf" /\ togo > 0 /\ togo' = togo - 1
        /\ heap' = heap \ {tmp_queue.head}
        /\ UNCHANGED <<queue, next, data, pushed, last>> /\ ~leftOver
    BY DEF FreeCell
  <1>3. PICK n \in Nat, t \in Nat :
          \E cells \in [1 .. n -> heap], spare \in [1 .. t -> heap] : Shape(n, cells, t, spare)
    BY <1>2 DEF ShapeInv
  <1> PICK cells \in [1 .. n -> heap], spare \in [1 .. t -> heap] : Shape(n, cells, t, spare)
    BY <1>3
  <1>4. Messages(n, cells) /\ Spares(t, spare, n, cells) /\ togo = t
    BY <1>2 DEF Shape
  <1>5. /\ t = tmp_queue.size /\ Distinct(spare) /\ IsChain(next, tmp_queue.head, spare)
        /\ \A i \in 1 .. n, j \in 1 .. t : cells[i] # spare[j]
    BY <1>4 DEF Spares
  <1>6. /\ t >= 1 /\ 1 \in 1 .. t /\ DOMAIN spare = 1 .. t
        /\ tmp_queue.head = spare[1] /\ spare[1] \in Cell
    <2>1. t >= 1 /\ 1 \in 1 .. t /\ DOMAIN spare = 1 .. t
      BY <1>2, <1>4
    <2>2. spare[1] \in Cell
      BY <1>1, <2>1
    <2>3. tmp_queue.head = spare[1]
      BY <1>5, <2>1 DEF IsChain
    <2>4. QED
      BY <2>1, <2>2, <2>3
  <1>7. PICK p \in Cell : p = tmp_queue.head /\ p # NULL
    BY <1>6, NullAssumption
  <1> DEFINE rest == Rest(spare, t)
  <1>8. /\ DOMAIN rest = 1 .. t - 1 /\ t - 1 \in Nat
        /\ \A i \in 1 .. t - 1 : rest[i] = spare[i + 1] /\ i + 1 \in 1 .. t
    BY <1>6 DEF Rest
  <1>9. /\ rest \in [1 .. t - 1 -> heap \ {p}]
        /\ Distinct(rest)
        /\ IsChain(next, next[p], rest)
    BY <1>1, <1>5, <1>7, ChainRest
  <1>. HIDE DEF rest
  <1>10. /\ tmp_queue'.head = next[p] /\ tmp_queue'.tail = tmp_queue.tail
         /\ tmp_queue'.size = t - 1
    <2>1. Decrement(tmp_queue.size) = t - 1
      BY <1>5, <1>6, SizeAssumption DEF Decrement, INT_MIN
    <2>2. QED
      BY <1>1, <1>7, <2>1 DEF FreeCell, QueueTypeOK, List
  <1>11. \A i \in 1 .. n, j \in 1 .. t - 1 : cells[i] # rest[j]
    BY <1>5, <1>8
  <1>12. Spares(t - 1, rest, n, cells)'
    BY <1>2, <1>9, <1>10, <1>11 DEF Spares
  <1>13. \A i \in 1 .. n : cells[i] # next[p] /\ cells[i] # p /\ cells[i] \in Cell
    <2> TAKE i \in 1 .. n
    <2>1. next[p] = NULL \/ (1 \in 1 .. t - 1 /\ next[p] = rest[1])
      BY <1>8, <1>9 DEF IsChain
    <2>2. cells[i] \in Cell /\ cells[i] # NULL
      BY <1>1, NullAssumption
    <2>3. cells[i] # p
      BY <1>5, <1>6, <1>7
    <2>4. QED
      BY <1>11, <2>1, <2>2, <2>3
  <1>14. Messages(n, cells)'
    BY <1>2, <1>4, <1>10, <1>13 DEF Messages
  <1>15. cells \in [1 .. n -> heap'] /\ rest \in [1 .. t - 1 -> heap']
    BY <1>2, <1>7, <1>9, <1>13
  <1>16. Shape(n, cells, t - 1, rest)'
    BY <1>2, <1>4, <1>12, <1>14 DEF Shape
  <1>17. \E cs \in [1 .. n -> heap'], sp \in [1 .. t - 1 -> heap'] : Shape(n, cs, t - 1, sp)'
    BY <1>15, <1>16
  <1>18. QED
    BY <1>8, <1>17 DEF ShapeInv

\* A turn of release_queue's loop; the NULL that ends it finds the message
\* list empty.
LEMMA FreeMessageShape ==
  ASSUME IntactInv, FreeMessage, ShapeInv
  PROVE  ShapeInv'
  <1> SUFFICES ASSUME ~leftOver' PROVE ShapeInv'
    BY DEF ShapeInv
  <1>1. /\ Popped /\ phase = "release" /\ ~leftOver
        /\ phase' = IF got' = NULL THEN "released" ELSE "release"
    BY DEF FreeMessage, Popped
  <1>2. PICK n \in Nat, t \in Nat :
          \E cells \in [1 .. n -> heap], spare \in [1 .. t -> heap] : Shape(n, cells, t, spare)
    BY <1>1 DEF ShapeInv
  <1> PICK cells \in [1 .. n -> heap], spare \in [1 .. t -> heap] : Shape(n, cells, t, spare)
    BY <1>2
  <1>3. Messages(n, cells)
    BY DEF Shape
  <1> DEFINE none == [i \in 1 .. 0 |-> NULL]
  <1>4. none \in [1 .. 0 -> heap'] /\ 0 \in Nat
    OBVIOUS
  <1>. HIDE DEF none
  <1>5. CASE queue.head = NULL
    <2>1. got' = NULL /\ UNCHANGED <<queue, tmp_queue, next, data, heap, last, pushed>>
      BY <1>1, <1>5, PopNothing DEF qvars
    <2>2. n = 0
      <3>1. IsChain(next, NULL, cells)
        BY <1>3, <1>5 DEF Messages
      <3>2. \A i \in 1 .. n : cells[i] # NULL
        BY NullAssumption DEF IntactInv, TypeOK, QueueTypeOK
      <3>3. 1 \notin 1 .. n
        BY <3>1, <3>2 DEF IsChain
      <3>4. QED
        BY <3>3
    <2>3. Messages(n, cells)'
      BY <1>3, <2>1 DEF Messages
    <2>4. Shape(n, cells, 0, none)'
      BY <1>1, <2>1, <2>2, <2>3 DEF Shape
    <2>5. \E cs \in [1 .. n -> heap'], sp \in [1 .. 0 -> heap'] : Shape(n, cs, 0, sp)'
      BY <1>4, <2>1, <2>4
    <2>6. QED
      BY <1>4, <2>5 DEF ShapeInv
  <1>6. CASE queue.head # NULL
    <2>1. /\ n >= 1 /\ got' # NULL
          /\ Rest(cells, n) \in [1 .. n - 1 -> heap']
          /\ Messages(n - 1, Rest(cells, n))'
      BY <1>1, <1>3, <1>6, PopShape
    <2>2. Shape(n - 1, Rest(cells, n), 0, none)'
      BY <1>1, <2>1 DEF Shape
    <2>3. \E cs \in [1 .. n - 1 -> heap'], sp \in [1 .. 0 -> heap'] : Shape(n - 1, cs, 0, sp)'
      BY <1>4, <2>1, <2>2
    <2>4. n - 1 \in Nat
      BY <2>1
    <2>5. QED
      BY <1>4, <2>3, <2>4 DEF ShapeInv
  <1>7. QED
    BY <1>5, <1>6

\* The steps that only change the phase keep what the next phase needs.
LEMMA PhaseShape ==
  ASSUME ShapeInv, LifeInv, UNCHANGED vars,
         \/ phase' = phase /\ togo' = togo
         \/ release_buf_queue
         \/ release_queue
  PROVE  ShapeInv'
  <1> SUFFICES ASSUME ~leftOver' PROVE ShapeInv'
    BY DEF ShapeInv
  <1>1. UNCHANGED <<queue, tmp_queue, next, data, heap, pushed, last, leftOver>>
    BY DEF vars, qvars
  <1>2. PICK n \in Nat, t \in Nat :
          \E cells \in [1 .. n -> heap], spare \in [1 .. t -> heap] : Shape(n, cells, t, spare)
    BY <1>1 DEF ShapeInv
  <1> PICK cells \in [1 .. n -> heap], spare \in [1 .. t -> heap] : Shape(n, cells, t, spare)
    BY <1>2
  <1>3. Messages(n, cells)'
    BY <1>1 DEF Shape, Messages
  <1>4. phase \in {"traffic", "buf"} => Spares(t, spare, n, cells)'
    BY <1>1 DEF Shape, Spares
  <1>5. Shape(n, cells, t, spare)'
    <2>1. CASE phase' = phase /\ togo' = togo
      BY <1>1, <1>3, <1>4, <2>1 DEF Shape
    <2>2. CASE release_buf_queue
      <3>1. phase = "traffic" /\ phase' = "buf" /\ togo' = tmp_queue.size
        BY <2>2 DEF release_buf_queue
      <3>2. togo' = t
        BY <3>1 DEF Shape, Spares
      <3>3. QED
        BY <1>3, <1>4, <3>1, <3>2 DEF Shape
    <2>3. CASE release_queue
      BY <1>3, <2>3 DEF release_queue, Shape
    <2>4. QED
      BY <2>1, <2>2, <2>3
  <1>6. \E cs \in [1 .. n -> heap'], sp \in [1 .. t -> heap'] : Shape(n, cs, t, sp)'
    BY <1>1, <1>5
  <1>7. QED
    BY <1>6 DEF ShapeInv

LEMMA ShapeNext ==
  LifeInv /\ ShapeInv /\ WholeInv /\ [LifeNext]_lifeVars => ShapeInv' /\ WholeInv'
  <1> SUFFICES ASSUME LifeInv, ShapeInv, WholeInv, [LifeNext]_lifeVars
               PROVE  ShapeInv' /\ WholeInv'
    OBVIOUS
  <1>1. IntactInv
    BY DEF LifeInv
  <1>2. CASE Traffic
    <2>1. ShapeInv'
      BY <1>1, <1>2, PushShape, PopTrafficShape DEF Traffic, Next
    <2>2. WholeInv'
      BY <1>2 DEF Traffic, WholeInv
    <2>3. QED
      BY <2>1, <2>2
  <1>3. CASE release_buf_queue
    <2>1. UNCHANGED vars /\ WholeInv'
      BY <1>3 DEF release_buf_queue, WholeInv, vars
    <2>2. QED
      BY <1>3, <2>1, PhaseShape
  <1>4. CASE FreeCell
    BY <1>1, <1>4, FreeCellShape DEF FreeCell, WholeInv
  <1>5. CASE release_queue
    <2>1. UNCHANGED vars /\ leftOver' = leftOver /\ phase' = "release"
      BY <1>5 DEF release_queue, vars
    <2>2. ASSUME phase = "buf" /\ whole' = whole PROVE WholeInv'
      BY <2>1, <2>2 DEF WholeInv
    <2>3. ASSUME whole' = ~leftOver PROVE WholeInv'
      BY <2>1, <2>3 DEF WholeInv
    <2>4. WholeInv'
      BY <1>5, <2>2, <2>3 DEF release_queue
    <2>5. QED
      BY <1>5, <2>1, <2>4, PhaseShape
  <1>6. CASE FreeMessage
    BY <1>1, <1>6, FreeMessageShape DEF FreeMessage, WholeInv
  <1>7. CASE UNCHANGED lifeVars
    <2>1. UNCHANGED vars /\ phase' = phase /\ togo' = togo /\ WholeInv'
      BY <1>7 DEF lifeVars, WholeInv, vars
    <2>2. QED
      BY <2>1, PhaseShape
  <1>8. QED
    BY <1>2, <1>3, <1>4, <1>5, <1>6, <1>7 DEF LifeNext

LEMMA ShapeHoldsAll == LifeInv /\ ShapeInv /\ ~leftOver => AllQueued
  <1> SUFFICES ASSUME LifeInv, ShapeInv, ~leftOver PROVE AllQueued
    OBVIOUS
  <1>1. PICK n \in Nat, t \in Nat :
          \E cells \in [1 .. n -> heap], spare \in [1 .. t -> heap] : Shape(n, cells, t, spare)
    BY DEF ShapeInv
  <1>2. PICK cells \in [1 .. n -> heap], spare \in [1 .. t -> heap] : Shape(n, cells, t, spare)
    BY <1>1
  <1>3. cells \in [1 .. n -> Cell] /\ DOMAIN cells = 1 .. n
    BY DEF LifeInv, IntactInv, TypeOK, QueueTypeOK
  <1>4. /\ n = pushed - last /\ IsChain(next, queue.head, cells)
        /\ \A i \in 1 .. n : data[cells[i]] = last + i
    BY <1>2 DEF Shape, Messages
  <1>5. QED
    BY <1>3, <1>4 DEF AllQueued

\* As long as no tail is left over, no push or pop loses a message: the list
\* holds exactly what was pushed and not popped, in order.
THEOREM LosesNothing == LifeSpec => []NothingLostBeforeLeftOver
  <1>1. LifeInv /\ ShapeInv => NothingLostBeforeLeftOver
    BY ShapeHoldsAll DEF NothingLostBeforeLeftOver
  <1>2. QED
    BY LifeInitHolds, ShapeInit, LifeStep, ShapeNext, <1>1, PTL DEF LifeSpec

\* A queue released before a tail was left over gives back its whole free
\* list and frees every message that was waiting.
THEOREM ReleasesAll == LifeSpec => []ReleaseFreesAll
  <1>1. LifeInv /\ ShapeInv /\ WholeInv => (phase = "buf" /\ whole => AllQueued)
    BY ShapeHoldsAll DEF WholeInv
  <1>2. ASSUME LifeInv, ShapeInv, WholeInv, whole, phase \in {"buf", "released"}
        PROVE  /\ phase = "buf" /\ togo = 0 => tmp_queue.head = NULL /\ tmp_queue.size = 0
               /\ phase = "released" => queue.head = NULL /\ last = pushed
    <2>1. ~leftOver
      BY <1>2 DEF WholeInv
    <2>2. PICK n \in Nat, t \in Nat :
            \E cells \in [1 .. n -> heap], spare \in [1 .. t -> heap] : Shape(n, cells, t, spare)
      BY <1>2, <2>1 DEF ShapeInv
    <2>3. PICK cells \in [1 .. n -> heap], spare \in [1 .. t -> heap] : Shape(n, cells, t, spare)
      BY <2>2
    <2>4. pushed \in Nat /\ last \in Nat
      BY <1>2, MaxPushAssumption DEF LifeInv, IntactInv, TypeOK
    <2>5. ASSUME phase = "buf", togo = 0
          PROVE  tmp_queue.head = NULL /\ tmp_queue.size = 0
      <3>1. t = 0 /\ tmp_queue.size = t /\ IsChain(next, tmp_queue.head, spare)
        BY <2>3, <2>5 DEF Shape, Spares
      <3>2. QED
        BY <3>1 DEF IsChain
    <2>6. ASSUME phase = "released"
          PROVE  queue.head = NULL /\ last = pushed
      <3>1. n = 0 /\ n = pushed - last /\ IsChain(next, queue.head, cells)
        BY <2>3, <2>6 DEF Shape, Messages
      <3>2. QED
        BY <2>4, <3>1 DEF IsChain
    <2>7. QED
      BY <2>5, <2>6
  <1>3. LifeInv /\ ShapeInv /\ WholeInv => ReleaseFreesAll
    BY <1>1, <1>2 DEF ReleaseFreesAll
  <1>4. QED
    BY LifeInitHolds, ShapeInit, LifeStep, ShapeNext, <1>3, PTL DEF LifeSpec

-----------------------------------------------------------------------------
(* The refinement.  A step is exact as long as no tail is left over, and    *)
(* from then on at worst leaves out some of the messages.                   *)

\* Leaving messages out is what LossyFifo allows once it is lossy.
LEMMA ThinnerRemains ==
  ASSUME NEW S, NEW s \in Seq(S), NEW y, NEW L, L = Len(s), Thinner(y, s, L), leftOver
  PROVE  y \in Fifo!Remains(s)
  <1>1. L \in Nat
    BY LenProperties
  <1>2. PICK K \in Nat : \E e \in [1 .. K -> 1 .. L] :
           Rising(e, K) /\ K <= L /\ y = [k \in 1 .. K |-> s[e[k]]]
    BY DEF Thinner
  <1>3. PICK e \in [1 .. K -> 1 .. L] :
           Rising(e, K) /\ K <= L /\ y = [k \in 1 .. K |-> s[e[k]]]
    BY <1>2
  <1>4. e \in Fifo!Increasing(K, L) /\ K \in 0 .. L
    BY <1>1, <1>3 DEF Rising, Fifo!Increasing
  <1>5. y \in {[i \in 1 .. K |-> s[f[i]]] : f \in Fifo!Increasing(K, L)}
    BY <1>3, <1>4
  <1>6. y \in Fifo!Subsequences(s)
    BY <1>4, <1>5 DEF Fifo!Subsequences
  <1>7. QED
    BY <1>6 DEF Fifo!Remains

\* The message list as long as no tail is left over.
LEMMA ShapeChained ==
  ASSUME IntactInv, ShapeInv, ~leftOver
  PROVE  \E n \in Nat : \E cells \in [1 .. n -> heap] :
           /\ Chained(n, cells)
           /\ phase = "traffic" => TailFits(queue, cells)
           /\ \A i \in 1 .. n : data[cells[i]] # NULL
  <1>1. PICK n \in Nat, t \in Nat :
          \E cells \in [1 .. n -> heap], spare \in [1 .. t -> heap] : Shape(n, cells, t, spare)
    BY DEF ShapeInv
  <1>2. PICK cells \in [1 .. n -> heap], spare \in [1 .. t -> heap] : Shape(n, cells, t, spare)
    BY <1>1
  <1>3. Messages(n, cells) /\ (phase = "traffic" => TailFits(queue, cells))
    BY <1>2 DEF Shape
  <1>4. \A i \in 1 .. n : data[cells[i]] # NULL
    <2> TAKE i \in 1 .. n
    <2>1. data[cells[i]] = last + i /\ last \in Nat
      BY <1>3, MaxPushAssumption DEF Messages, IntactInv, TypeOK
    <2>2. QED
      BY <2>1, TicketAssumption
  <1>5. Chained(n, cells)
    BY <1>3 DEF Messages, Chained
  <1>6. QED
    BY <1>3, <1>4, <1>5

RefineInv == LifeInv /\ ShapeInv /\ WholeInv /\ Listed

\* A push is a Put.
LEMMA RefinePush ==
  ASSUME RefineInv, RefineInv', lock_queue_push, phase = "traffic"
  PROVE  Contents' \in Fifo!Remains(Append(Contents, pushed + 1))
  <1>1. /\ QueueTypeOK(Ticket) /\ UniqueOwner /\ OwnedIsAllocated /\ QueueTypeOK(Ticket)'
        /\ leftOver \in BOOLEAN /\ IntactInv /\ ShapeInv /\ Listed /\ Listed'
    BY DEF RefineInv, LifeInv, IntactInv, TypeOK, ListsIntact
  <1>2. PICK m : m = pushed + 1
    OBVIOUS
  <1>3. m \in Ticket /\ queue_push(m)
    <2>1. queue_push(m) /\ pushed < MaxPush /\ pushed \in 0 .. MaxPush
      BY <1>1, <1>2 DEF lock_queue_push, IntactInv, TypeOK
    <2>2. QED
      BY <1>2, <2>1, MaxPushAssumption DEF Ticket
  <1>4. CASE leftOver
    <2>1. Contents \in Seq(Ticket) /\ Thinner(Contents', Append(Contents, m), Len(Contents) + 1)
      BY <1>1, <1>3, LossyPush
    <2>2. PICK s : s = Append(Contents, m)
      OBVIOUS
    <2>3. s \in Seq(Ticket) /\ Len(Contents) + 1 = Len(s)
      BY <1>3, <2>1, <2>2, AppendProperties
    <2>4. QED
      BY <1>2, <1>4, <2>1, <2>2, <2>3, ThinnerRemains
  <1>5. CASE ~leftOver
    <2>1. PICK n \in Nat : \E cells \in [1 .. n -> heap] :
             /\ Chained(n, cells)
             /\ phase = "traffic" => TailFits(queue, cells)
             /\ \A i \in 1 .. n : data[cells[i]] # NULL
      BY <1>1, <1>5, ShapeChained
    <2>2. PICK cells \in [1 .. n -> heap] :
             /\ Chained(n, cells) /\ TailFits(queue, cells)
             /\ \A i \in 1 .. n : data[cells[i]] # NULL
      BY <2>1
    <2>3. Distinct(cells) /\ IsChain(next, queue.head, cells)
      BY <2>2 DEF Chained
    <2>4. m # NULL
      BY <1>3, TicketAssumption DEF Ticket
    <2>5. Contents' = Append(Contents, m)
      BY <1>1, <1>3, <2>2, <2>3, <2>4, ExactPush
    <2>6. QED
      BY <1>2, <1>5, <2>5 DEF Fifo!Remains
  <1>6. QED
    BY <1>1, <1>4, <1>5

\* A pop is a Take, or a TakeNothing.
LEMMA RefinePop ==
  ASSUME RefineInv, RefineInv', Popped
  PROVE  Fifo!TakeResult(got')
  <1>1. /\ QueueTypeOK(Ticket) /\ OwnedIsAllocated /\ QueueTypeOK(Ticket)'
        /\ leftOver \in BOOLEAN /\ IntactInv /\ ShapeInv /\ Listed /\ Listed'
    BY DEF RefineInv, LifeInv, IntactInv, TypeOK, ListsIntact
  <1>2. PICK m \in Ticket \cup {NULL} : queue_pop(m) /\ got' = m
    BY DEF Popped
  <1>3. NULL \notin Ticket
    BY TicketAssumption DEF Ticket
  <1>4. CASE leftOver
    <2>1. /\ Contents \in Seq(Ticket)
          /\ \/ m = NULL /\ Thinner(Contents', Contents, Len(Contents))
             \/ /\ Contents # << >> /\ m = Head(Contents)
                /\ Thinner(Contents', Tail(Contents), Len(Contents) - 1)
      BY <1>1, <1>2, <1>3, LossyPop
    <2>2. CASE m = NULL /\ Thinner(Contents', Contents, Len(Contents))
      <3>1. Contents' \in Fifo!Remains(Contents)
        BY <1>4, <2>1, <2>2, ThinnerRemains
      <3>2. QED
        BY <1>2, <1>4, <2>2, <3>1 DEF Fifo!TakeResult, Fifo!TakeNothing
    <2>3. CASE /\ Contents # << >> /\ m = Head(Contents)
               /\ Thinner(Contents', Tail(Contents), Len(Contents) - 1)
      <3>1. PICK s : s = Tail(Contents)
        OBVIOUS
      <3>2. s \in Seq(Ticket) /\ Len(Contents) - 1 = Len(s)
        BY <2>1, <2>3, <3>1, HeadTailProperties
      <3>3. Contents' \in Fifo!Remains(Tail(Contents))
        BY <1>4, <2>3, <3>1, <3>2, ThinnerRemains
      <3>4. QED
        BY <1>2, <2>3, <3>3 DEF Fifo!TakeResult, Fifo!Take
    <2>4. QED
      BY <2>1, <2>2, <2>3
  <1>5. CASE ~leftOver
    <2>1. PICK n \in Nat : \E cells \in [1 .. n -> heap] :
             /\ Chained(n, cells)
             /\ phase = "traffic" => TailFits(queue, cells)
             /\ \A i \in 1 .. n : data[cells[i]] # NULL
      BY <1>1, <1>5, ShapeChained
    <2>2. PICK cells \in [1 .. n -> heap] :
             Chained(n, cells) /\ \A i \in 1 .. n : data[cells[i]] # NULL
      BY <2>1
    <2>3. \/ m = NULL /\ Contents = << >> /\ Contents' = << >>
          \/ m # NULL /\ Contents # << >> /\ m = Head(Contents) /\ Contents' = Tail(Contents)
      BY <1>1, <1>2, <1>3, <2>2, ExactPop
    <2>4. QED
      BY <1>2, <1>5, <2>3
         DEF Fifo!TakeResult, Fifo!Take, Fifo!TakeNothing, Fifo!Remains
  <1>6. QED
    BY <1>1, <1>4, <1>5

\* One step of the queue's life is a step of LossyFifo, or none.
LEMMA RefineStep ==
  ASSUME RefineInv, RefineInv', [LifeNext]_lifeVars
  PROVE  [Fifo!Next]_(Fifo!vars)
  <1>1. leftOver \in BOOLEAN /\ IntactInv
    BY DEF RefineInv, LifeInv, IntactInv, TypeOK
  <1>2. ASSUME queue' = queue, next' = next, data' = data, got' = got, leftOver' = leftOver
        PROVE  UNCHANGED Fifo!vars
    BY <1>2 DEF Fifo!vars, Contents
  <1>3. CASE FreeCell
    BY <1>2, <1>3 DEF FreeCell
  <1>4. CASE release_buf_queue \/ release_queue \/ UNCHANGED lifeVars
    BY <1>2, <1>4 DEF release_buf_queue, release_queue, lifeVars, vars, qvars
  <1>5. ASSUME Popped, leftOver' \in {leftOver, TRUE} PROVE Fifo!Next
    <2>1. Fifo!TakeResult(got')
      BY <1>5, RefinePop
    <2>2. got' \in Ticket \cup {NULL}
      BY <1>5 DEF Popped
    <2>3. QED
      BY <1>5, <2>1, <2>2 DEF Fifo!Next, Fifo!LossyStep
  <1>6. CASE FreeMessage
    <2>1. Popped /\ leftOver' = leftOver
      BY <1>6 DEF FreeMessage, Popped
    <2>2. QED
      BY <1>5, <2>1
  <1>7. CASE Traffic
    <2>1. NoteLeftOver => leftOver' \in {leftOver, TRUE}
      BY <1>1 DEF NoteLeftOver
    <2>2. CASE lock_queue_pop
      <3>1. Popped /\ leftOver' \in {leftOver, TRUE}
        BY <2>1, <2>2 DEF lock_queue_pop, Popped
      <3>2. QED
        BY <1>5, <3>1
    <2>3. CASE lock_queue_push
      <3>1. /\ pushed + 1 \in Ticket /\ got' = got /\ leftOver' \in {leftOver, TRUE}
        <4>1. pushed < MaxPush /\ got' = got /\ NoteLeftOver
          BY <2>3 DEF lock_queue_push
        <4>2. pushed \in 0 .. MaxPush
          BY <1>1 DEF IntactInv, TypeOK
        <4>3. pushed + 1 \in Ticket
          BY <4>1, <4>2, MaxPushAssumption DEF Ticket
        <4>4. QED
          BY <2>1, <4>1, <4>3
      <3>2. Contents' \in Fifo!Remains(Append(Contents, pushed + 1))
        BY <1>7, <2>3, RefinePush DEF Traffic
      <3>3. Fifo!Put(pushed + 1)
        BY <3>1, <3>2 DEF Fifo!Put
      <3>4. QED
        BY <3>1, <3>3 DEF Fifo!Next, Fifo!LossyStep
    <2>4. QED
      BY <1>7, <2>2, <2>3 DEF Traffic, Next
  <1>8. QED
    BY <1>3, <1>4, <1>6, <1>7 DEF LifeNext

LEMMA RefineInit == LifeInit => Fifo!Init
  <1> SUFFICES ASSUME LifeInit PROVE Fifo!Init
    OBVIOUS
  <1>1. queue.head = NULL /\ got = NULL /\ leftOver = FALSE
    BY DEF LifeInit, Init, QueueInit, EmptyList
  <1>2. Contents = << >>
    BY <1>1, EmptyContents
  <1>3. QED
    BY <1>1, <1>2 DEF Fifo!Init

\* The queue of queue.c, from its first push to its release, is a FIFO queue
\* until a tail is left over, and an ordered, at-most-once but lossy one from
\* then on.
THEOREM ImplementsFifo == LifeSpec => ImplementsLossyFifo
  <1>1. LifeInv => Listed
    BY IntactListed DEF LifeInv, IntactInv, TypeOK, ListsIntact
  <1>2. RefineInv /\ RefineInv' /\ [LifeNext]_lifeVars => [Fifo!Next]_(Fifo!vars)
    BY RefineStep
  <1>3. LifeInv /\ ShapeInv /\ WholeInv => RefineInv
    BY <1>1 DEF RefineInv
  <1>4. QED
    BY LifeInitHolds, ShapeInit, LifeStep, ShapeNext, RefineInit, <1>2, <1>3, PTL
       DEF LifeSpec, ImplementsLossyFifo, Fifo!Spec
=============================================================================
