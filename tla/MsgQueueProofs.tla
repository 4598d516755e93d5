--------------------------- MODULE MsgQueueProofs ---------------------------
(***************************************************************************)
(* What queue_push and queue_pop preserve and what they do to the messages *)
(* on the list, for every heap, every limit MAX_BUF_Q and every set of     *)
(* messages: facts about the two operations alone, cited by the proofs of  *)
(* the modules whose threads call them.                                    *)
(***************************************************************************)
EXTENDS MsgQueue, FiniteSetTheorems, SequenceTheorems, TLAPS

\* Every nonempty set of naturals has a least element: what the proofs below
\* use for induction, applied to the set of the counterexamples.
LEMMA LeastElement ==
  ASSUME NEW T \in SUBSET Nat, T # {}
  PROVE  \E x \in T : \A y \in T : x <= y
  <1> DEFINE R == {ss \in Nat \X Nat : ss[1] < ss[2]}
  <1>1. IsWellFoundedOn(R, Nat)
    BY NatLessThanWellFounded DEF OpToRel
  <1>2. PICK x \in T : \A y \in T : <<y, x>> \notin R
    <2> HIDE DEF R
    <2> QED
      BY <1>1, WFMin
  <1>3. ASSUME NEW y \in T
        PROVE  x <= y
    <2>1. <<y, x>> \notin R /\ x \in Nat /\ y \in Nat
      BY <1>2
    <2>2. QED
      BY <2>1
  <1>4. QED
    BY <1>3

\* The linking code changes at most one next pointer, and makes p the head
\* only of a list that had none.
LEMMA LinkFacts ==
  ASSUME NEW l \in List, NEW nx \in [Cell -> Pointer], NEW p \in Cell
  PROVE  /\ LinkCell(l, p) \in List
         /\ LinkCell(l, p).size = l.size
         /\ l.head = NULL => LinkCell(l, p).head = p
         /\ l.head # NULL => LinkCell(l, p).head = l.head
         /\ LinkNext(l, nx, p) \in [Cell -> Pointer]
         /\ l.head = NULL => LinkNext(l, nx, p) = nx
         /\ l.head # NULL =>
              \E t \in Cell : LinkNext(l, nx, p) = [nx EXCEPT ![t] = p]
  BY NullAssumption DEF List, Pointer, LinkCell, LinkNext

\* size-- stays within the int.
LEMMA DecrementType ==
  ASSUME NEW n \in INT_MIN .. INT_MAX
  PROVE  Decrement(n) \in INT_MIN .. INT_MAX
  BY SizeAssumption DEF Decrement, INT_MIN

\* The cells the queue can still reach are allocated and closed under next.
LEMMA KeptClosed ==
  ASSUME NEW M, QueueTypeOK(M), OwnedIsAllocated
  PROVE  /\ Kept \subseteq heap
         /\ {queue.head, tmp_queue.head} \subseteq Kept \cup {NULL}
         /\ \A c \in Kept : next[c] \in Kept \cup {NULL}
  <1>1. {queue.head, tmp_queue.head} \subseteq Kept \cup {NULL}
    BY DEF Kept, Roots, OwnedIsAllocated
  <1>2. ASSUME NEW c \in Kept, next[c] # NULL
        PROVE  next[c] \in Kept
    <2>1. next[c] \in heap
      BY <1>2 DEF Kept, OwnedIsAllocated
    <2>2. ASSUME NEW S \in SUBSET Cell, Roots \subseteq S, ClosedUnderNext(S)
          PROVE  next[c] \in S
      BY <1>2, <2>2 DEF Kept, ClosedUnderNext
    <2>3. QED
      BY <2>1, <2>2 DEF Kept
  <1>3. QED
    BY <1>1, <1>2 DEF Kept

\* Linking a cell that no pointer leads to, into either list, keeps every
\* cell with one owner: p is given exactly one.
LEMMA EnqueuePreserves ==
  ASSUME NEW M, NEW m \in M, NEW p \in Cell, NEW H \in SUBSET Cell,
         QueueTypeOK(M), Enqueue(p, m),
         heap' = H \cup {p},
         tmp_queue' \in List,
         queue.head \in H \cup {NULL},
         tmp_queue'.head \in H \cup {NULL},
         \A c \in H \ {p} : next[c] \in (H \cup {NULL}) \ {p},
         queue.head # p /\ tmp_queue'.head # p,
         queue.head # NULL => queue.head # tmp_queue'.head,
         \A c \in H \ {p} : next[c] # NULL => next[c] \notin {queue.head, tmp_queue'.head},
         \A c, d \in H \ {p} : next[c] # NULL /\ next[c] = next[d] => c = d
  PROVE  /\ QueueTypeOK(M)'
         /\ UniqueOwner'
         /\ OwnedIsAllocated'
  <1> DEFINE nx == [next EXCEPT ![p] = NULL]
  <1>1. /\ queue \in List
        /\ nx \in [Cell -> Pointer]
        /\ nx[p] = NULL
        /\ \A c \in H \ {p} : nx[c] = next[c]
        /\ \A c \in H \cup {p} : nx[c] # NULL => c \in H \ {p}
    BY DEF QueueTypeOK, Pointer
  <1>2. /\ queue' = LinkCell(queue, p)
        /\ next' = LinkNext(queue, nx, p)
        /\ data' = [data EXCEPT ![p] = m]
    BY DEF Enqueue
  <1>. HIDE DEF nx
  <1>3. QueueTypeOK(M)'
    <2>1. queue' \in List /\ next' \in [Cell -> Pointer]
      BY <1>1, <1>2, LinkFacts
    <2>2. data' \in [Cell -> M \cup {NULL}]
      BY <1>2 DEF QueueTypeOK
    <2>3. QED
      BY <2>1, <2>2 DEF QueueTypeOK
  <1>4. CASE queue.head = NULL
    <2>1. queue'.head = p /\ next' = nx
      BY <1>1, <1>2, <1>4, LinkFacts
    <2>2. UniqueOwner'
      BY <1>1, <2>1 DEF UniqueOwner
    <2>3. OwnedIsAllocated'
      BY <1>1, <2>1 DEF OwnedIsAllocated
    <2>4. QED
      BY <1>3, <2>2, <2>3
  <1>5. CASE queue.head # NULL
    <2>1. PICK t \in Cell : next' = [nx EXCEPT ![t] = p]
      BY <1>1, <1>2, <1>5, LinkFacts
    <2>2. queue'.head = queue.head
      BY <1>1, <1>2, <1>5, LinkFacts
    <2>3. /\ next'[t] = p
          /\ \A c \in Cell \ {t} : next'[c] = nx[c]
      BY <1>1, <2>1
    <2>4. \A c \in H \cup {p} : c # t /\ next'[c] # NULL =>
             c \in H \ {p} /\ next'[c] = next[c]
      BY <1>1, <2>3
    <2>5. UniqueOwner'
      BY <1>5, <2>2, <2>3, <2>4 DEF UniqueOwner
    <2>6. OwnedIsAllocated'
      BY <2>2, <2>3, <2>4 DEF OwnedIsAllocated
    <2>7. QED
      BY <1>3, <2>5, <2>6
  <1>6. QED
    BY <1>4, <1>5

-----------------------------------------------------------------------------

\* queue_push keeps the types, the single owner of every cell, and every
\* owned cell allocated.
LEMMA PushIntact ==
  ASSUME NEW M, NEW m \in M,
         QueueTypeOK(M), UniqueOwner, OwnedIsAllocated, queue_push(m)
  PROVE  QueueTypeOK(M)' /\ UniqueOwner' /\ OwnedIsAllocated'
  <1>1. CASE PushReused(m)
    <2> DEFINE p == tmp_queue.head
    <2>1. /\ p \in heap
          /\ next[p] \in heap \cup {NULL}
          /\ heap \in SUBSET Cell
      BY <1>1 DEF PushReused, OwnedIsAllocated, QueueTypeOK
    <2>2. tmp_queue' \in List /\ tmp_queue'.head = next[p]
      <3>1. Decrement(tmp_queue.size) \in INT_MIN .. INT_MAX
        BY DecrementType DEF QueueTypeOK, List
      <3>2. next[p] \in Pointer
        BY <2>1 DEF Pointer
      <3>3. QED
        BY <1>1, <3>1, <3>2 DEF PushReused, QueueTypeOK, List
    <2>3. heap' = heap \cup {p}
      BY <1>1, <2>1 DEF PushReused
    <2>4. Enqueue(p, m)
      BY <1>1 DEF PushReused
    <2>5. next[p] # p
      BY <1>1, <2>1 DEF UniqueOwner, PushReused
    <2>6. QED
      <3>1. p \in Cell
        BY <2>1
      <3>2. /\ queue.head \in heap \cup {NULL}
            /\ tmp_queue'.head \in heap \cup {NULL}
            /\ queue.head # p /\ tmp_queue'.head # p
        BY <1>1, <2>1, <2>2, <2>5 DEF UniqueOwner, OwnedIsAllocated, PushReused
      <3>3. \A c \in heap \ {p} : next[c] \in (heap \cup {NULL}) \ {p}
        BY <1>1, <2>1 DEF UniqueOwner, OwnedIsAllocated, PushReused
      <3>4. queue.head # NULL => queue.head # tmp_queue'.head
        BY <2>1, <2>2 DEF UniqueOwner
      <3>5. \A c \in heap \ {p} : next[c] # NULL => next[c] \notin {queue.head, tmp_queue'.head}
        BY <2>1, <2>2 DEF UniqueOwner
      <3>6. \A c, d \in heap \ {p} : next[c] # NULL /\ next[c] = next[d] => c = d
        BY DEF UniqueOwner
      <3>. HIDE DEF p
      <3>7. QED
        BY <2>1, <2>2, <2>3, <2>4, <3>1, <3>2, <3>3, <3>4, <3>5, <3>6, EnqueuePreserves
  <1>2. CASE PushMalloced(m)
    <2>1. PICK p \in Cell \ Kept : Enqueue(p, m) /\ heap' = Kept \cup {p}
      BY <1>2 DEF PushMalloced
    <2>2. tmp_queue' = tmp_queue /\ tmp_queue.head = NULL
      BY <1>2 DEF PushMalloced
    <2>3. /\ Kept \subseteq heap
          /\ Kept \in SUBSET Cell
          /\ {queue.head, tmp_queue.head} \subseteq Kept \cup {NULL}
          /\ \A c \in Kept : next[c] \in Kept \cup {NULL}
      BY KeptClosed DEF QueueTypeOK
    <2>4. p \notin Kept /\ p # NULL
      BY <2>1, NullAssumption
    <2>5. tmp_queue' \in List
      BY <2>2 DEF QueueTypeOK
    <2>6. /\ queue.head \in Kept \cup {NULL}
          /\ tmp_queue'.head \in Kept \cup {NULL}
          /\ queue.head # p /\ tmp_queue'.head # p
          /\ queue.head # NULL => queue.head # tmp_queue'.head
          /\ \A c \in Kept \ {p} : next[c] \in (Kept \cup {NULL}) \ {p}
      BY <2>2, <2>3, <2>4
    <2>7. \A c \in Kept \ {p} : next[c] # NULL => next[c] \notin {queue.head, tmp_queue'.head}
      BY <2>2, <2>3 DEF UniqueOwner
    <2>8. \A c, d \in Kept \ {p} : next[c] # NULL /\ next[c] = next[d] => c = d
      BY <2>3 DEF UniqueOwner
    <2>9. QED
      BY <2>1, <2>3, <2>5, <2>6, <2>7, <2>8, EnqueuePreserves
  <1>3. QED
    BY <1>1, <1>2 DEF queue_push

\* queue_pop preserves the same facts, whether the cell is recycled or freed.
LEMMA PopIntact ==
  ASSUME NEW M, NEW m,
         QueueTypeOK(M), UniqueOwner, OwnedIsAllocated, queue_pop(m)
  PROVE  QueueTypeOK(M)' /\ UniqueOwner' /\ OwnedIsAllocated'
  <1>1. CASE PopEmpty(m)
    BY <1>1 DEF PopEmpty, qvars, QueueTypeOK, UniqueOwner, OwnedIsAllocated
  <1> DEFINE p == queue.head
  <1>2. ASSUME queue.head # NULL
        PROVE  /\ p \in heap /\ p \in Cell
               /\ next[p] \in heap \cup {NULL}
               /\ next[p] # p
               /\ tmp_queue.head # p
               /\ \A c \in heap : next[c] # p
    BY <1>2, NullAssumption DEF UniqueOwner, OwnedIsAllocated, QueueTypeOK
  <1>3. ASSUME queue.head # NULL, queue' = [queue EXCEPT !.head = next[p]]
        PROVE  queue' \in List /\ queue'.head = next[p]
    BY <1>2, <1>3 DEF QueueTypeOK, List, Pointer
  <1>4. CASE PopFreed(m)
    <2>1. /\ p # NULL
          /\ queue'.head = next[p] /\ queue' \in List
          /\ heap' = heap \ {p}
          /\ tmp_queue' = tmp_queue /\ next' = next /\ data' = data
      BY <1>3, <1>4 DEF PopFreed
    <2>2. QueueTypeOK(M)'
      BY <2>1 DEF QueueTypeOK
    <2>3. UniqueOwner'
      BY <1>2, <2>1 DEF UniqueOwner
    <2>4. OwnedIsAllocated'
      BY <1>2, <2>1 DEF OwnedIsAllocated
    <2>5. QED
      BY <2>2, <2>3, <2>4
  <1>5. CASE PopRecycled(m)
    <2> DEFINE nx == [next EXCEPT ![p] = NULL]
    <2>1. /\ p # NULL
          /\ queue'.head = next[p] /\ queue' \in List
          /\ heap' = heap
          /\ tmp_queue' = [LinkCell(tmp_queue, p) EXCEPT !.size = @ + 1]
          /\ next' = LinkNext(tmp_queue, nx, p)
          /\ data' = [data EXCEPT ![p] = NULL]
          /\ tmp_queue.size <= MAX_BUF_Q
      BY <1>3, <1>5 DEF PopRecycled
    <2>2. /\ tmp_queue \in List
          /\ nx \in [Cell -> Pointer]
          /\ nx[p] = NULL
          /\ \A c \in heap \ {p} : nx[c] = next[c]
          /\ \A c \in heap : nx[c] # NULL => c # p
      BY <1>2, <2>1 DEF QueueTypeOK, Pointer
    <2>. HIDE DEF nx
    <2>3. /\ LinkCell(tmp_queue, p) \in List
          /\ LinkCell(tmp_queue, p).size = tmp_queue.size
          /\ tmp_queue.head = NULL => LinkCell(tmp_queue, p).head = p
          /\ tmp_queue.head # NULL => LinkCell(tmp_queue, p).head = tmp_queue.head
          /\ next' \in [Cell -> Pointer]
      BY <1>2, <2>1, <2>2, LinkFacts
    <2>4. tmp_queue' \in List /\ tmp_queue'.head = LinkCell(tmp_queue, p).head
      BY <2>1, <2>2, <2>3, SizeAssumption DEF List, INT_MIN
    <2>5. QueueTypeOK(M)'
      <3>1. data' \in [Cell -> M \cup {NULL}]
        BY <2>1 DEF QueueTypeOK
      <3>2. heap' \in SUBSET Cell
        BY <2>1 DEF QueueTypeOK
      <3>3. QED
        BY <2>1, <2>3, <2>4, <3>1, <3>2 DEF QueueTypeOK
    <2>6. CASE tmp_queue.head = NULL
      <3>1. tmp_queue'.head = p /\ next' = nx
        BY <1>2, <2>1, <2>2, <2>3, <2>4, <2>6, LinkFacts
      <3>2. UniqueOwner'
        BY <1>2, <2>1, <2>2, <3>1 DEF UniqueOwner
      <3>3. OwnedIsAllocated'
        BY <1>2, <2>1, <2>2, <3>1 DEF OwnedIsAllocated
      <3>4. QED
        BY <2>5, <3>2, <3>3
    <2>7. CASE tmp_queue.head # NULL
      <3>1. tmp_queue'.head = tmp_queue.head
        BY <2>3, <2>4, <2>7
      <3>2. PICK t \in Cell : next' = [nx EXCEPT ![t] = p]
        <4>1. p \in Cell
          BY <1>2, <2>1
        <4>. HIDE DEF p
        <4>2. QED
          BY <2>1, <2>2, <2>7, <4>1, LinkFacts
      <3>3. /\ next'[t] = p
            /\ \A c \in Cell \ {t} : next'[c] = nx[c]
        BY <2>2, <3>2
      <3>4. \A c \in heap : c # t /\ next'[c] # NULL => c # p /\ next'[c] = next[c]
        BY <2>2, <3>3 DEF QueueTypeOK
      <3>5. UniqueOwner'
        BY <1>2, <2>1, <3>1, <3>3, <3>4 DEF UniqueOwner
      <3>6. OwnedIsAllocated'
        BY <1>2, <2>1, <3>1, <3>3, <3>4 DEF OwnedIsAllocated
      <3>7. QED
        BY <2>5, <3>5, <3>6
    <2>8. QED
      BY <2>6, <2>7
  <1>6. QED
    BY <1>1, <1>4, <1>5 DEF queue_pop

-----------------------------------------------------------------------------
(* The lists as chains of distinct cells, and what the linking code does to *)
(* a chain.                                                                 *)

Distinct(cells) == \A i, j \in DOMAIN cells : cells[i] = cells[j] => i = j

TailFits(l, cells) ==
  /\ 1 \notin DOMAIN cells => l.tail = NULL
  /\ \A i \in DOMAIN cells :
       i + 1 \notin DOMAIN cells => l.tail = cells[i] \/ (i = 1 /\ l.tail = NULL)
\* A chain without its first cell, and with one cell more.
Rest(cells, n) == [i \in 1 .. n - 1 |-> cells[i + 1]]
More(cells, n, p) == [i \in 1 .. n + 1 |-> IF i = n + 1 THEN p ELSE cells[i]]

LEMMA ChainFrame ==
  ASSUME NEW nx, NEW ny, NEW h, NEW n \in Nat, NEW S, NEW cells \in [1 .. n -> S],
         IsChain(nx, h, cells), \A i \in 1 .. n : ny[cells[i]] = nx[cells[i]]
  PROVE  IsChain(ny, h, cells)
  BY DEF IsChain

LEMMA ChainRest ==
  ASSUME NEW nx, NEW h, NEW n \in Nat, NEW S \in SUBSET Cell, NEW cells \in [1 .. n -> S],
         h # NULL, Distinct(cells), IsChain(nx, h, cells)
  PROVE  /\ n >= 1 /\ n - 1 \in Nat /\ h = cells[1]
         /\ Rest(cells, n) \in [1 .. n - 1 -> S \ {h}]
         /\ Distinct(Rest(cells, n))
         /\ IsChain(nx, nx[h], Rest(cells, n))
         /\ \A i \in 1 .. n - 1 : Rest(cells, n)[i] = cells[i + 1]
  <1>1. n >= 1 /\ n - 1 \in Nat /\ h = cells[1]
    BY DEF IsChain
  <1>2. \A i \in 1 .. n - 1 : Rest(cells, n)[i] = cells[i + 1] /\ i + 1 \in 1 .. n
    BY DEF Rest
  <1>3. DOMAIN Rest(cells, n) = 1 .. n - 1 /\ DOMAIN cells = 1 .. n
    BY DEF Rest
  <1>4. \A i \in 2 .. n : cells[i] # h /\ cells[i] \in S
    BY <1>1, <1>3 DEF Distinct
  <1>5. Rest(cells, n) \in [1 .. n - 1 -> S \ {h}]
    BY <1>1, <1>4 DEF Rest
  <1>6. Distinct(Rest(cells, n))
    <2> SUFFICES ASSUME NEW i \in 1 .. n - 1, NEW j \in 1 .. n - 1,
                        Rest(cells, n)[i] = Rest(cells, n)[j]
                 PROVE  i = j
      BY <1>3 DEF Distinct
    <2>1. cells[i + 1] = cells[j + 1] /\ i + 1 \in 1 .. n /\ j + 1 \in 1 .. n
      BY <1>2
    <2>2. i + 1 = j + 1
      BY <1>3, <2>1 DEF Distinct
    <2>3. QED
      BY <2>2
  <1>7. IsChain(nx, nx[h], Rest(cells, n))
    <2>1. nx[h] = IF 1 \in 1 .. n - 1 THEN Rest(cells, n)[1] ELSE NULL
      <3>1. nx[cells[1]] = IF 2 \in 1 .. n THEN cells[2] ELSE NULL
        BY <1>1, <1>3 DEF IsChain
      <3>2. QED
        BY <1>1, <1>2, <3>1
    <2>2. ASSUME NEW i \in 1 .. n - 1
          PROVE  nx[Rest(cells, n)[i]] =
                   IF i + 1 \in 1 .. n - 1 THEN Rest(cells, n)[i + 1] ELSE NULL
      <3>1. nx[cells[i + 1]] = IF (i + 1) + 1 \in 1 .. n THEN cells[(i + 1) + 1] ELSE NULL
        BY <1>2, <1>3 DEF IsChain
      <3>2. QED
        BY <1>2, <3>1
    <2>3. QED
      BY <1>3, <2>1, <2>2 DEF IsChain
  <1>8. QED
    BY <1>1, <1>2, <1>5, <1>6, <1>7

\* The linking code writes next of the list's head or tail only.
LEMMA LinkFrame ==
  ASSUME NEW l \in List, NEW nx \in [Cell -> Pointer], NEW p \in Cell
  PROVE  /\ \A c \in Cell : c # l.head /\ c # l.tail => LinkNext(l, nx, p)[c] = nx[c]
         /\ l.head = NULL => LinkCell(l, p) = [l EXCEPT !.head = p]
         /\ l.head # NULL => LinkCell(l, p) = [l EXCEPT !.tail = p]
  BY DEF LinkNext, LinkCell, List, Pointer

\* Linking a new cell behind a chain whose tail fits makes a longer chain
\* whose tail fits.
LEMMA ChainLink ==
  ASSUME NEW l \in List, NEW nx \in [Cell -> Pointer], NEW p \in Cell, nx[p] = NULL,
         NEW n \in Nat, NEW cells \in [1 .. n -> Cell],
         Distinct(cells), \A i \in 1 .. n : cells[i] # p,
         IsChain(nx, l.head, cells), TailFits(l, cells)
  PROVE  /\ Distinct(More(cells, n, p))
         /\ IsChain(LinkNext(l, nx, p), LinkCell(l, p).head, More(cells, n, p))
         /\ TailFits(LinkCell(l, p), More(cells, n, p))
         /\ \A c \in Cell : (\A i \in 1 .. n : c # cells[i]) => LinkNext(l, nx, p)[c] = nx[c]
  <1> DEFINE more == More(cells, n, p)
  <1>1. /\ DOMAIN more = 1 .. n + 1 /\ DOMAIN cells = 1 .. n
        /\ more[n + 1] = p
        /\ \A i \in 1 .. n : more[i] = cells[i] /\ cells[i] \in Cell
    BY DEF More
  <1>. HIDE DEF more
  <1>2. Distinct(more)
    BY <1>1 DEF Distinct
  <1>3. CASE n = 0
    <2>1. l.head = NULL /\ l.tail = NULL
      BY <1>1, <1>3 DEF IsChain, TailFits
    <2>2. LinkNext(l, nx, p) = nx /\ LinkCell(l, p).head = p /\ LinkCell(l, p).tail = NULL
      BY <2>1 DEF LinkNext, LinkCell, List
    <2>3. DOMAIN more = {1} /\ more[1] = p
      BY <1>1, <1>3
    <2>4. IsChain(LinkNext(l, nx, p), LinkCell(l, p).head, more)
      BY <2>2, <2>3 DEF IsChain
    <2>5. TailFits(LinkCell(l, p), more)
      BY <2>2, <2>3 DEF TailFits
    <2>6. QED
      BY <1>2, <2>2, <2>4, <2>5 DEF more
  <1>4. CASE n # 0
    <2>1. n \in 1 .. n /\ 1 \in 1 .. n /\ n + 1 \notin 1 .. n
      BY <1>4
    <2>2. l.head = cells[1] /\ l.head # NULL
      BY <1>1, <2>1, NullAssumption DEF IsChain
    <2>3. l.tail = cells[n] \/ (n = 1 /\ l.tail = NULL)
      BY <1>1, <2>1 DEF TailFits
    <2>4. (IF l.tail = NULL THEN l.head ELSE l.tail) = cells[n]
      BY <1>1, <2>1, <2>2, <2>3, NullAssumption
    <2>5. LinkNext(l, nx, p) = [nx EXCEPT ![cells[n]] = p]
      BY <2>2, <2>4 DEF LinkNext
    <2>6. /\ LinkNext(l, nx, p)[cells[n]] = p
          /\ \A c \in Cell \ {cells[n]} : LinkNext(l, nx, p)[c] = nx[c]
      BY <1>1, <2>1, <2>5
    <2>7. LinkCell(l, p).head = cells[1] /\ LinkCell(l, p).tail = p
      BY <2>2 DEF LinkCell, List
    <2>. HIDE DEF More
    <2>8. IsChain(LinkNext(l, nx, p), LinkCell(l, p).head, more)
      <3>1. LinkCell(l, p).head = IF 1 \in 1 .. n + 1 THEN more[1] ELSE NULL
        BY <1>1, <2>1, <2>7
      <3>2. LinkNext(l, nx, p)[more[n + 1]] = NULL
        BY <1>1, <2>1, <2>6
      <3>3. LinkNext(l, nx, p)[more[n]] = more[n + 1]
        BY <1>1, <2>1, <2>6
      <3>4. ASSUME NEW i \in 1 .. n + 1, i < n
            PROVE  LinkNext(l, nx, p)[more[i]] = more[i + 1]
        <4>1. i \in 1 .. n /\ i + 1 \in 1 .. n
          BY <3>4
        <4>2. cells[i] # cells[n]
          BY <1>1, <2>1, <3>4, <4>1 DEF Distinct
        <4>3. nx[cells[i]] = cells[i + 1]
          BY <1>1, <4>1 DEF IsChain
        <4>4. QED
          BY <1>1, <2>6, <4>1, <4>2, <4>3
      <3>5. ASSUME NEW i \in 1 .. n + 1
            PROVE  LinkNext(l, nx, p)[more[i]] =
                     IF i + 1 \in 1 .. n + 1 THEN more[i + 1] ELSE NULL
        BY <3>2, <3>3, <3>4, <3>5
      <3>6. QED
        BY <1>1, <3>1, <3>5 DEF IsChain
    <2>9. TailFits(LinkCell(l, p), more)
      BY <1>1, <2>7 DEF TailFits
    <2>10. QED
      BY <1>2, <2>1, <2>6, <2>8, <2>9 DEF more
  <1>5. QED
    BY <1>3, <1>4

\* malloc hands out no cell of a chain that hangs off one of the two heads.
LEMMA ChainKept ==
  ASSUME NEW M, QueueTypeOK(M), OwnedIsAllocated,
         NEW n \in Nat, NEW cells \in [1 .. n -> heap],
         NEW h \in {queue.head, tmp_queue.head}, IsChain(next, h, cells)
  PROVE  \A i \in 1 .. n : cells[i] \in Kept
  <1> DEFINE T == {i \in 1 .. n : cells[i] \notin Kept}
  <1> SUFFICES ASSUME T # {} PROVE FALSE
    OBVIOUS
  <1>1. T \in SUBSET Nat
    OBVIOUS
  <1>2. PICK x \in T : \A y \in T : x <= y
    <2> HIDE DEF T
    <2> QED
      BY <1>1, LeastElement
  <1>3. /\ h \in Kept \cup {NULL}
        /\ \A c \in Kept : next[c] \in Kept \cup {NULL}
    BY KeptClosed
  <1>4. x \in 1 .. n /\ cells[x] \in heap /\ cells[x] # NULL /\ cells[x] \notin Kept
    BY NullAssumption DEF QueueTypeOK
  <1>5. CASE x = 1
    BY <1>3, <1>4, <1>5 DEF IsChain
  <1>6. CASE x # 1
    <2>1. x - 1 \in 1 .. n /\ ~(x <= x - 1)
      BY <1>4, <1>6
    <2>2. cells[x - 1] \in Kept
      BY <1>2, <2>1
    <2>3. next[cells[x - 1]] = cells[x]
      <3>1. (x - 1) + 1 = x
        BY <1>4
      <3>2. QED
        BY <1>4, <2>1, <3>1 DEF IsChain
    <2>4. QED
      BY <1>3, <1>4, <2>2, <2>3
  <1>7. QED
    BY <1>5, <1>6
-----------------------------------------------------------------------------
(* Contents.  A list whose cells have one owner each is a chain, Trail       *)
(* follows that chain, and the messages are those of its cells in its order. *)

\* The first n cells of a list whose head is h.
Path(nx, h, cells, n) ==
  /\ Distinct(cells)
  /\ n >= 1 => cells[1] = h
  /\ \A i \in 1 .. n : i < n => nx[cells[i]] = cells[i + 1]

\* A finite memory holds no more distinct cells than it has.
LEMMA DistinctBound ==
  ASSUME NEW n \in Nat, NEW cells \in [1 .. n -> Cell], Distinct(cells)
  PROVE  n <= Cardinality(Cell) /\ Cardinality(Cell) \in Nat
  <1>1. cells \in Injection(1 .. n, Cell)
    BY DEF Distinct, Injection, IsInjective
  <1>2. Cardinality(1 .. n) <= Cardinality(Cell)
    BY <1>1, FS_Injection, CellAssumption
  <1>3. Cardinality(1 .. n) = n
    BY FS_Interval
  <1>4. QED
    BY <1>2, <1>3, FS_CardinalityType, CellAssumption

\* Both lists end: following next from a head meets distinct cells only.
LEMMA ChainExists ==
  ASSUME NEW M, QueueTypeOK(M), UniqueOwner, OwnedIsAllocated,
         NEW h \in {queue.head, tmp_queue.head}
  PROVE  \E n \in Nat : \E cells \in [1 .. n -> heap] :
           Distinct(cells) /\ IsChain(next, h, cells)
  <1>1. /\ heap \in SUBSET Cell /\ h \in heap \cup {NULL}
        /\ \A c \in heap : next[c] \in heap \cup {NULL} /\ (next[c] # NULL => next[c] # h)
        /\ \A c, d \in heap : next[c] # NULL /\ next[c] = next[d] => c = d
    BY DEF QueueTypeOK, OwnedIsAllocated, UniqueOwner
  <1>2. NULL \notin heap
    BY <1>1, NullAssumption
  <1> DEFINE Long(n) == \E cells \in [1 .. n -> heap] : Path(next, h, cells, n)
             Room == {m \in Nat : \E n \in Nat : n + m = Cardinality(Cell) /\ Long(n)}
  <1>3. \A n \in Nat : Long(n) => Cardinality(Cell) - n \in Room
    <2> SUFFICES ASSUME NEW n \in Nat, Long(n) PROVE Cardinality(Cell) - n \in Room
      OBVIOUS
    <2>1. PICK cells \in [1 .. n -> heap] : Path(next, h, cells, n)
      OBVIOUS
    <2>2. cells \in [1 .. n -> Cell] /\ Distinct(cells)
      BY <1>1, <2>1 DEF Path
    <2>3. n <= Cardinality(Cell) /\ Cardinality(Cell) \in Nat
      BY <2>2, DistinctBound
    <2>4. QED
      BY <2>3
  <1>4. Long(0)
    <2>1. \E cells \in [1 .. 0 -> heap] : TRUE
      <3>1. [i \in 1 .. 0 |-> h] \in [1 .. 0 -> heap]
        OBVIOUS
      <3>2. QED
        BY <3>1
    <2>2. PICK cells \in [1 .. 0 -> heap] : TRUE
      BY <2>1
    <2>3. Path(next, h, cells, 0)
      BY DEF Path, Distinct
    <2>4. QED
      BY <2>3
  <1>. HIDE DEF Long
  <1>5. PICK m \in Room : \A k \in Room : m <= k
    <2>1. Room \in SUBSET Nat /\ Room # {}
      BY <1>3, <1>4
    <2>. HIDE DEF Room
    <2>2. QED
      BY <2>1, LeastElement
  <1>6. PICK n \in Nat : n + m = Cardinality(Cell) /\ Long(n)
    BY <1>5
  <1>7. ~ Long(n + 1)
    <2> SUFFICES ASSUME Long(n + 1) PROVE FALSE
      OBVIOUS
    <2>1. Cardinality(Cell) - (n + 1) \in Room
      BY <1>3
    <2>2. m \in Nat /\ m <= Cardinality(Cell) - (n + 1)
      BY <1>5, <2>1
    <2>3. QED
      BY <1>6, <2>2
  <1>8. PICK cells \in [1 .. n -> heap] : Path(next, h, cells, n)
    BY <1>6 DEF Long
  <1> DEFINE v == IF n = 0 THEN h ELSE next[cells[n]]
             more == [i \in 1 .. n + 1 |-> IF i = n + 1 THEN v ELSE cells[i]]
  <1>9. n # 0 => n \in 1 .. n /\ cells[n] \in heap
    OBVIOUS
  <1>10. v \in heap \cup {NULL}
    BY <1>1, <1>9
  <1>11. v = NULL
    <2> SUFFICES ASSUME v \in heap PROVE FALSE
      BY <1>10
    <2>1. \A i \in 1 .. n : cells[i] # v
      <3> SUFFICES ASSUME NEW i \in 1 .. n, cells[i] = v PROVE FALSE
        OBVIOUS
      <3>1. n # 0 /\ v = next[cells[n]] /\ v # NULL /\ cells[n] \in heap /\ n \in 1 .. n
        BY <1>2, <1>9
      <3>2. i # 1
        BY <1>1, <1>8, <3>1 DEF Path
      <3>3. i - 1 \in 1 .. n /\ i - 1 < n /\ (i - 1) + 1 = i
        BY <3>2
      <3>4. next[cells[i - 1]] = v
        BY <1>8, <3>3 DEF Path
      <3>5. cells[i - 1] = cells[n]
        BY <1>1, <3>1, <3>3, <3>4
      <3>6. QED
        BY <1>8, <3>1, <3>3, <3>5 DEF Path, Distinct
    <2>2. /\ more \in [1 .. n + 1 -> heap]
          /\ more[n + 1] = v
          /\ \A i \in 1 .. n : more[i] = cells[i]
      OBVIOUS
    <2>8. \A i \in 1 .. n : more[i] \in heap
      BY <2>2
    <2>9. DOMAIN more = 1 .. n + 1
      OBVIOUS
    <2>. HIDE DEF more, v
    <2>3. Distinct(more)
      BY <1>8, <2>1, <2>2, <2>9 DEF Distinct, Path
    <2>4. more[1] = h
      <3>1. CASE n = 0
        BY <2>2, <3>1 DEF v
      <3>2. CASE n # 0
        BY <1>8, <2>2, <3>2 DEF Path
      <3>3. QED
        BY <3>1, <3>2
    <2>5. \A i \in 1 .. n + 1 : i < n + 1 => next[more[i]] = more[i + 1]
      <3> TAKE i \in 1 .. n + 1
      <3>1. CASE i = n
        <4>1. v = next[cells[n]] /\ more[i] = cells[n]
          BY <1>9, <2>2, <3>1 DEF v
        <4>2. QED
          BY <2>2, <3>1, <4>1
      <3>2. CASE i < n
        BY <1>8, <2>2, <3>2 DEF Path
      <3>3. QED
        BY <3>1, <3>2
    <2>6. Path(next, h, more, n + 1)
      BY <2>3, <2>4, <2>5 DEF Path
    <2>7. QED
      BY <1>7, <2>2, <2>6 DEF Long
  <1>12. IsChain(next, h, cells)
    <2>1. h = IF 1 \in 1 .. n THEN cells[1] ELSE NULL
      BY <1>8, <1>11 DEF Path
    <2>2. ASSUME NEW i \in 1 .. n
          PROVE  next[cells[i]] = IF i + 1 \in 1 .. n THEN cells[i + 1] ELSE NULL
      <3>1. CASE i = n
        BY <1>11, <3>1
      <3>2. CASE i < n
        BY <1>8, <3>2 DEF Path
      <3>3. QED
        BY <3>1, <3>2
    <2>3. QED
      BY <2>1, <2>2 DEF IsChain
  <1>13. QED
    BY <1>8, <1>12 DEF Path

\* Trail follows the chain and then stays at NULL.
LEMMA TrailOfChain ==
  ASSUME NEW nx, NEW h, NEW n \in Nat, NEW cells \in [1 .. n -> Cell],
         Distinct(cells), IsChain(nx, h, cells)
  PROVE  /\ n <= Cardinality(Cell) /\ Cardinality(Cell) \in Nat
         /\ \A i \in 1 .. Cardinality(Cell) :
              Trail(nx, h)[i] = IF i \in 1 .. n THEN cells[i] ELSE NULL
  <1>1. PICK N \in Nat : N = Cardinality(Cell) /\ n <= N
    BY DistinctBound
  <1> DEFINE Step(f, i) ==
               IF i = 1 THEN h ELSE IF f[i - 1] = NULL THEN NULL ELSE nx[f[i - 1]]
             Good(f) == f = [i \in 1 .. N |-> Step(f, i)]
             g == [i \in 1 .. N |-> IF i \in 1 .. n THEN cells[i] ELSE NULL]
  <1>2. h = IF 1 \in 1 .. n THEN cells[1] ELSE NULL
    BY DEF IsChain
  <1>3. \A i \in 1 .. n : cells[i] # NULL /\
          nx[cells[i]] = IF i + 1 \in 1 .. n THEN cells[i + 1] ELSE NULL
    BY NullAssumption DEF IsChain
  <1>4. Good(g)
    <2>1. ASSUME NEW i \in 1 .. N PROVE g[i] = Step(g, i)
      <3>1. CASE i = 1
        BY <1>2, <3>1
      <3>2. CASE i # 1
        <4>1. i - 1 \in 1 .. N /\ (i - 1) + 1 = i
          BY <3>2
        <4>2. CASE i - 1 \in 1 .. n
          BY <1>3, <3>2, <4>1, <4>2
        <4>3. CASE i - 1 \notin 1 .. n
          BY <3>2, <4>1, <4>3
        <4>4. QED
          BY <4>2, <4>3
      <3>3. QED
        BY <3>1, <3>2
    <2>2. QED
      BY <2>1
  <1>5. Trail(nx, h) = CHOOSE f : Good(f)
    BY <1>1 DEF Trail
  <1>6. Good(Trail(nx, h))
    <2>. HIDE DEF Good
    <2>1. QED
      BY <1>4, <1>5
  <1>7. PICK tr : tr = Trail(nx, h)
    OBVIOUS
  <1>8. \A i \in 1 .. N : tr[i] = Step(tr, i)
    BY <1>6, <1>7
  <1>9. \A i \in 1 .. N : g[i] = Step(g, i)
    BY <1>4
  <1>. HIDE DEF g
  <1>10. \A i \in 1 .. N : tr[i] = g[i]
    <2> DEFINE Bad == {i \in 1 .. N : tr[i] # g[i]}
    <2>1. Bad \in SUBSET Nat
      OBVIOUS
    <2>2. ASSUME Bad # {} PROVE FALSE
      <3>1. PICK i \in Bad : \A j \in Bad : i <= j
        <4>. HIDE DEF Bad
        <4>1. QED
          BY <2>1, <2>2, LeastElement
      <3>2. i \in 1 .. N /\ tr[i] # g[i]
        OBVIOUS
      <3>3. i # 1
        BY <1>8, <1>9, <3>2
      <3>4. i - 1 \in 1 .. N /\ i - 1 \notin Bad
        BY <3>1, <3>2, <3>3
      <3>5. tr[i - 1] = g[i - 1]
        BY <3>4
      <3>6. QED
        BY <1>8, <1>9, <3>2, <3>5
    <2>3. QED
      BY <2>2
  <1>11. QED
    BY <1>1, <1>7, <1>10 DEF g

\* The members of a set of numbers can be put in ascending order.
LEMMA AscendingExists ==
  ASSUME NEW N \in Nat, NEW S \in SUBSET (1 .. N)
  PROVE  \E f \in [1 .. Cardinality(S) -> S] :
           /\ \A i, j \in 1 .. Cardinality(S) : i < j => f[i] < f[j]
           /\ \A s \in S : \E i \in 1 .. Cardinality(S) : f[i] = s
  <1> DEFINE Sorts(f, T, n) ==
               /\ f \in [1 .. n -> T]
               /\ \A i, j \in 1 .. n : i < j => f[i] < f[j]
               /\ \A s \in T : \E i \in 1 .. n : f[i] = s
             Sortable(T) == \E f : Sorts(f, T, Cardinality(T))
             Bad == {n \in Nat : \E T \in SUBSET (1 .. N) : Cardinality(T) = n /\ ~ Sortable(T)}
  <1>0. ASSUME NEW T \in SUBSET (1 .. N) PROVE IsFiniteSet(T)
    <2>1. IsFiniteSet(1 .. N)
      BY FS_Interval
    <2>2. QED
      BY <2>1, FS_Subset
  <1>1. ASSUME NEW T \in SUBSET (1 .. N), T # {}
        PROVE  \E x \in T : \A y \in T : y <= x
    <2> DEFINE Above == {b \in Nat : \A y \in T : y <= b}
    <2>2. Above \in SUBSET Nat /\ N \in Above
      OBVIOUS
    <2>3. PICK x \in Above : \A y \in Above : x <= y
      <3>. HIDE DEF Above
      <3>1. QED
        BY <2>2, LeastElement
    <2>4. x \in T
      <3> SUFFICES ASSUME x \notin T PROVE FALSE
        OBVIOUS
      <3>1. \A y \in T : y < x
        BY <2>3
      <3>5. PICK y \in T : TRUE
        BY <1>1
      <3>6. y < x /\ y \in 1 .. N /\ x \in Nat
        BY <3>1, <2>3
      <3>2. x # 0 /\ x - 1 \in Nat
        BY <3>6
      <3>3. x - 1 \in Above
        BY <3>1, <3>2
      <3>4. QED
        BY <2>3, <3>2, <3>3
    <2>5. QED
      BY <2>3, <2>4
  <1>2. ASSUME Bad # {} PROVE FALSE
    <2>1. Bad \in SUBSET Nat
      OBVIOUS
    <2>2. PICK n \in Bad : \A k \in Bad : n <= k
      <3>. HIDE DEF Bad
      <3>1. QED
        BY <1>2, <2>1, LeastElement
    <2>3. PICK T \in SUBSET (1 .. N) : Cardinality(T) = n /\ ~ Sortable(T)
      OBVIOUS
    <2>4. n \in Nat
      OBVIOUS
    <2>5. CASE T = {}
      <3>1. n = 0
        BY <2>3, <2>5, FS_EmptySet
      <3>2. Sorts([i \in 1 .. 0 |-> 0], T, 0)
        BY <2>5
      <3>. HIDE DEF Sorts
      <3>3. QED
        BY <2>3, <3>1, <3>2
    <2>6. CASE T # {}
      <3>1. PICK x \in T : \A y \in T : y <= x
        BY <1>1, <2>6
      <3>2. IsFiniteSet(T \ {x}) /\ Cardinality(T \ {x}) = n - 1
        BY <1>0, <2>3, FS_RemoveElement
      <3>3. n - 1 \in Nat
        BY <3>2, FS_CardinalityType
      <3>4. n - 1 \notin Bad
        BY <2>2, <2>4, <3>3
      <3>5. Sortable(T \ {x})
        <4>. HIDE DEF Sortable
        <4>1. T \ {x} \in SUBSET (1 .. N)
          OBVIOUS
        <4>2. QED
          BY <3>2, <3>3, <3>4, <4>1
      <3>6. PICK f : Sorts(f, T \ {x}, n - 1)
        BY <3>2, <3>5
      <3> DEFINE g == [i \in 1 .. n |-> IF i = n THEN x ELSE f[i]]
      <3>7. /\ n \in 1 .. n /\ g[n] = x
            /\ \A i \in 1 .. n : i # n => i \in 1 .. n - 1 /\ g[i] = f[i] /\ f[i] \in T /\ f[i] # x
        BY <2>4, <3>3, <3>6
      <3>8. g \in [1 .. n -> T]
        BY <3>7
      <3>. HIDE DEF g
      <3>9. \A i, j \in 1 .. n : i < j => g[i] < g[j]
        <4> SUFFICES ASSUME NEW i \in 1 .. n, NEW j \in 1 .. n, i < j
                     PROVE  g[i] < g[j]
          OBVIOUS
        <4>1. i # n
          BY <2>4
        <4>2. CASE j = n
          <5>1. g[i] \in T /\ g[i] # x
            BY <3>7, <4>1
          <5>2. g[i] <= x /\ g[i] \in Nat /\ x \in Nat
            <6>1. PICK y \in T : y = g[i]
              BY <5>1
            <6>2. y <= x /\ y \in 1 .. N /\ x \in 1 .. N
              BY <3>1
            <6>3. QED
              BY <6>1, <6>2
          <5>3. QED
            BY <3>7, <4>2, <5>1, <5>2
        <4>3. CASE j # n
          BY <3>6, <3>7, <4>1, <4>3
        <4>4. QED
          BY <4>2, <4>3
      <3>10. \A s \in T : \E i \in 1 .. n : g[i] = s
        <4> TAKE s \in T
        <4>1. CASE s = x
          BY <3>7, <4>1
        <4>2. CASE s # x
          <5>1. PICK i \in 1 .. n - 1 : f[i] = s
            BY <3>6, <4>2
          <5>2. i \in 1 .. n /\ i # n
            BY <2>4
          <5>3. QED
            BY <3>7, <5>1, <5>2
        <4>3. QED
          BY <4>1, <4>2
      <3>11. Sorts(g, T, n)
        BY <3>8, <3>9, <3>10
      <3>. HIDE DEF Sorts
      <3>12. QED
        BY <2>3, <3>11
    <2>7. QED
      BY <2>5, <2>6
  <1>3. Sortable(S)
    <2>. HIDE DEF Sortable
    <2>1. Cardinality(S) \in Nat
      BY <1>0, FS_CardinalityType
    <2>2. QED
      BY <1>2, <2>1
  <1>4. QED
    BY <1>3

\* Ascending does so.
LEMMA AscendingFacts ==
  ASSUME NEW N \in Nat, NEW S \in SUBSET (1 .. N)
  PROVE  /\ Cardinality(S) \in Nat
         /\ Ascending(S) \in [1 .. Cardinality(S) -> S]
         /\ \A i, j \in 1 .. Cardinality(S) : i < j => Ascending(S)[i] < Ascending(S)[j]
         /\ \A s \in S : \E i \in 1 .. Cardinality(S) : Ascending(S)[i] = s
  <1>0. S \in SUBSET Nat /\ IsFiniteSet(S)
    <2>1. IsFiniteSet(1 .. N)
      BY FS_Interval
    <2>2. IsFiniteSet(S)
      BY <2>1, FS_Subset
    <2>3. QED
      BY <2>2
  <1>1. PICK n \in Nat : n = Cardinality(S)
    BY <1>0, FS_CardinalityType
  <1> DEFINE Up(f) == \A i, j \in DOMAIN f : i < j => f[i] < f[j]
             f == Ascending(S)
  <1>2. \E g \in [1 .. n -> S] : Up(g)
    <2>1. PICK g \in [1 .. Cardinality(S) -> S] :
                 \A i, j \in 1 .. Cardinality(S) : i < j => g[i] < g[j]
      BY AscendingExists
    <2>2. g \in [1 .. n -> S] /\ \A i, j \in 1 .. n : i < j => g[i] < g[j]
      BY <1>1, <2>1
    <2>3. DOMAIN g = 1 .. n
      BY <2>2
    <2>4. Up(g)
      BY <2>2, <2>3
    <2>5. QED
      BY <2>2, <2>4
  <1>3. f = CHOOSE g \in [1 .. n -> S] : Up(g)
    BY <1>1 DEF Ascending
  <1>4. f \in [1 .. n -> S] /\ Up(f)
    <2>. HIDE DEF Up, f
    <2>1. QED
      BY <1>2, <1>3
  <1>. HIDE DEF f
  <1>5. f \in Injection(1 .. n, S)
    <2>1. ASSUME NEW i \in 1 .. n, NEW j \in 1 .. n, f[i] = f[j] PROVE i = j
      <3>1. f[i] \in Nat /\ f[j] \in Nat
        BY <1>0, <1>4
      <3>2. ~ (i < j) /\ ~ (j < i)
        BY <1>4, <2>1, <3>1
      <3>3. QED
        BY <3>2
    <2>2. QED
      BY <1>4, <2>1 DEF Injection, IsInjective
  <1>6. f \in Surjection(1 .. n, S)
    <2>1. Cardinality(1 .. n) = n
      BY FS_Interval
    <2>2. QED
      BY <1>0, <1>1, <1>5, <2>1, FS_Injection
  <1>7. QED
    BY <1>1, <1>4, <1>6 DEF Surjection, f

Rising(f, m) == \A i, j \in 1 .. m : i < j => f[i] < f[j]

Onto(f, m, n) == \A i \in 1 .. n : \E k \in 1 .. m : f[k] = i

\* An increasing map onto 1 .. n is the identity.
LEMMA IncreasingOnto ==
  ASSUME NEW n \in Nat, NEW m \in Nat, NEW f \in [1 .. m -> 1 .. n],
         Rising(f, m), Onto(f, m, n)
  PROVE  m = n /\ \A k \in 1 .. m : f[k] = k
  <1>0. /\ \A i, j \in 1 .. m : i < j => f[i] < f[j]
        /\ \A i \in 1 .. n : \E k \in 1 .. m : f[k] = i
    BY DEF Rising, Onto
  <1>1. \A k \in 1 .. m : f[k] = k
    <2> DEFINE Bad == {k \in 1 .. m : f[k] # k}
    <2>1. Bad \in SUBSET Nat
      OBVIOUS
    <2>2. ASSUME Bad # {} PROVE FALSE
      <3>1. PICK k \in Bad : \A j \in Bad : k <= j
        <4>. HIDE DEF Bad
        <4>1. QED
          BY <2>1, <2>2, LeastElement
      <3>2. k \in 1 .. m /\ f[k] # k /\ f[k] \in 1 .. n
        OBVIOUS
      <3>3. \A j \in 1 .. m : j < k => f[j] = j
        <4> TAKE j \in 1 .. m
        <4>1. j \in Bad => k <= j
          BY <3>1
        <4>2. QED
          BY <3>2, <4>1
      <3>4. f[k] > k
        <4>1. CASE k = 1
          BY <3>2, <4>1
        <4>2. CASE k # 1
          <5>1. k - 1 \in 1 .. m /\ k - 1 < k
            BY <3>2, <4>2
          <5>2. f[k - 1] = k - 1 /\ f[k - 1] < f[k]
            BY <1>0, <3>2, <3>3, <5>1
          <5>3. QED
            BY <3>2, <5>1, <5>2
        <4>3. QED
          BY <4>1, <4>2
      <3>5. k \in 1 .. n
        BY <3>2, <3>4
      <3>6. PICK j \in 1 .. m : f[j] = k
        BY <1>0, <3>5
      <3>7. ~ (j < k) /\ j # k
        BY <3>2, <3>3, <3>6
      <3>8. f[k] < f[j]
        BY <1>0, <3>2, <3>7
      <3>9. QED
        BY <3>2, <3>4, <3>6, <3>8
    <2>3. QED
      BY <2>2
  <1>2. m <= n
    <2>1. CASE m = 0
      BY <2>1
    <2>2. CASE m # 0
      <3>1. m \in 1 .. m
        BY <2>2
      <3>2. f[m] = m /\ f[m] \in 1 .. n
        BY <1>1, <3>1
      <3>3. QED
        BY <3>2
    <2>3. QED
      BY <2>1, <2>2
  <1>3. n <= m
    <2>1. CASE n = 0
      BY <2>1
    <2>2. CASE n # 0
      <3>1. n \in 1 .. n
        BY <2>2
      <3>2. PICK k \in 1 .. m : f[k] = n
        BY <1>0, <3>1
      <3>3. QED
        BY <1>1, <3>2
    <2>3. QED
      BY <2>1, <2>2
  <1>4. QED
    BY <1>1, <1>2, <1>3

\* f picks from a chain the places of the cells that carry a message.
Picks(f, m, n, cells, d) ==
  /\ Rising(f, m)
  /\ \A k \in 1 .. m : d[cells[f[k]]] # NULL
  /\ \A i \in 1 .. n : d[cells[i]] # NULL => \E k \in 1 .. m : f[k] = i

Picked(f, m, cells, d) == [k \in 1 .. m |-> d[cells[f[k]]]]

Selection(nx, h, d, n, cells) ==
  \E m \in Nat : \E f \in [1 .. m -> 1 .. n] :
    Picks(f, m, n, cells, d) /\ Carried(nx, h, d) = Picked(f, m, cells, d)

\* The messages on a chain, in its order.
LEMMA CarriedFacts ==
  ASSUME NEW nx, NEW h, NEW d, NEW n \in Nat, NEW cells \in [1 .. n -> Cell],
         Distinct(cells), IsChain(nx, h, cells)
  PROVE  Selection(nx, h, d, n, cells)
  <1>1. PICK N \in Nat :
          /\ N = Cardinality(Cell) /\ n <= N
          /\ \A i \in 1 .. N :
               Trail(nx, h)[i] = IF i \in 1 .. n THEN cells[i] ELSE NULL
    <2>1. /\ n <= Cardinality(Cell) /\ Cardinality(Cell) \in Nat
          /\ \A i \in 1 .. Cardinality(Cell) :
               Trail(nx, h)[i] = IF i \in 1 .. n THEN cells[i] ELSE NULL
      BY TrailOfChain
    <2>2. QED
      BY <2>1
  <1>2. PICK tr : tr = Trail(nx, h)
    OBVIOUS
  <1>3. \A i \in 1 .. n : cells[i] # NULL /\ i \in 1 .. N
    BY <1>1, NullAssumption
  <1> DEFINE full == {i \in 1 .. N : tr[i] # NULL /\ d[tr[i]] # NULL}
  <1>4. full = {i \in 1 .. n : d[cells[i]] # NULL}
    BY <1>1, <1>2, <1>3
  <1>5. Carried(nx, h, d) =
          [k \in 1 .. Cardinality(full) |-> d[tr[Ascending(full)[k]]]]
    BY <1>1, <1>2 DEF Carried
  <1>6. full \in SUBSET (1 .. N)
    OBVIOUS
  <1>. HIDE DEF full
  <1>7. PICK m \in Nat : m = Cardinality(full)
    BY <1>6, AscendingFacts
  <1>8. PICK f : f = Ascending(full)
    OBVIOUS
  <1>9. /\ f \in [1 .. m -> full]
        /\ \A i, j \in 1 .. m : i < j => f[i] < f[j]
        /\ \A s \in full : \E i \in 1 .. m : f[i] = s
    BY <1>6, <1>7, <1>8, AscendingFacts
  <1>10. f \in [1 .. m -> 1 .. n] /\ \A k \in 1 .. m : d[cells[f[k]]] # NULL
    BY <1>4, <1>9
  <1>11. \A k \in 1 .. m : tr[f[k]] = cells[f[k]]
    BY <1>1, <1>2, <1>3, <1>10
  <1>12. Carried(nx, h, d) = Picked(f, m, cells, d)
    BY <1>5, <1>7, <1>8, <1>11 DEF Picked
  <1>13. \A i \in 1 .. n : d[cells[i]] # NULL => \E k \in 1 .. m : f[k] = i
    BY <1>4, <1>9
  <1>14. Picks(f, m, n, cells, d)
    BY <1>9, <1>10, <1>13 DEF Picks, Rising
  <1>15. QED
    BY <1>10, <1>12, <1>14 DEF Selection

\* When every cell of the chain carries a message, they are all there.
LEMMA CarriedFull ==
  ASSUME NEW nx, NEW h, NEW d, NEW n \in Nat, NEW cells \in [1 .. n -> Cell],
         Distinct(cells), IsChain(nx, h, cells), \A i \in 1 .. n : d[cells[i]] # NULL
  PROVE  Carried(nx, h, d) = [k \in 1 .. n |-> d[cells[k]]]
  <1>1. Selection(nx, h, d, n, cells)
    BY CarriedFacts
  <1>2. PICK m \in Nat : \E f \in [1 .. m -> 1 .. n] :
           Picks(f, m, n, cells, d) /\ Carried(nx, h, d) = Picked(f, m, cells, d)
    BY <1>1 DEF Selection
  <1>3. PICK f \in [1 .. m -> 1 .. n] :
           Picks(f, m, n, cells, d) /\ Carried(nx, h, d) = Picked(f, m, cells, d)
    BY <1>2
  <1>4. Rising(f, m) /\ Onto(f, m, n)
    BY <1>3 DEF Picks, Onto
  <1>5. m = n /\ \A k \in 1 .. m : f[k] = k
    BY <1>4, IncreasingOnto
  <1>6. QED
    BY <1>3, <1>5 DEF Picked

\* A function on 1 .. L is a sequence of length L.
LEMMA RangeSeq ==
  ASSUME NEW S, NEW L \in Nat, NEW x \in [1 .. L -> S]
  PROVE  x \in Seq(S) /\ Len(x) = L
  <1>1. x \in Seq(S)
    BY SeqDef
  <1>2. Len(x) \in Nat /\ DOMAIN x = 1 .. Len(x)
    BY <1>1, LenProperties
  <1>3. QED
    BY <1>1, <1>2

-----------------------------------------------------------------------------
(* What a push does to the message list. *)

\* The two lists share no cell, so the list that hangs off queue.head does
\* not hold the head of the other one.
LEMMA ChainOwned ==
  ASSUME NEW M, QueueTypeOK(M), UniqueOwner,
         NEW n \in Nat, NEW cells \in [1 .. n -> heap], IsChain(next, queue.head, cells)
  PROVE  \A i \in 1 .. n : cells[i] # tmp_queue.head
  <1> TAKE i \in 1 .. n
  <1>1. heap \in SUBSET Cell /\ cells[i] \in heap /\ cells[i] # NULL
    BY NullAssumption DEF QueueTypeOK
  <1>2. CASE i = 1
    <2>1. queue.head = cells[i]
      BY <1>2 DEF IsChain
    <2>2. QED
      BY <1>1, <2>1 DEF UniqueOwner
  <1>3. CASE i # 1
    <2>1. i - 1 \in 1 .. n /\ (i - 1) + 1 = i
      BY <1>3
    <2>2. next[cells[i - 1]] = cells[i] /\ cells[i - 1] \in heap
      BY <2>1 DEF IsChain
    <2>3. QED
      BY <1>1, <2>2 DEF UniqueOwner
  <1>4. QED
    BY <1>2, <1>3

\* The cell that a push takes, reused or malloc'ed, is not in the list.
LEMMA PushCell ==
  ASSUME NEW M, NEW m, QueueTypeOK(M), UniqueOwner, OwnedIsAllocated, queue_push(m),
         NEW n \in Nat, NEW cells \in [1 .. n -> heap], IsChain(next, queue.head, cells)
  PROVE  \E p \in Cell : /\ Enqueue(p, m) /\ p \in heap'
                         /\ \A i \in 1 .. n : cells[i] # p /\ cells[i] \in heap'
  <1>1. heap \in SUBSET Cell
    BY DEF QueueTypeOK
  <1>2. CASE PushReused(m)
    <2>1. PICK p \in Cell : p = tmp_queue.head /\ p \in heap
      BY <1>1, <1>2 DEF PushReused, OwnedIsAllocated
    <2>2. Enqueue(p, m) /\ heap' = heap
      BY <1>2, <2>1 DEF PushReused
    <2>3. \A i \in 1 .. n : cells[i] # p
      BY <2>1, ChainOwned
    <2>4. QED
      BY <2>1, <2>2, <2>3
  <1>3. CASE PushMalloced(m)
    <2>1. PICK p \in Cell \ Kept : Enqueue(p, m) /\ heap' = Kept \cup {p}
      BY <1>3 DEF PushMalloced
    <2>2. PICK h : h = queue.head /\ h \in {queue.head, tmp_queue.head}
      OBVIOUS
    <2>3. \A i \in 1 .. n : cells[i] \in Kept
      BY <2>2, ChainKept
    <2>4. QED
      BY <2>1, <2>3
  <1>4. QED
    BY <1>2, <1>3 DEF queue_push

Avoids(cells, n, p) == \A i \in 1 .. n : cells[i] # p

\* The message list after a step is `more`: cells and p, which carries m.
Lengthened(cells, n, p, m, more) ==
  /\ more \in [1 .. n + 1 -> Cell] /\ more[n + 1] = p
  /\ \A i \in 1 .. n : more[i] = cells[i]
  /\ Distinct(more) /\ IsChain(next', queue'.head, more) /\ TailFits(queue', more)
  /\ \A c \in Cell : c # p /\ (\A i \in 1 .. n : c # cells[i]) => next'[c] = next[c]
  /\ data'[p] = m
  /\ \A c \in Cell : c # p => data'[c] = data[c]

\* Behind a tail that fits, the list grows by the cell that carries m.
LEMMA EnqueueChain ==
  ASSUME NEW M, NEW m, QueueTypeOK(M), NEW p \in Cell, Enqueue(p, m),
         NEW n \in Nat, NEW cells \in [1 .. n -> Cell], Avoids(cells, n, p),
         Distinct(cells), IsChain(next, queue.head, cells), TailFits(queue, cells)
  PROVE  Lengthened(cells, n, p, m, More(cells, n, p))
  <1> DEFINE nx == [next EXCEPT ![p] = NULL]
             more == More(cells, n, p)
  <1>0. \A i \in 1 .. n : cells[i] # p
    BY DEF Avoids
  <1>1. /\ queue' = LinkCell(queue, p)
        /\ next' = LinkNext(queue, nx, p)
        /\ data' = [data EXCEPT ![p] = m]
    BY DEF Enqueue
  <1>2. /\ queue \in List /\ nx \in [Cell -> Pointer] /\ nx[p] = NULL
        /\ \A c \in Cell : c # p => nx[c] = next[c] /\ data'[c] = data[c]
        /\ data'[p] = m
    BY <1>1 DEF QueueTypeOK, Pointer
  <1>3. /\ more \in [1 .. n + 1 -> Cell] /\ more[n + 1] = p
        /\ \A i \in 1 .. n : more[i] = cells[i] /\ cells[i] \in Cell
    BY DEF More
  <1>. HIDE DEF nx
  <1>4. IsChain(nx, queue.head, cells)
    <2>1. \A i \in 1 .. n : nx[cells[i]] = next[cells[i]]
      BY <1>0, <1>2, <1>3
    <2>2. QED
      BY <2>1, ChainFrame
  <1>5. /\ Distinct(more)
        /\ IsChain(LinkNext(queue, nx, p), LinkCell(queue, p).head, more)
        /\ TailFits(LinkCell(queue, p), more)
        /\ \A c \in Cell :
             (\A i \in 1 .. n : c # cells[i]) => LinkNext(queue, nx, p)[c] = nx[c]
    BY <1>0, <1>2, <1>4, ChainLink
  <1>. HIDE DEF more
  <1>6. /\ Distinct(more) /\ IsChain(next', queue'.head, more) /\ TailFits(queue', more)
        /\ \A c \in Cell : c # p /\ (\A i \in 1 .. n : c # cells[i]) => next'[c] = next[c]
    BY <1>1, <1>2, <1>5
  <1>7. QED
    BY <1>2, <1>3, <1>6 DEF more, Lengthened

\* A push onto a list whose tail fits and whose cells all carry messages
\* appends its message, whatever it does to the other list.
LEMMA ExactPush ==
  ASSUME NEW M, NEW m \in M, m # NULL,
         QueueTypeOK(M), UniqueOwner, OwnedIsAllocated, queue_push(m),
         NEW n \in Nat, NEW cells \in [1 .. n -> heap],
         Distinct(cells), IsChain(next, queue.head, cells), TailFits(queue, cells),
         \A i \in 1 .. n : data[cells[i]] # NULL
  PROVE  Contents' = Append(Contents, m)
  <1>1. heap \in SUBSET Cell /\ data \in [Cell -> M \cup {NULL}]
    BY DEF QueueTypeOK
  <1>2. cells \in [1 .. n -> Cell] /\ \A i \in 1 .. n : cells[i] \in Cell
    BY <1>1
  <1>3. PICK p \in Cell : Enqueue(p, m) /\ \A i \in 1 .. n : cells[i] # p
    BY PushCell
  <1>4. PICK more \in [1 .. n + 1 -> Cell] :
          /\ more[n + 1] = p /\ \A i \in 1 .. n : more[i] = cells[i]
          /\ Distinct(more) /\ IsChain(next', queue'.head, more)
          /\ data'[p] = m /\ \A c \in Cell : c # p => data'[c] = data[c]
    <2>1. Avoids(cells, n, p)
      BY <1>3 DEF Avoids
    <2>2. Lengthened(cells, n, p, m, More(cells, n, p))
      BY <1>2, <1>3, <2>1, EnqueueChain
    <2>3. QED
      BY <2>2 DEF Lengthened
  <1>5. \A i \in 1 .. n : data'[more[i]] = data[cells[i]]
    BY <1>2, <1>3, <1>4
  <1>6. data'[more[n + 1]] = m
    BY <1>4
  <1>7. \A i \in 1 .. n + 1 : data'[more[i]] # NULL
    <2> TAKE i \in 1 .. n + 1
    <2>1. CASE i = n + 1
      BY <1>6, <2>1
    <2>2. CASE i \in 1 .. n
      BY <1>5, <2>2
    <2>3. QED
      BY <2>1, <2>2
  <1>8. PICK x \in [1 .. n -> M] : x = Contents /\ \A i \in 1 .. n : x[i] = data[cells[i]]
    <2>1. Contents = [i \in 1 .. n |-> data[cells[i]]]
      BY <1>2, CarriedFull DEF Contents
    <2>2. \A i \in 1 .. n : data[cells[i]] \in M
      BY <1>1, <1>2
    <2>3. Contents \in [1 .. n -> M] /\ \A i \in 1 .. n : Contents[i] = data[cells[i]]
      BY <2>1, <2>2
    <2>4. QED
      BY <2>3
  <1>9. Contents' = [i \in 1 .. n + 1 |-> data'[more[i]]]
    <2>1. n + 1 \in Nat
      OBVIOUS
    <2>2. Carried(next', queue'.head, data') = [i \in 1 .. n + 1 |-> data'[more[i]]]
      BY <1>4, <1>7, <2>1, CarriedFull
    <2>3. QED
      BY <2>2 DEF Contents
  <1>10. x \in Seq(M) /\ Len(x) = n
    BY RangeSeq
  <1>11. Append(x, m) = [i \in 1 .. n + 1 |-> data'[more[i]]]
    <2>1. Append(x, m) = [i \in 1 .. n + 1 |-> IF i = n + 1 THEN m ELSE x[i]]
      <3>1. /\ Append(x, m) \in Seq(M) /\ Len(Append(x, m)) = n + 1
            /\ \A i \in 1 .. n : Append(x, m)[i] = x[i]
            /\ Append(x, m)[n + 1] = m
        BY <1>10, AppendProperties
      <3>2. PICK z : z = Append(x, m)
        OBVIOUS
      <3>3. z \in [1 .. n + 1 -> M] /\ \A i \in 1 .. n + 1 : z[i] = IF i = n + 1 THEN m ELSE x[i]
        <4>1. z \in [1 .. n + 1 -> M]
          BY <3>1, <3>2, LenProperties
        <4>2. \A i \in 1 .. n + 1 : z[i] = IF i = n + 1 THEN m ELSE x[i]
          BY <3>1, <3>2
        <4>3. QED
          BY <4>1, <4>2
      <3>4. z = [i \in 1 .. n + 1 |-> z[i]]
        BY <3>3
      <3>5. z = [i \in 1 .. n + 1 |-> IF i = n + 1 THEN m ELSE x[i]]
        BY <3>3, <3>4
      <3>6. QED
        BY <3>2, <3>5
    <2>2. \A i \in 1 .. n + 1 : data'[more[i]] = IF i = n + 1 THEN m ELSE x[i]
      BY <1>5, <1>6, <1>8
    <2>3. QED
      BY <2>1, <2>2
  <1>12. QED
    BY <1>8, <1>9, <1>11

-----------------------------------------------------------------------------
(* What a pop does to the message list. *)

\* The linking code stores no pointer but p.
LEMMA LinkOne ==
  ASSUME NEW l \in List, NEW nx \in [Cell -> Pointer], NEW p \in Cell
  PROVE  \A c \in Cell : LinkNext(l, nx, p)[c] \in {nx[c], p}
  BY DEF LinkNext, List, Pointer

\* Of the cells it leaves, a pop changes next of at most one: p may be
\* linked behind it.
LEMMA PopStep ==
  ASSUME NEW M, NEW m, QueueTypeOK(M), OwnedIsAllocated, queue_pop(m),
         NEW p \in Cell, p = queue.head
  PROVE  /\ m = data[p] /\ p \in heap
         /\ queue'.head = next[p] /\ queue'.tail = queue.tail
         /\ heap \ {p} \subseteq heap'
         /\ p \in heap' => data'[p] = NULL
         /\ \A c \in Cell : c # p => data'[c] = data[c] /\ next'[c] \in {next[c], p}
         /\ next'[p] \in {NULL, p} \/ p \notin heap'
         /\ \A c \in Cell : c # p /\ c # tmp_queue.head /\ c # tmp_queue.tail => next'[c] = next[c]
         /\ tmp_queue'.head \in {p, tmp_queue.head} /\ tmp_queue'.tail \in {p, tmp_queue.tail}
  <1>1. PopRecycled(m) \/ PopFreed(m)
    BY NullAssumption DEF queue_pop, PopEmpty
  <1>2. /\ m = data[p] /\ p \in heap /\ queue' = [queue EXCEPT !.head = next[p]]
        /\ heap \ {p} \subseteq heap'
    BY <1>1, NullAssumption DEF PopRecycled, PopFreed, OwnedIsAllocated
  <1>3. queue'.head = next[p] /\ queue'.tail = queue.tail
    BY <1>2 DEF QueueTypeOK, List
  <1>4. CASE PopFreed(m)
    BY <1>2, <1>3, <1>4 DEF PopFreed
  <1>5. CASE PopRecycled(m)
    <2> DEFINE nx == [next EXCEPT ![p] = NULL]
    <2>1. /\ next' = LinkNext(tmp_queue, nx, p)
          /\ data' = [data EXCEPT ![p] = NULL]
          /\ tmp_queue' = [LinkCell(tmp_queue, p) EXCEPT !.size = @ + 1]
      BY <1>5 DEF PopRecycled
    <2>2. /\ nx \in [Cell -> Pointer] /\ tmp_queue \in List
          /\ nx[p] = NULL /\ data'[p] = NULL
          /\ \A c \in Cell : c # p => nx[c] = next[c] /\ data'[c] = data[c]
      BY <2>1 DEF QueueTypeOK, Pointer
    <2>. HIDE DEF nx
    <2>3. \A c \in Cell : c # tmp_queue.head /\ c # tmp_queue.tail => next'[c] = nx[c]
      BY <2>1, <2>2, LinkFrame
    <2>4. /\ tmp_queue'.head \in {p, tmp_queue.head}
          /\ tmp_queue'.tail \in {p, tmp_queue.tail}
      BY <2>1, <2>2, LinkFrame DEF List
    <2>5. \A c \in Cell : next'[c] \in {nx[c], p}
      <3>1. nx \in [Cell -> Pointer] /\ tmp_queue \in List
        BY <2>2
      <3>2. \A c \in Cell : LinkNext(tmp_queue, nx, p)[c] \in {nx[c], p}
        BY <3>1, LinkOne
      <3>3. QED
        BY <2>1, <3>2
    <2>6. \A c \in Cell : c # p => next'[c] \in {next[c], p}
      BY <2>2, <2>5
    <2>7. next'[p] \in {NULL, p}
      BY <2>2, <2>5
    <2>8. \A c \in Cell : c # p /\ c # tmp_queue.head /\ c # tmp_queue.tail => next'[c] = next[c]
      BY <2>2, <2>3
    <2>9. QED
      BY <1>2, <1>3, <2>2, <2>4, <2>6, <2>7, <2>8
  <1>6. QED
    BY <1>1, <1>4, <1>5

\* The message list is `cells`, and no pointer of the free list leads to it.
Chained(n, cells) ==
  /\ Distinct(cells)
  /\ IsChain(next, queue.head, cells)
  /\ \A i \in 1 .. n : cells[i] # tmp_queue.head /\ cells[i] # tmp_queue.tail

\* A pop takes the first cell of such a list and leaves the rest alone,
\* wherever it puts that cell.
LEMMA PopChained ==
  ASSUME NEW M, NEW m, QueueTypeOK(M), OwnedIsAllocated, queue_pop(m), queue.head # NULL,
         NEW n \in Nat, NEW cells \in [1 .. n -> heap], Chained(n, cells)
  PROVE  /\ n >= 1 /\ queue.head = cells[1] /\ m = data[cells[1]]
         /\ Rest(cells, n) \in [1 .. n - 1 -> heap']
         /\ queue'.head = next[cells[1]] /\ queue'.tail = queue.tail
         /\ Chained(n - 1, Rest(cells, n))'
         /\ \A i \in 1 .. n - 1 : data'[Rest(cells, n)[i]] = data[cells[i + 1]]
  <1>1. heap \in SUBSET Cell
    BY DEF QueueTypeOK
  <1>2. PICK p \in Cell : p = queue.head
    BY DEF QueueTypeOK, List, Pointer
  <1>3. Distinct(cells) /\ IsChain(next, p, cells)
    BY <1>2 DEF Chained
  <1>4. PICK rest : rest = Rest(cells, n)
    OBVIOUS
  <1>5. /\ n >= 1 /\ n - 1 \in Nat /\ p = cells[1]
        /\ rest \in [1 .. n - 1 -> heap \ {p}]
        /\ Distinct(rest)
        /\ IsChain(next, next[p], rest)
        /\ \A i \in 1 .. n - 1 : rest[i] = cells[i + 1]
    <2>1. p # NULL
      BY NullAssumption
    <2>2. n >= 1 /\ p = cells[1]
      BY <1>3, <2>1 DEF IsChain
    <2>3. \A i \in 1 .. n - 1 : rest[i] = cells[i + 1]
      BY <1>4 DEF Rest
    <2>4. /\ Rest(cells, n) \in [1 .. n - 1 -> heap \ {p}]
          /\ Distinct(Rest(cells, n))
          /\ IsChain(next, next[p], Rest(cells, n))
      BY <1>1, <1>3, <2>1, ChainRest
    <2>5. QED
      BY <1>4, <2>2, <2>3, <2>4
  <1>6. /\ m = data[p] /\ queue'.head = next[p] /\ queue'.tail = queue.tail
        /\ heap \ {p} \subseteq heap'
        /\ \A c \in Cell : c # p => data'[c] = data[c]
        /\ \A c \in Cell : c # p /\ c # tmp_queue.head /\ c # tmp_queue.tail => next'[c] = next[c]
        /\ tmp_queue'.head \in {p, tmp_queue.head} /\ tmp_queue'.tail \in {p, tmp_queue.tail}
    BY <1>2, PopStep
  <1>7. \A i \in 1 .. n - 1 :
          /\ rest[i] \in Cell /\ rest[i] # p /\ i + 1 \in 1 .. n
          /\ rest[i] # tmp_queue.head /\ rest[i] # tmp_queue.tail
    BY <1>1, <1>5 DEF Chained
  <1>8. \A i \in 1 .. n - 1 :
          /\ next'[rest[i]] = next[rest[i]]
          /\ data'[rest[i]] = data[cells[i + 1]]
          /\ rest[i] # tmp_queue'.head /\ rest[i] # tmp_queue'.tail
    <2> TAKE i \in 1 .. n - 1
    <2>1. PICK c \in Cell : c = rest[i]
      BY <1>7
    <2>2. c # p /\ c # tmp_queue.head /\ c # tmp_queue.tail /\ c = cells[i + 1]
      BY <1>5, <1>7, <2>1
    <2>3. next'[c] = next[c] /\ data'[c] = data[c]
      BY <1>6, <2>2
    <2>4. c # tmp_queue'.head /\ c # tmp_queue'.tail
      BY <1>6, <2>2
    <2>5. QED
      BY <2>1, <2>2, <2>3, <2>4
  <1>9. IsChain(next', queue'.head, rest)
    <2>1. IsChain(next, queue'.head, rest)
      BY <1>5, <1>6
    <2>2. rest \in [1 .. n - 1 -> heap \ {p}] /\ n - 1 \in Nat
      BY <1>5
    <2>3. \A i \in 1 .. n - 1 : next'[rest[i]] = next[rest[i]]
      BY <1>8
    <2>4. QED
      BY <2>1, <2>2, <2>3, ChainFrame
  <1>10. Chained(n - 1, rest)'
    BY <1>5, <1>8, <1>9 DEF Chained
  <1>11. rest \in [1 .. n - 1 -> heap']
    BY <1>5, <1>6
  <1>12. \A i \in 1 .. n - 1 : data'[rest[i]] = data[cells[i + 1]]
    BY <1>8
  <1>13. QED
    BY <1>2, <1>4, <1>5, <1>6, <1>10, <1>11, <1>12

\* A pop of such a list whose cells all carry messages returns the first and
\* leaves the others.
LEMMA ExactPop ==
  ASSUME NEW M, NEW m, NULL \notin M,
         QueueTypeOK(M), OwnedIsAllocated, QueueTypeOK(M)', queue_pop(m),
         NEW n \in Nat, NEW cells \in [1 .. n -> heap], Chained(n, cells),
         \A i \in 1 .. n : data[cells[i]] # NULL
  PROVE  \/ m = NULL /\ Contents = << >> /\ Contents' = << >>
         \/ m # NULL /\ Contents # << >> /\ m = Head(Contents) /\ Contents' = Tail(Contents)
  <1>1. /\ heap \in SUBSET Cell /\ data \in [Cell -> M \cup {NULL}]
        /\ cells \in [1 .. n -> Cell] /\ Distinct(cells) /\ IsChain(next, queue.head, cells)
        /\ heap' \in SUBSET Cell
    BY DEF QueueTypeOK, Chained
  <1>2. Contents = [i \in 1 .. n |-> data[cells[i]]]
    BY <1>1, CarriedFull DEF Contents
  <1>3. PICK x \in [1 .. n -> M] : x = Contents /\ \A i \in 1 .. n : x[i] = data[cells[i]]
    <2>1. \A i \in 1 .. n : data[cells[i]] \in M
      BY <1>1
    <2>2. Contents \in [1 .. n -> M] /\ \A i \in 1 .. n : Contents[i] = data[cells[i]]
      BY <1>2, <2>1
    <2>3. QED
      BY <2>2
  <1>4. x \in Seq(M) /\ Len(x) = n
    BY RangeSeq
  <1>5. CASE queue.head = NULL
    <2>1. m = NULL /\ UNCHANGED qvars
      BY <1>5 DEF queue_pop, PopEmpty, PopRecycled, PopFreed
    <2>2. 1 \notin 1 .. n
      BY <1>1, <1>5, NullAssumption DEF IsChain
    <2>3. x = << >>
      BY <1>4, <2>2
    <2>4. Contents' = Contents
      BY <2>1 DEF Contents, qvars
    <2>5. QED
      BY <1>3, <2>1, <2>3, <2>4
  <1>6. CASE queue.head # NULL
    <2>1. PICK rest : rest = Rest(cells, n)
      OBVIOUS
    <2>2. /\ n >= 1 /\ m = data[cells[1]]
          /\ rest \in [1 .. n - 1 -> heap']
          /\ Chained(n - 1, rest)'
          /\ \A i \in 1 .. n - 1 : data'[rest[i]] = data[cells[i + 1]]
      BY <1>6, <2>1, PopChained
    <2>3. n - 1 \in Nat /\ 1 \in 1 .. n /\ \A i \in 1 .. n - 1 : i + 1 \in 1 .. n
      BY <2>2
    <2>4. /\ rest \in [1 .. n - 1 -> Cell] /\ Distinct(rest) /\ IsChain(next', queue'.head, rest)
          /\ \A i \in 1 .. n - 1 : data'[rest[i]] # NULL
      BY <1>1, <2>2, <2>3 DEF Chained
    <2>5. Contents' = [i \in 1 .. n - 1 |-> data'[rest[i]]]
      <3>1. PICK k \in Nat : k = n - 1
        BY <2>3
      <3>2. rest \in [1 .. k -> Cell] /\ Distinct(rest) /\ IsChain(next', queue'.head, rest)
        BY <2>4, <3>1
      <3>3. Carried(next', queue'.head, data') = [i \in 1 .. k |-> data'[rest[i]]]
        <4>1. PICK ny, g, d : ny = next' /\ g = queue'.head /\ d = data'
          OBVIOUS
        <4>2. \A i \in 1 .. k : d[rest[i]] # NULL
          BY <2>4, <3>1, <4>1
        <4>3. rest \in [1 .. k -> Cell] /\ Distinct(rest) /\ IsChain(ny, g, rest)
          BY <3>2, <4>1
        <4>4. Carried(ny, g, d) = [i \in 1 .. k |-> d[rest[i]]]
          BY <4>2, <4>3, CarriedFull
        <4>5. QED
          BY <4>1, <4>4
      <3>4. QED
        BY <3>1, <3>3 DEF Contents
    <2>6. x # << >> /\ Head(x) = m /\ m # NULL
      <3>1. x # << >>
        BY <1>4, <2>2, EmptySeq
      <3>2. Head(x) = x[1]
        BY <1>4, <3>1
      <3>3. x[1] = data[cells[1]] /\ x[1] \in M
        BY <1>3, <2>3
      <3>4. QED
        BY <2>2, <3>1, <3>2, <3>3
    <2>7. Tail(x) = [i \in 1 .. n - 1 |-> data'[rest[i]]]
      <3>1. /\ Tail(x) \in Seq(M) /\ Len(Tail(x)) = n - 1
            /\ \A i \in 1 .. n - 1 : Tail(x)[i] = x[i + 1]
        BY <1>4, <2>6, HeadTailProperties
      <3>2. PICK z : z = Tail(x)
        OBVIOUS
      <3>3. z \in [1 .. n - 1 -> M]
        BY <3>1, <3>2, LenProperties
      <3>4. z = [i \in 1 .. n - 1 |-> z[i]]
        BY <3>3
      <3>5. \A i \in 1 .. n - 1 : z[i] = data'[rest[i]]
        BY <1>3, <2>2, <2>3, <3>1, <3>2
      <3>6. z = [i \in 1 .. n - 1 |-> data'[rest[i]]]
        BY <3>4, <3>5
      <3>7. QED
        BY <3>2, <3>6
    <2>8. QED
      BY <1>3, <2>5, <2>6, <2>7
  <1>7. QED
    BY <1>5, <1>6

-----------------------------------------------------------------------------
(* What is left of the message list once a left-over tail may have cut it:  *)
(* an argument by the places of the cells on the chain, whatever messages   *)
(* they carry.                                                              *)

\* F labels the elements of s by places on the chain `cells`, in ascending
\* order; each message that d stores in a cell is an element of that label.
Labels(F, s, L, n, cells, d) ==
  /\ Rising(F, L)
  /\ \A j \in 1 .. L : F[j] <= n
  /\ \A i \in 1 .. n : d[cells[i]] # NULL => \E j \in 1 .. L : F[j] = i /\ s[j] = d[cells[i]]

\* The messages on the chain are found in s, in this order.
Covers(s, L, n, cells, d) == \E F \in [1 .. L -> Int] : Labels(F, s, L, n, cells, d)

\* y is s with some elements left out.
Thinner(y, s, L) ==
  \E K \in Nat : \E e \in [1 .. K -> 1 .. L] :
    Rising(e, K) /\ K <= L /\ y = [k \in 1 .. K |-> s[e[k]]]

\* There is no increasing map into a shorter interval.
LEMMA RisingBound ==
  ASSUME NEW K \in Nat, NEW L \in Nat, NEW e \in [1 .. K -> 1 .. L], Rising(e, K)
  PROVE  K <= L
  <1>1. e \in Injection(1 .. K, 1 .. L)
    <2>1. ASSUME NEW i \in 1 .. K, NEW j \in 1 .. K, e[i] = e[j] PROVE i = j
      <3>1. e[i] \in Nat /\ e[j] \in Nat /\ i \in Nat /\ j \in Nat
        OBVIOUS
      <3>2. (i < j => e[i] < e[j]) /\ (j < i => e[j] < e[i])
        BY DEF Rising
      <3>3. QED
        BY <2>1, <3>1, <3>2
    <2>2. QED
      BY <2>1 DEF Injection, IsInjective
  <1>2. IsFiniteSet(1 .. L) /\ Cardinality(1 .. L) = L /\ Cardinality(1 .. K) = K
    BY FS_Interval
  <1>3. Cardinality(1 .. K) <= Cardinality(1 .. L)
    BY <1>1, <1>2, FS_Injection
  <1>4. QED
    BY <1>2, <1>3

\* Two sequences with increasing labels: if each label of w is one of s, for
\* the same element, then w is s with some elements left out.
LEMMA ThinByLabel ==
  ASSUME NEW L \in Nat, NEW F \in [1 .. L -> Int], Rising(F, L), NEW s,
         NEW K \in Nat, NEW G \in [1 .. K -> Int], Rising(G, K),
         NEW w, w = [k \in 1 .. K |-> w[k]],
         \A k \in 1 .. K : \E j \in 1 .. L : F[j] = G[k] /\ s[j] = w[k]
  PROVE  Thinner(w, s, L)
  <1> DEFINE e == [k \in 1 .. K |-> CHOOSE j \in 1 .. L : F[j] = G[k] /\ s[j] = w[k]]
  <1>1. \A k \in 1 .. K : e[k] \in 1 .. L /\ F[e[k]] = G[k] /\ s[e[k]] = w[k]
    OBVIOUS
  <1>2. e \in [1 .. K -> 1 .. L]
    BY <1>1
  <1>. HIDE DEF e
  <1>3. Rising(e, K)
    <2> SUFFICES ASSUME NEW i \in 1 .. K, NEW j \in 1 .. K, i < j PROVE e[i] < e[j]
      BY DEF Rising
    <2>1. G[i] < G[j] /\ G[i] \in Int /\ G[j] \in Int
      BY DEF Rising
    <2>2. F[e[i]] < F[e[j]]
      BY <1>1, <2>1
    <2>3. e[j] < e[i] => F[e[j]] < F[e[i]]
      BY <1>1 DEF Rising
    <2>4. /\ e[i] \in 1 .. L /\ e[j] \in 1 .. L
          /\ F[e[i]] \in Int /\ F[e[j]] \in Int
      BY <1>1
    <2>5. e[i] # e[j]
      BY <2>2, <2>4
    <2>6. ~ (e[j] < e[i])
      BY <2>2, <2>3, <2>4
    <2>7. QED
      BY <2>4, <2>5, <2>6
  <1>4. K <= L
    BY <1>2, <1>3, RisingBound
  <1>5. w = [k \in 1 .. K |-> s[e[k]]]
    BY <1>1
  <1>6. QED
    BY <1>2, <1>3, <1>4, <1>5 DEF Thinner

\* Each message that e stores in the chain `now` is one that d stores in the
\* place E of `cells`.
Follows(now, k, e, E, cells, n, d) ==
  \A i \in 1 .. k : e[now[i]] # NULL => E[i] \in 1 .. n /\ e[now[i]] = d[cells[E[i]]]

\* The messages found on a chain `now` whose cells stand for cells of
\* another chain, in the same order, are among those of that chain.
LEMMA ThinChain ==
  ASSUME NEW L \in Nat, NEW s, NEW n \in Nat, NEW cells, NEW d, Covers(s, L, n, cells, d),
         NEW n2 \in Nat, NEW now, NEW nx, NEW h, NEW e, Selection(nx, h, e, n2, now),
         NEW E \in [1 .. n2 -> Nat], Rising(E, n2),
         Follows(now, n2, e, E, cells, n, d)
  PROVE  Thinner(Carried(nx, h, e), s, L)
  <1>1. PICK F \in [1 .. L -> Int] : Labels(F, s, L, n, cells, d)
    BY DEF Covers
  <1>2. /\ Rising(F, L)
        /\ \A i \in 1 .. n :
             d[cells[i]] # NULL => \E j \in 1 .. L : F[j] = i /\ s[j] = d[cells[i]]
    BY <1>1 DEF Labels
  <1>3. PICK K \in Nat : \E g \in [1 .. K -> 1 .. n2] :
           Picks(g, K, n2, now, e) /\ Carried(nx, h, e) = Picked(g, K, now, e)
    BY DEF Selection
  <1>4. PICK g \in [1 .. K -> 1 .. n2] :
           Picks(g, K, n2, now, e) /\ Carried(nx, h, e) = Picked(g, K, now, e)
    BY <1>3
  <1>5. Rising(g, K) /\ \A k \in 1 .. K : e[now[g[k]]] # NULL
    BY <1>4 DEF Picks
  <1> DEFINE G == [k \in 1 .. K |-> E[g[k]]]
  <1>6. G \in [1 .. K -> Int] /\ \A k \in 1 .. K : G[k] = E[g[k]]
    OBVIOUS
  <1>7. PICK w : w = Carried(nx, h, e)
    OBVIOUS
  <1>8. w = [k \in 1 .. K |-> e[now[g[k]]]]
    BY <1>4, <1>7 DEF Picked
  <1>9. w = [k \in 1 .. K |-> w[k]] /\ \A k \in 1 .. K : w[k] = e[now[g[k]]]
    BY <1>8
  <1>. HIDE DEF G
  <1>10. Rising(G, K)
    <2> SUFFICES ASSUME NEW i \in 1 .. K, NEW j \in 1 .. K, i < j PROVE G[i] < G[j]
      BY DEF Rising
    <2>1. PICK a, b \in 1 .. n2 : a = g[i] /\ b = g[j] /\ a < b
      BY <1>5 DEF Rising
    <2>2. E[a] < E[b]
      BY <2>1 DEF Rising
    <2>3. G[i] = E[a] /\ G[j] = E[b]
      BY <1>6, <2>1
    <2>4. QED
      BY <2>2, <2>3
  <1>11. \A k \in 1 .. K : \E j \in 1 .. L : F[j] = G[k] /\ s[j] = w[k]
    <2> TAKE k \in 1 .. K
    <2>1. g[k] \in 1 .. n2 /\ e[now[g[k]]] # NULL
      BY <1>5
    <2>2. E[g[k]] \in 1 .. n /\ e[now[g[k]]] = d[cells[E[g[k]]]]
      BY <2>1 DEF Follows
    <2>3. \E j \in 1 .. L : F[j] = E[g[k]] /\ s[j] = d[cells[E[g[k]]]]
      BY <1>2, <2>1, <2>2
    <2>4. QED
      BY <1>6, <1>9, <2>2, <2>3
  <1>12. Thinner(w, s, L)
    <2>1. Rising(F, L) /\ G \in [1 .. K -> Int]
      BY <1>2, <1>6
    <2>2. QED
      BY <1>10, <1>11, <1>9, <2>1, ThinByLabel
  <1>13. QED
    BY <1>7, <1>12

\* `now` follows cells, but for p, which may come last.
Along(now, n2, cells, n, p) ==
  \A i \in 1 .. n2 : (now[i] = p /\ i = n2) \/ (now[i] # p /\ i \in 1 .. n /\ now[i] = cells[i])

\* When at most the pointer to p is new, the chain from g after the step
\* follows the one from h before it.
LEMMA AlongChain ==
  ASSUME NEW p \in Cell, NEW n \in Nat, NEW cells \in [1 .. n -> Cell],
         NEW nx, NEW h, IsChain(nx, h, cells),
         NEW n2 \in Nat, NEW now \in [1 .. n2 -> Cell], Distinct(now),
         NEW ny, NEW g, IsChain(ny, g, now),
         g \in {h, p}, \A c \in Cell : c # p => ny[c] \in {nx[c], p},
         \A i \in 1 .. n2 : now[i] = p => ny[p] \in {NULL, p}
  PROVE  Along(now, n2, cells, n, p)
  <1>1. \A i \in 1 .. n2 :
          /\ now[i] \in Cell /\ now[i] # NULL
          /\ ny[now[i]] = IF i + 1 \in 1 .. n2 THEN now[i + 1] ELSE NULL
    <2>1. DOMAIN now = 1 .. n2
      OBVIOUS
    <2>2. \A i \in 1 .. n2 : ny[now[i]] = IF i + 1 \in 1 .. n2 THEN now[i + 1] ELSE NULL
      BY <2>1 DEF IsChain
    <2>3. \A i \in 1 .. n2 : now[i] \in Cell /\ now[i] # NULL
      BY NullAssumption
    <2>4. QED
      BY <2>2, <2>3
  <1>2. ASSUME NEW i \in 1 .. n2, now[i] = p PROVE i = n2
    <2> SUFFICES ASSUME i + 1 \in 1 .. n2 PROVE FALSE
      OBVIOUS
    <2>1. ny[p] = now[i + 1] /\ now[i + 1] # NULL
      BY <1>1, <1>2
    <2>2. now[i + 1] = now[i]
      BY <1>2, <2>1
    <2>3. i + 1 = i
      BY <2>2 DEF Distinct
    <2>4. QED
      BY <2>3
  <1> DEFINE Bad == {i \in 1 .. n2 : ~ (now[i] = p \/ (i \in 1 .. n /\ now[i] = cells[i]))}
  <1>3. ASSUME Bad # {} PROVE FALSE
    <2>1. Bad \in SUBSET Nat
      OBVIOUS
    <2>2. PICK i \in Bad : \A j \in Bad : i <= j
      <3>. HIDE DEF Bad
      <3>1. QED
        BY <1>3, <2>1, LeastElement
    <2>3. i \in 1 .. n2 /\ now[i] # p /\ ~ (i \in 1 .. n /\ now[i] = cells[i])
      OBVIOUS
    <2>4. CASE i = 1
      <3>1. g = now[1] /\ g # p
        BY <2>3, <2>4 DEF IsChain
      <3>2. h = now[1] /\ h # NULL
        BY <1>1, <2>3, <2>4, <3>1
      <3>3. 1 \in 1 .. n /\ h = cells[1]
        BY <3>2 DEF IsChain
      <3>4. QED
        BY <2>3, <2>4, <3>2, <3>3
    <2>5. CASE i # 1
      <3>1. i - 1 \in 1 .. n2 /\ (i - 1) + 1 = i /\ i - 1 \notin Bad
        BY <2>2, <2>3, <2>5
      <3>2. now[i - 1] # p
        BY <1>2, <2>3, <3>1
      <3>3. i - 1 \in 1 .. n /\ now[i - 1] = cells[i - 1]
        BY <3>1, <3>2
      <3>4. ny[now[i - 1]] = now[i]
        BY <1>1, <2>3, <3>1
      <3>5. now[i] = nx[cells[i - 1]]
        BY <1>1, <2>3, <3>1, <3>2, <3>3, <3>4
      <3>6. nx[cells[i - 1]] = IF i \in 1 .. n THEN cells[i] ELSE NULL
        BY <3>1, <3>3 DEF IsChain
      <3>7. QED
        BY <1>1, <2>3, <3>5, <3>6
    <2>6. QED
      BY <2>4, <2>5
  <1>4. QED
    BY <1>2, <1>3 DEF Along

\* The messages carried by a chain, a sequence, cover it.
LEMMA CoversCarried ==
  ASSUME NEW M, NEW n \in Nat, NEW cells \in [1 .. n -> Cell],
         NEW d \in [Cell -> M \cup {NULL}], NEW nx, NEW h, Selection(nx, h, d, n, cells)
  PROVE  \E L \in Nat : \E x \in [1 .. L -> M] :
           /\ x = Carried(nx, h, d) /\ Covers(x, L, n, cells, d)
           /\ n >= 1 /\ d[cells[1]] # NULL => L >= 1 /\ x[1] = d[cells[1]]
  <1>1. PICK L \in Nat : \E f \in [1 .. L -> 1 .. n] :
           Picks(f, L, n, cells, d) /\ Carried(nx, h, d) = Picked(f, L, cells, d)
    BY DEF Selection
  <1>2. PICK f \in [1 .. L -> 1 .. n] :
           Picks(f, L, n, cells, d) /\ Carried(nx, h, d) = Picked(f, L, cells, d)
    BY <1>1
  <1>3. PICK x : x = [k \in 1 .. L |-> d[cells[f[k]]]]
    OBVIOUS
  <1>4. /\ Rising(f, L) /\ \A k \in 1 .. L : d[cells[f[k]]] # NULL
        /\ \A i \in 1 .. n : d[cells[i]] # NULL => \E k \in 1 .. L : f[k] = i
    BY <1>2 DEF Picks
  <1>5. x \in [1 .. L -> M] /\ \A k \in 1 .. L : x[k] = d[cells[f[k]]]
    <2>1. \A k \in 1 .. L : d[cells[f[k]]] \in M
      BY <1>4
    <2>2. QED
      BY <1>3, <2>1
  <1>6. x = Carried(nx, h, d)
    BY <1>2, <1>3 DEF Picked
  <1>7. f \in [1 .. L -> Int] /\ \A j \in 1 .. L : f[j] <= n
    OBVIOUS
  <1>8. \A i \in 1 .. n : d[cells[i]] # NULL => \E j \in 1 .. L : f[j] = i /\ x[j] = d[cells[i]]
    BY <1>4, <1>5
  <1>9. Covers(x, L, n, cells, d)
    BY <1>4, <1>7, <1>8 DEF Covers, Labels
  <1>10. ASSUME n >= 1, d[cells[1]] # NULL PROVE L >= 1 /\ x[1] = d[cells[1]]
    <2>1. PICK k \in 1 .. L : f[k] = 1
      BY <1>4, <1>10
    <2>2. f[1] \in 1 .. n /\ 1 \in 1 .. L
      OBVIOUS
    <2>3. 1 < k => f[1] < f[k]
      BY <1>4, <2>2 DEF Rising
    <2>4. k = 1
      BY <2>1, <2>2, <2>3
    <2>5. QED
      BY <1>5, <2>1, <2>2, <2>4
  <1>11. QED
    BY <1>5, <1>6, <1>9, <1>10

\* s is x and then m; e differs from d, on cells and p, by storing m in p.
Appended(s, x, L, m) == s[L + 1] = m /\ \A j \in 1 .. L : s[j] = x[j]
Stored(e, d, n, cells, p, m) == e[p] = m /\ \A i \in 1 .. n : e[cells[i]] = d[cells[i]]

\* With the pushed message at the end, of the sequence and of the chain.
LEMMA CoversPush ==
  ASSUME NEW L \in Nat, NEW x, NEW n \in Nat, NEW cells \in [1 .. n -> Cell],
         NEW d, Covers(x, L, n, cells, d),
         NEW p, NEW m, NEW e, Stored(e, d, n, cells, p, m),
         NEW s, Appended(s, x, L, m)
  PROVE  Covers(s, L + 1, n + 1, More(cells, n, p), e)
  <1>1. /\ e[p] = m /\ \A i \in 1 .. n : e[cells[i]] = d[cells[i]]
        /\ s[L + 1] = m /\ \A j \in 1 .. L : s[j] = x[j]
    BY DEF Stored, Appended
  <1>2. PICK F \in [1 .. L -> Int] : Labels(F, x, L, n, cells, d)
    BY DEF Covers
  <1>3. /\ Rising(F, L) /\ \A j \in 1 .. L : F[j] <= n
        /\ \A i \in 1 .. n :
             d[cells[i]] # NULL => \E j \in 1 .. L : F[j] = i /\ x[j] = d[cells[i]]
    BY <1>2 DEF Labels
  <1> DEFINE G == [j \in 1 .. L + 1 |-> IF j = L + 1 THEN n + 1 ELSE F[j]]
  <1>4. /\ G \in [1 .. L + 1 -> Int] /\ G[L + 1] = n + 1
        /\ \A j \in 1 .. L : G[j] = F[j] /\ F[j] \in Int
    OBVIOUS
  <1>5. PICK more : more = More(cells, n, p)
    OBVIOUS
  <1>6. more[n + 1] = p /\ \A i \in 1 .. n : more[i] = cells[i]
    BY <1>5 DEF More
  <1>. HIDE DEF G
  <1>7. Rising(G, L + 1)
    <2> SUFFICES ASSUME NEW i \in 1 .. L + 1, NEW j \in 1 .. L + 1, i < j PROVE G[i] < G[j]
      BY DEF Rising
    <2>1. i \in 1 .. L
      OBVIOUS
    <2>2. CASE j = L + 1
      BY <1>3, <1>4, <2>1, <2>2
    <2>3. CASE j \in 1 .. L
      BY <1>3, <1>4, <2>1, <2>3 DEF Rising
    <2>4. QED
      BY <2>2, <2>3
  <1>8. \A j \in 1 .. L + 1 : G[j] <= n + 1
    <2> TAKE j \in 1 .. L + 1
    <2>1. CASE j = L + 1
      BY <1>4, <2>1
    <2>2. CASE j \in 1 .. L
      BY <1>3, <1>4, <2>2
    <2>3. QED
      BY <2>1, <2>2
  <1>9. ASSUME NEW i \in 1 .. n + 1, e[more[i]] # NULL
        PROVE  \E j \in 1 .. L + 1 : G[j] = i /\ s[j] = e[more[i]]
    <2>1. CASE i = n + 1
      <3>1. e[more[i]] = m /\ L + 1 \in 1 .. L + 1
        BY <1>1, <1>6, <2>1
      <3>2. QED
        BY <1>1, <1>4, <2>1, <3>1
    <2>2. CASE i \in 1 .. n
      <3>1. e[more[i]] = d[cells[i]]
        BY <1>1, <1>6, <2>2
      <3>2. PICK j \in 1 .. L : F[j] = i /\ x[j] = d[cells[i]]
        BY <1>3, <1>9, <2>2, <3>1
      <3>3. j \in 1 .. L + 1 /\ G[j] = i /\ s[j] = e[more[i]]
        BY <1>1, <1>4, <3>1, <3>2
      <3>4. QED
        BY <3>3
    <2>3. QED
      BY <2>1, <2>2
  <1>10. Covers(s, L + 1, n + 1, more, e)
    BY <1>4, <1>7, <1>8, <1>9 DEF Covers, Labels
  <1>11. QED
    BY <1>5, <1>10

\* Without the first cell.
LEMMA CoversRest ==
  ASSUME NEW L \in Nat, NEW x, NEW n \in Nat, NEW cells \in [1 .. n -> Cell],
         n >= 1, NEW d, Covers(x, L, n, cells, d)
  PROVE  Covers(x, L, n - 1, Rest(cells, n), d)
  <1>1. PICK F \in [1 .. L -> Int] : Labels(F, x, L, n, cells, d)
    BY DEF Covers
  <1>2. /\ Rising(F, L) /\ \A j \in 1 .. L : F[j] <= n
        /\ \A i \in 1 .. n :
             d[cells[i]] # NULL => \E j \in 1 .. L : F[j] = i /\ x[j] = d[cells[i]]
    BY <1>1 DEF Labels
  <1> DEFINE G == [j \in 1 .. L |-> F[j] - 1]
  <1>3. G \in [1 .. L -> Int] /\ \A j \in 1 .. L : G[j] = F[j] - 1 /\ F[j] \in Int
    OBVIOUS
  <1>4. PICK rest : rest = Rest(cells, n) /\ \A i \in 1 .. n - 1 : rest[i] = cells[i + 1]
    <2>1. \A i \in 1 .. n - 1 : Rest(cells, n)[i] = cells[i + 1]
      BY DEF Rest
    <2>2. QED
      BY <2>1
  <1>. HIDE DEF G
  <1>5. Rising(G, L) /\ \A j \in 1 .. L : G[j] <= n - 1
    BY <1>2, <1>3 DEF Rising
  <1>6. ASSUME NEW i \in 1 .. n - 1, d[rest[i]] # NULL
        PROVE  \E j \in 1 .. L : G[j] = i /\ x[j] = d[rest[i]]
    <2>1. i + 1 \in 1 .. n /\ rest[i] = cells[i + 1]
      BY <1>4
    <2>2. PICK j \in 1 .. L : F[j] = i + 1 /\ x[j] = d[cells[i + 1]]
      BY <1>2, <1>6, <2>1
    <2>3. G[j] = i /\ x[j] = d[rest[i]]
      BY <1>3, <2>1, <2>2
    <2>4. QED
      BY <2>3
  <1>7. Covers(x, L, n - 1, rest, d)
    BY <1>3, <1>5, <1>6 DEF Covers, Labels
  <1>8. QED
    BY <1>4, <1>7

\* s is x without its first element.
Shifted(s, x, L) == \A j \in 1 .. L - 1 : s[j] = x[j + 1]

\* Without the first cell, and without its message.
LEMMA CoversTail ==
  ASSUME NEW L \in Nat, NEW x, NEW n \in Nat, NEW cells \in [1 .. n -> Cell],
         n >= 1, NEW d, Covers(x, L, n, cells, d), d[cells[1]] # NULL,
         NEW s, Shifted(s, x, L)
  PROVE  L - 1 \in Nat /\ Covers(s, L - 1, n - 1, Rest(cells, n), d)
  <1>1. PICK F \in [1 .. L -> Int] : Labels(F, x, L, n, cells, d)
    BY DEF Covers
  <1>2. /\ Rising(F, L) /\ \A j \in 1 .. L : F[j] <= n
        /\ \A i \in 1 .. n :
             d[cells[i]] # NULL => \E j \in 1 .. L : F[j] = i /\ x[j] = d[cells[i]]
    BY <1>1 DEF Labels
  <1>3. PICK a \in 1 .. L : F[a] = 1
    <2>1. 1 \in 1 .. n
      OBVIOUS
    <2>2. QED
      BY <1>2, <2>1
  <1> DEFINE G == [j \in 1 .. L - 1 |-> F[j + 1] - 1]
  <1>4. /\ G \in [1 .. L - 1 -> Int]
        /\ \A j \in 1 .. L - 1 : j + 1 \in 1 .. L /\ G[j] = F[j + 1] - 1 /\ F[j + 1] \in Int
    OBVIOUS
  <1>5. PICK rest : rest = Rest(cells, n) /\ \A i \in 1 .. n - 1 : rest[i] = cells[i + 1]
    <2>1. \A i \in 1 .. n - 1 : Rest(cells, n)[i] = cells[i + 1]
      BY DEF Rest
    <2>2. QED
      BY <2>1
  <1>. HIDE DEF G
  <1>6. Rising(G, L - 1)
    <2> SUFFICES ASSUME NEW i \in 1 .. L - 1, NEW j \in 1 .. L - 1, i < j PROVE G[i] < G[j]
      BY DEF Rising
    <2>1. F[i + 1] < F[j + 1]
      BY <1>2, <1>4 DEF Rising
    <2>2. QED
      BY <1>4, <2>1
  <1>7. \A j \in 1 .. L - 1 : G[j] <= n - 1
    BY <1>2, <1>4
  <1>8. ASSUME NEW i \in 1 .. n - 1, d[rest[i]] # NULL
        PROVE  \E j \in 1 .. L - 1 : G[j] = i /\ s[j] = d[rest[i]]
    <2>1. i + 1 \in 1 .. n /\ rest[i] = cells[i + 1]
      BY <1>5
    <2>2. PICK b \in 1 .. L : F[b] = i + 1 /\ x[b] = d[cells[i + 1]]
      BY <1>2, <1>8, <2>1
    <2>3. b < a => F[b] < F[a]
      BY <1>2 DEF Rising
    <2>4. b # a /\ ~ (b < a)
      BY <1>3, <2>2, <2>3
    <2>5. b - 1 \in 1 .. L - 1 /\ (b - 1) + 1 = b
      BY <2>4
    <2>6. G[b - 1] = i /\ s[b - 1] = d[rest[i]]
      BY <1>4, <2>1, <2>2, <2>5 DEF Shifted
    <2>7. QED
      BY <2>5, <2>6
  <1>9. L - 1 \in Nat
    OBVIOUS
  <1>10. Covers(s, L - 1, n - 1, rest, d)
    BY <1>4, <1>6, <1>7, <1>8 DEF Covers, Labels
  <1>11. QED
    BY <1>5, <1>9, <1>10

\* The message list ends, however its cells are linked.
Listed ==
  \E n \in Nat : \E cells \in [1 .. n -> heap] :
    Distinct(cells) /\ IsChain(next, queue.head, cells)

LEMMA IntactListed ==
  ASSUME NEW M, QueueTypeOK(M), UniqueOwner, OwnedIsAllocated
  PROVE  Listed
  <1>1. PICK h : h = queue.head /\ h \in {queue.head, tmp_queue.head}
    OBVIOUS
  <1>2. \E n \in Nat : \E cells \in [1 .. n -> heap] : Distinct(cells) /\ IsChain(next, h, cells)
    BY <1>1, ChainExists
  <1>3. QED
    BY <1>1, <1>2 DEF Listed

\* Of the cells it leaves, a push changes next of at most one: p may be
\* linked behind it.
LEMMA EnqueueStep ==
  ASSUME NEW M, NEW m, QueueTypeOK(M), NEW p \in Cell, Enqueue(p, m)
  PROVE  /\ queue'.head \in {queue.head, p}
         /\ next'[p] \in {NULL, p}
         /\ data'[p] = m
         /\ \A c \in Cell : c # p => next'[c] \in {next[c], p} /\ data'[c] = data[c]
  <1> DEFINE nx == [next EXCEPT ![p] = NULL]
  <1>1. /\ queue' = LinkCell(queue, p)
        /\ next' = LinkNext(queue, nx, p)
        /\ data' = [data EXCEPT ![p] = m]
    BY DEF Enqueue
  <1>2. /\ queue \in List /\ nx \in [Cell -> Pointer] /\ nx[p] = NULL
        /\ \A c \in Cell : c # p => nx[c] = next[c] /\ data'[c] = data[c]
        /\ data'[p] = m
    BY <1>1 DEF QueueTypeOK, Pointer
  <1>3. queue'.head \in {queue.head, p}
    BY <1>1, <1>2 DEF LinkCell, List
  <1>. HIDE DEF nx
  <1>4. \A c \in Cell : LinkNext(queue, nx, p)[c] \in {nx[c], p}
    <2>1. queue \in List /\ nx \in [Cell -> Pointer]
      BY <1>2
    <2>2. QED
      BY <2>1, LinkOne
  <1>5. \A c \in Cell : next'[c] \in {nx[c], p}
    BY <1>1, <1>4
  <1>6. QED
    BY <1>2, <1>3, <1>5

\* Whatever its tail points to, a push adds its message to the list, and
\* nothing else comes in.
LEMMA LossyPush ==
  ASSUME NEW M, NEW m \in M,
         QueueTypeOK(M), UniqueOwner, OwnedIsAllocated, QueueTypeOK(M)',
         queue_push(m), Listed, Listed'
  PROVE  Contents \in Seq(M) /\ Thinner(Contents', Append(Contents, m), Len(Contents) + 1)
  <1>1. /\ heap \in SUBSET Cell /\ data \in [Cell -> M \cup {NULL}]
        /\ heap' \in SUBSET Cell
    BY DEF QueueTypeOK
  <1>2. PICK n \in Nat : \E cells \in [1 .. n -> heap] :
           Distinct(cells) /\ IsChain(next, queue.head, cells)
    BY DEF Listed
  <1>3. PICK cells \in [1 .. n -> heap] : Distinct(cells) /\ IsChain(next, queue.head, cells)
    BY <1>2
  <1>4. PICK k \in Nat : \E now \in [1 .. k -> heap'] :
           Distinct(now) /\ IsChain(next', queue'.head, now)
    BY DEF Listed
  <1>5. PICK now \in [1 .. k -> heap'] : Distinct(now) /\ IsChain(next', queue'.head, now)
    BY <1>4
  <1>6. cells \in [1 .. n -> Cell] /\ now \in [1 .. k -> Cell]
    BY <1>1
  <1>7. PICK p \in Cell : Enqueue(p, m) /\ \A i \in 1 .. n : cells[i] # p
    BY <1>3, PushCell
  <1>8. /\ queue'.head \in {queue.head, p}
        /\ next'[p] \in {NULL, p}
        /\ data'[p] = m
        /\ \A c \in Cell : c # p => next'[c] \in {next[c], p} /\ data'[c] = data[c]
    BY <1>7, EnqueueStep
  <1>9. PICK nx, h, ny, g, e :
          nx = next /\ h = queue.head /\ ny = next' /\ g = queue'.head /\ e = data'
    OBVIOUS
  <1>10. Along(now, k, cells, n, p)
    <2>1. /\ IsChain(nx, h, cells) /\ Distinct(now) /\ IsChain(ny, g, now)
          /\ g \in {h, p} /\ \A c \in Cell : c # p => ny[c] \in {nx[c], p}
      BY <1>3, <1>5, <1>8, <1>9
    <2>2. \A i \in 1 .. k : now[i] = p => ny[p] \in {NULL, p}
      BY <1>8, <1>9
    <2>3. QED
      BY <1>6, <2>1, <2>2, AlongChain
  <1>11. PICK L \in Nat : \E x \in [1 .. L -> M] :
           x = Contents /\ Covers(x, L, n, cells, data)
    <2>1. Selection(next, queue.head, data, n, cells)
      BY <1>3, <1>6, CarriedFacts
    <2>2. \E L \in Nat : \E x \in [1 .. L -> M] :
            /\ x = Carried(next, queue.head, data) /\ Covers(x, L, n, cells, data)
            /\ n >= 1 /\ data[cells[1]] # NULL => L >= 1 /\ x[1] = data[cells[1]]
      BY <1>1, <1>6, <2>1, CoversCarried
    <2>3. QED
      BY <2>2 DEF Contents
  <1>12. PICK x \in [1 .. L -> M] : x = Contents /\ Covers(x, L, n, cells, data)
    BY <1>11
  <1>13. x \in Seq(M) /\ Len(x) = L
    BY RangeSeq
  <1>14. PICK s : s = Append(x, m)
    OBVIOUS
  <1>15. s[L + 1] = m /\ \A j \in 1 .. L : s[j] = x[j]
    BY <1>13, <1>14
  <1>16. Covers(s, L + 1, n + 1, More(cells, n, p), e)
    <2>1. PICK d : d = data
      OBVIOUS
    <2>2. Stored(e, d, n, cells, p, m)
      BY <1>6, <1>7, <1>8, <1>9, <2>1 DEF Stored
    <2>3. Appended(s, x, L, m)
      BY <1>15 DEF Appended
    <2>4. Covers(x, L, n, cells, d) /\ cells \in [1 .. n -> Cell]
      BY <1>6, <1>12, <2>1
    <2>5. QED
      BY <2>2, <2>3, <2>4, CoversPush
  <1>17. Selection(ny, g, e, k, now)
    BY <1>5, <1>6, <1>9, CarriedFacts
  <1> DEFINE E == [i \in 1 .. k |-> IF now[i] = p THEN n + 1 ELSE i]
  <1>18. /\ E \in [1 .. k -> Nat]
         /\ \A i \in 1 .. k : E[i] = IF now[i] = p THEN n + 1 ELSE i
    OBVIOUS
  <1>19. PICK more : more = More(cells, n, p)
    OBVIOUS
  <1>20. more[n + 1] = p /\ \A i \in 1 .. n : more[i] = cells[i]
    BY <1>19 DEF More
  <1>. HIDE DEF E
  <1>21. Rising(E, k)
    <2> SUFFICES ASSUME NEW i \in 1 .. k, NEW j \in 1 .. k, i < j PROVE E[i] < E[j]
      BY DEF Rising
    <2>1. now[i] # p /\ i \in 1 .. n
      BY <1>10 DEF Along
    <2>2. QED
      BY <1>18, <2>1
  <1>22. ASSUME NEW i \in 1 .. k
         PROVE  E[i] \in 1 .. n + 1 /\ e[now[i]] = e[more[E[i]]]
    <2>1. CASE now[i] = p
      BY <1>18, <1>20, <2>1
    <2>2. CASE now[i] # p
      <3>1. i \in 1 .. n /\ now[i] = cells[i]
        BY <1>10, <2>2 DEF Along
      <3>2. QED
        BY <1>18, <1>20, <2>2, <3>1
    <2>3. QED
      BY <2>1, <2>2
  <1>23. Thinner(Carried(ny, g, e), s, L + 1)
    <2>1. PICK l \in Nat, r \in Nat : l = L + 1 /\ r = n + 1
      OBVIOUS
    <2>2. Covers(s, l, r, more, e)
      BY <1>16, <1>19, <2>1
    <2>3. Follows(now, k, e, E, more, r, e)
      BY <1>22, <2>1 DEF Follows
    <2>4. E \in [1 .. k -> Nat]
      BY <1>18
    <2>5. Thinner(Carried(ny, g, e), s, l)
      BY <1>17, <1>21, <2>2, <2>3, <2>4, ThinChain
    <2>6. QED
      BY <2>1, <2>5
  <1>24. Contents' = Carried(ny, g, e)
    BY <1>9 DEF Contents
  <1>25. QED
    BY <1>12, <1>13, <1>14, <1>23, <1>24

LEMMA ThinnerSelf ==
  ASSUME NEW S, NEW L \in Nat, NEW x \in [1 .. L -> S]
  PROVE  Thinner(x, x, L)
  <1> DEFINE e == [k \in 1 .. L |-> k]
  <1>1. e \in [1 .. L -> 1 .. L] /\ \A k \in 1 .. L : e[k] = k
    OBVIOUS
  <1>. HIDE DEF e
  <1>2. Rising(e, L) /\ L <= L
    BY <1>1 DEF Rising
  <1>3. x = [k \in 1 .. L |-> x[e[k]]]
    BY <1>1
  <1>4. QED
    BY <1>1, <1>2, <1>3 DEF Thinner

\* A pop returns the first message of the list and leaves of the others what
\* the linking of its cell, behind whatever tail, leaves; from a head without
\* a message, which a stray link can make, it returns NULL.
LEMMA LossyPop ==
  ASSUME NEW M, NEW m, NULL \notin M,
         QueueTypeOK(M), OwnedIsAllocated, QueueTypeOK(M)', queue_pop(m), Listed, Listed'
  PROVE  /\ Contents \in Seq(M)
         /\ \/ m = NULL /\ Thinner(Contents', Contents, Len(Contents))
            \/ /\ Contents # << >> /\ m = Head(Contents)
               /\ Thinner(Contents', Tail(Contents), Len(Contents) - 1)
  <1>1. /\ heap \in SUBSET Cell /\ data \in [Cell -> M \cup {NULL}]
        /\ heap' \in SUBSET Cell
    BY DEF QueueTypeOK
  <1>2. PICK n \in Nat : \E cells \in [1 .. n -> heap] :
           Distinct(cells) /\ IsChain(next, queue.head, cells)
    BY DEF Listed
  <1>3. PICK cells \in [1 .. n -> heap] : Distinct(cells) /\ IsChain(next, queue.head, cells)
    BY <1>2
  <1>4. cells \in [1 .. n -> Cell]
    BY <1>1
  <1>5. PICK L \in Nat : \E x \in [1 .. L -> M] :
          /\ x = Contents /\ Covers(x, L, n, cells, data)
          /\ n >= 1 /\ data[cells[1]] # NULL => L >= 1 /\ x[1] = data[cells[1]]
    <2>1. Selection(next, queue.head, data, n, cells)
      BY <1>3, <1>4, CarriedFacts
    <2>2. \E L \in Nat : \E x \in [1 .. L -> M] :
            /\ x = Carried(next, queue.head, data) /\ Covers(x, L, n, cells, data)
            /\ n >= 1 /\ data[cells[1]] # NULL => L >= 1 /\ x[1] = data[cells[1]]
      BY <1>1, <1>4, <2>1, CoversCarried
    <2>3. QED
      BY <2>2 DEF Contents
  <1>6. PICK x \in [1 .. L -> M] :
          /\ x = Contents /\ Covers(x, L, n, cells, data)
          /\ n >= 1 /\ data[cells[1]] # NULL => L >= 1 /\ x[1] = data[cells[1]]
    BY <1>5
  <1>7. x \in Seq(M) /\ Len(x) = L
    BY RangeSeq
  <1>8. CASE queue.head = NULL
    <2>1. m = NULL /\ UNCHANGED qvars
      BY <1>8 DEF queue_pop, PopEmpty, PopRecycled, PopFreed
    <2>2. Contents' = Contents
      BY <2>1 DEF Contents, qvars
    <2>3. Thinner(x, x, L)
      BY ThinnerSelf
    <2>4. QED
      BY <1>6, <1>7, <2>1, <2>2, <2>3
  <1>9. CASE queue.head # NULL
    <2>1. PICK p \in Cell : p = queue.head /\ p # NULL
      BY <1>9 DEF QueueTypeOK, List, Pointer
    <2>2. /\ m = data[p]
          /\ queue'.head = next[p]
          /\ p \in heap' => data'[p] = NULL
          /\ \A c \in Cell : c # p => data'[c] = data[c] /\ next'[c] \in {next[c], p}
          /\ next'[p] \in {NULL, p} \/ p \notin heap'
      BY <2>1, PopStep
    <2>3. PICK rest : rest = Rest(cells, n)
      OBVIOUS
    <2>4. /\ n >= 1 /\ n - 1 \in Nat /\ p = cells[1]
          /\ rest \in [1 .. n - 1 -> heap \ {p}]
          /\ IsChain(next, next[p], rest)
      <3>1. IsChain(next, p, cells) /\ Distinct(cells)
        BY <1>3, <2>1
      <3>2. heap \in SUBSET Cell /\ p # NULL
        BY <1>1, <2>1
      <3>3. n >= 1 /\ n - 1 \in Nat /\ p = cells[1]
        BY <3>1, <3>2 DEF IsChain
      <3>4. /\ Rest(cells, n) \in [1 .. n - 1 -> heap \ {p}]
            /\ Distinct(Rest(cells, n))
            /\ IsChain(next, next[p], Rest(cells, n))
        BY <3>1, <3>2, ChainRest
      <3>5. QED
        BY <2>3, <3>3, <3>4
    <2>5. PICK r \in Nat : r = n - 1
      BY <2>4
    <2>6. rest \in [1 .. r -> Cell] /\ \A i \in 1 .. r : rest[i] # p
      BY <1>1, <2>4, <2>5
    <2>7. PICK k \in Nat : \E now \in [1 .. k -> heap'] :
             Distinct(now) /\ IsChain(next', queue'.head, now)
      BY DEF Listed
    <2>8. PICK now \in [1 .. k -> heap'] : Distinct(now) /\ IsChain(next', queue'.head, now)
      BY <2>7
    <2>9. now \in [1 .. k -> Cell]
      BY <1>1
    <2>10. PICK nx, h, d, ny, g, e :
             nx = next /\ h = next[p] /\ d = data /\ ny = next' /\ g = queue'.head /\ e = data'
      OBVIOUS
    <2>11. Along(now, k, rest, r, p)
      <3>1. /\ IsChain(nx, h, rest) /\ Distinct(now) /\ IsChain(ny, g, now)
            /\ g \in {h, p} /\ \A c \in Cell : c # p => ny[c] \in {nx[c], p}
        BY <2>2, <2>4, <2>8, <2>10
      <3>2. \A i \in 1 .. k : now[i] = p => ny[p] \in {NULL, p}
        BY <2>2, <2>10
      <3>3. rest \in [1 .. r -> Cell]
        BY <2>6
      <3>4. QED
        BY <2>9, <3>1, <3>2, <3>3, AlongChain
    <2>12. Selection(ny, g, e, k, now)
      BY <2>8, <2>9, <2>10, CarriedFacts
    <2> DEFINE E == [i \in 1 .. k |-> i]
    <2>13. E \in [1 .. k -> Nat] /\ \A i \in 1 .. k : E[i] = i
      OBVIOUS
    <2>. HIDE DEF E
    <2>14. Rising(E, k)
      BY <2>13 DEF Rising
    <2>15. Follows(now, k, e, E, rest, r, d)
      <3> SUFFICES ASSUME NEW i \in 1 .. k, e[now[i]] # NULL
                   PROVE  E[i] \in 1 .. r /\ e[now[i]] = d[rest[E[i]]]
        BY DEF Follows
      <3>1. now[i] # p
        BY <2>2, <2>10
      <3>2. i \in 1 .. r /\ now[i] = rest[i]
        BY <2>11, <3>1 DEF Along
      <3>3. e[now[i]] = d[now[i]]
        BY <2>2, <2>9, <2>10, <3>1
      <3>4. QED
        BY <2>13, <3>2, <3>3
    <2>16. Contents' = Carried(ny, g, e)
      BY <2>10 DEF Contents
    <2>17. ASSUME NEW l \in Nat, NEW s, Covers(s, l, r, rest, d)
           PROVE  Thinner(Contents', s, l)
      <3>1. E \in [1 .. k -> Nat]
        BY <2>13
      <3>2. Thinner(Carried(ny, g, e), s, l)
        BY <2>12, <2>14, <2>15, <2>17, <3>1, ThinChain
      <3>3. QED
        BY <2>16, <3>2
    <2>18. Covers(x, L, n, cells, d)
      BY <1>6, <2>10
    <2>19. CASE m = NULL
      <3>1. Covers(x, L, n - 1, Rest(cells, n), d)
        BY <1>4, <2>4, <2>18, CoversRest
      <3>2. Covers(x, L, r, rest, d)
        BY <2>3, <2>5, <3>1
      <3>3. Thinner(Contents', x, L)
        BY <2>17, <3>2
      <3>4. QED
        BY <1>6, <1>7, <2>19, <3>3
    <2>20. CASE m # NULL
      <3>1. d[cells[1]] # NULL /\ L >= 1 /\ x[1] = m
        BY <1>6, <2>2, <2>4, <2>10, <2>20
      <3>2. x # << >>
        BY <1>7, <3>1, EmptySeq
      <3>3. PICK s : s = Tail(x) /\ Shifted(s, x, L)
        <4>1. \A j \in 1 .. L - 1 : Tail(x)[j] = x[j + 1]
          BY <1>7, <3>2, HeadTailProperties
        <4>2. QED
          BY <4>1 DEF Shifted
      <3>4. L - 1 \in Nat /\ Covers(s, L - 1, n - 1, Rest(cells, n), d)
        BY <1>4, <2>4, <2>18, <3>1, <3>3, CoversTail
      <3>5. Covers(s, L - 1, r, rest, d)
        BY <2>3, <2>5, <3>4
      <3>6. Thinner(Contents', s, L - 1)
        BY <2>17, <3>4, <3>5
      <3>7. Head(x) = m
        BY <1>7, <3>1, <3>2
      <3>8. QED
        BY <1>6, <1>7, <3>2, <3>3, <3>6, <3>7
    <2>21. QED
      BY <2>19, <2>20
  <1>10. QED
    BY <1>8, <1>9

-----------------------------------------------------------------------------
(* Both lists as long as no tail is left over.                              *)

\* The free list is `spare`, as long as its counter says, none of its cells
\* is in the message list, and each tail is the last cell of its list.
Tidy(n, cells, t, spare) ==
  /\ Chained(n, cells) /\ TailFits(queue, cells)
  /\ t = tmp_queue.size
  /\ Distinct(spare) /\ IsChain(next, tmp_queue.head, spare) /\ TailFits(tmp_queue, spare)
  /\ \A i \in 1 .. n, j \in 1 .. t : cells[i] # spare[j]

\* A list that loses its first cell keeps a tail that fits, unless it is
\* emptied and its tail is left over.
LEMMA TailRest ==
  ASSUME NEW nx, NEW l, NEW k, NEW n \in Nat, NEW cells \in [1 .. n -> Cell], n >= 1,
         TailFits(l, cells), k.tail = l.tail, ~LeftOverTail(k),
         IsChain(nx, k.head, Rest(cells, n))
  PROVE  TailFits(k, Rest(cells, n))
  <1>1. PICK rest : rest = Rest(cells, n)
    OBVIOUS
  <1>2. /\ DOMAIN rest = 1 .. n - 1 /\ DOMAIN cells = 1 .. n
        /\ \A i \in 1 .. n - 1 : rest[i] = cells[i + 1]
    BY <1>1 DEF Rest
  <1>3. IsChain(nx, k.head, rest) /\ TailFits(l, cells)
    BY <1>1
  <1>4. CASE n = 1
    <2>1. DOMAIN rest = {}
      BY <1>2, <1>4
    <2>2. k.head = NULL
      BY <1>3, <2>1 DEF IsChain
    <2>3. k.tail = NULL
      BY <2>2 DEF LeftOverTail
    <2>4. TailFits(k, rest)
      BY <2>1, <2>3 DEF TailFits
    <2>5. QED
      BY <1>1, <2>4
  <1>5. CASE n # 1
    <2>1. n \in 1 .. n /\ n + 1 \notin 1 .. n
      OBVIOUS
    <2>2. l.tail = cells[n]
      BY <1>2, <1>3, <1>5, <2>1 DEF TailFits
    <2>3. rest[n - 1] = cells[n]
      BY <1>2, <1>5
    <2>4. \A i \in 1 .. n - 1 : i + 1 \notin 1 .. n - 1 => i = n - 1
      OBVIOUS
    <2>5. 1 \in 1 .. n - 1 /\ k.tail = rest[n - 1]
      BY <1>5, <2>2, <2>3
    <2>6. TailFits(k, rest)
      BY <1>2, <2>4, <2>5 DEF TailFits
    <2>7. QED
      BY <1>1, <2>6
  <1>6. QED
    BY <1>4, <1>5

\* The message list a push of m makes of `cells`: one more cell, with m in it.
TidyAndMore(n, cells, m) ==
  \E p \in heap' : \E u \in Nat : \E left \in [1 .. u -> heap'] :
    /\ More(cells, n, p) \in [1 .. n + 1 -> heap']
    /\ Tidy(n + 1, More(cells, n, p), u, left)'
    /\ data'[p] = m /\ \A i \in 1 .. n : data'[cells[i]] = data[cells[i]]

\* A push hangs its cell behind the message list; if the cell is reused, the
\* free list loses its first one.
LEMMA PushTidy ==
  ASSUME NEW M, NEW m \in M,
         QueueTypeOK(M), UniqueOwner, OwnedIsAllocated, queue_push(m),
         ~LeftOverTail(tmp_queue'),
         NEW n \in Nat, NEW cells \in [1 .. n -> heap],
         NEW t \in Nat, NEW spare \in [1 .. t -> heap], Tidy(n, cells, t, spare)
  PROVE  TidyAndMore(n, cells, m)
  <1> SUFFICES \E p \in heap' : \E u \in Nat : \E left \in [1 .. u -> heap'] :
                 /\ More(cells, n, p) \in [1 .. n + 1 -> heap']
                 /\ Tidy(n + 1, More(cells, n, p), u, left)'
                 /\ data'[p] = m /\ \A i \in 1 .. n : data'[cells[i]] = data[cells[i]]
    BY DEF TidyAndMore
  <1>1. heap \in SUBSET Cell
    BY DEF QueueTypeOK
  <1>2. cells \in [1 .. n -> Cell] /\ spare \in [1 .. t -> Cell]
    BY <1>1
  <1>3. /\ Chained(n, cells) /\ TailFits(queue, cells)
        /\ Distinct(cells) /\ IsChain(next, queue.head, cells)
        /\ \A i \in 1 .. n : cells[i] # tmp_queue.head /\ cells[i] # tmp_queue.tail
    BY DEF Tidy, Chained
  <1>4. /\ t = tmp_queue.size /\ Distinct(spare)
        /\ IsChain(next, tmp_queue.head, spare) /\ TailFits(tmp_queue, spare)
        /\ \A i \in 1 .. n, j \in 1 .. t : cells[i] # spare[j]
    BY DEF Tidy
  <1>5. ASSUME NEW p \in Cell, Enqueue(p, m), p \in heap',
               \A i \in 1 .. n : cells[i] # p /\ cells[i] \in heap',
               \A i \in 1 .. n : cells[i] # tmp_queue'.head /\ cells[i] # tmp_queue'.tail,
               p # tmp_queue'.head /\ p # tmp_queue'.tail,
               NEW u \in Nat, NEW left \in [1 .. u -> heap'],
               u = tmp_queue'.size, Distinct(left),
               IsChain(next, tmp_queue'.head, left), TailFits(tmp_queue', left),
               \A j \in 1 .. u : left[j] \in Cell /\ left[j] # p,
               \A i \in 1 .. n, j \in 1 .. u : cells[i] # left[j]
        PROVE  /\ More(cells, n, p) \in [1 .. n + 1 -> heap']
               /\ Tidy(n + 1, More(cells, n, p), u, left)'
               /\ data'[p] = m /\ \A i \in 1 .. n : data'[cells[i]] = data[cells[i]]
    <2>1. PICK more : more = More(cells, n, p)
      OBVIOUS
    <2>2. Avoids(cells, n, p)
      BY <1>5 DEF Avoids
    <2>3. Lengthened(cells, n, p, m, more)
      BY <1>2, <1>3, <1>5, <2>1, <2>2, EnqueueChain
    <2>4. /\ more[n + 1] = p /\ \A i \in 1 .. n : more[i] = cells[i]
          /\ Distinct(more) /\ IsChain(next', queue'.head, more) /\ TailFits(queue', more)
          /\ \A c \in Cell : c # p /\ (\A i \in 1 .. n : c # cells[i]) => next'[c] = next[c]
          /\ data'[p] = m /\ \A c \in Cell : c # p => data'[c] = data[c]
          /\ more \in [1 .. n + 1 -> Cell]
      BY <2>3 DEF Lengthened
    <2>5. \A i \in 1 .. n + 1 :
            more[i] \in heap' /\ more[i] # tmp_queue'.head /\ more[i] # tmp_queue'.tail
      <3> TAKE i \in 1 .. n + 1
      <3>1. CASE i = n + 1
        BY <1>5, <2>4, <3>1
      <3>2. CASE i \in 1 .. n
        BY <1>5, <2>4, <3>2
      <3>3. QED
        BY <3>1, <3>2
    <2>6. more \in [1 .. n + 1 -> heap']
      BY <2>4, <2>5
    <2>7. Chained(n + 1, more)'
      BY <2>4, <2>5 DEF Chained
    <2>8. IsChain(next', tmp_queue'.head, left)
      <3>1. \A j \in 1 .. u : next'[left[j]] = next[left[j]]
        BY <1>5, <2>4
      <3>2. QED
        BY <1>5, <3>1, ChainFrame
    <2>9. \A i \in 1 .. n + 1, j \in 1 .. u : more[i] # left[j]
      <3> TAKE i \in 1 .. n + 1, j \in 1 .. u
      <3>1. CASE i = n + 1
        BY <1>5, <2>4, <3>1
      <3>2. CASE i \in 1 .. n
        BY <1>5, <2>4, <3>2
      <3>3. QED
        BY <3>1, <3>2
    <2>10. Tidy(n + 1, more, u, left)'
      BY <1>5, <2>4, <2>7, <2>8, <2>9 DEF Tidy
    <2>11. \A i \in 1 .. n : data'[cells[i]] = data[cells[i]]
      BY <1>2, <1>5, <2>4
    <2>12. QED
      BY <2>1, <2>4, <2>6, <2>10, <2>11
  <1>6. CASE PushReused(m)
    <2>1. PICK p \in Cell : p = tmp_queue.head
      BY <1>6 DEF PushReused, QueueTypeOK, List, Pointer
    <2>2. /\ Enqueue(p, m) /\ heap' = heap /\ p # NULL
          /\ tmp_queue' = [tmp_queue EXCEPT !.head = next[p], !.size = Decrement(@)]
      BY <1>6, <2>1 DEF PushReused
    <2>3. PICK left : left = Rest(spare, t)
      OBVIOUS
    <2>4. IsChain(next, p, spare) /\ Distinct(spare)
      BY <1>4, <2>1
    <2>5. /\ t >= 1 /\ t - 1 \in Nat /\ p = spare[1] /\ 1 \in 1 .. t
      BY <2>2, <2>4 DEF IsChain
    <2>6. /\ left \in [1 .. t - 1 -> heap \ {p}]
          /\ Distinct(left)
          /\ IsChain(next, next[p], left)
          /\ \A j \in 1 .. t - 1 : left[j] = spare[j + 1] /\ j + 1 \in 1 .. t
      <3>1. /\ Rest(spare, t) \in [1 .. t - 1 -> heap \ {p}]
            /\ Distinct(Rest(spare, t))
            /\ IsChain(next, next[p], Rest(spare, t))
        BY <1>1, <2>2, <2>4, ChainRest
      <3>2. \A j \in 1 .. t - 1 : Rest(spare, t)[j] = spare[j + 1]
        BY DEF Rest
      <3>3. QED
        BY <2>3, <2>5, <3>1, <3>2
    <2>7. /\ tmp_queue'.head = next[p] /\ tmp_queue'.tail = tmp_queue.tail
          /\ tmp_queue'.size = t - 1
      <3>1. Decrement(tmp_queue.size) = t - 1
        BY <1>4, <2>5, SizeAssumption DEF Decrement, INT_MIN
      <3>2. QED
        BY <2>2, <3>1 DEF QueueTypeOK, List
    <2>8. TailFits(tmp_queue', left)
      <3>1. IsChain(next, tmp_queue'.head, Rest(spare, t))
        BY <2>3, <2>6, <2>7
      <3>2. TailFits(tmp_queue', Rest(spare, t))
        BY <1>2, <1>4, <2>5, <2>7, <3>1, TailRest
      <3>3. QED
        BY <2>3, <3>2
    <2>9. \A i \in 1 .. n, j \in 1 .. t - 1 : cells[i] # left[j]
      BY <1>4, <2>6
    <2>10. \A i \in 1 .. n : cells[i] # p /\ cells[i] # next[p]
      <3> TAKE i \in 1 .. n
      <3>1. cells[i] # p
        BY <1>4, <2>5
      <3>2. cells[i] # NULL
        BY <1>2, NullAssumption
      <3>3. next[p] = NULL \/ (1 \in 1 .. t - 1 /\ next[p] = left[1])
        BY <2>6 DEF IsChain
      <3>4. QED
        BY <2>9, <3>1, <3>2, <3>3
    <2>11. p # next[p] /\ p # tmp_queue'.tail
      <3>1. p # next[p]
        BY <1>1, <2>1, <2>2 DEF UniqueOwner, OwnedIsAllocated
      <3>2. CASE t = 1
        <4>1. tmp_queue'.head = NULL
          BY <2>6, <2>7, <3>2 DEF IsChain
        <4>2. QED
          BY <2>2, <3>1, <4>1 DEF LeftOverTail
      <3>3. CASE t # 1
        <4>1. t \in 1 .. t /\ t + 1 \notin 1 .. t /\ DOMAIN spare = 1 .. t
          BY <2>5
        <4>2. tmp_queue.tail = spare[t]
          BY <1>4, <3>3, <4>1 DEF TailFits
        <4>3. spare[t] # spare[1]
          BY <2>4, <2>5, <3>3, <4>1 DEF Distinct
        <4>4. QED
          BY <2>5, <2>7, <3>1, <4>2, <4>3
      <3>4. QED
        BY <3>2, <3>3
    <2>12. /\ p \in heap' /\ \A i \in 1 .. n : cells[i] \in heap'
           /\ left \in [1 .. t - 1 -> heap']
           /\ \A j \in 1 .. t - 1 : left[j] \in Cell /\ left[j] # p
      BY <1>1, <2>2, <2>5, <2>6
    <2>13. \A i \in 1 .. n : cells[i] # tmp_queue'.head /\ cells[i] # tmp_queue'.tail
      BY <1>3, <2>7, <2>10
    <2>14. QED
      BY <1>5, <2>2, <2>5, <2>6, <2>7, <2>8, <2>9, <2>10, <2>11, <2>12, <2>13
  <1>7. CASE PushMalloced(m)
    <2>1. PICK p \in Cell \ Kept : Enqueue(p, m) /\ heap' = Kept \cup {p}
      BY <1>7 DEF PushMalloced
    <2>2. tmp_queue' = tmp_queue /\ tmp_queue.head = NULL
      BY <1>7 DEF PushMalloced
    <2>3. \A i \in 1 .. n : cells[i] \in Kept
      <3>1. PICK h : h = queue.head /\ h \in {queue.head, tmp_queue.head}
        OBVIOUS
      <3>2. IsChain(next, h, cells)
        BY <1>3, <3>1
      <3>3. QED
        BY <3>1, <3>2, ChainKept
    <2>4. t = 0
      <3>1. IsChain(next, NULL, spare)
        BY <1>4, <2>2
      <3>2. 1 \notin 1 .. t
        BY <1>2, <3>1, NullAssumption DEF IsChain
      <3>3. QED
        BY <3>2
    <2>5. tmp_queue.tail = NULL
      BY <1>4, <2>4 DEF TailFits
    <2>6. /\ p \in Cell /\ p \in heap' /\ p # NULL
          /\ \A i \in 1 .. n : cells[i] # p /\ cells[i] \in heap' /\ cells[i] # NULL
      BY <1>2, <2>1, <2>3, NullAssumption
    <2>7. /\ spare \in [1 .. t -> heap']
          /\ \A j \in 1 .. t : spare[j] \in Cell /\ spare[j] # p
      BY <2>4
    <2>8. /\ t = tmp_queue'.size /\ Distinct(spare)
          /\ IsChain(next, tmp_queue'.head, spare) /\ TailFits(tmp_queue', spare)
          /\ \A i \in 1 .. n, j \in 1 .. t : cells[i] # spare[j]
      BY <1>4, <2>2
    <2>9. \A i \in 1 .. n : cells[i] # tmp_queue'.head /\ cells[i] # tmp_queue'.tail
      BY <2>2, <2>5, <2>6
    <2>10. p # tmp_queue'.head /\ p # tmp_queue'.tail
      BY <2>2, <2>5, <2>6
    <2>11. PICK q \in Cell : q = p
      OBVIOUS
    <2>12. /\ Enqueue(q, m) /\ q \in heap' /\ q # tmp_queue'.head /\ q # tmp_queue'.tail
           /\ \A i \in 1 .. n : cells[i] # q /\ cells[i] \in heap'
           /\ \A j \in 1 .. t : spare[j] \in Cell /\ spare[j] # q
      BY <2>1, <2>6, <2>7, <2>10, <2>11
    <2>13. spare \in [1 .. t -> heap']
      BY <2>7
    <2>14. /\ More(cells, n, q) \in [1 .. n + 1 -> heap']
           /\ Tidy(n + 1, More(cells, n, q), t, spare)'
           /\ data'[q] = m /\ \A i \in 1 .. n : data'[cells[i]] = data[cells[i]]
      BY <1>5, <2>8, <2>9, <2>12, <2>13
    <2>15. QED
      BY <2>12, <2>13, <2>14
  <1>8. QED
    BY <1>6, <1>7 DEF queue_push

\* A pop takes the first cell of the message list, to the end of the free
\* list or out of the queue.
LEMMA PopTidy ==
  ASSUME NEW M, NEW m, QueueTypeOK(M), OwnedIsAllocated, queue_pop(m),
         queue.head # NULL, ~LeftOverTail(queue'),
         NEW n \in Nat, NEW cells \in [1 .. n -> heap],
         NEW t \in Nat, NEW spare \in [1 .. t -> heap], Tidy(n, cells, t, spare)
  PROVE  \E u \in Nat : \E left \in [1 .. u -> heap'] :
           Tidy(n - 1, Rest(cells, n), u, left)'
  <1>1. heap \in SUBSET Cell
    BY DEF QueueTypeOK
  <1>2. cells \in [1 .. n -> Cell] /\ spare \in [1 .. t -> Cell]
    BY <1>1
  <1>3. Chained(n, cells) /\ TailFits(queue, cells) /\ Distinct(cells)
    BY DEF Tidy, Chained
  <1>4. /\ t = tmp_queue.size /\ Distinct(spare)
        /\ IsChain(next, tmp_queue.head, spare) /\ TailFits(tmp_queue, spare)
        /\ \A i \in 1 .. n, j \in 1 .. t : cells[i] # spare[j]
    BY DEF Tidy
  <1>5. PICK rest : rest = Rest(cells, n)
    OBVIOUS
  <1>6. /\ n >= 1 /\ queue.head = cells[1]
        /\ rest \in [1 .. n - 1 -> heap']
        /\ queue'.tail = queue.tail
        /\ Chained(n - 1, rest)'
    BY <1>3, <1>5, PopChained
  <1>7. PICK p \in Cell : p = cells[1]
    BY <1>2, <1>6
  <1>8. /\ n - 1 \in Nat /\ 1 \in 1 .. n
        /\ \A i \in 1 .. n - 1 : rest[i] = cells[i + 1] /\ i + 1 \in 1 .. n
    BY <1>5, <1>6 DEF Rest
  <1>9. TailFits(queue', rest)
    <2>1. IsChain(next', queue'.head, Rest(cells, n))
      BY <1>5, <1>6 DEF Chained
    <2>2. PICK nx, k : nx = next' /\ k = queue'
      OBVIOUS
    <2>3. /\ IsChain(nx, k.head, Rest(cells, n)) /\ ~LeftOverTail(k)
          /\ k.tail = queue.tail /\ n >= 1 /\ TailFits(queue, cells)
      BY <1>3, <1>6, <2>1, <2>2
    <2>4. TailFits(k, Rest(cells, n))
      BY <1>2, <2>3, TailRest
    <2>5. QED
      BY <1>5, <2>2, <2>4
  <1>10. \A i \in 1 .. n - 1 : rest[i] # p
    <2> TAKE i \in 1 .. n - 1
    <2>1. cells[i + 1] # cells[1]
      BY <1>2, <1>3, <1>8 DEF Distinct
    <2>2. QED
      BY <1>7, <1>8, <2>1
  <1>11. PopRecycled(m) \/ PopFreed(m)
    BY DEF queue_pop, PopEmpty
  <1>12. CASE PopFreed(m)
    <2>1. tmp_queue' = tmp_queue /\ next' = next /\ heap' = heap \ {p}
      BY <1>6, <1>7, <1>12 DEF PopFreed
    <2>2. \A j \in 1 .. t : spare[j] \in heap' /\ p # spare[j]
      BY <1>4, <1>7, <1>8, <2>1
    <2>3. \A i \in 1 .. n - 1, j \in 1 .. t : rest[i] # spare[j]
      BY <1>4, <1>8
    <2>4. Tidy(n - 1, rest, t, spare)'
      BY <1>4, <1>6, <1>9, <2>1, <2>3 DEF Tidy
    <2>5. spare \in [1 .. t -> heap']
      BY <2>2
    <2>6. QED
      BY <1>5, <2>4, <2>5
  <1>13. CASE PopRecycled(m)
    <2> DEFINE nx == [next EXCEPT ![p] = NULL]
               more == More(spare, t, p)
    <2>1. /\ heap' = heap
          /\ next' = LinkNext(tmp_queue, nx, p)
          /\ tmp_queue' = [LinkCell(tmp_queue, p) EXCEPT !.size = @ + 1]
      BY <1>6, <1>7, <1>13 DEF PopRecycled
    <2>2. /\ tmp_queue \in List /\ nx \in [Cell -> Pointer] /\ nx[p] = NULL
          /\ \A c \in Cell \ {p} : nx[c] = next[c]
      BY DEF QueueTypeOK, Pointer
    <2>3. /\ more \in [1 .. t + 1 -> heap'] /\ more[t + 1] = p
          /\ \A j \in 1 .. t : more[j] = spare[j]
      <3>1. p \in heap
        BY <1>7, <1>8
      <3>2. QED
        BY <2>1, <3>1 DEF More
    <2>. HIDE DEF nx
    <2>4. \A j \in 1 .. t : spare[j] # p
      BY <1>4, <1>7, <1>8
    <2>5. IsChain(nx, tmp_queue.head, spare)
      <3>1. \A j \in 1 .. t : nx[spare[j]] = next[spare[j]]
        BY <1>2, <2>2, <2>4
      <3>2. QED
        BY <1>4, <3>1, ChainFrame
    <2>6. /\ Distinct(more)
          /\ IsChain(LinkNext(tmp_queue, nx, p), LinkCell(tmp_queue, p).head, more)
          /\ TailFits(LinkCell(tmp_queue, p), more)
      BY <1>2, <1>4, <2>2, <2>4, <2>5, ChainLink
    <2>. HIDE DEF more
    <2>7. /\ tmp_queue'.head = LinkCell(tmp_queue, p).head
          /\ tmp_queue'.tail = LinkCell(tmp_queue, p).tail
          /\ tmp_queue'.size = t + 1
      <3>1. LinkCell(tmp_queue, p) \in List /\ LinkCell(tmp_queue, p).size = t
        BY <1>4, <2>2, LinkFacts
      <3>2. QED
        BY <2>1, <3>1 DEF List
    <2>8. TailFits(tmp_queue', more)
      BY <2>6, <2>7 DEF TailFits
    <2>9. \A i \in 1 .. n - 1, j \in 1 .. t + 1 : rest[i] # more[j]
      <3> TAKE i \in 1 .. n - 1, j \in 1 .. t + 1
      <3>1. CASE j = t + 1
        BY <1>10, <2>3, <3>1
      <3>2. CASE j \in 1 .. t
        <4>1. rest[i] = cells[i + 1] /\ i + 1 \in 1 .. n
          BY <1>8
        <4>2. cells[i + 1] # spare[j]
          BY <1>4, <3>2, <4>1
        <4>3. QED
          BY <2>3, <3>2, <4>1, <4>2
      <3>3. QED
        BY <3>1, <3>2
    <2>10. IsChain(next', tmp_queue'.head, more)
      BY <2>1, <2>6, <2>7
    <2>11. Tidy(n - 1, rest, t + 1, more)'
      BY <1>6, <1>9, <2>6, <2>7, <2>8, <2>9, <2>10 DEF Tidy
    <2>12. t + 1 \in Nat
      OBVIOUS
    <2>13. QED
      BY <1>5, <2>3, <2>11, <2>12
  <1>14. QED
    BY <1>11, <1>12, <1>13

\* A push finds a cell, so that the list holds fewer messages than the memory
\* has cells.
LEMMA PushFits ==
  ASSUME NEW M, NEW m, QueueTypeOK(M), UniqueOwner, OwnedIsAllocated, queue_push(m), Listed
  PROVE  Len(Contents) < Cardinality(Cell)
  <1>1. heap \in SUBSET Cell /\ data \in [Cell -> M \cup {NULL}]
    BY DEF QueueTypeOK
  <1>2. PICK n \in Nat : \E cells \in [1 .. n -> heap] :
           Distinct(cells) /\ IsChain(next, queue.head, cells)
    BY DEF Listed
  <1>3. PICK cells \in [1 .. n -> heap] : Distinct(cells) /\ IsChain(next, queue.head, cells)
    BY <1>2
  <1>4. cells \in [1 .. n -> Cell]
    BY <1>1
  <1>5. PICK p \in Cell : \A i \in 1 .. n : cells[i] # p
    BY <1>3, PushCell
  <1>6. n + 1 <= Cardinality(Cell) /\ Cardinality(Cell) \in Nat
    <2>1. PICK more : more = More(cells, n, p)
      OBVIOUS
    <2>2. more = [i \in 1 .. n + 1 |-> IF i = n + 1 THEN p ELSE cells[i]]
      BY <2>1 DEF More
    <2>3. more \in [1 .. n + 1 -> Cell] /\ more[n + 1] = p /\ \A i \in 1 .. n : more[i] = cells[i]
      BY <1>4, <2>2
    <2>4. Distinct(more)
      BY <1>3, <1>4, <1>5, <2>3 DEF Distinct
    <2>5. n + 1 \in Nat
      OBVIOUS
    <2>6. QED
      BY <2>3, <2>4, <2>5, DistinctBound
  <1>7. Selection(next, queue.head, data, n, cells)
    BY <1>3, <1>4, CarriedFacts
  <1>8. PICK k \in Nat : \E f \in [1 .. k -> 1 .. n] :
           Picks(f, k, n, cells, data) /\ Carried(next, queue.head, data) = Picked(f, k, cells, data)
    BY <1>7 DEF Selection
  <1>9. PICK f \in [1 .. k -> 1 .. n] :
           Picks(f, k, n, cells, data) /\ Carried(next, queue.head, data) = Picked(f, k, cells, data)
    BY <1>8
  <1>10. PICK x : x = Contents /\ x = [i \in 1 .. k |-> data[cells[f[i]]]]
    BY <1>9 DEF Contents, Picked
  <1>11. x \in [1 .. k -> M \cup {NULL}]
    BY <1>1, <1>4, <1>10
  <1>12. Len(x) = k
    BY <1>11, RangeSeq
  <1>13. k <= n
    BY <1>9, RisingBound DEF Picks
  <1>14. QED
    BY <1>6, <1>10, <1>12, <1>13
\* A list without a head holds nothing.
LEMMA EmptyContents ==
  ASSUME queue.head = NULL
  PROVE  Contents = << >>
  <1> DEFINE none == [i \in 1 .. 0 |-> NULL]
  <1>1. none \in [1 .. 0 -> Cell] /\ DOMAIN none = {}
    OBVIOUS
  <1>. HIDE DEF none
  <1>2. Distinct(none) /\ IsChain(next, queue.head, none)
    BY <1>1 DEF Distinct, IsChain
  <1>3. PICK n \in Nat : n = 0
    OBVIOUS
  <1>4. none \in [1 .. n -> Cell] /\ \A i \in 1 .. n : data[none[i]] # NULL
    BY <1>1, <1>3
  <1>5. Contents = [k \in 1 .. n |-> data[none[k]]]
    BY <1>2, <1>4, CarriedFull DEF Contents
  <1>6. PICK x : x = Contents
    OBVIOUS
  <1>7. x = [k \in 1 .. n |-> data[none[k]]]
    BY <1>5, <1>6
  <1>8. x \in [1 .. n -> {NULL}]
    BY <1>3, <1>7
  <1>9. x \in Seq({NULL}) /\ Len(x) = n
    BY <1>8, RangeSeq
  <1>10. QED
    BY <1>3, <1>6, <1>9, EmptySeq
=============================================================================
