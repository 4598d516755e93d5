------------------------- MODULE LockedQueueProofs --------------------------
(***************************************************************************)
(* lock_ makes the calls of src/src/queue.c atomic: a queue whose calls    *)
(* are made of steps, by any number of threads, does nothing that the      *)
(* queue of QueueService, whose calls are one step each, does not do.      *)
(***************************************************************************)
EXTENDS LockedQueue, MsgQueueProofs

\* Only the holder of lock_ is inside a call.
Exclusion ==
  /\ lock_ \in Thread \cup {NULL}
  /\ pc \in [Thread -> {"idle", "locked", "link", "release", "unlock"}]
  /\ p \in [Thread -> Pointer]
  /\ ret \in [Consumer -> Message \cup {NULL}]
  /\ \A t \in Thread : (pc[t] # "idle") <=> (lock_ = t)

Now == Snapshot(queue, tmp_queue, next, data, heap)

\* Half-way through queue_push: done.mem is the memory as it was before the
\* cell was had.
HalfPushed(t) ==
  /\ t \in Producer /\ p[t] \in Cell
  /\ queue = done.mem.queue
  /\ next = [done.mem.next EXCEPT ![p[t]] = NULL]
  /\ \/ /\ done.mem.tmp_queue.head # NULL
        /\ p[t] = done.mem.tmp_queue.head
        /\ tmp_queue = [done.mem.tmp_queue EXCEPT !.head = done.mem.next[p[t]],
                                                  !.size = Decrement(@)]
        /\ data = done.mem.data
        /\ heap = done.mem.heap
     \/ /\ done.mem.tmp_queue.head = NULL
        /\ p[t] \in Cell \ Atomic!Kept
        /\ tmp_queue = done.mem.tmp_queue
        /\ data = [done.mem.data EXCEPT ![p[t]] = NULL]
        /\ heap = Atomic!Kept \cup {p[t]}

\* Half-way through queue_pop: the head has been moved on, nothing else.
HalfPopped(t) ==
  /\ t \in Consumer /\ p[t] \in Cell
  /\ p[t] = done.mem.queue.head
  /\ queue = [done.mem.queue EXCEPT !.head = done.mem.next[p[t]]]
  /\ tmp_queue = done.mem.tmp_queue
  /\ next = done.mem.next
  /\ data = done.mem.data
  /\ heap = done.mem.heap

\* What the memory is to the one that done records, at each point of the call.
Progress ==
  /\ lock_ = NULL => done.mem = Now
  /\ \A t \in Thread :
       /\ pc[t] \in {"locked", "unlock"} => done.mem = Now
       /\ pc[t] = "link" => HalfPushed(t)
       /\ pc[t] = "release" => HalfPopped(t)

LockInv ==
  /\ QueueTypeOK(Message)
  /\ Atomic!QueueTypeOK(Message)
  /\ Exclusion
  /\ Progress

AtomicStep == [Atomic!Next]_(Atomic!vars)

LEMMA LockInit == Init => LockInv /\ Atomic!Init
  <1> SUFFICES ASSUME Init PROVE LockInv /\ Atomic!Init
    OBVIOUS
  <1>1. EmptyList \in List
    BY SizeAssumption DEF EmptyList, List, Pointer, INT_MIN
  <1>2. /\ queue = EmptyList /\ tmp_queue = EmptyList
        /\ next = [c \in Cell |-> NULL] /\ data = [c \in Cell |-> NULL] /\ heap = {}
        /\ done.mem = Now /\ done.got = NULL
    BY DEF Init, QueueInit, Now
  <1>3. /\ done.mem.queue = queue /\ done.mem.tmp_queue = tmp_queue
        /\ done.mem.next = next /\ done.mem.data = data /\ done.mem.heap = heap
    BY <1>2 DEF Now, Snapshot
  <1>4. QueueTypeOK(Message) /\ Atomic!QueueTypeOK(Message)
    BY <1>1, <1>2, <1>3 DEF QueueTypeOK, Atomic!QueueTypeOK, Pointer, Atomic!Pointer,
                            List, Atomic!List, INT_MIN, Atomic!INT_MIN
  <1>5. Exclusion
    BY LockedAssumption DEF Init, Exclusion, Thread, Pointer
  <1>6. Progress
    BY <1>2 DEF Init, Progress
  <1>7. Atomic!Init
    BY <1>2, <1>3 DEF Atomic!Init, Atomic!QueueInit, Atomic!EmptyList, EmptyList
  <1>8. QED
    BY <1>4, <1>5, <1>6, <1>7 DEF LockInv

\* What done records of the memory it was taken from.
LEMMA NowFields ==
  ASSUME done.mem = Now
  PROVE  /\ done.mem.queue = queue /\ done.mem.tmp_queue = tmp_queue
         /\ done.mem.next = next /\ done.mem.data = data /\ done.mem.heap = heap
  BY DEF Now, Snapshot

\* Taking and giving back lock_ touches neither the memory nor done.
LEMMA LockStep ==
  ASSUME LockInv, NEW t \in Thread, Lock(t)
  PROVE  LockInv' /\ AtomicStep
  <1>1. /\ UNCHANGED <<queue, tmp_queue, next, data, heap, p, ret, done>>
        /\ pc[t] = "idle" /\ lock_ = NULL /\ lock_' = t
        /\ pc' = [pc EXCEPT ![t] = "locked"]
    BY DEF Lock, qvars, Goto
  <1>2. Exclusion'
    BY <1>1, LockedAssumption DEF LockInv, Exclusion, Thread
  <1>3. /\ pc'[t] = "locked" /\ \A u \in Thread \ {t} : pc'[u] = pc[u] /\ pc[u] = "idle"
        /\ lock_' # NULL /\ done.mem = Now
    BY <1>1, LockedAssumption DEF LockInv, Exclusion, Thread, Progress
  <1>4. Now' = Now
    BY <1>1 DEF Now, Snapshot
  <1>5. Progress'
    BY <1>1, <1>3, <1>4 DEF Progress
  <1>6. QueueTypeOK(Message)' /\ Atomic!QueueTypeOK(Message)'
    BY <1>1 DEF LockInv, QueueTypeOK, Atomic!QueueTypeOK
  <1>7. AtomicStep
    BY <1>1 DEF AtomicStep, Atomic!vars, Atomic!qvars
  <1>8. QED
    BY <1>2, <1>5, <1>6, <1>7 DEF LockInv

LEMMA UnLockStep ==
  ASSUME LockInv, NEW t \in Thread, UnLock(t)
  PROVE  LockInv' /\ AtomicStep
  <1>1. /\ UNCHANGED <<queue, tmp_queue, next, data, heap, ret, done>>
        /\ pc[t] = "unlock" /\ lock_' = NULL
        /\ pc' = [pc EXCEPT ![t] = "idle"] /\ p' = [p EXCEPT ![t] = NULL]
    BY DEF UnLock, qvars, Goto
  <1>2. /\ done.mem = Now
        /\ \A u \in Thread : pc'[u] = "idle"
    BY <1>1 DEF LockInv, Exclusion, Progress
  <1>3. Exclusion'
    BY <1>1, <1>2, LockedAssumption DEF LockInv, Exclusion, Thread, Pointer
  <1>4. Now' = Now
    BY <1>1 DEF Now, Snapshot
  <1>5. Progress'
    BY <1>1, <1>2, <1>4 DEF Progress
  <1>6. QueueTypeOK(Message)' /\ Atomic!QueueTypeOK(Message)'
    BY <1>1 DEF LockInv, QueueTypeOK, Atomic!QueueTypeOK
  <1>7. AtomicStep
    BY <1>1 DEF AtomicStep, Atomic!vars, Atomic!qvars
  <1>8. QED
    BY <1>3, <1>5, <1>6, <1>7 DEF LockInv

\* The holder of lock_ goes on to the next step of its call; everyone else
\* stays outside.
LEMMA HolderMoves ==
  ASSUME Exclusion, NEW t \in Thread, pc[t] # "idle",
         NEW s \in {"locked", "link", "release", "unlock"},
         Goto(t, s), lock_' = lock_,
         p' \in [Thread -> Pointer], ret' \in [Consumer -> Message \cup {NULL}]
  PROVE  /\ Exclusion'
         /\ lock_' = t /\ lock_' # NULL /\ pc'[t] = s
         /\ \A u \in Thread \ {t} : pc'[u] = "idle"
  BY LockedAssumption DEF Exclusion, Goto, Thread

LEMMA MakeNodeStep ==
  ASSUME LockInv, NEW t \in Thread, make_queue_node(t)
  PROVE  LockInv' /\ AtomicStep
  <1>1. /\ t \in Producer /\ pc[t] = "locked" /\ Goto(t, "link")
        /\ UNCHANGED <<queue, lock_, ret, done>>
    BY DEF make_queue_node
  <1>2. /\ done.mem = Now
        /\ QueueTypeOK(Message) /\ Exclusion
    BY <1>1 DEF LockInv, Progress
  <1>3. /\ done.mem.queue = queue /\ done.mem.tmp_queue = tmp_queue
        /\ done.mem.next = next /\ done.mem.data = data /\ done.mem.heap = heap
    BY <1>2, NowFields
  <1>4. Atomic!Kept = Kept
    BY <1>3 DEF Atomic!Kept, Kept, Atomic!Roots, Roots, Atomic!ClosedUnderNext, ClosedUnderNext
  <1>5. p'[t] \in Cell /\ p' \in [Thread -> Pointer] /\ HalfPushed(t)' /\ QueueTypeOK(Message)'
    <2>1. CASE tmp_queue.head # NULL
      <3>1. /\ p' = [p EXCEPT ![t] = tmp_queue.head]
            /\ tmp_queue' = [tmp_queue EXCEPT !.head = next[tmp_queue.head],
                                              !.size = Decrement(@)]
            /\ next' = [next EXCEPT ![tmp_queue.head] = NULL]
            /\ UNCHANGED <<data, heap>>
        BY <2>1 DEF make_queue_node
      <3>2. tmp_queue.head \in Cell /\ tmp_queue.head \in Pointer
        BY <1>2, <2>1 DEF QueueTypeOK, List, Pointer
      <3>3. p'[t] = tmp_queue.head /\ p' \in [Thread -> Pointer]
        BY <1>2, <3>1, <3>2 DEF Exclusion
      <3>4. tmp_queue' \in List
        <4>1. Decrement(tmp_queue.size) \in INT_MIN .. INT_MAX
          BY <1>2, DecrementType DEF QueueTypeOK, List
        <4>2. next[tmp_queue.head] \in Pointer
          BY <1>2, <3>2 DEF QueueTypeOK
        <4>3. QED
          BY <1>2, <3>1, <4>1, <4>2 DEF QueueTypeOK, List
      <3>5. QueueTypeOK(Message)'
        BY <1>1, <1>2, <3>1, <3>4 DEF QueueTypeOK, Pointer
      <3>6. HalfPushed(t)'
        BY <1>1, <1>3, <2>1, <3>1, <3>2, <3>3 DEF HalfPushed
      <3>7. QED
        BY <3>2, <3>3, <3>5, <3>6
    <2>2. CASE tmp_queue.head = NULL
      <3>1. PICK c \in Cell \ Kept :
              /\ p' = [p EXCEPT ![t] = c]
              /\ heap' = Kept \cup {c}
              /\ next' = [next EXCEPT ![c] = NULL]
              /\ data' = [data EXCEPT ![c] = NULL]
              /\ UNCHANGED tmp_queue
        BY <2>2 DEF make_queue_node
      <3>2. p'[t] = c /\ p' \in [Thread -> Pointer]
        BY <1>2, <3>1 DEF Exclusion, Pointer
      <3>3. Kept \subseteq heap
        BY DEF Kept
      <3>4. QueueTypeOK(Message)'
        BY <1>1, <1>2, <3>1, <3>3 DEF QueueTypeOK, Pointer
      <3>5. Atomic!Kept' = Atomic!Kept
        BY <1>1 DEF Atomic!Kept, Atomic!Roots, Atomic!ClosedUnderNext
      <3>6. HalfPushed(t)'
        BY <1>1, <1>3, <1>4, <2>2, <3>1, <3>2, <3>5 DEF HalfPushed
      <3>7. QED
        BY <3>1, <3>2, <3>4, <3>6
    <2>3. QED
      BY <2>1, <2>2
  <1>6. /\ Exclusion'
        /\ lock_' # NULL /\ pc'[t] = "link"
        /\ \A u \in Thread \ {t} : pc'[u] = "idle"
    BY <1>1, <1>2, <1>5, HolderMoves DEF Exclusion
  <1>7. Progress'
    BY <1>5, <1>6 DEF Progress
  <1>8. Atomic!QueueTypeOK(Message)'
    BY <1>1 DEF LockInv, Atomic!QueueTypeOK
  <1>9. AtomicStep
    BY <1>1 DEF AtomicStep, Atomic!vars, Atomic!qvars
  <1>10. QED
    BY <1>5, <1>6, <1>7, <1>8, <1>9 DEF LockInv

\* A step at which the call takes effect leaves done with the memory as it
\* is then.
LEMMA EffectSeen ==
  ASSUME LockInv, QueueTypeOK(Message)', NEW delivered, NEW m, Effect(delivered, m)
  PROVE  /\ done'.mem = Now'
         /\ done'.mem.queue = queue' /\ done'.mem.tmp_queue = tmp_queue'
         /\ done'.mem.next = next' /\ done'.mem.data = data' /\ done'.mem.heap = heap'
         /\ done'.got = IF delivered THEN m ELSE done.got
         /\ Atomic!QueueTypeOK(Message)'
  <1>1. /\ done'.mem = Snapshot(queue', tmp_queue', next', data', heap')
        /\ done'.got = IF delivered THEN m ELSE done.got
    BY DEF Effect
  <1>2. /\ done'.mem.queue = queue' /\ done'.mem.tmp_queue = tmp_queue'
        /\ done'.mem.next = next' /\ done'.mem.data = data' /\ done'.mem.heap = heap'
    BY <1>1 DEF Snapshot
  <1>3. Atomic!QueueTypeOK(Message)'
    BY <1>2 DEF QueueTypeOK, Atomic!QueueTypeOK, Pointer, Atomic!Pointer,
                List, Atomic!List, INT_MIN, Atomic!INT_MIN
  <1>4. QED
    BY <1>1, <1>2, <1>3 DEF Now

\* Linking the cell completes the push that had it.
LEMMA LinkCompletes ==
  ASSUME LockInv, NEW t \in Thread, link(t)
  PROVE  LockInv' /\ AtomicStep
  <1>1. /\ t \in Producer /\ pc[t] = "link" /\ Goto(t, "unlock")
        /\ queue' = LinkCell(queue, p[t])
        /\ next' = LinkNext(queue, next, p[t])
        /\ UNCHANGED <<tmp_queue, heap, lock_, p, ret>>
        /\ Effect(FALSE, NULL)
    BY DEF link
  <1>2. PICK m \in Message : data' = [data EXCEPT ![p[t]] = m]
    BY DEF link, Fresh
  <1>3. QueueTypeOK(Message) /\ Atomic!QueueTypeOK(Message) /\ Exclusion /\ HalfPushed(t)
    BY <1>1 DEF LockInv, Progress
  <1>4. PICK c \in Cell : c = p[t]
    BY <1>3 DEF HalfPushed
  <1>5. QueueTypeOK(Message)'
    <2>1. queue' \in List /\ next' \in [Cell -> Pointer]
      BY <1>1, <1>3, <1>4, LinkFacts DEF QueueTypeOK
    <2>2. QED
      BY <1>1, <1>2, <1>3, <1>4, <2>1 DEF QueueTypeOK
  <1>6. /\ done'.mem = Now'
        /\ done'.mem.queue = queue' /\ done'.mem.tmp_queue = tmp_queue'
        /\ done'.mem.next = next' /\ done'.mem.data = data' /\ done'.mem.heap = heap'
        /\ done'.got = done.got
        /\ Atomic!QueueTypeOK(Message)'
    BY <1>1, <1>5, EffectSeen
  <1>7. /\ Exclusion'
        /\ lock_' # NULL /\ pc'[t] = "unlock"
        /\ \A u \in Thread \ {t} : pc'[u] = "idle"
    BY <1>1, <1>3, HolderMoves DEF Exclusion
  <1>8. Progress'
    BY <1>6, <1>7 DEF Progress
  <1>9. /\ queue = done.mem.queue
        /\ next = [done.mem.next EXCEPT ![c] = NULL]
        /\ done.mem.data \in [Cell -> Message \cup {NULL}]
    BY <1>3, <1>4 DEF HalfPushed, Atomic!QueueTypeOK
  <1>10. /\ done'.mem.queue = Atomic!LinkCell(done.mem.queue, c)
         /\ done'.mem.next =
              Atomic!LinkNext(done.mem.queue, [done.mem.next EXCEPT ![c] = NULL], c)
    BY <1>1, <1>4, <1>6, <1>9 DEF LinkCell, Atomic!LinkCell, LinkNext, Atomic!LinkNext
  <1>11. Atomic!queue_push(m)
    <2>1. CASE done.mem.tmp_queue.head # NULL
      <3>1. /\ c = done.mem.tmp_queue.head
            /\ tmp_queue = [done.mem.tmp_queue EXCEPT !.head = done.mem.next[c],
                                                      !.size = Decrement(@)]
            /\ data = done.mem.data
            /\ heap = done.mem.heap
        BY <1>3, <1>4, <2>1 DEF HalfPushed
      <3>2. Atomic!Enqueue(c, m)
        BY <1>2, <1>4, <1>6, <1>10, <3>1 DEF Atomic!Enqueue
      <3>3. /\ done'.mem.tmp_queue =
                 [done.mem.tmp_queue EXCEPT !.head = done.mem.next[c],
                                            !.size = Atomic!Decrement(@)]
            /\ done'.mem.heap = done.mem.heap
        BY <1>1, <1>6, <3>1 DEF Decrement, Atomic!Decrement, INT_MIN, Atomic!INT_MIN
      <3>4. QED
        BY <2>1, <3>1, <3>2, <3>3 DEF Atomic!queue_push, Atomic!PushReused
    <2>2. CASE done.mem.tmp_queue.head = NULL
      <3>1. /\ c \in Cell \ Atomic!Kept
            /\ tmp_queue = done.mem.tmp_queue
            /\ data = [done.mem.data EXCEPT ![c] = NULL]
            /\ heap = Atomic!Kept \cup {c}
        BY <1>3, <1>4, <2>2 DEF HalfPushed
      <3>2. data' = [done.mem.data EXCEPT ![c] = m]
        BY <1>2, <1>4, <1>9, <3>1
      <3>3. Atomic!Enqueue(c, m)
        BY <1>6, <1>10, <3>2 DEF Atomic!Enqueue
      <3>4. done'.mem.heap = Atomic!Kept \cup {c} /\ done'.mem.tmp_queue = done.mem.tmp_queue
        BY <1>1, <1>6, <3>1
      <3>5. QED
        BY <2>2, <3>1, <3>3, <3>4 DEF Atomic!queue_push, Atomic!PushMalloced
    <2>3. QED
      BY <2>1, <2>2
  <1>12. AtomicStep
    BY <1>6, <1>11 DEF AtomicStep, Atomic!Next, Atomic!lock_queue_push
  <1>13. QED
    BY <1>5, <1>6, <1>7, <1>8, <1>12 DEF LockInv

\* Moving the head on leaves the pop half done; with no head it is done.
LEMMA UnlinkStep ==
  ASSUME LockInv, NEW t \in Thread, unlink(t)
  PROVE  LockInv' /\ AtomicStep
  <1>1. t \in Consumer /\ pc[t] = "locked" /\ lock_' = lock_
    BY DEF unlink
  <1>2. /\ done.mem = Now
        /\ QueueTypeOK(Message) /\ Atomic!QueueTypeOK(Message) /\ Exclusion
    BY <1>1 DEF LockInv, Progress
  <1>3. /\ done.mem.queue = queue /\ done.mem.tmp_queue = tmp_queue
        /\ done.mem.next = next /\ done.mem.data = data /\ done.mem.heap = heap
    BY <1>2, NowFields
  <1>4. CASE queue.head = NULL
    <2>1. /\ UNCHANGED <<queue, tmp_queue, next, data, heap, p>>
          /\ ret' = [ret EXCEPT ![t] = NULL]
          /\ Effect(TRUE, NULL)
          /\ Goto(t, "unlock")
      BY <1>4 DEF unlink, qvars
    <2>2. QueueTypeOK(Message)'
      BY <1>2, <2>1 DEF QueueTypeOK
    <2>3. /\ done'.mem = Now'
          /\ done'.mem.queue = queue' /\ done'.mem.tmp_queue = tmp_queue'
          /\ done'.mem.next = next' /\ done'.mem.data = data' /\ done'.mem.heap = heap'
          /\ done'.got = NULL
          /\ Atomic!QueueTypeOK(Message)'
      BY <2>1, <2>2, EffectSeen
    <2>4. /\ Exclusion'
          /\ lock_' # NULL /\ pc'[t] = "unlock"
          /\ \A u \in Thread \ {t} : pc'[u] = "idle"
      BY <1>1, <1>2, <2>1, HolderMoves DEF Exclusion
    <2>5. Progress'
      BY <2>3, <2>4 DEF Progress
    <2>6. Atomic!PopEmpty(NULL)
      BY <1>3, <1>4, <2>1, <2>3 DEF Atomic!PopEmpty, Atomic!qvars
    <2>7. AtomicStep
      BY <2>3, <2>6 DEF AtomicStep, Atomic!Next, Atomic!lock_queue_pop, Atomic!queue_pop
    <2>8. QED
      BY <2>2, <2>3, <2>4, <2>5, <2>7 DEF LockInv
  <1>5. CASE queue.head # NULL
    <2>1. /\ p' = [p EXCEPT ![t] = queue.head]
          /\ queue' = [queue EXCEPT !.head = next[queue.head]]
          /\ Goto(t, "release")
          /\ UNCHANGED <<tmp_queue, next, data, heap, ret, done>>
      BY <1>5 DEF unlink
    <2>2. queue.head \in Cell /\ next[queue.head] \in Pointer
      BY <1>2, <1>5 DEF QueueTypeOK, List, Pointer
    <2>3. p'[t] = queue.head /\ p' \in [Thread -> Pointer]
      BY <1>2, <2>1, <2>2 DEF Exclusion, Pointer
    <2>4. QueueTypeOK(Message)'
      BY <1>2, <2>1, <2>2 DEF QueueTypeOK, List
    <2>5. /\ Exclusion'
          /\ lock_' # NULL /\ pc'[t] = "release"
          /\ \A u \in Thread \ {t} : pc'[u] = "idle"
      BY <1>1, <1>2, <2>1, <2>3, HolderMoves DEF Exclusion
    <2>6. HalfPopped(t)'
      BY <1>1, <1>3, <2>1, <2>2, <2>3 DEF HalfPopped
    <2>7. Progress'
      BY <2>5, <2>6 DEF Progress
    <2>8. Atomic!QueueTypeOK(Message)'
      BY <1>2, <2>1 DEF Atomic!QueueTypeOK
    <2>9. AtomicStep
      BY <2>1 DEF AtomicStep, Atomic!vars, Atomic!qvars
    <2>10. QED
      BY <2>4, <2>5, <2>7, <2>8, <2>9 DEF LockInv
  <1>6. QED
    BY <1>4, <1>5

\* Giving the cell back completes the pop that unlinked it.
LEMMA ReleaseCompletes ==
  ASSUME LockInv, NEW t \in Thread, release_queue_node(t)
  PROVE  LockInv' /\ AtomicStep
  <1>1. /\ t \in Consumer /\ pc[t] = "release" /\ Goto(t, "unlock")
        /\ ret' = [ret EXCEPT ![t] = data[p[t]]]
        /\ UNCHANGED <<queue, lock_, p>>
        /\ Effect(TRUE, data[p[t]])
    BY DEF release_queue_node
  <1>2. QueueTypeOK(Message) /\ Atomic!QueueTypeOK(Message) /\ Exclusion /\ HalfPopped(t)
    BY <1>1 DEF LockInv, Progress
  <1>3. PICK c \in Cell : c = p[t]
    BY <1>2 DEF HalfPopped
  <1>4. /\ c = done.mem.queue.head /\ c # NULL
        /\ queue = [done.mem.queue EXCEPT !.head = done.mem.next[c]]
        /\ tmp_queue = done.mem.tmp_queue /\ next = done.mem.next
        /\ data = done.mem.data /\ heap = done.mem.heap
    BY <1>2, <1>3, NullAssumption DEF HalfPopped
  <1>5. PICK m \in Message \cup {NULL} : m = data[c]
    BY <1>2 DEF QueueTypeOK
  <1>6. ret' \in [Consumer -> Message \cup {NULL}]
    BY <1>1, <1>2, <1>3, <1>5 DEF Exclusion
  <1>7. /\ Exclusion'
        /\ lock_' # NULL /\ pc'[t] = "unlock"
        /\ \A u \in Thread \ {t} : pc'[u] = "idle"
    BY <1>1, <1>2, <1>6, HolderMoves DEF Exclusion
  <1>8. ASSUME QueueTypeOK(Message)'
        PROVE  /\ done'.mem = Now'
               /\ done'.mem.queue = queue' /\ done'.mem.tmp_queue = tmp_queue'
               /\ done'.mem.next = next' /\ done'.mem.data = data' /\ done'.mem.heap = heap'
               /\ done'.got = m
               /\ Atomic!QueueTypeOK(Message)'
    BY <1>1, <1>3, <1>5, <1>8, EffectSeen
  <1>9. CASE tmp_queue.size > MAX_BUF_Q
    <2>1. heap' = heap \ {c} /\ UNCHANGED <<tmp_queue, next, data>>
      BY <1>3, <1>9 DEF release_queue_node
    <2>2. QueueTypeOK(Message)'
      BY <1>1, <1>2, <2>1 DEF QueueTypeOK
    <2>3. Atomic!PopFreed(m)
      BY <1>1, <1>4, <1>5, <1>8, <1>9, <2>1, <2>2 DEF Atomic!PopFreed
    <2>4. AtomicStep
      BY <1>8, <2>2, <2>3 DEF AtomicStep, Atomic!Next, Atomic!lock_queue_pop, Atomic!queue_pop
    <2>5. Progress'
      BY <1>7, <1>8, <2>2 DEF Progress
    <2>6. QED
      BY <1>7, <1>8, <2>2, <2>4, <2>5 DEF LockInv
  <1>10. CASE ~(tmp_queue.size > MAX_BUF_Q)
    <2> DEFINE nx == [next EXCEPT ![c] = NULL]
    <2>1. /\ tmp_queue' = [LinkCell(tmp_queue, c) EXCEPT !.size = @ + 1]
          /\ next' = LinkNext(tmp_queue, nx, c)
          /\ data' = [data EXCEPT ![c] = NULL]
          /\ UNCHANGED heap
      BY <1>3, <1>10 DEF release_queue_node
    <2>2. tmp_queue \in List /\ nx \in [Cell -> Pointer] /\ tmp_queue.size \in INT_MIN .. INT_MAX
      BY <1>2 DEF QueueTypeOK, List, Pointer
    <2>3. tmp_queue.size <= MAX_BUF_Q
      BY <1>10, <2>2, SizeAssumption DEF INT_MIN
    <2>4. QueueTypeOK(Message)'
      <3>. HIDE DEF nx
      <3>1. /\ LinkCell(tmp_queue, c) \in List
            /\ LinkCell(tmp_queue, c).size = tmp_queue.size
            /\ next' \in [Cell -> Pointer]
        BY <2>1, <2>2, LinkFacts
      <3>2. tmp_queue' \in List
        BY <2>1, <2>2, <2>3, <3>1, SizeAssumption DEF List, INT_MIN
      <3>3. QED
        BY <1>1, <1>2, <2>1, <3>1, <3>2 DEF QueueTypeOK
    <2>5. Atomic!PopRecycled(m)
      <3>1. /\ done'.mem.queue = [done.mem.queue EXCEPT !.head = done.mem.next[c]]
            /\ done'.mem.tmp_queue =
                 [Atomic!LinkCell(done.mem.tmp_queue, c) EXCEPT !.size = @ + 1]
            /\ done'.mem.next =
                 Atomic!LinkNext(done.mem.tmp_queue, [done.mem.next EXCEPT ![c] = NULL], c)
            /\ done'.mem.data = [done.mem.data EXCEPT ![c] = NULL]
            /\ done'.mem.heap = done.mem.heap
        BY <1>1, <1>4, <1>8, <2>1, <2>4
           DEF LinkCell, Atomic!LinkCell, LinkNext, Atomic!LinkNext
      <3>2. done.mem.tmp_queue.size <= MAX_BUF_Q /\ m = done.mem.data[c]
        BY <1>4, <1>5, <2>3
      <3>3. QED
        BY <1>4, <3>1, <3>2 DEF Atomic!PopRecycled
    <2>6. AtomicStep
      BY <1>8, <2>4, <2>5 DEF AtomicStep, Atomic!Next, Atomic!lock_queue_pop, Atomic!queue_pop
    <2>7. Progress'
      BY <1>7, <1>8, <2>4 DEF Progress
    <2>8. QED
      BY <1>7, <1>8, <2>4, <2>6, <2>7 DEF LockInv
  <1>11. QED
    BY <1>9, <1>10

LEMMA LockNext == LockInv /\ [Next]_vars => LockInv' /\ AtomicStep
  <1> SUFFICES ASSUME LockInv, [Next]_vars PROVE LockInv' /\ AtomicStep
    OBVIOUS
  <1>1. CASE UNCHANGED vars
    <2>1. UNCHANGED <<queue, tmp_queue, next, data, heap, lock_, pc, p, ret, done>>
      BY <1>1 DEF vars, qvars, threadVars
    <2>2. Exclusion' /\ QueueTypeOK(Message)' /\ Atomic!QueueTypeOK(Message)'
      BY <2>1 DEF LockInv, Exclusion, QueueTypeOK, Atomic!QueueTypeOK
    <2>3. Now' = Now /\ Atomic!Kept' = Atomic!Kept
      BY <2>1 DEF Now, Snapshot, Atomic!Kept, Atomic!Roots, Atomic!ClosedUnderNext
    <2>4. Progress'
      BY <2>1, <2>3 DEF LockInv, Progress, HalfPushed, HalfPopped
    <2>5. AtomicStep
      BY <2>1 DEF AtomicStep, Atomic!vars, Atomic!qvars
    <2>6. QED
      BY <2>2, <2>4, <2>5 DEF LockInv
  <1>2. CASE Next
    BY <1>2, LockStep, UnLockStep, MakeNodeStep, LinkCompletes, UnlinkStep, ReleaseCompletes
       DEF Next, Step
  <1>3. QED
    BY <1>1, <1>2

\* lock_ keeps all but one thread outside queue_push and queue_pop.
THEOREM OneInside ==
  Spec => [](\A t, u \in Thread : pc[t] # "idle" /\ pc[u] # "idle" => t = u)
  <1>1. LockInv => \A t, u \in Thread : pc[t] # "idle" /\ pc[u] # "idle" => t = u
    BY DEF LockInv, Exclusion
  <1>2. QED
    BY LockInit, LockNext, <1>1, PTL DEF Spec

\* Seen through done, threads in any number, each call made of steps, do what
\* the two of QueueService do with calls of one step.
THEOREM CallsAreAtomic == Spec => ImplementsAtomicCalls
  <1>1. LockInv /\ [Next]_vars => [Atomic!Next]_(Atomic!vars)
    BY LockNext DEF AtomicStep
  <1>2. QED
    BY LockInit, LockNext, <1>1, PTL DEF Spec, ImplementsAtomicCalls, Atomic!Spec

=============================================================================
