----------------------- MODULE EventLoopOnQueueProofs -----------------------
(***************************************************************************)
(* The event loop on the real queue is one on LossyFifo.  The threads do   *)
(* the same in both; what a push and a pop do to the messages on the list  *)
(* is the subject of the lemmas of MsgQueueProofs, which here get the      *)
(* invariants they need.                                                   *)
(***************************************************************************)
EXTENDS EventLoopOnQueue, MsgQueueProofs

-----------------------------------------------------------------------------
(* The threads.  The definitions of LoopThreads inside Abstract are those   *)
(* of this module, with the same variables in them.                         *)

LEMMA SameCardinality ==
  ASSUME NEW S
  PROVE  Abstract!Cardinality(S) = Cardinality(S)
  BY DEF Abstract!Cardinality, Cardinality

LEMMA SameSets ==
  /\ Abstract!Fd = Fd /\ Abstract!Backlog = Backlog /\ Abstract!Open = Open
  /\ Abstract!AnyNode = AnyNode
  BY DEF Abstract!Fd, Fd, Abstract!Backlog, Backlog, Abstract!Open, Open,
         Abstract!AnyNode, AnyNode

LEMMA SameMainStep == MainStep => Abstract!MainStep
  <1>1. Setup => Abstract!Setup
    BY SameSets DEF Setup, Abstract!Setup, net_add, Abstract!net_add, bufVars,
                    Abstract!bufVars, clientVars, Abstract!clientVars
  <1>2. net_wait => Abstract!net_wait
    <2>1. Abstract!Ready = Ready
      BY SameSets DEF Abstract!Ready, Ready, Abstract!Readable, Readable
    <2>2. Abstract!Reports(Ready) = Reports(Ready)
      BY SameCardinality DEF Abstract!Reports, Reports
    <2>3. QED
      BY <2>1, <2>2 DEF net_wait, Abstract!net_wait, ioVars, Abstract!ioVars, bufVars,
                        Abstract!bufVars, clientVars, Abstract!clientVars
  <1>3. StopListening => Abstract!StopListening
    BY DEF StopListening, Abstract!StopListening, ioVars, Abstract!ioVars, bufVars,
           Abstract!bufVars, clientVars, Abstract!clientVars, data_type, Abstract!data_type
  <1>4. DispatchPayload => Abstract!DispatchPayload
    BY DEF DispatchPayload, Abstract!DispatchPayload, ioVars, Abstract!ioVars, bufVars,
           Abstract!bufVars, clientVars, Abstract!clientVars, data_type, Abstract!data_type
  <1>5. EndOfBatch => Abstract!EndOfBatch
    BY DEF EndOfBatch, Abstract!EndOfBatch, ioVars, Abstract!ioVars, bufVars,
           Abstract!bufVars, clientVars, Abstract!clientVars
  <1>6. QED
    BY <1>1, <1>2, <1>3, <1>4, <1>5 DEF MainStep, Abstract!MainStep

LEMMA SameIoStep == IoStep => Abstract!IoStep
  <1>1. SockAccept => Abstract!SockAccept
    BY SameSets, SameCardinality
       DEF SockAccept, Abstract!SockAccept, IoAt, Abstract!IoAt, Running, Abstract!Running, buf_new, Abstract!buf_new,
           mainVars, Abstract!mainVars, clientVars, Abstract!clientVars
  <1>2. Rearm => Abstract!Rearm
    BY SameSets DEF Rearm, Abstract!Rearm, net_add, Abstract!net_add, IoAt, Abstract!IoAt,
                    Running, Abstract!Running,
                    bufVars, Abstract!bufVars, mainVars, Abstract!mainVars,
                    clientVars, Abstract!clientVars
  <1>3. SetNonblock => Abstract!SetNonblock
    BY SameSets DEF SetNonblock, Abstract!SetNonblock, IoAt, Abstract!IoAt,
                    Running, Abstract!Running, bufVars,
                    Abstract!bufVars, mainVars, Abstract!mainVars,
                    clientVars, Abstract!clientVars
  <1>4. Register => Abstract!Register
    BY SameSets DEF Register, Abstract!Register, net_add, Abstract!net_add, IoAt,
                    Abstract!IoAt, Running, Abstract!Running, bufVars, Abstract!bufVars, mainVars, Abstract!mainVars,
                    clientVars, Abstract!clientVars
  <1>5. io_read => Abstract!io_read
    BY SameSets DEF io_read, Abstract!io_read, read_count, Abstract!read_count, Hit,
                    Abstract!Hit, Overwritten, Abstract!Overwritten, IoAt, Abstract!IoAt,
                    Running, Abstract!Running, mainVars, Abstract!mainVars
  <1>6. QED
    BY <1>1, <1>2, <1>3, <1>4, <1>5 DEF IoStep, Abstract!IoStep

LEMMA SameClient == Client => Abstract!Client
  BY SameSets DEF Running, Abstract!Running, Client, Abstract!Client, Connect, Abstract!Connect, Send, Abstract!Send,
                  Shutdown, Abstract!Shutdown, mainVars, Abstract!mainVars, ioVars,
                  Abstract!ioVars, bufVars, Abstract!bufVars, clientVars, Abstract!clientVars

LEMMA SamePush ==
  ASSUME NEW n \in AnyNode, main_push(n)
  PROVE  Abstract!main_push(n)
  BY DEF main_push, Abstract!main_push, ioVars, Abstract!ioVars, bufVars, Abstract!bufVars,
         clientVars, Abstract!clientVars, data_type, Abstract!data_type

LEMMA SamePop ==
  ASSUME NEW m \in AnyNode \cup {NULL}, io_pop(m)
  PROVE  Abstract!io_pop(m)
  BY DEF io_pop, Abstract!io_pop, mainVars, Abstract!mainVars, bufVars, Abstract!bufVars,
         clientVars, Abstract!clientVars, data_type, Abstract!data_type, IoAt, Abstract!IoAt,
         Running, Abstract!Running

-----------------------------------------------------------------------------
(* The heap. *)

HeapInv ==
  /\ QueueTypeOK(AnyNode) /\ UniqueOwner /\ OwnedIsAllocated
  /\ leftOver \in BOOLEAN

\* Every cell of the message list carries a node.
Loaded(n, cells) == \A i \in 1 .. n : data[cells[i]] # NULL

TidyInv ==
  ~leftOver => \E n, t \in Nat :
                 \E cells \in [1 .. n -> heap], spare \in [1 .. t -> heap] :
                   Tidy(n, cells, t, spare) /\ Loaded(n, cells)

QueueLoopInv == HeapInv /\ TidyInv

LEMMA NoNullNode == NULL \notin AnyNode
  BY LoopAssumption DEF AnyNode

LEMMA QueueLoopInitInv == QueueLoopInit => QueueLoopInv
  <1> SUFFICES ASSUME QueueLoopInit PROVE QueueLoopInv
    OBVIOUS
  <1>1. /\ queue = EmptyList /\ tmp_queue = EmptyList /\ heap = {}
        /\ next = [c \in Cell |-> NULL] /\ data = [c \in Cell |-> NULL]
        /\ leftOver = FALSE
    BY DEF QueueLoopInit, QueueInit
  <1>2. HeapInv
    <2>1. EmptyList \in List
      BY SizeAssumption DEF EmptyList, List, Pointer, INT_MIN
    <2>2. QueueTypeOK(AnyNode)
      BY <1>1, <2>1 DEF QueueTypeOK, Pointer
    <2>3. UniqueOwner /\ OwnedIsAllocated
      BY <1>1 DEF UniqueOwner, OwnedIsAllocated, EmptyList
    <2>4. QED
      BY <1>1, <2>2, <2>3 DEF HeapInv
  <1> DEFINE none == [i \in 1 .. 0 |-> NULL]
  <1>3. none \in [1 .. 0 -> heap] /\ DOMAIN none = {}
    OBVIOUS
  <1>. HIDE DEF none
  <1>4. Distinct(none) /\ IsChain(next, NULL, none) /\ TailFits(EmptyList, none)
    BY <1>3 DEF Distinct, IsChain, TailFits, EmptyList
  <1>5. Tidy(0, none, 0, none) /\ Loaded(0, none)
    BY <1>1, <1>4 DEF Tidy, Chained, Loaded, EmptyList
  <1>6. TidyInv
    BY <1>3, <1>5 DEF TidyInv
  <1>7. QED
    BY <1>2, <1>6 DEF QueueLoopInv

LEMMA PushKeeps ==
  ASSUME QueueLoopInv, Push
  PROVE  QueueLoopInv'
  <1>1. PICK m \in AnyNode : queue_push(m)
    BY DEF Push
  <1>2. QueueTypeOK(AnyNode) /\ UniqueOwner /\ OwnedIsAllocated /\ leftOver \in BOOLEAN
    BY DEF QueueLoopInv, HeapInv
  <1>3. NoteLeftOver
    BY DEF Push
  <1>4. HeapInv'
    <2>1. QueueTypeOK(AnyNode)' /\ UniqueOwner' /\ OwnedIsAllocated'
      BY <1>1, <1>2, PushIntact
    <2>2. leftOver' \in BOOLEAN
      BY <1>2, <1>3 DEF NoteLeftOver, LeftOverTail
    <2>3. QED
      BY <2>1, <2>2 DEF HeapInv
  <1>5. TidyInv'
    <2> SUFFICES ASSUME ~leftOver'
                 PROVE  \E n, t \in Nat :
                          \E cells \in [1 .. n -> heap'], spare \in [1 .. t -> heap'] :
                            Tidy(n, cells, t, spare)' /\ Loaded(n, cells)'
      BY DEF TidyInv
    <2>1. ~leftOver /\ ~LeftOverTail(tmp_queue')
      BY <1>3 DEF NoteLeftOver
    <2>2. PICK n \in Nat, t \in Nat :
            \E cells \in [1 .. n -> heap], spare \in [1 .. t -> heap] :
              Tidy(n, cells, t, spare) /\ Loaded(n, cells)
      BY <2>1 DEF QueueLoopInv, TidyInv
    <2>3. PICK cells \in [1 .. n -> heap], spare \in [1 .. t -> heap] :
            Tidy(n, cells, t, spare) /\ Loaded(n, cells)
      BY <2>2
    <2>4. Tidy(n, cells, t, spare) /\ ~LeftOverTail(tmp_queue')
      BY <2>1, <2>3
    <2>5. TidyAndMore(n, cells, m)
      BY <1>1, <1>2, <2>4, PushTidy
    <2>6. PICK p \in heap' :
            \E u \in Nat : \E left \in [1 .. u -> heap'] :
              /\ More(cells, n, p) \in [1 .. n + 1 -> heap']
              /\ Tidy(n + 1, More(cells, n, p), u, left)'
              /\ data'[p] = m /\ \A i \in 1 .. n : data'[cells[i]] = data[cells[i]]
      BY <2>5 DEF TidyAndMore
    <2>7. PICK u \in Nat :
            \E left \in [1 .. u -> heap'] :
              /\ More(cells, n, p) \in [1 .. n + 1 -> heap']
              /\ Tidy(n + 1, More(cells, n, p), u, left)'
              /\ data'[p] = m /\ \A i \in 1 .. n : data'[cells[i]] = data[cells[i]]
      BY <2>6
    <2>8. PICK left \in [1 .. u -> heap'] :
              /\ More(cells, n, p) \in [1 .. n + 1 -> heap']
              /\ Tidy(n + 1, More(cells, n, p), u, left)'
              /\ data'[p] = m /\ \A i \in 1 .. n : data'[cells[i]] = data[cells[i]]
      BY <2>7
    <2>9. Loaded(n + 1, More(cells, n, p))'
      <3>1. \A i \in 1 .. n + 1 : data'[More(cells, n, p)[i]] # NULL
        <4> TAKE i \in 1 .. n + 1
        <4>1. CASE i = n + 1
          BY <2>8, <4>1, NoNullNode DEF More
        <4>2. CASE i \in 1 .. n
          <5>1. More(cells, n, p)[i] = cells[i]
            BY <4>2 DEF More
          <5>2. QED
            BY <2>3, <2>8, <4>2, <5>1 DEF Loaded
        <4>3. QED
          BY <4>1, <4>2
      <3>2. QED
        BY <3>1 DEF Loaded
    <2>10. PICK more \in [1 .. n + 1 -> heap'] :
            Tidy(n + 1, more, u, left)' /\ Loaded(n + 1, more)'
      BY <2>8, <2>9
    <2>11. n + 1 \in Nat
      OBVIOUS
    <2>12. QED
      BY <2>10, <2>11
  <1>6. QED
    BY <1>4, <1>5 DEF QueueLoopInv

LEMMA PopKeeps ==
  ASSUME QueueLoopInv, Pop
  PROVE  QueueLoopInv'
  <1>1. PICK m \in AnyNode \cup {NULL} : queue_pop(m)
    BY DEF Pop
  <1>2. QueueTypeOK(AnyNode) /\ UniqueOwner /\ OwnedIsAllocated /\ leftOver \in BOOLEAN
    BY DEF QueueLoopInv, HeapInv
  <1>3. NoteLeftOver
    BY DEF Pop
  <1>4. HeapInv'
    <2>1. QueueTypeOK(AnyNode)' /\ UniqueOwner' /\ OwnedIsAllocated'
      BY <1>1, <1>2, PopIntact
    <2>2. leftOver' \in BOOLEAN
      BY <1>2, <1>3 DEF NoteLeftOver, LeftOverTail
    <2>3. QED
      BY <2>1, <2>2 DEF HeapInv
  <1>5. TidyInv'
    <2> SUFFICES ASSUME ~leftOver'
                 PROVE  \E n, t \in Nat :
                          \E cells \in [1 .. n -> heap'], spare \in [1 .. t -> heap'] :
                            Tidy(n, cells, t, spare)' /\ Loaded(n, cells)'
      BY DEF TidyInv
    <2>1. ~leftOver /\ ~LeftOverTail(queue')
      BY <1>3 DEF NoteLeftOver
    <2>2. PICK n \in Nat, t \in Nat :
            \E cells \in [1 .. n -> heap], spare \in [1 .. t -> heap] :
              Tidy(n, cells, t, spare) /\ Loaded(n, cells)
      BY <2>1 DEF QueueLoopInv, TidyInv
    <2>3. PICK cells \in [1 .. n -> heap], spare \in [1 .. t -> heap] :
            Tidy(n, cells, t, spare) /\ Loaded(n, cells)
      BY <2>2
    <2>4. CASE queue.head = NULL
      <3>1. UNCHANGED qvars
        BY <1>1, <2>4 DEF queue_pop, PopEmpty, PopRecycled, PopFreed
      <3>2. Tidy(n, cells, t, spare)' /\ Loaded(n, cells)' /\ heap' = heap
        BY <2>3, <3>1 DEF Tidy, Chained, Loaded, qvars
      <3>3. QED
        BY <3>2
    <2>5. CASE queue.head # NULL
      <3>1. Chained(n, cells)
        BY <2>3 DEF Tidy
      <3>2. PICK rest : rest = Rest(cells, n)
        OBVIOUS
      <3>3. /\ n >= 1 /\ rest \in [1 .. n - 1 -> heap']
            /\ \A i \in 1 .. n - 1 : data'[rest[i]] = data[cells[i + 1]]
        BY <1>1, <1>2, <2>5, <3>1, <3>2, PopChained
      <3>4. PICK u \in Nat : \E left \in [1 .. u -> heap'] :
               Tidy(n - 1, Rest(cells, n), u, left)'
        BY <1>1, <1>2, <2>1, <2>3, <2>5, PopTidy
      <3>5. PICK left \in [1 .. u -> heap'] : Tidy(n - 1, rest, u, left)'
        BY <3>2, <3>4
      <3>6. Loaded(n - 1, rest)'
        <4>1. \A i \in 1 .. n - 1 : i + 1 \in 1 .. n
          BY <3>3
        <4>2. QED
          BY <2>3, <3>3, <4>1 DEF Loaded
      <3>7. n - 1 \in Nat
        BY <3>3
      <3>8. QED
        BY <3>3, <3>5, <3>6, <3>7
    <2>6. QED
      BY <2>4, <2>5
  <1>6. QED
    BY <1>4, <1>5 DEF QueueLoopInv

LEMMA QueueLoopStep == QueueLoopInv /\ [QueueLoopNext]_vars => QueueLoopInv'
  <1> SUFFICES ASSUME QueueLoopInv, [QueueLoopNext]_vars PROVE QueueLoopInv'
    OBVIOUS
  <1>1. CASE Push
    BY <1>1, PushKeeps
  <1>2. CASE Pop
    BY <1>2, PopKeeps
  <1>3. CASE UNCHANGED <<qvars, leftOver>>
    BY <1>3 DEF QueueLoopInv, HeapInv, TidyInv, QueueTypeOK, UniqueOwner, OwnedIsAllocated,
                Tidy, Chained, Loaded, qvars
  <1>4. QED
    BY <1>1, <1>2, <1>3 DEF QueueLoopNext, vars

-----------------------------------------------------------------------------
(* The steps. *)

LEMMA ThinnerRemains ==
  ASSUME NEW S, NEW s \in Seq(S), NEW y, NEW L, L = Len(s), Thinner(y, s, L), leftOver
  PROVE  y \in Abstract!MsgQ!Remains(s)
  <1>1. L \in Nat
    BY LenProperties
  <1>2. PICK K \in Nat : \E e \in [1 .. K -> 1 .. L] :
           Rising(e, K) /\ K <= L /\ y = [k \in 1 .. K |-> s[e[k]]]
    BY DEF Thinner
  <1>3. PICK e \in [1 .. K -> 1 .. L] :
           Rising(e, K) /\ K <= L /\ y = [k \in 1 .. K |-> s[e[k]]]
    BY <1>2
  <1>4. e \in Abstract!MsgQ!Increasing(K, L) /\ K \in 0 .. L
    BY <1>1, <1>3 DEF Rising, Abstract!MsgQ!Increasing
  <1>5. y \in {[i \in 1 .. K |-> s[f[i]]] : f \in Abstract!MsgQ!Increasing(K, L)}
    BY <1>3, <1>4
  <1>6. y \in Abstract!MsgQ!Subsequences(s)
    BY <1>4, <1>5 DEF Abstract!MsgQ!Subsequences
  <1>7. QED
    BY <1>6 DEF Abstract!MsgQ!Remains

\* The two lists while no tail is left over.
LEMMA TidyChain ==
  ASSUME QueueLoopInv, ~leftOver
  PROVE  \E n \in Nat : \E cells \in [1 .. n -> heap] :
           Chained(n, cells) /\ TailFits(queue, cells) /\ Loaded(n, cells)
  BY DEF QueueLoopInv, TidyInv, Tidy

LEMMA RefinePush ==
  ASSUME QueueLoopInv, QueueTypeOK(AnyNode)', Listed, Listed', Push
  PROVE  Abstract!Push
  <1>1. PICK n \in AnyNode : main_push(n) /\ queue_push(n)
    BY DEF Push
  <1>2. /\ QueueTypeOK(AnyNode) /\ UniqueOwner /\ OwnedIsAllocated
        /\ leftOver \in BOOLEAN /\ NoteLeftOver
    BY DEF QueueLoopInv, HeapInv, Push
  <1>3. Len(Contents) < Cardinality(Cell)
    BY <1>1, <1>2, PushFits
  <1>4. Contents' \in Abstract!MsgQ!Remains(Append(Contents, n))
    <2>1. CASE leftOver
      <3>1. Contents \in Seq(AnyNode) /\ Thinner(Contents', Append(Contents, n), Len(Contents) + 1)
        BY <1>1, <1>2, LossyPush
      <3>2. PICK s : s = Append(Contents, n)
        OBVIOUS
      <3>3. s \in Seq(AnyNode) /\ Len(Contents) + 1 = Len(s)
        BY <3>1, <3>2, AppendProperties
      <3>4. QED
        BY <2>1, <3>1, <3>2, <3>3, ThinnerRemains
    <2>2. CASE ~leftOver
      <3>1. PICK k \in Nat : \E cells \in [1 .. k -> heap] :
               Chained(k, cells) /\ TailFits(queue, cells) /\ Loaded(k, cells)
        BY <2>2, TidyChain
      <3>2. PICK cells \in [1 .. k -> heap] :
               Chained(k, cells) /\ TailFits(queue, cells) /\ Loaded(k, cells)
        BY <3>1
      <3>3. Distinct(cells) /\ IsChain(next, queue.head, cells)
        BY <3>2 DEF Chained
      <3>4. n # NULL
        BY NoNullNode
      <3>5. \A i \in 1 .. k : data[cells[i]] # NULL
        BY <3>2 DEF Loaded
      <3>6. Contents' = Append(Contents, n)
        BY <1>1, <1>2, <3>2, <3>3, <3>4, <3>5, ExactPush
      <3>7. QED
        BY <2>2, <3>6 DEF Abstract!MsgQ!Remains
    <2>3. QED
      BY <2>1, <2>2
  <1>5. accept' = accept
    BY <1>1 DEF main_push, ioVars
  <1>6. Abstract!MsgQ!Put(n)
    BY <1>4, <1>5 DEF Abstract!MsgQ!Put
  <1>7. Abstract!MsgQ!LossyStep
    BY <1>2 DEF NoteLeftOver, Abstract!MsgQ!LossyStep
  <1>8. Abstract!main_push(n)
    BY <1>1, SamePush
  <1>9. QED
    BY <1>3, <1>6, <1>7, <1>8, SameSets DEF Abstract!Push

LEMMA RefinePop ==
  ASSUME QueueLoopInv, QueueTypeOK(AnyNode)', Listed, Listed', Pop
  PROVE  Abstract!Pop
  <1>1. PICK m \in AnyNode \cup {NULL} : io_pop(m) /\ queue_pop(m)
    BY DEF Pop
  <1>2. /\ QueueTypeOK(AnyNode) /\ UniqueOwner /\ OwnedIsAllocated
        /\ leftOver \in BOOLEAN /\ NoteLeftOver
    BY DEF QueueLoopInv, HeapInv, Pop
  <1>3. accept' = m
    BY <1>1 DEF io_pop
  <1>4. Abstract!MsgQ!TakeResult(m)
    <2>1. CASE leftOver
      <3>1. /\ Contents \in Seq(AnyNode)
            /\ \/ m = NULL /\ Thinner(Contents', Contents, Len(Contents))
               \/ /\ Contents # << >> /\ m = Head(Contents)
                  /\ Thinner(Contents', Tail(Contents), Len(Contents) - 1)
        BY <1>1, <1>2, NoNullNode, LossyPop
      <3>2. CASE m = NULL /\ Thinner(Contents', Contents, Len(Contents))
        <4>1. Contents' \in Abstract!MsgQ!Remains(Contents)
          BY <2>1, <3>1, <3>2, ThinnerRemains
        <4>2. QED
          BY <1>3, <2>1, <3>2, <4>1 DEF Abstract!MsgQ!TakeResult, Abstract!MsgQ!TakeNothing
      <3>3. CASE /\ Contents # << >> /\ m = Head(Contents)
                 /\ Thinner(Contents', Tail(Contents), Len(Contents) - 1)
        <4>1. PICK s : s = Tail(Contents)
          OBVIOUS
        <4>2. s \in Seq(AnyNode) /\ Len(Contents) - 1 = Len(s)
          BY <3>1, <3>3, <4>1, HeadTailProperties
        <4>3. Contents' \in Abstract!MsgQ!Remains(Tail(Contents))
          BY <2>1, <3>3, <4>1, <4>2, ThinnerRemains
        <4>4. QED
          BY <1>3, <3>3, <4>3 DEF Abstract!MsgQ!TakeResult, Abstract!MsgQ!Take
      <3>4. QED
        BY <3>1, <3>2, <3>3
    <2>2. CASE ~leftOver
      <3>1. PICK k \in Nat : \E cells \in [1 .. k -> heap] :
               Chained(k, cells) /\ TailFits(queue, cells) /\ Loaded(k, cells)
        BY <2>2, TidyChain
      <3>2. PICK cells \in [1 .. k -> heap] : Chained(k, cells) /\ Loaded(k, cells)
        BY <3>1
      <3>3. \A i \in 1 .. k : data[cells[i]] # NULL
        BY <3>2 DEF Loaded
      <3>4. \/ m = NULL /\ Contents = << >> /\ Contents' = << >>
            \/ m # NULL /\ Contents # << >> /\ m = Head(Contents) /\ Contents' = Tail(Contents)
        BY <1>1, <1>2, <3>2, <3>3, NoNullNode, ExactPop
      <3>5. QED
        BY <1>3, <2>2, <3>4
           DEF Abstract!MsgQ!TakeResult, Abstract!MsgQ!Take, Abstract!MsgQ!TakeNothing,
               Abstract!MsgQ!Remains
    <2>3. QED
      BY <2>1, <2>2
  <1>5. Abstract!MsgQ!LossyStep
    BY <1>2 DEF NoteLeftOver, Abstract!MsgQ!LossyStep
  <1>6. Abstract!io_pop(m)
    BY <1>1, SamePop
  <1>7. QED
    BY <1>4, <1>5, <1>6, SameSets DEF Abstract!Pop

LEMMA RefineNext ==
  ASSUME QueueLoopInv, QueueLoopInv', Listed, Listed', [QueueLoopNext]_vars
  PROVE  [Abstract!LoopNext]_(Abstract!vars)
  <1>1. QueueTypeOK(AnyNode)'
    BY DEF QueueLoopInv, HeapInv
  <1>2. CASE Push
    BY <1>1, <1>2, RefinePush DEF Abstract!LoopNext, Abstract!Main
  <1>3. CASE Pop
    BY <1>1, <1>3, RefinePop DEF Abstract!LoopNext, Abstract!Io
  <1>4. UNCHANGED <<qvars, leftOver>> => UNCHANGED <<Contents, leftOver>>
    BY DEF qvars, Contents
  <1>5. CASE (MainStep \/ IoStep \/ Client) /\ UNCHANGED <<qvars, leftOver>>
    BY <1>4, <1>5, SameMainStep, SameIoStep, SameClient
       DEF Abstract!LoopNext, Abstract!Main, Abstract!Io
  <1>6. CASE UNCHANGED vars
    BY <1>4, <1>6
       DEF vars, threadVars, mainVars, ioVars, bufVars, clientVars, Abstract!vars,
           Abstract!threadVars, Abstract!mainVars, Abstract!ioVars, Abstract!bufVars,
           Abstract!clientVars
  <1>7. QED
    BY <1>2, <1>3, <1>5, <1>6 DEF QueueLoopNext

LEMMA RefineInit == QueueLoopInit => Abstract!LoopInit
  <1> SUFFICES ASSUME QueueLoopInit PROVE Abstract!LoopInit
    OBVIOUS
  <1>1. queue.head = NULL /\ leftOver = FALSE
    BY DEF QueueLoopInit, QueueInit, EmptyList
  <1>2. Contents = << >>
    BY <1>1, EmptyContents
  <1>3. Abstract!Init
    BY SameSets DEF QueueLoopInit, Init, Abstract!Init, Unset, Abstract!Unset
  <1>4. QED
    BY <1>1, <1>2, <1>3 DEF Abstract!LoopInit

\* The threads of loop.c on the queue of queue.c, pointers and left-over
\* tails included, do nothing that EventLoop does not allow on a queue known
\* by its promises: EventLoop's safety theorems hold of the real loop.
THEOREM ImplementsLoop == QueueLoopSpec => ImplementsEventLoop
  <1>1. QueueLoopInv => Listed
    BY IntactListed DEF QueueLoopInv, HeapInv
  <1>2. /\ QueueLoopInv /\ QueueLoopInv' /\ Listed /\ Listed' /\ [QueueLoopNext]_vars
             => [Abstract!LoopNext]_(Abstract!vars)
    BY RefineNext
  <1>3. QED
    BY QueueLoopInitInv, QueueLoopStep, RefineInit, <1>1, <1>2, PTL
       DEF QueueLoopSpec, ImplementsEventLoop, Abstract!LoopSpec

-----------------------------------------------------------------------------
(* EventLoop's theorems hold here.  `Loop` is `Abstract` once more, with     *)
(* the theorems that EventLoopProofs adds to it.                             *)

Loop == INSTANCE EventLoopProofs WITH
          QLEN <- Cardinality(Cell), pending <- Contents, lossy <- leftOver

LEMMA LoopSets ==
  /\ Loop!Fd = Abstract!Fd /\ Loop!Backlog = Abstract!Backlog
  /\ Loop!Open = Abstract!Open /\ Loop!AnyNode = Abstract!AnyNode
  BY DEF Abstract!Fd, Loop!Fd, Abstract!Backlog, Loop!Backlog, Abstract!Open,
         Loop!Open, Abstract!AnyNode, Loop!AnyNode

LEMMA LoopCardinality ==
  ASSUME NEW S
  PROVE  Loop!Cardinality(S) = Abstract!Cardinality(S)
  BY DEF Abstract!Cardinality, Loop!Cardinality

LEMMA LoopMain == Abstract!MainStep => Loop!MainStep
  <1>1. Abstract!Setup => Loop!Setup
    BY LoopSets
       DEF Abstract!Setup, Loop!Setup, Abstract!net_add, Loop!net_add,
           Abstract!bufVars, Loop!bufVars, Abstract!clientVars, Loop!clientVars
  <1>2. Abstract!net_wait => Loop!net_wait
    <2>1. Loop!Ready = Abstract!Ready
      BY LoopSets
         DEF Abstract!Ready, Loop!Ready, Abstract!Readable, Loop!Readable
    <2>2. Loop!Reports(Abstract!Ready) = Abstract!Reports(Abstract!Ready)
      BY LoopCardinality
         DEF Abstract!Reports, Loop!Reports
    <2>3. QED
      BY <2>1, <2>2
         DEF Abstract!net_wait, Loop!net_wait, Abstract!ioVars, Loop!ioVars,
             Abstract!bufVars, Loop!bufVars, Abstract!clientVars, Loop!clientVars
  <1>3. Abstract!StopListening => Loop!StopListening
    BY DEF Abstract!StopListening, Loop!StopListening, Abstract!data_type,
           Loop!data_type, Abstract!ioVars, Loop!ioVars, Abstract!bufVars,
           Loop!bufVars, Abstract!clientVars, Loop!clientVars
  <1>4. Abstract!DispatchPayload => Loop!DispatchPayload
    BY DEF Abstract!DispatchPayload, Loop!DispatchPayload, Abstract!data_type,
           Loop!data_type, Abstract!ioVars, Loop!ioVars, Abstract!bufVars,
           Loop!bufVars, Abstract!clientVars, Loop!clientVars
  <1>5. Abstract!EndOfBatch => Loop!EndOfBatch
    BY DEF Abstract!EndOfBatch, Loop!EndOfBatch, Abstract!ioVars, Loop!ioVars,
           Abstract!bufVars, Loop!bufVars, Abstract!clientVars, Loop!clientVars
  <1>6. QED
    BY <1>1, <1>2, <1>3, <1>4, <1>5
       DEF Abstract!MainStep, Loop!MainStep

LEMMA LoopIo == Abstract!IoStep => Loop!IoStep
  <1>1. Abstract!SockAccept => Loop!SockAccept
    BY LoopSets, LoopCardinality
       DEF Abstract!SockAccept, Loop!SockAccept, Abstract!IoAt, Loop!IoAt,
           Abstract!Running, Loop!Running,
           Abstract!buf_new, Loop!buf_new, Abstract!mainVars, Loop!mainVars,
           Abstract!clientVars, Loop!clientVars
  <1>2. Abstract!Rearm => Loop!Rearm
    BY LoopSets
       DEF Abstract!Rearm, Loop!Rearm, Abstract!IoAt, Loop!IoAt, Abstract!net_add,
           Abstract!Running, Loop!Running,
           Loop!net_add, Abstract!mainVars, Loop!mainVars, Abstract!bufVars,
           Loop!bufVars, Abstract!clientVars, Loop!clientVars
  <1>3. Abstract!SetNonblock => Loop!SetNonblock
    BY DEF Abstract!SetNonblock, Loop!SetNonblock, Abstract!IoAt, Loop!IoAt,
           Abstract!Running, Loop!Running,
           Abstract!mainVars, Loop!mainVars, Abstract!bufVars, Loop!bufVars,
           Abstract!clientVars, Loop!clientVars
  <1>4. Abstract!Register => Loop!Register
    BY LoopSets
       DEF Abstract!Register, Loop!Register, Abstract!IoAt, Loop!IoAt,
           Abstract!Running, Loop!Running,
           Abstract!net_add, Loop!net_add, Abstract!mainVars, Loop!mainVars,
           Abstract!bufVars, Loop!bufVars, Abstract!clientVars, Loop!clientVars
  <1>5. Abstract!io_read => Loop!io_read
    BY DEF Abstract!io_read, Loop!io_read, Abstract!IoAt, Loop!IoAt,
           Abstract!read_count, Loop!read_count, Abstract!Hit, Loop!Hit,
           Abstract!Overwritten, Loop!Overwritten, Abstract!Running, Loop!Running,
           Abstract!mainVars, Loop!mainVars
  <1>6. QED
    BY <1>1, <1>2, <1>3, <1>4, <1>5
       DEF Abstract!IoStep, Loop!IoStep

LEMMA LoopClient == Abstract!Client => Loop!Client
  BY LoopSets
     DEF Abstract!Running, Loop!Running, Abstract!Client, Loop!Client, Abstract!Connect, Loop!Connect, Abstract!Send,
         Loop!Send, Abstract!Shutdown, Loop!Shutdown, Abstract!mainVars, Loop!mainVars,
         Abstract!ioVars, Loop!ioVars, Abstract!bufVars, Loop!bufVars,
         Abstract!clientVars, Loop!clientVars

LEMMA LoopPush == Abstract!Push => Loop!Push
  BY LoopSets
     DEF Abstract!Push, Loop!Push, Abstract!main_push, Loop!main_push,
         Abstract!data_type, Loop!data_type, Abstract!ioVars, Loop!ioVars,
         Abstract!bufVars, Loop!bufVars, Abstract!clientVars, Loop!clientVars,
         Abstract!MsgQ!Put, Loop!MsgQ!Put, Abstract!MsgQ!Remains, Loop!MsgQ!Remains,
         Abstract!MsgQ!Subsequences, Loop!MsgQ!Subsequences, Abstract!MsgQ!Increasing,
         Loop!MsgQ!Increasing, Abstract!MsgQ!LossyStep, Loop!MsgQ!LossyStep

LEMMA LoopPop == Abstract!Pop => Loop!Pop
  BY LoopSets
     DEF Abstract!Pop, Loop!Pop, Abstract!io_pop, Loop!io_pop, Abstract!IoAt,
         Loop!IoAt, Abstract!Running, Loop!Running, Abstract!data_type, Loop!data_type, Abstract!mainVars,
         Loop!mainVars, Abstract!bufVars, Loop!bufVars, Abstract!clientVars,
         Loop!clientVars, Abstract!MsgQ!Take, Loop!MsgQ!Take,
         Abstract!MsgQ!TakeNothing, Loop!MsgQ!TakeNothing, Abstract!MsgQ!TakeResult,
         Loop!MsgQ!TakeResult, Abstract!MsgQ!Remains, Loop!MsgQ!Remains,
         Abstract!MsgQ!Subsequences, Loop!MsgQ!Subsequences, Abstract!MsgQ!Increasing,
         Loop!MsgQ!Increasing, Abstract!MsgQ!LossyStep, Loop!MsgQ!LossyStep

LEMMA LoopSteps == [Abstract!LoopNext]_(Abstract!vars) => [Loop!LoopNext]_(Loop!vars)
  <1>1. UNCHANGED Abstract!vars => UNCHANGED Loop!vars
    BY DEF Abstract!vars, Loop!vars, Abstract!threadVars, Loop!threadVars,
           Abstract!mainVars, Loop!mainVars, Abstract!ioVars, Loop!ioVars,
           Abstract!bufVars, Loop!bufVars, Abstract!clientVars, Loop!clientVars
  <1>2. Abstract!LoopNext => Loop!LoopNext
    BY LoopMain, LoopIo, LoopClient, LoopPush, LoopPop
       DEF Abstract!LoopNext, Loop!LoopNext, Abstract!Main, Loop!Main, Abstract!Io,
           Loop!Io
  <1>3. QED
    BY <1>1, <1>2

LEMMA LoopInitSame == Abstract!LoopInit => Loop!LoopInit
  BY LoopSets
     DEF Abstract!LoopInit, Loop!LoopInit, Abstract!Init, Loop!Init, Abstract!Unset,
         Loop!Unset

\* The event loop on the real queue: never more than one accept on its way,
\* and exactly one until a tail is left over; accept and read are called only
\* when they return at once; every node in epoll's list or on the queue is the
\* one registered for its session.
THEOREM SafeOnTheQueue ==
  QueueLoopSpec => [](/\ Abstract!AcceptSingleFlight
                      /\ Abstract!IoNeverBlocks
                      /\ Abstract!NodeMatchesSession)
  <1>1. Cardinality(Cell) \in Nat \ {0}
    BY CellAssumption, HeapAssumption, FS_CardinalityType, FS_EmptySet
  <1>2. Loop!IsFiniteSet(Conn)
    BY LoopAssumption DEF Loop!IsFiniteSet, IsFiniteSet
  <1>3. /\ Loop!LoopSpec => []Loop!AcceptSingleFlight
        /\ Loop!LoopSpec => []Loop!IoNeverBlocks
        /\ Loop!LoopSpec => []Loop!NodeMatchesSession
    BY <1>1, <1>2, LoopAssumption, Loop!OneAcceptInFlight, Loop!IoThreadNeverBlocks,
       Loop!NodesMatchSessions
  <1>4. Loop!AcceptSingleFlight => Abstract!AcceptSingleFlight
    BY LoopCardinality
       DEF Abstract!AcceptSingleFlight, Loop!AcceptSingleFlight, Abstract!Places,
           Loop!Places
  <1>5. Loop!IoNeverBlocks => Abstract!IoNeverBlocks
    BY LoopSets, LoopCardinality
       DEF Abstract!IoNeverBlocks, Loop!IoNeverBlocks
  <1>6. Loop!NodeMatchesSession => Abstract!NodeMatchesSession
    BY DEF Abstract!NodeMatchesSession, Loop!NodeMatchesSession,
           Abstract!Overwritten, Loop!Overwritten
  <1>7. QED
    BY ImplementsLoop, LoopInitSame, LoopSteps, <1>3, <1>4, <1>5, <1>6, PTL
       DEF ImplementsEventLoop, Abstract!LoopSpec, Loop!LoopSpec
=============================================================================
