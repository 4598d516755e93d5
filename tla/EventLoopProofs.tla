-------------------------- MODULE EventLoopProofs ---------------------------
(***************************************************************************)
(* Theorems about the event loop, for any number of connections, nodes,    *)
(* descriptors and events per batch, on exact and on lossy queues.         *)
(*                                                                         *)
(* LoopInv has three parts: the types; AcceptInv, where the listening      *)
(* socket's node is; SessionInv, that every node on its way to io_read is  *)
(* registered for a session, that this session does not block, and that    *)
(* the node's header is that session's unless a payload lies over it.      *)
(***************************************************************************)
EXTENDS EventLoop, TLAPS, FiniteSetTheorems

\* The places of AcceptSingleFlight.
Offered == watched[LSFD] # NULL
Stopped == main = "push"
Queued == \E i \in DOMAIN pending : pending[i] = listennode
Accepting == io \in {"sock_accept", "rearm"}

OnlyOnce(s) ==
  \A i, j \in DOMAIN s : s[i] = listennode /\ s[j] = listennode => i = j

InBatch == main = "dispatch" /\ \E i \in DOMAIN batch : batch[i] = listennode

AcceptInv ==
  /\ watched[LSFD] \in {NULL, listennode}
  /\ ~(Offered /\ Stopped) /\ ~(Offered /\ Queued) /\ ~(Offered /\ Accepting)
  /\ ~(Stopped /\ Queued) /\ ~(Stopped /\ Accepting) /\ ~(Queued /\ Accepting)
  /\ ~lossy /\ main # "setup" => Offered \/ Stopped \/ Queued \/ Accepting
  /\ OnlyOnce(pending) /\ OnlyOnce(batch)
  /\ InBatch => Offered
  /\ Stopped => batch # <<>> /\ Head(batch) = listennode
  /\ main = "setup" => io = "not_started" /\ ~Offered /\ pending = <<>>
  /\ Accepting => accept = listennode
  /\ InBatch \/ Stopped \/ Queued \/ io = "sock_accept" => Backlog # {}

Registered(n) == n \in Node /\ \E c \in Conn : watched[c] = n

\* What a node registered for c may have as its header.
Headers(c) == {[session |-> c, data_type |-> "SOCK_READ"], Overwritten}

SessionInv ==
  /\ \A c \in Conn : watched[c] # NULL =>
       watched[c] \in Node /\ node[watched[c]] \in Headers(c) /\ c \in nonblock
  /\ \A i \in DOMAIN batch : batch[i] # listennode => Registered(batch[i])
  /\ \A i \in DOMAIN pending : pending[i] # listennode => Registered(pending[i])
  /\ io = "read" => Registered(accept) /\ node[accept] # Overwritten
  /\ io \in {"rearm", "nonblock", "register"} =>
       /\ makenode \in Node /\ \A fd \in Fd : watched[fd] # makenode
       /\ node[makenode].data_type = "SOCK_READ"
  /\ io = "register" => node[makenode].session \in nonblock \cup {BadSession}

LoopInv == TypeOK /\ AcceptInv /\ SessionInv

\* A registered node whose header stands is that of its session.
LEMMA HeaderStands ==
  ASSUME LoopInv, NEW n, Registered(n), node[n] # Overwritten
  PROVE  /\ n \in Node /\ node[n].session \in Conn
         /\ watched[node[n].session] = n /\ node[n].session \in nonblock
  <1>1. PICK c \in Conn : watched[c] = n /\ n \in Node
    BY DEF Registered
  <1>2. n # NULL
    BY <1>1, LoopAssumption
  <1>3. node[n] = [session |-> c, data_type |-> "SOCK_READ"] /\ c \in nonblock
    BY <1>1, <1>2 DEF LoopInv, SessionInv, Headers
  <1>4. QED
    BY <1>1, <1>3

LEMMA LoopInitInv == LoopInit => LoopInv
  <1> SUFFICES ASSUME LoopInit PROVE LoopInv
    OBVIOUS
  <1>1. TypeOK
    <2>1. Unset \in [session : Conn \cup {BadSession},
                     data_type : {"garbage", "SOCK_READ", "payload"}]
      BY DEF Unset
    <2>2. batch \in Seq(AnyNode) /\ pending \in Seq(AnyNode)
      <3>1. batch = <<>> /\ pending = <<>>
        BY DEF LoopInit, Init
      <3>2. QED
        BY <3>1
    <2>3. 0 \in 0 .. RCVBUF
      BY LoopAssumption
    <2>4. QED
      BY <2>1, <2>2, <2>3 DEF LoopInit, Init, TypeOK, ThreadTypeOK
  <1>2. AcceptInv
    <2>1. /\ watched[LSFD] = NULL /\ main = "setup" /\ io = "not_started"
          /\ pending = <<>> /\ batch = <<>>
      BY DEF LoopInit, Init, Fd
    <2>2. ~Offered /\ ~Stopped /\ ~Queued /\ ~Accepting /\ ~InBatch
      BY <2>1 DEF Offered, Stopped, Queued, Accepting, InBatch
    <2>3. OnlyOnce(pending) /\ OnlyOnce(batch)
      BY <2>1 DEF OnlyOnce
    <2>4. QED
      BY <2>1, <2>2, <2>3 DEF AcceptInv
  <1>3. SessionInv
    BY DEF LoopInit, Init, SessionInv, Fd
  <1>4. QED
    BY <1>1, <1>2, <1>3 DEF LoopInv

-----------------------------------------------------------------------------

\* The queue keeps the order of what it keeps: what remains of s is s with
\* some places left out.
Thinned(t, s) ==
  \E f \in [DOMAIN t -> DOMAIN s] :
    /\ \A i \in DOMAIN t : t[i] = s[f[i]]
    /\ \A i, j \in DOMAIN t : i # j => f[i] # f[j]

LEMMA RemainsThinned ==
  ASSUME NEW s \in Seq(AnyNode), NEW t \in MsgQ!Remains(s)
  PROVE  t \in Seq(AnyNode) /\ Thinned(t, s) /\ (~lossy => t = s)
  <1>1. CASE lossy
    <2>0. PICK n \in 0 .. Len(s) :
            \E f \in MsgQ!Increasing(n, Len(s)) : t = [i \in 1 .. n |-> s[f[i]]]
      BY <1>1 DEF MsgQ!Remains, MsgQ!Subsequences
    <2>1. PICK f \in MsgQ!Increasing(n, Len(s)) : t = [i \in 1 .. n |-> s[f[i]]]
      BY <2>0
    <2>2. /\ n \in Nat /\ f \in [1 .. n -> 1 .. Len(s)] /\ DOMAIN s = 1 .. Len(s)
          /\ \A i, j \in 1 .. n : i < j => f[i] < f[j]
      BY <2>1 DEF MsgQ!Increasing
    <2>3. \A i, j \in 1 .. n : i # j => f[i] # f[j]
      BY <2>2
    <2>4. DOMAIN t = 1 .. n /\ \A i \in 1 .. n : t[i] = s[f[i]]
      BY <2>1
    <2>5. Thinned(t, s)
      BY <2>2, <2>3, <2>4 DEF Thinned
    <2>6. t \in Seq(AnyNode)
      <3>1. \A i \in 1 .. n : s[f[i]] \in AnyNode
        BY <2>2
      <3>2. QED
        BY <2>1, <2>2, <3>1
    <2>7. QED
      BY <1>1, <2>5, <2>6
  <1>2. CASE ~lossy
    <2>1. t = s
      BY <1>2 DEF MsgQ!Remains
    <2>2. Thinned(s, s)
      <3> DEFINE f == [i \in DOMAIN s |-> i]
      <3>1. f \in [DOMAIN s -> DOMAIN s] /\ \A i \in DOMAIN s : f[i] = i
        OBVIOUS
      <3>2. QED
        BY <3>1 DEF Thinned
    <2>3. QED
      BY <2>1, <2>2
  <1>3. QED
    BY <1>1, <1>2

\* Thinning adds no element and no second occurrence.
LEMMA ThinnedFacts ==
  ASSUME NEW s, NEW t, Thinned(t, s)
  PROVE  /\ \A i \in DOMAIN t : \E j \in DOMAIN s : t[i] = s[j]
         /\ OnlyOnce(s) => OnlyOnce(t)
  <1>1. PICK f \in [DOMAIN t -> DOMAIN s] :
          /\ \A i \in DOMAIN t : t[i] = s[f[i]]
          /\ \A i, j \in DOMAIN t : i # j => f[i] # f[j]
    BY DEF Thinned
  <1>2. QED
    BY <1>1 DEF OnlyOnce

\* What a push of n does to msg_q_.
LEMMA PushPending ==
  ASSUME TypeOK, NEW n \in AnyNode, MsgQ!Put(n), MsgQ!LossyStep
  PROVE  /\ pending' \in Seq(AnyNode) /\ lossy' \in BOOLEAN
         /\ \A i \in DOMAIN pending' :
              pending'[i] = n \/ \E j \in DOMAIN pending : pending'[i] = pending[j]
         /\ OnlyOnce(pending) /\ (n = listennode => ~Queued) => OnlyOnce(pending')
         /\ ~lossy' => \E i \in DOMAIN pending' : pending'[i] = n
         /\ ~lossy' /\ Queued => \E i \in DOMAIN pending' : pending'[i] = listennode
         /\ ~lossy' => ~lossy
         /\ accept' = accept
  <1> DEFINE s == Append(pending, n)
  <1>1. pending \in Seq(AnyNode) /\ lossy \in BOOLEAN /\ Len(pending) \in Nat
    BY DEF TypeOK
  <1>2. /\ s \in Seq(AnyNode) /\ DOMAIN s = 1 .. Len(pending) + 1
        /\ DOMAIN pending = 1 .. Len(pending)
        /\ \A i \in 1 .. Len(pending) : s[i] = pending[i]
        /\ s[Len(pending) + 1] = n
    BY <1>1
  <1>3. pending' \in MsgQ!Remains(s) /\ accept' = accept
    BY DEF MsgQ!Put
  <1>4. lossy' \in BOOLEAN /\ (~lossy' => ~lossy)
    BY <1>1 DEF MsgQ!LossyStep
  <1> HIDE DEF s
  <1>5. pending' \in Seq(AnyNode) /\ Thinned(pending', s) /\ (~lossy => pending' = s)
    BY <1>2, <1>3, RemainsThinned
  <1>6. \A i \in DOMAIN s : s[i] = n \/ \E j \in DOMAIN pending : s[i] = pending[j]
    BY <1>1, <1>2
  <1>7. OnlyOnce(pending) /\ (n = listennode => ~Queued) => OnlyOnce(s)
    BY <1>1, <1>2 DEF OnlyOnce, Queued
  <1>8. (\E i \in DOMAIN s : s[i] = n) /\ (Queued => \E i \in DOMAIN s : s[i] = listennode)
    BY <1>1, <1>2 DEF Queued
  <1>9. QED
    BY <1>3, <1>4, <1>5, <1>6, <1>7, <1>8, ThinnedFacts

\* What a pop of m does to msg_q_.
LEMMA PopPending ==
  ASSUME TypeOK, NEW m \in AnyNode \cup {NULL}, MsgQ!TakeResult(m), MsgQ!LossyStep
  PROVE  /\ pending' \in Seq(AnyNode) /\ lossy' \in BOOLEAN
         /\ \A i \in DOMAIN pending' : \E j \in DOMAIN pending : pending'[i] = pending[j]
         /\ OnlyOnce(pending) => OnlyOnce(pending')
         /\ m # NULL => \E j \in DOMAIN pending : m = pending[j]
         /\ OnlyOnce(pending) /\ m = listennode =>
              \A i \in DOMAIN pending' : pending'[i] # listennode
         /\ ~lossy' /\ Queued /\ m # listennode =>
              \E i \in DOMAIN pending' : pending'[i] = listennode
         /\ ~lossy' => ~lossy
  <1>1. /\ pending \in Seq(AnyNode) /\ lossy \in BOOLEAN /\ Len(pending) \in Nat
        /\ DOMAIN pending = 1 .. Len(pending) /\ listennode # NULL
    BY LoopAssumption DEF TypeOK
  <1>2. lossy' \in BOOLEAN /\ (~lossy' => ~lossy)
    BY <1>1 DEF MsgQ!LossyStep
  <1>3. CASE MsgQ!Take(m)
    <2> DEFINE s == Tail(pending)
    <2>1. pending # <<>> /\ m = Head(pending) /\ pending' \in MsgQ!Remains(s)
      BY <1>3 DEF MsgQ!Take
    <2>2. /\ s \in Seq(AnyNode) /\ m = pending[1] /\ 1 \in DOMAIN pending
          /\ DOMAIN s = 1 .. Len(pending) - 1
          /\ \A i \in DOMAIN s : i + 1 \in DOMAIN pending /\ s[i] = pending[i + 1]
          /\ \A i \in DOMAIN pending : i # 1 => i - 1 \in DOMAIN s /\ pending[i] = s[i - 1]
      BY <1>1, <2>1
    <2> HIDE DEF s
    <2>3. pending' \in Seq(AnyNode) /\ Thinned(pending', s) /\ (~lossy => pending' = s)
      BY <2>1, <2>2, RemainsThinned
    <2>4. \A i \in DOMAIN s : \E j \in DOMAIN pending : s[i] = pending[j]
      BY <2>2
    <2>5. OnlyOnce(pending) => OnlyOnce(s)
      BY <1>1, <2>2 DEF OnlyOnce
    <2>6. ASSUME OnlyOnce(pending), m = listennode, NEW i \in DOMAIN s
          PROVE  s[i] # listennode
      <3>1. i + 1 \in DOMAIN pending /\ i + 1 # 1 /\ s[i] = pending[i + 1]
        BY <1>1, <2>2
      <3>2. QED
        BY <2>2, <2>6, <3>1 DEF OnlyOnce
    <2>7. Queued /\ m # listennode => \E i \in DOMAIN s : s[i] = listennode
      BY <1>1, <2>2 DEF Queued
    <2>8. \A i \in DOMAIN pending' : \E j \in DOMAIN s : pending'[i] = s[j]
      BY <2>3, ThinnedFacts
    <2>9. OnlyOnce(s) => OnlyOnce(pending')
      BY <2>3, ThinnedFacts
    <2>10. \A i \in DOMAIN pending' : \E j \in DOMAIN pending : pending'[i] = pending[j]
      BY <2>4, <2>8
    <2>11. OnlyOnce(pending) /\ m = listennode =>
             \A i \in DOMAIN pending' : pending'[i] # listennode
      BY <2>6, <2>8
    <2>12. ~lossy' /\ Queued /\ m # listennode =>
             \E i \in DOMAIN pending' : pending'[i] = listennode
      BY <1>2, <2>3, <2>7
    <2>13. (m # NULL => \E j \in DOMAIN pending : m = pending[j])
           /\ (OnlyOnce(pending) => OnlyOnce(pending'))
      BY <2>2, <2>5, <2>9
    <2>14. QED
      BY <1>2, <2>3, <2>10, <2>11, <2>12, <2>13
  <1>4. CASE m = NULL /\ MsgQ!TakeNothing
    <2>1. pending' \in MsgQ!Remains(pending)
      BY <1>4 DEF MsgQ!TakeNothing
    <2>2. pending' \in Seq(AnyNode) /\ Thinned(pending', pending) /\ (~lossy => pending' = pending)
      BY <1>1, <2>1, RemainsThinned
    <2>3. QED
      BY <1>1, <1>2, <1>4, <2>2, ThinnedFacts DEF Queued
  <1>5. QED
    BY <1>3, <1>4 DEF MsgQ!TakeResult

-----------------------------------------------------------------------------
(* The steps that leave msg_q_ alone. *)

\* Only the listening socket's node has type SOCK_ACCEPT.
LEMMA DataType ==
  ASSUME TypeOK, NEW n \in AnyNode
  PROVE  data_type(n) = "SOCK_ACCEPT" <=> n = listennode
  BY LoopAssumption DEF TypeOK, ThreadTypeOK, AnyNode, data_type

\* The listening socket is put on offer when nothing else is under way.
LEMMA SetupInv ==
  ASSUME LoopInv, Setup, UNCHANGED <<pending, lossy>>
  PROVE  LoopInv'
  <1>1. /\ main = "setup" /\ main' = "net_wait" /\ io' = "pop" /\ pending = <<>>
        /\ watched[LSFD] = NULL /\ LSFD \in Fd
        /\ watched' = [watched EXCEPT ![LSFD] = listennode]
        /\ UNCHANGED <<batch, quit_flg, accept, makenode, bufVars, conn, nonblock, clientVars>>
    BY DEF LoopInv, AcceptInv, Offered, Setup, net_add, Fd
  <1>2. TypeOK'
    BY <1>1 DEF LoopInv, TypeOK, ThreadTypeOK, bufVars, clientVars, AnyNode
  <1>3. AcceptInv'
    BY <1>1, LoopAssumption
       DEF LoopInv, TypeOK, ThreadTypeOK, AcceptInv, Offered, Stopped, Queued, Accepting,
           OnlyOnce, InBatch
  <1>4. SessionInv'
    BY <1>1, LoopAssumption
       DEF LoopInv, TypeOK, ThreadTypeOK, SessionInv, Registered, bufVars, Fd
  <1>5. QED
    BY <1>2, <1>3, <1>4 DEF LoopInv

\* A batch holds a registered node at most once.
LEMMA NetWaitInv ==
  ASSUME LoopInv, net_wait, UNCHANGED <<pending, lossy>>
  PROVE  LoopInv'
  <1>1. /\ main = "net_wait" /\ main' = "dispatch"
        /\ UNCHANGED <<quit_flg, ioVars, bufVars, watched, conn, nonblock, clientVars>>
    BY DEF net_wait
  <1>2. PICK r \in Reports(Ready) : batch' = [i \in DOMAIN r |-> watched[r[i]]]
    BY DEF net_wait
  <1>3. PICK size \in Nat : r \in [1 .. size -> Ready]
    <2>1. IsFiniteSet(Fd) /\ Ready \subseteq Fd
      BY LoopAssumption, FS_AddElement DEF Fd, Ready
    <2>2. Cardinality(Ready) \in Nat
      BY <2>1, FS_Subset, FS_CardinalityType
    <2>3. QED
      BY <1>2, <2>2, LoopAssumption DEF Reports
  <1>4. /\ DOMAIN r = 1 .. size
        /\ \A i, j \in 1 .. size : r[i] = r[j] => i = j
        /\ \A i \in 1 .. size : r[i] \in Fd /\ watched[r[i]] # NULL /\ Readable(r[i])
    BY <1>2, <1>3 DEF Reports, Ready
  <1>5. DOMAIN batch' = 1 .. size /\ \A i \in 1 .. size : batch'[i] = watched[r[i]]
    BY <1>2, <1>4
  <1>6. \A i \in 1 .. size : batch'[i] = listennode => r[i] = LSFD
    BY <1>4, <1>5, LoopAssumption DEF LoopInv, SessionInv, Fd
  <1>7. TypeOK'
    <2>1. \A i \in 1 .. size : batch'[i] \in AnyNode
      BY <1>4, <1>5 DEF LoopInv, TypeOK, ThreadTypeOK
    <2>2. batch' \in Seq(AnyNode)
      BY <1>2, <1>4, <1>5, <2>1
    <2>3. QED
      BY <1>1, <2>2 DEF LoopInv, TypeOK, ThreadTypeOK, ioVars, bufVars, clientVars
  <1>8. AcceptInv'
    <2>1. OnlyOnce(batch')
      BY <1>4, <1>5, <1>6 DEF OnlyOnce
    <2>2. InBatch' => Offered /\ Backlog # {}
      BY <1>4, <1>5, <1>6 DEF InBatch, Offered, Readable
    <2>3. QED
      BY <1>1, <2>1, <2>2
         DEF LoopInv, AcceptInv, Offered, Stopped, Queued, Accepting, OnlyOnce, InBatch,
             Backlog, ioVars
  <1>9. SessionInv'
    <2>1. \A i \in 1 .. size : batch'[i] # listennode => Registered(batch'[i])
      BY <1>4, <1>5, LoopAssumption
         DEF LoopInv, AcceptInv, SessionInv, Registered, Fd
    <2>2. QED
      BY <1>1, <1>5, <2>1 DEF LoopInv, SessionInv, Registered, ioVars, bufVars
  <1>10. QED
    BY <1>7, <1>8, <1>9 DEF LoopInv

\* The listen node of the batch stops being on offer and is about to be pushed.
LEMMA StopListeningInv ==
  ASSUME LoopInv, StopListening, UNCHANGED <<pending, lossy>>
  PROVE  LoopInv'
  <1>1. /\ main = "dispatch" /\ main' = "push" /\ batch # <<>>
        /\ data_type(Head(batch)) = "SOCK_ACCEPT"
        /\ watched' = [watched EXCEPT ![LSFD] = NULL]
        /\ UNCHANGED <<batch, quit_flg, ioVars, bufVars, conn, nonblock, clientVars>>
    BY DEF StopListening
  <1>2. batch \in Seq(AnyNode) /\ Head(batch) = batch[1] /\ 1 \in DOMAIN batch
    BY <1>1 DEF LoopInv, TypeOK, ThreadTypeOK
  <1>3. Head(batch) = listennode /\ InBatch
    <2>1. batch[1] \in AnyNode
      BY <1>2
    <2>2. QED
      BY <1>1, <1>2, <2>1, DataType DEF LoopInv, InBatch
  <1>4. watched'[LSFD] = NULL /\ \A c \in Conn : watched'[c] = watched[c]
    BY <1>1, LoopAssumption DEF LoopInv, TypeOK, ThreadTypeOK, Fd
  <1>5. TypeOK'
    BY <1>1 DEF LoopInv, TypeOK, ThreadTypeOK, ioVars, bufVars, clientVars
  <1>6. AcceptInv'
    BY <1>1, <1>3, <1>4
       DEF LoopInv, AcceptInv, Offered, Stopped, Queued, Accepting, OnlyOnce, InBatch,
           Backlog, ioVars
  <1>7. SessionInv'
    BY <1>1, <1>4, LoopAssumption
       DEF LoopInv, TypeOK, ThreadTypeOK, SessionInv, Registered, ioVars, bufVars, Fd
  <1>8. QED
    BY <1>5, <1>6, <1>7 DEF LoopInv

\* A header that a payload has overwritten stops the thread that uses it.
LEMMA DispatchPayloadInv ==
  ASSUME LoopInv, DispatchPayload, UNCHANGED <<pending, lossy>>
  PROVE  LoopInv'
  <1>1. /\ main = "dispatch" /\ main' = "undefined"
        /\ UNCHANGED <<batch, quit_flg, ioVars, bufVars, watched, conn, nonblock, clientVars>>
    BY DEF DispatchPayload
  <1>2. TypeOK'
    BY <1>1 DEF LoopInv, TypeOK, ThreadTypeOK, ioVars, bufVars, clientVars
  <1>3. AcceptInv'
    BY <1>1 DEF LoopInv, AcceptInv, Offered, Stopped, Queued, Accepting, OnlyOnce, InBatch,
                Backlog, ioVars
  <1>4. SessionInv'
    BY <1>1 DEF LoopInv, SessionInv, Registered, ioVars, bufVars
  <1>5. QED
    BY <1>2, <1>3, <1>4 DEF LoopInv

\* An empty batch holds no listen node.
LEMMA EndOfBatchInv ==
  ASSUME LoopInv, EndOfBatch, UNCHANGED <<pending, lossy>>
  PROVE  LoopInv'
  <1>1. /\ main = "dispatch" /\ main' \in {"exited", "net_wait"}
        /\ UNCHANGED <<batch, quit_flg, ioVars, bufVars, watched, conn, nonblock, clientVars>>
    BY DEF EndOfBatch
  <1>2. TypeOK'
    BY <1>1 DEF LoopInv, TypeOK, ThreadTypeOK, ioVars, bufVars, clientVars
  <1>3. AcceptInv'
    BY <1>1 DEF LoopInv, AcceptInv, Offered, Stopped, Queued, Accepting, OnlyOnce, InBatch,
                Backlog, ioVars
  <1>4. SessionInv'
    BY <1>1 DEF LoopInv, SessionInv, Registered, ioVars, bufVars
  <1>5. QED
    BY <1>2, <1>3, <1>4 DEF LoopInv

\* accept takes the connection that was waiting; its node is not in use.
LEMMA SockAcceptInv ==
  ASSUME LoopInv, SockAccept, UNCHANGED <<pending, lossy>>
  PROVE  LoopInv'
  <1>1. /\ io = "sock_accept" /\ io' = "rearm"
        /\ UNCHANGED <<mainVars, accept, watched, nonblock, clientVars>>
    BY DEF SockAccept, IoAt
  <1>2. PICK n \in buf_new, s \in Conn \cup {BadSession} :
          /\ \/ s \in Backlog /\ conn' = [conn EXCEPT ![s] = "open"]
             \/ UNCHANGED conn
          /\ makenode' = n
          /\ node' = [node EXCEPT ![n] = [session |-> s, data_type |-> "SOCK_READ"]]
          /\ pool' = pool \ {n}
          /\ later' = [m \in Node |-> IF m = n THEN {} ELSE later[m] \cup {n}]
    BY DEF SockAccept
  <1>3. n \in Node /\ \A fd \in Fd : watched[fd] # n
    BY <1>2 DEF buf_new
  <1>4. /\ node'[n].session = s /\ node'[n].data_type = "SOCK_READ"
        /\ \A k \in Node \ {n} : node'[k] = node[k]
    BY <1>2, <1>3 DEF LoopInv, TypeOK, ThreadTypeOK
  <1>5. \A k : Registered(k) => Registered(k)' /\ k # n
    BY <1>1, <1>3 DEF Registered, Fd
  <1>6. TypeOK'
    <2>1. node' \in [Node -> [session : Conn \cup {BadSession},
                              data_type : {"garbage", "SOCK_READ", "payload"}]]
      BY <1>2, <1>3 DEF LoopInv, TypeOK, ThreadTypeOK
    <2>2. conn' \in [Conn -> {"idle", "backlog", "open"}]
      BY <1>2 DEF LoopInv, TypeOK, ThreadTypeOK, Backlog
    <2>3. later' \in [Node -> SUBSET Node]
      BY <1>2, <1>3 DEF LoopInv, TypeOK, ThreadTypeOK
    <2>4. QED
      BY <1>1, <1>2, <1>3, <2>1, <2>2, <2>3
         DEF LoopInv, TypeOK, ThreadTypeOK, mainVars, clientVars
  <1>7. AcceptInv'
    BY <1>1 DEF LoopInv, AcceptInv, Offered, Stopped, Queued, Accepting, OnlyOnce, InBatch,
                mainVars
  <1>8. SessionInv'
    <2>1. \A c \in Conn : watched[c] # NULL => watched[c] # n /\ node'[watched[c]] = node[watched[c]]
      BY <1>3, <1>4 DEF LoopInv, SessionInv, Fd
    <2>2. QED
      BY <1>1, <1>2, <1>3, <1>4, <1>5, <2>1
         DEF LoopInv, SessionInv, mainVars
  <1>9. QED
    BY <1>6, <1>7, <1>8 DEF LoopInv

\* Putting the listening socket back ends the accept.
LEMMA RearmInv ==
  ASSUME LoopInv, Rearm, UNCHANGED <<pending, lossy>>
  PROVE  LoopInv'
  <1>1. /\ io = "rearm" /\ io' = "nonblock" /\ accept = listennode
        /\ watched[LSFD] = NULL /\ LSFD \in Fd
        /\ watched' = [watched EXCEPT ![LSFD] = listennode]
        /\ UNCHANGED <<mainVars, accept, makenode, bufVars, conn, nonblock, clientVars>>
    BY DEF LoopInv, AcceptInv, Accepting, Offered, Rearm, IoAt, net_add, Fd
  <1>2. watched'[LSFD] = listennode /\ \A c \in Conn : watched'[c] = watched[c]
    BY <1>1, LoopAssumption DEF LoopInv, TypeOK, ThreadTypeOK, Fd
  <1>3. TypeOK'
    BY <1>1 DEF LoopInv, TypeOK, ThreadTypeOK, mainVars, bufVars, clientVars, AnyNode
  <1>4. AcceptInv'
    BY <1>1, <1>2, LoopAssumption
       DEF LoopInv, AcceptInv, Offered, Stopped, Queued, Accepting, OnlyOnce, InBatch,
           Backlog, mainVars
  <1>5. SessionInv'
    BY <1>1, <1>2, LoopAssumption
       DEF LoopInv, SessionInv, Registered, mainVars, bufVars, Fd
  <1>6. QED
    BY <1>3, <1>4, <1>5 DEF LoopInv

\* The new session is made non-blocking before it is registered.
LEMMA SetNonblockInv ==
  ASSUME LoopInv, SetNonblock, UNCHANGED <<pending, lossy>>
  PROVE  LoopInv'
  <1>1. /\ io = "nonblock" /\ io' = "register"
        /\ nonblock' = nonblock \cup ({node[makenode].session} \cap Conn)
        /\ UNCHANGED <<mainVars, accept, makenode, bufVars, watched, conn, clientVars>>
    BY DEF SetNonblock, IoAt
  <1>2. TypeOK'
    BY <1>1 DEF LoopInv, TypeOK, ThreadTypeOK, mainVars, bufVars, clientVars
  <1>3. AcceptInv'
    BY <1>1 DEF LoopInv, AcceptInv, Offered, Stopped, Queued, Accepting, OnlyOnce, InBatch,
                Backlog, mainVars
  <1>4. SessionInv'
    <2>1. makenode \in Node /\ node[makenode].session \in Conn \cup {BadSession}
      BY <1>1 DEF LoopInv, SessionInv, TypeOK, ThreadTypeOK
    <2>2. node[makenode].session \in nonblock' \cup {BadSession} /\ nonblock \subseteq nonblock'
      BY <1>1, <2>1
    <2>3. QED
      BY <1>1, <2>2 DEF LoopInv, SessionInv, Registered, mainVars, bufVars
  <1>5. QED
    BY <1>2, <1>3, <1>4 DEF LoopInv

\* The node made for the session is registered for it, non-blocking already.
LEMMA RegisterInv ==
  ASSUME LoopInv, Register, UNCHANGED <<pending, lossy>>
  PROVE  LoopInv'
  <1> DEFINE s == node[makenode].session
  <1>1. /\ io = "register" /\ io' = "pop" /\ makenode' = NULL
        /\ net_add(s, makenode)
        /\ UNCHANGED <<mainVars, accept, bufVars, conn, nonblock, clientVars>>
    BY DEF Register, IoAt
  <1>2. /\ makenode \in Node /\ \A fd \in Fd : watched[fd] # makenode
        /\ node[makenode].data_type = "SOCK_READ"
        /\ s \in nonblock \cup {BadSession} /\ s \in Conn \cup {BadSession}
    BY <1>1 DEF LoopInv, SessionInv, TypeOK, ThreadTypeOK
  <1>3. watched'[LSFD] = watched[LSFD]
    BY <1>1, <1>2, LoopAssumption DEF net_add, Fd
  <1>4. \A c \in Conn : \/ watched'[c] = watched[c]
                        \/ c = s /\ watched[c] = NULL /\ watched'[c] = makenode
    BY <1>1, <1>2, LoopAssumption DEF net_add, Fd, LoopInv, TypeOK, ThreadTypeOK
  <1>5. \A k : Registered(k) => Registered(k)'
    BY <1>1, <1>4, LoopAssumption DEF Registered, bufVars
  <1>6. TypeOK'
    <2>1. watched' \in [Fd -> AnyNode \cup {NULL}]
      BY <1>1, <1>2 DEF net_add, LoopInv, TypeOK, ThreadTypeOK, AnyNode
    <2>2. QED
      BY <1>1, <2>1 DEF LoopInv, TypeOK, ThreadTypeOK, mainVars, bufVars, clientVars
  <1>7. AcceptInv'
    BY <1>1, <1>3 DEF LoopInv, AcceptInv, Offered, Stopped, Queued, Accepting, OnlyOnce,
                      InBatch, Backlog, mainVars
  <1>8. SessionInv'
    <2>1. \A c \in Conn : watched'[c] # NULL =>
            watched'[c] \in Node /\ node[watched'[c]] \in Headers(c) /\ c \in nonblock
      <3>1. node[makenode] = [session |-> s, data_type |-> "SOCK_READ"]
        BY <1>2 DEF LoopInv, TypeOK, ThreadTypeOK
      <3>2. QED
        BY <1>2, <1>4, <3>1, LoopAssumption DEF LoopInv, SessionInv, Headers
    <2>2. QED
      BY <1>1, <1>5, <2>1 DEF LoopInv, SessionInv, mainVars, bufVars
  <1>9. QED
    BY <1>6, <1>7, <1>8 DEF LoopInv

\* A read consumes data and may release its node, which stays registered.
LEMMA ReadInv ==
  ASSUME LoopInv, io_read, UNCHANGED <<pending, lossy>>
  PROVE  LoopInv'
  <1> DEFINE c == node[accept].session
  <1>1. /\ io = "read" /\ io' = "pop"
        /\ unread' = [unread EXCEPT ![c] = @ - read_count(c)]
        /\ pool' \in {pool, pool \cup {accept}}
        /\ UNCHANGED <<mainVars, accept, makenode, later, watched, conn, nonblock, eof>>
    BY DEF io_read, IoAt
  <1>2. PICK hit : node' = [n \in Node |-> IF n \in hit THEN Overwritten ELSE node[n]]
    BY DEF io_read
  <1>3. \A n \in Node : node'[n] \in {node[n], Overwritten}
    BY <1>2
  <1>4. accept \in Node /\ c \in Conn /\ unread[c] \in 0 .. RCVBUF
    <2>1. Registered(accept) /\ node[accept] # Overwritten
      BY <1>1 DEF LoopInv, SessionInv
    <2>2. QED
      BY <2>1, HeaderStands DEF LoopInv, TypeOK, ThreadTypeOK
  <1>5. TypeOK'
    <2>1. unread[c] - read_count(c) \in 0 .. RCVBUF
      BY <1>4, LoopAssumption DEF read_count
    <2>2. unread' \in [Conn -> 0 .. RCVBUF] /\ pool' \in SUBSET Node
      BY <1>1, <1>4, <2>1 DEF LoopInv, TypeOK, ThreadTypeOK
    <2>3. node' \in [Node -> [session : Conn \cup {BadSession},
                              data_type : {"garbage", "SOCK_READ", "payload"}]]
      BY <1>2 DEF LoopInv, TypeOK, ThreadTypeOK, Overwritten
    <2>4. QED
      BY <1>1, <2>2, <2>3 DEF LoopInv, TypeOK, ThreadTypeOK, mainVars
  <1>6. AcceptInv'
    BY <1>1 DEF LoopInv, AcceptInv, Offered, Stopped, Queued, Accepting, OnlyOnce, InBatch,
                Backlog, mainVars
  <1>7. SessionInv'
    <2>1. \A d \in Conn : watched[d] # NULL =>
            watched[d] \in Node /\ node'[watched[d]] \in Headers(d) /\ d \in nonblock
      BY <1>3 DEF LoopInv, SessionInv, Headers
    <2>2. QED
      BY <1>1, <2>1 DEF LoopInv, SessionInv, Registered, mainVars
  <1>8. QED
    BY <1>5, <1>6, <1>7 DEF LoopInv

\* Clients add to the backlog and to what is unread, and no more.
LEMMA ClientInv ==
  ASSUME LoopInv, Client, UNCHANGED <<pending, lossy>>
  PROVE  LoopInv'
  <1>1. /\ UNCHANGED <<mainVars, ioVars, bufVars, watched, nonblock>>
        /\ Backlog \subseteq Backlog'
        /\ conn' \in [Conn -> {"idle", "backlog", "open"}]
        /\ unread' \in [Conn -> 0 .. RCVBUF] /\ eof' \in [Conn -> BOOLEAN]
    <2> USE DEF LoopInv, TypeOK, ThreadTypeOK, Backlog, clientVars
    <2>1. ASSUME NEW c \in Conn, Connect(c) PROVE <1>1!:
      BY <2>1 DEF Connect
    <2>2. ASSUME NEW c \in Conn, Send(c) PROVE <1>1!:
      BY <2>2, LoopAssumption DEF Send
    <2>3. ASSUME NEW c \in Conn, Shutdown(c) PROVE <1>1!:
      BY <2>3 DEF Shutdown
    <2>4. QED
      BY <2>1, <2>2, <2>3 DEF Client
  <1>2. TypeOK'
    BY <1>1 DEF LoopInv, TypeOK, ThreadTypeOK, mainVars, ioVars, bufVars
  <1>3. AcceptInv'
    BY <1>1 DEF LoopInv, AcceptInv, Offered, Stopped, Queued, Accepting, OnlyOnce, InBatch,
                mainVars, ioVars
  <1>4. SessionInv'
    BY <1>1 DEF LoopInv, SessionInv, Registered, mainVars, ioVars, bufVars
  <1>5. QED
    BY <1>2, <1>3, <1>4 DEF LoopInv

-----------------------------------------------------------------------------
(* The steps on msg_q_. *)

\* A pushed listen node is the only one; a pushed session is registered.
LEMMA PushInv ==
  ASSUME LoopInv, Push
  PROVE  LoopInv'
  <1>1. PICK n \in AnyNode : main_push(n) /\ MsgQ!Put(n) /\ MsgQ!LossyStep
    BY DEF Push
  <1>2. /\ batch # <<>> /\ n = Head(batch) /\ batch' = Tail(batch)
        /\ main' = "dispatch"
        /\ main = "push" \/ (main = "dispatch" /\ data_type(n) # "SOCK_ACCEPT")
        /\ UNCHANGED <<quit_flg, ioVars, bufVars, watched, conn, nonblock, clientVars>>
    BY <1>1 DEF main_push
  <1>3. /\ n = batch[1] /\ 1 \in DOMAIN batch /\ batch' \in Seq(AnyNode)
        /\ \A i \in DOMAIN batch' : /\ i + 1 \in DOMAIN batch /\ i + 1 # 1
                                    /\ batch'[i] = batch[i + 1]
        /\ \A i, j \in DOMAIN batch' : i + 1 = j + 1 => i = j
    <2>1. batch \in Seq(AnyNode)
      BY DEF LoopInv, TypeOK, ThreadTypeOK
    <2>2. QED
      BY <1>2, <2>1
  <1>4. n = listennode <=> main = "push"
    BY <1>2, DataType DEF LoopInv, AcceptInv, Stopped
  <1>5. /\ pending' \in Seq(AnyNode) /\ lossy' \in BOOLEAN
        /\ \A i \in DOMAIN pending' :
             pending'[i] = n \/ \E j \in DOMAIN pending : pending'[i] = pending[j]
        /\ OnlyOnce(pending) /\ (n = listennode => ~Queued) => OnlyOnce(pending')
        /\ ~lossy' => \E i \in DOMAIN pending' : pending'[i] = n
        /\ ~lossy' /\ Queued => \E i \in DOMAIN pending' : pending'[i] = listennode
        /\ ~lossy' => ~lossy
    BY <1>1, PushPending DEF LoopInv
  <1>6. TypeOK'
    BY <1>2, <1>3, <1>5 DEF LoopInv, TypeOK, ThreadTypeOK, ioVars, bufVars, clientVars
  <1>7. AcceptInv'
    <2>1. OnlyOnce(batch') /\ OnlyOnce(pending')
      <3>1. OnlyOnce(batch')
        BY <1>3 DEF LoopInv, AcceptInv, OnlyOnce
      <3>2. OnlyOnce(pending')
        BY <1>4, <1>5 DEF LoopInv, AcceptInv, Stopped
      <3>3. QED
        BY <3>1, <3>2
    <2>2. CASE n = listennode
      <3>1. main = "push" /\ ~Offered /\ ~Queued /\ ~Accepting /\ Backlog # {}
        BY <1>4, <2>2 DEF LoopInv, AcceptInv, Stopped
      <3>2. ~InBatch'
        <4>1. \A i \in DOMAIN batch' : batch'[i] # listennode
          BY <1>3, <2>2 DEF LoopInv, AcceptInv, OnlyOnce
        <4>2. QED
          BY <4>1 DEF InBatch
      <3>3. ~lossy' => Queued'
        BY <1>5, <2>2 DEF Queued
      <3>4. QED
        BY <1>2, <2>1, <3>1, <3>2, <3>3
           DEF LoopInv, AcceptInv, Offered, Stopped, Accepting, Backlog, OnlyOnce, ioVars
    <2>3. CASE n # listennode
      <3>1. main = "dispatch" /\ ~Stopped /\ ~Stopped'
        BY <1>2, <1>4, <2>3 DEF Stopped
      <3>2. InBatch' => InBatch
        BY <1>2, <1>3, <3>1 DEF InBatch
      <3>3. Queued' => Queued
        BY <1>5, <2>3 DEF Queued
      <3>4. ~lossy' /\ Queued => Queued'
        BY <1>5 DEF Queued
      <3>5. QED
        BY <1>2, <1>5, <2>1, <3>1, <3>2, <3>3, <3>4
           DEF LoopInv, AcceptInv, Offered, Accepting, Backlog, OnlyOnce, ioVars
    <2>4. QED
      BY <2>2, <2>3
  <1>8. SessionInv'
    <2>1. \A k : Registered(k) => Registered(k)'
      BY <1>2 DEF Registered, bufVars
    <2>2. \A i \in DOMAIN pending' : pending'[i] # listennode => Registered(pending'[i])
      BY <1>3, <1>5 DEF LoopInv, SessionInv
    <2>3. \A i \in DOMAIN batch' : batch'[i] # listennode => Registered(batch'[i])
      BY <1>3 DEF LoopInv, SessionInv
    <2>4. QED
      BY <1>2, <2>1, <2>2, <2>3 DEF LoopInv, SessionInv, ioVars, bufVars
  <1>9. QED
    BY <1>6, <1>7, <1>8 DEF LoopInv

\* Popping the listen node leaves none in msg_q_ and starts the accept.
LEMMA PopInv ==
  ASSUME LoopInv, Pop
  PROVE  LoopInv'
  <1>1. PICK m \in AnyNode \cup {NULL} : io_pop(m) /\ MsgQ!TakeResult(m) /\ MsgQ!LossyStep
    BY DEF Pop
  <1>2. /\ io = "pop" /\ accept' = m
        /\ io' = IF m = NULL THEN "pop"
                 ELSE CASE data_type(m) = "SOCK_ACCEPT" -> "sock_accept"
                        [] data_type(m) = "payload" -> "undefined"
                        [] OTHER -> "read"
        /\ UNCHANGED <<mainVars, makenode, bufVars, watched, conn, nonblock, clientVars>>
    BY <1>1 DEF io_pop, IoAt
  <1>3. /\ m = NULL => io' = "pop"
        /\ m = listennode => io' = "sock_accept"
        /\ m # NULL /\ m # listennode => io' \in {"read", "undefined"}
        /\ io' = "read" => m # NULL /\ m # listennode /\ data_type(m) # "payload"
    BY <1>1, <1>2, DataType, LoopAssumption DEF LoopInv
  <1>4. /\ pending' \in Seq(AnyNode) /\ lossy' \in BOOLEAN
        /\ \A i \in DOMAIN pending' : \E j \in DOMAIN pending : pending'[i] = pending[j]
        /\ OnlyOnce(pending) => OnlyOnce(pending')
        /\ m # NULL => \E j \in DOMAIN pending : m = pending[j]
        /\ OnlyOnce(pending) /\ m = listennode =>
             \A i \in DOMAIN pending' : pending'[i] # listennode
        /\ ~lossy' /\ Queued /\ m # listennode =>
             \E i \in DOMAIN pending' : pending'[i] = listennode
        /\ ~lossy' => ~lossy
    BY <1>1, PopPending DEF LoopInv
  <1>5. main # "setup"
    BY <1>2 DEF LoopInv, AcceptInv
  <1>6. TypeOK'
    BY <1>1, <1>2, <1>3, <1>4, LoopAssumption
       DEF LoopInv, TypeOK, ThreadTypeOK, mainVars, bufVars, clientVars
  <1>7. AcceptInv'
    <2>1. OnlyOnce(pending') /\ OnlyOnce(batch')
      BY <1>2, <1>4 DEF LoopInv, AcceptInv, mainVars
    <2>2. CASE m = listennode
      <3>1. Queued /\ ~Queued'
        BY <1>4, <2>2, LoopAssumption DEF LoopInv, AcceptInv, Queued
      <3>2. io' = "sock_accept"
        BY <1>3, <2>2
      <3>3. QED
        BY <1>2, <1>5, <2>1, <2>2, <3>1, <3>2
           DEF LoopInv, AcceptInv, Offered, Stopped, Accepting, InBatch, Backlog, OnlyOnce,
               mainVars
    <2>3. CASE m # listennode
      <3>1. io' \in {"pop", "read", "undefined"}
        BY <1>3, <2>3
      <3>2. Queued' => Queued
        BY <1>4 DEF Queued
      <3>3. ~lossy' /\ Queued => Queued'
        BY <1>4, <2>3 DEF Queued
      <3>4. QED
        BY <1>2, <1>4, <1>5, <2>1, <3>1, <3>2, <3>3
           DEF LoopInv, AcceptInv, Offered, Stopped, Accepting, InBatch, Backlog, OnlyOnce,
               mainVars
    <2>4. QED
      BY <2>2, <2>3
  <1>8. SessionInv'
    <2>1. \A k : Registered(k) => Registered(k)'
      BY <1>2 DEF Registered, bufVars
    <2>2. \A i \in DOMAIN pending' : pending'[i] # listennode => Registered(pending'[i])
      BY <1>4 DEF LoopInv, SessionInv
    <2>3. io' = "read" => Registered(m) /\ node[m] # Overwritten
      <3>1. io' = "read" => Registered(m)
        BY <1>3, <1>4 DEF LoopInv, SessionInv
      <3>2. io' = "read" => data_type(m) = node[m].data_type
        BY <1>3 DEF data_type
      <3>3. QED
        BY <1>3, <3>1, <3>2 DEF Overwritten
    <2>4. io' \in {"pop", "sock_accept", "read", "undefined"}
      BY <1>1, <1>3
    <2>5. QED
      BY <1>2, <2>1, <2>2, <2>3, <2>4 DEF LoopInv, SessionInv, mainVars, bufVars
  <1>9. QED
    BY <1>6, <1>7, <1>8 DEF LoopInv

LEMMA LoopNextInv == LoopInv /\ [LoopNext]_vars => LoopInv'
  <1> SUFFICES ASSUME LoopInv, [LoopNext]_vars PROVE LoopInv'
    OBVIOUS
  <1>1. CASE Main
    BY <1>1, PushInv, SetupInv, NetWaitInv, StopListeningInv, DispatchPayloadInv,
       EndOfBatchInv
       DEF Main, MainStep
  <1>2. CASE Io
    BY <1>2, PopInv, SockAcceptInv, RearmInv, SetNonblockInv, RegisterInv, ReadInv
       DEF Io, IoStep
  <1>3. CASE Client /\ UNCHANGED <<pending, lossy>>
    BY <1>3, ClientInv
  <1>4. CASE UNCHANGED vars
    <2>1. UNCHANGED <<main, batch, quit_flg, io, accept, makenode, node, pool, later, watched,
                      conn, nonblock, unread, eof, pending, lossy>>
      BY <1>4 DEF vars, threadVars, mainVars, ioVars, bufVars, clientVars
    <2>2. TypeOK' /\ SessionInv'
      BY <2>1 DEF LoopInv, TypeOK, ThreadTypeOK, SessionInv, Registered
    <2>3. AcceptInv'
      BY <2>1 DEF LoopInv, AcceptInv, Offered, Stopped, Queued, Accepting, OnlyOnce,
                  InBatch, Backlog
    <2>4. QED
      BY <2>2, <2>3 DEF LoopInv
  <1>5. QED
    BY <1>1, <1>2, <1>3, <1>4 DEF LoopNext

LEMMA LoopInvariant == LoopSpec => []LoopInv
  BY LoopInitInv, LoopNextInv, PTL DEF LoopSpec

-----------------------------------------------------------------------------

\* Both threads' locals, the nodes, msg_q_ and the kernel's tables keep their
\* types.
THEOREM LoopTypeCorrect == LoopSpec => []TypeOK
  <1>1. LoopInv => TypeOK
    BY DEF LoopInv
  <1>2. QED
    BY <1>1, LoopInvariant, PTL

\* At most one accept is on its way between main_thread_loop and io_accept,
\* and exactly one while msg_q_ loses nothing.
THEOREM OneAcceptInFlight == LoopSpec => []AcceptSingleFlight
  <1>1. LoopInv => AcceptSingleFlight
    <2> SUFFICES ASSUME LoopInv PROVE AcceptSingleFlight
      OBVIOUS
    <2> DEFINE at == {i \in DOMAIN pending : pending[i] = listennode}
    <2>1. CASE Queued
      <3>1. PICK i \in DOMAIN pending : pending[i] = listennode
        BY <2>1 DEF Queued
      <3>2. at = {i}
        BY <3>1 DEF LoopInv, AcceptInv, OnlyOnce
      <3>3. Cardinality(at) = 1
        BY <3>2, FS_Singleton
      <3>4. QED
        BY <2>1, <3>3
           DEF LoopInv, AcceptInv, AcceptSingleFlight, Places, Offered, Stopped, Accepting,
               InBatch
    <2>2. CASE ~Queued
      <3>1. at = {}
        BY <2>2 DEF Queued
      <3>2. Cardinality(at) = 0
        BY <3>1, FS_EmptySet
      <3>3. QED
        BY <2>2, <3>2
           DEF LoopInv, AcceptInv, AcceptSingleFlight, Places, Offered, Stopped, Accepting,
               InBatch
    <2>3. QED
      BY <2>1, <2>2
  <1>2. QED
    BY <1>1, LoopInvariant, PTL

\* io_accept finds its connection waiting and io_read a descriptor that does
\* not block, however often and however late a session is reported.
THEOREM IoThreadNeverBlocks == LoopSpec => []IoNeverBlocks
  <1>1. LoopInv => IoNeverBlocks
    <2>1. LoopInv /\ io = "sock_accept" => Backlog # {}
      BY DEF LoopInv, AcceptInv
    <2>2. LoopInv /\ io = "read" => node[accept].session \in nonblock
      <3>1. LoopInv /\ io = "read" => Registered(accept) /\ node[accept] # Overwritten
        BY DEF LoopInv, SessionInv
      <3>2. QED
        BY <3>1, HeaderStands
    <2>3. QED
      BY <2>1, <2>2 DEF IoNeverBlocks
  <1>2. QED
    BY <1>1, LoopInvariant, PTL

\* Every node that epoll holds for a session is that session's, every node in
\* msg_q_ is registered for its session, and io_read reads into the node of
\* the session it reads, although io_read releases nodes that are still in use
\* and reads payloads over the headers of others.
THEOREM NodesMatchSessions == LoopSpec => []NodeMatchesSession
  <1>1. LoopInv => NodeMatchesSession
    <2> SUFFICES ASSUME LoopInv PROVE NodeMatchesSession
      OBVIOUS
    <2>1. \A n : Registered(n) /\ node[n] # Overwritten => watched[node[n].session] = n
      BY HeaderStands
    <2>2. QED
      BY <2>1 DEF LoopInv, SessionInv, Headers, NodeMatchesSession
  <1>2. QED
    BY <1>1, LoopInvariant, PTL

=============================================================================
