----------------------------- MODULE EventLoop ------------------------------
(***************************************************************************)
(* The event loop of src/src/loop.c: the threads of LoopThreads with a     *)
(* msg_q_ of which only the promises of LossyFifo are assumed.             *)
(***************************************************************************)
EXTENDS LoopThreads

CONSTANT QLEN    \* how many nodes msg_q_ may hold (bound; unlimited in the code)

ASSUME QlenAssumption == QLEN \in Nat \ {0}

VARIABLES
  pending,   \* the nodes in msg_q_ that a pop can still return
  lossy      \* msg_q_ may lose nodes from now on

MsgQ == INSTANCE LossyFifo WITH Message <- AnyNode, None <- NULL, result <- accept

vars == <<threadVars, pending, lossy>>

LoopInit == Init /\ pending = <<>> /\ lossy = FALSE

Push ==
  /\ Len(pending) < QLEN
  /\ \E n \in AnyNode : main_push(n) /\ MsgQ!Put(n)
  /\ MsgQ!LossyStep

Pop ==
  /\ \E m \in AnyNode \cup {NULL} : io_pop(m) /\ MsgQ!TakeResult(m)
  /\ MsgQ!LossyStep

Main == Push \/ (MainStep /\ UNCHANGED <<pending, lossy>>)
Io == Pop \/ (IoStep /\ UNCHANGED <<pending, lossy>>)

LoopNext == Main \/ Io \/ (Client /\ UNCHANGED <<pending, lossy>>)

LoopSpec == LoopInit /\ [][LoopNext]_vars

\* epoll reports fd.
Report(fd) ==
  net_wait /\ UNCHANGED <<pending, lossy>> /\ \E i \in DOMAIN batch' : batch'[i] = watched[fd]

\* Both threads keep running: neither holds a lock across a blocking call and
\* the scheduler is fair.  When more descriptors are ready than a batch has
\* places, epoll_wait goes round robin through them (epoll_wait(2)), so that
\* one that is ready again and again is reported in the end.  Clients do what
\* they like, and fairness never obliges the queue to become lossy.
FairLoopSpec ==
  /\ LoopSpec
  /\ WF_vars(Main /\ lossy' = lossy)
  /\ WF_vars(Io /\ lossy' = lossy)
  /\ \A fd \in Fd : SF_vars(Report(fd))

-----------------------------------------------------------------------------

TypeOK ==
  /\ ThreadTypeOK
  /\ pending \in Seq(AnyNode)
  /\ lossy \in BOOLEAN

\* Where an accept can be: on offer in epoll, between net_del and the push,
\* in msg_q_, or being carried out by io_accept before it re-arms.
Places ==
  (IF watched[LSFD] # NULL THEN 1 ELSE 0)
  + (IF main = "push" THEN 1 ELSE 0)
  + Cardinality({i \in DOMAIN pending : pending[i] = listennode})
  + (IF io \in {"sock_accept", "rearm"} THEN 1 ELSE 0)

\* The hand-over of the listening socket between the two threads (net_del,
\* push, pop, accept, net_add): there is never more than one accept on its
\* way, so io_accept is never entered twice for one event; and as long as
\* msg_q_ loses nothing, the accept is never forgotten either.
AcceptSingleFlight ==
  /\ Places <= 1
  /\ ~lossy /\ main # "setup" => Places = 1
  /\ \A i \in DOMAIN batch : batch[i] = listennode /\ main = "dispatch" =>
       watched[LSFD] = listennode

\* The io thread serves every session, so it must not block for one: accept
\* is called only when a connection is waiting or it fails at once, and read
\* only on a descriptor that has something to say or does not block.  The
\* same node may be queued many times before it is read (level-triggered
\* epoll), so later reads do find nothing.
IoNeverBlocks ==
  /\ io = "sock_accept" => Backlog # {} \/ Cardinality(Open) >= FD_LIMIT
  /\ io = "read" =>
       LET c == node[accept].session
       IN unread[c] > 0 \/ eof[c] \/ c \in nonblock

\* epoll reports every session with that session's own node, and io_read is
\* never given another session's, whatever buf_reverse releases, for as long
\* as the node's header stands.  The payload of an earlier node may be read
\* over it (loop.c:36, buffer.c:81); the pointer that epoll keeps is still
\* that of the session's node then, but what it points to is a client's data.
NodeMatchesSession ==
  /\ \A c \in Conn : watched[c] # NULL =>
       /\ watched[c] \in Node
       /\ node[watched[c]] \in {[session |-> c, data_type |-> "SOCK_READ"], Overwritten}
  /\ \A i \in DOMAIN pending :
       pending[i] # listennode /\ node[pending[i]] # Overwritten =>
         watched[node[pending[i]].session] = pending[i]
  /\ io = "read" => watched[node[accept].session] = accept

\* What ends the program's defined course: quit_flg, or a header that a
\* payload was read over and that a thread then used.
Ended == main \in {"exited", "undefined"} \/ io = "undefined"

\* A waiting connection is accepted, unless msg_q_ has become lossy, the
\* process is out of descriptors or its defined course has ended; sessions
\* that have been shut down, reported for ever, do not keep it out.
AcceptsWaiting ==
  \A c \in Conn :
    conn[c] = "backlog" ~>
      conn[c] = "open" \/ lossy \/ Cardinality(Open) >= FD_LIMIT \/ Ended

Reading(c) == io = "read" /\ node[accept].session = c

\* Data that arrives on an accepted session is read, unless msg_q_ has become
\* lossy or the program's defined course has ended: sessions that have been
\* shut down, and stay ready for ever, do not starve the others although they
\* compete with them for the places of a batch.
ReadsInput ==
  \A c \in Conn :
    conn[c] = "open" /\ unread[c] > 0 ~> Reading(c) \/ lossy \/ Ended

=============================================================================
