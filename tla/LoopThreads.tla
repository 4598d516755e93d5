---------------------------- MODULE LoopThreads -----------------------------
(***************************************************************************)
(* The two threads of src/src/loop.c and the kernel they talk to.          *)
(*                                                                         *)
(* The main thread (main_thread_loop) waits on epoll and hands the nodes   *)
(* of the ready descriptors to the io thread through msg_q_; the io thread *)
(* (io_thread_loop) accepts connections and reads sessions.  While an      *)
(* accept is under way the listening socket is out of epoll: main removes  *)
(* it before it pushes the listen node, io_accept puts it back.            *)
(*                                                                         *)
(* This module says what each step does to the threads, to the nodes and   *)
(* to the kernel.  The steps that use msg_q_ take the node as a parameter; *)
(* EventLoop composes them with LossyFifo, EventLoopOnQueue with MsgQueue. *)
(*                                                                         *)
(* Left out: listen_data->link_count, which is only ever incremented, and  *)
(* reacceptnode, which is never queued.  A connection stands also for the  *)
(* descriptor that accept returns for it: no session is ever closed, so no *)
(* descriptor number is used twice.                                        *)
(*                                                                         *)
(* A node's payload lies behind the node (buffer.c:81), on the room of     *)
(* nodes made later, so read may write over the header of one of them.     *)
(* Which one depends on the sizes of all that was made in between          *)
(* (BufferPool has the addresses; ten nodes of the size of a session's);   *)
(* here it may be any later one, or none.  What the program does with a    *)
(* header that is a client's data is not followed: the thread that uses it *)
(* is `undefined` from then on.                                            *)
(***************************************************************************)
EXTENDS Comm, Integers, Sequences, FiniteSets

CONSTANTS
  Conn,         \* the connections that clients may make
  LSFD,         \* the listening socket
  Node,         \* the buffer nodes that buf_new can return
  listennode,   \* the node of the listening socket
  BadSession,   \* -1, the session of a failed accept
  EVENTS,       \* loop.c:127, how many events one net_wait returns at most
  BUF_SIZE,     \* loop.c:5, the payload of a session's node, in units of data
  RCVBUF,       \* what the kernel buffers for a session, in units (bound)
  FD_LIMIT      \* how many sessions the process may have open

ASSUME LoopAssumption ==
  /\ IsFiniteSet(Conn)
  /\ EVENTS \in Nat \ {0} /\ BUF_SIZE \in Nat \ {0}
  /\ RCVBUF \in Nat \ {0} /\ FD_LIMIT \in Nat
  /\ LSFD \notin Conn /\ BadSession \notin Conn \cup {LSFD}
  /\ listennode \notin Node /\ NULL \notin Node \cup {listennode}

VARIABLES
  main,      \* where the main thread is
  batch,     \* tmp[i .. count]: nodes of the current batch not yet pushed
  quit_flg,  \* poll_->quit_flg, never written by the program
  io,        \* where the io thread is
  accept,    \* `accept` of io_thread_loop: the node popped last
  makenode,  \* `makenode` of io_accept
  node,      \* session and data_type stored in each buffer node
  pool,      \* the nodes that buf_release has put on a size queue
  later,     \* for each node, which nodes have been made since it was made
  watched,   \* epoll's interest list: the node registered for a descriptor
  conn,      \* each connection: not made yet, in the backlog, accepted
  nonblock,  \* the descriptors with O_NONBLOCK
  unread,    \* what the kernel holds for each connection
  eof        \* the connections that the client has shut down

mainVars == <<main, batch, quit_flg>>
ioVars == <<io, accept, makenode>>
bufVars == <<node, pool, later>>
clientVars == <<unread, eof>>
threadVars == <<mainVars, ioVars, bufVars, watched, conn, nonblock, clientVars>>

Running == main \notin {"exited", "undefined"}

AnyNode == Node \cup {listennode}

Fd == Conn \cup {LSFD}

Unset == [session |-> BadSession, data_type |-> "garbage"]

\* A header that a payload has been written over.
Overwritten == [session |-> BadSession, data_type |-> "payload"]

Init ==
  /\ main = "setup" /\ batch = <<>>
  /\ quit_flg \in BOOLEAN     \* poll_ is malloc'ed and quit_flg never set
  /\ io = "not_started" /\ accept = NULL /\ makenode = NULL
  /\ node = [n \in Node |-> Unset] /\ pool = {}
  /\ later = [n \in Node |-> {}]
  /\ watched = [fd \in Fd |-> NULL]
  /\ conn = [c \in Conn |-> "idle"]
  /\ nonblock = {}
  /\ unread = [c \in Conn |-> 0]
  /\ eof = [c \in Conn |-> FALSE]

-----------------------------------------------------------------------------
(* The kernel. *)

Backlog == {c \in Conn : conn[c] = "backlog"}
Open == {c \in Conn : conn[c] = "open"}

\* Level-triggered readiness (epoll without EPOLLET).
Readable(fd) ==
  IF fd = LSFD THEN Backlog # {} ELSE unread[fd] > 0 \/ eof[fd]

Ready == {fd \in Fd : watched[fd] # NULL /\ Readable(fd)}

\* The orders in which epoll_wait may report S, at most EVENTS at a time.
Reports(S) ==
  LET size == IF Cardinality(S) < EVENTS THEN Cardinality(S) ELSE EVENTS
  IN {r \in [1 .. size -> S] : \A i, j \in 1 .. size : r[i] = r[j] => i = j}

\* net_add: epoll_ctl refuses a bad descriptor and one already registered.
net_add(fd, n) ==
  watched' = IF fd \in Fd /\ watched[fd] = NULL
             THEN [watched EXCEPT ![fd] = n] ELSE watched

\* listen(fd, 0): one connection may wait to be accepted.
Connect(c) ==
  /\ Running /\ main # "setup"
  /\ conn[c] = "idle" /\ Backlog = {}
  /\ conn' = [conn EXCEPT ![c] = "backlog"]
  /\ UNCHANGED <<mainVars, ioVars, bufVars, watched, nonblock, clientVars>>

Send(c) ==
  /\ Running
  /\ conn[c] # "idle" /\ ~eof[c] /\ unread[c] < RCVBUF
  /\ unread' = [unread EXCEPT ![c] = @ + 1]
  /\ UNCHANGED <<mainVars, ioVars, bufVars, watched, conn, nonblock, eof>>

Shutdown(c) ==
  /\ Running
  /\ conn[c] # "idle" /\ ~eof[c]
  /\ eof' = [eof EXCEPT ![c] = TRUE]
  /\ UNCHANGED <<mainVars, ioVars, bufVars, watched, conn, nonblock, unread>>

Client == \E c \in Conn : Connect(c) \/ Send(c) \/ Shutdown(c)

-----------------------------------------------------------------------------
(* The main thread. *)

\* Up to the loop: register the listening socket, start the io thread, bind
\* and listen.  The io thread finds its queue empty until main waits.
Setup ==
  /\ main = "setup"
  /\ net_add(LSFD, listennode)
  /\ io' = "pop"
  /\ main' = "net_wait"
  /\ UNCHANGED <<batch, quit_flg, accept, makenode, bufVars, conn, nonblock, clientVars>>

net_wait ==
  /\ main = "net_wait"
  /\ Ready # {}
  /\ \E r \in Reports(Ready) : batch' = [i \in DOMAIN r |-> watched[r[i]]]
  /\ main' = "dispatch"
  /\ UNCHANGED <<quit_flg, ioVars, bufVars, watched, conn, nonblock, clientVars>>

data_type(n) == IF n = listennode THEN "SOCK_ACCEPT" ELSE node[n].data_type

\* Mutant of StopListening: no net_del.
StopListeningNot ==
  /\ main = "dispatch" /\ batch # <<>>
  /\ data_type(Head(batch)) = "SOCK_ACCEPT"
  /\ main' = "push"
  /\ UNCHANGED <<batch, quit_flg, ioVars, bufVars, watched, conn, nonblock, clientVars>>

\* net_del, before the listen node is pushed.
StopListening ==
  /\ main = "dispatch" /\ batch # <<>>
  /\ data_type(Head(batch)) = "SOCK_ACCEPT"
  /\ watched' = [watched EXCEPT ![LSFD] = NULL]
  /\ main' = "push"
  /\ UNCHANGED <<batch, quit_flg, ioVars, bufVars, conn, nonblock, clientVars>>

\* lock_queue_push(io->msg_q_, n), as the main thread sees it.
main_push(n) ==
  /\ batch # <<>> /\ n = Head(batch)
  /\ \/ main = "push"
     \/ main = "dispatch" /\ data_type(n) \notin {"SOCK_ACCEPT", "payload"}
  /\ batch' = Tail(batch)
  /\ main' = "dispatch"
  /\ UNCHANGED <<quit_flg, ioVars, bufVars, watched, conn, nonblock, clientVars>>

\* tmp[i]->data_type is whatever a client has sent.
DispatchPayload ==
  /\ main = "dispatch" /\ batch # <<>>
  /\ data_type(Head(batch)) = "payload"
  /\ main' = "undefined"
  /\ UNCHANGED <<batch, quit_flg, ioVars, bufVars, watched, conn, nonblock, clientVars>>

\* The batch is done: leave the loop, and with it the process, if quit_flg.
EndOfBatch ==
  /\ main = "dispatch" /\ batch = <<>>
  /\ main' = IF quit_flg THEN "exited" ELSE "net_wait"
  /\ UNCHANGED <<batch, quit_flg, ioVars, bufVars, watched, conn, nonblock, clientVars>>

-----------------------------------------------------------------------------
(* The io thread. *)

IoAt(step) == io = step /\ Running

\* lock_queue_pop returned m: nothing to do, or the function of its type.
io_pop(m) ==
  /\ IoAt("pop")
  /\ accept' = m
  /\ io' = IF m = NULL THEN "pop"
           ELSE CASE data_type(m) = "SOCK_ACCEPT" -> "sock_accept"
                  [] data_type(m) = "payload" -> "undefined"
                  [] OTHER -> "read"
  /\ UNCHANGED <<mainVars, makenode, bufVars, watched, conn, nonblock, clientVars>>

\* Mutant of buf_new: it reuses a released node when there is one.
buf_new_pooled ==
  IF pool # {} THEN pool ELSE {n \in Node : \A fd \in Fd : watched[fd] # n}

\* buf_new never looks into the pool, because the size it tests is never
\* counted up: the node is carved out of big_buf.
buf_new == {n \in Node : \A fd \in Fd : watched[fd] # n}

\* Up to data_type = SOCK_READ.  accept takes the waiting connection, or fails
\* at once when no descriptor is left, or blocks until a client connects.
SockAccept ==
  /\ IoAt("sock_accept")
  /\ \E n \in buf_new, s \in Conn \cup {BadSession} :
       /\ IF Cardinality(Open) < FD_LIMIT
          THEN /\ s \in Backlog
               /\ conn' = [conn EXCEPT ![s] = "open"]
          ELSE s = BadSession /\ UNCHANGED conn
       /\ makenode' = n
       /\ node' = [node EXCEPT ![n] = [session |-> s, data_type |-> "SOCK_READ"]]
       /\ pool' = pool \ {n}
       /\ later' = [m \in Node |-> IF m = n THEN {} ELSE later[m] \cup {n}]
  /\ io' = "rearm"
  /\ UNCHANGED <<mainVars, accept, watched, nonblock, clientVars>>

\* Mutant of Rearm: the listening socket is not put back.
RearmNot ==
  /\ IoAt("rearm")
  /\ io' = "nonblock"
  /\ UNCHANGED <<mainVars, accept, makenode, bufVars, watched, conn, nonblock, clientVars>>

\* net_add of the listening socket.
Rearm ==
  /\ IoAt("rearm")
  /\ net_add(LSFD, accept)
  /\ io' = "nonblock"
  /\ UNCHANGED <<mainVars, accept, makenode, bufVars, conn, nonblock, clientVars>>

\* Mutant of SetNonblock: F_SETFL without O_NONBLOCK.
SetNonblockNot ==
  /\ IoAt("nonblock")
  /\ io' = "register"
  /\ UNCHANGED <<mainVars, accept, makenode, bufVars, watched, conn, nonblock, clientVars>>

\* The two fcntl calls.
SetNonblock ==
  /\ IoAt("nonblock")
  /\ nonblock' = nonblock \cup ({node[makenode].session} \cap Conn)
  /\ io' = "register"
  /\ UNCHANGED <<mainVars, accept, makenode, bufVars, watched, conn, clientVars>>

\* Mutant of Register: the session is not registered.
RegisterNot ==
  /\ IoAt("register")
  /\ io' = "pop" /\ makenode' = NULL
  /\ UNCHANGED <<mainVars, accept, bufVars, watched, conn, nonblock, clientVars>>

\* net_add of the session.
Register ==
  /\ IoAt("register")
  /\ net_add(node[makenode].session, makenode)
  /\ io' = "pop" /\ makenode' = NULL
  /\ UNCHANGED <<mainVars, accept, bufVars, conn, nonblock, clientVars>>

\* What read returns for session c, when it returns data.
read_count(c) == IF unread[c] < BUF_SIZE THEN unread[c] ELSE BUF_SIZE

\* Which headers read writes over when it stores count units at n's udata.
Hit(n, count) == IF count = 0 THEN {{}} ELSE {{}} \cup {{m} : m \in later[n]}

\* io_read.  With nothing to read, read returns 0 at end of file and -1 on a
\* non-blocking descriptor; otherwise it blocks.  When the buffer was filled,
\* buf_reverse releases the node; the one it makes is lost.
io_read ==
  LET c == node[accept].session
      count == read_count(c)
  IN /\ IoAt("read")
     /\ count > 0 \/ eof[c] \/ c \in nonblock
     /\ unread' = [unread EXCEPT ![c] = @ - count]
     /\ \E hit \in Hit(accept, count) :
          node' = [n \in Node |-> IF n \in hit THEN Overwritten ELSE node[n]]
     /\ pool' = IF count = BUF_SIZE THEN pool \cup {accept} ELSE pool
     /\ io' = "pop"
     /\ UNCHANGED <<mainVars, accept, makenode, later, watched, conn, nonblock, eof>>

\* Every step that leaves msg_q_ alone.
MainStep == Setup \/ net_wait \/ StopListening \/ DispatchPayload \/ EndOfBatch
IoStep == SockAccept \/ Rearm \/ SetNonblock \/ Register \/ io_read

-----------------------------------------------------------------------------

ThreadTypeOK ==
  /\ main \in {"setup", "net_wait", "dispatch", "push", "exited", "undefined"}
  /\ batch \in Seq(AnyNode)
  /\ quit_flg \in BOOLEAN
  /\ io \in {"not_started", "pop", "sock_accept", "rearm", "nonblock", "register", "read",
             "undefined"}
  /\ accept \in AnyNode \cup {NULL} /\ makenode \in Node \cup {NULL}
  /\ node \in [Node -> [session : Conn \cup {BadSession},
                        data_type : {"garbage", "SOCK_READ", "payload"}]]
  /\ pool \in SUBSET Node
  /\ later \in [Node -> SUBSET Node]
  /\ watched \in [Fd -> AnyNode \cup {NULL}]
  /\ conn \in [Conn -> {"idle", "backlog", "open"}]
  /\ nonblock \in SUBSET Conn
  /\ unread \in [Conn -> 0 .. RCVBUF]
  /\ eof \in [Conn -> BOOLEAN]

=============================================================================
