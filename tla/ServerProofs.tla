---------------------------- MODULE ServerProofs ----------------------------
(***************************************************************************)
(* Proofs about what a server process does beside its event loop: starting *)
(* (Startup, for any number of processes on one host, started any number   *)
(* of times, with any call failing) and handing out buffers (BufferPool,   *)
(* for every header size, arena size, set of requests and bound).          *)
(***************************************************************************)
EXTENDS Startup, BufferPool, SequenceTheorems, TLAPS

\* The calls that may fail.
Calls == {"lua_newstate", "malloc", "epoll_create", "socket", "luaL_dofile", "worker_"}

\* The steps before the socket is bound, those of the event loop, and the ends.
Early == {"init_lua_S", "init_poll_struct", "lgset", "luaL_dofile", "workers", "start_loop"}
Looping == {"sock_bind", "sock_listen", "net_wait"}
Ends == {"exited", "crashed", "aborted"}

StartupTypeOK ==
  /\ pc \in [Proc -> Early \cup Looping \cup Ends]
  /\ poll \in [Proc -> Poll \cup {NULL}]
  /\ lgset \in [Proc -> LgSet \cup {NULL}]
  /\ worker \in SUBSET Proc
  /\ port \in [Proc -> {0, PORT, EPHEMERAL}]
  /\ listening \in SUBSET Proc
  /\ watched \in SUBSET Proc
  /\ failed \in [Proc -> SUBSET Calls]

-----------------------------------------------------------------------------
(* One process: what is there, and which failure explains what is not.     *)

Environment(p) ==
  /\ pc[p] \in {"init_lua_S", "init_poll_struct", "lgset"} => lgset[p] = NULL
  /\ pc[p] \in {"lgset", "luaL_dofile", "workers"} => poll[p] # NULL
  /\ pc[p] \in {"luaL_dofile", "workers"} \cup Looping => lgset[p] # NULL
  /\ lgset[p] # NULL => poll[p] # NULL
  /\ pc[p] \in {"start_loop", "crashed"} /\ lgset[p] = NULL =>
       failed[p] \cap {"malloc", "lua_newstate"} # {}
  /\ pc[p] \in {"start_loop"} \cup Looping /\ lgset[p] # NULL /\ p \notin worker =>
       failed[p] \cap {"luaL_dofile", "worker_"} # {}
  /\ pc[p] = "crashed" =>
       \/ failed[p] \cap {"malloc", "lua_newstate"} # {}
       \/ lgset[p] # NULL /\ lgset[p].io_thread_count_ < 0

Descriptors(p) ==
  /\ poll[p] # NULL /\ failed[p] = {} => poll[p] = [elfd |-> "ok", fd |-> "ok"]
  /\ pc[p] \in Looping /\ failed[p] = {} => p \in watched

\* The port a socket is bound to, by how far its process has come.
Socket(p) ==
  /\ pc[p] \notin {"sock_listen", "net_wait"} => port[p] = 0
  /\ pc[p] = "sock_listen" => port[p] \in {0, PORT}
  /\ p \in listening => pc[p] = "net_wait" /\ port[p] \in {PORT, EPHEMERAL}
  /\ pc[p] = "net_wait" /\ poll[p] = [elfd |-> "ok", fd |-> "ok"] /\ p \notin listening =>
       port[p] = PORT

-----------------------------------------------------------------------------
(* All processes: the port has one server at most, and one at least as     *)
(* soon as nobody is left who may still become it, or may be blamed.       *)

OneListener ==
  \A p, q \in listening : port[p] = PORT /\ port[q] = PORT => p = q

Candidate(p) ==
  \/ failed[p] # {}
  \/ pc[p] \in Early \cup Ends \cup {"sock_bind"}
  \/ pc[p] = "sock_listen" /\ port[p] = PORT

SomeoneMayServe ==
  (\E p \in listening : port[p] = PORT) \/ (\E p \in Proc : Candidate(p))

StartupInv ==
  /\ StartupTypeOK
  /\ \A p \in Proc : Environment(p) /\ Descriptors(p) /\ Socket(p)
  /\ OneListener
  /\ SomeoneMayServe

-----------------------------------------------------------------------------

LEMMA StartupInit == Init => StartupInv
  <1> SUFFICES ASSUME Init PROVE StartupInv
    OBVIOUS
  <1>1. StartupTypeOK
    BY DEF Init, StartupTypeOK, Early
  <1>2. ASSUME NEW p \in Proc PROVE Environment(p) /\ Descriptors(p) /\ Socket(p)
    BY <1>2 DEF Init, Environment, Descriptors, Socket, Looping
  <1>3. OneListener
    BY DEF Init, OneListener
  <1>4. SomeoneMayServe
    <2>1. PICK p \in Proc : TRUE
      BY StartupAssumption
    <2>2. Candidate(p)
      BY DEF Init, Candidate, Early
    <2>3. QED
      BY <2>2 DEF SomeoneMayServe
  <1>5. QED
    BY <1>1, <1>2, <1>3, <1>4 DEF StartupInv

\* One definition of everything a step of p may be.
Acts(p) == Step(p) \/ Exit(p) \/ Restart(p)

LEMMA TypeNext == ASSUME StartupTypeOK, NEW p \in Proc, Acts(p) PROVE StartupTypeOK'
  <1> USE DEF StartupTypeOK, Goto, Fails, Calls, Early, Looping, Ends
  <1>1. CASE init_lua_S(p)
    BY <1>1 DEF init_lua_S
  <1>2. CASE init_poll_struct(p)
    BY <1>2 DEF init_poll_struct, Poll
  <1>3. CASE init_lgset(p)
    BY <1>3 DEF init_lgset, LgSet
  <1>4. CASE luaL_dofile(p)
    BY <1>4 DEF luaL_dofile
  <1>5. CASE init_workers(p)
    BY <1>5 DEF init_workers
  <1>6. CASE start_loop(p)
    BY <1>6 DEF start_loop
  <1>7. CASE sock_bind(p)
    BY <1>7 DEF sock_bind
  <1>8. CASE sock_listen(p)
    BY <1>8 DEF sock_listen
  <1>9. CASE Exit(p)
    BY <1>9 DEF Exit
  <1>10. CASE Restart(p)
    BY <1>10 DEF Restart
  <1>11. QED
    BY <1>1, <1>2, <1>3, <1>4, <1>5, <1>6, <1>7, <1>8, <1>9, <1>10
       DEF Acts, Step, init_poll_env

\* A step of p leaves the state of every other process as it is.
LEMMA StepIsLocal ==
  ASSUME StartupTypeOK, NEW p \in Proc, Acts(p), NEW q \in Proc \ {p}
  PROVE  /\ pc'[q] = pc[q] /\ poll'[q] = poll[q] /\ lgset'[q] = lgset[q]
         /\ port'[q] = port[q] /\ failed'[q] = failed[q]
         /\ q \in worker' <=> q \in worker
         /\ q \in listening' <=> q \in listening
         /\ q \in watched' <=> q \in watched
  <1> USE DEF StartupTypeOK, Goto, Fails
  <1>1. CASE init_lua_S(p)
    BY <1>1 DEF init_lua_S
  <1>2. CASE init_poll_struct(p)
    BY <1>2 DEF init_poll_struct
  <1>3. CASE init_lgset(p)
    BY <1>3 DEF init_lgset
  <1>4. CASE luaL_dofile(p)
    BY <1>4 DEF luaL_dofile
  <1>5. CASE init_workers(p)
    BY <1>5 DEF init_workers
  <1>6. CASE start_loop(p)
    BY <1>6 DEF start_loop
  <1>7. CASE sock_bind(p)
    BY <1>7 DEF sock_bind
  <1>8. CASE sock_listen(p)
    BY <1>8 DEF sock_listen
  <1>9. CASE Exit(p)
    BY <1>9 DEF Exit
  <1>10. CASE Restart(p)
    BY <1>10 DEF Restart
  <1>11. QED
    BY <1>1, <1>2, <1>3, <1>4, <1>5, <1>6, <1>7, <1>8, <1>9, <1>10
       DEF Acts, Step, init_poll_env

\* What p's own step does to what p has.
LEMMA OwnStep ==
  ASSUME StartupTypeOK, NEW p \in Proc, Environment(p), Descriptors(p), Socket(p), Acts(p)
  PROVE  Environment(p)' /\ Descriptors(p)' /\ Socket(p)'
  <1> USE DEF StartupTypeOK, Goto, Fails, Environment, Descriptors, Socket, Early, Looping, Ends
  <1>1. CASE init_lua_S(p)
    BY <1>1 DEF init_lua_S
  <1>2. CASE init_poll_struct(p)
    BY <1>2, NullAssumption DEF init_poll_struct, Poll
  <1>3. CASE init_lgset(p)
    <2>1. \A n \in IoCount : [io_thread_count_ |-> n, thread_count_ |-> 4] # NULL
      BY NullAssumption DEF LgSet
    <2>2. CASE Goto(p, "crashed") /\ Fails(p, "malloc") /\ UNCHANGED lgset
      BY <1>3, <2>2 DEF init_lgset
    <2>3. CASE Goto(p, "luaL_dofile") /\ UNCHANGED failed /\ lgset'[p] # NULL
      BY <1>3, <2>3 DEF init_lgset
    <2>4. QED
      BY <1>3, <2>1, <2>2, <2>3 DEF init_lgset
  <1>4. CASE luaL_dofile(p)
    BY <1>4 DEF luaL_dofile
  <1>5. CASE init_workers(p)
    BY <1>5 DEF init_workers
  <1>6. CASE start_loop(p)
    BY <1>6 DEF start_loop
  <1>7. CASE sock_bind(p)
    BY <1>7 DEF sock_bind
  <1>8. CASE sock_listen(p)
    BY <1>8 DEF sock_listen
  <1>9. CASE Exit(p)
    BY <1>9 DEF Exit
  <1>10. CASE Restart(p)
    BY <1>10 DEF Restart, Ended
  <1>11. QED
    BY <1>1, <1>2, <1>3, <1>4, <1>5, <1>6, <1>7, <1>8, <1>9, <1>10
       DEF Acts, Step, init_poll_env
-----------------------------------------------------------------------------

\* listen refuses the port when another socket listens there.
LEMMA OneListenerNext ==
  ASSUME StartupInv, NEW p \in Proc, Acts(p)
  PROVE  OneListener'
  <1> SUFFICES ASSUME NEW a \in listening', NEW b \in listening',
                      port'[a] = PORT, port'[b] = PORT, a # b
               PROVE  FALSE
    BY DEF OneListener
  <1>1. StartupTypeOK /\ OneListener /\ StartupTypeOK'
    BY TypeNext DEF StartupInv
  <1>2. a \in Proc /\ b \in Proc
    BY <1>1 DEF StartupTypeOK
  <1>3. \A q \in Proc \ {p} : /\ port'[q] = port[q]
                              /\ q \in listening' <=> q \in listening
    BY <1>1, StepIsLocal
  <1>4. ASSUME NEW q \in listening, port[q] = PORT, q # p, p \in listening', port'[p] = PORT
        PROVE  p \in listening /\ port[p] = PORT
    <2>1. Socket(p)' /\ Socket(p)
      BY <1>1, OwnStep DEF StartupInv
    <2>2. pc'[p] = "net_wait"
      BY <1>4, <2>1 DEF Socket
    <2>3. CASE sock_listen(p)
      BY <1>1, <1>4, <2>3, StartupAssumption DEF sock_listen, StartupTypeOK, EPHEMERAL
    <2>4. CASE ~sock_listen(p)
      BY <1>1, <1>4, <2>2, <2>4
         DEF StartupTypeOK, Acts, Step, init_poll_env, init_lua_S, init_poll_struct, init_lgset,
             luaL_dofile, init_workers, start_loop, sock_bind, Exit, Restart, Goto
    <2>5. QED
      BY <2>3, <2>4
  <1>5. CASE a # p /\ b # p
    BY <1>1, <1>2, <1>3, <1>5 DEF OneListener
  <1>6. CASE a = p
    BY <1>1, <1>2, <1>3, <1>4, <1>6 DEF OneListener
  <1>7. CASE b = p
    BY <1>1, <1>2, <1>3, <1>4, <1>7 DEF OneListener
  <1>8. QED
    BY <1>5, <1>6, <1>7

\* A process that may still become the server stays one until somebody serves;
\* when the server ends, it is one itself.
LEMMA SomeoneNext ==
  ASSUME StartupInv, NEW p \in Proc, Acts(p)
  PROVE  SomeoneMayServe'
  <1> DEFINE Served == \E s \in listening : port[s] = PORT
  <1>1. StartupTypeOK /\ StartupTypeOK' /\ SomeoneMayServe
    BY TypeNext DEF StartupInv
  <1>2. /\ Environment(p) /\ Descriptors(p) /\ Socket(p)
        /\ Environment(p)' /\ Descriptors(p)' /\ Socket(p)'
    BY <1>1, OwnStep DEF StartupInv
  <1>3. \A q \in Proc \ {p} : /\ pc'[q] = pc[q] /\ port'[q] = port[q] /\ failed'[q] = failed[q]
                              /\ q \in listening' <=> q \in listening
    BY <1>1, StepIsLocal
  <1>4. CASE \E q \in Proc \ {p} : Candidate(q) \/ (q \in listening /\ port[q] = PORT)
    BY <1>1, <1>3, <1>4 DEF SomeoneMayServe, Candidate, StartupTypeOK
  <1>5. CASE /\ \A q \in Proc \ {p} : ~Candidate(q) /\ ~(q \in listening /\ port[q] = PORT)
             /\ Candidate(p) \/ (p \in listening /\ port[p] = PORT)
    <2>1. CASE Candidate(p)'
      BY <2>1 DEF SomeoneMayServe
    <2>2. CASE ~Candidate(p)'
      <3>1. failed'[p] = {} /\ pc'[p] \in {"sock_listen", "net_wait"}
        BY <1>1, <2>2 DEF StartupTypeOK, Candidate, Looping
      <3>2. CASE sock_bind(p)
        <4>1. poll[p] = [elfd |-> "ok", fd |-> "ok"]
          BY <1>2, <3>1, <3>2 DEF Environment, Descriptors, sock_bind, Looping
        <4>2. Bindable(p)
          BY <1>1, <1>2, <1>5, <3>2, <4>1 DEF Bindable, Socket, sock_bind, StartupTypeOK
        <4>3. port'[p] = PORT /\ pc'[p] = "sock_listen"
          BY <1>1, <3>2, <4>2 DEF sock_bind, Goto, StartupTypeOK
        <4>4. QED
          BY <2>2, <4>3 DEF Candidate
      <3>3. CASE sock_listen(p)
        <4>1. poll[p] = [elfd |-> "ok", fd |-> "ok"]
          BY <1>2, <3>1, <3>3 DEF Environment, Descriptors, sock_listen, Looping
        <4>2. port[p] = PORT
          BY <1>2, <1>5, <3>1, <3>3 DEF Candidate, Socket, sock_listen, Early, Ends
        <4>3. ~ \E q \in listening : port[q] = PORT
          BY <1>1, <1>2, <1>5, <3>3 DEF Socket, sock_listen, StartupTypeOK
        <4>4. p \in listening' /\ port'[p] = PORT
          BY <1>1, <3>3, <4>1, <4>2, <4>3, StartupAssumption DEF sock_listen, StartupTypeOK
        <4>5. QED
          BY <4>4 DEF SomeoneMayServe
      <3>4. CASE ~sock_bind(p) /\ ~sock_listen(p)
        BY <1>1, <3>1, <3>4
           DEF StartupTypeOK, Acts, Step, init_poll_env, init_lua_S, init_poll_struct, init_lgset,
               luaL_dofile, init_workers, start_loop, Exit, Restart, Goto, Candidate
      <3>5. QED
        BY <3>2, <3>3, <3>4
    <2>3. QED
      BY <2>1, <2>2
  <1>6. QED
    BY <1>1, <1>4, <1>5 DEF SomeoneMayServe, StartupTypeOK

LEMMA StartupNext == StartupInv /\ [Next]_vars => StartupInv'
  <1> SUFFICES ASSUME StartupInv, [Next]_vars PROVE StartupInv'
    OBVIOUS
  <1>1. CASE UNCHANGED vars
    BY <1>1 DEF vars, StartupInv, StartupTypeOK, Environment, Descriptors, Socket, OneListener,
                SomeoneMayServe, Candidate
  <1>2. ASSUME NEW p \in Proc, Acts(p) PROVE StartupInv'
    <2>1. StartupTypeOK /\ StartupTypeOK'
      BY <1>2, TypeNext DEF StartupInv
    <2>2. ASSUME NEW q \in Proc PROVE Environment(q)' /\ Descriptors(q)' /\ Socket(q)'
      <3>1. Environment(q) /\ Descriptors(q) /\ Socket(q)
        BY DEF StartupInv
      <3>2. CASE q = p
        BY <1>2, <2>1, <3>1, <3>2, OwnStep
      <3>3. CASE q # p
        <4>1. /\ pc'[q] = pc[q] /\ poll'[q] = poll[q] /\ lgset'[q] = lgset[q]
              /\ port'[q] = port[q] /\ failed'[q] = failed[q]
              /\ q \in worker' <=> q \in worker
              /\ q \in listening' <=> q \in listening
              /\ q \in watched' <=> q \in watched
          BY <1>2, <2>1, <3>3, StepIsLocal
        <4>2. QED
          BY <3>1, <4>1 DEF Environment, Descriptors, Socket
      <3>4. QED
        BY <3>2, <3>3
    <2>3. OneListener' /\ SomeoneMayServe'
      BY <1>2, OneListenerNext, SomeoneNext
    <2>4. QED
      BY <2>1, <2>2, <2>3 DEF StartupInv
  <1>3. QED
    BY <1>1, <1>2 DEF Next, Acts

-----------------------------------------------------------------------------

\* However many processes there are and whatever fails in them: a process in its
\* event loop has poll_ and lgset, lacks worker_ only after a failure of its own,
\* and only lack of memory or a stray negative count kills a start.
THEOREM FailuresSurvived == Spec => []SurvivesFailures
  <1>1. StartupInv => SurvivesFailures
    BY NullAssumption DEF StartupInv, Environment, SurvivesFailures, Looping, StartupTypeOK
  <1>2. QED
    BY StartupInit, StartupNext, <1>1, PTL DEF Spec

\* In the race between bind and listen somebody always wins, and only one:
\* whenever all processes run and none had a call fail, exactly one of them
\* serves the port, and every other is deaf or listens where nobody looks.
THEOREM ThePortIsServedOnce == Spec => []OneServesPort
  <1>1. ASSUME StartupInv, \A p \in Proc : pc[p] = "net_wait" /\ failed[p] = {}
        PROVE  \E p \in Proc :
                 /\ Serving(p) /\ port[p] = PORT
                 /\ \A q \in Proc \ {p} :
                      q \in watched /\ port[q] = IF q \in listening THEN EPHEMERAL ELSE PORT
    <2>1. \A p \in Proc : p \in watched /\ poll[p] = [elfd |-> "ok", fd |-> "ok"]
      BY <1>1 DEF StartupInv, Environment, Descriptors, Looping
    <2>2. PICK s \in listening : port[s] = PORT
      BY <1>1 DEF StartupInv, SomeoneMayServe, Candidate, Early, Ends
    <2>3. s \in Proc /\ Serving(s)
      BY <1>1, <2>1, <2>2 DEF StartupInv, StartupTypeOK, Serving
    <2>4. ASSUME NEW q \in Proc \ {s} PROVE port[q] = IF q \in listening THEN EPHEMERAL ELSE PORT
      <3>1. CASE q \in listening
        BY <1>1, <2>2, <3>1 DEF StartupInv, OneListener, Socket
      <3>2. CASE q \notin listening
        BY <1>1, <2>1, <3>2 DEF StartupInv, Socket
      <3>3. QED
        BY <3>1, <3>2
    <2>5. QED
      BY <2>1, <2>2, <2>3, <2>4
  <1>2. StartupInv => OneServesPort
    BY <1>1 DEF OneServesPort
  <1>3. QED
    BY StartupInit, StartupNext, <1>2, PTL DEF Spec

-----------------------------------------------------------------------------
(* The buffer pool.  Carved says where the nodes made so far lie with        *)
(* respect to the arenas, the two positions and one another; the properties  *)
(* follow from it, because a payload is as far from its node in every class. *)

Arenas ==
  /\ full_buf \in Nat /\ big_buf \in Nat
  /\ Apart(full_buf, buf_size, big_buf, buf_size)

\* The room set aside for node n.
room(n) == sizeof_node + n.size

\* Where node n lies with respect to the arenas and the positions.
Placed(n) ==
  /\ n.class = "middle" =>
       /\ room(n) < 64
       /\ n.addr = middle_pos \/ n.addr >= middle_pos + 512
       /\ n.addr + 512 <= full_buf + buf_size
  /\ n.class = "big" => n.size < 1024 /\ n.addr >= big_buf /\ n.addr + room(n) <= big_pos
  /\ n.class = "max" =>
       /\ Apart(n.addr, room(n), full_buf, buf_size)
       /\ Apart(n.addr, room(n), big_buf, buf_size)

\* Where node m lies with respect to a node n made later.
Ordered(m, n) ==
  /\ m.class = "middle" /\ n.class = "middle" =>
       n.addr + 512 <= m.addr \/ (m.addr = full_buf /\ n.addr = full_buf)
  /\ m.class = "big" /\ n.class = "big" => m.addr + room(m) <= n.addr
  /\ m.class = "max" /\ n.class = "max" => Apart(n.addr, room(n), m.addr, room(m))

Carved ==
  /\ \A i \in DOMAIN made : Placed(made[i])
  /\ \A i, j \in DOMAIN made : i < j => Ordered(made[i], made[j])

\* middle_pos goes down in whole slots, big_pos up.
Positions ==
  /\ middle_pos \in full_buf .. full_buf + buf_size /\ (middle_pos - full_buf) % 512 = 0
  /\ big_pos \in Nat /\ big_pos >= big_buf

FreedInMade == \A b \in freed : b[1] \in DOMAIN made /\ made[b[1]].size >= 1024

PoolInv == TypeOK /\ Arenas /\ Len(made) <= MaxMade /\ Positions /\ Carved /\ FreedInMade

LEMMA PoolStarts == buffer_queue_create => PoolInv
  <1> SUFFICES ASSUME buffer_queue_create PROVE PoolInv
    OBVIOUS
  <1>1. Arenas
    BY AddressAssumption DEF buffer_queue_create, Arenas
  <1>2. TypeOK
    BY <1>1, ArenaAssumption DEF buffer_queue_create, TypeOK, Arenas, SizeQueue
  <1>3. Positions
    BY <1>1, ArenaAssumption DEF buffer_queue_create, Positions, Arenas
  <1>4. Carved /\ FreedInMade /\ Len(made) <= MaxMade
    BY BoundAssumption DEF buffer_queue_create, Carved, FreedInMade
  <1>5. QED
    BY <1>1, <1>2, <1>3, <1>4 DEF PoolInv

\* How each class grows.
MiddleGrown(n) ==
  /\ n.class = "middle" /\ room(n) < 64 /\ n.addr = middle_pos'
  /\ \/ middle_pos' = middle_pos - 512
     \/ middle_pos' = middle_pos /\ middle_pos = full_buf
  /\ big_pos' = big_pos

BigGrown(n) ==
  /\ n.class = "big" /\ n.size < 1024 /\ n.addr = big_pos /\ big_pos' = big_pos + room(n)
  /\ middle_pos' = middle_pos

MaxGrown(n) ==
  /\ n.class = "max" /\ malloc(n.addr, room(n))
  /\ middle_pos' = middle_pos /\ big_pos' = big_pos

\* buf_new adds one node, in the right place.
LEMMA NewGrows ==
  ASSUME PoolInv, NEW size \in Nat \ {0}, buf_new(size)
  PROVE  /\ full_buf' = full_buf /\ big_buf' = big_buf /\ Positions'
         /\ \E n \in NodeType :
              /\ made' = Append(made, n)
              /\ MiddleGrown(n) \/ BigGrown(n) \/ MaxGrown(n)
  <1>1. /\ middle_pos \in full_buf .. full_buf + buf_size
        /\ (middle_pos - full_buf) % 512 = 0 /\ big_pos \in Nat
        /\ full_buf \in Nat /\ buf_size \in Nat /\ Address \subseteq Nat
        /\ sizeof_node \in 8 .. 512 /\ big_buf \in Nat /\ big_pos >= big_buf
    BY ArenaAssumption, HeaderAssumption, AddressAssumption DEF PoolInv, Arenas, Positions
  <1>2. full_buf' = full_buf /\ big_buf' = big_buf
    BY DEF buf_new, arenas
  <1>3. CASE buf_new_middle(size)
    <2> DEFINE n == [class |-> "middle", addr |-> middle_pos', size |-> size]
    <2>1. /\ middle_pos' = IF middle_pos = full_buf THEN middle_pos ELSE middle_pos - 512
          /\ made' = Append(made, n)
          /\ big_pos' = big_pos /\ size + sizeof_node < 64
      BY <1>3 DEF buf_new_middle, queue_size, buf_create_middle, Return, IsMiddle,
                  small_pos, MAX_MBUF
    <2>2. middle_pos' \in full_buf .. full_buf + buf_size /\ (middle_pos' - full_buf) % 512 = 0
      BY <1>1, <2>1
    <2>3. n \in NodeType
      BY <1>1, <2>2 DEF NodeType
    <2>4. MiddleGrown(n)
      BY <1>1, <2>1 DEF MiddleGrown, room
    <2>5. QED
      BY <1>1, <1>2, <2>1, <2>2, <2>3, <2>4 DEF Positions
  <1>4. CASE buf_new_big(size)
    <2> DEFINE n == [class |-> "big", addr |-> big_pos, size |-> size]
    <2>1. /\ big_pos' = big_pos + sizeof_node + size
          /\ made' = Append(made, n)
          /\ middle_pos' = middle_pos /\ size + sizeof_node < 1024
      BY <1>4 DEF buf_new_big, queue_size, buf_create_big, Return, IsBig
    <2>2. n \in NodeType /\ big_pos' \in Nat /\ big_pos' >= big_buf
      BY <1>1, <2>1 DEF NodeType
    <2>3. BigGrown(n)
      BY <1>1, <2>1 DEF BigGrown, room
    <2>4. QED
      BY <1>1, <1>2, <2>1, <2>2, <2>3 DEF Positions
  <1>5. CASE buf_new_max(size)
    <2>1. PICK a \in Address : malloc(a, sizeof_node + size) /\ Return("max", a, size)
      BY <1>5 DEF buf_new_max, buf_create_max
    <2> DEFINE n == [class |-> "max", addr |-> a, size |-> size]
    <2>2. middle_pos' = middle_pos /\ big_pos' = big_pos /\ made' = Append(made, n)
      BY <1>5, <2>1 DEF buf_new_max, Return
    <2>3. n \in NodeType
      BY <1>1, <2>1 DEF NodeType
    <2>4. MaxGrown(n)
      BY <2>1, <2>2 DEF MaxGrown, room
    <2>5. QED
      BY <1>1, <1>2, <2>2, <2>3, <2>4 DEF Positions
  <1>6. QED
    BY <1>3, <1>4, <1>5 DEF buf_new

\* The new node lies as it should.
LEMMA NewPlaced ==
  ASSUME Arenas, Positions, Positions', full_buf' = full_buf, big_buf' = big_buf,
         NEW n \in NodeType, MiddleGrown(n) \/ BigGrown(n) \/ MaxGrown(n)
  PROVE  Placed(n)'
  <1>1. /\ full_buf \in Nat /\ big_buf \in Nat /\ buf_size \in Nat \ {0}
        /\ buf_size % 512 = 0 /\ sizeof_node \in Nat /\ n.addr \in Int /\ n.size \in Nat
    BY ArenaAssumption, HeaderAssumption DEF Arenas, NodeType
  <1>2. CASE MiddleGrown(n)
    <2>1. /\ n.class = "middle" /\ room(n) < 64 /\ n.addr = middle_pos'
          /\ \/ middle_pos' = middle_pos - 512
             \/ middle_pos' = middle_pos /\ middle_pos = full_buf
      BY <1>2 DEF MiddleGrown
    <2>2. n.addr + 512 <= full_buf + buf_size
      <3>1. buf_size >= 512
        BY <1>1
      <3>2. middle_pos \in Int /\ middle_pos <= full_buf + buf_size
        BY <1>1 DEF Positions
      <3>3. QED
        BY <1>1, <2>1, <3>1, <3>2
    <2>3. QED
      BY <1>1, <2>1, <2>2 DEF Placed, room
  <1>3. CASE BigGrown(n)
    BY <1>1, <1>3 DEF BigGrown, Placed, Positions, room
  <1>4. CASE MaxGrown(n)
    BY <1>1, <1>4 DEF MaxGrown, malloc, Placed, room
  <1>5. QED
    BY <1>2, <1>3, <1>4

\* An earlier node stays placed, and the new one comes after it.
LEMMA EarlierPlaced ==
  ASSUME Positions, Positions', full_buf' = full_buf, big_buf' = big_buf, full_buf \in Nat,
         NEW i \in DOMAIN made, NEW m \in NodeType, m = made[i], Placed(m),
         NEW n \in NodeType, MiddleGrown(n) \/ BigGrown(n) \/ MaxGrown(n)
  PROVE  Placed(m)' /\ Ordered(m, n)
  <1>2. /\ m.addr \in Int /\ m.size \in Nat /\ n.addr \in Int /\ n.size \in Nat
        /\ buf_size \in Nat /\ sizeof_node \in Nat
        /\ middle_pos \in Int /\ big_pos \in Nat /\ middle_pos' \in Int /\ big_pos' \in Nat
    BY ArenaAssumption, HeaderAssumption DEF NodeType, Positions
  <1>3. middle_pos' <= middle_pos /\ big_pos <= big_pos'
    BY <1>2 DEF MiddleGrown, BigGrown, MaxGrown, room
  <1>5. Placed(m)'
    <2>1. m.class = "middle" => m.addr = middle_pos' \/ m.addr >= middle_pos' + 512
      <3>1. CASE middle_pos' = middle_pos \/ middle_pos' = middle_pos - 512
        BY <1>2, <3>1 DEF Placed
      <3>2. QED
        BY <3>1 DEF MiddleGrown, BigGrown, MaxGrown
    <2>2. m.class = "big" => m.addr + room(m) <= big_pos'
      BY <1>2, <1>3 DEF Placed, room
    <2>3. QED
      BY <2>1, <2>2 DEF Placed, room
  <1>6. Ordered(m, n)
    <2>1. CASE m.class = "middle" /\ n.class = "middle"
      <3>1. /\ n.addr = middle_pos'
            /\ \/ middle_pos' = middle_pos - 512
               \/ middle_pos' = middle_pos /\ middle_pos = full_buf
        BY <2>1 DEF MiddleGrown, BigGrown, MaxGrown
      <3>2. m.addr = middle_pos \/ m.addr >= middle_pos + 512
        BY <2>1 DEF Placed
      <3>3. QED
        BY <1>2, <2>1, <3>1, <3>2 DEF Ordered
    <2>2. CASE m.class = "big" /\ n.class = "big"
      BY <2>2 DEF Ordered, Placed, MiddleGrown, BigGrown, MaxGrown
    <2>3. CASE m.class = "max" /\ n.class = "max"
      BY <2>3 DEF Ordered, MiddleGrown, BigGrown, MaxGrown, malloc, room
    <2>4. QED
      BY <2>1, <2>2, <2>3 DEF Ordered
  <1>7. QED
    BY <1>5, <1>6

\* So the nodes stay carved as they should be, and those there were stay put.
LEMMA NewPreserves ==
  ASSUME PoolInv, NEW size \in Nat \ {0}, buf_new(size)
  PROVE  /\ made' \in Seq(NodeType) /\ Len(made') <= MaxMade
         /\ \A i \in DOMAIN made : i \in DOMAIN made' /\ made'[i] = made[i]
         /\ Arenas' /\ Positions' /\ Carved'
  <1>1. /\ full_buf' = full_buf /\ big_buf' = big_buf /\ Positions'
        /\ \E n \in NodeType :
             /\ made' = Append(made, n)
             /\ MiddleGrown(n) \/ BigGrown(n) \/ MaxGrown(n)
    BY NewGrows
  <1>2. PICK n \in NodeType :
          made' = Append(made, n) /\ (MiddleGrown(n) \/ BigGrown(n) \/ MaxGrown(n))
    BY <1>1
  <1>3. made \in Seq(NodeType) /\ Arenas /\ Positions /\ Carved
    BY DEF PoolInv, TypeOK
  <1>4. /\ made' \in Seq(NodeType) /\ Len(made') = Len(made) + 1 /\ Len(made) \in Nat
        /\ DOMAIN made = 1 .. Len(made) /\ DOMAIN made' = 1 .. Len(made) + 1
        /\ made'[Len(made) + 1] = n
        /\ \A i \in 1 .. Len(made) : made'[i] = made[i] /\ made[i] \in NodeType
    BY <1>2, <1>3
  <1>5. Len(made') <= MaxMade
    BY <1>4, BoundAssumption DEF buf_new
  <1>6. Placed(n)'
    BY <1>1, <1>2, <1>3, NewPlaced
  <1>7. ASSUME NEW i \in DOMAIN made, NEW m \in NodeType, m = made[i]
        PROVE  Placed(m)' /\ Ordered(m, n)
    <2>1. Placed(m) /\ full_buf \in Nat
      BY <1>3, <1>7 DEF Carved, Arenas
    <2>2. QED
      BY <1>1, <1>2, <1>3, <1>7, <2>1, EarlierPlaced
  <1>8. \A m \in NodeType, k \in NodeType : Ordered(m, k) => Ordered(m, k)'
    BY <1>1 DEF Ordered, room
  <1>9. \A i \in DOMAIN made' : Placed(made[i])' 
    <2> SUFFICES ASSUME NEW i \in DOMAIN made' PROVE Placed(made[i])'
      OBVIOUS
    <2>1. PICK m \in NodeType : m = made'[i]
      BY <1>4
    <2>2. Placed(m)'
      BY <1>4, <1>6, <1>7, <2>1
    <2>3. QED
      BY <2>1, <2>2 DEF Placed
  <1>10. \A i, j \in DOMAIN made' : i < j => Ordered(made[i], made[j])'
    <2> SUFFICES ASSUME NEW i \in DOMAIN made', NEW j \in DOMAIN made', i < j
                 PROVE  Ordered(made[i], made[j])'
      OBVIOUS
    <2>1. i \in DOMAIN made
      BY <1>4
    <2>2. PICK m \in NodeType : m = made'[i] /\ m = made[i]
      BY <1>4, <2>1
    <2>3. PICK k \in NodeType : k = made'[j]
      BY <1>4
    <2>4. Ordered(m, k)
      <3>1. CASE j = Len(made) + 1
        BY <1>4, <1>7, <2>1, <2>2, <2>3, <3>1
      <3>2. CASE j \in DOMAIN made
        BY <1>3, <1>4, <2>1, <2>2, <2>3, <3>2 DEF Carved
      <3>3. QED
        BY <1>4, <3>1, <3>2
    <2>5. Ordered(m, k)'
      BY <1>8, <2>4
    <2>6. QED
      BY <2>2, <2>3, <2>5 DEF Ordered
  <1>11. Arenas'
    BY <1>1, <1>3 DEF Arenas
  <1>12. Carved'
    BY <1>9, <1>10 DEF Carved
  <1>13. QED
    BY <1>1, <1>4, <1>5, <1>11, <1>12

\* buf_release keeps the queues well typed and frees only large nodes.
LEMMA ReleaseFacts ==
  ASSUME PoolInv, NEW i \in DOMAIN made, buf_release(i)
  PROVE  /\ released' \in [SizeQueue -> Seq(1 .. MaxMade)]
         /\ freed' \in SUBSET ((1 .. MaxMade) \X {"udata", "node"})
         /\ \A b \in freed' : b[1] = i /\ made[i].size >= 1024
  <1>1. /\ released \in [SizeQueue -> Seq(1 .. MaxMade)] /\ made \in Seq(NodeType)
        /\ i \in 1 .. MaxMade /\ made[i].size \in Nat /\ freed = {}
    <2>1. /\ released \in [SizeQueue -> Seq(1 .. MaxMade)] /\ made \in Seq(NodeType)
          /\ freed = {} /\ Len(made) <= MaxMade
      BY DEF PoolInv, TypeOK, buf_release
    <2>2. i \in 1 .. Len(made) /\ Len(made) \in Nat /\ made[i] \in NodeType
      BY <2>1
    <2>3. QED
      BY <2>1, <2>2, BoundAssumption DEF NodeType
  <1>2. ASSUME NEW q \in SizeQueue, ReleaseTo(q, i)
        PROVE  released' \in [SizeQueue -> Seq(1 .. MaxMade)] /\ freed' = {}
    <2>1. Append(released[q], i) \in Seq(1 .. MaxMade)
      BY <1>1, AppendProperties
    <2>2. QED
      BY <1>1, <1>2, <2>1 DEF ReleaseTo
  <1>3. CASE ReleaseSmall(i) \/ ReleaseMiddle(i) \/ ReleaseBig(i)
    <2>1. \E q \in SizeQueue : ReleaseTo(q, i)
      BY <1>3 DEF ReleaseSmall, ReleaseMiddle, ReleaseBig, SizeQueue
    <2>2. QED
      BY <1>2, <2>1
  <1>4. CASE ReleaseMax(i)
    <2>1. freed' = {i} \X {"udata", "node"} /\ released' = released
      BY <1>1, <1>4 DEF ReleaseMax, Free
    <2>2. made[i].size >= 1024
      BY <1>1, <1>4 DEF ReleaseMax, IsSmall, IsMiddle, IsBig
    <2>3. QED
      BY <1>1, <2>1, <2>2
  <1>5. QED
    BY <1>3, <1>4 DEF buf_release

\* Nothing but the queues and what was freed changes.
LEMMA NodesKept ==
  ASSUME PoolInv, UNCHANGED <<arenas, middle_pos, big_pos, made>>
  PROVE  /\ Arenas' /\ Positions' /\ Carved' /\ made' \in Seq(NodeType)
         /\ Len(made') <= MaxMade
  <1>1. /\ full_buf' = full_buf /\ big_buf' = big_buf /\ made' = made
        /\ middle_pos' = middle_pos /\ big_pos' = big_pos
    BY DEF arenas
  <1>2. Arenas /\ Positions /\ Carved /\ made \in Seq(NodeType) /\ Len(made) <= MaxMade
    BY DEF PoolInv, TypeOK
  <1>3. Arenas' /\ Positions' /\ made' \in Seq(NodeType) /\ Len(made') <= MaxMade
    BY <1>1, <1>2 DEF Arenas, Positions
  <1>4. \A i \in DOMAIN made : Placed(made[i])'
    BY <1>1, <1>2 DEF Carved, Placed, room
  <1>5. \A i, j \in DOMAIN made : i < j => Ordered(made[i], made[j])'
    BY <1>1, <1>2 DEF Carved, Ordered, room
  <1>6. QED
    BY <1>1, <1>3, <1>4, <1>5 DEF Carved

LEMMA PoolKept == PoolInv /\ [PoolStep]_poolvars => PoolInv'
  <1> SUFFICES ASSUME PoolInv, [PoolStep]_poolvars PROVE PoolInv'
    OBVIOUS
  <1>1. /\ made \in Seq(NodeType)
        /\ freed \in SUBSET ((1 .. MaxMade) \X {"udata", "node"})
        /\ released \in [SizeQueue -> Seq(1 .. MaxMade)]
        /\ FreedInMade
        /\ \A i \in DOMAIN made : made[i].size \in Nat \ {0}
    <2>1. /\ made \in Seq(NodeType)
          /\ freed \in SUBSET ((1 .. MaxMade) \X {"udata", "node"})
          /\ released \in [SizeQueue -> Seq(1 .. MaxMade)] /\ FreedInMade
      BY DEF PoolInv, TypeOK
    <2>2. ASSUME NEW i \in DOMAIN made PROVE made[i].size \in Nat \ {0}
      <3>1. made[i] \in NodeType
        BY <2>1
      <3>2. QED
        BY <3>1 DEF NodeType
    <2>3. QED
      BY <2>1, <2>2
  <1>2. ASSUME Arenas', Positions', Carved', made' \in Seq(NodeType), Len(made') <= MaxMade,
               released' \in [SizeQueue -> Seq(1 .. MaxMade)],
               freed' \in SUBSET ((1 .. MaxMade) \X {"udata", "node"}), FreedInMade'
        PROVE  PoolInv'
    BY <1>2 DEF PoolInv, TypeOK, Arenas, Positions
  <1>3. CASE New
    <2>1. PICK size \in Nat \ {0} : buf_new(size)
      BY <1>3, RequestAssumption DEF New
    <2>2. released' = released /\ freed' = freed
      BY <1>3 DEF New
    <2>3. \A i \in DOMAIN made : i \in DOMAIN made' /\ made'[i] = made[i]
      BY <2>1, NewPreserves
    <2>4. FreedInMade'
      BY <1>1, <2>2, <2>3 DEF FreedInMade
    <2>5. QED
      BY <1>1, <1>2, <2>1, <2>2, <2>4, NewPreserves
  <1>4. CASE Release
    <2>1. PICK i \in DOMAIN made : buf_release(i)
      BY <1>4 DEF Release
    <2>2. UNCHANGED <<arenas, middle_pos, big_pos, made>>
      BY <1>4 DEF Release
    <2>3. /\ released' \in [SizeQueue -> Seq(1 .. MaxMade)]
          /\ freed' \in SUBSET ((1 .. MaxMade) \X {"udata", "node"})
          /\ \A b \in freed' : b[1] = i /\ made[i].size >= 1024
      BY <2>1, ReleaseFacts
    <2>4. FreedInMade'
      BY <2>2, <2>3 DEF FreedInMade
    <2>5. QED
      BY <1>2, <2>2, <2>3, <2>4, NodesKept
  <1>5. CASE Reverse
    <2>1. PICK i \in DOMAIN made : buf_new(made[i].size * 2) /\ buf_release(i)
      BY <1>5 DEF Reverse, buf_reverse
    <2>2. made[i].size * 2 \in Nat \ {0}
      BY <1>1
    <2>3. /\ released' \in [SizeQueue -> Seq(1 .. MaxMade)]
          /\ freed' \in SUBSET ((1 .. MaxMade) \X {"udata", "node"})
          /\ \A b \in freed' : b[1] = i /\ made[i].size >= 1024
      BY <2>1, ReleaseFacts
    <2>4. i \in DOMAIN made' /\ made'[i] = made[i]
      BY <2>1, <2>2, NewPreserves
    <2>5. FreedInMade'
      BY <2>3, <2>4 DEF FreedInMade
    <2>6. QED
      BY <1>2, <2>1, <2>2, <2>3, <2>5, NewPreserves
  <1>6. CASE UNCHANGED poolvars
    <2>1. UNCHANGED <<arenas, middle_pos, big_pos, made, released, freed>>
      BY <1>6 DEF poolvars
    <2>2. FreedInMade'
      BY <1>1, <2>1 DEF FreedInMade
    <2>3. QED
      BY <1>1, <1>2, <2>1, <2>2, NodesKept
  <1>7. QED
    BY <1>3, <1>4, <1>5, <1>6 DEF PoolStep

LEMMA PoolInvariant == PoolSpec => []PoolInv
  BY PoolStarts, PoolKept, PTL DEF PoolSpec

\* The positions stay inside their arenas and everything keeps its type.
THEOREM PoolTypeCorrect == PoolSpec => []TypeOK
  <1>1. PoolInv => TypeOK
    BY DEF PoolInv
  <1>2. QED
    BY <1>1, PoolInvariant, PTL

\* A node of an arena that is not used up lies in it.
LEMMA InArena ==
  ASSUME Arenas, Positions, NEW n \in NodeType, Placed(n)
  PROVE  /\ n.class = "middle" =>
              full_buf <= n.addr /\ n.addr + room(n) <= full_buf + buf_size
         /\ n.class = "big" /\ ~BeyondEnd(n) =>
              big_buf <= n.addr /\ n.addr + room(n) <= big_buf + buf_size
  <1>1. /\ n.addr \in Int /\ n.size \in Nat /\ sizeof_node \in Nat /\ buf_size \in Nat
        /\ full_buf \in Nat /\ big_buf \in Nat /\ middle_pos \in Int /\ full_buf <= middle_pos
    BY ArenaAssumption, HeaderAssumption DEF NodeType, Arenas, Positions
  <1>2. CASE n.class = "middle"
    <2>1. n.addr >= middle_pos /\ room(n) < 64 /\ n.addr + 512 <= full_buf + buf_size
      BY <1>1, <1>2 DEF Placed
    <2>2. QED
      BY <1>1, <1>2, <2>1 DEF room
  <1>3. CASE n.class = "big"
    BY <1>1, <1>3 DEF Placed, BeyondEnd, room
  <1>4. QED
    BY <1>2, <1>3

\* The rooms of two nodes are apart, whatever their classes.
LEMMA RoomsApart ==
  ASSUME PoolInv, NEW i \in DOMAIN made, NEW j \in DOMAIN made, i < j
  PROVE  \/ Apart(made[i].addr, room(made[i]), made[j].addr, room(made[j]))
         \/ Exhausted(made[i], made[j])
  <1>1. PICK m \in NodeType, n \in NodeType :
          m = made[i] /\ n = made[j] /\ Placed(m) /\ Placed(n) /\ Ordered(m, n)
    BY DEF PoolInv, TypeOK, Carved
  <1>2. /\ m.addr \in Int /\ m.size \in Nat /\ n.addr \in Int /\ n.size \in Nat
        /\ sizeof_node \in Nat /\ buf_size \in Nat /\ full_buf \in Nat /\ big_buf \in Nat
        /\ m.class \in {"middle", "big", "max"} /\ n.class \in {"middle", "big", "max"}
        /\ Positions /\ Arenas /\ Apart(full_buf, buf_size, big_buf, buf_size)
    BY ArenaAssumption, HeaderAssumption DEF NodeType, PoolInv, Arenas
  <1>3. CASE m.class = n.class
    <2>1. CASE m.class = "middle"
      <3>1. room(m) < 64 /\ room(n) < 64
        BY <1>1, <1>3, <2>1 DEF Placed
      <3>2. n.addr + 512 <= m.addr \/ (LastSlot(m) /\ LastSlot(n))
        BY <1>1, <1>3, <2>1 DEF Ordered, LastSlot, small_pos
      <3>3. QED
        BY <1>1, <1>2, <3>1, <3>2 DEF Apart, room, Exhausted
    <2>2. CASE m.class # "middle"
      BY <1>1, <1>2, <1>3, <2>2 DEF Ordered, Apart
    <2>3. QED
      BY <2>1, <2>2
  <1>4. CASE m.class # n.class /\ ~BeyondEnd(m) /\ ~BeyondEnd(n)
    <2> DEFINE Within(k, a) == a <= k.addr /\ k.addr + room(k) <= a + buf_size
    <2>1. /\ m.class = "middle" => Within(m, full_buf)
          /\ n.class = "middle" => Within(n, full_buf)
          /\ m.class = "big" => Within(m, big_buf)
          /\ n.class = "big" => Within(n, big_buf)
      BY <1>1, <1>2, <1>4, InArena
    <2>2. /\ m.class = "max" => /\ Apart(m.addr, room(m), full_buf, buf_size)
                                /\ Apart(m.addr, room(m), big_buf, buf_size)
          /\ n.class = "max" => /\ Apart(n.addr, room(n), full_buf, buf_size)
                                /\ Apart(n.addr, room(n), big_buf, buf_size)
      BY <1>1 DEF Placed
    <2>3. Apart(m.addr, room(m), n.addr, room(n))
      BY <1>2, <1>4, <2>1, <2>2 DEF Apart, room
    <2>4. QED
      BY <1>1, <2>3
  <1>5. CASE m.class # n.class /\ (BeyondEnd(m) \/ BeyondEnd(n))
    BY <1>1, <1>5 DEF Exhausted
  <1>6. QED
    BY <1>3, <1>4, <1>5

\* So are two nodes in either order.
LEMMA EitherOrder ==
  ASSUME PoolInv, NEW i \in DOMAIN made, NEW j \in DOMAIN made, i # j
  PROVE  /\ made[i] \in NodeType /\ made[j] \in NodeType
         /\ \/ Apart(made[i].addr, room(made[i]), made[j].addr, room(made[j]))
            \/ Exhausted(made[i], made[j])
  <1>1. /\ i \in Nat /\ j \in Nat /\ made[i] \in NodeType /\ made[j] \in NodeType
    BY DEF PoolInv, TypeOK
  <1>2. CASE i < j
    BY <1>1, <1>2, RoomsApart
  <1>3. CASE j < i
    BY <1>1, <1>3, RoomsApart DEF Apart, Exhausted
  <1>4. QED
    BY <1>1, <1>2, <1>3

\* Two nodes handed out by buf_new never share header bytes, wherever malloc
\* puts the arenas and the large nodes, except where an arena is used up.
THEOREM HeadersStayDisjoint == PoolSpec => []HeadersDisjoint
  <1>1. PoolInv => HeadersDisjoint
    <2> SUFFICES ASSUME PoolInv, NEW i \in DOMAIN made, NEW j \in DOMAIN made, i # j
                 PROVE  HeadersApart(made[i], made[j]) \/ Exhausted(made[i], made[j])
      BY DEF HeadersDisjoint
    <2>1. PICK m \in NodeType, n \in NodeType :
            /\ m = made[i] /\ n = made[j]
            /\ Apart(m.addr, room(m), n.addr, room(n)) \/ Exhausted(m, n)
      BY EitherOrder
    <2>2. m.addr \in Int /\ m.size \in Nat /\ n.addr \in Int /\ n.size \in Nat
      BY DEF NodeType
    <2>3. QED
      BY <2>1, <2>2, HeaderAssumption DEF HeadersApart, Apart, room
  <1>2. QED
    BY <1>1, PoolInvariant, PTL

\* Nor payload bytes, although a payload lies outside the room of its node.
THEOREM PayloadsStayDisjoint == PoolSpec => []PayloadsDisjoint
  <1>1. PoolInv => PayloadsDisjoint
    <2> SUFFICES ASSUME PoolInv, NEW i \in DOMAIN made, NEW j \in DOMAIN made, i # j
                 PROVE  PayloadsApart(made[i], made[j]) \/ Exhausted(made[i], made[j])
      BY DEF PayloadsDisjoint
    <2>1. PICK m \in NodeType, n \in NodeType :
            /\ m = made[i] /\ n = made[j]
            /\ Apart(m.addr, room(m), n.addr, room(n)) \/ Exhausted(m, n)
      BY EitherOrder
    <2>2. m.addr \in Int /\ m.size \in Nat /\ n.addr \in Int /\ n.size \in Nat
      BY DEF NodeType
    <2>3. PICK k \in Nat : k = sizeof_node * sizeof_node
      BY HeaderAssumption
    <2>4. udata(m) = m.addr + k /\ udata(n) = n.addr + k
      BY <2>3 DEF udata
    <2>5. QED
      BY <2>1, <2>2, <2>4, HeaderAssumption DEF PayloadsApart, Apart, room
  <1>2. QED
    BY <1>1, PoolInvariant, PTL

\* The payload of a big node never lies on its own header or an earlier one.
THEOREM PayloadsMissEarlierHeaders == PoolSpec => []PayloadMissesEarlierHeaders
  <1>1. PoolInv => PayloadMissesEarlierHeaders
    <2> SUFFICES ASSUME PoolInv, NEW i \in DOMAIN made, NEW j \in DOMAIN made,
                        j <= i, made[i].class = "big", made[j].class = "big"
                 PROVE  PayloadMissesHeader(made[i], made[j])
      BY DEF PayloadMissesEarlierHeaders
    <2>1. /\ made[i] \in NodeType /\ made[j] \in NodeType /\ i \in Nat /\ j \in Nat
          /\ j < i => Ordered(made[j], made[i])
      BY DEF PoolInv, TypeOK, Carved
    <2>2. PICK m \in NodeType, n \in NodeType : m = made[i] /\ n = made[j]
      BY <2>1
    <2>3. n.addr <= m.addr
      BY <2>1, <2>2, HeaderAssumption DEF Ordered, room, NodeType
    <2>4. PICK k \in Nat : k = sizeof_node * sizeof_node
      BY HeaderAssumption
    <2>5. k >= sizeof_node
      BY <2>4, HeaderAssumption
    <2>6. udata(m) = m.addr + k
      BY <2>4 DEF udata
    <2>7. QED
      BY <2>2, <2>3, <2>5, <2>6, HeaderAssumption DEF PayloadMissesHeader, Apart, NodeType
  <1>2. QED
    BY <1>1, PoolInvariant, PTL

\* Of the nodes, only those that malloc returned are given to free.
THEOREM ArenasNeverFreed == PoolSpec => []OnlyMallocedFreed
  <1>1. PoolInv => OnlyMallocedFreed
    <2> SUFFICES ASSUME PoolInv, NEW b \in freed PROVE made[b[1]].class = "max"
      BY DEF OnlyMallocedFreed
    <2>1. b[1] \in DOMAIN made /\ made[b[1]].size >= 1024
      BY DEF PoolInv, FreedInMade
    <2>2. PICK n \in NodeType : n = made[b[1]] /\ Placed(n)
      BY <2>1 DEF PoolInv, TypeOK, Carved
    <2>3. n.size >= 1024 /\ n.size \in Nat /\ n.class \in {"middle", "big", "max"}
      BY <2>1, <2>2 DEF NodeType
    <2>4. QED
      BY <2>2, <2>3, HeaderAssumption DEF Placed, room
  <1>2. QED
    BY <1>1, PoolInvariant, PTL

=============================================================================
