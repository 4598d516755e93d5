------------------------------ MODULE Startup -------------------------------
(***************************************************************************)
(* From main of src/src/test.c to the first net_wait, for several server   *)
(* processes on one host.  init_poll_env builds the Lua state, poll_ and   *)
(* lgset and runs the configuration script; main ignores its result;       *)
(* main_thread_loop registers the listening socket, binds it and listens,  *)
(* and ignores those results too.  The processes meet in the kernel's port *)
(* table.  Any call that can fail may fail, and a process that has ended   *)
(* may be started again.                                                   *)
(***************************************************************************)
EXTENDS Comm, Integers, FiniteSets

CONSTANTS
  Proc,       \* server processes
  PORT,       \* comm.c:94, the port in server_addr
  MaxStarts   \* how often each process is started (bound)

ASSUME StartupAssumption ==
  /\ IsFiniteSet(Proc) /\ Proc # {} /\ PORT \in Nat \ {0}
  /\ MaxStarts \in Nat \ {0}

VARIABLES
  pc,         \* where each process is
  poll,       \* the descriptors in poll_, "none" for -1; NULL before malloc
  lgset,      \* io_thread_count_ and thread_count_ in *lgset, or NULL
  globals,    \* the globals that the script has set
  worker,     \* worker_ has been allocated
  port,       \* what the process's socket is bound to; 0 for nothing
  listening,  \* the processes whose socket is listening
  watched,    \* the processes whose socket is registered with their epoll
  failed,     \* history: the calls that failed in this life of the process
  starts      \* how often the process has been started

vars == <<pc, poll, lgset, globals, worker, port, listening, watched, failed, starts>>

\* Listening on a socket that is not bound makes the kernel pick a port.
EPHEMERAL == PORT + 1

\* What start.lua may leave in init_port: a number, or nothing of use.
Globals == [init_port : {9000, NULL}]

\* What malloc may have left in io_thread_count_: a negative number or not.
IoCount == {-1, 0}

Unset == [init_port |-> NULL]

\* What poll_ and lgset can point to.
Poll == [elfd : {"ok", "none"}, fd : {"ok", "none"}]
LgSet == [io_thread_count_ : IoCount, thread_count_ : {4}]

ASSUME NullAssumption == NULL \notin Poll \cup LgSet

\* What init_control would store, were it called: the number the script set,
\* or 2333.
init_control(g) == IF g.init_port # NULL THEN g.init_port ELSE 2333

Init ==
  /\ pc = [p \in Proc |-> "init_lua_S"]
  /\ poll = [p \in Proc |-> NULL]
  /\ lgset = [p \in Proc |-> NULL]
  /\ globals = [p \in Proc |-> Unset]
  /\ worker = {}
  /\ port = [p \in Proc |-> 0]
  /\ listening = {} /\ watched = {}
  /\ failed = [p \in Proc |-> {}]
  /\ starts = [p \in Proc |-> 1]

Goto(p, step) == pc' = [pc EXCEPT ![p] = step]
Fails(p, call) == failed' = [failed EXCEPT ![p] = @ \cup {call}]

-----------------------------------------------------------------------------
(* init_poll_env.  An early return goes on in main with start_loop. *)

\* lua_newstate returns NULL: init_poll_env gives up at once.
init_lua_S(p) ==
  /\ pc[p] = "init_lua_S"
  /\ \/ Goto(p, "init_poll_struct") /\ UNCHANGED failed
     \/ Goto(p, "start_loop") /\ Fails(p, "lua_newstate")
  /\ UNCHANGED <<poll, lgset, globals, worker, port, listening, watched, starts>>

\* Mutant of init_poll_struct: a failed epoll_create ends init_poll_env early.
init_poll_struct_checked(p) ==
  /\ pc[p] = "init_poll_struct"
  /\ \/ /\ Goto(p, "start_loop") /\ Fails(p, "epoll_create")
        /\ UNCHANGED poll
     \/ /\ poll' = [poll EXCEPT ![p] = [elfd |-> "ok", fd |-> "ok"]]
        /\ Goto(p, "lgset") /\ UNCHANGED failed
  /\ UNCHANGED <<lgset, globals, worker, port, listening, watched, starts>>

\* CHECK_MEM only prints: the next line writes through a NULL poll_.  assert(fd)
\* stops a process whose stdin is closed, and lets epoll_create's -1 pass.
init_poll_struct(p) ==
  /\ pc[p] = "init_poll_struct"
  /\ \/ /\ Goto(p, "crashed") /\ Fails(p, "malloc")
        /\ UNCHANGED poll
     \/ /\ Goto(p, "aborted") /\ Fails(p, "epoll_create")
        /\ UNCHANGED poll
     \/ \E e, s \in {"ok", "none"} :
          /\ poll' = [poll EXCEPT ![p] = [elfd |-> e, fd |-> s]]
          /\ failed' = [failed EXCEPT ![p] = @
                          \cup (IF e = "none" THEN {"epoll_create"} ELSE {})
                          \cup (IF s = "none" THEN {"socket"} ELSE {})]
          /\ Goto(p, "lgset")
  /\ UNCHANGED <<lgset, globals, worker, port, listening, watched, starts>>

\* lgset is malloc'ed and thread_count_ set; io_thread_count_ is not, and
\* init_control, which would set it, is never called.
init_lgset(p) ==
  /\ pc[p] = "lgset"
  /\ \/ /\ Goto(p, "crashed") /\ Fails(p, "malloc")
        /\ UNCHANGED lgset
     \/ \E n \in IoCount :
          /\ lgset' = [lgset EXCEPT ![p] = [io_thread_count_ |-> n, thread_count_ |-> 4]]
          /\ Goto(p, "luaL_dofile") /\ UNCHANGED failed
  /\ UNCHANGED <<poll, globals, worker, port, listening, watched, starts>>

luaL_dofile(p) ==
  /\ pc[p] = "luaL_dofile"
  /\ \/ /\ \E g \in Globals : globals' = [globals EXCEPT ![p] = g]
        /\ Goto(p, "workers") /\ UNCHANGED failed
     \/ Goto(p, "start_loop") /\ Fails(p, "luaL_dofile") /\ UNCHANGED globals
  /\ UNCHANGED <<poll, lgset, worker, port, listening, watched, starts>>

\* thread_count_ is 4 here, whatever the script said.
init_workers(p) ==
  /\ pc[p] = "workers"
  /\ Goto(p, "start_loop")
  /\ \/ worker' = worker \cup {p} /\ UNCHANGED failed
     \/ Fails(p, "worker_") /\ UNCHANGED worker
  /\ UNCHANGED <<poll, lgset, globals, port, listening, watched, starts>>

-----------------------------------------------------------------------------
(* main_thread_loop, called whatever has failed. *)

\* Up to sock_bind.  lg is dereferenced before anything else; the two mallocs
\* are only checked in print, a negative count always makes the second fail,
\* and a count of 0 yields a block too small for the io handle that init_io
\* writes, with no effect in glibc, whose smallest block is large enough.
start_loop(p) ==
  /\ pc[p] = "start_loop"
  /\ \/ /\ lgset[p] = NULL
        /\ Goto(p, "crashed") /\ UNCHANGED <<failed, watched>>
     \/ /\ lgset[p] # NULL
        /\ Goto(p, "crashed") /\ Fails(p, "malloc") /\ UNCHANGED watched
     \/ /\ lgset[p] # NULL /\ lgset[p].io_thread_count_ < 0
        /\ Goto(p, "crashed") /\ UNCHANGED <<failed, watched>>
     \/ /\ lgset[p] # NULL /\ lgset[p].io_thread_count_ >= 0
        /\ watched' = IF poll[p] = [elfd |-> "ok", fd |-> "ok"]
                      THEN watched \cup {p} ELSE watched
        /\ Goto(p, "sock_bind") /\ UNCHANGED failed
  /\ UNCHANGED <<poll, lgset, globals, worker, port, listening, starts>>

\* The sockets have SO_REUSEADDR: Linux lets several be bound to one port as
\* long as none of them listens.
Bindable(p) ==
  poll[p].fd = "ok" /\ \A q \in listening : port[q] # PORT

\* Mutant of sock_bind: called after sock_listen, when it has a port already.
sock_bind_late(p) ==
  /\ pc[p] = "sock_bind"
  /\ Goto(p, "sock_listen")
  /\ UNCHANGED <<poll, lgset, globals, worker, port, listening, watched, failed, starts>>

sock_bind(p) ==
  /\ pc[p] = "sock_bind"
  /\ port' = IF Bindable(p) THEN [port EXCEPT ![p] = PORT] ELSE port
  /\ Goto(p, "sock_listen")
  /\ UNCHANGED <<poll, lgset, globals, worker, listening, watched, failed, starts>>

\* Mutant of sock_listen: a failed listen is retried until it succeeds.
sock_listen_retried(p) ==
  /\ pc[p] = "sock_listen"
  /\ ~ \E q \in listening : port[q] = port[p]
  /\ listening' = listening \cup {p}
  /\ Goto(p, "net_wait")
  /\ UNCHANGED <<poll, lgset, globals, worker, port, watched, failed, starts>>

\* listen looks at the port again and refuses it if another socket listens
\* there by now; an unbound socket gets a port of its own.
sock_listen(p) ==
  /\ pc[p] = "sock_listen"
  /\ LET conflict == port[p] = PORT /\ \E q \in listening : port[q] = PORT
         free == port[p] = 0
     IN IF poll[p].fd = "none" \/ conflict
        THEN UNCHANGED <<port, listening>>
        ELSE /\ listening' = listening \cup {p}
             /\ port' = IF free THEN [port EXCEPT ![p] = EPHEMERAL] ELSE port
  /\ Goto(p, "net_wait")
  /\ UNCHANGED <<poll, lgset, globals, worker, watched, failed, starts>>

\* The process ends: quit_flg happened not to be 0, or somebody kills it.
Exit(p) ==
  /\ pc[p] = "net_wait"
  /\ Goto(p, "exited")
  /\ listening' = listening \ {p} /\ watched' = watched \ {p}
  /\ port' = [port EXCEPT ![p] = 0]
  /\ UNCHANGED <<poll, lgset, globals, worker, failed, starts>>

Ended(p) == pc[p] \in {"exited", "crashed", "aborted"}

Restart(p) ==
  /\ Ended(p) /\ starts[p] < MaxStarts
  /\ starts' = [starts EXCEPT ![p] = @ + 1]
  /\ Goto(p, "init_lua_S")
  /\ poll' = [poll EXCEPT ![p] = NULL] /\ lgset' = [lgset EXCEPT ![p] = NULL]
  /\ globals' = [globals EXCEPT ![p] = Unset]
  /\ worker' = worker \ {p}
  /\ failed' = [failed EXCEPT ![p] = {}]
  /\ UNCHANGED <<port, listening, watched>>

init_poll_env(p) ==
  init_lua_S(p) \/ init_poll_struct(p) \/ init_lgset(p) \/ luaL_dofile(p) \/ init_workers(p)

Step(p) == init_poll_env(p) \/ start_loop(p) \/ sock_bind(p) \/ sock_listen(p)

Next == \E p \in Proc : Step(p) \/ Exit(p) \/ Restart(p)

Spec == Init /\ [][Next]_vars

FairSpec == Spec /\ \A p \in Proc : WF_vars(Step(p))

-----------------------------------------------------------------------------

Serving(p) == pc[p] = "net_wait" /\ p \in listening /\ p \in watched

\* No result of init_poll_env is looked at, yet a process in its event loop
\* has all the loop uses: poll_ and lgset.  What may be missing is worker_,
\* and only after a failure; and only lack of memory or a stray negative
\* thread count kills the process on the way.
SurvivesFailures ==
  \A p \in Proc :
    /\ pc[p] \in {"sock_bind", "sock_listen", "net_wait"} =>
         /\ poll[p] # NULL /\ lgset[p] # NULL
         /\ p \notin worker => failed[p] \cap {"luaL_dofile", "worker_"} # {}
    /\ pc[p] = "crashed" =>
         \/ failed[p] \cap {"malloc", "lua_newstate"} # {}
         \/ lgset[p] # NULL /\ lgset[p].io_thread_count_ < 0

\* Processes race for the port between bind and listen, and no result is
\* looked at: once all of them run and none had a call fail, exactly one
\* serves the port, whatever was killed and started before.  Every other one
\* serves a port nobody knows of, or has lost the race and is deaf: its
\* socket is bound to the port and registered with epoll but does not listen.
OneServesPort ==
  (\A p \in Proc : pc[p] = "net_wait" /\ failed[p] = {}) =>
    \E p \in Proc :
      /\ Serving(p) /\ port[p] = PORT
      /\ \A q \in Proc \ {p} :
           q \in watched /\ port[q] = IF q \in listening THEN EPHEMERAL ELSE PORT

\* With fair scheduling every start comes to an end: an event loop or a
\* process that is gone.
Settles == \A p \in Proc : pc[p] = "init_lua_S" ~> pc[p] = "net_wait" \/ Ended(p)

=============================================================================
