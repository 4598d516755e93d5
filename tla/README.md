# Verification of the olaolaola server

TLA+ models of the C server under `src/src` and of the Lua 5.3 it carries under
`src/lua`, the TLC runs that check them and the TLAPS proofs about them. The
server is small: a main thread waits on epoll and hands the ready descriptors to
an io thread through a queue; the io thread accepts connections and reads
sessions into nodes from a buffer pool; a Lua script was meant to configure it
and Lua workers to process what is read. Most of the repository's code is the
Lua library, which the repository keeps as source and builds; it is modelled
too, from the lexer to the collector.

## 1. The system

| Component | Source | State | Operations |
|---|---|---|---|
| Message queue | `queue.c`, `queue.h` | two linked lists (messages; cells to be reused), their heads, tails and sizes, a lock | `queue_init`, `queue_push`, `queue_pop`, `lock_queue_push`, `lock_queue_pop`, `release_queue`, the `global_*` wrappers |
| Event loop | `loop.c`, `poll.h`, `sock.c` | the epoll interest list, the listening socket, sessions, each thread's position and locals | `main_thread_loop`, `io_thread_loop`, `io_accept`, `io_read`, `net_*`, `sock_*`, `work_thread_get_*` |
| Buffer pool | `buffer.c` | two arenas with their positions, three size queues | `buffer_queue_create`, `buf_new`, `buf_release`, `buf_reverse` |
| Startup | `comm.c`, `test.c`, `service/start.lua` | `poll_`, `lgset`, `worker_` | `init_poll_env`, `init_poll_struct`, `init_control`, `start_loop` |
| Worker environments | `comm.c` | `worker_[]` | `init_worker_env`, `release_worker_env` |
| Log, `ltpoll` | `log.c`, `ltpoll.cpp` | none | not built |
| Lua lexer and numerals | `llex.c`, `lobject.c` | the text behind the current token, the line | `llex` and what it calls |
| Lua compiler | `lparser.c`, `lcode.c` | functions under compilation: code, constants, registers, jump lists, variables, labels, gotos | one function per production and per code generator call |
| Lua virtual machine | `lvm.c`, `ldo.c`, `lfunc.c`, `ltm.c` | stack, CallInfos, upvalues, tables with metatables | one opcode per step, calls, metamethods, yields, errors |
| Lua collector | `lgc.c` | colours, the object lists, `sweepgc`, the gray lists | `singlestep` state by state, barriers, finalizers, emergency collection |
| Lua tables | `ltable.c` | array part, node vector, `lastfree` | get, set, `luaH_resize`, `rehash`, `luaH_next`, `luaH_getn` |
| Precompiled chunks | `ldump.c`, `lundump.c`, `lzio.c` | the stream | dump and load |
| Libraries | `lstrlib.c`, `ltablib.c`, `lutf8lib.c`, `lbitlib.c`, `liolib.c`, `luaL_loadfilex` | a match state, sort's stack, a stream | patterns, pack, sort and the table functions, utf8, bit32, reading files |

How they interact. `main` calls `init_poll_env`, which creates the epoll and
listening descriptors, and then `main_thread_loop`. That registers the
listening socket, starts one io thread with its own queue `msg_q_` and buffer
pool, binds, listens and loops: `net_wait` returns up to five nodes, each of
which is pushed on `msg_q_`; the listening socket is first taken out of epoll.
The io thread pops nodes and calls the function of their `data_type`:
`io_accept` takes a node from the pool, accepts, puts the listening socket back
and registers the new session with that node; `io_read` reads into the node and,
when the buffer was filled, "reverses" it into one twice as large. The two
threads share `msg_q_` (under its lock), the epoll descriptor (the kernel's
lock) and the nodes (written by the io thread before they are registered, read
by main after epoll reports them). The buffer pool belongs to the io thread
alone. Lua runs the configuration script: its parser asks the lexer for tokens
and the code generator for instructions, the machine executes them, tables and
closures belong to the collector, and the libraries are C functions it calls.

What is hard, and what makes each part correct:

* *Message queue.* `tail` is never reset when a list becomes empty, and popped
  cells move between two lists that are built by the same code, so tails of one
  list come to point into the other or at freed cells. The lists must stay
  disjoint, loop-free and in allocated memory; delivery must keep order and
  never repeat a message; losses must be confined to the cases the code's
  design explains; a queue in use must not seize up; the locked calls must be
  atomic for any number of threads.
* *Event loop.* Level-triggered epoll and two threads: the listening socket is
  handed to and fro, sessions are reported again and again before they are
  read, accept can fail, shut-down sessions are never removed. One accept at a
  time, an io thread that never blocks, the right node for each session, every
  waiting connection accepted and all input read.
* *Buffer pool.* Two different classifications of a node's size, pointer
  arithmetic in the wrong unit, arenas without (effective) end checks. Which
  bytes of two nodes may coincide, and what may be given to `free`.
* *Startup.* No result is looked at, and several processes may start at once:
  which failures end a process, and who serves the port.
* *Lua compiler and machine.* Registers freed like a stack although operands
  are discharged in another order, jump lists threaded through instructions,
  blocks that close upvalues, instructions resumed in the middle by other code:
  programs must do what their text says.
* *Lua collector.* A mutator between any two of its steps: nothing that the
  program can reach is freed, everything else is, weak tables and finalizers
  see what the manual says.
* *Lua tables.* Chains of colliding keys, dead keys, rehashes during
  traversals: what was stored is found.
* *Libraries.* Backtracking with captures, sort under an order function that
  contradicts itself, streams that fail or come in pieces.

`PROJECT.json` lists the hazards line by line with the properties that cover
them.

## 2. Modules

| Module | What it is |
|---|---|
| `Comm` | `NULL`, shared by the modules below, as `comm.h` is by the C files |
| `MsgQueue` | `queue.c` cell by cell: heads, tails, `size`, the `next` and `data` of every address, the allocated cells. `queue_push` and `queue_pop` are actions with one disjunct per path of the code |
| `LossyFifo` | what a user of the queue may rely on: exact FIFO until `lossy`, ordered and at-most-once afterwards |
| `QueueTraffic`, `QueueLife` | producer and consumer with numbered messages on `MsgQueue`, which implements `LossyFifo`; then the release of the queue at any moment |
| `QueueService` | the same queue used for ever by one-step calls; the abstract specification of `LockedQueue` |
| `LockedQueue` | the queue used by several threads, with the mutex and both halves of each operation as steps |
| `LoopThreads` | the main thread, the io thread, the clients and the kernel (epoll, backlog, descriptors); the steps on `msg_q_` take the node as a parameter |
| `EventLoop` | `LoopThreads` composed with `LossyFifo` |
| `EventLoopOnQueue` | `LoopThreads` composed with `MsgQueue`; it implements `EventLoop` |
| `BufferPool` | `buffer.c` with addresses: `buf_new`, `buf_release`, `buf_reverse` |
| `Startup` | `main`, `init_poll_env` and `main_thread_loop` up to the first `net_wait`, for several processes on one host |
| `LuaLexer` | characters to tokens, numerals, strings, comments |
| `LuaValue`, `LuaCode`, `LuaParser` | values; the code generator; the recursive descent over it |
| `LuaVM` | one action per instruction, resume and yield |
| `LuaMeaning` | what a syntax tree means by the reference manual, with no registers, jumps or stack; the reference for the four modules above |
| `LuaGC`, `LuaTable` | the collector and its mutator; one table under stores, collections and traversals |
| `LuaStrings`, `LuaPack`, `LuaTableLib`, `LuaUtf8`, `LuaBits`, `LuaFiles`, `LuaDump` | the libraries, file reading and precompiled chunks |
| `MCLua`, `MCLuaStatements`, `MCLuaGotos`, `MCLuaCalls` | families of programs, compiled, run and compared |
| `MCLuaLibrary`, `MCLuaPatterns`, `MCLuaReading`, `MCLuaBinary` | calls of library functions over small inputs, with what they should answer |
| `MCQueueTraffic`, `MCLuaGC`, `MCLuaTable` | symmetry sets, heaps and key sets for TLC |
| `*Proofs` | theorems (section 4) |

### Correspondence with the code

*MsgQueue.* `queue`, `tmp_queue` are the two `struct queue_`; `next[c]`,
`data[c]` the fields of the cell at address `c`; `heap` the allocated cells.
`queue_push` is `make_queue_node` followed by the linking code: `PushReused`
takes the free list's head, `PushMalloced` any address malloc may return, a
freed one that some tail still points to included. `queue_pop` is `PopEmpty`,
`PopRecycled` (through `release_queue_node`) or `PopFreed` (free list over
`MAX_BUF_Q`). Both run under `lock_` from beginning to end, hence one action
each; `LockedQueue` takes them apart and shows that this is justified. Cells
that no pointer of the queue leads to are leaked for good; the model lets their
addresses be used again (`Kept`), which keeps the heap finite and cannot be
noticed by the program. `size--` wraps at the width of `INT_MAX`. The outer
queue's `size` is a field that is never written; it is kept, constant.

*QueueLife.* `release_buf_queue` frees cells while a counter, read once, lasts;
`release_queue` pops until a pop returns NULL and frees two blocks for each
message, its `udata` and itself (`Blocks`). Both run without the
lock, after the traffic. The program calls neither (`loop.c:169` has the call
commented out), but they are part of the queue's interface.

*LockedQueue.* `Lock`, `MakeNode`, `Link`, `Unlink`, `Release`, `UnLock` are the
points at which another thread could come in if the mutex did not keep it out.
`done` records the queue as it was when the latest call took effect; through it
the module implements `QueueService`, which has the same calls in one step each.
The abstract queue knows nothing of threads, mutex or locals, so the refinement
says that these have no effect of their own.

*LoopThreads.* One action per system call that another thread or a client can
observe. Main: `Setup` (registration, thread start, bind, listen), `net_wait`,
`StopListening` (`net_del`), `main_push`, `EndOfBatch`. Io: `io_pop`,
`SockAccept`, `Rearm`, `SetNonblock`, `Register` (the four observable parts of
`io_accept`) and `io_read`. `main` and `io` are the program counters, `batch`
the rest of `tmp[]`, `accept` and `makenode` the locals of those names,
`watched` epoll's interest list with each descriptor's `data.ptr`. `io_read`
stores what it reads at `udata`, far behind the node, so it may write over the
header of a node made later: `later` says which those are, and the header hit
becomes `Overwritten` (any later one or none; which one it is in the code depends
on the sizes of what was made in between). A thread that goes on to use such a
header, a client's data now, is `undefined`, and nothing is said of what it does
then; so is main when it dispatches by it (`DispatchPayload`). `Setup` is a
single step: the io thread finds its queue empty until main first waits, and
epoll looks at a socket again when it is waited on; `Startup` has its parts.
`quit_flg` is never initialised, so it starts with either value. Readiness is
level-triggered (`EPOLLIN` without `EPOLLET`) and epoll may report ready
descriptors in any order. `listen(fd, 0)` is modelled with room for one
connection. Connections stand for the descriptors `accept` returns; no session
is ever closed (`io_close` is not reached), so no number is used twice.

*BufferPool.* Addresses are numbers in one space: `full_buf` and `big_buf` are
where `malloc` put the two arenas, `middle_pos` and `big_pos` the positions in
them; a large node is a block of `malloc`'s, which lies anywhere but on another
one or an arena. `made` remembers what `buf_new` returned (class, address,
size), `released` the three size queues and `freed` which pointers went to
`free`: for a large node its `udata` too, which no malloc returned, and behind
that call the model stops. What lies on what, `udata` included, is arithmetic. `buf_new` is one action
per size class. `small_pos` never moves: `buf_create_small` needs a node of
fewer than 8 bytes, header included. `queue_size` is 0: `queue_push` does not
count the queue's `size` up, so `buf_new` never reuses a released node. `udata`
is `nnode + sizeof(node)` in units of node, so its offset is the square of the
header's size.

*Startup.* `pc[p]` is the call that process `p` makes next; every call that can
fail may fail, and `failed[p]` remembers which did. The processes meet in
`port` and `listening`, the kernel's port table: with `SO_REUSEADDR` two may bind
one port as long as neither listens. A process that has ended may be started
again. `init_control`, which nothing calls, is the function of the script's
globals that it computes and is used by no property.

*Lua compiler and machine.* The state of a compilation is a record that the
functions of `lparser.c` and `lcode.c` map to the next one, under the names they
have there; instructions are records. A program is compiled by the first step
and run by one step per instruction. `vm.ci` are the CallInfos; the `c` of a
CallInfo is the C code that waits for what it called, which a yield or an error
"loses", so that what `luaV_finishOp` or `recover` does afterwards is seen.
Abstractions: syntax is correct (errors that tokens alone can cause are left
out), floats, bitwise operators, hooks, stack reallocation, line information and
error messages are not there. A string value is a sequence of pieces.

*LuaGC.* `g` is `global_State` with the objects' headers; `next` holds the list
headers `allgc`, `finobj`, `tobefnz` and each object's `next`, so that `sweepgc`
can be the address of one of them, as in the code. Objects are tables of one
entry of all four weaknesses, userdata with a finalizer, and the main thread.
One action per `singlestep` state and per mutator operation. Finalizers run from
`runafewfinalizers`, in `callfin` and behind any step of `luaC_step`, also in the
middle of a sweep: `loops` holds the `i` of each such loop under way, `GCTM` takes
the next object and starts its finalizer, whose code is the mutator's actions
(a step of the collector among them, as by `collectgarbage`), `EndFinalizers`
sets `gcfinnum`, and `FinalizerFails` leaves the loop by an error. `unswept` is a
history variable: the objects that a sweep has passed over (finding 2).

*LuaTable.* `t` is the table, `content` the map it stands for. Values equal
their keys, which makes a misplaced value visible. A hash is the key's number.
Each turn of the two loops of `luaH_resize` is a step (`Reinsert`): `todo` holds
what they have still to insert, behind it the key that a rehash was called for,
and behind that what an outer resize had left, as the calls lie on the C stack.
Nothing else happens until `todo` is empty. A loop along a chain is a recursive
function (`walk`), as are the halving and doubling loops of `luaH_getn`.

*Libraries.* Sort is a state machine with one step per call of the order
function, which may answer anything; `todo` is the stack of `auxsort`'s calls
with the loop of the innermost on top. The others are operators with the
functions' names: a text is a sequence of characters, a C pointer an index, a
stream a text that may be broken at its end.

## 3. Runs

| Run | Module, config | Shows |
|---|---|---|
| `queue_traffic` | `MCQueueTraffic` | `ListsIntact`, `InOrder`, `NothingLostBeforeLeftOver`, `ImplementsLossyFifo`; with the release of the queue `ReleaseFreesAll` and `FreedOnce` |
| `queue_assertion` | `MCQueueTraffic`, `MCQueueAssert.cfg` | finding: NULL messages get into the queue |
| `queue_locked` | `LockedQueue` | `ImplementsAtomicCalls`, `KeepsDelivering` |
| `event_loop` | `EventLoop` | `AcceptSingleFlight`, `IoNeverBlocks`, `NodeMatchesSession`, on exact and on lossy queues; `AcceptsWaiting`, `ReadsInput` |
| `event_loop_on_queue` | `EventLoopOnQueue` | `ImplementsEventLoop`: the loop on the real queue is one on `LossyFifo`, so the safety properties carry over |
| `buffer_pool` | `BufferPool` | `HeadersDisjoint`, `PayloadsDisjoint`, `PayloadMissesEarlierHeaders`, `OnlyMallocedFreed` |
| `startup` | `Startup` | `SurvivesFailures`, `OneServesPort`, `Settles` |
| `lua` | `MCLuaLibrary` | thousands of programs against their meaning (`CompiledRunsAsWritten`, `RefusesOnlyIllegalGotos`, `CodeIsWellFormed`, `OpenUpvaluesAreLive`, `AbsencesAreTrue`); `SortsSafely`; library calls against theirs (`LibraryAnswersAsMeant`, `RoundTrips`) |
| `lua_goto_next` | `MCLua`, `MCLuaGotoNext.cfg` | finding: a goto to the next statement skips it |
| `lua_gc` | `MCLuaGC` | `NoDanglingReference`, `TriColour`, `CollectsOnlyGarbage`, `ClearsOnlyDead`, `FreesGarbage`, all of them until a sweep has passed over an object |
| `lua_gc_stray` | `MCLuaGC`, `MCLuaGCStray.cfg` | finding: a finalizer that runs during the sweep leads it astray, and a reachable object is freed |
| `lua_table` | `MCLuaTable` | `FindsWhatWasStored`, `RehashMakesRoom`, `LengthIsBoundary`, `ArrayMoreThanHalfUsed`, `TraversalComplete` |

The findings are what the code does against what its own comments, messages,
assertions and manual say:

1. `queue.c:158` asserts that no NULL is queued; with left-over tails, free
   cells (whose `data` is NULL) are linked into the message list. It takes nine
   calls: three pushes and two pops leave a tail over; two more pushes use the
   free list up, whose tail is now the last cell of the message list; a pop gives
   back a cell, which becomes the free list's head and nothing else, since
   `release_queue_node` looks at the head first (`queue.c:57-58`); the next pop's
   cell is linked behind the left-over tail (`queue.c:64-66`), and so is queued.
2. `lgc.c:773`: `udata2finalize` moves the object whose `next` field `sweepgc`
   points to into `allgc`, and leaves `sweepgc` where it is (`luaC_checkfinalizer`
   moves it on). `luaC_step` runs finalizers while `tobefnz` is being swept; the
   sweep then goes on in `allgc`, and the rest of `tobefnz` stays black. When such
   an object is kept by its finalizer, the next cycle takes it for traversed and
   frees its uservalue, which the program can still reach, against
   `manual.html:675` and `lgc.h:57-58`. It takes more objects to be finalized than
   one step sweeps, `GCSWEEPMAX`: 85 in the code, one in the run.
3. `lparser.c:1392`: in `if x then goto l ::l:: emit(1) end` the goto lands on
   the jump over the then part, so `emit(1)` is never run.

Further disagreements met while modelling, for which there is no run of their
own; the models do what the code does:

* `buffer.c:4` calls nodes below 64 bytes small; the shift makes it 8.
* `buffer.c:64` means to report "out of buf"; `Check(-1, …)` never prints and the
  last slot is handed out again. `big_buf` has no check at all. These are the
  exceptions of `HeadersDisjoint` and `PayloadsDisjoint` (`LastSlot`,
  `BeyondEnd`). The event loop asks for 128 bytes and their doubles, which come
  from `big_buf` until 1024 bytes are reached.
* `udata` points sizeof(node) headers behind the node, and `read` stores there:
  the payload of a session's node lies on the header of one made some ten nodes
  later. `buf_release` gives `udata` to `free`, which is no block of malloc's.
* `ltable.c:16-18` says that at least half of the array part's slots are in use;
  `computesizes` and its own comment (`ltable.c:234`) say more than half, and so
  does `ArrayMoreThanHalfUsed`.
* `lvm.c:553-560`: a `<=` that was interrupted by a yield is finished by asking
  whether the first operand has `__le`, and inverting the result if not. When
  only the second has one, and it yielded, the answer is the wrong way round;
  when the first operand is a constant, its slot is looked for beyond the frame
  (the comment says that no metamethod is called then, which the second operand
  belies). `CompiledRunsAsWritten` excepts both by name; `<` and `==` with a
  constant are answered right, because assertions are off.
* `lstrlib.c:1364` adds up the end of a string in a `size_t`. Lengths for which it
  wraps pass; `lua_pushlstring` refuses them afterwards, except the greatest, to
  which `luaS_newlstr` adds one (`lstring.c:151-157`) and copies what is not there.
* `init_control` is never called: the port and thread counts of the
  configuration script have no effect. `init_worker_env` passes its state by
  value and would crash on its first call.
* After `release_buf_queue`, `release_queue` pops cells into the free list it
  has just emptied, and links them behind its old tail, a freed cell.
* `sort` with an order function that is no order needs up to n(n+1) comparisons
  and not n²: each partition may compare an element twice. (TLC finds no array
  below ten elements that exceeds n²; the attempt to prove n² showed why there
  are some.)
* The collector's step that calls finalizers reads `tobefnz` again after each
  of them, so a finalizer that creates finalizable objects prolongs the step.
* `string.find` with the pattern `)` finds the character, because it is no
  special, where `match` reports a malformed pattern; `gsub` notices an
  unfinished capture only where the replacement uses it.
* `string.unpack` of `z` without a terminator reads to the string's end before
  it fails; `bit32.replace` with the full width does not trim its second operand,
  the value to be put in (`lbitlib.c:189-193`).
* `.0x` is one malformed numeral for the lexer; `luaL_loadfilex` skips a comment
  line behind an incomplete byte order mark; the file of `io.lines(name)` stays
  open when reading fails.

### Bounds

* `queue_traffic`: 4 cells, `MAX_BUF_Q` 2, 10 messages. Two cells suffice for a
  left-over tail and three for cells of one list to stray into the other;
  `MAX_BUF_Q` 2 is crossed, so cells are freed under tails and malloced again.
* `queue_locked`: a producer and two consumers, 4 cells, 2 messages that are
  used again for ever, `INT_MAX` 1, so the free list's counter wraps.
* `event_loop`: 2 connections, batches of 1 (5 in the code), a queue of 2 nodes:
  two sessions, one of them shut down, and the listening socket compete for the
  one place of a batch, and fill the queue. One unit of data fills a node's buffer
  (`BUF_SIZE` 1) and the kernel's (`RCVBUF` 1), so reads take the `buf_reverse`
  path. Descriptors suffice for both (`FD_LIMIT` 2); where they do not is
  `event_loop_on_queue`'s question. Main waits while the queue is at its bound;
  in the code it is unbounded.
* `event_loop_on_queue`: 2 connections, batches of 2, 1 descriptor, so that
  accept fails; 3
  cells, `MAX_BUF_Q` 1: tails are left over and cells freed within the loop's
  own traffic.
* `buffer_pool`: an arena of two slots, so it is exhausted by the third node;
  sizes on either side of every class boundary of `buf_new` (23/24, 983/984)
  and `buf_release` (7/8, 1024), and 128, the one the loop uses; four nodes, two
  releases. Four addresses for the arenas and for malloc, in any order, at
  distances (1100 and 1600) from which the `udata` of one block, 1600 bytes
  behind its node, falls into the next one.
* `startup`: two processes, each started twice; any call fails.
* `lua`: `MAXINDEXRK` 3, `MAXARG_Bx` 5, `MAXARG_C` 2 and `LFIELDS_PER_FLUSH` 2
  stand for 255, 2^18-1, 511 and 50, so that constants overflow into registers
  and `LOADKX`, and lists into several batches and `EXTRAARG`. Every program
  ends within `MAXSTEPS` instructions, which is part of the property. Sort:
  arrays of up to `MAXSORT` 6 elements with 3 values, or no order at all;
  beyond that the theorem. Library calls: texts over small alphabets up to the
  length that reaches every branch; `LUAL_BUFFERSIZE`, `BUFSIZ` 2 and `MAXRN` 4
  make buffers overflow, `NB` 2 and `SZINT` 3 give integers of three bytes of two
  bits. `PATIENCE` only orders the run: calls start after the programs.
* `lua_gc`: a heap of two objects that the mutator builds under every
  interleaving; a whole cycle from each of 32,000 heaps of four objects (two
  ephemeron tables, a weak table, a finalizable userdata); and any number of
  cycles of 4 heaps with two finalizable userdata, a table they may share and a
  weak table, while the mutator follows references. `SWEEPMAX` 1 instead of 85
  cuts sweeps at every object, so that two objects to be finalized are more than
  a step sweeps. One loop of finalizers runs at a time (`MaxNested` 1).
* `lua_table`: integer keys 1 to 3, which fill and leave the array part, or three
  strings that share a main position in every hash part. `MAXABITS` 4 is more
  than three keys can fill; `MAX_INT` 2 makes `unbound_search` give up doubling.

`CHECK_DEADLOCK FALSE` stands where the system may really stop or the bounds
stop it: all messages sent and the queue released, main having left its loop,
all nodes made, all processes settled, a program or a call at its end.

### Fairness

`LockedQueue` assumes weak fairness of each thread's steps inside a call, and
that a free mutex is granted to one of the threads that want it. Which one is
nobody's promise: a default pthread mutex may leave a producer waiting for as
long as a spinning consumer (`work_thread_get_step`) comes back for it. So that a
message is ever pushed cannot be shown; `KeepsDelivering` says that as long as
pushes and pops both go on, pops go on returning messages. `Startup` assumes that
every process makes its next call. `FairLoopSpec` assumes that both threads of
the event loop keep running. The formula is `WF(Main /\ lossy' = lossy)`: plain
fairness of `Main` could be met by the abstract queue becoming lossy, which is a
liberty of `LossyFifo` and no step of the program. When more descriptors are
ready than a batch has places, `epoll_wait(2)` goes round robin through them:
`SF(Report(fd))` for each descriptor. Without it a session that was shut down,
and is ready for ever, could take the place each time. Clients are not fair: they
may connect, send, shut down or not. The liveness properties hold as long as the
queue has not lost anything, the process has a descriptor left, no thread has
used a header that a payload was read over, and `quit_flg`,
never initialised, happened to be zero; each of these is an escape in the
property because the code does not exclude it. That the queue loses nothing is a
real restriction: `MsgQueue` leaves a tail over as soon as two messages in a row
have been queued and popped, so on the real queue an accept can be lost for
good. The Lua machine is sequential: that a program ends is the safety property
`steps <= MAXSTEPS`.

## 4. Theorems

All are proved for every value of the constants, under the named assumptions of
the modules (`NullAssumption`, `SizeAssumption`, … : a null pointer that is no
cell, a limit below `INT_MAX`, finitely many connections, a header between 8 and
512 bytes, arenas of whole slots at natural addresses, finitely many cells) and for `SortIsSafe` that values are
integers, for the tables that integer keys and hashes are natural numbers. TLC checks the inductive invariants it can evaluate (`IntactInv`,
`LockInv`, `StartupInv`, `SortInv`, …) on their runs' instances without error.

*Queue* (`MsgQueueProofs`, `QueueTrafficProofs`).

* `TypeCorrect`, `ListsStayIntact`, `IntactUntilReleased`. The inductive
  invariant is `IntactInv`: types, every cell with one owner (head or `next` of
  an allocated cell), every owned cell allocated. It is inductive without a word
  about tails, which is the point: linking behind any tail, however stale,
  gives the new cell exactly one owner. `MsgQueueProofs` has the two lemmas,
  `PushIntact` and `PopIntact`, for any caller; the steps of a release keep it
  too.
* `DeliversInOrder`, `FreesOnce`. Contents cannot be followed through recycled
  cells, losses and strays, so `OrderInv` says that the cells can be *ranked*:
  ranks grow along `next` pointers and with the messages stored. A push gives
  the new cell the highest rank; a pop ranks the cell anew when it joins the
  free list. `LifeInv` adds that what was freed had been popped.
* `LosesNothing`, `ReleasesAll`. While no tail is left over, `ShapeInv` names
  both chains cell by cell: the messages `last + 1 .. pushed`, the spare cells
  as many as the counter says, each tail the last cell of its list (or unset
  while the list has one cell). A push or a pop shortens one chain at the front
  and lengthens the other at the end. The invariant is needed in this detail
  because a wrong counter or a stale tail loses a message only calls later.
* `ImplementsFifo`. Every behaviour, releases included, is one of `LossyFifo`
  through `Contents`. What `Contents` finds (it takes some chain from the head)
  exists in every heap in which no cell has two owners (`ChainExists`, for
  finitely many cells: `CellAssumption`), is the only such chain, and the
  abstract queue is what the cells of it carry (`TrailOfChain`, `CarriedFacts`,
  `CarriedFull`). The rest is two pairs of lemmas of `MsgQueueProofs`, for any
  kind of message. While no tail is left over, the chain of `ShapeInv` gives the
  contents after a call exactly (`ExactPush`, `ExactPop`). Afterwards they are
  what they should be with some messages left out (`LossyPush`, `LossyPop`):
  whatever a stray link cut off, the i-th cell of the chain is still the i-th
  cell of the chain before the call, or the pushed one, which comes last
  (`AlongChain`), and a sequence that keeps places in order is a thinner one
  (`ThinByLabel`, `ThinChain`).

*Event loop on the queue* (`EventLoopOnQueueProofs`). `ImplementsLoop` is
`QueueLoopSpec => Abstract!LoopSpec`: main thread, io thread and clients on
`MsgQueue` do nothing that `EventLoop` does not allow on a `LossyFifo`. With
`EventLoop`'s own theorems, instantiated, `SafeOnTheQueue` follows: the three
safety properties of `EventLoop` hold of the loop on the real queue. The
steps of the threads are the same definitions in both (`SameMainStep`, `SameIoStep`,
`SameClient`), so what has to be shown is `Push` and `Pop`, where no messages
are numbered: nodes are pushed again and again. `QueueLoopInv` is `HeapInv` (types,
one owner per cell, owned cells allocated) and `TidyInv`: as long as no tail is
left over both lists are chains without a common cell, tails fit, the counter
is the free list's length, and no message is NULL; `PushTidy` and `PopTidy`
preserve it for every queue, and the four lemmas above do the rest. `PushFits`
accounts for the guard of the abstract `Push`, which bounds the messages waiting
by the number of cells: a push that found a cell had room. (`HeapAssumption`, a
heap of at least one cell, makes that bound one that `EventLoop` accepts.)

*Locked calls* (`LockedQueueProofs`). `OneInside` is mutual exclusion;
`CallsAreAtomic` the refinement: `Spec => Atomic!Spec`, where `Atomic` is
`QueueService` seen through `done`. `LockInv` says that at most the lock's owner
is inside a call, that `done` is the queue itself whenever nobody is between the
halves of a call, and that in between the queue is `done` with the first half
applied (`HalfPushed`, `HalfPopped`); so the first half is a stutter and the
second the whole abstract call. `KeepsDelivering` is TLC's.

*Event loop* (`EventLoopProofs`). `LoopTypeCorrect`, `OneAcceptInFlight`,
`IoThreadNeverBlocks`, `NodesMatchSessions`. The invariant is `LoopInv`. Its
`AcceptInv` says where the listen node is: the four places of
`AcceptSingleFlight` exclude one another, a batch that holds it finds the socket
on offer, and whenever an accept is under way a connection waits, because
nothing but that accept empties the backlog. Its `SessionInv` says that every
node in a batch, in `msg_q_` or in `io_read` is registered with epoll for its
session, and that a registered session is non-blocking; `buf_new` hands out only
nodes that are not registered. A header may be `Overwritten` at any time: what is
kept then is that epoll's pointer is still the session's node, and that a thread
which meets such a header goes no further on it. A pop or push on a lossy queue is handled once
and for all by `PushPending` and `PopPending`: what the queue keeps is a thinned
copy.

*Buffer pool* (`ServerProofs`). `PoolTypeCorrect`, `HeadersStayDisjoint`,
`PayloadsStayDisjoint`, `PayloadsMissEarlierHeaders`, `ArenasNeverFreed`. The
invariant `PoolInv` adds `Carved`: where each node lies with respect to the
arenas and the current positions (`Placed`) and to the nodes made later
(`Ordered`), with `middle_pos` a whole number of slots into its arena.
`NewPreserves` shows that `buf_new` keeps it, whichever class it takes and
wherever malloc puts a block. From it `RoomsApart` shows that the rooms of two
nodes, header and payload size together, are apart unless an arena has been used
up; headers lie at their start, and payloads are all equally far from it.

*Startup* (`ServerProofs`). `FailuresSurvived`, `ThePortIsServedOnce`.
`StartupInv` has per process what it holds at each call (`Environment`,
`Descriptors`, `Socket`), and for all of them together `OneListener` (two
listening sockets never have one port) and `SomeoneMayServe`: the port is
listened on, or a process has not yet come to the point where it could lose the
race. The latter is what makes "exactly one" inductive: a process that is
refused by `listen` was refused because another one listens already, and if that
one is killed and started again, it becomes the candidate.

*Sort* (`LuaTableLibProofs`). `SortIsSafe`, for arrays of every length, every
order and every order function that has none. `SortInv` has four parts. The
calls on the stack sort disjoint segments (`Stacked`); each is at most half of
the one below (`Halves`), because the smaller part is the one that is called
for; the comparisons still to come fit into a budget (`Costs`: k elements cost at
most k(k+1), and `Spent` is what the innermost call has used up; splitting a
segment at the pivot frees enough for both parts); the innermost call's indices
are within its bounds (`Position`). With an order, `Ordered` says that two
elements out of order lie in one segment that is still to be sorted, and
`Compared` what the comparisons so far have shown, from which follows that the
loops stop at the pivot and "invalid order function" is never reached. Without
an order only the check of the bounds stops them, and `Position` shows that it
comes in time.

*Tables* (`LuaTableProofs`). Every property of the run `lua_table`, for any sets
of keys and hashes, any `MAXABITS` and any `MAX_INT`, and so for tables of every
size: `StoredIsFound`, `RehashSuffices`, `ArrayIsMoreThanHalfUsed`,
`LengthIsABoundary`, `TraversalIsComplete`. They rest on `TableStands`, the
inductive invariant `Inv`. Its core is `Stands`: the table is `Tidy`, what a
resize has still to insert has distinct keys that the table has no value for
(`Pending`), and both together stand for `content` (`Carries`).

`Tidy` says of the node vector: a free node is as it was created and no link
leads to it; two nodes never link to the same one and no chain comes back to
where it was (`Chained`); the main position of every key is held by a key that
belongs there, and the key can be reached from it (`Housed`); a live entry comes
before dead ones of the same key. `Housed` is stronger than
`FindsWhatWasStored` needs (that the key is on the chain of its main position),
and is what makes `luaH_newkey` inductive: when the colliding node is at home the
new one is linked behind it, and when it is not, it is not the first of its chain,
so that exactly one node links to it (`PreviousFacts`: the loop that looks for
that node ends).
"Can be reached" is stated without a number of steps (no set that links do not
leave separates the two nodes), so that a relinked chain is argued about by
separating sets and not by counting; `Walk` and `SearchFacts` tie it to the
walk of the code, which ends within as many steps as there are nodes.

`RehashSuffices` needs `Room`: there are as many nodes without a key as keys to
be inserted that the array part will not take. A rehash establishes it because
what it counts are distinct keys and `na` of them go to the array part
(`RehashRoom`; `luaH_resizearray` keeps the number of nodes, `GrowRoom`), an
insertion takes one node at most (`PutGrows`). `ArrayIsMoreThanHalfUsed` shows
that the loop of `computesizes`, which stops early and skips empty slices, misses no
size. `LengthIsABoundary` follows the three ways of `luaH_getn`; the halving
loop keeps a present index below an absent one (`HalvesFacts`).
`TraversalIsComplete` adds `Traversed`: what has been visited is what lies up to
the control variable's index, and no step of a traversal moves an index
(`SameIndex`), because nothing is inserted while it lasts (`PutExisting`).

### What is only model-checked

* Liveness (`KeepsDelivering`, `AcceptsWaiting`, `ReadsInput`, `Settles`) and
  everything under fairness: out of the prover's reach, as is `ENABLED`.
* The modules with recursive operators, in which nothing can be proved:
  all the `Lua` modules but `LuaValue`, `LuaBits`, `LuaTable` and `LuaTableLib`.
  So `CompiledRunsAsWritten` and its companions, the collector's properties and
  the library's answers are TLC's alone.
* Induction. The library's induction theorems take an operator as a parameter
  and cannot be used; what can is the least element of a set of naturals
  (`LeastElement`, from `NatLessThanWellFounded`), so the proofs argue with the
  least or the last index at which something fails.

## 5. Not modelled

* The worker environments: nothing calls `init_worker_env`, which passes its state
  by value (`comm.c:187`), and the first call would crash.
* `queue_len`, which only reads. `io_rbuf`, `io_close`, `io_write`,
  `io_reaccept`: no node is ever given their type; `BufferPool` allows the
  release that `io_rbuf` would do.
* Interrupted system calls: the program installs no signal handler.
* In the queue and the pool, a failing malloc: the code reports it and goes on
  with a null pointer. (`Startup` has the failing mallocs of the start.)
* Writes through a tail to a freed cell, `free` of a `udata`, and what a thread
  does with a header that a payload was read over: the models show that it comes
  to that, and follow the program no further.
* Of Lua: floats and the bitwise opcodes, hooks, stack reallocation and memory
  errors, error texts and line information; strings, prototypes and closures in
  the collector; `sprintf` formats; writing files; the operating system,
  debugging, dynamic loading and mathematics libraries; most of the C API, whose
  functions move values between C and Lua; the `lua` and `luac` programs.
* `log.c` and `ltpoll.cpp`, which are not built.

`PROJECT.json` has the components one by one.

## 6. Plan

What would come next:

1. `TriColour` and `NoDanglingReference` of `LuaGC`, whose marking would have to
   be written without recursive operators, as `LuaTable` is.
2. The instructions of `LuaVM` that only move registers, against `LuaMeaning`,
   by the same means.
