----------------------------- MODULE BufferPool -----------------------------
(***************************************************************************)
(* The buffer pool of src/src/buffer.c, with its address arithmetic.       *)
(*                                                                         *)
(* buf_new carves a node (a header of sizeof_node bytes and `size` bytes   *)
(* of payload) out of one of two arenas or takes it from malloc; the class *)
(* depends on size + sizeof_node.  buf_release puts it on a size queue or  *)
(* frees it; there the class depends on size alone.  udata, the payload's  *)
(* address, is `nnode + sizeof(node)` in units of node: it lies behind the *)
(* room set aside for it, and may lie behind the arena or the block.       *)
(*                                                                         *)
(* Addresses are numbers, the same for the arenas and for what malloc      *)
(* returns, so that what lies where can be compared.                       *)
(*                                                                         *)
(* The small class is left out of buf_new: it needs size + sizeof_node < 8 *)
(* (HeaderAssumption), so buf_create_small is never called.                *)
(***************************************************************************)
EXTENDS Integers, Sequences, FiniteSets

CONSTANTS
  sizeof_node,   \* 40 on x86-64
  buf_size,      \* the size of each arena, 512 * 1024 in init_io
  Size,          \* the sizes that are asked for
  Address,       \* the addresses that malloc may return (bound)
  MaxMade,       \* how many nodes are made (bound)
  MaxReleased    \* how many releases happen (bound)

ASSUME HeaderAssumption == sizeof_node \in 8 .. 512
ASSUME ArenaAssumption == buf_size \in Nat \ {0} /\ buf_size % 512 = 0
ASSUME AddressAssumption == Address \subseteq Nat
ASSUME RequestAssumption == Size \subseteq Nat \ {0}    \* assert(size)
ASSUME BoundAssumption == MaxMade \in Nat /\ MaxReleased \in Nat

VARIABLES
  full_buf,     \* the arena of the small and the middle class
  big_buf,      \* the arena of the big class
  middle_pos,   \* address in full_buf below which nothing is handed out
  big_pos,      \* address in big_buf from which on nothing is handed out
  made,         \* what buf_new returned, in order: its class, address and size
  released,     \* for each size queue, which of them were pushed on it
  freed         \* the pointers given to free: which node's, and which of its two

arenas == <<full_buf, big_buf>>
poolvars == <<arenas, middle_pos, big_pos, made, released, freed>>

MAX_MBUF == 512

SizeQueue == {"s_q", "m_q", "b_q"}

\* The start of full_buf, which never moves.
small_pos == full_buf

\* The bytes [a, a + la) and [b, b + lb) have none in common.
Apart(a, la, b, lb) == a + la <= b \/ b + lb <= a

buffer_queue_create ==
  /\ full_buf \in Address /\ big_buf \in Address
  /\ Apart(full_buf, buf_size, big_buf, buf_size)
  /\ middle_pos = full_buf + buf_size
  /\ big_pos = big_buf
  /\ made = <<>>
  /\ released = [q \in SizeQueue |-> <<>>]
  /\ freed = {}

-----------------------------------------------------------------------------

\* The size classes: n >> SMALL_BUF, n >> MIDDLE_BUF and n >> BIG_BUF are 0.
IsSmall(n) == n < 8
IsMiddle(n) == n < 64 /\ ~IsSmall(n)

IsBig(n) == n < 1024 /\ ~IsSmall(n) /\ ~IsMiddle(n)

\* Mutant of queue_size: queue_push counts what it pushes.
queue_size_counted(q) == Len(released[q])

\* The `size` of a size queue that buf_new tests: queue_push never counts it
\* up, so that buf_new never finds a released node to hand out again.
queue_size(q) == 0

Return(class, addr, size) ==
  made' = Append(made, [class |-> class, addr |-> addr, size |-> size])

Reuse(q) == made' = Append(made, made[Head(released[q])])

\* Check(-1, "out of buf") does nothing: an exhausted arena hands out its
\* last node again.
buf_create_middle(size) ==
  /\ middle_pos' = IF middle_pos = small_pos THEN middle_pos ELSE middle_pos - MAX_MBUF
  /\ Return("middle", middle_pos', size)

\* Mutant of buf_create_big: big_buf is used downwards, like full_buf.
buf_create_big_down(size) ==
  /\ Return("big", big_pos, size)
  /\ big_pos' = big_pos - (sizeof_node + size)

\* No check against the end of big_buf.
buf_create_big(size) ==
  /\ Return("big", big_pos, size)
  /\ big_pos' = big_pos + sizeof_node + size

\* malloc returns a block that is nobody else's.
malloc(a, length) ==
  /\ a \in Address
  /\ Apart(a, length, full_buf, buf_size) /\ Apart(a, length, big_buf, buf_size)
  /\ \A i \in DOMAIN made :
       made[i].class = "max" => Apart(a, length, made[i].addr, sizeof_node + made[i].size)

buf_create_max(size) ==
  \E a \in Address : malloc(a, sizeof_node + size) /\ Return("max", a, size)

buf_new_middle(size) ==
  /\ IsMiddle(size + sizeof_node)
  /\ IF queue_size("m_q") > 0 THEN Reuse("m_q") /\ UNCHANGED middle_pos
                              ELSE buf_create_middle(size)
  /\ UNCHANGED big_pos

buf_new_big(size) ==
  /\ IsBig(size + sizeof_node)
  /\ IF queue_size("b_q") > 0 THEN Reuse("b_q") /\ UNCHANGED big_pos
                              ELSE buf_create_big(size)
  /\ UNCHANGED middle_pos

buf_new_max(size) ==
  /\ size + sizeof_node >= 1024
  /\ buf_create_max(size)
  /\ UNCHANGED <<middle_pos, big_pos>>

buf_new(size) ==
  /\ Len(made) < MaxMade
  /\ UNCHANGED arenas
  /\ buf_new_middle(size) \/ buf_new_big(size) \/ buf_new_max(size)

\* buf_release of the i-th node.  A node may be released again: io_read does
\* so whenever it fills the buffer of a session that stays registered.
Released == Len(released["s_q"]) + Len(released["m_q"]) + Len(released["b_q"])

ReleaseTo(q, i) ==
  /\ released' = [released EXCEPT ![q] = Append(@, i)]
  /\ UNCHANGED freed

ReleaseSmall(i) == IsSmall(made[i].size) /\ ReleaseTo("s_q", i)

ReleaseMiddle(i) == IsMiddle(made[i].size) /\ ReleaseTo("m_q", i)

ReleaseBig(i) == IsBig(made[i].size) /\ ReleaseTo("b_q", i)

\* free(nnode->udata) and free(nnode).
Free(i) == freed' = freed \cup ({i} \X {"udata", "node"})

\* Mutant of ReleaseMax: the branch of the big class is missing.
ReleaseMaxBig(i) ==
  /\ ~IsMiddle(made[i].size) /\ ~IsSmall(made[i].size)
  /\ Free(i)
  /\ UNCHANGED released

\* udata is no pointer that malloc returned for this node: what free does with
\* it is undefined, and the model stops behind this step.
ReleaseMax(i) ==
  /\ ~IsBig(made[i].size) /\ ~IsMiddle(made[i].size) /\ ~IsSmall(made[i].size)
  /\ Free(i)
  /\ UNCHANGED released

buf_release(i) ==
  /\ Released < MaxReleased
  /\ freed = {}
  /\ ReleaseSmall(i) \/ ReleaseMiddle(i) \/ ReleaseBig(i) \/ ReleaseMax(i)

\* memcmp compares the two payloads and changes neither.
buf_reverse(i, size) == buf_new(size) /\ buf_release(i)

\* io_accept makes nodes, io_rbuf releases them and io_read doubles them.
New == \E size \in Size : buf_new(size) /\ freed = {} /\ UNCHANGED <<released, freed>>

Release ==
  \E i \in DOMAIN made : buf_release(i) /\ UNCHANGED <<arenas, middle_pos, big_pos, made>>

Reverse == \E i \in DOMAIN made : buf_reverse(i, made[i].size * 2)

PoolStep == New \/ Release \/ Reverse

PoolSpec == buffer_queue_create /\ [][PoolStep]_poolvars

-----------------------------------------------------------------------------

\* Mutant of udata: a node of the largest class has its payload behind its
\* header.
udata_max(n) ==
  n.addr + (IF n.class = "max" THEN sizeof_node ELSE sizeof_node * sizeof_node)

udata(n) == n.addr + sizeof_node * sizeof_node

HeadersApart(m, n) == Apart(m.addr, sizeof_node, n.addr, sizeof_node)

PayloadsApart(m, n) == Apart(udata(m), m.size, udata(n), n.size)

PayloadMissesHeader(m, n) == Apart(udata(m), m.size, n.addr, sizeof_node)

\* The last middle slot, which an exhausted full_buf hands out again and again.
LastSlot(n) == n.class = "middle" /\ n.addr = small_pos

\* A node whose room does not fit into big_buf, which buf_new does not test.
BeyondEnd(n) == n.class = "big" /\ n.addr + sizeof_node + n.size > big_buf + buf_size

\* Where an arena has been used up, nodes do coincide: in the last slot of
\* full_buf, and behind big_buf with whatever of another class is there.
Exhausted(m, n) ==
  \/ LastSlot(m) /\ LastSlot(n)
  \/ m.class # n.class /\ (BeyondEnd(m) \/ BeyondEnd(n))

NodeType == [class : {"middle", "big", "max"}, addr : Int, size : Nat \ {0}]

TypeOK ==
  /\ full_buf \in Nat /\ big_buf \in Nat
  /\ middle_pos \in full_buf .. full_buf + buf_size /\ big_pos \in Nat
  /\ made \in Seq(NodeType)
  /\ released \in [SizeQueue -> Seq(1 .. MaxMade)]
  /\ freed \in SUBSET ((1 .. MaxMade) \X {"udata", "node"})

\* Two nodes never share header bytes, so that no session's descriptor is
\* overwritten by another's: as long as the arenas last, buf_new gives every
\* caller a node of its own, released ones included.
HeadersDisjoint ==
  \A i, j \in DOMAIN made :
    i # j => HeadersApart(made[i], made[j]) \/ Exhausted(made[i], made[j])

\* Two nodes never share payload bytes either, wherever malloc puts the arenas
\* and the large nodes and although udata lies far behind the room that
\* buf_new set aside for it, on other nodes' room, in another arena or in
\* another malloc'ed block: every class is as far off.
PayloadsDisjoint ==
  \A i, j \in DOMAIN made :
    i # j => PayloadsApart(made[i], made[j]) \/ Exhausted(made[i], made[j])

\* For the same reason a payload may lie on another node's header; in big_buf
\* it may be the header of a node made later, but never its own or that of one
\* made before it.
PayloadMissesEarlierHeaders ==
  \A i, j \in DOMAIN made :
    j <= i /\ made[i].class = "big" /\ made[j].class = "big" =>
      PayloadMissesHeader(made[i], made[j])

\* buf_new and buf_release classify a node by different sizes, but a node that
\* buf_release gives to free never lies inside an arena: malloc returned it.
\* (Its udata, given to free as well, is not what malloc returned.)
OnlyMallocedFreed == \A b \in freed : b[2] = "node" => made[b[1]].class = "max"

=============================================================================
