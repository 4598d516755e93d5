------------------------------ MODULE MCLuaGC -------------------------------
(* LuaGC for TLC: a heap of two objects that the mutator builds, every heap *)
(* of four objects, which the collector alone works on, and heaps with two  *)
(* finalizers, in which the mutator only follows references.                *)
EXTENDS LuaGC, TLC

CONSTANTS eph1, eph2, weak1, user1, user2, table1
VARIABLE mode

Objects == {mainthread, eph1, eph2, weak1, user1, user2, table1}
Kinds ==
  (mainthread :> "thread") @@ (eph1 :> "k") @@ (eph2 :> "k") @@ (weak1 :> "v")
    @@ (user1 :> "udata") @@ (user2 :> "udata") @@ (table1 :> "strong")

\* A heap before the first collection: the objects in all and those in fin,
\* which have finalizers, in the order in which the lists link them.
Heap0(all, fin, key, val) ==
  LET live == Range(all) \cup Range(fin)
      linked == Link(Link([next |-> [p \in Header \cup Heap |-> NULL]], "allgc", all),
                     "finobj", fin)
      Or(f, o) == IF o \in DOMAIN f THEN f[o] ELSE NULL
  IN [gcstate |-> "pause", live |-> live,
      marked |-> [o \in Obj |-> "white"], tofinalize |-> Range(fin),
      next |-> linked.next, sweepgc |-> NULL, gcfinnum |-> 0, unswept |-> {},
      key |-> [o \in Obj |-> Or(key, o)], val |-> [o \in Obj |-> Or(val, o)],
      gray |-> <<>>, grayagain |-> <<>>,
      weak |-> <<>>, allweak |-> <<>>, ephemeron |-> <<>>]

\* The heaps of four objects that a program can build, with an ephemeron table
\* on the stack; only eph2 may be its own value.
Four == {eph1, eph2, weak1, user1}
AnyHeap ==
  /\ stack = <<eph1, NULL>>
  /\ \E key \in [{eph1, eph2, weak1} -> Four \cup {NULL}], val \in [Four -> Four \cup {NULL}] :
       /\ key[weak1] \in {NULL, user1} /\ \A o \in Four \ {eph2} : val[o] # o
       /\ \/ g = Heap0(<<user1, weak1, eph2, eph1>>, <<>>, key, val)
          \/ g = Heap0(<<weak1, eph2, eph1>>, <<user1>>, key, val)

\* Two userdata that become garbage and have finalizers; they may share the
\* table that the second refers to, and it may lead back to the first.
Finalizers ==
  /\ stack = <<weak1, NULL>>
  /\ \E v1 \in {table1, NULL}, back \in {user1, NULL} :
       g = Heap0(<<table1, weak1>>, <<user1, user2>>, <<>>,
                 (user1 :> v1) @@ (user2 :> table1) @@ (table1 :> back) @@ (weak1 :> table1))

MCInit ==
  /\ \/ mode = "mutator" /\ Init
     \/ mode = "heap" /\ AnyHeap
     \/ mode = "finalizers" /\ Finalizers
  /\ loops = <<>> /\ doomed = {}

MCNext ==
  /\ \/ mode = "mutator" /\ Next /\ g'.live \subseteq {user1, table1}
     \/ mode = "heap" /\ Collector
     \/ mode = "finalizers" /\ (Collector \/ Load)
  /\ UNCHANGED mode

MCSpec == MCInit /\ [][MCNext]_<<vars, mode>>

=============================================================================
