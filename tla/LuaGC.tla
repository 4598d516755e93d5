------------------------------- MODULE LuaGC --------------------------------
(***************************************************************************)
(* The incremental collector of src/lua/src/lgc.c and the mutator that     *)
(* runs between its steps.                                                 *)
(*                                                                         *)
(* Objects are tables of one entry (strong, weak keys, weak values, both), *)
(* userdata with a uservalue and a finalizer, and the main thread with its *)
(* stack.  The collector's lists are kept as in the code: `next` holds the *)
(* headers allgc, finobj and tobefnz and each object's next field, and     *)
(* sweepgc is the address of one of them.  The gclist lists are sequences. *)
(* Strings, prototypes and closures are left out, with the barriers of     *)
(* upvalues, and so are the byte counts that decide when a step is due: a  *)
(* step may come at any time, in a finalizer too (collectgarbage).         *)
(***************************************************************************)
EXTENDS Integers, Sequences, FiniteSets, SequencesExt, Comm

CONSTANTS
  Obj,       \* addresses of collectable objects, mainthread included
  mainthread,
  Kind,      \* what each object is
  StackSize, \* how many slots the main thread's stack has (bound)
  SWEEPMAX,  \* lgc.c:43 GCSWEEPMAX, objects swept in one step (85 in the code)
  MaxNested  \* how many finalizers run in one another (bound)

ASSUME GCAssumption ==
  /\ mainthread \in Obj /\ Kind[mainthread] = "thread"
  /\ Kind \in [Obj -> {"thread", "strong", "k", "v", "kv", "udata"}]
  /\ SWEEPMAX \in Nat \ {0} /\ StackSize \in Nat /\ MaxNested \in Nat

VARIABLES
  stack,   \* the slots of the main thread's stack
  g,       \* the collector: global_State and the objects' headers and contents
  loops,   \* the i of each runafewfinalizers that is under way, the last one first
  doomed   \* history: what was garbage when the cycle began

vars == <<stack, g, loops, doomed>>

Heap == Obj \ {mainthread}
Slot == 1 .. StackSize
Header == {"allgc", "finobj", "tobefnz"}


Init ==
  /\ stack = [s \in Slot |-> NULL]
  /\ g = [gcstate |-> "pause",
          live |-> {},                            \* the allocated objects
          marked |-> [o \in Obj |-> "white"],
          tofinalize |-> {},                      \* FINALIZEDBIT
          next |-> [p \in Header \cup Heap |-> NULL],
          sweepgc |-> NULL,
          gcfinnum |-> 0,                         \* how many finalizers to call next
          unswept |-> {},                         \* history: what sweeps have passed over
          key |-> [o \in Obj |-> NULL],           \* NULL: a key that is no object
          val |-> [o \in Obj |-> NULL],           \* NULL: nil
          gray |-> <<>>, grayagain |-> <<>>,
          weak |-> <<>>, allweak |-> <<>>, ephemeron |-> <<>>]
  /\ loops = <<>>
  /\ doomed = {}

\* Two whites take turns (currentwhite); here the current one is "white" and
\* the one of the last cycle is "dead".
iswhite(c, o) == c.marked[o] \in {"white", "dead"}
isblack(c, o) == c.marked[o] = "black"
valiswhite(c, v) == v # NULL /\ iswhite(c, v)
keepinvariant(c) == c.gcstate \in {"propagate", "atomic"}
issweepphase(c) == c.gcstate \in {"swpallgc", "swpfinobj", "swptobefnz", "swpend"}

flip(c) == [c EXCEPT !.marked = [o \in Obj |-> IF iswhite(c, o) THEN "dead" ELSE @[o]]]

Paint(c, o, colour) == [c EXCEPT !.marked[o] = colour]
Push(c, list, o) == [c EXCEPT ![list] = <<o>> \o @]

-----------------------------------------------------------------------------
(* Marking. *)

\* Userdata turn black at once, and their uservalue is marked in turn; other
\* objects wait in the gray list.
RECURSIVE reallymarkobject(_, _)
reallymarkobject(c, o) ==
  IF Kind[o] = "udata"
  THEN LET black == Paint(c, o, "black") IN
       IF valiswhite(black, c.val[o]) THEN reallymarkobject(black, c.val[o]) ELSE black
  ELSE Push(Paint(c, o, "gray"), "gray", o)

markvalue(c, v) == IF valiswhite(c, v) THEN reallymarkobject(c, v) ELSE c

\* Marks the elements of a sequence.
markall(c, s) == FoldLeft(markvalue, c, s)

\* The objects that the list headed by p links, in order.
RECURSIVE List(_, _)
List(c, p) == IF c.next[p] = NULL THEN <<>> ELSE <<c.next[p]>> \o List(c, c.next[p])

markbeingfnz(c) == markall(c, List(c, "tobefnz"))

\* A key that is no longer marked loses its nil entry.
removeentry(c, h) ==
  IF c.val[h] = NULL /\ valiswhite(c, c.key[h]) THEN [c EXCEPT !.key[h] = NULL] ELSE c

traverseweakvalue(c, h) ==
  LET m == IF c.val[h] = NULL THEN removeentry(c, h) ELSE markvalue(c, c.key[h])
  IN IF c.gcstate = "propagate" THEN Push(m, "grayagain", h)
     ELSE IF valiswhite(m, c.val[h]) THEN Push(m, "weak", h)
     ELSE m

\* Whether traverseephemeron marks h's value.
ephemeronmarks(c, h) ==
  c.val[h] # NULL /\ ~valiswhite(c, c.key[h]) /\ valiswhite(c, c.val[h])

\* Mutant of traverseephemeron: a white-white entry is not visited again.
traverseephemeron_once(c, h) ==
  LET hasclears == c.val[h] # NULL /\ valiswhite(c, c.key[h])
      m == IF c.val[h] = NULL THEN removeentry(c, h)
           ELSE IF ephemeronmarks(c, h) THEN reallymarkobject(c, c.val[h]) ELSE c
  IN IF c.gcstate = "propagate" THEN Push(m, "grayagain", h)
     ELSE IF hasclears THEN Push(m, "allweak", h)
     ELSE m

traverseephemeron(c, h) ==
  LET hasclears == c.val[h] # NULL /\ valiswhite(c, c.key[h])
      hasww == hasclears /\ valiswhite(c, c.val[h])
      m == IF c.val[h] = NULL THEN removeentry(c, h)
           ELSE IF ephemeronmarks(c, h) THEN reallymarkobject(c, c.val[h]) ELSE c
  IN IF c.gcstate = "propagate" THEN Push(m, "grayagain", h)
     ELSE IF hasww THEN Push(m, "ephemeron", h)
     ELSE IF hasclears THEN Push(m, "allweak", h)
     ELSE m

traversestrongtable(c, h) ==
  IF c.val[h] = NULL THEN removeentry(c, h) ELSE markall(c, <<c.key[h], c.val[h]>>)

\* Weak tables stay gray.
traversetable(c, h) ==
  LET m == Paint(c, h, "gray") IN
  CASE Kind[h] = "strong" -> traversestrongtable(Paint(c, h, "black"), h)
    [] Kind[h] = "v" -> traverseweakvalue(m, h)
    [] Kind[h] = "k" -> traverseephemeron(m, h)
    [] Kind[h] = "kv" -> Push(m, "allweak", h)

\* A thread is never black: it is traversed again in the atomic phase.
traversethread(c, th) ==
  markall(Push(Paint(c, th, "gray"), "grayagain", th), stack)

propagatemark(c) ==
  LET o == Head(c.gray)
      m == [c EXCEPT !.gray = Tail(@)]
  IN IF Kind[o] = "thread" THEN traversethread(m, o) ELSE traversetable(m, o)

RECURSIVE propagateall(_)
propagateall(c) == IF c.gray = <<>> THEN c ELSE propagateall(propagatemark(c))

\* One turn of convergeephemerons over the tables in todo, and the loop of
\* such turns until none of them marks a value.
RECURSIVE ephemeronturn(_, _, _)
ephemeronturn(c, todo, changed) ==
  IF todo = <<>> THEN [c |-> c, changed |-> changed]
  ELSE LET w == Head(todo)
           m == traverseephemeron(c, w)
       IN IF ephemeronmarks(c, w) THEN ephemeronturn(propagateall(m), Tail(todo), TRUE)
          ELSE ephemeronturn(m, Tail(todo), changed)

RECURSIVE convergeephemerons(_)
convergeephemerons(c) ==
  LET r == ephemeronturn([c EXCEPT !.ephemeron = <<>>], c.ephemeron, FALSE)
  IN IF r.changed THEN convergeephemerons(r.c) ELSE r.c

-----------------------------------------------------------------------------
(* The atomic phase. *)

clearkey(c, h) ==
  IF c.val[h] # NULL /\ valiswhite(c, c.key[h])
  THEN removeentry([c EXCEPT !.val[h] = NULL], h) ELSE c
clearkeys(c, list) == FoldLeft(clearkey, c, list)

clearvalue(c, h) ==
  IF valiswhite(c, c.val[h]) THEN removeentry([c EXCEPT !.val[h] = NULL], h) ELSE c
clearvalues(c, list) == FoldLeft(clearvalue, c, list)

\* Makes p the last link of the objects in s.
Link(c, p, s) ==
  [c EXCEPT !.next = [q \in DOMAIN @ |->
     IF q = p THEN IF s = <<>> THEN NULL ELSE s[1]
     ELSE IF \E i \in DOMAIN s : s[i] = q
          THEN LET i == CHOOSE i \in DOMAIN s : s[i] = q IN
               IF i = Len(s) THEN NULL ELSE s[i + 1]
          ELSE @[q]]]

\* The white objects with finalizers go to the end of tobefnz.
separatetobefnz(c) ==
  LET White(o) == iswhite(c, o)
      Kept(o) == ~iswhite(c, o)
      fin == List(c, "finobj")
  IN Link(Link(c, "finobj", SelectSeq(fin, Kept)),
          "tobefnz", List(c, "tobefnz") \o SelectSeq(fin, White))

\* Everything that is strongly accessible is marked.
markstrong(c) ==
  convergeephemerons(propagateall(
    [propagateall(markvalue([c EXCEPT !.gcstate = "insideatomic"], mainthread)) EXCEPT
       !.gray = c.grayagain]))
clearweak(c) == clearvalues(clearvalues(c, c.weak), c.allweak)
clearweakkeys(c) == clearkeys(clearkeys(c, c.ephemeron), c.allweak)

\* The values of the tables that resurrection has put in front of the lists.
clearnewweak(c, before) ==
  LET New(list) == SubSeq(c[list], 1, Len(c[list]) - Len(before[list]))
  IN clearvalues(clearvalues(c, New("weak")), New("allweak"))
resurrect(c) ==
  clearnewweak(
    clearweakkeys(convergeephemerons(propagateall(markbeingfnz(separatetobefnz(c))))), c)

\* Mutant of atomic: what waits for its finalizer is not marked again.
atomic_unmarked(c) ==
  [flip(clearweakkeys(separatetobefnz(clearweak(markstrong(c))))) EXCEPT !.gcfinnum = 1]

atomic(c) == [flip(resurrect(clearweak(markstrong(c)))) EXCEPT !.gcfinnum = 1]

-----------------------------------------------------------------------------
(* Sweeping. *)

freeobj(c, o) ==
  [c EXCEPT !.live = @ \ {o}, !.next[o] = NULL, !.key[o] = NULL, !.val[o] = NULL,
            !.marked[o] = "white"]

\* Sweeps the object that the link p leads to; returns where to go on.
sweepone(c, p) ==
  LET o == c.next[p] IN
  IF c.marked[o] = "dead"
  THEN [c |-> freeobj([c EXCEPT !.next[p] = c.next[o]], o), p |-> p]
  ELSE [c |-> Paint(c, o, "white"), p |-> o]

RECURSIVE sweeplist(_, _, _)
sweeplist(c, p, count) ==
  IF c.next[p] = NULL THEN [c EXCEPT !.sweepgc = NULL]
  ELSE IF count = 0 THEN [c EXCEPT !.sweepgc = p]
  ELSE LET r == sweepone(c, p) IN sweeplist(r.c, r.p, count - 1)

\* Sweeps until a live object or the end of the list.
RECURSIVE sweeptolive(_, _)
sweeptolive(c, p) ==
  IF c.next[p] = NULL THEN [c EXCEPT !.sweepgc = NULL]
  ELSE LET r == sweepone(c, p) IN
       IF r.p = p THEN sweeptolive(r.c, p)
       ELSE [r.c EXCEPT !.sweepgc = IF r.c.next[r.p] = NULL THEN NULL ELSE r.p]

\* The gray lists have no meaning from here to the next restart (lgc.h).
entersweep(c) ==
  sweeptolive([c EXCEPT !.gcstate = "swpallgc", !.gray = <<>>, !.grayagain = <<>>,
                        !.weak = <<>>, !.allweak = <<>>, !.ephemeron = <<>>], "allgc")

sweepstep(c, nextstate, nextlist) ==
  LET swept == IF c.sweepgc = NULL THEN c ELSE sweeplist(c, c.sweepgc, SWEEPMAX)
  IN IF swept.sweepgc # NULL THEN swept
     ELSE [swept EXCEPT !.gcstate = nextstate, !.sweepgc = nextlist]

restartcollection(c) ==
  markbeingfnz(markvalue(
    [c EXCEPT !.gcstate = "propagate", !.gray = <<>>, !.grayagain = <<>>,
              !.weak = <<>>, !.allweak = <<>>, !.ephemeron = <<>>], mainthread))

\* One step; in callfin it ends the cycle once no finalizer is left.
singlestep(c) ==
  CASE c.gcstate = "pause" -> restartcollection(c)
    [] c.gcstate = "propagate" ->
         LET m == propagatemark(c) IN
         IF m.gray = <<>> THEN [m EXCEPT !.gcstate = "atomic"] ELSE m
    [] c.gcstate = "atomic" -> entersweep(atomic(propagateall(c)))
    [] c.gcstate = "swpallgc" -> sweepstep(c, "swpfinobj", "finobj")
    [] c.gcstate = "swpfinobj" -> sweepstep(c, "swptobefnz", "tobefnz")
    [] c.gcstate = "swptobefnz" -> sweepstep(c, "swpend", NULL)
    [] c.gcstate = "swpend" ->
         [Paint(c, mainthread, "white") EXCEPT
            !.gcstate = "callfin", !.unswept = @ \cup {o \in c.live : ~iswhite(c, o)}]
    [] c.gcstate = "callfin" -> [c EXCEPT !.gcstate = "pause"]

(* What the steps find, for the history variable and the properties. *)

Held == {stack[s] : s \in Slot} \ {NULL}

\* The references the mutator can follow from o, weak ones included; the key
\* of a nil entry is only ever compared.
References(o) == IF g.val[o] = NULL THEN {} ELSE {g.key[o], g.val[o]} \ {NULL}

RECURSIVE ReachAll(_)
ReachAll(S) ==
  LET T == S \cup UNION {References(o) : o \in S} IN IF T = S THEN S ELSE ReachAll(T)

Pending == {o \in Heap : \E i \in DOMAIN List(g, "tobefnz") : List(g, "tobefnz")[i] = o}

\* Nothing leads to these objects any more, not even a finalizer.
Garbage == g.live \ ReachAll(Held \cup Pending \cup g.tofinalize)

-----------------------------------------------------------------------------
(* The collector's actions. *)

\* A single step of luaC_step.  In callfin it is runafewfinalizers that runs,
\* and luaC_step runs it after the last of its steps unless the cycle has
\* ended; where there is nothing to finalize this does nothing that matters.
Step ==
  /\ IF g.gcstate = "callfin" /\ g.next["tobefnz"] # NULL
     THEN loops' = <<0>> \o loops /\ UNCHANGED g
     ELSE /\ g' = singlestep(g)
          /\ \/ loops' = loops
             \/ g'.gcstate # "pause" /\ g'.next["tobefnz"] # NULL /\ loops' = <<0>> \o loops
  /\ Len(loops') <= MaxNested
  /\ doomed' = IF g.gcstate = "pause" THEN Garbage ELSE doomed
  /\ UNCHANGED stack

\* Whether runafewfinalizers calls another finalizer.
Due == g.next["tobefnz"] # NULL /\ Head(loops) < g.gcfinnum

\* The first object to be finalized becomes a normal one again and is handed to
\* its finalizer, whose code is the mutator's actions.
GCTM ==
  LET o == g.next["tobefnz"]
      c == [g EXCEPT !.next["tobefnz"] = g.next[o], !.next[o] = g.next["allgc"],
                     !.next["allgc"] = o, !.tofinalize = @ \ {o}]
  IN /\ loops # <<>> /\ Due
     /\ g' = IF issweepphase(c) THEN Paint(c, o, "white") ELSE c
     /\ loops' = [loops EXCEPT ![1] = @ + 1]
     /\ \E s \in Slot : stack[s] = NULL /\ stack' = [stack EXCEPT ![s] = o]
     /\ UNCHANGED doomed

\* The loop of runafewfinalizers ends; next time twice as many are called.
EndFinalizers ==
  /\ loops # <<>> /\ ~Due
  /\ g' = [g EXCEPT !.gcfinnum = IF g.next["tobefnz"] = NULL THEN 0 ELSE 2 * @]
  /\ loops' = Tail(loops)
  /\ UNCHANGED <<stack, doomed>>

\* A finalizer fails, and GCTM throws its error on.
FinalizerFails ==
  /\ loops # <<>> /\ Head(loops) > 0
  /\ loops' = Tail(loops)
  /\ UNCHANGED <<stack, g, doomed>>

RECURSIVE runtilpause(_)
runtilpause(c) == IF c.gcstate = "pause" THEN c ELSE runtilpause(singlestep(c))

\* luaC_fullgc: black objects are swept white and a cycle under way is
\* finished before the full one.
abandoncycle(c) == IF keepinvariant(c) THEN entersweep(c) ELSE c

\* In an emergency no finalizer runs, so tobefnz may outlive the cycle.
EmergencyGC ==
  /\ g' = runtilpause(singlestep(runtilpause(abandoncycle(g))))
  /\ doomed' = {}
  /\ UNCHANGED <<stack, loops>>

\* The start of an ordinary full collection; its steps are the collector's.
FullGC ==
  keepinvariant(g) /\ g' = abandoncycle(g) /\ doomed' = {} /\ UNCHANGED <<stack, loops>>

-----------------------------------------------------------------------------
(* The mutator. *)

\* luaC_newobj
New(o, s) ==
  /\ o \notin g.live /\ stack[s] = NULL
  /\ g' = [g EXCEPT !.live = @ \cup {o}, !.marked[o] = "white",
                    !.next[o] = g.next["allgc"], !.next["allgc"] = o]
  /\ stack' = [stack EXCEPT ![s] = o]
  /\ doomed' = doomed \ {o}
  /\ UNCHANGED loops

\* luaC_barrier_: the white object is marked, or the black one painted white.
luaC_barrier_(c, o, v) ==
  IF keepinvariant(c) THEN reallymarkobject(c, v) ELSE Paint(c, o, "white")

\* Mutant of luaC_barrierback_: only tables that are swept get a barrier.
luaC_barrierback_late(c, t) ==
  IF issweepphase(c) THEN Paint(c, t, "gray") ELSE c

\* luaC_barrierback_: the table turns gray again.
luaC_barrierback_(c, t) ==
  IF keepinvariant(c) THEN Push(Paint(c, t, "gray"), "grayagain", t) ELSE Paint(c, t, "gray")

\* t[k] = v; each table has room for one entry; only weak
\* keys are objects.
SetTable(t, k, v) ==
  LET c == [g EXCEPT !.key[t] = k, !.val[t] = v]
      pointstowhite == valiswhite(c, v) \/ (g.key[t] # k /\ valiswhite(c, k))
  IN /\ Kind[t] \notin {"udata", "thread"} /\ (Kind[t] \in {"strong", "v"} => k = NULL)
     /\ IF g.val[t] = NULL THEN v # NULL ELSE g.key[t] = k
     /\ g' = IF isblack(c, t) /\ pointstowhite THEN luaC_barrierback_(c, t) ELSE c

\* lua_setuservalue
SetUservalue(u, v) ==
  LET c == [g EXCEPT !.val[u] = v] IN
  /\ Kind[u] = "udata"
  /\ g' = IF isblack(c, u) /\ valiswhite(c, v) THEN luaC_barrier_(c, u, v) ELSE c

Store ==
  /\ \E o \in Held, v \in Held \cup {NULL} :
       SetUservalue(o, v) \/ (\E k \in Held \cup {NULL} : SetTable(o, k, v))
  /\ UNCHANGED <<stack, loops, doomed>>

Load ==
  /\ \E s \in Slot, o \in Held : stack' = [stack EXCEPT ![s] = g.val[o]]
  /\ UNCHANGED <<g, loops, doomed>>

\* Mutant of luaC_checkfinalizer: sweepgc may be left at an object that moves.
luaC_checkfinalizer_unswept(o) ==
  LET p == CHOOSE p \in DOMAIN g.next : g.next[p] = o
  IN /\ o \notin g.tofinalize
     /\ g' = [g EXCEPT !.next[p] = g.next[o], !.next[o] = g.next["finobj"],
                       !.next["finobj"] = o, !.tofinalize = @ \cup {o}]

\* setmetatable with __gc: o moves from allgc to finobj; when o is where the
\* sweep stands, the sweep moves on first.
luaC_checkfinalizer(o) ==
  LET c1 == IF issweepphase(g) THEN Paint(g, o, "white") ELSE g
      c2 == IF issweepphase(g) /\ g.sweepgc = o THEN sweeptolive(c1, o) ELSE c1
      p == CHOOSE p \in DOMAIN c2.next : c2.next[p] = o
  IN /\ o \notin g.tofinalize
     /\ g' = [c2 EXCEPT !.next[p] = c2.next[o], !.next[o] = c2.next["finobj"],
                        !.next["finobj"] = o, !.tofinalize = @ \cup {o}]

SetFinalizer ==
  /\ \E o \in Held : Kind[o] = "udata" /\ luaC_checkfinalizer(o)
  /\ UNCHANGED <<stack, loops, doomed>>

Collector == Step \/ GCTM \/ EndFinalizers \/ FinalizerFails

Mutator == Store \/ Load \/ SetFinalizer \/ \E o \in Heap, s \in Slot : New(o, s)

Next == Collector \/ FullGC \/ EmergencyGC \/ Mutator

Spec == Init /\ [][Next]_vars

-----------------------------------------------------------------------------

\* What counts as strongly reachable: through the value of an ephemeron only
\* when its key is reachable, never through a weak reference.
Strong(o, S) ==
  CASE Kind[o] = "v" -> IF g.val[o] = NULL THEN {} ELSE {g.key[o]}
    [] Kind[o] = "kv" -> {}
    [] Kind[o] = "k" -> IF g.key[o] \in S \cup {NULL} THEN {g.val[o]} ELSE {}
    [] OTHER -> IF g.val[o] = NULL THEN {} ELSE {g.key[o], g.val[o]}

RECURSIVE ReachStrong(_)
ReachStrong(S) ==
  LET T == S \cup (UNION {Strong(o, S) : o \in S} \ {NULL})
  IN IF T = S THEN S ELSE ReachStrong(T)

\* A finalizer that runs between two steps of the sweep of tobefnz moves the
\* object that sweepgc stands at, and the sweep goes on in allgc: what is left
\* of tobefnz stays black (udata2finalize, lgc.c:770-780).  The properties with
\* this condition hold until the first time that happens.
AllSwept(c) == c.unswept = {}

\* The mutator never meets a freed object: not on its stack, not through any
\* table, weak or strong, and not in what a finalizer will be given.
NoDanglingReference == AllSwept(g) => ReachAll(Held \cup Pending) \subseteq g.live

Listed(list) == {g[list][i] : i \in DOMAIN g[list]}
GrayLists == {"gray", "grayagain", "weak", "allweak", "ephemeron"}

\* lgc.h's invariant: while marking, no black object points to a white one
\* and every gray object waits in exactly one gray list.
TriColour ==
  keepinvariant(g) /\ AllSwept(g) =>
    /\ \A o \in g.live : isblack(g, o) => \A v \in Strong(o, {}) : ~valiswhite(g, v)
    /\ \A o \in g.live \cup {mainthread} : g.marked[o] = "gray" =>
         Cardinality({list \in GrayLists : o \in Listed(list)}) = 1

\* What is freed was inaccessible, where what ephemerons and weak tables keep
\* alive is defined independently of how the collector goes about it.
FreesInaccessible == (g.live \ g'.live) \cap ReachStrong(Held \cup Pending) = {}

\* Only garbage is freed, and only garbage is handed to finalizers.
CollectsOnlyGarbage ==
  [][AllSwept(g') =>
       FreesInaccessible /\ (Pending' \ Pending) \cap ReachStrong(Held) = {}]_vars

\* What the manual says of the collector, whatever the sweep has passed over:
\* "all dead objects", and no others, are those no longer accessible
\* (src/lua/doc/manual.html:675-677).
CollectsOnlyInaccessible == [][FreesInaccessible]_vars

\* The collector takes an entry out of a weak table only for a dead key or
\* value, and never out of a strong one.  A weak value is dead even if a
\* finalizer is about to see it; a weak key is not.
ClearsOnlyDead ==
  [][(Collector \/ EmergencyGC) /\ AllSwept(g') =>
       \A t \in g.live \cap g'.live :
         g.val[t] # NULL /\ g'.val[t] = NULL =>
           \/ Kind[t] \in {"k", "kv"} /\ g.key[t] \notin ReachStrong(Held \cup Pending')
           \/ Kind[t] \in {"v", "kv"} /\ g.val[t] \notin ReachStrong(Held)]_vars

\* What was garbage when a cycle began is gone when its sweep ends, whatever
\* the mutator did meanwhile, and an emergency collection frees all garbage.
FreesGarbage ==
  [][/\ g.gcstate = "swpend" /\ g'.gcstate = "callfin" /\ AllSwept(g) =>
          doomed \cap g'.live = {}
     /\ EmergencyGC /\ AllSwept(g') => Garbage \cap g'.live = {}]_vars

=============================================================================
