------------------------------ MODULE LuaTable ------------------------------
(***************************************************************************)
(* The tables of src/lua/src/ltable.c: an array part and a hash part with  *)
(* Brent's variation of chained scatter, where a traversal, the program's  *)
(* stores and the collector (which marks the keys of nil entries dead)     *)
(* interleave.  The value stored under a key is the key itself, so that a  *)
(* misplaced value shows; a hash is the key's number.                      *)
(*                                                                         *)
(* The re-insertions of a resize are steps of their own: `todo` holds what *)
(* its two loops have yet to put, and nothing else happens meanwhile.      *)
(***************************************************************************)
EXTENDS Integers, Sequences, FiniteSets, Comm

CONSTANTS
  Ints,    \* integer keys
  Floats,  \* those that are also used as the equal float
  Strings, \* numbers (hashes) of string keys
  MAXABITS, \* log2 of the largest array part (31 in the code)
  MAX_INT   \* where unbound_search gives up doubling

ASSUME TableAssumption ==
  /\ Ints \subseteq Nat /\ Floats \subseteq Ints /\ Strings \subseteq Nat
  /\ MAXABITS \in Nat /\ MAX_INT \in Nat

VARIABLES
  t,       \* the table: its array, its nodes and lastfree
  todo,    \* what a resize under way has still to insert, in order
  content, \* the map the table stands for
  key,     \* the control variable of a traversal, NULL when there is none
  seen,    \* history: the keys that the traversal has visited
  due      \* history: the keys that it must visit

vars == <<t, todo, content, key, seen, due>>

int(n) == [tt |-> "int", n |-> n]
Key == {int(n) : n \in Ints} \cup {[tt |-> "str", n |-> n] : n \in Strings}
Given == Key \cup {[tt |-> "flt", n |-> n] : n \in Floats}

ASSUME NullAssumption == NULL \notin Given \cup Nat

Free == [key |-> NULL, val |-> NULL, next |-> 0, dead |-> FALSE]
dummynode == [node |-> [n \in {0} |-> Free], dummy |-> TRUE, lastfree |-> 0]
luaH_new == [array |-> <<>>, node |-> dummynode.node, dummy |-> TRUE, lastfree |-> 0]

sizenode(h) == Cardinality(DOMAIN h.node)
sizearray(h) == Len(h.array)
Used(h) == {n \in DOMAIN h.node : h.node[n].val # NULL}

\* numisinteger: a float key with an integer value is that integer.
normal(k) == IF k.tt = "flt" THEN int(k.n) ELSE k

mainposition(h, k) == k.n % sizenode(h)

\* Where a walk along the links from node m is after i steps; it stays at the
\* last node.
walk(h, m) == LET p[i \in Nat] == IF i = 0 THEN m ELSE p[i - 1] + h.node[p[i - 1]].next IN p
Linked(h, m) == {walk(h, m)[i] : i \in 0 .. sizenode(h) - 1}

First(S) == CHOOSE i \in S : \A j \in S : i <= j
Last(S) == CHOOSE i \in S : \A j \in S : j <= i

\* Where the key is in its chain, NULL if nowhere.  Only a traversal
\* recognises a dead key.
search(h, k, dead) ==
  LET p == walk(h, mainposition(h, k))
      found == {i \in 0 .. sizenode(h) - 1 :
                  h.node[p[i]].key = k /\ (h.node[p[i]].dead => dead)}
  IN IF found = {} THEN NULL ELSE p[First(found)]

inarray(h, k) == k.tt = "int" /\ k.n \in DOMAIN h.array

\* luaH_get and luaH_getint
luaH_get(h, given) ==
  LET k == normal(given) IN
  IF inarray(h, k) THEN h.array[k.n]
  ELSE LET n == search(h, k, FALSE) IN IF n = NULL THEN NULL ELSE h.node[n].val

-----------------------------------------------------------------------------
(* Rehash. *)

twoto[i \in Nat] == IF i = 0 THEN 1 ELSE 2 * twoto[i - 1]
luaO_ceillog2(x) == First({l \in 0 .. x : x <= twoto[l]})

\* numusearray, numusehash and the extra key ek: how many keys that fit an
\* array lie in each slice (2^(lg-1), 2^lg].
Candidates(h, ek) ==
  {k \in {int(i) : i \in {j \in DOMAIN h.array : h.array[j] # NULL}}
         \cup {h.node[n].key : n \in Used(h)} \cup {ek} :
     k.tt = "int" /\ k.n \in 1 .. twoto[MAXABITS]}
nums(h, ek) ==
  [lg \in 0 .. MAXABITS |-> Cardinality({k \in Candidates(h, ek) : luaO_ceillog2(k.n) = lg})]
totaluse(h) == Cardinality({j \in DOMAIN h.array : h.array[j] # NULL}) + Cardinality(Used(h)) + 1

\* Mutants of computesizes: the extra key is not left room for; no array part.
computesizes_full(ns, narray) == [n |-> 0, na |-> narray]
computesizes_none(ns, narray) == [n |-> 0, na |-> 0]

\* The array size n, of which na will be used.  a: the keys up to 2^i; the loop
\* ends when half of 2^i would be too much or when all keys are counted.
computesizes(ns, narray) ==
  LET a[i \in 0 .. MAXABITS] == ns[i] + (IF i = 0 THEN 0 ELSE a[i - 1])
      turns == {i \in 0 .. MAXABITS :
                  twoto[i] \div 2 < narray /\ \A j \in 0 .. i - 1 : a[j] # narray}
      good == {i \in turns : ns[i] > 0 /\ a[i] > twoto[i] \div 2}
  IN IF good = {} THEN [n |-> 0, na |-> 0]
     ELSE [n |-> twoto[Last(good)], na |-> a[Last(good)]]

setarrayvector(h, size) ==
  [h EXCEPT !.array = [i \in 1 .. size |-> IF i <= Len(@) THEN @[i] ELSE NULL]]

setnodevector(h, size) ==
  IF size = 0 THEN [h EXCEPT !.node = dummynode.node, !.dummy = TRUE, !.lastfree = 0]
  ELSE LET n == twoto[luaO_ceillog2(size)]
       IN [h EXCEPT !.node = [i \in 0 .. n - 1 |-> Free], !.dummy = FALSE, !.lastfree = n]

\* An entry to be inserted; nothing is when its value is nil.
Entry(k, v) == [key |-> IF v = NULL THEN NULL ELSE k, val |-> v]

\* The table with its new vectors, and the loops to come: the elements of the
\* slice that vanishes, then the old nodes from the last to the first.
luaH_resize(h, nasize, nhsize) ==
  LET vanishing == [i \in 1 .. sizearray(h) - nasize |-> Entry(int(nasize + i), h.array[nasize + i])]
      OldNode(j) == h.node[sizenode(h) - j]
      old == [j \in 1 .. sizenode(h) |-> Entry(OldNode(j).key, OldNode(j).val)]
  IN [t |-> setnodevector(setarrayvector(h, nasize), nhsize), todo |-> vanishing \o old]

luaH_resizearray(h, nasize) == luaH_resize(h, nasize, IF h.dummy THEN 0 ELSE sizenode(h))

rehash(h, ek) ==
  LET r == computesizes(nums(h, ek), Cardinality(Candidates(h, ek)))
  IN luaH_resize(h, r.n, totaluse(h) - r.na)

-----------------------------------------------------------------------------
(* Insertion. *)

\* The last node below lastfree that has no key, NULL if there is none; where
\* lastfree then stands.
freeposition(h) ==
  LET free == {n \in DOMAIN h.node : n < h.lastfree /\ h.node[n].key = NULL}
  IN IF free = {} THEN NULL ELSE Last(free)
getfreepos(h) == [h EXCEPT !.lastfree = IF freeposition(h) = NULL THEN 0 ELSE freeposition(h)]

Fill(h, n, k, v) == [h EXCEPT !.node[n].key = k, !.node[n].val = v, !.node[n].dead = FALSE]

Previous(h, othern, mp) ==
  CHOOSE n \in Linked(h, othern) : h.node[n].next # 0 /\ n + h.node[n].next = mp

\* Mutant of movecolliding: the offset of the moved node is not corrected.
movecolliding_offset(h, mp, f, othern) ==
  LET previous == Previous(h, othern, mp)
  IN [h EXCEPT !.node[previous].next = f - previous,
               !.node[f] = [h.node[mp] EXCEPT !.next = 0],
               !.node[mp] = [h.node[mp] EXCEPT !.next = 0, !.val = NULL]]

\* The node in mp is out of its main position othern: it moves to f and the
\* new key takes its place.
movecolliding(h, mp, f, othern) ==
  LET previous == Previous(h, othern, mp)
      next == h.node[mp].next
  IN [h EXCEPT !.node[previous].next = f - previous,
               !.node[f] = [h.node[mp] EXCEPT !.next = IF next = 0 THEN 0 ELSE next + mp - f],
               !.node[mp] = [h.node[mp] EXCEPT !.next = 0, !.val = NULL]]

\* The free node is linked behind the main position.
chainfree(h, mp, f) ==
  LET next == h.node[mp].next
  IN [h EXCEPT !.node[f].next = IF next = 0 THEN 0 ELSE mp + next - f,
               !.node[mp].next = f - mp]

\* The key would go to a taken node and there is no free one.
Full(h, k) == (h.node[mainposition(h, k)].val # NULL \/ h.dummy) /\ freeposition(h) = NULL

\* The new key's entry; rest is what remains to be inserted after it.  When the
\* table is full, the insertion is tried again once the rehash is over.
luaH_newkey(h, k, v, rest) ==
  LET mp == mainposition(h, k)
      f == freeposition(h)
      g == getfreepos(h)
      othern == mainposition(h, h.node[mp].key)
      r == rehash(g, k)
  IN IF Full(h, k) THEN [t |-> r.t, todo |-> r.todo \o <<[key |-> k, val |-> v]>> \o rest]
     ELSE [todo |-> rest,
           t |-> IF h.node[mp].val = NULL /\ ~h.dummy THEN Fill(h, mp, k, v)
                 ELSE IF othern # mp THEN Fill(movecolliding(g, mp, f, othern), mp, k, v)
                 ELSE Fill(chainfree(g, mp, f), f, k, v)]

\* luaH_set or luaH_setint, with the assignment that follows.
luaH_put(h, given, v, rest) ==
  LET k == normal(given)
      n == search(h, k, FALSE)
  IN IF inarray(h, k) THEN [t |-> [h EXCEPT !.array[k.n] = v], todo |-> rest]
     ELSE IF n # NULL THEN [t |-> [h EXCEPT !.node[n].val = v], todo |-> rest]
     ELSE luaH_newkey(h, k, v, rest)

-----------------------------------------------------------------------------
(* Traversal and length. *)

\* The number of a key in the order of traversals, NULL for an invalid key.
findindex(h, k) ==
  IF k = NULL THEN 0
  ELSE IF inarray(h, k) THEN k.n
  ELSE LET n == search(h, k, TRUE) IN IF n = NULL THEN NULL ELSE n + 1 + sizearray(h)

\* The key at index i of the order, if its value is not nil.
keyat(h, i) ==
  IF i <= sizearray(h) THEN IF h.array[i] = NULL THEN NULL ELSE int(i)
  ELSE LET e == h.node[i - sizearray(h) - 1] IN IF e.val = NULL THEN NULL ELSE e.key

\* Mutant of luaH_next: the last key of the array part ends the traversal.
luaH_next_array(h, k) ==
  LET rest == {i \in findindex(h, k) + 1 .. sizearray(h) + sizenode(h) : keyat(h, i) # NULL}
  IN IF rest = {} \/ (k # NULL /\ findindex(h, k) = sizearray(h)) THEN NULL
     ELSE keyat(h, First(rest))

luaH_next(h, k) ==
  LET rest == {i \in findindex(h, k) + 1 .. sizearray(h) + sizenode(h) : keyat(h, i) # NULL}
  IN IF rest = {} THEN NULL ELSE keyat(h, First(rest))

present(h, i) == luaH_get(h, int(i)) # NULL

\* One turn of the loop of binarysearch.
halve(h, i, j) ==
  LET m == (i + j) \div 2
  IN IF j - i <= 1 THEN <<i, j>> ELSE IF present(h, m) THEN <<m, j>> ELSE <<i, m>>

\* The indices after n turns.
halves(h, i, j) ==
  LET p[n \in Nat] == IF n = 0 THEN <<i, j>> ELSE halve(h, p[n - 1][1], p[n - 1][2]) IN p

\* i is zero or present and j is not; used for the array part as well.
binarysearch(h, i, j) == halves(h, i, j)[j - i][1]

linearsearch(h) == First({i \in 1 .. sizearray(h) + sizenode(h) + 1 : ~present(h, i)}) - 1

\* The index that the loop of unbound_search tries in turn n.
probe(j) == LET p[n \in Nat] == IF n = 0 THEN j + 1 ELSE 2 * p[n - 1] IN p

unbound_search(h, j) ==
  LET stop == First({n \in 0 .. MAX_INT : ~present(h, probe(j)[n]) \/ probe(j)[n] > MAX_INT \div 2})
      top == probe(j)[stop]
  IN IF present(h, top) THEN linearsearch(h)
     ELSE binarysearch(h, IF stop = 0 THEN j ELSE probe(j)[stop - 1], top)

\* Mutant of luaH_getn: the array part ends at its last slot.
luaH_getn_array(h) ==
  IF h.dummy THEN sizearray(h) ELSE unbound_search(h, sizearray(h))

luaH_getn(h) ==
  LET j == sizearray(h) IN
  IF j > 0 /\ h.array[j] = NULL THEN binarysearch(h, 0, j)
  ELSE IF h.dummy THEN j
  ELSE unbound_search(h, j)

-----------------------------------------------------------------------------

Init ==
  /\ t = luaH_new /\ todo = <<>> /\ content = [k \in Key |-> NULL]
  /\ key = NULL /\ seen = {} /\ due = {}

\* An assignment to a field; during a traversal only to an existing one.
\* Clearing an absent field still creates its entry, as in luaV_settable.
Set(given, v) ==
  LET k == normal(given)
      r == luaH_put(t, given, v, <<>>)
  IN /\ todo = <<>> /\ (due # {} => content[k] # NULL)
     /\ t' = r.t /\ todo' = r.todo
     /\ content' = [content EXCEPT ![k] = v]
     /\ due' = IF v = NULL THEN due \ {k} ELSE due
     /\ UNCHANGED <<key, seen>>

\* One turn of the loops of luaH_resize, or the insertion a rehash was for.
Reinsert ==
  LET e == Head(todo)
      r == luaH_put(t, e.key, e.val, Tail(todo))
  IN /\ todo # <<>>
     /\ IF e.key = NULL THEN todo' = Tail(todo) /\ UNCHANGED t
        ELSE t' = r.t /\ todo' = r.todo
     /\ UNCHANGED <<content, key, seen, due>>

\* OP_SETLIST makes room for the items of a constructor.
SetList(last) ==
  LET r == luaH_resizearray(t, last) IN
  /\ todo = <<>> /\ due = {} /\ last > sizearray(t)
  /\ t' = r.t /\ todo' = r.todo
  /\ UNCHANGED <<content, key, seen, due>>

\* removeentry in lgc.c
DeadKey(n) ==
  /\ todo = <<>> /\ t.node[n].val = NULL /\ t.node[n].key # NULL /\ t.node[n].key.tt = "str"
  /\ t' = [t EXCEPT !.node[n].dead = TRUE]
  /\ UNCHANGED <<todo, content, key, seen, due>>

StartTraversal ==
  /\ todo = <<>> /\ due = {} /\ due' = {k \in Key : content[k] # NULL}
  /\ key' = NULL /\ seen' = {}
  /\ UNCHANGED <<t, todo, content>>

\* lua_next until it returns no key.
NextKey ==
  LET k == luaH_next(t, key) IN
  /\ due # {} /\ findindex(t, key) # NULL
  /\ key' = k
  /\ IF k = NULL THEN seen' = {} /\ due' = {} ELSE seen' = seen \cup {k} /\ UNCHANGED due
  /\ UNCHANGED <<t, todo, content>>

Next ==
  \/ \E k \in Given : Set(k, normal(k)) \/ Set(k, NULL)
  \/ Reinsert
  \/ SetList(2)
  \/ \E n \in DOMAIN t.node : DeadKey(n)
  \/ StartTraversal \/ NextKey

Spec == Init /\ [][Next]_vars

-----------------------------------------------------------------------------

\* Every entry in use can be reached from its main position, which the loop of
\* luaH_newkey that looks for a colliding node's predecessor relies on.
ChainsComplete == \A n \in Used(t) : n \in Linked(t, mainposition(t, t.node[n].key))

\* Whatever was stored under a key, and only that, is found under it: no
\* collision, move, rehash or dead key loses or revives an entry, and none
\* breaks a chain for the insertions to come.
FindsWhatWasStored ==
  todo = <<>> => ChainsComplete /\ \A k \in Given : luaH_get(t, k) = content[normal(k)]

\* The insertions that rehash the table.
Rehashes(k) == ~inarray(t, k) /\ search(t, k, FALSE) = NULL /\ Full(t, k)

\* A resize makes room for all entries, and a rehash for the key it was called
\* for too: the insertions that follow do not rehash again.
RehashMakesRoom == todo # <<>> /\ Head(todo).key # NULL => ~Rehashes(Head(todo).key)

\* luaH_getn returns a boundary (the comment above it, ltable.c:619-622).
LengthIsBoundary ==
  LET n == luaH_getn(t)
      Present(i) == i \in Ints /\ content[int(i)] # NULL
  IN todo = <<>> => (n = 0 \/ Present(n)) /\ ~Present(n + 1)

\* The array part that a rehash chooses is the largest power of two of whose
\* slots more than half are used.  (The code and the comment of computesizes
\* say more than half, the comment at ltable.c:16-18 at least half.)
ArrayMoreThanHalfUsed ==
  \A k \in {k \in Key : todo = <<>> /\ Rehashes(k)} :
    LET Below(n) == Cardinality({c \in Candidates(t, k) : c.n <= n})
        good == {i \in 0 .. MAXABITS : Below(twoto[i]) > twoto[i] \div 2}
    IN sizearray(rehash(t, k).t) = IF good = {} THEN 0 ELSE twoto[Last(good)]

\* A traversal that only clears or changes existing fields, with collections
\* in between, never fails and visits every field that stays, once.
TraversalComplete ==
  [][due # {} => /\ key # NULL => findindex(t, key) # NULL
                 /\ due' = {} /\ key' = NULL /\ key # NULL => due \subseteq seen
                 /\ key' # key /\ key' # NULL => key' \notin seen /\ content[key'] # NULL]_vars

=============================================================================
