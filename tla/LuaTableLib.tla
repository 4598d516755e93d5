----------------------------- MODULE LuaTableLib -----------------------------
(***************************************************************************)
(* The table library, src/lua/src/ltablib.c: sort as a machine whose steps *)
(* are the calls of the order function, and the other functions as         *)
(* operators on tables without metamethods.                                *)
(***************************************************************************)
EXTENDS Integers, Sequences, SequencesExt, FiniteSets

CONSTANTS
  MAXSORT,   \* elements of the arrays to sort
  RANKS,     \* values of their elements
  MAXRESULTS \* values that unpack may return

VARIABLES
  array,     \* the elements, which are their first places
  order,     \* their values, or AnyOrder for an order function that has none
  todo,      \* the bounds l and u of auxsort's calls, the innermost last
  at,        \* in the innermost: the next comparison, i, j and the pivot
  compared   \* how often the order function has been called

sortvars == <<array, order, todo, at, compared>>

-----------------------------------------------------------------------------
(* sort *)

AnyOrder == <<>>
l == Last(todo).l
u == Last(todo).u
segment(lo, hi) == [l |-> lo, u |-> hi]

\* The calls that still have elements to sort, once the innermost ones end.
Unsorted(calls) ==
  LET live == {n \in DOMAIN calls : calls[n].l < calls[n].u}
  IN IF live = {} THEN <<>> ELSE SubSeq(calls, 1, CHOOSE n \in live : \A k \in live : k <= n)
Loop(calls) ==
  /\ todo' = Unsorted(calls)
  /\ at' = [pc |-> IF Unsorted(calls) = <<>> THEN "done" ELSE "ends", i |-> 0, j |-> 0, p |-> 0]

\* set2, after a[i] and a[j] have been read in the order of their places.
set2(a, i, j) == [a EXCEPT ![i] = a[j], ![j] = a[i]]

\* Calls the order function; without an order it may answer anything.
sort_comp(less, x, y) ==
  /\ less \in (IF order = AnyOrder THEN BOOLEAN ELSE {order[x] < order[y]})
  /\ compared' = compared + 1
  /\ UNCHANGED order

\* a[u] < a[l]?
Ends(less) ==
  /\ at.pc = "ends"
  /\ sort_comp(less, array[u], array[l])
  /\ array' = IF less THEN set2(array, l, u) ELSE array
  /\ IF u - l = 1 THEN Loop(Front(todo))
     ELSE at' = [at EXCEPT !.pc = "middle", !.i = (l + u) \div 2] /\ UNCHANGED todo

\* Takes the pivot from the middle to u - 1, unless there are only 3 elements.
Pivot(a) ==
  IF u - l = 2 THEN array' = a /\ Loop(Front(todo))
  ELSE /\ array' = set2(a, at.i, u - 1)
       /\ at' = [pc |-> "up", i |-> l, j |-> u - 1, p |-> a[at.i]]
       /\ UNCHANGED todo

\* a[i] < a[l]?
Middle(less) ==
  /\ at.pc = "middle"
  /\ sort_comp(less, array[at.i], array[l])
  /\ IF less THEN Pivot(set2(array, at.i, l))
     ELSE at' = [at EXCEPT !.pc = "upper"] /\ UNCHANGED <<array, todo>>

\* a[u] < a[i]?
Upper(less) ==
  /\ at.pc = "upper"
  /\ sort_comp(less, array[u], array[at.i])
  /\ Pivot(IF less THEN set2(array, at.i, u) ELSE array)

\* Mutant of Up: the bound is one too great.
Up_beyond(less) ==
  LET i == at.i + 1 IN
  /\ at.pc = "up"
  /\ sort_comp(less, array[i], at.p)
  /\ at' = [at EXCEPT !.i = i, !.pc = IF ~less THEN "down" ELSE IF i > u THEN "error" ELSE "up"]
  /\ UNCHANGED <<array, todo>>

\* a[++i] < P?
Up(less) ==
  LET i == at.i + 1 IN
  /\ at.pc = "up"
  /\ sort_comp(less, array[i], at.p)
  /\ at' = [at EXCEPT !.i = i, !.pc = IF ~less THEN "down" ELSE IF i >= u THEN "error" ELSE "up"]
  /\ UNCHANGED <<array, todo>>

\* The pivot to its place, then the smaller part by a call and the larger one
\* in the loop.
Split(i) ==
  LET lower == segment(l, i - 1)
      upper == segment(i + 1, u)
  IN /\ array' = set2(array, u - 1, i)
     /\ Loop(Front(todo) \o (IF i - l < u - i THEN <<upper, lower>> ELSE <<lower, upper>>))

\* P < a[--j]?
Down(less) ==
  LET j == at.j - 1 IN
  /\ at.pc = "down"
  /\ sort_comp(less, at.p, array[j])
  /\ CASE less -> at' = [at EXCEPT !.j = j, !.pc = IF j <= l THEN "error" ELSE "down"] /\ UNCHANGED <<array, todo>>
       [] ~less /\ j < at.i -> Split(at.i)
       [] OTHER -> /\ array' = set2(array, at.i, j)
                   /\ at' = [at EXCEPT !.j = j, !.pc = "up"]
                   /\ UNCHANGED todo

SortInit ==
  \E n \in 0 .. MAXSORT :
    /\ array = [i \in 1 .. n |-> i]
    /\ order \in {AnyOrder} \cup [1 .. n -> RANKS]
    /\ todo = Unsorted(<<segment(1, n)>>)
    /\ at = [pc |-> IF n > 1 THEN "ends" ELSE "done", i |-> 0, j |-> 0, p |-> 0]
    /\ compared = 0
SortNext == \E less \in BOOLEAN : Ends(less) \/ Middle(less) \/ Upper(less) \/ Up(less) \/ Down(less)
SortSpec == SortInit /\ [][SortNext]_sortvars

\* The array can be halved as often as auxsort has called itself.
NestedFew ==
  todo = <<>> \/ \E half \in [0 .. Len(todo) -> 1 .. Len(array)] :
                   half[0] = Len(array) /\ \A k \in 1 .. Len(todo) : half[k] = half[k - 1] \div 2

\* Whatever the order function answers, sort reads and writes only the part
\* it sorts, has only moved elements whenever the function is called, and ends
\* in time and with few nested calls; with an order it ends sorted, and blames
\* the function only if that has no order.
SortsSafely ==
  /\ {array[i] : i \in DOMAIN array} = DOMAIN array
  /\ at.pc = "up" => at.i + 1 <= u
  /\ at.pc = "down" => at.j - 1 >= l
  /\ compared <= Len(array) * (Len(array) + 1)
  /\ NestedFew
  /\ order # AnyOrder => at.pc # "error"
  /\ order # AnyOrder /\ at.pc = "done" => \A i \in 2 .. Len(array) : order[array[i - 1]] <= order[array[i]]

-----------------------------------------------------------------------------
(* The other functions.  A table is a function from the places whose fields *)
(* are not nil.                                                             *)

NIL == 0
Failed == [error |-> TRUE, t |-> <<>>, results |-> <<>>]
Gives(t, results) == [error |-> FALSE, t |-> t, results |-> results]
geti(t, n) == IF n \in DOMAIN t THEN t[n] ELSE NIL
seti(t, n, v) == [k \in (IF v = NIL THEN DOMAIN t \ {n} ELSE DOMAIN t \cup {n}) |-> IF k = n THEN v ELSE t[k]]
len(t) == CHOOSE n \in 0 .. Cardinality(DOMAIN t) : geti(t, n + 1) = NIL /\ 1 .. n \subseteq DOMAIN t

\* An optional argument is a sequence of at most one value.
opt(arg, default) == IF arg = <<>> THEN default ELSE arg[1]

Ascending(i, j) == IF j < i THEN <<>> ELSE [n \in 1 .. j - i + 1 |-> i + n - 1]
\* Copies fields to places `distance` further on, one after the other.
Copies(t, places, distance) == FoldLeft(LAMBDA x, i : seti(x, i + distance, geti(x, i)), t, places)

\* insert(t, pos, v)
tinsert(t, arg, v) ==
  LET e == len(t) + 1
      pos == opt(arg, e)
  IN IF pos \notin 1 .. e THEN Failed
     ELSE Gives(seti(Copies(t, Reverse(Ascending(pos, e - 1)), 1), pos, v), <<>>)

tremove(t, arg) ==
  LET size == len(t)
      pos == opt(arg, size)
      last == IF pos > size THEN pos ELSE size
  IN IF pos # size /\ pos \notin 1 .. size + 1 THEN Failed
     ELSE Gives(seti(Copies(t, Ascending(pos + 1, size), -1), last, NIL), <<geti(t, pos)>>)

\* The order in which tmove copies: downwards if the target lies above.
MoveOrder(f, e, to) == IF to > f THEN Reverse(Ascending(f, e)) ELSE Ascending(f, e)

\* move(t, f, e, to) within t, or to the table tt if that is given.
tmove(t, f, e, to, tt) ==
  IF f <= 0 THEN Failed
  ELSE IF tt = <<>> THEN Gives(Copies(t, MoveOrder(f, e, to), to - f), <<>>)
  ELSE Gives(FoldLeft(LAMBDA x, i : seti(x, i + to - f, geti(t, i)), tt[1], MoveOrder(f, e, to)), <<>>)

\* The fields from i to j; any that is nil has no text.
tconcat(t, sep, i, arg) ==
  LET places == Ascending(i, opt(arg, len(t)))
  IN IF \E n \in DOMAIN places : geti(t, places[n]) = NIL THEN Failed
     ELSE Gives(t, FlattenSeq([n \in DOMAIN places |->
                     <<geti(t, places[n])>> \o (IF n < Len(places) THEN sep ELSE <<>>)]))

pack(values) == [n |-> Len(values), t |-> [i \in {j \in DOMAIN values : values[j] # NIL} |-> values[i]]]
unpack(t, i, arg) ==
  LET places == Ascending(i, opt(arg, len(t)))
  IN IF Len(places) > MAXRESULTS THEN Failed ELSE Gives(t, [n \in DOMAIN places |-> geti(t, places[n])])

=============================================================================
