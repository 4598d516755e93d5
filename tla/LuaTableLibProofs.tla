------------------------ MODULE LuaTableLibProofs ---------------------------
(***************************************************************************)
(* sort of src/lua/src/ltablib.c, for arrays of every length, every order  *)
(* and every way an order function that has none may answer.               *)
(***************************************************************************)
EXTENDS LuaTableLib, SequenceTheorems, WellFoundedInduction, TLAPS

\* Every nonempty set of naturals has a least element.
LEMMA LeastElement ==
  ASSUME NEW T \in SUBSET Nat, T # {}
  PROVE  \E x \in T : \A y \in T : x <= y
  <1> DEFINE R == {ss \in Nat \X Nat : ss[1] < ss[2]}
  <1>1. IsWellFoundedOn(R, Nat)
    BY NatLessThanWellFounded DEF OpToRel
  <1>2. PICK x \in T : \A y \in T : <<y, x>> \notin R
    <2> HIDE DEF R
    <2> QED
      BY <1>1, WFMin
  <1>3. ASSUME NEW y \in T
        PROVE  x <= y
    <2>1. <<y, x>> \notin R /\ x \in Nat /\ y \in Nat
      BY <1>2
    <2>2. QED
      BY <2>1
  <1>4. QED
    BY <1>3

-----------------------------------------------------------------------------

N == Len(array)
Within(x, s) == s.l <= x /\ x <= s.u
Size(s) == s.u - s.l + 1
Segment(n) == [l : 1 .. n + 1, u : 0 .. n]

\* The calls sort disjoint parts of the array ...
Stacked(n, calls) ==
  /\ calls \in Seq(Segment(n))
  /\ \A k \in 1 .. Len(calls) : calls[k].l <= calls[k].u + 1
  /\ \A j, k \in 1 .. Len(calls), x \in 1 .. n :
       Within(x, calls[j]) /\ Within(x, calls[k]) => j = k

\* ... each at most half as large as the one that made it was, ...
Halves(n, calls, half) ==
  /\ half[0] = n
  /\ \A k \in 1 .. Len(calls) : half[k] = half[k - 1] \div 2 /\ Size(calls[k]) <= half[k - 1]
  /\ \A j, k \in 0 .. Len(calls) : j <= k => half[k] <= half[j]

\* ... and w[k] calls of the order function are enough for the first k.
Costs(calls, w) ==
  /\ w[0] = 0
  /\ \A k \in 1 .. Len(calls) : w[k] = w[k - 1] + Size(calls[k]) * (Size(calls[k]) + 1)
  /\ \A j, k \in 0 .. Len(calls) : j <= k => w[j] <= w[k]

\* What two elements of b are that no call will compare any more.
Ordered(n, b, ord, calls) ==
  \A x, y \in 1 .. n :
    x < y => \/ ord[b[x]] <= ord[b[y]]
             \/ \E k \in 1 .. Len(calls) : Within(x, calls[k]) /\ Within(y, calls[k])

\* How often the innermost call has called the order function, at most.
Spent ==
  CASE at.pc \in {"ends", "done"} -> 0
    [] at.pc = "middle" -> 1
    [] at.pc = "upper" -> 2
    [] OTHER -> 3 + (at.i - l) + (u - 1 - at.j)

\* Where the innermost call is.
Position ==
  /\ at \in [pc : {"ends", "middle", "upper", "up", "down", "error", "done"},
             i : 0 .. N, j : 0 .. N, p : 0 .. N]
  /\ at.pc = "done" <=> todo = <<>>
  /\ at.pc # "done" => l < u
  /\ at.pc \in {"middle", "upper"} => u - l >= 2 /\ at.i \in l + 1 .. u - 1
  /\ at.pc = "up" => u - l >= 3 /\ at.i \in l .. u - 1 /\ at.j \in l + 1 .. u - 1
  /\ at.pc = "down" => u - l >= 3 /\ at.i \in l + 1 .. u /\ at.j \in l + 1 .. u - 1
  /\ at.pc = "error" => u - l >= 3 /\ at.i \in l + 1 .. u /\ at.j \in l .. u - 1
  /\ at.pc \in {"up", "down"} => at.p = array[u - 1]

\* With an order, what the comparisons so far have shown: the elements up to
\* at.i are at most the pivot, those from at.j on at least.
Compared ==
  /\ at.pc # "error"
  /\ at.pc \in {"middle", "upper"} => order[array[l]] <= order[array[u]]
  /\ at.pc = "upper" => order[array[l]] <= order[array[at.i]]
  /\ at.pc = "up" =>
       /\ at.i <= at.j /\ at.i <= u - 2
       /\ \A x \in l .. at.i : order[array[x]] <= order[at.p]
  /\ at.pc = "down" =>
       /\ at.i <= at.j + 1 /\ at.i <= u - 1
       /\ \A x \in l .. at.i - 1 : order[array[x]] <= order[at.p]
       /\ order[array[at.i]] >= order[at.p]
  /\ at.pc \in {"up", "down"} => \A x \in at.j .. u : order[array[x]] >= order[at.p]

\* The array is only ever permuted.
Permutation(n, b) == b \in [1 .. n -> 1 .. n] /\ {b[x] : x \in 1 .. n} = 1 .. n

Accounts(n, calls, called, spent) ==
  /\ \E half \in [0 .. Len(calls) -> 0 .. n] : Halves(n, calls, half)
  /\ \E w \in [0 .. Len(calls) -> Nat] :
       Costs(calls, w) /\ called + w[Len(calls)] <= n * (n + 1) + spent

SortInv ==
  /\ N \in Nat /\ Permutation(N, array)
  /\ order = AnyOrder \/ order \in [1 .. N -> Int]
  /\ compared \in Nat
  /\ Stacked(N, todo)
  /\ Accounts(N, todo, compared, Spent)
  /\ Position
  /\ order # AnyOrder => Ordered(N, array, order, todo) /\ Compared

-----------------------------------------------------------------------------
(* Trimming the stack of calls keeps all that is known of it. *)

LEMMA LastElement ==
  ASSUME NEW n \in Nat, NEW T \in SUBSET (1 .. n), T # {}
  PROVE  \E x \in T : \A y \in T : y <= x
  <1> DEFINE U == {n - y : y \in T}
  <1>1. U \in SUBSET Nat /\ U # {}
    <2>1. \A y \in T : n - y \in Nat
      OBVIOUS
    <2>2. U # {}
      OBVIOUS
    <2>3. QED
      BY <2>1, <2>2
  <1>2. PICK z \in U : \A y \in U : z <= y
    <2> HIDE DEF U
    <2> QED
      BY <1>1, LeastElement
  <1>3. PICK x \in T : z = n - x
    OBVIOUS
  <1>4. ASSUME NEW y \in T PROVE y <= x
    <2>1. n - x <= n - y
      BY <1>2, <1>3
    <2>2. QED
      BY <2>1
  <1>5. QED
    BY <1>4

LEMMA UnsortedFacts ==
  ASSUME NEW S, NEW calls \in Seq(S)
  PROVE  \E m \in 0 .. Len(calls) :
           /\ Unsorted(calls) \in Seq(S) /\ Len(Unsorted(calls)) = m
           /\ \A k \in 1 .. m : Unsorted(calls)[k] = calls[k]
           /\ \A k \in m + 1 .. Len(calls) : ~(calls[k].l < calls[k].u)
           /\ m > 0 => calls[m].l < calls[m].u
           /\ m = 0 <=> Unsorted(calls) = <<>>
  <1> DEFINE live == {n \in DOMAIN calls : calls[n].l < calls[n].u}
  <1>1. DOMAIN calls = 1 .. Len(calls) /\ Len(calls) \in Nat
    OBVIOUS
  <1>2. CASE live = {}
    <2>1. Unsorted(calls) = <<>>
      BY <1>2 DEF Unsorted
    <2>2. \A k \in 1 .. Len(calls) : ~(calls[k].l < calls[k].u)
      BY <1>1, <1>2
    <2>3. QED
      BY <2>1, <2>2
  <1>3. CASE live # {}
    <2> DEFINE m == CHOOSE n \in live : \A k \in live : k <= n
    <2>1. m \in live /\ \A k \in live : k <= m
      <3>1. live \in SUBSET (1 .. Len(calls))
        BY <1>1
      <3>. HIDE DEF live
      <3>2. \E n \in live : \A k \in live : k <= n
        BY <1>1, <1>3, <3>1, LastElement
      <3>3. QED
        BY <3>2
    <2>2. Unsorted(calls) = SubSeq(calls, 1, m)
      BY <1>3 DEF Unsorted
    <2>3. m \in 1 .. Len(calls) /\ calls[m].l < calls[m].u
      BY <1>1, <2>1
    <2>4. \A k \in m + 1 .. Len(calls) : ~(calls[k].l < calls[k].u)
      <3> TAKE k \in m + 1 .. Len(calls)
      <3>1. k \in 1 .. Len(calls) /\ ~(k <= m)
        BY <2>3
      <3>2. k \notin live
        BY <2>1, <3>1
      <3>3. QED
        BY <1>1, <3>1, <3>2
    <2>. HIDE DEF m
    <2>5. /\ SubSeq(calls, 1, m) \in Seq(S) /\ Len(SubSeq(calls, 1, m)) = m
          /\ \A k \in 1 .. m : SubSeq(calls, 1, m)[k] = calls[k]
      BY <1>1, <2>3
    <2>6. Unsorted(calls) # <<>> /\ m # 0 /\ m \in 0 .. Len(calls)
      BY <2>2, <2>3, <2>5
    <2>7. QED
      BY <2>2, <2>3, <2>4, <2>5, <2>6
  <1>4. QED
    BY <1>2, <1>3

LEMMA TrimKeeps ==
  ASSUME NEW n \in Nat, NEW b, NEW ord, NEW calls, Stacked(n, calls),
         NEW half \in [0 .. Len(calls) -> 0 .. n], Halves(n, calls, half),
         NEW w \in [0 .. Len(calls) -> Nat], Costs(calls, w)
  PROVE  /\ Stacked(n, Unsorted(calls))
         /\ \E h \in [0 .. Len(Unsorted(calls)) -> 0 .. n] : Halves(n, Unsorted(calls), h)
         /\ \E v \in [0 .. Len(Unsorted(calls)) -> Nat] :
              Costs(Unsorted(calls), v) /\ v[Len(Unsorted(calls))] <= w[Len(calls)]
         /\ Ordered(n, b, ord, calls) => Ordered(n, b, ord, Unsorted(calls))
         /\ Unsorted(calls) # <<>> => Last(Unsorted(calls)).l < Last(Unsorted(calls)).u
  <1>1. calls \in Seq(Segment(n))
    BY DEF Stacked
  <1>2. PICK m \in 0 .. Len(calls) :
          /\ Unsorted(calls) \in Seq(Segment(n)) /\ Len(Unsorted(calls)) = m
          /\ \A k \in 1 .. m : Unsorted(calls)[k] = calls[k]
          /\ \A k \in m + 1 .. Len(calls) : ~(calls[k].l < calls[k].u)
          /\ m > 0 => calls[m].l < calls[m].u
          /\ m = 0 <=> Unsorted(calls) = <<>>
    BY <1>1, UnsortedFacts
  <1>3. Len(calls) \in Nat /\ m \in Nat /\ m <= Len(calls)
    BY <1>1
  <1>4. PICK t : t = Unsorted(calls)
    OBVIOUS
  <1>5. /\ t \in Seq(Segment(n)) /\ Len(t) = m
        /\ \A k \in 1 .. m : t[k] = calls[k] /\ k \in 1 .. Len(calls)
    BY <1>2, <1>3, <1>4
  <1>6. Stacked(n, t)
    BY <1>5 DEF Stacked
  <1>7. \E h \in [0 .. m -> 0 .. n] : Halves(n, t, h)
    <2> DEFINE h == [k \in 0 .. m |-> half[k]]
    <2>1. h \in [0 .. m -> 0 .. n] /\ \A k \in 0 .. m : h[k] = half[k] /\ k \in 0 .. Len(calls)
      BY <1>3
    <2>. HIDE DEF h
    <2>2. h[0] = n
      BY <1>3, <2>1 DEF Halves
    <2>3. \A k \in 1 .. m : h[k] = h[k - 1] \div 2 /\ Size(t[k]) <= h[k - 1]
      <3> TAKE k \in 1 .. m
      <3>1. k \in 1 .. Len(calls) /\ k \in 0 .. m /\ k - 1 \in 0 .. m
        BY <1>3
      <3>2. half[k] = half[k - 1] \div 2 /\ Size(calls[k]) <= half[k - 1]
        BY <3>1 DEF Halves
      <3>3. QED
        BY <1>5, <2>1, <3>1, <3>2
    <2>4. \A j, k \in 0 .. m : j <= k => h[k] <= h[j]
      BY <2>1 DEF Halves
    <2>5. Halves(n, t, h)
      BY <1>5, <2>2, <2>3, <2>4 DEF Halves
    <2>6. QED
      BY <2>1, <2>5
  <1>8. \E v \in [0 .. m -> Nat] : Costs(t, v) /\ v[m] <= w[Len(calls)]
    <2> DEFINE v == [k \in 0 .. m |-> w[k]]
    <2>1. v \in [0 .. m -> Nat] /\ \A k \in 0 .. m : v[k] = w[k] /\ k \in 0 .. Len(calls)
      BY <1>3
    <2>. HIDE DEF v
    <2>2. v[0] = 0
      BY <1>3, <2>1 DEF Costs
    <2>3. \A k \in 1 .. m : v[k] = v[k - 1] + Size(t[k]) * (Size(t[k]) + 1)
      <3> TAKE k \in 1 .. m
      <3>1. k \in 1 .. Len(calls) /\ k \in 0 .. m /\ k - 1 \in 0 .. m
        BY <1>3
      <3>2. w[k] = w[k - 1] + Size(calls[k]) * (Size(calls[k]) + 1)
        BY <3>1 DEF Costs
      <3>3. QED
        BY <1>5, <2>1, <3>1, <3>2
    <2>4. \A j, k \in 0 .. m : j <= k => v[j] <= v[k]
      BY <2>1 DEF Costs
    <2>5. v[m] <= w[Len(calls)]
      <3>1. m \in 0 .. m /\ m \in 0 .. Len(calls) /\ Len(calls) \in 0 .. Len(calls)
        BY <1>3
      <3>2. w[m] <= w[Len(calls)]
        BY <1>3, <3>1 DEF Costs
      <3>3. QED
        BY <2>1, <3>1, <3>2
    <2>6. Costs(t, v)
      BY <1>5, <2>2, <2>3, <2>4 DEF Costs
    <2>7. QED
      BY <2>1, <2>5, <2>6
  <1>9. Ordered(n, b, ord, calls) => Ordered(n, b, ord, t)
    <2> SUFFICES ASSUME Ordered(n, b, ord, calls), NEW x \in 1 .. n, NEW y \in 1 .. n, x < y,
                        ~(ord[b[x]] <= ord[b[y]])
                 PROVE  \E k \in 1 .. Len(t) : Within(x, t[k]) /\ Within(y, t[k])
      BY DEF Ordered
    <2>1. PICK k \in 1 .. Len(calls) : Within(x, calls[k]) /\ Within(y, calls[k])
      BY DEF Ordered
    <2>2. calls[k].l < calls[k].u
      <3>1. calls[k] \in Segment(n)
        BY <1>1
      <3>2. QED
        BY <2>1, <3>1 DEF Within, Segment
    <2>3. k \in 1 .. m
      BY <1>2, <1>3, <2>2
    <2>4. QED
      BY <1>5, <2>1, <2>3
  <1>10. t # <<>> => Last(t).l < Last(t).u
    <2> SUFFICES ASSUME t # <<>> PROVE Last(t).l < Last(t).u
      OBVIOUS
    <2>1. m > 0 /\ m \in 1 .. m
      BY <1>2, <1>3, <1>4
    <2>2. QED
      BY <1>2, <1>5, <2>1 DEF Last
  <1>11. QED
    BY <1>4, <1>5, <1>6, <1>7, <1>8, <1>9, <1>10

-----------------------------------------------------------------------------
(* What an exchange of two elements of a part does. *)

\* c holds the elements of b, those of the part s at any place of that part.
Moved(n, b, c, s) ==
  \A x \in 1 .. n : \E y \in 1 .. n :
    c[x] = b[y] /\ (x = y \/ (Within(x, s) /\ Within(y, s)))

LEMMA LenOfFunction ==
  ASSUME NEW n \in Nat, NEW S, NEW b \in [1 .. n -> S]
  PROVE  b \in Seq(S) /\ Len(b) = n
  OBVIOUS

LEMMA Exchange ==
  ASSUME NEW n \in Nat, NEW b, Permutation(n, b), NEW i \in 1 .. n, NEW j \in 1 .. n
  PROVE  /\ Permutation(n, set2(b, i, j))
         /\ set2(b, i, j)[i] = b[j] /\ set2(b, i, j)[j] = b[i]
         /\ \A x \in 1 .. n : x # i /\ x # j => set2(b, i, j)[x] = b[x]
         /\ \A s : Within(i, s) /\ Within(j, s) => Moved(n, b, set2(b, i, j), s)
  <1> DEFINE c == set2(b, i, j)
  <1>1. b \in [1 .. n -> 1 .. n] /\ \A v \in 1 .. n : \E x \in 1 .. n : b[x] = v
    BY DEF Permutation
  <1>2. c \in [1 .. n -> 1 .. n]
    BY <1>1 DEF set2
  <1>3. c[i] = b[j] /\ c[j] = b[i] /\ \A x \in 1 .. n : x # i /\ x # j => c[x] = b[x]
    BY <1>1 DEF set2
  <1>. HIDE DEF c
  <1>4. \A v \in 1 .. n : \E x \in 1 .. n : c[x] = v
    <2> TAKE v \in 1 .. n
    <2>1. PICK x \in 1 .. n : b[x] = v
      BY <1>1
    <2>2. c[IF x = i THEN j ELSE IF x = j THEN i ELSE x] = v
      BY <1>3, <2>1
    <2>3. QED
      BY <2>2
  <1>5. {c[x] : x \in 1 .. n} = 1 .. n
    BY <1>2, <1>4
  <1>6. ASSUME NEW s, Within(i, s) /\ Within(j, s)
        PROVE  Moved(n, b, c, s)
    <2> SUFFICES ASSUME NEW x \in 1 .. n
                 PROVE  \E y \in 1 .. n : c[x] = b[y] /\ (x = y \/ (Within(x, s) /\ Within(y, s)))
      BY DEF Moved
    <2>1. CASE x = i
      BY <1>3, <1>6, <2>1
    <2>2. CASE x = j
      BY <1>3, <1>6, <2>2
    <2>3. CASE x # i /\ x # j
      BY <1>3, <2>3
    <2>4. QED
      BY <2>1, <2>2, <2>3
  <1>7. Permutation(n, c)
    BY <1>2, <1>5 DEF Permutation
  <1>8. QED
    BY <1>3, <1>6, <1>7 DEF c

\* Two exchanges in a part are a move in that part.
LEMMA MovedTwice ==
  ASSUME NEW n, NEW b, NEW c, NEW d, NEW s, Moved(n, b, c, s), Moved(n, c, d, s)
  PROVE  Moved(n, b, d, s)
  <1> SUFFICES ASSUME NEW x \in 1 .. n
               PROVE  \E y \in 1 .. n : d[x] = b[y] /\ (x = y \/ (Within(x, s) /\ Within(y, s)))
    BY DEF Moved
  <1>1. PICK y \in 1 .. n : d[x] = c[y] /\ (x = y \/ (Within(x, s) /\ Within(y, s)))
    BY DEF Moved
  <1>2. PICK z \in 1 .. n : c[y] = b[z] /\ (y = z \/ (Within(y, s) /\ Within(z, s)))
    BY DEF Moved
  <1>3. QED
    BY <1>1, <1>2

LEMMA NotMoved ==
  ASSUME NEW n, NEW b, NEW s
  PROVE  Moved(n, b, b, s)
  BY DEF Moved

LEMMA MoveKeepsOrder ==
  ASSUME NEW n \in Nat, NEW b, NEW c, NEW ord, NEW calls, Stacked(n, calls),
         NEW q \in 1 .. Len(calls), Moved(n, b, c, calls[q]), Ordered(n, b, ord, calls)
  PROVE  Ordered(n, c, ord, calls)
  <1> SUFFICES ASSUME NEW x \in 1 .. n, NEW y \in 1 .. n, x < y,
                      ~ \E k \in 1 .. Len(calls) : Within(x, calls[k]) /\ Within(y, calls[k])
               PROVE  ord[c[x]] <= ord[c[y]]
    BY DEF Ordered
  <1>1. PICK s : s = calls[q]
    OBVIOUS
  <1>2. s \in Segment(n) /\ ~(Within(x, s) /\ Within(y, s))
    BY <1>1 DEF Stacked
  <1>3. PICK v \in 1 .. n : c[x] = b[v] /\ (x = v \/ (Within(x, s) /\ Within(v, s)))
    BY <1>1 DEF Moved
  <1>4. PICK z \in 1 .. n : c[y] = b[z] /\ (y = z \/ (Within(y, s) /\ Within(z, s)))
    BY <1>1 DEF Moved
  <1>5. v < z
    BY <1>2, <1>3, <1>4 DEF Within, Segment
  <1>6. ASSUME NEW k \in 1 .. Len(calls), Within(v, calls[k]), Within(z, calls[k])
        PROVE  FALSE
    <2>1. CASE x = v /\ y = z
      BY <1>6, <2>1
    <2>2. CASE Within(x, s) /\ Within(v, s) /\ y = z
      <3>1. k = q
        BY <1>1, <1>6, <2>2 DEF Stacked
      <3>2. QED
        BY <1>1, <1>2, <1>6, <2>2, <3>1
    <2>3. CASE Within(y, s) /\ Within(z, s) /\ x = v
      <3>1. k = q
        BY <1>1, <1>6, <2>3 DEF Stacked
      <3>2. QED
        BY <1>1, <1>2, <1>6, <2>3, <3>1
    <2>4. QED
      BY <1>2, <1>3, <1>4, <2>1, <2>2, <2>3
  <1>7. ord[b[v]] <= ord[b[z]]
    BY <1>5, <1>6 DEF Ordered
  <1>8. QED
    BY <1>3, <1>4, <1>7

-----------------------------------------------------------------------------
(* The end of a call, and its two parts. *)

LEMMA PopKeeps ==
  ASSUME NEW n \in Nat, NEW b, NEW ord, NEW calls, Stacked(n, calls), calls # <<>>,
         NEW half \in [0 .. Len(calls) -> 0 .. n], Halves(n, calls, half),
         NEW w \in [0 .. Len(calls) -> Nat], Costs(calls, w)
  PROVE  /\ Stacked(n, Front(calls))
         /\ \E h \in [0 .. Len(Front(calls)) -> 0 .. n] : Halves(n, Front(calls), h)
         /\ \E v \in [0 .. Len(Front(calls)) -> Nat] :
              /\ Costs(Front(calls), v)
              /\ w[Len(calls)] = v[Len(Front(calls))] + Size(Last(calls)) * (Size(Last(calls)) + 1)
         /\ /\ Ordered(n, b, ord, calls)
            /\ \A x, y \in 1 .. n :
                 x < y /\ Within(x, Last(calls)) /\ Within(y, Last(calls)) => ord[b[x]] <= ord[b[y]]
            => Ordered(n, b, ord, Front(calls))
  <1>1. calls \in Seq(Segment(n)) /\ Len(calls) \in Nat \ {0}
    BY DEF Stacked
  <1>2. PICK m : m = Len(calls) - 1
    OBVIOUS
  <1>3. m \in Nat /\ Len(calls) = m + 1
    BY <1>1, <1>2
  <1>4. PICK t : t = Front(calls)
    OBVIOUS
  <1>5. /\ t \in Seq(Segment(n)) /\ Len(t) = m
        /\ \A k \in 1 .. m : t[k] = calls[k] /\ k \in 1 .. Len(calls)
    BY <1>1, <1>3, <1>4 DEF Front
  <1>6. Last(calls) = calls[m + 1]
    BY <1>3 DEF Last
  <1>7. Stacked(n, t)
    BY <1>5 DEF Stacked
  <1>8. \E h \in [0 .. m -> 0 .. n] : Halves(n, t, h)
    <2> DEFINE h == [k \in 0 .. m |-> half[k]]
    <2>1. h \in [0 .. m -> 0 .. n] /\ \A k \in 0 .. m : h[k] = half[k] /\ k \in 0 .. Len(calls)
      BY <1>3
    <2>. HIDE DEF h
    <2>2. h[0] = n
      BY <1>3, <2>1 DEF Halves
    <2>3. \A k \in 1 .. m : h[k] = h[k - 1] \div 2 /\ Size(t[k]) <= h[k - 1]
      <3> TAKE k \in 1 .. m
      <3>1. k \in 1 .. Len(calls) /\ k \in 0 .. m /\ k - 1 \in 0 .. m
        BY <1>3
      <3>2. half[k] = half[k - 1] \div 2 /\ Size(calls[k]) <= half[k - 1]
        BY <3>1 DEF Halves
      <3>3. QED
        BY <1>5, <2>1, <3>1, <3>2
    <2>4. \A j, k \in 0 .. m : j <= k => h[k] <= h[j]
      BY <2>1 DEF Halves
    <2>5. Halves(n, t, h)
      BY <1>5, <2>2, <2>3, <2>4 DEF Halves
    <2>6. QED
      BY <2>1, <2>5
  <1>9. \E v \in [0 .. m -> Nat] :
           Costs(t, v) /\ w[m + 1] = v[m] + Size(calls[m + 1]) * (Size(calls[m + 1]) + 1)
    <2> DEFINE v == [k \in 0 .. m |-> w[k]]
    <2>1. v \in [0 .. m -> Nat] /\ \A k \in 0 .. m : v[k] = w[k] /\ k \in 0 .. Len(calls)
      BY <1>3
    <2>. HIDE DEF v
    <2>2. v[0] = 0
      BY <1>3, <2>1 DEF Costs
    <2>3. \A k \in 1 .. m : v[k] = v[k - 1] + Size(t[k]) * (Size(t[k]) + 1)
      <3> TAKE k \in 1 .. m
      <3>1. k \in 1 .. Len(calls) /\ k \in 0 .. m /\ k - 1 \in 0 .. m
        BY <1>3
      <3>2. w[k] = w[k - 1] + Size(calls[k]) * (Size(calls[k]) + 1)
        BY <3>1 DEF Costs
      <3>3. QED
        BY <1>5, <2>1, <3>1, <3>2
    <2>4. \A j, k \in 0 .. m : j <= k => v[j] <= v[k]
      BY <2>1 DEF Costs
    <2>5. w[m + 1] = v[m] + Size(calls[m + 1]) * (Size(calls[m + 1]) + 1)
      <3>1. m + 1 \in 1 .. Len(calls) /\ m + 1 - 1 = m /\ m \in 0 .. m
        BY <1>3
      <3>2. w[m + 1] = w[m + 1 - 1] + Size(calls[m + 1]) * (Size(calls[m + 1]) + 1)
        BY <3>1 DEF Costs
      <3>3. QED
        BY <2>1, <3>1, <3>2
    <2>6. Costs(t, v)
      BY <1>5, <2>2, <2>3, <2>4 DEF Costs
    <2>7. QED
      BY <2>1, <2>5, <2>6
  <1>10. ASSUME Ordered(n, b, ord, calls),
                \A x, y \in 1 .. n :
                  x < y /\ Within(x, Last(calls)) /\ Within(y, Last(calls)) => ord[b[x]] <= ord[b[y]]
         PROVE  Ordered(n, b, ord, t)
    <2> SUFFICES ASSUME NEW x \in 1 .. n, NEW y \in 1 .. n, x < y, ~(ord[b[x]] <= ord[b[y]])
                 PROVE  \E k \in 1 .. Len(t) : Within(x, t[k]) /\ Within(y, t[k])
      BY DEF Ordered
    <2>1. PICK k \in 1 .. Len(calls) : Within(x, calls[k]) /\ Within(y, calls[k])
      BY <1>10 DEF Ordered
    <2>2. k # m + 1
      BY <1>6, <1>10, <2>1
    <2>3. k \in 1 .. m
      BY <1>3, <2>2
    <2>4. QED
      BY <1>5, <2>1, <2>3
  <1>11. QED
    BY <1>3, <1>4, <1>5, <1>6, <1>7, <1>8, <1>9, <1>10

\* Two parts of a call and the element between them cost less than the call.
LEMMA PartsCost ==
  ASSUME NEW x \in Nat, NEW y \in Nat, NEW z \in Nat, x + y + 1 = z
  PROVE  x * (x + 1) + y * (y + 1) + 2 * z <= z * (z + 1)
  <1>1. z * (z + 1) = x * (x + 1) + y * (y + 1) + 2 * (x * y) + 2 * z
    OBVIOUS
  <1>2. x * y \in Nat
    OBVIOUS
  <1>3. x * (x + 1) \in Nat /\ y * (y + 1) \in Nat /\ z * (z + 1) \in Nat
    OBVIOUS
  <1>4. QED
    BY <1>1, <1>2, <1>3

\* A and B are what is left of s without the element between them.
Parts(n, s, A, B) ==
  /\ A \in Segment(n) /\ A.l <= A.u + 1 /\ s.l <= A.l /\ A.u <= s.u
  /\ B \in Segment(n) /\ B.l <= B.u + 1 /\ s.l <= B.l /\ B.u <= s.u
  /\ A.u < B.l \/ B.u < A.l
  /\ Size(A) + Size(B) + 1 = Size(s) /\ Size(B) <= Size(A)

LEMMA PartsFacts ==
  ASSUME NEW n \in Nat, NEW s \in Segment(n), NEW A, NEW B, Parts(n, s, A, B)
  PROVE  /\ A \in Segment(n) /\ A.l <= A.u + 1
         /\ B \in Segment(n) /\ B.l <= B.u + 1
         /\ Size(A) \in Nat /\ Size(B) \in Nat /\ Size(s) \in Nat
         /\ Size(A) + Size(B) + 1 = Size(s) /\ Size(B) <= Size(A)
         /\ \A x \in 1 .. n : /\ Within(x, A) => Within(x, s)
                              /\ Within(x, B) => Within(x, s)
                              /\ ~(Within(x, A) /\ Within(x, B))
  <1>1. /\ s.l \in 1 .. n + 1 /\ s.u \in 0 .. n
        /\ A.l \in 1 .. n + 1 /\ A.u \in 0 .. n /\ A.l <= A.u + 1 /\ s.l <= A.l /\ A.u <= s.u
        /\ B.l \in 1 .. n + 1 /\ B.u \in 0 .. n /\ B.l <= B.u + 1 /\ s.l <= B.l /\ B.u <= s.u
        /\ A.u < B.l \/ B.u < A.l
    BY DEF Parts, Segment
  <1>2. /\ Size(A) = A.u - A.l + 1 /\ Size(B) = B.u - B.l + 1
        /\ Size(A) + Size(B) + 1 = Size(s) /\ Size(B) <= Size(A)
    BY DEF Parts, Size
  <1>3. Size(A) \in Nat /\ Size(B) \in Nat
    BY <1>1, <1>2
  <1>4. ASSUME NEW x \in 1 .. n
        PROVE  /\ Within(x, A) => Within(x, s)
               /\ Within(x, B) => Within(x, s)
               /\ ~(Within(x, A) /\ Within(x, B))
    BY <1>1 DEF Within
  <1>5. QED
    BY <1>2, <1>3, <1>4 DEF Parts

\* A stack with two more calls on it.
Concat(f, g) == f \o g

LEMMA TwoMore ==
  ASSUME NEW S, NEW f \in Seq(S), NEW g \in Seq(S), Len(g) = 2
  PROVE  /\ Concat(f, g) \in Seq(S) /\ Len(Concat(f, g)) = Len(f) + 2
         /\ \A k \in 1 .. Len(f) : Concat(f, g)[k] = f[k]
         /\ Concat(f, g)[Len(f) + 1] = g[1] /\ Concat(f, g)[Len(f) + 2] = g[2]
  <1> DEFINE e == Concat(f, g)
  <1>1. e = f \o g
    BY DEF Concat
  <1>. HIDE DEF e
  <1>2. /\ f \o g \in Seq(S)
        /\ Len(f \o g) = Len(f) + Len(g)
        /\ \A i \in 1 .. Len(f) + Len(g) :
             (f \o g)[i] = IF i <= Len(f) THEN f[i] ELSE g[i - Len(f)]
    BY ConcatProperties, Zenon
  <1>3. /\ e \in Seq(S)
        /\ Len(e) = Len(f) + Len(g)
        /\ \A i \in 1 .. Len(f) + Len(g) : e[i] = IF i <= Len(f) THEN f[i] ELSE g[i - Len(f)]
    BY <1>1, <1>2, Zenon
  <1>4. PICK m : m = Len(f)
    OBVIOUS
  <1>5. m \in Nat
    BY <1>4
  <1>6. Len(e) = m + 2 /\ \A i \in 1 .. m + 2 : e[i] = IF i <= m THEN f[i] ELSE g[i - m]
    BY <1>3, <1>4
  <1>7. \A k \in 1 .. m : e[k] = f[k]
    BY <1>5, <1>6
  <1>8. e[m + 1] = g[1]
    <2>1. m + 1 \in 1 .. m + 2 /\ ~(m + 1 <= m) /\ m + 1 - m = 1
      BY <1>5
    <2>2. \A i : i = m + 1 => e[i] = g[i - m]
      BY <1>6, <2>1
    <2>3. QED
      BY <1>5, <2>1, <2>2
  <1>9. e[m + 2] = g[2]
    <2>1. m + 2 \in 1 .. m + 2 /\ ~(m + 2 <= m) /\ m + 2 - m = 2
      BY <1>5
    <2>2. \A i : i = m + 2 => e[i] = g[i - m]
      BY <1>6, <2>1
    <2>3. QED
      BY <1>5, <2>1, <2>2
  <1>10. QED
    BY <1>3, <1>4, <1>6, <1>7, <1>8, <1>9 DEF e

\* The parts on the stack, instead of the call.
Divided(calls, A, B) == Concat(Front(calls), <<A, B>>)

LEMMA PartsStacked ==
  ASSUME NEW S, NEW calls \in Seq(S), Len(calls) # 0, NEW A \in S, NEW B \in S
  PROVE  \E e : /\ e = Concat(Front(calls), <<A, B>>) /\ e \in Seq(S)
                /\ Len(e) = Len(calls) + 1
                /\ \A k \in 1 .. Len(calls) - 1 : e[k] = calls[k]
                /\ e[Len(calls)] = A /\ e[Len(calls) + 1] = B
  <1>1. PICK f : f = Front(calls)
    OBVIOUS
  <1>2. f \in Seq(S) /\ Len(f) = Len(calls) - 1 /\ \A k \in 1 .. Len(calls) - 1 : f[k] = calls[k]
    <2>1. PICK m : m = Len(calls) - 1
      OBVIOUS
    <2>2. m \in Nat /\ Len(calls) = m + 1
      BY <2>1
    <2>3. f \in Seq(S) /\ Len(f) = m /\ \A k \in 1 .. m : f[k] = calls[k]
      BY <1>1, <2>2 DEF Front
    <2>4. QED
      BY <2>1, <2>3
  <1>3. PICK g : g = <<A, B>>
    OBVIOUS
  <1>4. g \in Seq(S) /\ Len(g) = 2 /\ g[1] = A /\ g[2] = B
    BY <1>3
  <1>5. f \in Seq(S) /\ g \in Seq(S) /\ Len(g) = 2
    BY <1>2, <1>4
  <1>6. /\ Concat(f, g) \in Seq(S) /\ Len(Concat(f, g)) = Len(f) + 2
        /\ \A k \in 1 .. Len(f) : Concat(f, g)[k] = f[k]
        /\ Concat(f, g)[Len(f) + 1] = g[1] /\ Concat(f, g)[Len(f) + 2] = g[2]
    BY <1>5, TwoMore
  <1>7. PICK e : e = Concat(f, g)
    OBVIOUS
  <1>8. e = Concat(Front(calls), <<A, B>>)
    BY <1>1, <1>3, <1>7
  <1>9. Len(f) + 2 = Len(calls) + 1 /\ Len(f) + 1 = Len(calls)
    BY <1>2
  <1>10. e \in Seq(S) /\ Len(e) = Len(calls) + 1 /\ \A k \in 1 .. Len(calls) - 1 : e[k] = f[k]
    BY <1>2, <1>6, <1>7, <1>9
  <1>11. e[Len(calls)] = A /\ e[Len(calls) + 1] = B
    BY <1>4, <1>6, <1>7, <1>9
  <1>12. QED
    BY <1>2, <1>8, <1>10, <1>11

LEMMA SplitHalves ==
  ASSUME NEW n \in Nat, NEW m \in Nat, NEW calls, Len(calls) = m + 1,
         NEW half \in [0 .. m + 1 -> 0 .. n], Halves(n, calls, half),
         NEW t, Len(t) = m + 2, \A k \in 1 .. m : t[k] = calls[k],
         NEW x \in Nat, NEW y \in Nat, NEW z \in Nat, x + y + 1 = z, y <= x,
         Size(calls[m + 1]) = z, Size(t[m + 1]) = x, Size(t[m + 2]) = y
  PROVE  \E h \in [0 .. m + 2 -> 0 .. n] : Halves(n, t, h)
  <1> DEFINE h == [k \in 0 .. m + 2 |-> IF k = m + 2 THEN half[m + 1] \div 2 ELSE half[k]]
  <1>1. m + 1 \in 0 .. m + 1 /\ m \in 0 .. m + 1 /\ m + 1 \in 1 .. m + 1 /\ m + 1 - 1 = m
    OBVIOUS
  <1>2. half[m + 1] \in 0 .. n /\ half[m] \in 0 .. n
    BY <1>1
  <1>3. half[m + 1] = half[m] \div 2 /\ z <= half[m]
    <2>1. half[m + 1] = half[m + 1 - 1] \div 2 /\ Size(calls[m + 1]) <= half[m + 1 - 1]
      BY <1>1 DEF Halves
    <2>2. QED
      BY <1>1, <2>1
  <1>4. half[m + 1] \div 2 \in 0 .. n /\ half[m + 1] \div 2 <= half[m + 1]
    BY <1>2
  <1>5. /\ h \in [0 .. m + 2 -> 0 .. n] /\ h[m + 2] = half[m + 1] \div 2
        /\ \A k \in 0 .. m + 1 : h[k] = half[k]
    <2>1. \A k \in 0 .. m + 2 : k = m + 2 \/ k \in 0 .. m + 1
      OBVIOUS
    <2>2. h \in [0 .. m + 2 -> 0 .. n]
      BY <1>4, <2>1
    <2>3. m + 2 \in 0 .. m + 2
      OBVIOUS
    <2>4. \A k \in 0 .. m + 1 : k \in 0 .. m + 2 /\ k # m + 2
      OBVIOUS
    <2>5. QED
      BY <2>2, <2>3, <2>4
  <1>. HIDE DEF h
  <1>6. h[0] = n
    <2>1. 0 \in 0 .. m + 1
      OBVIOUS
    <2>2. QED
      BY <1>5, <2>1 DEF Halves
  <1>7. x <= half[m] /\ y <= half[m + 1]
    BY <1>2, <1>3
  <1>8. ASSUME NEW k \in 1 .. m + 2
        PROVE  h[k] = h[k - 1] \div 2 /\ Size(t[k]) <= h[k - 1]
    <2>1. CASE k \in 1 .. m
      <3>1. k \in 1 .. m + 1 /\ k \in 0 .. m + 1 /\ k - 1 \in 0 .. m + 1
        BY <2>1
      <3>2. half[k] = half[k - 1] \div 2 /\ Size(calls[k]) <= half[k - 1]
        BY <3>1 DEF Halves
      <3>3. QED
        BY <1>5, <2>1, <3>1, <3>2
    <2>2. CASE k = m + 1
      <3>1. k - 1 = m
        BY <2>2
      <3>2. QED
        BY <1>1, <1>3, <1>5, <1>7, <2>2, <3>1
    <2>3. CASE k = m + 2
      <3>1. k - 1 = m + 1
        BY <2>3
      <3>2. QED
        BY <1>1, <1>5, <1>7, <2>3, <3>1
    <2>4. k \in 1 .. m \/ k = m + 1 \/ k = m + 2
      OBVIOUS
    <2>5. QED
      BY <2>1, <2>2, <2>3, <2>4
  <1>9. ASSUME NEW j \in 0 .. m + 2, NEW k \in 0 .. m + 2, j <= k
        PROVE  h[k] <= h[j]
    <2>1. CASE k \in 0 .. m + 1
      <3>1. j \in 0 .. m + 1
        BY <1>9, <2>1
      <3>2. half[k] <= half[j]
        BY <1>9, <2>1, <3>1 DEF Halves
      <3>3. QED
        BY <1>5, <2>1, <3>1, <3>2
    <2>2. CASE k = m + 2 /\ j \in 0 .. m + 1
      <3>1. half[m + 1] <= half[j]
        <4>1. j <= m + 1
          BY <2>2
        <4>2. QED
          BY <1>1, <2>2, <4>1 DEF Halves
      <3>2. half[j] \in 0 .. n
        BY <2>2
      <3>3. h[k] = half[m + 1] \div 2 /\ h[j] = half[j]
        BY <1>5, <2>2
      <3>4. QED
        BY <1>2, <1>4, <3>1, <3>2, <3>3
    <2>3. CASE j = k
      <3>1. h[j] \in 0 .. n
        BY <1>5
      <3>2. QED
        BY <2>3, <3>1
    <2>4. k \in 0 .. m + 1 \/ (k = m + 2 /\ j \in 0 .. m + 1) \/ j = k
      OBVIOUS
    <2>5. QED
      BY <2>1, <2>2, <2>3, <2>4
  <1>10. Halves(n, t, h)
    BY <1>6, <1>8, <1>9 DEF Halves
  <1>11. QED
    BY <1>5, <1>10

LEMMA SplitCosts ==
  ASSUME NEW calls, Len(calls) \in Nat \ {0},
         NEW w \in [0 .. Len(calls) -> Nat], Costs(calls, w),
         NEW t, Len(t) = Len(calls) + 1, \A k \in 1 .. Len(calls) - 1 : t[k] = calls[k],
         Size(t[Len(calls)]) \in Nat, Size(t[Len(calls) + 1]) \in Nat,
         Size(t[Len(calls)]) + Size(t[Len(calls) + 1]) + 1 = Size(calls[Len(calls)])
  PROVE  \E v \in [0 .. Len(calls) + 1 -> Nat] :
           Costs(t, v) /\ v[Len(calls) + 1] + 2 * Size(calls[Len(calls)]) <= w[Len(calls)]
  <1>1. PICK m : m = Len(calls) - 1
    OBVIOUS
  <1>2. PICK x, y, z : x = Size(t[m + 1]) /\ y = Size(t[m + 2]) /\ z = Size(calls[m + 1])
    OBVIOUS
  <1>3. m \in Nat /\ Len(calls) = m + 1 /\ Len(t) = m + 2 /\ Len(calls) + 1 = m + 2
    BY <1>1
  <1>4. x \in Nat /\ y \in Nat /\ z \in Nat /\ x + y + 1 = z
    BY <1>2, <1>3
  <1>5. w \in [0 .. m + 1 -> Nat] /\ \A k \in 1 .. m : t[k] = calls[k]
    BY <1>1, <1>3
  <1>6. PICK c, d, q : c = x * (x + 1) /\ d = y * (y + 1) /\ q = z * (z + 1)
    OBVIOUS
  <1>7. c \in Nat /\ d \in Nat /\ q \in Nat /\ c + d + 2 * z <= q
    <2>1. x * (x + 1) + y * (y + 1) + 2 * z <= z * (z + 1)
      BY <1>4, PartsCost
    <2>2. x * (x + 1) \in Nat /\ y * (y + 1) \in Nat /\ z * (z + 1) \in Nat
      BY <1>4
    <2>3. QED
      BY <1>6, <2>1, <2>2
  <1>8. /\ \A k \in 1 .. m + 1 : w[k] = w[k - 1] + Size(calls[k]) * (Size(calls[k]) + 1)
        /\ \A j, k \in 0 .. m + 1 : j <= k => w[j] <= w[k]
        /\ w[0] = 0
    BY <1>3 DEF Costs
  <1>9. PICK v \in [0 .. m + 2 -> Nat] :
          /\ \A k \in 0 .. m : v[k] = w[k]
          /\ v[m + 1] = w[m] + c /\ v[m + 2] = w[m] + c + d
          /\ \A j, k \in 0 .. m + 2 : j <= k => v[j] <= v[k]
    <2>. m \in Nat /\ c \in Nat /\ d \in Nat
      BY <1>3, <1>7
    <2>. w \in [0 .. m + 1 -> Nat]
      BY <1>5
    <2>. \A j, k \in 0 .. m + 1 : j <= k => w[j] <= w[k]
      BY <1>8
    <2> DEFINE v == [k \in 0 .. m + 2 |-> IF k = m + 2 THEN w[m] + c + d
                                          ELSE IF k = m + 1 THEN w[m] + c ELSE w[k]]
    <2>1. m \in 0 .. m + 1
      OBVIOUS
    <2>2. w[m] \in Nat
      BY <2>1
    <2>3. w[m] + c + d \in Nat /\ w[m] + c \in Nat
      BY <2>2
    <2>4. v \in [0 .. m + 2 -> Nat]
      <3>1. \A k \in 0 .. m + 2 : k = m + 2 \/ k = m + 1 \/ (k \in 0 .. m /\ k \in 0 .. m + 1)
        OBVIOUS
      <3>2. QED
        BY <2>3, <3>1
    <2>5. v[m + 2] = w[m] + c + d /\ v[m + 1] = w[m] + c /\ \A k \in 0 .. m : v[k] = w[k]
      <3>1. m + 2 \in 0 .. m + 2 /\ m + 1 \in 0 .. m + 2 /\ m + 1 # m + 2
        OBVIOUS
      <3>2. \A k \in 0 .. m : k \in 0 .. m + 2 /\ k # m + 2 /\ k # m + 1
        OBVIOUS
      <3>3. QED
        BY <3>1, <3>2
    <2>. HIDE DEF v
    <2>6. ASSUME NEW j \in 0 .. m + 2, NEW k \in 0 .. m + 2, j <= k
          PROVE  v[j] <= v[k]
      <3>1. CASE j \in 0 .. m
        <4>1. j \in 0 .. m + 1 /\ j <= m
          BY <3>1
        <4>2. w[j] <= w[m] /\ w[j] \in Nat
          BY <2>1, <4>1
        <4>3. k \in 0 .. m => w[j] <= w[k]
          <5>1. k \in 0 .. m => k \in 0 .. m + 1
            OBVIOUS
          <5>2. QED
            BY <2>6, <4>1, <5>1
        <4>4. k \in 0 .. m \/ k = m + 1 \/ k = m + 2
          OBVIOUS
        <4>5. v[j] = w[j] /\ (k \in 0 .. m => v[k] = w[k])
          BY <2>5, <3>1
        <4>6. \/ v[k] = w[k] /\ w[j] <= w[k]
              \/ v[k] = w[m] + c
              \/ v[k] = w[m] + c + d
          BY <2>5, <4>3, <4>4, <4>5
        <4>7. QED
          BY <2>2, <4>2, <4>5, <4>6
      <3>2. CASE j = m + 1 /\ k = m + 2
        BY <2>2, <2>5, <3>2
      <3>3. CASE j = k
        <4>1. v[j] \in Nat
          BY <2>4
        <4>2. QED
          BY <3>3, <4>1
      <3>4. j \in 0 .. m \/ (j = m + 1 /\ k = m + 2) \/ j = k
        BY <2>6
      <3>5. QED
        BY <3>1, <3>2, <3>3, <3>4
    <2>7. QED
      BY <2>4, <2>5, <2>6
  <1>10. v[0] = 0
    <2>1. 0 \in 0 .. m
      BY <1>3
    <2>2. QED
      BY <1>8, <1>9, <2>1
  <1>11. ASSUME NEW k \in 1 .. m + 2
         PROVE  v[k] = v[k - 1] + Size(t[k]) * (Size(t[k]) + 1)
    <2>1. CASE k \in 1 .. m
      <3>1. k \in 1 .. m + 1 /\ k \in 0 .. m /\ k - 1 \in 0 .. m
        BY <1>3, <2>1
      <3>2. w[k] = w[k - 1] + Size(calls[k]) * (Size(calls[k]) + 1) /\ t[k] = calls[k]
        BY <1>5, <1>8, <2>1, <3>1
      <3>3. v[k] = w[k] /\ v[k - 1] = w[k - 1]
        BY <1>9, <3>1
      <3>4. QED
        BY <3>2, <3>3
    <2>2. CASE k = m + 1
      <3>1. k - 1 = m /\ m \in 0 .. m
        BY <1>3, <2>2
      <3>2. c = Size(t[k]) * (Size(t[k]) + 1)
        BY <1>2, <1>6, <2>2
      <3>3. v[k] = w[m] + c /\ v[k - 1] = w[m]
        BY <1>9, <2>2, <3>1
      <3>4. QED
        BY <3>2, <3>3
    <2>3. CASE k = m + 2
      <3>1. k - 1 = m + 1
        BY <1>3, <2>3
      <3>2. d = Size(t[k]) * (Size(t[k]) + 1)
        BY <1>2, <1>6, <2>3
      <3>3. v[k] = w[m] + c + d /\ v[k - 1] = w[m] + c
        BY <1>9, <2>3, <3>1
      <3>4. QED
        BY <3>2, <3>3
    <2>4. k \in 1 .. m \/ k = m + 1 \/ k = m + 2
      BY <1>3
    <2>5. QED
      BY <2>1, <2>2, <2>3, <2>4
  <1>12. v[m + 2] + 2 * z <= w[m + 1]
    <2>1. m + 1 \in 1 .. m + 1 /\ m + 1 - 1 = m /\ m \in 0 .. m + 1
      BY <1>3
    <2>2. w[m + 1] = w[m + 1 - 1] + Size(calls[m + 1]) * (Size(calls[m + 1]) + 1)
      BY <1>8, <2>1
    <2>3. w[m + 1] = w[m] + q /\ w[m] \in Nat
      BY <1>2, <1>5, <1>6, <2>1, <2>2
    <2>4. v[m + 2] = w[m] + c + d
      BY <1>9
    <2>5. QED
      BY <1>4, <1>7, <2>3, <2>4
  <1>13. Costs(t, v)
    BY <1>3, <1>9, <1>10, <1>11 DEF Costs
  <1>14. QED
    BY <1>2, <1>3, <1>12, <1>13

LEMMA SplitKeeps ==
  ASSUME NEW n \in Nat, NEW b, NEW ord, NEW calls, Stacked(n, calls), calls # <<>>,
         NEW half \in [0 .. Len(calls) -> 0 .. n], Halves(n, calls, half),
         NEW w \in [0 .. Len(calls) -> Nat], Costs(calls, w),
         NEW A, NEW B, Parts(n, Last(calls), A, B)
  PROVE  /\ Stacked(n, Divided(calls, A, B))
         /\ \E h \in [0 .. Len(Divided(calls, A, B)) -> 0 .. n] : Halves(n, Divided(calls, A, B), h)
         /\ \E v \in [0 .. Len(Divided(calls, A, B)) -> Nat] :
              /\ Costs(Divided(calls, A, B), v)
              /\ v[Len(Divided(calls, A, B))] + 2 * Size(Last(calls)) <= w[Len(calls)]
         /\ /\ Ordered(n, b, ord, calls)
            /\ \A x, y \in 1 .. n :
                 x < y /\ Within(x, Last(calls)) /\ Within(y, Last(calls)) =>
                   \/ ord[b[x]] <= ord[b[y]]
                   \/ Within(x, A) /\ Within(y, A)
                   \/ Within(x, B) /\ Within(y, B)
            => Ordered(n, b, ord, Divided(calls, A, B))
  <1> DEFINE s == Last(calls)
             t == Divided(calls, A, B)
  <1>. HIDE DEF s, t
  <1>0. Parts(n, s, A, B)
    BY DEF s
  <1>1. calls \in Seq(Segment(n)) /\ Len(calls) \in Nat \ {0}
    BY DEF Stacked
  <1>2. PICK m : m = Len(calls) - 1
    OBVIOUS
  <1>3. m \in Nat /\ Len(calls) = m + 1
    BY <1>1, <1>2
  <1>4. s = calls[m + 1] /\ m + 1 \in 1 .. Len(calls) /\ s \in Segment(n)
    BY <1>1, <1>3 DEF Last, s
  <1>5. A \in Segment(n) /\ B \in Segment(n)
    BY DEF Parts
  <1>6. /\ t \in Seq(Segment(n)) /\ Len(t) = m + 2
        /\ \A k \in 1 .. m : t[k] = calls[k] /\ k \in 1 .. Len(calls)
        /\ t[m + 1] = A /\ t[m + 2] = B
    <2>1. PICK e : /\ e = Divided(calls, A, B) /\ e \in Seq(Segment(n))
                   /\ Len(e) = Len(calls) + 1
                   /\ \A k \in 1 .. Len(calls) - 1 : e[k] = calls[k]
                   /\ e[Len(calls)] = A /\ e[Len(calls) + 1] = B
      <3>1. calls \in Seq(Segment(n)) /\ Len(calls) # 0
        BY <1>1
      <3>2. QED
        BY <1>5, <3>1, PartsStacked DEF Divided
    <2>2. Len(calls) - 1 = m /\ Len(calls) + 1 = m + 2 /\ \A k \in 1 .. m : k \in 1 .. Len(calls)
      BY <1>3
    <2>3. QED
      BY <1>3, <2>1, <2>2 DEF t
  <1>7. s = calls[m + 1] /\ m + 1 \in 1 .. m + 1 /\ m + 1 - 1 = m
    BY <1>3, <1>4
  <1>8. \A x \in 1 .. n : /\ Within(x, A) => Within(x, s)
                          /\ Within(x, B) => Within(x, s)
                          /\ ~(Within(x, A) /\ Within(x, B))
    BY <1>0, <1>4, PartsFacts
  <1>9. \A k \in 1 .. Len(t) : k \in 1 .. m \/ k = m + 1 \/ k = m + 2
    BY <1>3, <1>6
  <1>10. Stacked(n, t)
    <2>1. \A k \in 1 .. Len(t) : t[k].l <= t[k].u + 1
      <3> TAKE k \in 1 .. Len(t)
      <3>1. A.l <= A.u + 1 /\ B.l <= B.u + 1
        BY <1>0, <1>4, PartsFacts
      <3>2. k \in 1 .. m => calls[k].l <= calls[k].u + 1
        BY <1>6 DEF Stacked
      <3>3. QED
        BY <1>6, <1>9, <3>1, <3>2
    <2>2. ASSUME NEW j \in 1 .. Len(t), NEW k \in 1 .. Len(t), NEW x \in 1 .. n,
                 Within(x, t[j]), Within(x, t[k])
          PROVE  j = k
      <3>1. CASE j \in 1 .. m /\ k \in 1 .. m
        BY <1>6, <2>2, <3>1 DEF Stacked
      <3>2. CASE j \in 1 .. m /\ k \notin 1 .. m
        <4>1. Within(x, calls[m + 1]) /\ Within(x, calls[j]) /\ j \in 1 .. Len(calls)
          BY <1>4, <1>6, <1>8, <1>9, <2>2, <3>2
        <4>2. j = m + 1
          BY <1>4, <4>1 DEF Stacked
        <4>3. QED
          BY <1>3, <3>2, <4>2
      <3>3. CASE j \notin 1 .. m /\ k \in 1 .. m
        <4>1. Within(x, calls[m + 1]) /\ Within(x, calls[k]) /\ k \in 1 .. Len(calls)
          BY <1>4, <1>6, <1>8, <1>9, <2>2, <3>3
        <4>2. k = m + 1
          BY <1>4, <4>1 DEF Stacked
        <4>3. QED
          BY <1>3, <3>3, <4>2
      <3>4. CASE j \notin 1 .. m /\ k \notin 1 .. m
        BY <1>6, <1>8, <1>9, <2>2, <3>4
      <3>5. QED
        BY <3>1, <3>2, <3>3, <3>4
    <2>3. QED
      BY <1>6, <2>1, <2>2 DEF Stacked
  <1>11. PICK z, x, y : z = Size(s) /\ x = Size(A) /\ y = Size(B)
    OBVIOUS
  <1>12. x \in Nat /\ y \in Nat /\ z \in Nat /\ x + y + 1 = z /\ y <= x
    BY <1>0, <1>4, <1>11, PartsFacts
  <1>13. \E h \in [0 .. m + 2 -> 0 .. n] : Halves(n, t, h)
    <2>1. /\ half \in [0 .. m + 1 -> 0 .. n]
          /\ Size(calls[m + 1]) = z /\ Size(t[m + 1]) = x /\ Size(t[m + 2]) = y
      BY <1>3, <1>6, <1>7, <1>11
    <2>2. Len(t) = m + 2 /\ \A k \in 1 .. m : t[k] = calls[k]
      BY <1>6
    <2>3. QED
      BY <1>3, <1>12, <2>1, <2>2, SplitHalves
  <1>14. \E v \in [0 .. m + 2 -> Nat] : Costs(t, v) /\ v[m + 2] + 2 * z <= w[m + 1]
    <2>1. Len(calls) \in Nat \ {0} /\ Len(t) = Len(calls) + 1 /\ Len(calls) = m + 1 /\ Len(calls) + 1 = m + 2
      BY <1>1, <1>3, <1>6
    <2>2. \A k \in 1 .. Len(calls) - 1 : t[k] = calls[k]
      <3>1. Len(calls) - 1 = m
        BY <1>3
      <3>2. QED
        BY <1>6, <3>1
    <2>3. Size(t[Len(calls)]) = x /\ Size(t[Len(calls) + 1]) = y /\ Size(calls[Len(calls)]) = z
      BY <1>6, <1>7, <1>11, <2>1
    <2>4. /\ Size(t[Len(calls)]) \in Nat /\ Size(t[Len(calls) + 1]) \in Nat
          /\ Size(t[Len(calls)]) + Size(t[Len(calls) + 1]) + 1 = Size(calls[Len(calls)])
      BY <1>12, <2>3
    <2>5. \E v \in [0 .. Len(calls) + 1 -> Nat] :
            Costs(t, v) /\ v[Len(calls) + 1] + 2 * Size(calls[Len(calls)]) <= w[Len(calls)]
      <3>1. Len(calls) \in Nat \ {0} /\ Len(t) = Len(calls) + 1
        BY <2>1
      <3>2. QED
        BY <2>2, <2>4, <3>1, SplitCosts
    <2>6. QED
      BY <2>1, <2>3, <2>5
  <1>15. ASSUME Ordered(n, b, ord, calls),
                \A i, j \in 1 .. n :
                  i < j /\ Within(i, s) /\ Within(j, s) =>
                    \/ ord[b[i]] <= ord[b[j]]
                    \/ Within(i, A) /\ Within(j, A)
                    \/ Within(i, B) /\ Within(j, B)
         PROVE  Ordered(n, b, ord, t)
    <2> SUFFICES ASSUME NEW i \in 1 .. n, NEW j \in 1 .. n, i < j, ~(ord[b[i]] <= ord[b[j]])
                 PROVE  \E k \in 1 .. Len(t) : Within(i, t[k]) /\ Within(j, t[k])
      BY DEF Ordered
    <2>1. PICK k \in 1 .. Len(calls) : Within(i, calls[k]) /\ Within(j, calls[k])
      BY <1>15 DEF Ordered
    <2>2. CASE k \in 1 .. m
      <3>1. k \in 1 .. Len(t)
        BY <1>3, <1>6, <2>2
      <3>2. QED
        BY <1>6, <2>1, <2>2, <3>1
    <2>3. CASE k = m + 1
      <3>1. (Within(i, A) /\ Within(j, A)) \/ (Within(i, B) /\ Within(j, B))
        BY <1>7, <1>15, <2>1, <2>3
      <3>2. m + 1 \in 1 .. Len(t) /\ m + 2 \in 1 .. Len(t)
        BY <1>3, <1>6
      <3>3. QED
        BY <1>6, <3>1, <3>2
    <2>4. k \in 1 .. m \/ k = m + 1
      <3>1. k \in 1 .. m + 1
        BY <1>3
      <3>2. QED
        BY <1>3, <3>1
    <2>5. QED
      BY <2>2, <2>3, <2>4
  <1>16. QED
    BY <1>3, <1>6, <1>10, <1>11, <1>13, <1>14, <1>15 DEF s, t

-----------------------------------------------------------------------------
(* What a step does to the stack of calls. *)

\* The innermost call has at least two elements.
LEMMA Innermost ==
  ASSUME SortInv, at.pc # "done"
  PROVE  /\ N \in Nat /\ todo # <<>> /\ Len(todo) \in 1 .. Len(todo)
         /\ Last(todo) = todo[Len(todo)] /\ Last(todo) \in Segment(N)
         /\ l \in 1 .. N /\ u \in 1 .. N /\ l < u
         /\ \A x : Within(x, Last(todo)) <=> l <= x /\ x <= u
         /\ Size(Last(todo)) = u - l + 1
  <1>1. N \in Nat /\ todo \in Seq(Segment(N)) /\ todo # <<>> /\ l < u
    BY DEF SortInv, Stacked, Position
  <1>2. Len(todo) \in Nat /\ Len(todo) # 0 /\ Last(todo) = todo[Len(todo)]
    BY <1>1 DEF Last
  <1>3. Len(todo) \in 1 .. Len(todo)
    BY <1>2
  <1>4. Last(todo) \in Segment(N)
    BY <1>1, <1>2, <1>3
  <1>5. l \in 1 .. N + 1 /\ u \in 0 .. N
    BY <1>4 DEF l, u, Segment
  <1>6. l \in 1 .. N /\ u \in 1 .. N
    BY <1>1, <1>5
  <1>7. \A x : Within(x, Last(todo)) <=> l <= x /\ x <= u
    BY DEF Within, l, u
  <1>8. Size(Last(todo)) = u - l + 1
    BY DEF Size, l, u
  <1>9. QED
    BY <1>1, <1>2, <1>3, <1>4, <1>6, <1>7, <1>8

LEMMA SameLength ==
  ASSUME N \in Nat, Permutation(N, array')
  PROVE  N' = N
  <1>1. array' \in [1 .. N -> 1 .. N]
    BY DEF Permutation
  <1>2. PICK n : n = N
    OBVIOUS
  <1>3. Len(array') = n
    BY <1>1, <1>2, LenOfFunction
  <1>4. QED
    BY <1>2, <1>3 DEF N

\* A step of the innermost call.
LEMMA StayKeeps ==
  ASSUME SortInv, at.pc # "done", UNCHANGED <<order, todo>>, compared' = compared + 1,
         Permutation(N, array'), Moved(N, array, array', Last(todo)), Position',
         Spent \in Int, Spent' \in Int, Spent' >= Spent + 1,
         order # AnyOrder => Compared'
  PROVE  SortInv'
  <1>1. N \in Nat /\ N' = N
    BY SameLength DEF SortInv
  <1>2. order' = AnyOrder \/ order' \in [1 .. N' -> Int]
    BY <1>1 DEF SortInv
  <1>3. compared \in Nat /\ compared' \in Nat
    BY DEF SortInv
  <1>4. Stacked(N', todo')
    BY <1>1 DEF SortInv
  <1>5. Accounts(N, todo', compared', Spent')
    <2>1. PICK half \in [0 .. Len(todo) -> 0 .. N] : Halves(N, todo, half)
      BY DEF SortInv, Accounts
    <2>2. PICK w \in [0 .. Len(todo) -> Nat] :
            Costs(todo, w) /\ compared + w[Len(todo)] <= N * (N + 1) + Spent
      BY DEF SortInv, Accounts
    <2>3. w[Len(todo)] \in Nat
      <3>1. Len(todo) \in 0 .. Len(todo)
        BY Innermost
      <3>2. QED
        BY <3>1
    <2>4. PICK q : q = N * (N + 1)
      OBVIOUS
    <2>5. q \in Nat
      BY <1>1, <2>4
    <2>6. compared' + w[Len(todo)] <= q + Spent'
      BY <1>3, <2>2, <2>3, <2>4, <2>5
    <2>7. QED
      BY <1>1, <2>1, <2>2, <2>4, <2>6 DEF Accounts
  <1>6. ASSUME order # AnyOrder
        PROVE  Ordered(N, array', order, todo)
    <2>1. PICK n, b, c, ord, calls, k : n = N /\ b = array /\ c = array' /\ ord = order /\ calls = todo /\ k = Len(todo)
      OBVIOUS
    <2>2. n \in Nat /\ Stacked(n, calls) /\ k \in 1 .. Len(calls) /\ calls[k] = Last(todo)
      BY <1>1, <2>1, Innermost DEF SortInv
    <2>3. Moved(n, b, c, calls[k]) /\ Ordered(n, b, ord, calls)
      BY <1>6, <2>1, <2>2 DEF SortInv
    <2>4. Ordered(n, c, ord, calls)
      BY <2>2, <2>3, MoveKeepsOrder
    <2>5. QED
      BY <2>1, <2>4
  <1>7. order' # AnyOrder => Ordered(N', array', order', todo') /\ Compared'
    BY <1>1, <1>6
  <1>8. QED
    BY <1>1, <1>2, <1>3, <1>4, <1>5, <1>7 DEF SortInv

\* The calls of `calls` that still have elements to sort go on.
LEMMA LoopKeeps ==
  ASSUME SortInv, UNCHANGED order, compared' = compared + 1, Permutation(N, array'),
         NEW calls, Loop(calls), Stacked(N, calls),
         NEW half \in [0 .. Len(calls) -> 0 .. N], Halves(N, calls, half),
         NEW w \in [0 .. Len(calls) -> Nat], Costs(calls, w),
         compared + 1 + w[Len(calls)] <= N * (N + 1),
         order # AnyOrder => Ordered(N, array', order, calls)
  PROVE  SortInv'
  <1>1. N \in Nat /\ N' = N
    BY SameLength DEF SortInv
  <1>2. order' = AnyOrder \/ order' \in [1 .. N' -> Int]
    BY <1>1 DEF SortInv
  <1>3. compared \in Nat /\ compared' \in Nat
    BY DEF SortInv
  <1>4. PICK n, b, ord : n = N /\ b = array' /\ ord = order
    OBVIOUS
  <1>5. /\ todo' = Unsorted(calls)
        /\ at' = [pc |-> IF todo' = <<>> THEN "done" ELSE "ends", i |-> 0, j |-> 0, p |-> 0]
    BY DEF Loop
  <1>6. /\ Stacked(n, todo')
        /\ \E h \in [0 .. Len(todo') -> 0 .. n] : Halves(n, todo', h)
        /\ \E v \in [0 .. Len(todo') -> Nat] :
             Costs(todo', v) /\ v[Len(todo')] <= w[Len(calls)]
        /\ Ordered(n, b, ord, calls) => Ordered(n, b, ord, todo')
        /\ todo' # <<>> => Last(todo').l < Last(todo').u
    <2>1. n \in Nat /\ Stacked(n, calls) /\ half \in [0 .. Len(calls) -> 0 .. n] /\ Halves(n, calls, half)
      BY <1>1, <1>4
    <2>2. QED
      BY <1>5, <2>1, TrimKeeps
  <1>7. Spent' = 0
    BY <1>5 DEF Spent
  <1>8. Accounts(n, todo', compared', 0)
    <2>1. PICK v \in [0 .. Len(todo') -> Nat] : Costs(todo', v) /\ v[Len(todo')] <= w[Len(calls)]
      BY <1>6
    <2>2. v[Len(todo')] \in Nat /\ w[Len(calls)] \in Nat
      <3>1. Len(todo') \in 0 .. Len(todo') /\ Len(calls) \in 0 .. Len(calls)
        BY <1>6 DEF Stacked
      <3>2. QED
        BY <2>1, <3>1
    <2>3. PICK q : q = n * (n + 1)
      OBVIOUS
    <2>4. q \in Nat /\ compared + 1 + w[Len(calls)] <= q
      BY <1>1, <1>4, <2>3
    <2>5. compared' + v[Len(todo')] <= q + 0
      BY <1>3, <2>1, <2>2, <2>4
    <2>6. QED
      BY <1>6, <2>1, <2>3, <2>5 DEF Accounts
  <1>9. Position'
    <2>1. 0 \in 0 .. N'
      BY <1>1
    <2>2. at'.pc = "done" \/ at'.pc = "ends"
      BY <1>5
    <2>3. /\ at' \in [pc : {"ends", "middle", "upper", "up", "down", "error", "done"},
                      i : 0 .. N', j : 0 .. N', p : 0 .. N']
          /\ at'.pc = "done" <=> todo' = <<>>
      BY <1>5, <2>1
    <2>4. at'.pc # "done" => l' < u'
      BY <1>6, <2>3 DEF l, u
    <2>5. QED
      BY <2>2, <2>3, <2>4 DEF Position
  <1>10. Compared'
    BY <1>5 DEF Compared
  <1>11. order' # AnyOrder => Ordered(N', array', order', todo')
    BY <1>1, <1>4, <1>6
  <1>12. Stacked(N', todo') /\ Accounts(N', todo', compared', Spent')
    BY <1>1, <1>4, <1>6, <1>7, <1>8
  <1>13. QED
    BY <1>1, <1>2, <1>3, <1>9, <1>10, <1>11, <1>12 DEF SortInv

\* The innermost call ends: its part of the array is sorted.
LEMMA EndKeeps ==
  ASSUME SortInv, at.pc # "done", UNCHANGED order, compared' = compared + 1,
         Permutation(N, array'), Moved(N, array, array', Last(todo)),
         Loop(Front(todo)), Spent \in 0 .. 2,
         order # AnyOrder => \A x, y \in l .. u : x < y => order[array'[x]] <= order[array'[y]]
  PROVE  SortInv'
  <1>1. PICK n, b, c, ord, calls, k :
          n = N /\ b = array /\ c = array' /\ ord = order /\ calls = todo /\ k = Len(todo)
    OBVIOUS
  <1>2. n \in Nat /\ Stacked(n, calls) /\ calls # <<>> /\ k \in 1 .. Len(calls) /\ calls[k] = Last(calls)
    BY <1>1, Innermost DEF SortInv
  <1>3. PICK half \in [0 .. Len(calls) -> 0 .. n] : Halves(n, calls, half)
    BY <1>1 DEF SortInv, Accounts
  <1>4. PICK w \in [0 .. Len(calls) -> Nat] :
          Costs(calls, w) /\ compared + w[Len(calls)] <= n * (n + 1) + Spent
    BY <1>1 DEF SortInv, Accounts
  <1>5. PICK f : f = Front(calls)
    OBVIOUS
  <1>6. /\ Stacked(n, f)
        /\ \E h \in [0 .. Len(f) -> 0 .. n] : Halves(n, f, h)
        /\ \E v \in [0 .. Len(f) -> Nat] :
             Costs(f, v) /\ w[Len(calls)] = v[Len(f)] + Size(Last(calls)) * (Size(Last(calls)) + 1)
        /\ /\ Ordered(n, c, ord, calls)
           /\ \A x, y \in 1 .. n :
                x < y /\ Within(x, Last(calls)) /\ Within(y, Last(calls)) => ord[c[x]] <= ord[c[y]]
           => Ordered(n, c, ord, f)
    BY <1>2, <1>3, <1>4, <1>5, PopKeeps
  <1>7. ASSUME ord # AnyOrder
        PROVE  Ordered(n, c, ord, f)
    <2>1. Moved(n, b, c, calls[k]) /\ Ordered(n, b, ord, calls)
      BY <1>1, <1>2, <1>7 DEF SortInv
    <2>2. Ordered(n, c, ord, calls)
      BY <1>2, <2>1, MoveKeepsOrder
    <2>3. ASSUME NEW x \in 1 .. n, NEW y \in 1 .. n, x < y, Within(x, Last(calls)), Within(y, Last(calls))
          PROVE  ord[c[x]] <= ord[c[y]]
      <3>1. l <= x /\ x <= u /\ l <= y /\ y <= u /\ l \in 1 .. N /\ u \in 1 .. N
        BY <1>1, <2>3, Innermost
      <3>2. x \in l .. u /\ y \in l .. u
        BY <1>2, <3>1
      <3>3. QED
        BY <1>1, <1>7, <2>3, <3>2
    <2>4. QED
      BY <1>6, <2>2, <2>3
  <1>8. PICK h \in [0 .. Len(f) -> 0 .. n] : Halves(n, f, h)
    BY <1>6
  <1>9. PICK v \in [0 .. Len(f) -> Nat] :
          Costs(f, v) /\ w[Len(calls)] = v[Len(f)] + Size(Last(calls)) * (Size(Last(calls)) + 1)
    BY <1>6
  <1>10. compared + 1 + v[Len(f)] <= n * (n + 1)
    <2>1. PICK q, e, z : q = n * (n + 1) /\ z = Size(Last(calls)) /\ e = z * (z + 1)
      OBVIOUS
    <2>2. z \in Nat /\ z >= 2
      <3>1. z = u - l + 1 /\ l < u /\ l \in 1 .. N /\ u \in 1 .. N /\ N \in Nat
        BY <1>1, <2>1, Innermost
      <3>2. QED
        BY <3>1
    <2>3. e \in Nat /\ e >= 6
      <3>1. PICK y : y = z - 2
        OBVIOUS
      <3>2. y \in Nat /\ z = y + 2
        BY <2>2, <3>1
      <3>3. z * (z + 1) = y * y + 5 * y + 6 /\ y * y \in Nat
        BY <3>2
      <3>4. PICK r : r = y * y
        OBVIOUS
      <3>5. e = r + 5 * y + 6 /\ r \in Nat
        BY <2>1, <3>3, <3>4
      <3>6. QED
        BY <3>2, <3>5
    <2>4. q \in Nat /\ compared \in Nat
      BY <1>2, <2>1 DEF SortInv
    <2>5. v[Len(f)] \in Nat
      <3>1. Len(f) \in 0 .. Len(f)
        BY <1>6 DEF Stacked
      <3>2. QED
        BY <1>9, <3>1
    <2>6. w[Len(calls)] = v[Len(f)] + e /\ compared + w[Len(calls)] <= q + Spent
      BY <1>4, <1>9, <2>1
    <2>7. compared + 1 + v[Len(f)] <= q
      BY <2>3, <2>4, <2>5, <2>6
    <2>8. QED
      BY <2>1, <2>7
  <1>11. Loop(f)
    BY <1>1, <1>5
  <1>12. Stacked(N, f) /\ h \in [0 .. Len(f) -> 0 .. N] /\ Halves(N, f, h)
    BY <1>1, <1>6, <1>8
  <1>13. compared + 1 + v[Len(f)] <= N * (N + 1)
    BY <1>1, <1>10
  <1>14. order # AnyOrder => Ordered(N, array', order, f)
    BY <1>1, <1>7
  <1>15. QED
    BY <1>9, <1>11, <1>12, <1>13, <1>14, LoopKeeps

\* The innermost call goes on with its parts, the larger one first.
LEMMA PartsKeep ==
  ASSUME SortInv, at.pc # "done", UNCHANGED order, compared' = compared + 1,
         Permutation(N, array'), Moved(N, array, array', Last(todo)),
         NEW A, NEW B, Parts(N, Last(todo), A, B),
         Loop(Divided(todo, A, B)),
         Spent \in Int, Spent + 1 <= 2 * Size(Last(todo)),
         order # AnyOrder => \A x, y \in l .. u :
           x < y => \/ order[array'[x]] <= order[array'[y]]
                    \/ Within(x, A) /\ Within(y, A)
                    \/ Within(x, B) /\ Within(y, B)
  PROVE  SortInv'
  <1>1. PICK n, b, c, ord, calls, k, s :
          /\ n = N /\ b = array /\ c = array' /\ ord = order /\ calls = todo /\ k = Len(todo)
          /\ s = Last(todo)
    OBVIOUS
  <1>2. /\ n \in Nat /\ Stacked(n, calls) /\ calls # <<>> /\ k \in 1 .. Len(calls)
        /\ calls[k] = Last(calls) /\ s = Last(calls)
    BY <1>1, Innermost DEF SortInv
  <1>3. PICK half \in [0 .. Len(calls) -> 0 .. n] : Halves(n, calls, half)
    BY <1>1 DEF SortInv, Accounts
  <1>4. PICK w \in [0 .. Len(calls) -> Nat] :
          Costs(calls, w) /\ compared + w[Len(calls)] <= n * (n + 1) + Spent
    BY <1>1 DEF SortInv, Accounts
  <1>5. PICK t : t = Divided(calls, A, B)
    OBVIOUS
  <1>6. /\ Stacked(n, t)
        /\ \E h \in [0 .. Len(t) -> 0 .. n] : Halves(n, t, h)
        /\ \E v \in [0 .. Len(t) -> Nat] : Costs(t, v) /\ v[Len(t)] + 2 * Size(s) <= w[Len(calls)]
        /\ /\ Ordered(n, c, ord, calls)
           /\ \A x, y \in 1 .. n :
                x < y /\ Within(x, s) /\ Within(y, s) =>
                  \/ ord[c[x]] <= ord[c[y]]
                  \/ Within(x, A) /\ Within(y, A)
                  \/ Within(x, B) /\ Within(y, B)
           => Ordered(n, c, ord, t)
    <2>1. Parts(n, s, A, B)
      BY <1>1
    <2>2. QED
      BY <1>2, <1>3, <1>4, <1>5, <2>1, SplitKeeps
  <1>7. ASSUME ord # AnyOrder
        PROVE  Ordered(n, c, ord, t)
    <2>1. Moved(n, b, c, calls[k]) /\ Ordered(n, b, ord, calls)
      BY <1>1, <1>2, <1>7 DEF SortInv
    <2>2. Ordered(n, c, ord, calls)
      BY <1>2, <2>1, MoveKeepsOrder
    <2>3. ASSUME NEW x \in 1 .. n, NEW y \in 1 .. n, x < y, Within(x, s), Within(y, s)
          PROVE  \/ ord[c[x]] <= ord[c[y]]
                 \/ Within(x, A) /\ Within(y, A)
                 \/ Within(x, B) /\ Within(y, B)
      <3>1. l <= x /\ x <= u /\ l <= y /\ y <= u /\ l \in 1 .. N /\ u \in 1 .. N
        BY <1>1, <2>3, Innermost
      <3>2. x \in l .. u /\ y \in l .. u
        BY <1>2, <3>1
      <3>3. QED
        BY <1>1, <1>7, <2>3, <3>2
    <2>4. QED
      BY <1>6, <2>2, <2>3
  <1>8. PICK h \in [0 .. Len(t) -> 0 .. n] : Halves(n, t, h)
    BY <1>6
  <1>9. PICK v \in [0 .. Len(t) -> Nat] : Costs(t, v) /\ v[Len(t)] + 2 * Size(s) <= w[Len(calls)]
    BY <1>6
  <1>10. compared + 1 + v[Len(t)] <= n * (n + 1)
    <2>1. PICK q : q = n * (n + 1)
      OBVIOUS
    <2>2. q \in Nat /\ compared \in Nat
      BY <1>2, <2>1 DEF SortInv
    <2>3. v[Len(t)] \in Nat /\ w[Len(calls)] \in Nat
      <3>1. Len(t) \in 0 .. Len(t) /\ Len(calls) \in 0 .. Len(calls)
        BY <1>2, <1>6 DEF Stacked
      <3>2. QED
        BY <1>4, <1>9, <3>1
    <2>4. Size(s) \in Int /\ Spent + 1 <= 2 * Size(s)
      <3>1. Size(s) = u - l + 1 /\ l \in 1 .. N /\ u \in 1 .. N /\ N \in Nat
        BY <1>1, Innermost
      <3>2. QED
        BY <1>1, <3>1
    <2>5. compared + w[Len(calls)] <= q + Spent /\ v[Len(t)] + 2 * Size(s) <= w[Len(calls)]
      BY <1>4, <1>9, <2>1
    <2>6. compared + 1 + v[Len(t)] <= q
      BY <2>2, <2>3, <2>4, <2>5
    <2>7. QED
      BY <2>1, <2>6
  <1>11. Loop(t)
    BY <1>1, <1>5
  <1>12. Stacked(N, t) /\ h \in [0 .. Len(t) -> 0 .. N] /\ Halves(N, t, h)
    BY <1>1, <1>6, <1>8
  <1>13. compared + 1 + v[Len(t)] <= N * (N + 1)
    BY <1>1, <1>10
  <1>14. order # AnyOrder => Ordered(N, array', order, t)
    BY <1>1, <1>7
  <1>15. QED
    BY <1>9, <1>11, <1>12, <1>13, <1>14, LoopKeeps

-----------------------------------------------------------------------------
(* The comparisons. *)

\* What the invariant says of the innermost call, and of comparing elements.
LEMMA Facts ==
  ASSUME SortInv, at.pc # "done"
  PROVE  /\ N \in Nat /\ l \in 1 .. N /\ u \in 1 .. N /\ l < u
         /\ \A x : Within(x, Last(todo)) <=> l <= x /\ x <= u
         /\ Permutation(N, array) /\ array \in [1 .. N -> 1 .. N]
         /\ order # AnyOrder => order \in [1 .. N -> Int]
         /\ Position
         /\ order # AnyOrder => Compared
  BY Innermost DEF SortInv, Permutation

\* An exchange of two elements of the part that the innermost call sorts.
LEMMA ExchangeInside ==
  ASSUME SortInv, at.pc # "done", NEW b, Permutation(N, b), Moved(N, array, b, Last(todo)),
         NEW i \in l .. u, NEW j \in l .. u
  PROVE  /\ Permutation(N, set2(b, i, j)) /\ Moved(N, array, set2(b, i, j), Last(todo))
         /\ set2(b, i, j)[i] = b[j] /\ set2(b, i, j)[j] = b[i]
         /\ \A x \in 1 .. N : x # i /\ x # j => set2(b, i, j)[x] = b[x]
  <1>1. PICK n, a, s, c : n = N /\ a = array /\ s = Last(todo) /\ c = set2(b, i, j)
    OBVIOUS
  <1>2. n \in Nat /\ i \in 1 .. n /\ j \in 1 .. n /\ Within(i, s) /\ Within(j, s)
    BY <1>1, Facts
  <1>3. /\ Permutation(n, set2(b, i, j))
        /\ set2(b, i, j)[i] = b[j] /\ set2(b, i, j)[j] = b[i]
        /\ \A x \in 1 .. n : x # i /\ x # j => set2(b, i, j)[x] = b[x]
        /\ Moved(n, b, set2(b, i, j), s)
    BY <1>1, <1>2, Exchange
  <1>4. Moved(n, a, c, s)
    <2>1. Moved(n, a, b, s) /\ Moved(n, b, c, s)
      BY <1>1, <1>3
    <2>2. QED
      BY <2>1, MovedTwice
  <1>5. QED
    BY <1>1, <1>3, <1>4

LEMMA NoExchange ==
  Moved(N, array, array, Last(todo))
  <1>1. PICK n, a, s : n = N /\ a = array /\ s = Last(todo)
    OBVIOUS
  <1>2. Moved(n, a, a, s)
    BY NotMoved
  <1>3. QED
    BY <1>1, <1>2

\* The answer is what an order says, if the order function has one.
LEMMA Answer ==
  ASSUME NEW less \in BOOLEAN, NEW x, NEW y, sort_comp(less, x, y)
  PROVE  /\ UNCHANGED order /\ compared' = compared + 1
         /\ order # AnyOrder => (less <=> order[x] < order[y])
  <1>1. UNCHANGED order /\ compared' = compared + 1
    BY DEF sort_comp
  <1>2. ASSUME order # AnyOrder
        PROVE  less <=> order[x] < order[y]
    <2>1. less \in {order[x] < order[y]}
      BY <1>2 DEF sort_comp
    <2>2. QED
      BY <2>1, Zenon
  <1>3. QED
    BY <1>1, <1>2

LEMMA EndsKeeps ==
  ASSUME SortInv, NEW less \in BOOLEAN, Ends(less)
  PROVE  SortInv'
  <1>1. /\ at.pc = "ends" /\ UNCHANGED order /\ compared' = compared + 1
        /\ array' = IF less THEN set2(array, l, u) ELSE array
        /\ order # AnyOrder => (less <=> order[array[u]] < order[array[l]])
    BY Answer DEF Ends
  <1>2. /\ N \in Nat /\ l \in 1 .. N /\ u \in 1 .. N /\ l < u
        /\ Permutation(N, array) /\ array \in [1 .. N -> 1 .. N]
        /\ order # AnyOrder => order \in [1 .. N -> Int]
        /\ Position
    BY <1>1, Facts
  <1>3. l \in l .. u /\ u \in l .. u
    BY <1>2
  <1>4. /\ Permutation(N, array') /\ Moved(N, array, array', Last(todo))
        /\ less => array'[l] = array[u] /\ array'[u] = array[l]
    BY <1>1, <1>2, <1>3, ExchangeInside, NoExchange
  <1>5. ASSUME order # AnyOrder
        PROVE  order[array'[l]] <= order[array'[u]]
    <2>1. order[array[l]] \in Int /\ order[array[u]] \in Int
      BY <1>2, <1>5
    <2>2. QED
      BY <1>1, <1>4, <1>5, <2>1
  <1>6. Spent = 0
    BY <1>1 DEF Spent
  <1>7. CASE u - l = 1
    <2>1. Loop(Front(todo))
      BY <1>7 DEF Ends
    <2>2. ASSUME order # AnyOrder, NEW x \in l .. u, NEW y \in l .. u, x < y
          PROVE  order[array'[x]] <= order[array'[y]]
      <3>1. x = l /\ y = u
        BY <1>2, <1>7, <2>2
      <3>2. QED
        BY <1>5, <2>2, <3>1
    <2>3. QED
      BY <1>1, <1>4, <1>6, <2>1, <2>2, EndKeeps
  <1>8. CASE u - l # 1
    <2>1. at' = [at EXCEPT !.pc = "middle", !.i = (l + u) \div 2] /\ UNCHANGED todo
      BY <1>1, <1>8 DEF Ends
    <2>2. (l + u) \div 2 \in l + 1 .. u - 1 /\ (l + u) \div 2 \in 0 .. N /\ u - l >= 2
      BY <1>2, <1>8
    <2>3. l' = l /\ u' = u /\ N' = N
      BY <1>2, <1>4, <2>1, SameLength DEF l, u
    <2>4. /\ at' \in [pc : {"ends", "middle", "upper", "up", "down", "error", "done"},
                      i : 0 .. N, j : 0 .. N, p : 0 .. N]
          /\ at'.pc = "middle" /\ at'.i = (l + u) \div 2
      BY <1>2, <2>1, <2>2 DEF Position
    <2>5. todo' # <<>>
      BY <1>1, <1>2, <2>1 DEF Position
    <2>6. Position'
      BY <1>2, <2>2, <2>3, <2>4, <2>5 DEF Position
    <2>7. Spent' = 1
      BY <2>4 DEF Spent
    <2>8. order # AnyOrder => Compared'
      BY <1>1, <1>5, <2>3, <2>4 DEF Compared
    <2>9. QED
      BY <1>1, <1>4, <1>6, <2>1, <2>6, <2>7, <2>8, StayKeeps
  <1>9. QED
    BY <1>7, <1>8

\* With the pivot a[at.i] between a[l] and a[u].
LEMMA PivotKeeps ==
  ASSUME SortInv, at.pc \in {"middle", "upper"}, UNCHANGED order, compared' = compared + 1,
         NEW a, Permutation(N, a), Moved(N, array, a, Last(todo)), Pivot(a),
         order # AnyOrder => order[a[l]] <= order[a[at.i]] /\ order[a[at.i]] <= order[a[u]]
  PROVE  SortInv'
  <1>1. /\ N \in Nat /\ l \in 1 .. N /\ u \in 1 .. N /\ l < u
        /\ order # AnyOrder => order \in [1 .. N -> Int]
        /\ Position
    BY Facts
  <1>2. u - l >= 2 /\ at.i \in l + 1 .. u - 1
    BY <1>1 DEF Position
  <1>3. Spent \in 0 .. 2
    BY DEF Spent
  <1>4. a \in [1 .. N -> 1 .. N]
    BY DEF Permutation
  <1>5. CASE u - l = 2
    <2>1. array' = a /\ Loop(Front(todo))
      BY <1>5 DEF Pivot
    <2>2. ASSUME order # AnyOrder, NEW x \in l .. u, NEW y \in l .. u, x < y
          PROVE  order[array'[x]] <= order[array'[y]]
      <3>1. /\ x = l \/ x = l + 1
            /\ y = l + 1 \/ y = u
            /\ x = l + 1 => y = u
        BY <1>1, <1>2, <1>5, <2>2
      <3>2. order[a[l]] \in Int /\ order[a[u]] \in Int /\ order[a[at.i]] \in Int
        <4>1. at.i \in 1 .. N
          BY <1>1, <1>2
        <4>2. QED
          BY <1>1, <1>4, <2>2, <4>1
      <3>3. at.i = l + 1
        BY <1>1, <1>2, <1>5
      <3>4. QED
        BY <2>1, <2>2, <3>1, <3>2, <3>3
    <2>3. QED
      BY <1>3, <2>1, <2>2, EndKeeps
  <1>6. CASE u - l # 2
    <2>1. /\ array' = set2(a, at.i, u - 1) /\ UNCHANGED todo
          /\ at' = [pc |-> "up", i |-> l, j |-> u - 1, p |-> a[at.i]]
      BY <1>6 DEF Pivot
    <2>2. u - l >= 3 /\ u - 1 \in l .. u /\ at.i \in l .. u /\ u - 1 \in 1 .. N /\ at.i \in 1 .. N
      BY <1>1, <1>2, <1>6
    <2>3. /\ Permutation(N, array') /\ Moved(N, array, array', Last(todo))
          /\ array'[u - 1] = a[at.i]
          /\ \A x \in 1 .. N : x # at.i /\ x # u - 1 => array'[x] = a[x]
      BY <2>1, <2>2, ExchangeInside
    <2>4. l' = l /\ u' = u /\ N' = N
      BY <1>1, <2>1, <2>3, SameLength DEF l, u
    <2>5. /\ at' \in [pc : {"ends", "middle", "upper", "up", "down", "error", "done"},
                      i : 0 .. N, j : 0 .. N, p : 0 .. N]
          /\ at'.pc = "up" /\ at'.i = l /\ at'.j = u - 1 /\ at'.p = array'[u - 1]
      BY <1>1, <1>4, <2>1, <2>2, <2>3
    <2>6. todo' # <<>>
      BY <1>1, <2>1 DEF Position
    <2>7. l \in l .. u - 1 /\ u - 1 \in l + 1 .. u - 1 /\ l < u
      BY <1>1, <2>2
    <2>8. Position'
      BY <2>2, <2>4, <2>5, <2>6, <2>7 DEF Position
    <2>9. Spent' = 3
      <3>1. Spent' = 3 + (l - l) + (u - 1 - (u - 1))
        BY <2>4, <2>5 DEF Spent
      <3>2. QED
        BY <1>1, <3>1
    <2>10. ASSUME order # AnyOrder
           PROVE  Compared'
      <3>1. order[a[l]] \in Int /\ order[a[u]] \in Int /\ order[a[at.i]] \in Int
        BY <1>1, <1>4, <2>2, <2>10
      <3>2. at'.i <= at'.j /\ at'.i <= u' - 2
        BY <1>1, <2>2, <2>4, <2>5
      <3>3. \A x \in l' .. at'.i : order'[array'[x]] <= order'[at'.p]
        <4> TAKE x \in l' .. at'.i
        <4>1. x = l /\ l # at.i /\ l # u - 1
          BY <1>1, <1>2, <2>2, <2>4, <2>5
        <4>2. array'[x] = a[l]
          BY <1>1, <2>3, <4>1
        <4>3. QED
          BY <2>3, <2>5, <2>10, <4>2
      <3>4. \A x \in at'.j .. u' : order'[array'[x]] >= order'[at'.p]
        <4> TAKE x \in at'.j .. u'
        <4>1. x = u - 1 \/ (x = u /\ u # at.i /\ u # u - 1)
          BY <1>1, <1>2, <2>2, <2>4, <2>5
        <4>2. array'[x] = a[at.i] \/ array'[x] = a[u]
          BY <1>1, <2>3, <4>1
        <4>3. QED
          BY <2>3, <2>5, <2>10, <3>1, <4>2
      <3>5. QED
        BY <2>5, <3>2, <3>3, <3>4 DEF Compared
    <2>11. QED
      BY <1>3, <2>1, <2>3, <2>8, <2>9, <2>10, StayKeeps
  <1>7. QED
    BY <1>5, <1>6

LEMMA MiddleKeeps ==
  ASSUME SortInv, NEW less \in BOOLEAN, Middle(less)
  PROVE  SortInv'
  <1>1. /\ at.pc = "middle" /\ UNCHANGED order /\ compared' = compared + 1
        /\ order # AnyOrder => (less <=> order[array[at.i]] < order[array[l]])
    BY Answer DEF Middle
  <1>2. N \in Nat /\ l \in 1 .. N /\ u \in 1 .. N /\ l < u
    BY <1>1, Facts
  <1>T. /\ Permutation(N, array) /\ array \in [1 .. N -> 1 .. N]
        /\ order # AnyOrder => order \in [1 .. N -> Int]
    BY <1>1, Facts
  <1>P. Position /\ (order # AnyOrder => Compared)
    BY <1>1, Facts
  <1>3. u - l >= 2 /\ at.i \in l + 1 .. u - 1 /\ at.i \in 1 .. N /\ at.i \in l .. u /\ l \in l .. u
    <2>1. u - l >= 2 /\ at.i \in l + 1 .. u - 1
      BY <1>1, <1>P DEF Position
    <2>2. QED
      BY <1>2, <2>1
  <1>4. ASSUME order # AnyOrder
        PROVE  /\ order[array[l]] \in Int /\ order[array[u]] \in Int /\ order[array[at.i]] \in Int
               /\ order[array[l]] <= order[array[u]]
    BY <1>1, <1>2, <1>T, <1>P, <1>3, <1>4 DEF Compared
  <1>5. CASE less
    <2>1. PICK a : a = set2(array, at.i, l)
      OBVIOUS
    <2>2. /\ Permutation(N, a) /\ Moved(N, array, a, Last(todo))
          /\ a[at.i] = array[l] /\ a[l] = array[at.i]
          /\ \A x \in 1 .. N : x # at.i /\ x # l => a[x] = array[x]
      <3>1. PICK i : i = at.i
        OBVIOUS
      <3>2. i \in l .. u /\ l \in l .. u /\ at.pc # "done"
        BY <1>1, <1>3, <3>1
      <3>3. Permutation(N, array) /\ Moved(N, array, array, Last(todo))
        BY <1>T, NoExchange
      <3>4. /\ Permutation(N, set2(array, i, l)) /\ Moved(N, array, set2(array, i, l), Last(todo))
            /\ set2(array, i, l)[i] = array[l] /\ set2(array, i, l)[l] = array[i]
            /\ \A x \in 1 .. N : x # i /\ x # l => set2(array, i, l)[x] = array[x]
        BY <3>2, <3>3, ExchangeInside
      <3>5. QED
        BY <2>1, <3>1, <3>4
    <2>3. a[u] = array[u]
      BY <1>2, <1>3, <2>2
    <2>4. Pivot(a)
      BY <1>5, <2>1 DEF Middle
    <2>5. order # AnyOrder => order[a[l]] <= order[a[at.i]] /\ order[a[at.i]] <= order[a[u]]
      BY <1>1, <1>4, <1>5, <2>2, <2>3
    <2>6. QED
      BY <1>1, <2>2, <2>4, <2>5, PivotKeeps
  <1>6. CASE ~less
    <2>1. at' = [at EXCEPT !.pc = "upper"] /\ UNCHANGED <<array, todo>>
      BY <1>6 DEF Middle
    <2>2. /\ at' \in [pc : {"ends", "middle", "upper", "up", "down", "error", "done"},
                      i : 0 .. N, j : 0 .. N, p : 0 .. N]
          /\ at'.pc = "upper" /\ at'.i = at.i
      BY <1>P, <2>1 DEF Position
    <2>3. l' = l /\ u' = u /\ N' = N
      BY <2>1 DEF l, u, N
    <2>4. todo' # <<>>
      BY <1>1, <1>P, <2>1 DEF Position
    <2>5. Position'
      BY <1>2, <1>3, <2>2, <2>3, <2>4 DEF Position
    <2>6. Spent = 1 /\ Spent' = 2
      BY <1>1, <2>2 DEF Spent
    <2>7. ASSUME order # AnyOrder
          PROVE  Compared'
      <3>1. order[array[l]] <= order[array[at.i]]
        BY <1>1, <1>4, <1>6, <2>7
      <3>2. /\ order'[array'[l']] <= order'[array'[u']]
            /\ order'[array'[l']] <= order'[array'[at'.i]]
        BY <1>1, <1>4, <2>1, <2>2, <2>3, <2>7, <3>1
      <3>3. QED
        BY <2>2, <3>2 DEF Compared
    <2>8. Permutation(N, array') /\ Moved(N, array, array', Last(todo))
      BY <1>T, <2>1, NoExchange
    <2>9. QED
      BY <1>1, <2>1, <2>5, <2>6, <2>7, <2>8, StayKeeps
  <1>7. QED
    BY <1>5, <1>6

LEMMA UpperKeeps ==
  ASSUME SortInv, NEW less \in BOOLEAN, Upper(less)
  PROVE  SortInv'
  <1>1. /\ at.pc = "upper" /\ UNCHANGED order /\ compared' = compared + 1
        /\ order # AnyOrder => (less <=> order[array[u]] < order[array[at.i]])
    BY Answer DEF Upper
  <1>2. N \in Nat /\ l \in 1 .. N /\ u \in 1 .. N /\ l < u
    BY <1>1, Facts
  <1>T. /\ Permutation(N, array) /\ array \in [1 .. N -> 1 .. N]
        /\ order # AnyOrder => order \in [1 .. N -> Int]
    BY <1>1, Facts
  <1>P. Position /\ (order # AnyOrder => Compared)
    BY <1>1, Facts
  <1>3. u - l >= 2 /\ at.i \in l + 1 .. u - 1 /\ at.i \in 1 .. N /\ at.i \in l .. u /\ u \in l .. u
    <2>1. u - l >= 2 /\ at.i \in l + 1 .. u - 1
      BY <1>1, <1>P DEF Position
    <2>2. QED
      BY <1>2, <2>1
  <1>4. ASSUME order # AnyOrder
        PROVE  /\ order[array[l]] \in Int /\ order[array[u]] \in Int /\ order[array[at.i]] \in Int
               /\ order[array[l]] <= order[array[u]] /\ order[array[l]] <= order[array[at.i]]
    BY <1>1, <1>2, <1>T, <1>P, <1>3, <1>4 DEF Compared
  <1>5. PICK a : a = IF less THEN set2(array, at.i, u) ELSE array
    OBVIOUS
  <1>6. Pivot(a)
    BY <1>5 DEF Upper
  <1>7. CASE less
    <2>1. /\ Permutation(N, a) /\ Moved(N, array, a, Last(todo))
          /\ a[at.i] = array[u] /\ a[u] = array[at.i]
          /\ \A x \in 1 .. N : x # at.i /\ x # u => a[x] = array[x]
      <3>1. PICK i : i = at.i
        OBVIOUS
      <3>2. i \in l .. u /\ u \in l .. u /\ at.pc # "done"
        BY <1>1, <1>3, <3>1
      <3>3. Permutation(N, array) /\ Moved(N, array, array, Last(todo))
        BY <1>T, NoExchange
      <3>4. /\ Permutation(N, set2(array, i, u)) /\ Moved(N, array, set2(array, i, u), Last(todo))
            /\ set2(array, i, u)[i] = array[u] /\ set2(array, i, u)[u] = array[i]
            /\ \A x \in 1 .. N : x # i /\ x # u => set2(array, i, u)[x] = array[x]
        BY <3>2, <3>3, ExchangeInside
      <3>5. QED
        BY <1>5, <1>7, <3>1, <3>4
    <2>2. a[l] = array[l]
      BY <1>2, <1>3, <2>1
    <2>3. order # AnyOrder => order[a[l]] <= order[a[at.i]] /\ order[a[at.i]] <= order[a[u]]
      BY <1>1, <1>4, <1>7, <2>1, <2>2
    <2>4. QED
      BY <1>1, <1>6, <2>1, <2>3, PivotKeeps
  <1>8. CASE ~less
    <2>1. a = array
      BY <1>5, <1>8
    <2>2. Permutation(N, a) /\ Moved(N, array, a, Last(todo))
      BY <1>T, <2>1, NoExchange
    <2>3. order # AnyOrder => order[a[l]] <= order[a[at.i]] /\ order[a[at.i]] <= order[a[u]]
      BY <1>1, <1>4, <1>8, <2>1
    <2>4. QED
      BY <1>1, <1>6, <2>2, <2>3, PivotKeeps
  <1>9. QED
    BY <1>7, <1>8

LEMMA UpKeeps ==
  ASSUME SortInv, NEW less \in BOOLEAN, Up(less)
  PROVE  SortInv'
  <1>1. PICK i : i = at.i + 1
    OBVIOUS
  <1>2. /\ at.pc = "up" /\ UNCHANGED order /\ compared' = compared + 1
        /\ order # AnyOrder => (less <=> order[array[i]] < order[at.p])
    BY <1>1, Answer DEF Up
  <1>3. /\ at' = [at EXCEPT !.i = i, !.pc = IF ~less THEN "down" ELSE IF i >= u THEN "error" ELSE "up"]
        /\ UNCHANGED <<array, todo>>
    BY <1>1 DEF Up
  <1>4. N \in Nat /\ l \in 1 .. N /\ u \in 1 .. N /\ l < u
    BY <1>2, Facts
  <1>T. /\ Permutation(N, array) /\ array \in [1 .. N -> 1 .. N]
        /\ order # AnyOrder => order \in [1 .. N -> Int]
    BY <1>2, Facts
  <1>P. Position /\ (order # AnyOrder => Compared)
    BY <1>2, Facts
  <1>5. /\ u - l >= 3 /\ at.i \in l .. u - 1 /\ at.j \in l + 1 .. u - 1
        /\ at.p = array[u - 1]
    BY <1>2, <1>P DEF Position
  <1>A. /\ u - 1 \in 1 .. N /\ at.i \in Int /\ at.j \in Int
        /\ i \in l + 1 .. u /\ i \in 1 .. N /\ i \in 0 .. N
    BY <1>1, <1>4, <1>5
  <1>6. /\ at' \in [pc : {"ends", "middle", "upper", "up", "down", "error", "done"},
                    i : 0 .. N, j : 0 .. N, p : 0 .. N]
        /\ at'.pc = (IF ~less THEN "down" ELSE IF i >= u THEN "error" ELSE "up")
        /\ at'.i = i /\ at'.j = at.j /\ at'.p = at.p
    BY <1>3, <1>P, <1>A DEF Position
  <1>7. l' = l /\ u' = u /\ N' = N /\ array' = array /\ todo' = todo /\ order' = order
    BY <1>2, <1>3 DEF l, u, N
  <1>8. todo' # <<>>
    BY <1>2, <1>P, <1>7 DEF Position
  <1>9. Position'
    <2>1. at'.pc = "up" => i \in l .. u - 1
      <3>1. at'.pc = "up" => ~(i >= u)
        BY <1>6
      <3>2. QED
        BY <1>4, <1>A, <3>1
    <2>2. at'.pc \in {"up", "down", "error"}
      BY <1>6
    <2>3. at.j \in l .. u - 1
      BY <1>4, <1>5, <1>A
    <2>4. QED
      BY <1>4, <1>5, <1>A, <1>6, <1>7, <1>8, <2>1, <2>2, <2>3 DEF Position
  <1>10. Spent \in Int /\ Spent' \in Int /\ Spent' >= Spent + 1
    <2>1. Spent = 3 + (at.i - l) + (u - 1 - at.j)
      BY <1>2 DEF Spent
    <2>2. Spent' = 3 + (i - l) + (u - 1 - at.j)
      BY <1>6, <1>7 DEF Spent
    <2>3. QED
      BY <1>1, <1>4, <1>A, <2>1, <2>2
  <1>11. ASSUME order # AnyOrder
         PROVE  Compared'
    <2>1. /\ at.i <= at.j /\ at.i <= u - 2
          /\ \A x \in l .. at.i : order[array[x]] <= order[at.p]
          /\ \A x \in at.j .. u : order[array[x]] >= order[at.p]
      BY <1>2, <1>P, <1>11 DEF Compared
    <2>2. order[at.p] \in Int /\ order[array[i]] \in Int
      BY <1>T, <1>5, <1>A, <1>11
    <2>3. less => i # u - 1 /\ at.i # at.j
      <3>1. i = u - 1 => order[array[i]] = order[at.p]
        BY <1>5
      <3>2. at.i = at.j => order[array[i]] >= order[at.p]
        <4>1. at.i = at.j => i \in at.j .. u
          BY <1>1, <1>4, <1>A
        <4>2. QED
          BY <2>1, <4>1
      <3>3. less => order[array[i]] < order[at.p]
        BY <1>2, <1>11
      <3>4. QED
        BY <2>2, <3>1, <3>2, <3>3
    <2>4. at.i <= at.j /\ at.i <= u - 2
      BY <2>1
    <2>5. i <= at.j + 1 /\ i <= u - 1 /\ (less => i <= at.j /\ i <= u - 2)
      BY <1>1, <1>4, <1>A, <2>3, <2>4
    <2>6. at'.pc # "error" /\ at'.pc \in {"up", "down"} /\ (at'.pc = "up" <=> less)
      <3>1. ~(i >= u)
        BY <1>4, <1>A, <2>5
      <3>2. QED
        BY <1>6, <3>1
    <2>7. \A x \in l .. i - 1 : order[array[x]] <= order[at.p]
      <3>1. \A x \in l .. i - 1 : x \in l .. at.i
        BY <1>1, <1>4, <1>A
      <3>2. QED
        BY <2>1, <3>1
    <2>8. less => \A x \in l .. i : order[array[x]] <= order[at.p]
      <3> SUFFICES ASSUME less, NEW x \in l .. i
                   PROVE  order[array[x]] <= order[at.p]
        OBVIOUS
      <3>1. x = i \/ x \in l .. i - 1
        BY <1>4, <1>A
      <3>2. QED
        BY <1>2, <1>11, <2>2, <2>7, <3>1
    <2>9. ~less => order[array[i]] >= order[at.p]
      BY <1>2, <1>11, <2>2
    <2>10. QED
      BY <1>6, <1>7, <2>1, <2>5, <2>6, <2>7, <2>8, <2>9 DEF Compared
  <1>12. Permutation(N, array') /\ Moved(N, array, array', Last(todo))
    BY <1>T, <1>7, NoExchange
  <1>13. QED
    BY <1>2, <1>7, <1>9, <1>10, <1>11, <1>12, StayKeeps

\* What is known in the middle of a pass downwards.
LEMMA DownFacts ==
  ASSUME SortInv, at.pc = "down", NEW i, NEW j, i = at.i, j = at.j - 1
  PROVE  /\ N \in Nat /\ l \in 1 .. N /\ u \in 1 .. N /\ l < u /\ u - l >= 3
         /\ i \in l + 1 .. u /\ j \in l .. u - 2 /\ at.j \in l + 1 .. u - 1 /\ at.j = j + 1
         /\ i \in l .. u /\ j \in l .. u /\ u - 1 \in l .. u
         /\ i \in 1 .. N /\ j \in 1 .. N /\ u - 1 \in 1 .. N
         /\ at.p = array[u - 1]
         /\ order # AnyOrder =>
              /\ i <= j + 2 /\ i <= u - 1
              /\ \A x \in l .. i - 1 : order[array[x]] <= order[at.p]
              /\ \A x \in j + 1 .. u : order[array[x]] >= order[at.p]
              /\ order[array[i]] >= order[at.p]
              /\ order[at.p] \in Int /\ \A x \in l .. u : order[array[x]] \in Int
  <1>1. N \in Nat /\ l \in 1 .. N /\ u \in 1 .. N /\ l < u
    BY Facts
  <1>2. /\ array \in [1 .. N -> 1 .. N]
        /\ order # AnyOrder => order \in [1 .. N -> Int]
    BY Facts
  <1>3. Position /\ (order # AnyOrder => Compared)
    BY Facts
  <1>4. u - l >= 3 /\ i \in l + 1 .. u /\ at.j \in l + 1 .. u - 1 /\ at.p = array[u - 1]
    BY <1>3 DEF Position
  <1>5. /\ j \in l .. u - 2 /\ at.j = j + 1 /\ i \in l .. u /\ j \in l .. u /\ u - 1 \in l .. u
        /\ i \in 1 .. N /\ j \in 1 .. N /\ u - 1 \in 1 .. N
    BY <1>1, <1>4
  <1>6. ASSUME order # AnyOrder
        PROVE  /\ i <= j + 2 /\ i <= u - 1
               /\ \A x \in l .. i - 1 : order[array[x]] <= order[at.p]
               /\ \A x \in j + 1 .. u : order[array[x]] >= order[at.p]
               /\ order[array[i]] >= order[at.p]
               /\ order[at.p] \in Int /\ \A x \in l .. u : order[array[x]] \in Int
    <2>1. /\ i <= at.j + 1 /\ i <= u - 1
          /\ \A x \in l .. i - 1 : order[array[x]] <= order[at.p]
          /\ \A x \in at.j .. u : order[array[x]] >= order[at.p]
          /\ order[array[i]] >= order[at.p]
      BY <1>3, <1>6 DEF Compared
    <2>2. at.j + 1 = j + 2
      BY <1>1, <1>5
    <2>3. \A x \in l .. u : x \in 1 .. N
      BY <1>1
    <2>4. order[at.p] \in Int /\ \A x \in l .. u : order[array[x]] \in Int
      BY <1>2, <1>4, <1>5, <1>6, <2>3
    <2>5. QED
      BY <1>5, <2>1, <2>2, <2>4
  <1>7. QED
    BY <1>1, <1>4, <1>5, <1>6

\* The next element is greater than the pivot.
LEMMA DownGreater ==
  ASSUME SortInv, Down(TRUE)
  PROVE  SortInv'
  <1>1. PICK i, j : i = at.i /\ j = at.j - 1
    OBVIOUS
  <1>2. /\ at.pc = "down" /\ UNCHANGED order /\ compared' = compared + 1
        /\ order # AnyOrder => order[at.p] < order[array[j]]
    <2>1. at.pc = "down" /\ sort_comp(TRUE, at.p, array[j])
      BY <1>1 DEF Down
    <2>2. QED
      BY <2>1, Answer
  <1>3. /\ at' = [at EXCEPT !.j = j, !.pc = IF j <= l THEN "error" ELSE "down"]
        /\ UNCHANGED <<array, todo>>
    BY <1>1 DEF Down
  <1>4. /\ N \in Nat /\ l \in 1 .. N /\ u \in 1 .. N /\ l < u /\ u - l >= 3
        /\ i \in l + 1 .. u /\ j \in l .. u - 2 /\ j \in 1 .. N /\ at.j = j + 1
        /\ at.p = array[u - 1]
    BY <1>1, <1>2, DownFacts
  <1>5. Permutation(N, array) /\ Position
    BY <1>2, Facts
  <1>6. /\ at' \in [pc : {"ends", "middle", "upper", "up", "down", "error", "done"},
                    i : 0 .. N, j : 0 .. N, p : 0 .. N]
        /\ at'.pc = (IF j <= l THEN "error" ELSE "down")
        /\ at'.i = i /\ at'.j = j /\ at'.p = at.p
    <2>1. j \in 0 .. N
      BY <1>4
    <2>2. QED
      BY <1>1, <1>3, <1>5, <2>1 DEF Position
  <1>7. l' = l /\ u' = u /\ N' = N /\ array' = array /\ todo' = todo /\ order' = order
    BY <1>2, <1>3 DEF l, u, N
  <1>8. todo' # <<>>
    BY <1>2, <1>5, <1>7 DEF Position
  <1>9. Position'
    <2>1. at'.pc = "down" => j \in l + 1 .. u - 1
      <3>1. at'.pc = "down" => ~(j <= l)
        BY <1>6
      <3>2. QED
        BY <1>4, <3>1
    <2>2. at'.pc \in {"down", "error"}
      BY <1>6
    <2>3. j \in l .. u - 1
      BY <1>4
    <2>4. QED
      BY <1>4, <1>6, <1>7, <1>8, <2>1, <2>2, <2>3 DEF Position
  <1>10. Spent \in Int /\ Spent' \in Int /\ Spent' >= Spent + 1
    <2>1. Spent = 3 + (i - l) + (u - 1 - (j + 1))
      BY <1>1, <1>2, <1>4 DEF Spent
    <2>2. Spent' = 3 + (i - l) + (u - 1 - j)
      BY <1>6, <1>7 DEF Spent
    <2>3. QED
      BY <1>4, <2>1, <2>2
  <1>11. ASSUME order # AnyOrder
         PROVE  Compared'
    <2>1. /\ i <= j + 2 /\ i <= u - 1
          /\ \A x \in l .. i - 1 : order[array[x]] <= order[at.p]
          /\ \A x \in j + 1 .. u : order[array[x]] >= order[at.p]
          /\ order[array[i]] >= order[at.p]
          /\ order[at.p] \in Int /\ \A x \in l .. u : order[array[x]] \in Int
      BY <1>1, <1>2, <1>11, DownFacts
    <2>2. order[array[j]] \in Int /\ order[at.p] < order[array[j]]
      <3>1. j \in l .. u
        BY <1>4
      <3>2. QED
        BY <1>2, <1>11, <2>1, <3>1
    <2>3. j \notin l .. i - 1
      BY <2>1, <2>2
    <2>4. i <= j + 1 /\ ~(j <= l)
      <3>1. i <= j
        BY <1>4, <2>3
      <3>2. QED
        BY <1>4, <3>1
    <2>5. at'.pc = "down"
      BY <1>6, <2>4
    <2>6. \A x \in j .. u : order[array[x]] >= order[at.p]
      <3> TAKE x \in j .. u
      <3>1. x = j \/ x \in j + 1 .. u
        BY <1>4
      <3>2. QED
        BY <2>1, <2>2, <3>1
    <2>7. QED
      BY <1>6, <1>7, <2>1, <2>4, <2>5, <2>6 DEF Compared
  <1>12. Permutation(N, array') /\ Moved(N, array, array', Last(todo))
    BY <1>5, <1>7, NoExchange
  <1>13. QED
    BY <1>2, <1>7, <1>9, <1>10, <1>11, <1>12, StayKeeps

\* What both other cases start from.
LEMMA DownNotGreater ==
  ASSUME SortInv, Down(FALSE), NEW i, NEW j, i = at.i, j = at.j - 1
  PROVE  /\ at.pc = "down" /\ UNCHANGED order /\ compared' = compared + 1
         /\ order # AnyOrder => ~(order[at.p] < order[array[j]])
         /\ IF j < i THEN Split(i)
            ELSE /\ array' = set2(array, i, j)
                 /\ at' = [at EXCEPT !.j = j, !.pc = "up"]
                 /\ UNCHANGED todo
  <1>1. at.pc = "down" /\ sort_comp(FALSE, at.p, array[j])
    BY DEF Down
  <1>2. /\ UNCHANGED order /\ compared' = compared + 1
        /\ order # AnyOrder => ~(order[at.p] < order[array[j]])
    BY <1>1, Answer
  <1>3. IF j < i THEN Split(i)
        ELSE /\ array' = set2(array, i, j)
             /\ at' = [at EXCEPT !.j = j, !.pc = "up"]
             /\ UNCHANGED todo
    BY DEF Down
  <1>4. QED
    BY <1>1, <1>2, <1>3

\* The indices have not met: an exchange.
LEMMA DownExchange ==
  ASSUME SortInv, Down(FALSE), ~(at.j - 1 < at.i)
  PROVE  SortInv'
  <1>1. PICK i, j : i = at.i /\ j = at.j - 1
    OBVIOUS
  <1>2. /\ at.pc = "down" /\ UNCHANGED order /\ compared' = compared + 1
        /\ order # AnyOrder => ~(order[at.p] < order[array[j]])
        /\ array' = set2(array, i, j)
        /\ at' = [at EXCEPT !.j = j, !.pc = "up"]
        /\ UNCHANGED todo
    BY <1>1, DownNotGreater
  <1>3. /\ N \in Nat /\ l \in 1 .. N /\ u \in 1 .. N /\ l < u /\ u - l >= 3
        /\ i \in l + 1 .. u /\ j \in l .. u - 2 /\ i \in l .. u /\ j \in l .. u
        /\ i \in 1 .. N /\ j \in 1 .. N /\ u - 1 \in 1 .. N /\ at.j = j + 1
        /\ at.p = array[u - 1]
    BY <1>1, <1>2, DownFacts
  <1>4. i <= j
    BY <1>1, <1>3
  <1>5. Permutation(N, array) /\ Position
    BY <1>2, Facts
  <1>6. /\ Permutation(N, array') /\ Moved(N, array, array', Last(todo))
        /\ array'[i] = array[j] /\ array'[j] = array[i]
        /\ \A x \in 1 .. N : x # i /\ x # j => array'[x] = array[x]
    BY <1>2, <1>3, <1>5, ExchangeInside, NoExchange
  <1>7. array'[u - 1] = array[u - 1]
    <2>1. u - 1 # i /\ u - 1 # j
      BY <1>3, <1>4
    <2>2. QED
      BY <1>3, <1>6, <2>1
  <1>8. /\ at' \in [pc : {"ends", "middle", "upper", "up", "down", "error", "done"},
                    i : 0 .. N, j : 0 .. N, p : 0 .. N]
        /\ at'.pc = "up" /\ at'.i = i /\ at'.j = j /\ at'.p = at.p
    <2>1. j \in 0 .. N
      BY <1>3
    <2>2. QED
      BY <1>1, <1>2, <1>5, <2>1 DEF Position
  <1>9. l' = l /\ u' = u /\ N' = N
    BY <1>2, <1>3, <1>6, SameLength DEF l, u
  <1>10. todo' # <<>>
    BY <1>2, <1>5 DEF Position
  <1>11. Position'
    <2>1. i \in l .. u - 1 /\ j \in l + 1 .. u - 1
      BY <1>3, <1>4
    <2>2. at'.p = array'[u - 1]
      BY <1>3, <1>7, <1>8
    <2>3. QED
      BY <1>3, <1>8, <1>9, <1>10, <2>1, <2>2 DEF Position
  <1>12. Spent \in Int /\ Spent' \in Int /\ Spent' >= Spent + 1
    <2>1. Spent = 3 + (i - l) + (u - 1 - (j + 1))
      BY <1>1, <1>2, <1>3 DEF Spent
    <2>2. Spent' = 3 + (i - l) + (u - 1 - j)
      BY <1>8, <1>9 DEF Spent
    <2>3. QED
      BY <1>3, <2>1, <2>2
  <1>13. ASSUME order # AnyOrder
         PROVE  Compared'
    <2>1. /\ \A x \in l .. i - 1 : order[array[x]] <= order[at.p]
          /\ \A x \in j + 1 .. u : order[array[x]] >= order[at.p]
          /\ order[array[i]] >= order[at.p]
          /\ order[at.p] \in Int /\ \A x \in l .. u : order[array[x]] \in Int
      BY <1>1, <1>2, <1>13, DownFacts
    <2>2. order[array[j]] <= order[at.p]
      BY <1>2, <1>3, <1>13, <2>1
    <2>3. i <= u - 2
      BY <1>3, <1>4
    <2>4. \A x \in l .. i : order[array'[x]] <= order[at.p]
      <3> TAKE x \in l .. i
      <3>1. x = i \/ (x \in l .. i - 1 /\ x \in 1 .. N /\ x # i /\ x # j)
        BY <1>3, <1>4
      <3>2. QED
        BY <1>6, <2>1, <2>2, <3>1
    <2>5. \A x \in j .. u : order[array'[x]] >= order[at.p]
      <3> TAKE x \in j .. u
      <3>1. x = j \/ (x \in j + 1 .. u /\ x \in 1 .. N /\ x # i /\ x # j)
        BY <1>3, <1>4
      <3>2. QED
        BY <1>6, <2>1, <3>1
    <2>6. QED
      BY <1>2, <1>4, <1>8, <1>9, <2>3, <2>4, <2>5 DEF Compared
  <1>14. QED
    BY <1>2, <1>6, <1>11, <1>12, <1>13, StayKeeps

\* The indices have met: the pivot goes between the two parts.
LEMMA DownSplit ==
  ASSUME SortInv, Down(FALSE), at.j - 1 < at.i
  PROVE  SortInv'
  <1>1. PICK i, j : i = at.i /\ j = at.j - 1
    OBVIOUS
  <1>2. /\ at.pc = "down" /\ UNCHANGED order /\ compared' = compared + 1
        /\ Split(i)
    BY <1>1, DownNotGreater
  <1>3. /\ N \in Nat /\ l \in 1 .. N /\ u \in 1 .. N /\ l < u /\ u - l >= 3
        /\ i \in l + 1 .. u /\ j \in l .. u - 2 /\ i \in l .. u /\ u - 1 \in l .. u
        /\ i \in 1 .. N /\ u - 1 \in 1 .. N /\ at.j = j + 1
        /\ at.p = array[u - 1]
    BY <1>1, <1>2, DownFacts
  <1>4. j + 1 <= i
    BY <1>1, <1>3
  <1>5. Permutation(N, array)
    BY <1>2, Facts
  <1>6. /\ Permutation(N, array') /\ Moved(N, array, array', Last(todo))
        /\ array'[u - 1] = array[i] /\ array'[i] = array[u - 1]
        /\ \A x \in 1 .. N : x # i /\ x # u - 1 => array'[x] = array[x]
    <2>1. PICK k : k = u - 1
      OBVIOUS
    <2>2. array' = set2(array, k, i) /\ k \in l .. u
      BY <1>2, <1>3, <2>1 DEF Split
    <2>3. /\ Permutation(N, array') /\ Moved(N, array, array', Last(todo))
          /\ array'[k] = array[i] /\ array'[i] = array[k]
          /\ \A x \in 1 .. N : x # k /\ x # i => array'[x] = array[x]
      <3>1. Moved(N, array, array, Last(todo)) /\ at.pc # "done"
        BY <1>2, NoExchange
      <3>2. k \in l .. u /\ i \in l .. u
        BY <1>3, <2>2
      <3>3. /\ Permutation(N, set2(array, k, i)) /\ Moved(N, array, set2(array, k, i), Last(todo))
            /\ set2(array, k, i)[k] = array[i] /\ set2(array, k, i)[i] = array[k]
            /\ \A x \in 1 .. N : x # k /\ x # i => set2(array, k, i)[x] = array[x]
        BY <1>5, <3>1, <3>2, ExchangeInside
      <3>4. QED
        BY <2>2, <3>3
    <2>4. QED
      BY <2>1, <2>3
  <1>7. PICK lower, upper : lower = segment(l, i - 1) /\ upper = segment(i + 1, u)
    OBVIOUS
  <1>8. /\ lower.l = l /\ lower.u = i - 1 /\ upper.l = i + 1 /\ upper.u = u
        /\ lower \in Segment(N) /\ upper \in Segment(N)
    <2>1. l \in 1 .. N + 1 /\ i - 1 \in 0 .. N /\ i + 1 \in 1 .. N + 1 /\ u \in 0 .. N
      BY <1>3
    <2>2. QED
      BY <1>7, <2>1 DEF segment, Segment
  <1>9. /\ Size(lower) = i - l /\ Size(upper) = u - i
        /\ Size(lower) + Size(upper) + 1 = Size(Last(todo)) /\ Size(Last(todo)) = u - l + 1
    <2>1. Size(lower) = i - 1 - l + 1 /\ Size(upper) = u - (i + 1) + 1
      BY <1>8 DEF Size
    <2>2. Size(Last(todo)) = u - l + 1
      BY <1>2, Innermost
    <2>3. QED
      BY <1>3, <2>1, <2>2
  <1>10. ASSUME NEW A, NEW B, {A, B} = {lower, upper}, Size(B) <= Size(A),
                (A = lower /\ B = upper) \/ (A = upper /\ B = lower)
         PROVE  Parts(N, Last(todo), A, B)
    <2>1. Last(todo).l = l /\ Last(todo).u = u
      BY DEF l, u
    <2>2. /\ lower.l <= lower.u + 1 /\ l <= lower.l /\ lower.u <= u
          /\ upper.l <= upper.u + 1 /\ l <= upper.l /\ upper.u <= u
          /\ lower.u < upper.l
      BY <1>3, <1>8
    <2>3. Size(A) + Size(B) + 1 = Size(Last(todo))
      <3>1. Size(lower) \in Int /\ Size(upper) \in Int
        BY <1>3, <1>9
      <3>2. QED
        BY <1>9, <1>10, <3>1
    <2>4. QED
      BY <1>8, <1>10, <2>1, <2>2, <2>3 DEF Parts
  <1>11. Spent \in Int /\ Spent + 1 <= 2 * Size(Last(todo))
    <2>1. Spent = 3 + (i - l) + (u - 1 - (j + 1))
      BY <1>1, <1>2, <1>3 DEF Spent
    <2>2. QED
      BY <1>3, <1>9, <2>1
  <1>12. ASSUME order # AnyOrder, NEW x \in l .. u, NEW y \in l .. u, x < y
         PROVE  \/ order[array'[x]] <= order[array'[y]]
                \/ Within(x, lower) /\ Within(y, lower)
                \/ Within(x, upper) /\ Within(y, upper)
    <2>1. /\ i <= u - 1
          /\ \A z \in l .. i - 1 : order[array[z]] <= order[at.p]
          /\ \A z \in j + 1 .. u : order[array[z]] >= order[at.p]
          /\ order[at.p] \in Int /\ \A z \in l .. u : order[array[z]] \in Int
      BY <1>1, <1>2, <1>12, DownFacts
    <2>2. \A z \in i .. u : order[array'[z]] >= order[at.p] /\ order[array'[z]] \in Int
      <3> TAKE z \in i .. u
      <3>1. z = i \/ z = u - 1 \/ (z # i /\ z # u - 1 /\ z \in 1 .. N /\ z \in j + 1 .. u /\ z \in l .. u)
        BY <1>3, <1>4
      <3>2. i \in j + 1 .. u
        BY <1>3, <1>4
      <3>3. CASE z = i
        BY <1>3, <1>6, <2>1, <3>3
      <3>4. CASE z = u - 1
        BY <1>3, <1>6, <2>1, <3>2, <3>4
      <3>5. CASE z # i /\ z # u - 1 /\ z \in 1 .. N /\ z \in j + 1 .. u /\ z \in l .. u
        BY <1>6, <2>1, <3>5
      <3>6. QED
        BY <3>1, <3>3, <3>4, <3>5
    <2>3. \A z \in l .. i - 1 : order[array'[z]] <= order[at.p] /\ order[array'[z]] \in Int
      <3> TAKE z \in l .. i - 1
      <3>1. z # i /\ z # u - 1 /\ z \in 1 .. N /\ z \in l .. u
        BY <1>3, <2>1
      <3>2. QED
        BY <1>6, <2>1, <3>1
    <2>4. CASE x <= i /\ y >= i
      <3>1. y \in i .. u /\ (x = i \/ x \in l .. i - 1)
        BY <1>3, <2>4
      <3>2. order[array'[i]] = order[at.p]
        BY <1>3, <1>6
      <3>3. QED
        BY <2>1, <2>2, <2>3, <3>1, <3>2
    <2>5. CASE y < i
      <3>1. l <= x /\ x <= i - 1 /\ l <= y /\ y <= i - 1
        BY <1>3, <1>12, <2>5
      <3>2. QED
        BY <1>8, <3>1 DEF Within
    <2>6. CASE x > i
      <3>1. i + 1 <= x /\ x <= u /\ i + 1 <= y /\ y <= u
        BY <1>3, <1>12, <2>6
      <3>2. QED
        BY <1>8, <3>1 DEF Within
    <2>7. (x <= i /\ y >= i) \/ y < i \/ x > i
      BY <1>3
    <2>8. QED
      BY <2>4, <2>5, <2>6, <2>7
  <1>13. CASE i - l < u - i
    <2>1. Loop(Divided(todo, upper, lower))
      BY <1>2, <1>7, <1>13 DEF Split, Divided, Concat
    <2>2. Parts(N, Last(todo), upper, lower)
      <3>1. Size(lower) <= Size(upper)
        BY <1>3, <1>9, <1>13
      <3>2. QED
        BY <1>10, <3>1
    <2>3. ASSUME order # AnyOrder, NEW x \in l .. u, NEW y \in l .. u, x < y
          PROVE  \/ order[array'[x]] <= order[array'[y]]
                 \/ Within(x, upper) /\ Within(y, upper)
                 \/ Within(x, lower) /\ Within(y, lower)
      BY <1>12, <2>3
    <2>4. QED
      BY <1>2, <1>6, <1>11, <2>1, <2>2, <2>3, PartsKeep
  <1>14. CASE ~(i - l < u - i)
    <2>1. Loop(Divided(todo, lower, upper))
      BY <1>2, <1>7, <1>14 DEF Split, Divided, Concat
    <2>2. Parts(N, Last(todo), lower, upper)
      <3>1. Size(upper) <= Size(lower)
        BY <1>3, <1>9, <1>14
      <3>2. QED
        BY <1>10, <3>1
    <2>3. QED
      BY <1>2, <1>6, <1>11, <1>12, <2>1, <2>2, PartsKeep
  <1>15. QED
    BY <1>13, <1>14

LEMMA DownKeeps ==
  ASSUME SortInv, NEW less \in BOOLEAN, Down(less)
  PROVE  SortInv'
  <1>1. less = TRUE \/ less = FALSE
    OBVIOUS
  <1>2. QED
    BY <1>1, DownGreater, DownExchange, DownSplit

-----------------------------------------------------------------------------
(* The invariant holds, and the property follows from it. *)

LEMMA InitSorts ==
  ASSUME RANKS \in SUBSET Int, SortInit
  PROVE  SortInv
  <1>1. PICK n \in 0 .. MAXSORT :
          /\ array = [i \in 1 .. n |-> i]
          /\ order \in {AnyOrder} \cup [1 .. n -> RANKS]
          /\ todo = Unsorted(<<segment(1, n)>>)
          /\ at = [pc |-> IF n > 1 THEN "ends" ELSE "done", i |-> 0, j |-> 0, p |-> 0]
          /\ compared = 0
    BY DEF SortInit
  <1>2. n \in Nat
    OBVIOUS
  <1>3. PICK b : b = array
    OBVIOUS
  <1>4. b \in [1 .. n -> 1 .. n] /\ \A x \in 1 .. n : b[x] = x
    BY <1>1, <1>3
  <1>5. Permutation(n, b)
    BY <1>4 DEF Permutation
  <1>6. N = n
    BY <1>2, <1>3, <1>4, LenOfFunction DEF N
  <1>7. PICK s, calls : s = segment(1, n) /\ calls = <<s>>
    OBVIOUS
  <1>8. s \in Segment(n) /\ s.l = 1 /\ s.u = n
    <2>1. 1 \in 1 .. n + 1 /\ n \in 0 .. n
      BY <1>2
    <2>2. QED
      BY <1>7, <2>1 DEF segment, Segment
  <1>9. calls \in Seq(Segment(n)) /\ Len(calls) = 1 /\ calls[1] = s
    BY <1>7, <1>8
  <1>10. \A k \in 1 .. Len(calls) : k = 1
    BY <1>9
  <1>11. Stacked(n, calls)
    BY <1>2, <1>8, <1>9, <1>10 DEF Stacked
  <1>12. Size(s) = n
    BY <1>2, <1>8 DEF Size
  <1>13. PICK half \in [0 .. Len(calls) -> 0 .. n] : Halves(n, calls, half)
    <2> DEFINE half == [k \in 0 .. 1 |-> IF k = 0 THEN n ELSE n \div 2]
    <2>1. half \in [0 .. 1 -> 0 .. n] /\ half[0] = n /\ half[1] = n \div 2
      BY <1>2
    <2>. HIDE DEF half
    <2>2. \A k \in 0 .. Len(calls) : k = 0 \/ k = 1
      BY <1>9
    <2>3. \A j, k \in 0 .. Len(calls) : j <= k => half[k] <= half[j]
      BY <1>2, <2>1, <2>2
    <2>4. \A k \in 1 .. Len(calls) : half[k] = half[k - 1] \div 2 /\ Size(calls[k]) <= half[k - 1]
      <3> TAKE k \in 1 .. Len(calls)
      <3>1. k = 1 /\ k - 1 = 0
        BY <1>10
      <3>2. QED
        BY <1>2, <1>9, <1>12, <2>1, <3>1
    <2>5. Halves(n, calls, half)
      BY <2>1, <2>3, <2>4 DEF Halves
    <2>6. QED
      BY <1>9, <2>1, <2>5
  <1>14. PICK w \in [0 .. Len(calls) -> Nat] : Costs(calls, w) /\ w[Len(calls)] = n * (n + 1)
    <2>1. PICK q : q = n * (n + 1)
      OBVIOUS
    <2>2. q \in Nat
      BY <1>2, <2>1
    <2> DEFINE w == [k \in 0 .. 1 |-> IF k = 0 THEN 0 ELSE q]
    <2>3. w \in [0 .. 1 -> Nat] /\ w[0] = 0 /\ w[1] = q
      BY <2>2
    <2>. HIDE DEF w
    <2>4. \A k \in 0 .. Len(calls) : k = 0 \/ k = 1
      BY <1>9
    <2>5. \A j, k \in 0 .. Len(calls) : j <= k => w[j] <= w[k]
      BY <2>2, <2>3, <2>4
    <2>6. \A k \in 1 .. Len(calls) : w[k] = w[k - 1] + Size(calls[k]) * (Size(calls[k]) + 1)
      <3> TAKE k \in 1 .. Len(calls)
      <3>1. k = 1 /\ k - 1 = 0
        BY <1>10
      <3>2. Size(calls[k]) * (Size(calls[k]) + 1) = q
        BY <1>9, <1>12, <2>1, <3>1
      <3>3. QED
        BY <2>2, <2>3, <3>1, <3>2
    <2>7. Costs(calls, w)
      BY <2>3, <2>5, <2>6 DEF Costs
    <2>8. QED
      BY <1>9, <2>1, <2>3, <2>7
  <1>15. PICK ord, t : ord = order /\ t = todo
    OBVIOUS
  <1>16. t = Unsorted(calls)
    BY <1>1, <1>7, <1>15
  <1>17. Ordered(n, b, ord, calls)
    <2> SUFFICES ASSUME NEW x \in 1 .. n, NEW y \in 1 .. n
                 PROVE  \E k \in 1 .. Len(calls) : Within(x, calls[k]) /\ Within(y, calls[k])
      BY DEF Ordered
    <2>1. Within(x, s) /\ Within(y, s) /\ 1 \in 1 .. Len(calls)
      BY <1>2, <1>8, <1>9 DEF Within
    <2>2. QED
      BY <1>9, <2>1
  <1>18. /\ Stacked(n, t)
         /\ \E h \in [0 .. Len(t) -> 0 .. n] : Halves(n, t, h)
         /\ \E v \in [0 .. Len(t) -> Nat] : Costs(t, v) /\ v[Len(t)] <= w[Len(calls)]
         /\ Ordered(n, b, ord, calls) => Ordered(n, b, ord, t)
         /\ t # <<>> => Last(t).l < Last(t).u
    BY <1>2, <1>11, <1>13, <1>14, <1>16, TrimKeeps
  <1>19. t = <<>> <=> ~(n > 1)
    <2>1. PICK m \in 0 .. Len(calls) :
            /\ \A k \in m + 1 .. Len(calls) : ~(calls[k].l < calls[k].u)
            /\ m > 0 => calls[m].l < calls[m].u
            /\ m = 0 <=> t = <<>>
      <3>1. calls \in Seq(Segment(n))
        BY <1>11 DEF Stacked
      <3>2. PICK m \in 0 .. Len(calls) :
              /\ Unsorted(calls) \in Seq(Segment(n)) /\ Len(Unsorted(calls)) = m
              /\ \A k \in 1 .. m : Unsorted(calls)[k] = calls[k]
              /\ \A k \in m + 1 .. Len(calls) : ~(calls[k].l < calls[k].u)
              /\ m > 0 => calls[m].l < calls[m].u
              /\ m = 0 <=> Unsorted(calls) = <<>>
        BY <3>1, UnsortedFacts
      <3>3. QED
        BY <1>16, <3>2
    <2>2. m = 0 \/ m = 1
      BY <1>9, <2>1
    <2>3. m = 0 => ~(1 < n)
      <3>1. m = 0 => 1 \in m + 1 .. Len(calls)
        BY <1>9
      <3>2. QED
        BY <1>8, <1>9, <2>1, <3>1
    <2>4. m = 1 => 1 < n
      BY <1>8, <1>9, <2>1
    <2>5. QED
      BY <1>2, <2>1, <2>2, <2>3, <2>4
  <1>20. at.pc = "ends" \/ at.pc = "done"
    BY <1>1
  <1>21. Spent = 0
    BY <1>20 DEF Spent
  <1>22. Position
    <2>1. 0 \in 0 .. N
      BY <1>2, <1>6
    <2>2. /\ at \in [pc : {"ends", "middle", "upper", "up", "down", "error", "done"},
                     i : 0 .. N, j : 0 .. N, p : 0 .. N]
          /\ at.pc = "done" <=> todo = <<>>
      BY <1>1, <1>15, <1>19, <2>1
    <2>3. at.pc # "done" => l < u
      BY <1>15, <1>18, <2>2 DEF l, u
    <2>4. QED
      BY <1>20, <2>2, <2>3 DEF Position
  <1>23. Compared
    BY <1>20 DEF Compared
  <1>24. Accounts(n, t, 0, 0)
    <2>1. PICK v \in [0 .. Len(t) -> Nat] : Costs(t, v) /\ v[Len(t)] <= w[Len(calls)]
      BY <1>18
    <2>2. v[Len(t)] \in Nat
      <3>1. Len(t) \in 0 .. Len(t)
        BY <1>18 DEF Stacked
      <3>2. QED
        BY <3>1
    <2>3. PICK q : q = n * (n + 1)
      OBVIOUS
    <2>4. 0 + v[Len(t)] <= q + 0
      BY <1>2, <1>14, <2>1, <2>2, <2>3
    <2>5. QED
      BY <1>18, <2>1, <2>3, <2>4 DEF Accounts
  <1>25. order = AnyOrder \/ order \in [1 .. N -> Int]
    <2>1. ASSUME order \in [1 .. n -> RANKS]
          PROVE  order \in [1 .. N -> Int]
      <3>1. \A x \in 1 .. n : order[x] \in Int
        BY <2>1
      <3>2. QED
        BY <1>6, <2>1, <3>1
    <2>2. QED
      BY <1>1, <2>1
  <1>26. N \in Nat /\ compared \in Nat /\ Permutation(N, array) /\ Stacked(N, todo)
    BY <1>1, <1>2, <1>3, <1>5, <1>6, <1>15, <1>18
  <1>27. Accounts(N, todo, compared, Spent)
    BY <1>1, <1>6, <1>15, <1>21, <1>24
  <1>28. Ordered(N, array, order, todo)
    BY <1>3, <1>6, <1>15, <1>17, <1>18
  <1>29. QED
    BY <1>22, <1>23, <1>25, <1>26, <1>27, <1>28 DEF SortInv

LEMMA NextSorts ==
  ASSUME SortInv, [SortNext]_sortvars
  PROVE  SortInv'
  <1>1. CASE SortNext
    BY <1>1, EndsKeeps, MiddleKeeps, UpperKeeps, UpKeeps, DownKeeps DEF SortNext
  <1>2. CASE UNCHANGED sortvars
    <2>1. /\ array' = array /\ order' = order /\ todo' = todo /\ at' = at /\ compared' = compared
          /\ l' = l /\ u' = u /\ N' = N
      BY <1>2 DEF sortvars, l, u, N
    <2>2. Spent' = Spent
      BY <2>1 DEF Spent
    <2>3. Position' /\ (order # AnyOrder => Compared')
      BY <2>1 DEF SortInv, Position, Compared
    <2>4. QED
      BY <2>1, <2>2, <2>3 DEF SortInv
  <1>3. QED
    BY <1>1, <1>2

\* At most so many comparisons, the last calls' included.
LEMMA EndsInTime ==
  ASSUME SortInv
  PROVE  compared <= N * (N + 1)
  <1>1. PICK w \in [0 .. Len(todo) -> Nat] :
          Costs(todo, w) /\ compared + w[Len(todo)] <= N * (N + 1) + Spent
    BY DEF SortInv, Accounts
  <1>2. PICK q : q = N * (N + 1)
    OBVIOUS
  <1>3. q \in Nat /\ compared \in Nat /\ Position
    BY <1>2 DEF SortInv
  <1>4. CASE at.pc = "done"
    <2>1. Spent = 0 /\ todo = <<>>
      BY <1>3, <1>4 DEF Spent, Position
    <2>2. w[Len(todo)] = 0
      BY <1>1, <2>1 DEF Costs
    <2>3. compared + 0 <= q + 0
      BY <1>1, <1>2, <2>1, <2>2
    <2>4. QED
      BY <1>2, <1>3, <2>3
  <1>5. CASE at.pc # "done"
    <2>1. PICK k, z : k = Len(todo) /\ z = Size(todo[k])
      OBVIOUS
    <2>2. /\ l \in Nat /\ u \in Nat /\ l < u /\ z = u - l + 1 /\ k \in Nat /\ k \in 1 .. k
      <3>1. /\ N \in Nat /\ l \in 1 .. N /\ u \in 1 .. N /\ l < u
            /\ Len(todo) \in 1 .. Len(todo) /\ Last(todo) = todo[Len(todo)]
            /\ Size(Last(todo)) = u - l + 1
        BY <1>5, Innermost
      <3>2. todo \in Seq(Segment(N))
        BY DEF SortInv, Stacked
      <3>3. QED
        BY <2>1, <3>1, <3>2
    <2>3. Spent \in Int /\ Spent <= 2 * z
      <3>1. CASE at.pc \in {"ends", "middle", "upper"}
        <4>1. Spent \in 0 .. 2
          BY <3>1 DEF Spent
        <4>2. QED
          BY <2>2, <4>1
      <3>2. CASE at.pc \notin {"ends", "middle", "upper"}
        <4>1. at.pc \in {"up", "down", "error"}
          BY <1>3, <1>5, <3>2 DEF Position
        <4>2. at.i \in l .. u /\ at.j \in l .. u - 1
          BY <1>3, <2>2, <4>1 DEF Position
        <4>3. at.pc = "error" \/ at.j \in l + 1 .. u - 1
          BY <1>3, <4>1 DEF Position
        <4>4. Spent = 3 + (at.i - l) + (u - 1 - at.j)
          BY <4>1 DEF Spent
        <4>5. QED
          BY <2>2, <4>2, <4>4
      <3>3. QED
        BY <3>1, <3>2
    <2>4. PICK e : e = z * (z + 1)
      OBVIOUS
    <2>5. e \in Nat /\ 2 * z <= e
      <3>1. PICK y : y = z - 2
        OBVIOUS
      <3>2. y \in Nat /\ z = y + 2
        BY <2>2, <3>1
      <3>3. z * (z + 1) = y * y + 5 * y + 6 /\ y * y \in Nat
        BY <3>2
      <3>4. PICK r : r = y * y
        OBVIOUS
      <3>5. e = r + 5 * y + 6 /\ r \in Nat
        BY <2>4, <3>3, <3>4
      <3>6. QED
        BY <3>2, <3>5
    <2>6. w[k] = w[k - 1] + e /\ w[k - 1] \in Nat
      <3>1. k - 1 \in 0 .. Len(todo) /\ k \in 1 .. Len(todo)
        BY <2>1, <2>2
      <3>2. w[k] = w[k - 1] + Size(todo[k]) * (Size(todo[k]) + 1)
        BY <1>1, <3>1 DEF Costs
      <3>3. QED
        BY <2>1, <2>4, <3>1, <3>2
    <2>7. compared + (w[k - 1] + e) <= q + Spent
      BY <1>1, <1>2, <2>1, <2>6
    <2>8. compared <= q
      BY <1>3, <2>3, <2>5, <2>6, <2>7, <2>2
    <2>9. QED
      BY <1>2, <2>8
  <1>6. QED
    BY <1>4, <1>5

LEMMA NestsFew ==
  ASSUME SortInv
  PROVE  NestedFew
  <1> SUFFICES ASSUME todo # <<>>
               PROVE  \E half \in [0 .. Len(todo) -> 1 .. N] :
                        half[0] = N /\ \A k \in 1 .. Len(todo) : half[k] = half[k - 1] \div 2
    BY DEF NestedFew, N
  <1>1. PICK half \in [0 .. Len(todo) -> 0 .. N] : Halves(N, todo, half)
    BY DEF SortInv, Accounts
  <1>2. PICK k : k = Len(todo)
    OBVIOUS
  <1>3. at.pc # "done"
    BY DEF SortInv, Position
  <1>4. N \in Nat /\ k \in 1 .. k /\ k \in Nat /\ Size(todo[k]) \in Nat /\ Size(todo[k]) >= 2
    <2>1. /\ N \in Nat /\ l \in 1 .. N /\ u \in 1 .. N /\ l < u
          /\ Len(todo) \in 1 .. Len(todo) /\ Last(todo) = todo[Len(todo)]
          /\ Size(Last(todo)) = u - l + 1
      BY <1>3, Innermost
    <2>2. todo \in Seq(Segment(N))
      BY DEF SortInv, Stacked
    <2>3. u - l + 1 \in Nat /\ u - l + 1 >= 2
      BY <2>1
    <2>4. QED
      BY <1>2, <2>1, <2>2, <2>3
  <1>5. half[k] >= 1
    <2>1. k - 1 \in 0 .. Len(todo) /\ k \in 1 .. Len(todo)
      BY <1>2, <1>4
    <2>2. half[k] = half[k - 1] \div 2 /\ Size(todo[k]) <= half[k - 1] /\ half[k - 1] \in 0 .. N
      BY <1>1, <2>1 DEF Halves
    <2>3. QED
      BY <1>4, <2>2
  <1>6. \A x \in 0 .. k : half[x] \in 1 .. N
    <2> TAKE x \in 0 .. k
    <2>1. x <= k /\ x \in 0 .. Len(todo) /\ k \in 0 .. Len(todo)
      BY <1>2, <1>4
    <2>2. half[k] <= half[x] /\ half[x] \in 0 .. N /\ half[k] \in 0 .. N
      BY <1>1, <2>1 DEF Halves
    <2>3. QED
      BY <1>4, <1>5, <2>2
  <1>7. half \in [0 .. Len(todo) -> 1 .. N]
    BY <1>1, <1>2, <1>6
  <1>8. QED
    BY <1>1, <1>7 DEF Halves

LEMMA SafelySorted ==
  ASSUME SortInv
  PROVE  SortsSafely
  <1>1. N \in Nat /\ Position /\ array \in [1 .. N -> 1 .. N] /\ {array[x] : x \in 1 .. N} = 1 .. N
    BY DEF SortInv, Permutation
  <1>2. {array[i] : i \in DOMAIN array} = DOMAIN array
    BY <1>1
  <1>3. at.pc \in {"up", "down"} => l \in Int /\ u \in Int
    BY Innermost
  <1>4. at.pc = "up" => at.i + 1 <= u
    BY <1>1, <1>3 DEF Position
  <1>5. at.pc = "down" => at.j - 1 >= l
    BY <1>1, <1>3 DEF Position
  <1>6. order # AnyOrder => at.pc # "error"
    BY DEF SortInv, Compared
  <1>7. ASSUME order # AnyOrder, at.pc = "done", NEW i \in 2 .. N
        PROVE  order[array[i - 1]] <= order[array[i]]
    <2>1. todo = <<>> /\ Ordered(N, array, order, todo)
      BY <1>1, <1>7 DEF SortInv, Position
    <2>2. i - 1 \in 1 .. N /\ i \in 1 .. N /\ i - 1 < i
      BY <1>1
    <2>3. ~ \E k \in 1 .. Len(todo) : Within(i - 1, todo[k]) /\ Within(i, todo[k])
      BY <2>1
    <2>4. QED
      BY <2>1, <2>2, <2>3 DEF Ordered
  <1>8. compared <= Len(array) * (Len(array) + 1)
    BY EndsInTime DEF N
  <1>9. order # AnyOrder /\ at.pc = "done" => \A i \in 2 .. Len(array) : order[array[i - 1]] <= order[array[i]]
    BY <1>7 DEF N
  <1>10. NestedFew
    BY NestsFew
  <1>11. QED
    BY <1>2, <1>4, <1>5, <1>6, <1>8, <1>9, <1>10 DEF SortsSafely

\* auxsort permutes the array, reads and writes only the part it sorts, ends
\* after at most n * (n + 1) comparisons and within log2(n) nested calls,
\* whatever the order function answers; with an order it ends sorted, and never
\* with "invalid order function for sorting".
THEOREM SortIsSafe ==
  ASSUME RANKS \in SUBSET Int
  PROVE  SortSpec => []SortsSafely
  <1>1. SortInit => SortInv
    BY InitSorts
  <1>2. SortInv /\ [SortNext]_sortvars => SortInv'
    BY NextSorts
  <1>3. SortInv => SortsSafely
    BY SafelySorted
  <1>4. QED
    BY <1>1, <1>2, <1>3, PTL DEF SortSpec

=============================================================================
