--------------------------- MODULE LuaTableProofs ---------------------------
(***************************************************************************)
(* Proofs about LuaTable, for every set of keys and tables of every size.  *)
(***************************************************************************)
EXTENDS LuaTable, FiniteSetTheorems, SequenceTheorems, WellFoundedInduction, TLAPS

\* Every nonempty set of naturals has a least element.
LEMMA LeastElement ==
  ASSUME NEW T \in SUBSET Nat, T # {}
  PROVE  \E x \in T : \A y \in T : x <= y
  <1> DEFINE R == {ss \in Nat \X Nat : ss[1] < ss[2]}
  <1>1. IsWellFoundedOn(R, Nat)
    BY NatLessThanWellFounded DEF OpToRel
  <1>2. PICK x \in T : \A y \in T : <<y, x>> \notin R
    <2> HIDE DEF R
    <2> QED
      BY <1>1, WFMin
  <1>3. ASSUME NEW y \in T
        PROVE  x <= y
    <2>1. <<y, x>> \notin R /\ x \in Nat /\ y \in Nat
      BY <1>2
    <2>2. QED
      BY <2>1
  <1>4. QED
    BY <1>3

\* Induction, for a set that is given as such.
LEMMA Induction ==
  ASSUME NEW T \in SUBSET Nat, 0 \in T, \A n \in T : n + 1 \in T
  PROVE  \A n \in Nat : n \in T
  <1> SUFFICES ASSUME Nat \ T # {}
               PROVE  FALSE
    OBVIOUS
  <1>1. PICK x \in Nat \ T : \A y \in Nat \ T : x <= y
    BY LeastElement
  <1>2. x - 1 \in T
    BY <1>1
  <1>3. QED
    BY <1>1, <1>2

\* The largest element of a nonempty bounded set of naturals.
LEMMA GreatestElement ==
  ASSUME NEW T \in SUBSET Nat, T # {}, NEW b \in Nat, \A y \in T : y <= b
  PROVE  \E x \in T : \A y \in T : y <= x
  <1> DEFINE U == {u \in Nat : \A y \in T : y <= u}
  <1>1. b \in U
    OBVIOUS
  <1>2. PICK x \in U : \A u \in U : x <= u
    BY <1>1, LeastElement
  <1>3. CASE x \in T
    BY <1>2, <1>3
  <1>4. CASE x \notin T
    <2>1. PICK y \in T : TRUE
      OBVIOUS
    <2>2. y <= x /\ y # x
      BY <1>2, <1>4
    <2>3. x - 1 \in U
      <3>1. \A z \in T : z <= x /\ z # x
        BY <1>2, <1>4
      <3>2. QED
        BY <2>2, <3>1, <1>2
    <2>4. QED
      BY <2>3, <1>2
  <1>5. QED
    BY <1>3, <1>4

Iterates(p, x, F) == p = [i \in Nat |-> IF i = 0 THEN x ELSE F[<<i, p[i - 1]>>]]

\* A function that is defined by iteration exists.
LEMMA Iteration ==
  ASSUME NEW S, NEW x \in S, NEW F \in [Nat \X S -> S]
  PROVE  \E p \in [Nat -> S] : Iterates(p, x, F)
  <1> DEFINE Part(n, q) == /\ q \in [0 .. n -> S] /\ q[0] = x
                           /\ \A i \in 1 .. n : q[i] = F[<<i, q[i - 1]>>]
             T == {n \in Nat : \E q : Part(n, q)}
             Same(n) == \A q, r, m : m \in Nat /\ n <= m /\ Part(n, q) /\ Part(m, r) => q[n] = r[n]
             U == {n \in Nat : Same(n)}
  <1>1. \A n \in Nat : \E q : Part(n, q)
    <2>1. 0 \in T
      <3>1. Part(0, [i \in 0 .. 0 |-> x])
        OBVIOUS
      <3>2. QED
        BY <3>1
    <2>2. ASSUME NEW n \in T
          PROVE  n + 1 \in T
      <3>1. PICK q : Part(n, q)
        OBVIOUS
      <3> DEFINE y == F[<<n + 1, q[n]>>]
                 r == [i \in 0 .. n + 1 |-> IF i = n + 1 THEN y ELSE q[i]]
      <3>2. y \in S
        BY <3>1
      <3>3. r \in [0 .. n + 1 -> S] /\ r[0] = x
        BY <3>1, <3>2
      <3>4. ASSUME NEW i \in 1 .. n + 1
            PROVE  r[i] = F[<<i, r[i - 1]>>]
        <4>1. CASE i = n + 1
          <5>1. r[i] = y /\ r[i - 1] = q[n]
            BY <4>1
          <5>2. QED
            BY <5>1, <4>1
        <4>2. CASE i # n + 1
          <5>1. i \in 1 .. n /\ r[i] = q[i] /\ r[i - 1] = q[i - 1]
            BY <4>2
          <5>2. QED
            BY <5>1, <3>1
        <4>3. QED
          BY <4>1, <4>2
      <3>5. Part(n + 1, r)
        BY <3>3, <3>4
      <3>6. QED
        <4> HIDE DEF Part
        <4> QED
          BY <3>5
    <2>3. QED
      <3> HIDE DEF Part
      <3>1. \A n \in Nat : n \in T
        BY <2>1, <2>2, Induction
      <3>2. QED
        BY <3>1
  <1>2. \A n \in Nat : Same(n)
    <2>1. 0 \in U
      OBVIOUS
    <2>2. ASSUME NEW n \in U
          PROVE  n + 1 \in U
      <3> SUFFICES ASSUME NEW q, NEW r, NEW m \in Nat, n + 1 <= m, Part(n + 1, q), Part(m, r)
                   PROVE  q[n + 1] = r[n + 1]
        <4> HIDE DEF Part
        <4> QED
          OBVIOUS
      <3> DEFINE s == [i \in 0 .. n |-> q[i]]
      <3>1. Part(n, s)
        OBVIOUS
      <3>2. s[n] = r[n]
        <4>1. n \in Nat /\ n <= m /\ Part(m, r)
          <5> HIDE DEF Part
          <5> QED
            OBVIOUS
        <4>2. Same(n)
          <5> HIDE DEF Same
          <5> QED
            OBVIOUS
        <4>3. QED
          <5> HIDE DEF Part, s
          <5> QED
            BY <3>1, <4>1, <4>2
      <3>3. q[n] = r[n]
        BY <3>2
      <3>4. q[n + 1] = F[<<n + 1, q[n]>>] /\ r[n + 1] = F[<<n + 1, r[n]>>]
        OBVIOUS
      <3>5. QED
        BY <3>3, <3>4
    <2>3. QED
      <3> HIDE DEF Part
      <3>1. \A n \in Nat : n \in U
        BY <2>1, <2>2, Induction
      <3>2. QED
        BY <3>1
  <1> DEFINE Q(n) == CHOOSE q : Part(n, q)
             p == [n \in Nat |-> Q(n)[n]]
  <1>3. \A n \in Nat : Part(n, Q(n))
    <2> HIDE DEF Part
    <2> QED
      BY <1>1
  <1>4. p \in [Nat -> S]
    <2>1. \A n \in Nat : Q(n) \in [0 .. n -> S]
      BY <1>3
    <2>2. \A n \in Nat : Q(n)[n] \in S
      <3> HIDE DEF Q
      <3> QED
        BY <2>1
    <2>3. QED
      <3> HIDE DEF Q
      <3> QED
        BY <2>2
  <1>5. ASSUME NEW i \in Nat
        PROVE  p[i] = IF i = 0 THEN x ELSE F[<<i, p[i - 1]>>]
    <2> HIDE DEF Q
    <2>1. p[i] = Q(i)[i]
      OBVIOUS
    <2>2. CASE i = 0
      BY <2>1, <2>2, <1>3
    <2>3. CASE i # 0
      <3>1. i - 1 \in Nat /\ p[i - 1] = Q(i - 1)[i - 1]
        BY <2>3
      <3>2. Part(i, Q(i)) /\ Part(i - 1, Q(i - 1))
        BY <1>3, <3>1
      <3>3. Q(i - 1)[i - 1] = Q(i)[i - 1]
        <4> HIDE DEF Part
        <4> QED
          BY <3>1, <3>2, <1>2
      <3>4. Q(i)[i] = F[<<i, Q(i)[i - 1]>>]
        BY <3>2, <2>3
      <3>5. QED
        BY <2>1, <2>3, <3>1, <3>3, <3>4
    <2>4. QED
      BY <2>2, <2>3
  <1>6. p = [i \in Nat |-> IF i = 0 THEN x ELSE F[<<i, p[i - 1]>>]]
    <2> HIDE DEF Q
    <2>1. p = [i \in Nat |-> p[i]]
      OBVIOUS
    <2>2. QED
      <3> HIDE DEF p
      <3> QED
        BY <1>5, <2>1
  <1>7. QED
    <2> HIDE DEF p
    <2>1. Iterates(p, x, F)
      BY <1>6 DEF Iterates
    <2>2. QED
      BY <1>4, <2>1

-----------------------------------------------------------------------------
(* Powers of two. *)

LEMMA Powers ==
  /\ twoto[0] = 1
  /\ \A n \in Nat : twoto[n] \in Nat /\ twoto[n + 1] = 2 * twoto[n] /\ n < twoto[n]
  <1> DEFINE F == [z \in Nat \X Nat |-> 2 * z[2]]
  <1>1. PICK p \in [Nat -> Nat] : Iterates(p, 1, F)
    <2>1. F \in [Nat \X Nat -> Nat] /\ 1 \in Nat
      OBVIOUS
    <2>2. QED
      <3> HIDE DEF F
      <3> QED
        BY <2>1, Iteration
  <1>2. p = [i \in Nat |-> IF i = 0 THEN 1 ELSE 2 * p[i - 1]]
    <2>1. \A i \in Nat : p[i] = IF i = 0 THEN 1 ELSE 2 * p[i - 1]
      <3> SUFFICES ASSUME NEW i \in Nat
                   PROVE  p[i] = IF i = 0 THEN 1 ELSE 2 * p[i - 1]
        OBVIOUS
      <3>1. p[i] = IF i = 0 THEN 1 ELSE F[<<i, p[i - 1]>>]
        <4> HIDE DEF F
        <4> QED
          BY <1>1 DEF Iterates
      <3>2. i # 0 => i - 1 \in Nat /\ p[i - 1] \in Nat
        OBVIOUS
      <3>3. QED
        BY <3>1, <3>2
    <2>2. p = [i \in Nat |-> p[i]]
      OBVIOUS
    <2>3. QED
      BY <2>1, <2>2
  <1>3. twoto = [i \in Nat |-> IF i = 0 THEN 1 ELSE 2 * twoto[i - 1]]
    BY <1>2 DEF twoto
  <1>4. twoto[0] = 1 /\ \A n \in Nat : twoto[n + 1] = 2 * twoto[n]
    BY <1>3
  <1> DEFINE T == {n \in Nat : twoto[n] \in Nat /\ n < twoto[n]}
  <1>5. 0 \in T
    BY <1>4
  <1>6. \A n \in T : n + 1 \in T
    BY <1>4
  <1>7. \A n \in Nat : n \in T
    <2> HIDE DEF T
    <2> QED
      <3>1. T \in SUBSET Nat
        BY DEF T
      <3>2. QED
        BY <1>5, <1>6, <3>1, Induction
  <1>8. QED
    BY <1>4, <1>7

LEMMA PowersGrow ==
  ASSUME NEW i \in Nat, NEW j \in Nat, i < j
  PROVE  twoto[i] \in Nat /\ twoto[j] \in Nat /\ 2 * twoto[i] <= twoto[j]
  <1> DEFINE T == {n \in Nat : 2 * twoto[i] <= twoto[i + 1 + n]}
  <1>1. 0 \in T
    BY Powers
  <1>2. ASSUME NEW n \in T
        PROVE  n + 1 \in T
    <2>1. i + 1 + n \in Nat /\ i + 1 + (n + 1) = (i + 1 + n) + 1
      OBVIOUS
    <2>2. twoto[i + 1 + (n + 1)] = 2 * twoto[i + 1 + n] /\ twoto[i + 1 + n] \in Nat
      BY <2>1, Powers
    <2>3. QED
      BY <2>1, <2>2, Powers
  <1>3. \A n \in Nat : n \in T
    <2>1. T \in SUBSET Nat
      OBVIOUS
    <2>2. QED
      <3> HIDE DEF T
      <3> QED
        BY <1>1, <1>2, <2>1, Induction
  <1>4. twoto[i] \in Nat /\ twoto[j] \in Nat /\ j - i - 1 \in Nat /\ i + 1 + (j - i - 1) = j
    BY Powers
  <1>5. 2 * twoto[i] <= twoto[i + 1 + (j - i - 1)]
    BY <1>3, <1>4
  <1>6. QED
    BY <1>4, <1>5

\* luaO_ceillog2 rounds up.
LEMMA CeilLog ==
  ASSUME NEW x \in Nat
  PROVE  /\ luaO_ceillog2(x) \in Nat
         /\ x <= twoto[luaO_ceillog2(x)]
         /\ \A l \in Nat : x <= twoto[l] <=> luaO_ceillog2(x) <= l
  <1> DEFINE S == {l \in 0 .. x : x <= twoto[l]}
  <1>1. x \in S
    BY Powers
  <1>2. PICK i \in S : \A j \in S : i <= j
    <2>1. S \in SUBSET Nat /\ S # {}
      BY <1>1
    <2>2. QED
      <3> HIDE DEF S
      <3> QED
        BY <2>1, LeastElement
  <1>3. First(S) \in S /\ \A j \in S : First(S) <= j
    <2> HIDE DEF S
    <2> QED
      BY <1>2 DEF First
  <1>4. luaO_ceillog2(x) = First(S)
    BY DEF luaO_ceillog2
  <1> HIDE DEF S
  <1>5. PICK c : c = First(S)
    OBVIOUS
  <1>6. c \in Nat /\ x <= twoto[c] /\ c <= x /\ \A j \in Nat : j <= x /\ x <= twoto[j] => c <= j
    BY <1>3, <1>5 DEF S
  <1>7. ASSUME NEW l \in Nat
        PROVE  x <= twoto[l] <=> c <= l
    <2>1. ASSUME c < l
          PROVE  x <= twoto[l]
      <3>1. 2 * twoto[c] <= twoto[l] /\ twoto[c] \in Nat /\ twoto[l] \in Nat
        BY <1>6, <2>1, PowersGrow
      <3>2. QED
        BY <3>1, <1>6
    <2>2. l > x => c <= l
      BY <1>6
    <2>3. QED
      BY <1>6, <2>1, <2>2
  <1>8. QED
    BY <1>4, <1>5, <1>6, <1>7

-----------------------------------------------------------------------------
(* Chains. *)

Step(h, n) == n + h.node[n].next
Closed(h, S) == \A n \in S : Step(h, n) \in S

\* n is linked behind m: no set that the links do not leave separates them.
Reach(h, m, n) == \A S \in SUBSET DOMAIN h.node : m \in S /\ Closed(h, S) => n \in S

LEMMA Walk ==
  ASSUME NEW h, NEW D \in SUBSET Nat, Closed(h, D), NEW m \in D
  PROVE  /\ walk(h, m) \in [Nat -> D] /\ walk(h, m)[0] = m
         /\ \A i \in Nat : walk(h, m)[i + 1] = Step(h, walk(h, m)[i])
  <1> DEFINE F == [z \in Nat \X D |-> z[2] + h.node[z[2]].next]
  <1>1. F \in [Nat \X D -> D]
    BY DEF Closed, Step
  <1>2. PICK p \in [Nat -> D] : Iterates(p, m, F)
    <2> HIDE DEF F
    <2> QED
      BY <1>1, Iteration
  <1>3. p = [i \in Nat |-> IF i = 0 THEN m ELSE p[i - 1] + h.node[p[i - 1]].next]
    <2>1. \A i \in Nat : p[i] = IF i = 0 THEN m ELSE p[i - 1] + h.node[p[i - 1]].next
      <3> SUFFICES ASSUME NEW i \in Nat
                   PROVE  p[i] = IF i = 0 THEN m ELSE p[i - 1] + h.node[p[i - 1]].next
        OBVIOUS
      <3>1. p[i] = IF i = 0 THEN m ELSE F[<<i, p[i - 1]>>]
        <4> HIDE DEF F
        <4> QED
          BY <1>2 DEF Iterates
      <3>2. i # 0 => i - 1 \in Nat /\ p[i - 1] \in D
        OBVIOUS
      <3>3. QED
        BY <3>1, <3>2
    <2>2. p = [i \in Nat |-> p[i]]
      OBVIOUS
    <2>3. QED
      BY <2>1, <2>2
  <1> DEFINE w == walk(h, m)
  <1>4. w = [i \in Nat |-> IF i = 0 THEN m ELSE w[i - 1] + h.node[w[i - 1]].next]
    BY <1>3 DEF walk
  <1> HIDE DEF w
  <1>5. w[0] = m /\ \A i \in Nat : w[i + 1] = w[i] + h.node[w[i]].next
    BY <1>4
  <1> DEFINE T == {n \in Nat : w[n] \in D}
  <1>6. 0 \in T
    BY <1>5
  <1>7. ASSUME NEW n \in T
        PROVE  n + 1 \in T
    <2>1. w[n] + h.node[w[n]].next \in D
      BY DEF Closed, Step
    <2>2. QED
      BY <1>5, <2>1
  <1>8. \A n \in Nat : n \in T
    <2>1. T \in SUBSET Nat
      OBVIOUS
    <2>2. QED
      <3> HIDE DEF T
      <3> QED
        BY <1>6, <1>7, <2>1, Induction
  <1>9. w = [i \in Nat |-> w[i]]
    BY <1>4
  <1>10. w \in [Nat -> D]
    BY <1>8, <1>9
  <1>11. QED
    BY <1>5, <1>10 DEF w, Step

\* Within as many steps as there are nodes a walk meets all that is linked.
LEMMA LinkedIsReach ==
  ASSUME NEW N \in Nat, NEW h, DOMAIN h.node = 0 .. N - 1, Closed(h, 0 .. N - 1),
         NEW m \in 0 .. N - 1, NEW n
  PROVE  sizenode(h) = N /\ (n \in Linked(h, m) <=> Reach(h, m, n))
  <1> DEFINE w == walk(h, m)
  <1>1. w \in [Nat -> 0 .. N - 1] /\ w[0] = m /\ \A i \in Nat : w[i + 1] = Step(h, w[i])
    <2>1. 0 .. N - 1 \in SUBSET Nat
      OBVIOUS
    <2>2. QED
      BY <2>1, Walk
  <1> HIDE DEF w
  <1> DEFINE D == 0 .. N - 1
  <1>7. \A i \in Nat : w[i] \in D
    <2>1. w \in [Nat -> D]
      BY <1>1
    <2>2. QED
      <3> HIDE DEF D
      <3> QED
        BY <2>1
  <1>2. sizenode(h) = N
    <2>1. Cardinality(0 .. N - 1) = N
      <3>1. PICK z \in Int : z = 0
        OBVIOUS
      <3>2. PICK y \in Int : y = N - 1
        OBVIOUS
      <3>3. Cardinality(z .. y) = IF z > y THEN 0 ELSE y - z + 1
        BY FS_Interval
      <3>4. QED
        BY <3>1, <3>2, <3>3
    <2>2. QED
      BY <2>1 DEF sizenode
  <1>3. n \in Linked(h, m) <=> \E i \in 0 .. N - 1 : n = w[i]
    BY <1>2 DEF Linked, w
  <1>4. ASSUME NEW i \in Nat
        PROVE  Reach(h, m, w[i])
    <2> SUFFICES ASSUME NEW S \in SUBSET DOMAIN h.node, m \in S, Closed(h, S)
                 PROVE  w[i] \in S
      BY DEF Reach
    <2> DEFINE T == {j \in Nat : w[j] \in S}
    <2>1. 0 \in T
      BY <1>1
    <2>2. ASSUME NEW j \in T
          PROVE  j + 1 \in T
      <3>1. Step(h, w[j]) \in S
        BY DEF Closed
      <3>2. w[j + 1] = Step(h, w[j])
        BY <1>1
      <3>3. QED
        BY <3>1, <3>2
    <2>3. \A j \in Nat : j \in T
      <3>1. T \in SUBSET Nat
        OBVIOUS
      <3>2. QED
        <4> HIDE DEF T
        <4> QED
          BY <2>1, <2>2, <3>1, Induction
    <2>4. QED
      BY <2>3
  <1>5. ASSUME Reach(h, m, n)
        PROVE  \E i \in 0 .. N - 1 : n = w[i]
    <2>1. PICK x \in 0 .. N, y \in 0 .. N : x < y /\ w[x] = w[y]
      <3> DEFINE f == [i \in 0 .. N |-> w[i]]
      <3>1. f \in [0 .. N -> 0 .. N - 1]
        <4>1. \A i \in 0 .. N : w[i] \in 0 .. N - 1
          BY <1>7
        <4>2. QED
          BY <4>1
      <3>2. IsFiniteSet(0 .. N) /\ IsFiniteSet(0 .. N - 1) /\ Cardinality(0 .. N - 1) < Cardinality(0 .. N)
        <4>1. PICK z \in Int : z = 0
          OBVIOUS
        <4>2. \A y \in Int : IsFiniteSet(z .. y) /\ Cardinality(z .. y) = IF z > y THEN 0 ELSE y - z + 1
          BY FS_Interval
        <4>3. N \in Int /\ N - 1 \in Int
          OBVIOUS
        <4>4. QED
          BY <4>1, <4>2, <4>3
      <3>3. \E x, y \in 0 .. N : x # y /\ f[x] = f[y]
        <4> HIDE DEF f
        <4> QED
          BY <3>1, <3>2, FS_PigeonHole
      <3>4. QED
        BY <3>3
    <2> DEFINE S == {w[i] : i \in 0 .. y - 1}
    <2>2. S \in SUBSET DOMAIN h.node /\ m \in S
      <3>1. \A i \in 0 .. y - 1 : w[i] \in 0 .. N - 1
        BY <1>7
      <3>2. 0 \in 0 .. y - 1
        BY <2>1
      <3>3. QED
        BY <1>1, <3>1, <3>2
    <2>3. ASSUME NEW z \in S
          PROVE  Step(h, z) \in S
      <3>1. PICK i \in 0 .. y - 1 : z = w[i]
        OBVIOUS
      <3>2. Step(h, z) = w[i + 1]
        <4>1. \A j \in Nat : w[j + 1] = Step(h, w[j])
          BY <1>1
        <4>2. i \in Nat
          OBVIOUS
        <4> HIDE DEF w
        <4>3. QED
          BY <3>1, <4>1, <4>2
      <3>3. i + 1 = y => w[i + 1] = w[x] /\ x \in 0 .. y - 1
        BY <2>1
      <3>4. i + 1 # y => i + 1 \in 0 .. y - 1
        BY <2>1
      <3>5. QED
        BY <3>2, <3>3, <3>4
    <2>4. n \in S
      <3> HIDE DEF S
      <3> QED
        BY <2>2, <2>3, <1>5 DEF Reach, Closed
    <2>5. QED
      BY <2>4, <2>1
  <1>6. QED
    BY <1>2, <1>3, <1>4, <1>5

-----------------------------------------------------------------------------
(* What the operations keep true of a table. *)

Value == Key \cup {NULL}
Node == [key : Value, val : Value, next : Int, dead : BOOLEAN]
Tables(N) ==
  [array : Seq(Value), node : [0 .. N - 1 -> Node], dummy : BOOLEAN, lastfree : 0 .. N]

Nodes(h) == DOMAIN h.node
KeyOf(h, n) == h.node[n].key
Home(h, n) == mainposition(h, KeyOf(h, n))
Alive(h, n) == KeyOf(h, n) # NULL /\ ~h.node[n].dead

\* A node that was never used is free, and nothing links to it.
FreeAreUnlinked(h) ==
  /\ \A n \in Nodes(h) : KeyOf(h, n) = NULL => h.node[n] = Free
  /\ \A n \in Nodes(h) : h.node[n].next # 0 =>
       Step(h, n) \in Nodes(h) /\ KeyOf(h, Step(h, n)) # NULL

\* No two nodes link to the same one, and no chain comes back to a node.
Chained(h) ==
  /\ \A m, n \in Nodes(h) :
       h.node[m].next # 0 /\ h.node[n].next # 0 /\ Step(h, m) = Step(h, n) => m = n
  /\ \A m, n \in Nodes(h) : Reach(h, m, n) /\ Reach(h, n, m) => m = n

\* The main position of a key that is not free is held by a key that belongs
\* there, and the key is linked behind it.
Housed(h) ==
  \A n \in Nodes(h) : KeyOf(h, n) # NULL =>
    LET m == Home(h, n)
    IN KeyOf(h, m) # NULL /\ Home(h, m) = m /\ Reach(h, m, n)

\* A key has one node that is not dead, and comes before any that are; a dead
\* key has no value.
LiveFirst(h) ==
  /\ \A n \in Nodes(h) : h.node[n].dead => h.node[n].val = NULL
  /\ \A m, n \in Nodes(h) :
       m # n /\ Alive(h, m) /\ KeyOf(h, n) = KeyOf(h, m) => h.node[n].dead /\ Reach(h, m, n)

\* The nodes from lastfree on have been used, and none holds an array index;
\* a table without a hash part shares the dummy node.
Placed(h) ==
  /\ \A n \in Nodes(h) : KeyOf(h, n) # NULL => ~inarray(h, KeyOf(h, n))
  /\ ~h.dummy => \A n \in Nodes(h) : h.lastfree <= n => KeyOf(h, n) # NULL
  /\ h.dummy => h.lastfree = 0 /\ \A n \in Nodes(h) : KeyOf(h, n) = NULL

Tidy(h) == FreeAreUnlinked(h) /\ Chained(h) /\ Housed(h) /\ LiveFirst(h) /\ Placed(h)

-----------------------------------------------------------------------------
(* Searches. *)

LEMMA KeyFacts ==
  ASSUME NEW k \in Key
  PROVE  /\ k.n \in Nat /\ k # NULL /\ k \in Given /\ normal(k) = k
         /\ k.tt \in {"int", "str"} /\ (k.tt = "int" => k = int(k.n) /\ k.n \in Ints)
  BY TableAssumption, NullAssumption DEF Key, Given, int, normal

LEMMA GivenFacts ==
  ASSUME NEW k \in Given
  PROVE  normal(k) \in Key /\ normal(normal(k)) = normal(k)
  BY TableAssumption DEF Key, Given, int, normal

\* The nodes of a table are numbered from 0.
LEMMA NodeFacts ==
  ASSUME NEW N \in Nat \ {0}, NEW h \in Tables(N), FreeAreUnlinked(h)
  PROVE  /\ Nodes(h) = 0 .. N - 1 /\ sizenode(h) = N /\ Closed(h, 0 .. N - 1)
         /\ \A k \in Key : mainposition(h, k) \in 0 .. N - 1
         /\ \A n \in 0 .. N - 1 : h.node[n] \in Node
  <1>1. DOMAIN h.node = 0 .. N - 1 /\ \A n \in 0 .. N - 1 : h.node[n] \in Node
    BY DEF Tables
  <1>2. Closed(h, 0 .. N - 1)
    <2> SUFFICES ASSUME NEW n \in 0 .. N - 1
                 PROVE  Step(h, n) \in 0 .. N - 1
      BY DEF Closed
    <2>1. h.node[n].next # 0 => Step(h, n) \in 0 .. N - 1
      BY <1>1 DEF FreeAreUnlinked, Nodes
    <2>2. h.node[n].next = 0 => Step(h, n) = n
      BY DEF Step
    <2>3. QED
      BY <2>1, <2>2
  <1>3. sizenode(h) = N
    <2>1. 0 \in 0 .. N - 1
      OBVIOUS
    <2>2. QED
      BY <1>1, <1>2, <2>1, LinkedIsReach
  <1>4. \A k \in Key : mainposition(h, k) \in 0 .. N - 1
    <2> SUFFICES ASSUME NEW k \in Key
                 PROVE  k.n % N \in 0 .. N - 1
      BY <1>3 DEF mainposition
    <2>1. k.n \in Nat
      BY KeyFacts
    <2>2. QED
      BY <2>1
  <1>5. QED
    BY <1>1, <1>2, <1>3, <1>4 DEF Nodes

\* Reaching is a partial order along the links.
LEMMA ReachFacts ==
  ASSUME NEW h, Nodes(h) \subseteq Nat
  PROVE  /\ \A n : Reach(h, n, n)
         /\ \A l, m, n : Reach(h, l, m) /\ Reach(h, m, n) => Reach(h, l, n)
         /\ \A n \in Nodes(h) : Reach(h, n, Step(h, n))
         /\ \A m \in Nodes(h) : \A n : Reach(h, m, n) /\ n # m =>
              h.node[m].next # 0 /\ Reach(h, Step(h, m), n)
  <1>1. \A n : Reach(h, n, n)
    BY DEF Reach
  <1>2. \A l, m, n : Reach(h, l, m) /\ Reach(h, m, n) => Reach(h, l, n)
    BY DEF Reach
  <1>3. \A n \in Nodes(h) : Reach(h, n, Step(h, n))
    BY DEF Reach, Closed
  <1>4. ASSUME NEW m \in Nodes(h), NEW n, Reach(h, m, n), n # m
        PROVE  h.node[m].next # 0 /\ Reach(h, Step(h, m), n)
    <2>1. ASSUME Step(h, m) = m
          PROVE  FALSE
      <3>1. Closed(h, {m}) /\ {m} \in SUBSET DOMAIN h.node
        BY <2>1 DEF Closed, Nodes
      <3>2. QED
        BY <3>1, <1>4 DEF Reach
    <2>2. ASSUME NEW S \in SUBSET DOMAIN h.node, Step(h, m) \in S, Closed(h, S)
          PROVE  n \in S
      <3>1. Closed(h, S \cup {m}) /\ S \cup {m} \in SUBSET DOMAIN h.node
        BY <2>2 DEF Closed, Nodes
      <3>2. QED
        BY <3>1, <1>4 DEF Reach
    <2>3. Reach(h, Step(h, m), n)
      BY <2>2 DEF Reach
    <2>4. QED
      <3>1. m \in Nat
        OBVIOUS
      <3>2. h.node[m].next = 0 => Step(h, m) = m
        BY <3>1 DEF Step
      <3>3. QED
        BY <2>1, <2>3, <3>2
  <1>5. QED
    BY <1>1, <1>2, <1>3, <1>4

LEMMA FirstFacts ==
  ASSUME NEW S \in SUBSET Nat, S # {}
  PROVE  First(S) \in S /\ \A j \in S : First(S) <= j
  BY LeastElement DEF First

LEMMA LastFacts ==
  ASSUME NEW S \in SUBSET Nat, S # {}, NEW b \in Nat, \A j \in S : j <= b
  PROVE  Last(S) \in S /\ \A j \in S : j <= Last(S)
  <1>1. \E x \in S : \A y \in S : y <= x
    BY GreatestElement
  <1>2. QED
    BY <1>1 DEF Last

Holds(h, k, dead, n) == n \in Nodes(h) /\ KeyOf(h, n) = k /\ (h.node[n].dead => dead)

\* A search goes along the walk from the main position to the first node that
\* holds the key.
LEMMA SearchFacts ==
  ASSUME NEW N \in Nat \ {0}, NEW h \in Tables(N), Tidy(h), NEW k \in Key, NEW dead \in BOOLEAN
  PROVE  \/ /\ search(h, k, dead) = NULL
            /\ \A n : ~Holds(h, k, dead, n)
         \/ /\ Holds(h, k, dead, search(h, k, dead))
            /\ \A n : Holds(h, k, dead, n) => Reach(h, search(h, k, dead), n)
  <1>1. /\ Nodes(h) = 0 .. N - 1 /\ sizenode(h) = N /\ Closed(h, 0 .. N - 1)
        /\ mainposition(h, k) \in 0 .. N - 1
    BY NodeFacts DEF Tidy
  <1>9. PICK m \in 0 .. N - 1 : m = mainposition(h, k)
    BY <1>1
  <1> DEFINE p == walk(h, m)
             found == {i \in 0 .. sizenode(h) - 1 :
                         h.node[p[i]].key = k /\ (h.node[p[i]].dead => dead)}
             s == search(h, k, dead)
  <1>2. p \in [Nat -> 0 .. N - 1] /\ p[0] = m /\ \A i \in Nat : p[i + 1] = Step(h, p[i])
    <2>1. PICK D : D = 0 .. N - 1
      OBVIOUS
    <2>2. D \in SUBSET Nat /\ Closed(h, D) /\ m \in D
      BY <1>1, <2>1
    <2>3. p \in [Nat -> D] /\ p[0] = m /\ \A i \in Nat : p[i + 1] = Step(h, p[i])
      BY <2>2, Walk
    <2>4. QED
      BY <2>1, <2>3
  <1>10. \A i \in Nat : p[i] \in 0 .. N - 1
    <2> DEFINE D == 0 .. N - 1
    <2>1. p \in [Nat -> D]
      BY <1>2
    <2>2. QED
      <3> HIDE DEF D, p
      <3>1. \A i \in Nat : p[i] \in D
        BY <2>1
      <3>2. QED
        BY <3>1 DEF D
  <1>3. \A n : n \in Linked(h, m) <=> Reach(h, m, n)
    <2>1. DOMAIN h.node = 0 .. N - 1
      BY <1>1 DEF Nodes
    <2>2. QED
      BY <1>1, <2>1, LinkedIsReach
  <1>4. s = IF found = {} THEN NULL ELSE p[First(found)]
    BY <1>9 DEF search
  <1>5. ASSUME NEW n, Holds(h, k, dead, n)
        PROVE  \E i \in found : p[i] = n
    <2>1. n \in Nodes(h) /\ KeyOf(h, n) = k /\ k # NULL
      BY <1>5, KeyFacts DEF Holds
    <2>2. Reach(h, m, n)
      BY <2>1, <1>9 DEF Tidy, Housed, Home
    <2>3. n \in Linked(h, m)
      BY <2>2, <1>3
    <2>4. PICK i \in 0 .. sizenode(h) - 1 : n = p[i]
      BY <2>3 DEF Linked
    <2>5. i \in found
      BY <2>4, <1>5 DEF Holds, KeyOf
    <2>6. QED
      BY <2>4, <2>5
  <1>6. CASE found = {}
    BY <1>4, <1>5, <1>6
  <1>7. CASE found # {}
    <2> HIDE DEF p
    <2>1. found \in SUBSET Nat
      BY <1>1
    <2>2. First(found) \in found /\ \A j \in found : First(found) <= j
      <3> HIDE DEF found
      <3> QED
        BY <2>1, <1>7, FirstFacts
    <2>3. PICK i \in found : i = First(found)
      BY <2>2
    <2>4. s = p[i] /\ \A j \in found : i <= j
      BY <1>4, <1>7, <2>2, <2>3
    <2>5. p[i] \in 0 .. N - 1
      BY <2>1, <1>10
    <2>6. Holds(h, k, dead, p[i])
      BY <2>5, <1>1 DEF Holds, KeyOf
    <2>7. ASSUME NEW n, Holds(h, k, dead, n)
          PROVE  Reach(h, p[i], n)
      <3>1. PICK j \in found : p[j] = n
        BY <1>5, <2>7
      <3>2. i \in Nat /\ j \in Nat /\ i <= j
        BY <2>1, <2>4
      <3> DEFINE T == {d \in Nat : Reach(h, p[i], p[i + d])}
      <3>3. 0 \in T
        <4>1. Nodes(h) \subseteq Nat
          BY <1>1
        <4>2. Reach(h, p[i], p[i])
          BY <4>1, ReachFacts
        <4>3. i + 0 = i
          BY <3>2
        <4>4. QED
          BY <4>2, <4>3
      <3>4. ASSUME NEW d \in T
            PROVE  d + 1 \in T
        <4>1. Nodes(h) \subseteq Nat /\ i + d \in Nat /\ i + (d + 1) = (i + d) + 1
          BY <1>1, <3>2
        <4>2. p[i + (d + 1)] = Step(h, p[i + d]) /\ p[i + d] \in Nodes(h)
          BY <4>1, <1>1, <1>2, <1>10
        <4>3. Reach(h, p[i + d], p[i + (d + 1)])
          BY <4>1, <4>2, ReachFacts
        <4>4. Reach(h, p[i], p[i + (d + 1)])
          BY <4>1, <4>3, ReachFacts
        <4>5. QED
          BY <4>4
      <3>5. \A d \in Nat : d \in T
        <4>1. T \in SUBSET Nat
          OBVIOUS
        <4>2. QED
          <5> HIDE DEF T
          <5> QED
            BY <3>3, <3>4, <4>1, Induction
      <3>6. j - i \in Nat /\ i + (j - i) = j
        BY <3>2
      <3>7. Reach(h, p[i], p[i + (j - i)])
        BY <3>5, <3>6
      <3>8. QED
        BY <3>1, <3>6, <3>7
    <2>8. QED
      BY <2>4, <2>6, <2>7
  <1>8. QED
    BY <1>6, <1>7

\* A live key is found where it is; a search for what may be dead prefers it.
LEMMA SearchLive ==
  ASSUME NEW N \in Nat \ {0}, NEW h \in Tables(N), Tidy(h), NEW k \in Key,
         NEW n \in Nodes(h), KeyOf(h, n) = k, ~h.node[n].dead
  PROVE  \A dead \in BOOLEAN : search(h, k, dead) = n
  <1> SUFFICES ASSUME NEW dead \in BOOLEAN
               PROVE  search(h, k, dead) = n
    OBVIOUS
  <1> DEFINE s == search(h, k, dead)
  <1>1. Holds(h, k, dead, n) /\ k # NULL
    BY KeyFacts DEF Holds
  <1>2. Holds(h, k, dead, s) /\ Reach(h, s, n)
    BY <1>1, SearchFacts
  <1> HIDE DEF s
  <1>3. ASSUME s # n
        PROVE  FALSE
    <2>1. s \in Nodes(h) /\ KeyOf(h, s) = KeyOf(h, n) /\ Alive(h, n)
      BY <1>1, <1>2 DEF Holds, Alive
    <2>2. Reach(h, n, s)
      BY <1>3, <2>1 DEF Tidy, LiveFirst
    <2>3. QED
      BY <1>2, <1>3, <2>1, <2>2 DEF Tidy, Chained
  <1>4. QED
    BY <1>3 DEF s

-----------------------------------------------------------------------------
(* What a table maps a key to. *)

Maps(h, k, v) ==
  /\ inarray(h, k) => v = h.array[k.n]
  /\ ~inarray(h, k) => \A n \in Nodes(h) : Holds(h, k, FALSE, n) => v = h.node[n].val
  /\ ~inarray(h, k) /\ (\A n \in Nodes(h) : ~Holds(h, k, FALSE, n)) => v = NULL

LEMMA GetMaps ==
  ASSUME NEW N \in Nat \ {0}, NEW h \in Tables(N), Tidy(h), NEW k \in Key
  PROVE  luaH_get(h, k) \in Value /\ \A v : Maps(h, k, v) <=> v = luaH_get(h, k)
  <1> DEFINE n == search(h, k, FALSE)
  <1>1. luaH_get(h, k) = IF inarray(h, k) THEN h.array[k.n]
                         ELSE IF n = NULL THEN NULL ELSE h.node[n].val
    BY KeyFacts DEF luaH_get
  <1>2. FALSE \in BOOLEAN
    OBVIOUS
  <1>3. \/ n = NULL /\ \A m : ~Holds(h, k, FALSE, m)
        \/ Holds(h, k, FALSE, n)
    BY <1>2, SearchFacts
  <1>4. CASE inarray(h, k)
    <2>1. h.array \in Seq(Value) /\ k.n \in DOMAIN h.array
      BY <1>4 DEF Tables, inarray
    <2>2. h.array[k.n] \in Value
      BY <2>1
    <2>3. QED
      BY <1>1, <1>4, <2>2 DEF Maps
  <1>5. CASE ~inarray(h, k) /\ n = NULL /\ \A m : ~Holds(h, k, FALSE, m)
    BY <1>1, <1>5 DEF Maps, Value
  <1>6. CASE ~inarray(h, k) /\ Holds(h, k, FALSE, n)
    <2>1. n \in Nodes(h) /\ KeyOf(h, n) = k /\ ~h.node[n].dead
      BY <1>6 DEF Holds
    <2>2. Nodes(h) = 0 .. N - 1 /\ \A i \in 0 .. N - 1 : h.node[i] \in Node
      BY NodeFacts DEF Tidy
    <2>3. n # NULL /\ h.node[n].val \in Value
      <3> HIDE DEF n
      <3>1. n \in Nat /\ h.node[n] \in Node
        BY <2>1, <2>2
      <3>2. QED
        BY <3>1, NullAssumption DEF Node
    <2>4. \A m \in Nodes(h) : Holds(h, k, FALSE, m) => m = n
      <3> SUFFICES ASSUME NEW m \in Nodes(h), Holds(h, k, FALSE, m)
                   PROVE  m = n
        OBVIOUS
      <3>1. KeyOf(h, m) = k /\ ~h.node[m].dead
        BY DEF Holds
      <3>2. search(h, k, FALSE) = m
        BY <3>1, <1>2, SearchLive
      <3>3. QED
        BY <3>2
    <2>5. luaH_get(h, k) = h.node[n].val
      BY <1>1, <1>6, <2>3
    <2> HIDE DEF n
    <2>6. \A v : Maps(h, k, v) => v = h.node[n].val
      BY <1>6, <2>1 DEF Maps
    <2>7. Maps(h, k, h.node[n].val)
      BY <1>6, <2>1, <2>4 DEF Maps
    <2>8. QED
      BY <2>3, <2>5, <2>6, <2>7
  <1>7. QED
    BY <1>3, <1>4, <1>5, <1>6

-----------------------------------------------------------------------------
(* The edits of luaH_newkey. *)

\* What a free position is.
LEMMA FreePosition ==
  ASSUME NEW N \in Nat \ {0}, NEW h \in Tables(N), Tidy(h)
  PROVE  \/ /\ freeposition(h) = NULL
            /\ ~h.dummy => \A n \in Nodes(h) : KeyOf(h, n) # NULL
         \/ /\ ~h.dummy /\ freeposition(h) \in Nodes(h) /\ freeposition(h) \in Nat
            /\ freeposition(h) < h.lastfree /\ freeposition(h) # NULL
            /\ KeyOf(h, freeposition(h)) = NULL
            /\ \A n \in Nodes(h) : freeposition(h) < n => KeyOf(h, n) # NULL
  <1> DEFINE free == {n \in DOMAIN h.node : n < h.lastfree /\ h.node[n].key = NULL}
  <1>1. Nodes(h) = 0 .. N - 1 /\ DOMAIN h.node = Nodes(h) /\ h.lastfree \in 0 .. N
    BY NodeFacts DEF Tidy, Nodes, Tables
  <1>2. freeposition(h) = IF free = {} THEN NULL ELSE Last(free)
    BY DEF freeposition
  <1>3. CASE free = {}
    <2>1. \A n \in Nodes(h) : n < h.lastfree => KeyOf(h, n) # NULL
      BY <1>1, <1>3 DEF KeyOf
    <2>2. ~h.dummy => \A n \in Nodes(h) : KeyOf(h, n) # NULL
      BY <1>1, <2>1 DEF Tidy, Placed
    <2>3. QED
      BY <1>2, <1>3, <2>2
  <1>4. CASE free # {}
    <2>1. free \in SUBSET Nat /\ N \in Nat /\ \A n \in free : n <= N
      BY <1>1
    <2>2. Last(free) \in free /\ \A n \in free : n <= Last(free)
      <3> HIDE DEF free
      <3> QED
        BY <1>4, <2>1, LastFacts
    <2>3. PICK f \in free : f = Last(free)
      BY <2>2
    <2>4. freeposition(h) = f /\ \A n \in free : n <= f
      BY <1>2, <1>4, <2>2, <2>3
    <2>5. f \in Nodes(h) /\ f \in Nat /\ f < h.lastfree /\ KeyOf(h, f) = NULL
      BY <1>1 DEF KeyOf
    <2>6. ~h.dummy
      BY <2>5 DEF Tidy, Placed
    <2>7. ASSUME NEW n \in Nodes(h), f < n
          PROVE  KeyOf(h, n) # NULL
      <3>1. n \in Nat
        BY <1>1
      <3>2. n < h.lastfree => KeyOf(h, n) # NULL
        BY <2>4, <2>5, <2>7, <3>1, <1>1 DEF KeyOf
      <3>3. h.lastfree <= n => KeyOf(h, n) # NULL
        BY <2>6 DEF Tidy, Placed
      <3>4. QED
        BY <3>1, <3>2, <3>3, <1>1
    <2>8. QED
      BY <2>4, <2>5, <2>6, <2>7, NullAssumption
  <1>5. QED
    BY <1>3, <1>4

LEMMA SameLinks ==
  ASSUME NEW h, NEW g, Nodes(g) = Nodes(h),
         \A n \in Nodes(h) : g.node[n].next = h.node[n].next
  PROVE  \A m, n : Reach(g, m, n) <=> Reach(h, m, n)
  BY DEF Reach, Closed, Step, Nodes

Put(h, m, x) == [h EXCEPT !.node = [h.node EXCEPT ![m] = x]]

\* What an assignment to a node leaves as it was.
LEMMA PutFacts ==
  ASSUME NEW N \in Nat \ {0}, NEW h \in Tables(N), NEW m \in Nodes(h), NEW x \in Node
  PROVE  /\ Put(h, m, x) \in Tables(N) /\ Nodes(Put(h, m, x)) = Nodes(h)
         /\ Put(h, m, x).array = h.array /\ Put(h, m, x).dummy = h.dummy
         /\ Put(h, m, x).lastfree = h.lastfree
         /\ \A n \in Nodes(h) : n # m => Put(h, m, x).node[n] = h.node[n]
         /\ Put(h, m, x).node[m] = x
  <1>1. /\ DOMAIN h.node = 0 .. N - 1 /\ h.node \in [0 .. N - 1 -> Node]
        /\ m \in 0 .. N - 1 /\ h.node[m] \in Node
    BY DEF Tables, Nodes
  <1>2. PICK nodes : nodes = [h.node EXCEPT ![m] = x]
    OBVIOUS
  <1>3. /\ nodes \in [0 .. N - 1 -> Node] /\ nodes[m] = x
        /\ \A n \in 0 .. N - 1 : n # m => nodes[n] = h.node[n]
    BY <1>1, <1>2
  <1>4. PICK g : g = Put(h, m, x)
    OBVIOUS
  <1>5. /\ g \in Tables(N) /\ g.node = nodes
        /\ g.array = h.array /\ g.dummy = h.dummy /\ g.lastfree = h.lastfree
    BY <1>2, <1>3, <1>4 DEF Put, Tables
  <1>6. QED
    BY <1>1, <1>3, <1>4, <1>5 DEF Nodes

\* The assignments of a new entry to a node.
LEMMA FillFacts ==
  ASSUME NEW N \in Nat \ {0}, NEW h \in Tables(N), NEW m \in Nodes(h),
         NEW k \in Key, NEW v \in Value, NEW g, g = Fill(h, m, k, v)
  PROVE  /\ g \in Tables(N) /\ Nodes(g) = Nodes(h)
         /\ g.array = h.array /\ g.dummy = h.dummy /\ g.lastfree = h.lastfree
         /\ \A n \in Nodes(h) : n # m => g.node[n] = h.node[n]
         /\ g.node[m].key = k /\ g.node[m].val = v /\ ~g.node[m].dead
         /\ g.node[m].next = h.node[m].next
  <1> DEFINE x == [h.node[m] EXCEPT !.key = k, !.val = v, !.dead = FALSE]
  <1>1. /\ DOMAIN h.node = 0 .. N - 1 /\ h.node \in [0 .. N - 1 -> Node]
        /\ m \in 0 .. N - 1 /\ h.node[m] \in Node
    BY DEF Tables, Nodes
  <1>2. x \in Node /\ x.key = k /\ x.val = v /\ ~x.dead /\ x.next = h.node[m].next
    BY <1>1 DEF Node, Value
  <1>3. g = Put(h, m, x)
    BY <1>1 DEF Fill, Tables, Put
  <1> HIDE DEF x
  <1>4. QED
    BY <1>2, <1>3, PutFacts

\* The free node that getfreepos returns is the last below lastfree.
LEMMA GetFreeFacts ==
  ASSUME NEW N \in Nat \ {0}, NEW h \in Tables(N),
         freeposition(h) # NULL => freeposition(h) \in 0 .. N
  PROVE  /\ getfreepos(h) \in Tables(N) /\ getfreepos(h).node = h.node
         /\ getfreepos(h).array = h.array /\ getfreepos(h).dummy = h.dummy
         /\ getfreepos(h).lastfree = IF freeposition(h) = NULL THEN 0 ELSE freeposition(h)
  <1>1. 0 \in 0 .. N
    OBVIOUS
  <1>2. QED
    BY <1>1 DEF getfreepos, Tables

\* The assignments that link a new entry behind its main position.
LEMMA ChainFacts ==
  ASSUME NEW N \in Nat \ {0}, NEW h \in Tables(N), NEW f \in Nodes(h), freeposition(h) = f,
         NEW mp \in Nodes(h), f # mp, NEW k \in Key, NEW v \in Value,
         NEW g, g = Fill(chainfree(getfreepos(h), mp, f), f, k, v)
  PROVE  /\ g \in Tables(N) /\ Nodes(g) = Nodes(h)
         /\ g.array = h.array /\ g.dummy = h.dummy
         /\ g.lastfree = f
         /\ \A n \in Nodes(h) : n # f /\ n # mp => g.node[n] = h.node[n]
         /\ g.node[mp].key = h.node[mp].key /\ g.node[mp].val = h.node[mp].val
         /\ g.node[mp].dead = h.node[mp].dead /\ g.node[mp].next = f - mp
         /\ g.node[f].key = k /\ g.node[f].val = v /\ ~g.node[f].dead
         /\ g.node[f].next = IF h.node[mp].next = 0 THEN 0 ELSE mp + h.node[mp].next - f
  <1>1. /\ Nodes(h) = 0 .. N - 1 /\ h.node \in [0 .. N - 1 -> Node]
        /\ h.node[mp] \in Node /\ h.node[f] \in Node /\ h.node[mp].next \in Int
        /\ f \in 0 .. N - 1 /\ mp \in 0 .. N - 1
    BY DEF Tables, Nodes, Node
  <1>2. PICK l \in Int : l = IF h.node[mp].next = 0 THEN 0 ELSE mp + h.node[mp].next - f
    BY <1>1
  <1>3. PICK p : p = getfreepos(h)
    OBVIOUS
  <1>4. /\ p \in Tables(N) /\ p.node = h.node /\ p.array = h.array /\ p.dummy = h.dummy
        /\ p.lastfree = f
    <2>1. f \in 0 .. N /\ f # NULL
      BY <1>1, NullAssumption
    <2>2. QED
      BY <2>1, <1>3, GetFreeFacts
  <1> DEFINE x == [p.node[f] EXCEPT !.next = l]
             q == Put(p, f, x)
             y == [p.node[mp] EXCEPT !.next = f - mp]
             r == Put(q, mp, y)
  <1>5. x \in Node /\ x.next = l
    BY <1>1, <1>2, <1>4 DEF Node
  <1>6. /\ y \in Node /\ y.next = f - mp /\ y.key = h.node[mp].key
        /\ y.val = h.node[mp].val /\ y.dead = h.node[mp].dead
    <2>1. PICK o \in Node, d \in Int : o = h.node[mp] /\ d = f - mp
      BY <1>1
    <2>2. y = [o EXCEPT !.next = d]
      BY <2>1, <1>4
    <2>3. y \in Node /\ y.next = d /\ y.key = o.key /\ y.val = o.val /\ y.dead = o.dead
      <3> HIDE DEF y
      <3> QED
        BY <2>2 DEF Node
    <2>4. QED
      BY <2>1, <2>3
  <1>7. r = chainfree(p, mp, f)
    BY <1>1, <1>2, <1>4 DEF chainfree, Put, Tables
  <1> HIDE DEF x, y
  <1>8. /\ q \in Tables(N) /\ Nodes(q) = Nodes(h)
        /\ q.array = h.array /\ q.dummy = h.dummy /\ q.lastfree = p.lastfree
        /\ \A n \in Nodes(h) : n # f => q.node[n] = h.node[n]
        /\ q.node[f] = x
    <2>1. Nodes(p) = Nodes(h) /\ f \in Nodes(p)
      BY <1>4 DEF Nodes
    <2>2. QED
      BY <2>1, <1>4, <1>5, PutFacts
  <1> HIDE DEF q
  <1>9. /\ r \in Tables(N) /\ Nodes(r) = Nodes(h)
        /\ r.array = h.array /\ r.dummy = h.dummy /\ r.lastfree = p.lastfree
        /\ \A n \in Nodes(h) : n # f /\ n # mp => r.node[n] = h.node[n]
        /\ r.node[mp] = y /\ r.node[f] = x
    <2>1. mp \in Nodes(q)
      BY <1>8
    <2>2. QED
      BY <2>1, <1>8, <1>6, PutFacts
  <1> HIDE DEF r
  <1>10. g = Fill(r, f, k, v)
    BY <1>3, <1>7
  <1>11. QED
    BY <1>2, <1>4, <1>5, <1>6, <1>9, <1>10, FillFacts

\* A tidy table without the key, which goes to a node that has no value.
Vacant(N, h, k, mp) ==
  /\ h \in Tables(N) /\ Tidy(h) /\ ~h.dummy
  /\ ~inarray(h, k) /\ \A n \in Nodes(h) : ~Holds(h, k, FALSE, n)
  /\ mp = mainposition(h, k) /\ h.node[mp].val = NULL

\* The key's main position has no value: the key takes its node.
LEMMA FillTidy ==
  ASSUME NEW N \in Nat \ {0}, NEW h, NEW k \in Key, NEW v \in Value, NEW mp,
         Vacant(N, h, k, mp), NEW g, g = Fill(h, mp, k, v)
  PROVE  g \in Tables(N) /\ Tidy(g) /\ g.array = h.array
         /\ KeyOf(g, mp) = k /\ ~g.node[mp].dead /\ g.node[mp].val = v
         /\ \A n \in Nodes(h) : n # mp => g.node[n] = h.node[n]
  <1> h \in Tables(N) /\ Tidy(h) /\ ~h.dummy /\ ~inarray(h, k)
    BY DEF Vacant
  <1> (\A n \in Nodes(h) : ~Holds(h, k, FALSE, n)) /\ mp = mainposition(h, k) /\ h.node[mp].val = NULL
    BY DEF Vacant
  <1>1. /\ Nodes(h) = 0 .. N - 1 /\ sizenode(h) = N /\ mp \in 0 .. N - 1 /\ mp \in Nodes(h)
        /\ \A n \in 0 .. N - 1 : h.node[n] \in Node
    BY NodeFacts DEF Tidy
  <1>2. /\ g \in Tables(N) /\ Nodes(g) = Nodes(h)
        /\ g.array = h.array /\ g.dummy = h.dummy /\ g.lastfree = h.lastfree
        /\ \A n \in Nodes(h) : n # mp => g.node[n] = h.node[n]
        /\ g.node[mp].key = k /\ g.node[mp].val = v /\ ~g.node[mp].dead
        /\ g.node[mp].next = h.node[mp].next
    <2>1. mp \in Nodes(h) /\ h \in Tables(N)
      BY <1>1
    <2>2. QED
      BY <2>1, FillFacts
  <1>3. \A n \in Nodes(h) : g.node[n].next = h.node[n].next
    BY <1>2
  <1>4. \A m, n : Reach(g, m, n) <=> Reach(h, m, n)
    BY <1>2, <1>3, SameLinks
  <1>5. \A n \in Nodes(h) : Step(g, n) = Step(h, n)
    BY <1>3 DEF Step
  <1>6. /\ KeyOf(g, mp) = k /\ k # NULL
        /\ \A n \in Nodes(h) : n # mp => KeyOf(g, n) = KeyOf(h, n)
    BY <1>2, KeyFacts DEF KeyOf
  <1>7. \A x : mainposition(g, x) = mainposition(h, x)
    BY <1>2 DEF mainposition, sizenode, Nodes
  <1>8. \A x : inarray(g, x) <=> inarray(h, x)
    BY <1>2 DEF inarray
  <1>9. FreeAreUnlinked(g)
    <2>1. FreeAreUnlinked(h)
      BY DEF Tidy
    <2>2. QED
      BY <1>2, <1>3, <1>5, <1>6, <2>1 DEF FreeAreUnlinked
  <1>10. Chained(g)
    BY <1>2, <1>3, <1>4, <1>5 DEF Tidy, Chained
  <1>11. Housed(g)
    <2> SUFFICES ASSUME NEW n \in Nodes(h), KeyOf(g, n) # NULL
                 PROVE  /\ KeyOf(g, Home(g, n)) # NULL /\ Home(g, Home(g, n)) = Home(g, n)
                        /\ Reach(h, Home(g, n), n)
      BY <1>2, <1>4 DEF Housed
    <2>1. Home(g, mp) = mp
      BY <1>6, <1>7 DEF Home
    <2>2. CASE n = mp
      <3>1. Reach(h, mp, mp)
        BY DEF Reach
      <3>2. QED
        BY <2>1, <2>2, <3>1, <1>6
    <2>3. CASE n # mp
      <3>1. KeyOf(h, n) # NULL /\ Home(g, n) = Home(h, n)
        BY <1>6, <1>7, <2>3 DEF Home
      <3>2. PICK m : m = Home(h, n)
        OBVIOUS
      <3>3. KeyOf(h, m) # NULL /\ Home(h, m) = m /\ Reach(h, m, n)
        BY <3>1, <3>2 DEF Tidy, Housed
      <3>4. m \in Nodes(h)
        <4>1. KeyOf(h, n) \in Key
          BY <1>1, <3>1 DEF Node, KeyOf, Value
        <4>2. QED
          BY <4>1, <3>2, <1>1, NodeFacts DEF Tidy, Home
      <3>5. m # mp => KeyOf(g, m) = KeyOf(h, m) /\ Home(g, m) = Home(h, m)
        BY <1>6, <1>7, <3>4 DEF Home
      <3>6. QED
        BY <2>1, <3>1, <3>2, <3>3, <3>5, <1>6
    <2>4. QED
      BY <2>2, <2>3
  <1>12. LiveFirst(g)
    <2>1. \A n \in Nodes(h) : g.node[n].dead => g.node[n].val = NULL
      BY <1>2 DEF Tidy, LiveFirst
    <2>2. ASSUME NEW m \in Nodes(h), NEW n \in Nodes(h),
                 m # n, Alive(g, m), KeyOf(g, n) = KeyOf(g, m)
          PROVE  g.node[n].dead /\ Reach(h, m, n)
      <3>1. CASE m = mp
        <4>1. KeyOf(h, n) = k /\ g.node[n] = h.node[n]
          BY <2>2, <3>1, <1>2, <1>6
        <4>2. h.node[n].dead
          BY <4>1 DEF Holds
        <4>3. Home(h, n) = mp /\ KeyOf(h, n) # NULL
          BY <4>1, <1>6 DEF Home
        <4>4. Reach(h, mp, n)
          BY <4>3 DEF Tidy, Housed
        <4>5. QED
          BY <4>1, <4>2, <4>4, <3>1
      <3>2. CASE m # mp /\ n = mp
        <4>1. KeyOf(h, m) = k /\ ~h.node[m].dead
          BY <2>2, <3>2, <1>2, <1>6 DEF Alive
        <4>2. QED
          BY <4>1 DEF Holds
      <3>3. CASE m # mp /\ n # mp
        <4>1. Alive(h, m) /\ KeyOf(h, n) = KeyOf(h, m) /\ g.node[n] = h.node[n]
          BY <2>2, <3>3, <1>2, <1>6 DEF Alive
        <4>2. QED
          BY <4>1, <2>2 DEF Tidy, LiveFirst
      <3>4. QED
        BY <3>1, <3>2, <3>3
    <2>3. QED
      BY <2>1, <2>2, <1>2, <1>4 DEF LiveFirst
  <1>13. Placed(g)
    <2>1. Placed(h)
      BY DEF Tidy
    <2>2. QED
      BY <2>1, <1>2, <1>6, <1>8 DEF Placed
  <1>14. QED
    BY <1>2, <1>6, <1>9, <1>10, <1>11, <1>12, <1>13 DEF Tidy

\* What a new entry leaves of the map: the other keys.
Remaps(h, g, k, v) ==
  /\ Maps(g, k, v)
  /\ \A x \in Key \ {k} : \A y : Maps(h, x, y) => Maps(g, x, y)

LEMMA FillMaps ==
  ASSUME NEW h, NEW g, NEW k \in Key, NEW v, NEW mp \in Nodes(h),
         g.array = h.array, Nodes(g) = Nodes(h), ~inarray(h, k),
         \A n \in Nodes(h) : ~Holds(h, k, FALSE, n), h.node[mp].val = NULL,
         KeyOf(g, mp) = k, ~g.node[mp].dead, g.node[mp].val = v,
         \A n \in Nodes(h) : n # mp => g.node[n] = h.node[n]
  PROVE  Remaps(h, g, k, v)
  <1>1. \A x : inarray(g, x) <=> inarray(h, x)
    BY DEF inarray
  <1>2. \A x, n : n \in Nodes(h) /\ n # mp => (Holds(g, x, FALSE, n) <=> Holds(h, x, FALSE, n))
    BY DEF Holds, KeyOf
  <1>3. \A x : Holds(g, x, FALSE, mp) <=> x = k
    BY DEF Holds
  <1>4. Maps(g, k, v)
    BY <1>1, <1>2, <1>3 DEF Maps
  <1>5. ASSUME NEW x \in Key \ {k}, NEW y, Maps(h, x, y)
        PROVE  Maps(g, x, y)
    <2>1. inarray(g, x) => y = g.array[x.n]
      BY <1>1, <1>5 DEF Maps
    <2>2. ASSUME ~inarray(g, x), NEW n \in Nodes(g), Holds(g, x, FALSE, n)
          PROVE  y = g.node[n].val
      BY <1>1, <1>2, <1>3, <1>5, <2>2 DEF Maps
    <2>3. ASSUME ~inarray(g, x), \A n \in Nodes(g) : ~Holds(g, x, FALSE, n)
          PROVE  y = NULL
      <3>1. \A n \in Nodes(h) : n # mp => ~Holds(h, x, FALSE, n)
        BY <1>2, <2>3
      <3>2. CASE Holds(h, x, FALSE, mp)
        BY <1>1, <1>5, <2>3, <3>2 DEF Maps
      <3>3. CASE ~Holds(h, x, FALSE, mp)
        BY <1>1, <1>5, <2>3, <3>1, <3>3 DEF Maps
      <3>4. QED
        BY <3>2, <3>3
    <2>4. QED
      BY <2>1, <2>2, <2>3 DEF Maps
  <1>6. QED
    BY <1>4, <1>5 DEF Remaps

\* f is linked in behind mp.
LEMMA ReachInsert ==
  ASSUME NEW h, NEW g, Nodes(h) \subseteq Nat, Nodes(g) = Nodes(h), Closed(h, Nodes(h)),
         NEW f \in Nodes(h), NEW mp \in Nodes(h), f # mp,
         \A n \in Nodes(h) : n # f /\ n # mp => Step(g, n) = Step(h, n),
         Step(g, mp) = f,
         Step(g, f) = IF h.node[mp].next = 0 THEN f ELSE Step(h, mp),
         \A n \in Nodes(h) : Step(h, n) = f => n = f
  PROVE  \A x \in Nodes(h) \ {f} :
           /\ \A y \in Nodes(h) \ {f} : Reach(g, x, y) <=> Reach(h, x, y)
           /\ Reach(g, x, f) <=> Reach(h, x, mp)
  <1> SUFFICES ASSUME NEW x \in Nodes(h) \ {f}
               PROVE  /\ \A y \in Nodes(h) \ {f} : Reach(g, x, y) <=> Reach(h, x, y)
                      /\ Reach(g, x, f) <=> Reach(h, x, mp)
    OBVIOUS
  <1>1. h.node[mp].next = 0 => Step(h, mp) = mp
    BY DEF Step
  <1>2. ASSUME NEW S \in SUBSET Nodes(h), x \in S, Closed(h, S)
        PROVE  LET U == {z \in Nodes(h) : (z # f /\ z \in S) \/ (z = f /\ mp \in S)}
               IN U \in SUBSET Nodes(g) /\ x \in U /\ Closed(g, U)
    <2> DEFINE U == {z \in Nodes(h) : (z # f /\ z \in S) \/ (z = f /\ mp \in S)}
    <2>1. ASSUME NEW z \in U
          PROVE  Step(g, z) \in U
      <3>1. CASE z = mp
        BY <3>1
      <3>2. CASE z = f
        <4>1. mp \in S
          BY <3>2
        <4>2. Step(h, mp) \in S
          BY <4>1, <1>2 DEF Closed
        <4>3. Step(h, mp) # f
          OBVIOUS
        <4>4. QED
          BY <3>2, <4>1, <4>2, <4>3
      <3>3. CASE z # mp /\ z # f
        <4>1. Step(h, z) \in S
          BY <3>3, <1>2 DEF Closed
        <4>2. Step(h, z) # f
          BY <3>3
        <4>3. QED
          BY <3>3, <4>1, <4>2
      <3>4. QED
        BY <3>1, <3>2, <3>3
    <2>2. QED
      BY <2>1, <1>2 DEF Closed
  <1>3. ASSUME NEW S \in SUBSET Nodes(h), x \in S, Closed(g, S)
        PROVE  Closed(h, S \ {f})
    <2> SUFFICES ASSUME NEW z \in S \ {f}
                 PROVE  Step(h, z) \in S \ {f}
      BY DEF Closed
    <2>1. Step(h, z) # f
      OBVIOUS
    <2>2. CASE z = mp
      <3>1. f \in S
        BY <1>3, <2>2 DEF Closed
      <3>2. Step(g, f) \in S
        BY <1>3, <3>1 DEF Closed
      <3>3. QED
        BY <2>1, <2>2, <3>2, <1>1
    <2>3. CASE z # mp
      BY <2>1, <2>3, <1>3 DEF Closed
    <2>4. QED
      BY <2>2, <2>3
  <1>4. ASSUME NEW y \in Nodes(h) \ {f}, Reach(g, x, y)
        PROVE  Reach(h, x, y)
    BY <1>2, <1>4 DEF Reach, Nodes
  <1>5. ASSUME Reach(g, x, f)
        PROVE  Reach(h, x, mp)
    BY <1>2, <1>5 DEF Reach, Nodes
  <1>6. ASSUME NEW y \in Nodes(h) \ {f}, Reach(h, x, y)
        PROVE  Reach(g, x, y)
    <2> SUFFICES ASSUME NEW S \in SUBSET Nodes(h), x \in S, Closed(g, S)
                 PROVE  y \in S
      BY DEF Reach, Nodes
    <2>1. Closed(h, S \ {f}) /\ S \ {f} \in SUBSET DOMAIN h.node /\ x \in S \ {f}
      BY <1>3 DEF Nodes
    <2>2. QED
      BY <2>1, <1>6 DEF Reach
  <1>7. ASSUME Reach(h, x, mp)
        PROVE  Reach(g, x, f)
    <2> SUFFICES ASSUME NEW S \in SUBSET Nodes(h), x \in S, Closed(g, S)
                 PROVE  f \in S
      BY DEF Reach, Nodes
    <2>1. Closed(h, S \ {f}) /\ S \ {f} \in SUBSET DOMAIN h.node /\ x \in S \ {f}
      BY <1>3 DEF Nodes
    <2>2. mp \in S
      BY <2>1, <1>7 DEF Reach
    <2>3. QED
      BY <2>2 DEF Closed
  <1>8. QED
    BY <1>4, <1>5, <1>6, <1>7

\* mp leaves its chain and f takes its place.
LEMMA ReachReplace ==
  ASSUME NEW h, NEW g, Nodes(h) \subseteq Nat, Nodes(g) = Nodes(h), Closed(h, Nodes(h)),
         NEW f \in Nodes(h), NEW mp \in Nodes(h), NEW p \in Nodes(h), f # mp, p # f, p # mp,
         \A n \in Nodes(h) : n # f /\ n # mp /\ n # p => Step(g, n) = Step(h, n),
         Step(g, p) = f, Step(h, p) = mp, Step(g, mp) = mp,
         Step(g, f) = IF h.node[mp].next = 0 THEN f ELSE Step(h, mp),
         \A n \in Nodes(h) : Step(h, n) = f => n = f,
         \A n \in Nodes(h) : Step(h, n) = mp => n = p \/ (n = mp /\ h.node[mp].next = 0)
  PROVE  /\ \A x, y \in Nodes(h) \ {f, mp} : Reach(g, x, y) <=> Reach(h, x, y)
         /\ \A x \in Nodes(h) \ {f, mp} :
              (Reach(g, x, f) <=> Reach(h, x, mp)) /\ (Reach(g, f, x) <=> Reach(h, mp, x))
         /\ \A x \in Nodes(h) : Reach(g, mp, x) \/ Reach(g, x, mp) => x = mp
  <1> DEFINE Old(S) == {z \in Nodes(h) : (z # f /\ z # mp /\ z \in S) \/ (z = mp /\ f \in S)}
             New(S) == {z \in Nodes(h) : (z # f /\ z # mp /\ z \in S) \/ (z = f /\ mp \in S)}
  <1>1. ASSUME NEW S \in SUBSET Nodes(h), Closed(h, S)
        PROVE  Closed(g, New(S))
    <2> SUFFICES ASSUME NEW z \in New(S)
                 PROVE  Step(g, z) \in New(S)
      BY DEF Closed
    <2>1. CASE z = f
      <3>1. mp \in S /\ Step(h, mp) \in S
        BY <2>1, <1>1 DEF Closed
      <3>2. Step(h, mp) # f /\ (h.node[mp].next # 0 => Step(h, mp) # mp)
        OBVIOUS
      <3>3. QED
        BY <2>1, <3>1, <3>2
    <2>2. CASE z = p
      <3>1. mp \in S
        BY <2>2, <1>1 DEF Closed
      <3>2. QED
        BY <2>2, <3>1
    <2>3. CASE z # f /\ z # p
      <3>1. z \in S /\ z # mp
        BY <2>3
      <3>2. Step(h, z) \in S
        BY <3>1, <1>1 DEF Closed
      <3>3. Step(h, z) # f /\ Step(h, z) # mp
        BY <2>3, <3>1
      <3>4. QED
        BY <2>3, <3>1, <3>2, <3>3
    <2>4. QED
      BY <2>1, <2>2, <2>3
  <1>2. ASSUME NEW S \in SUBSET Nodes(h), Closed(g, S)
        PROVE  Closed(h, Old(S))
    <2> SUFFICES ASSUME NEW z \in Old(S)
                 PROVE  Step(h, z) \in Old(S)
      BY DEF Closed
    <2>1. CASE z = mp
      <3>1. f \in S /\ Step(g, f) \in S
        BY <2>1, <1>2 DEF Closed
      <3>2. h.node[mp].next = 0 => Step(h, mp) = mp
        BY DEF Step
      <3>3. Step(h, mp) # f /\ (h.node[mp].next # 0 => Step(h, mp) # mp)
        OBVIOUS
      <3>4. QED
        BY <2>1, <3>1, <3>2, <3>3
    <2>2. CASE z = p
      <3>1. f \in S
        BY <2>2, <1>2 DEF Closed
      <3>2. QED
        BY <2>2, <3>1
    <2>3. CASE z # mp /\ z # p
      <3>1. z \in S /\ z # f
        BY <2>3
      <3>2. Step(h, z) \in S
        BY <2>3, <3>1, <1>2 DEF Closed
      <3>3. Step(h, z) # f /\ Step(h, z) # mp
        BY <2>3, <3>1
      <3>4. QED
        BY <2>3, <3>1, <3>2, <3>3
    <2>4. QED
      BY <2>1, <2>2, <2>3
  <1>3. \A S : Old(S) \in SUBSET Nodes(h) /\ New(S) \in SUBSET Nodes(h)
    OBVIOUS
  <1>4. ASSUME NEW x \in Nodes(h) \ {f, mp}, NEW y \in Nodes(h) \ {f, mp}
        PROVE  Reach(g, x, y) <=> Reach(h, x, y)
    <2>1. ASSUME Reach(g, x, y), NEW S \in SUBSET Nodes(h), x \in S, Closed(h, S)
          PROVE  y \in S
      <3>1. x \in New(S) /\ Closed(g, New(S)) /\ New(S) \in SUBSET Nodes(g)
        BY <2>1, <1>1
      <3>2. y \in New(S)
        <4> HIDE DEF New
        <4> QED
          BY <2>1, <3>1 DEF Reach, Nodes
      <3>3. QED
        BY <3>2
    <2>2. ASSUME Reach(h, x, y), NEW S \in SUBSET Nodes(h), x \in S, Closed(g, S)
          PROVE  y \in S
      <3>1. x \in Old(S) /\ Closed(h, Old(S)) /\ Old(S) \in SUBSET Nodes(h)
        BY <2>2, <1>2
      <3>2. y \in Old(S)
        <4> HIDE DEF Old
        <4> QED
          BY <2>2, <3>1 DEF Reach, Nodes
      <3>3. QED
        BY <3>2
    <2>3. QED
      BY <2>1, <2>2 DEF Reach, Nodes
  <1>5. ASSUME NEW x \in Nodes(h) \ {f, mp}
        PROVE  Reach(g, x, f) <=> Reach(h, x, mp)
    <2>1. ASSUME Reach(g, x, f), NEW S \in SUBSET Nodes(h), x \in S, Closed(h, S)
          PROVE  mp \in S
      <3>1. x \in New(S) /\ Closed(g, New(S)) /\ New(S) \in SUBSET Nodes(g)
        BY <2>1, <1>1
      <3>2. f \in New(S)
        <4> HIDE DEF New
        <4> QED
          BY <2>1, <3>1 DEF Reach, Nodes
      <3>3. QED
        BY <3>2
    <2>2. ASSUME Reach(h, x, mp), NEW S \in SUBSET Nodes(h), x \in S, Closed(g, S)
          PROVE  f \in S
      <3>1. x \in Old(S) /\ Closed(h, Old(S)) /\ Old(S) \in SUBSET Nodes(h)
        BY <2>2, <1>2
      <3>2. mp \in Old(S)
        <4> HIDE DEF Old
        <4> QED
          BY <2>2, <3>1 DEF Reach, Nodes
      <3>3. QED
        BY <3>2
    <2>3. QED
      BY <2>1, <2>2 DEF Reach, Nodes
  <1>6. ASSUME NEW x \in Nodes(h) \ {f, mp}
        PROVE  Reach(g, f, x) <=> Reach(h, mp, x)
    <2>1. ASSUME Reach(g, f, x), NEW S \in SUBSET Nodes(h), mp \in S, Closed(h, S)
          PROVE  x \in S
      <3>1. f \in New(S) /\ Closed(g, New(S)) /\ New(S) \in SUBSET Nodes(g)
        BY <2>1, <1>1
      <3>2. x \in New(S)
        <4> HIDE DEF New
        <4> QED
          BY <2>1, <3>1 DEF Reach, Nodes
      <3>3. QED
        BY <3>2
    <2>2. ASSUME Reach(h, mp, x), NEW S \in SUBSET Nodes(h), f \in S, Closed(g, S)
          PROVE  x \in S
      <3>1. mp \in Old(S) /\ Closed(h, Old(S)) /\ Old(S) \in SUBSET Nodes(h)
        BY <2>2, <1>2
      <3>2. x \in Old(S)
        <4> HIDE DEF Old
        <4> QED
          BY <2>2, <3>1 DEF Reach, Nodes
      <3>3. QED
        BY <3>2
    <2>3. QED
      BY <2>1, <2>2 DEF Reach, Nodes
  <1>7. ASSUME NEW x \in Nodes(h), Reach(g, mp, x)
        PROVE  x = mp
    <2>1. Closed(g, {mp}) /\ {mp} \in SUBSET DOMAIN g.node
      BY DEF Closed, Nodes
    <2>2. QED
      BY <2>1, <1>7 DEF Reach
  <1>8. ASSUME NEW x \in Nodes(h), Reach(g, x, mp)
        PROVE  x = mp
    <2>1. ASSUME NEW z \in Nodes(h) \ {mp}
          PROVE  Step(g, z) \in Nodes(h) \ {mp}
      <3>1. Step(h, z) \in Nodes(h) /\ Step(h, mp) \in Nodes(h)
        BY DEF Closed
      <3>2. h.node[mp].next # 0 => Step(h, mp) # mp
        OBVIOUS
      <3>3. QED
        BY <3>1, <3>2
    <2>2. Closed(g, Nodes(h) \ {mp}) /\ Nodes(h) \ {mp} \in SUBSET DOMAIN g.node
      BY <2>1 DEF Closed, Nodes
    <2>3. QED
      BY <2>2, <1>8 DEF Reach
  <1>9. QED
    BY <1>4, <1>5, <1>6, <1>7, <1>8

\* A tidy table without the key, which goes to a node that is taken.
Taken(N, h, k, mp, f) ==
  /\ h \in Tables(N) /\ Tidy(h) /\ ~h.dummy
  /\ ~inarray(h, k) /\ \A n \in Nodes(h) : ~Holds(h, k, FALSE, n)
  /\ mp = mainposition(h, k) /\ h.node[mp].val # NULL
  /\ f = freeposition(h) /\ f # NULL

LEMMA TakenFacts ==
  ASSUME NEW N \in Nat \ {0}, NEW h, NEW k \in Key, NEW mp, NEW f, Taken(N, h, k, mp, f)
  PROVE  /\ Nodes(h) = 0 .. N - 1 /\ sizenode(h) = N /\ Nodes(h) \subseteq Nat /\ Closed(h, Nodes(h))
         /\ mp \in Nodes(h) /\ mp \in Nat /\ f \in Nodes(h) /\ f \in Nat /\ f # mp
         /\ KeyOf(h, mp) \in Key /\ KeyOf(h, f) = NULL /\ h.node[f] = Free
         /\ \A n \in Nodes(h) : h.node[n] \in Node /\ h.node[n].next \in Int
         /\ \A n \in Nodes(h) : Step(h, n) = f => n = f
         /\ \A n \in Nodes(h) : f < n => KeyOf(h, n) # NULL
         /\ \A n \in Nodes(h) : KeyOf(h, n) # NULL => Home(h, n) \in Nodes(h)
  <1>1. h \in Tables(N) /\ Tidy(h) /\ FreeAreUnlinked(h)
    BY DEF Taken, Tidy
  <1>2. /\ Nodes(h) = 0 .. N - 1 /\ sizenode(h) = N /\ Closed(h, 0 .. N - 1)
        /\ \A x \in Key : mainposition(h, x) \in 0 .. N - 1
        /\ \A n \in 0 .. N - 1 : h.node[n] \in Node
    BY <1>1, NodeFacts
  <1>3. mp \in Nodes(h) /\ mp \in Nat
    BY <1>2 DEF Taken
  <1>4. /\ f \in Nodes(h) /\ f \in Nat /\ KeyOf(h, f) = NULL
        /\ \A n \in Nodes(h) : f < n => KeyOf(h, n) # NULL
    BY <1>1, FreePosition DEF Taken
  <1>5. h.node[f] = Free
    BY <1>1, <1>4 DEF FreeAreUnlinked
  <1>6. f # mp
    BY <1>5 DEF Taken, Free
  <1>7. \A n \in Nodes(h) : KeyOf(h, n) # NULL => KeyOf(h, n) \in Key
    BY <1>2 DEF Node, Value, KeyOf
  <1>8. KeyOf(h, mp) \in Key
    <2>1. KeyOf(h, mp) # NULL
      BY <1>1, <1>3 DEF FreeAreUnlinked, Taken, Free
    <2>2. QED
      BY <2>1, <1>3, <1>7
  <1>9. ASSUME NEW n \in Nodes(h), Step(h, n) = f
        PROVE  n = f
    <2>1. h.node[n].next = 0
      BY <1>1, <1>4, <1>9 DEF FreeAreUnlinked
    <2>2. n \in Nat
      BY <1>2
    <2>3. QED
      BY <2>1, <2>2, <1>9 DEF Step
  <1>10. \A n \in Nodes(h) : h.node[n] \in Node /\ h.node[n].next \in Int
    BY <1>2 DEF Node
  <1>11. \A n \in Nodes(h) : KeyOf(h, n) # NULL => Home(h, n) \in Nodes(h)
    BY <1>2, <1>7 DEF Home
  <1>12. QED
    BY <1>2, <1>3, <1>4, <1>5, <1>6, <1>8, <1>9, <1>10, <1>11

\* The node in the key's main position belongs there: the key is linked behind.
LEMMA ChainTidy ==
  ASSUME NEW N \in Nat \ {0}, NEW h, NEW k \in Key, NEW v \in Value, NEW mp, NEW f,
         Taken(N, h, k, mp, f), Home(h, mp) = mp,
         NEW g, g = Fill(chainfree(getfreepos(h), mp, f), f, k, v)
  PROVE  g \in Tables(N) /\ Tidy(g) /\ Remaps(h, g, k, v) /\ g.array = h.array
  <1>1. /\ Nodes(h) = 0 .. N - 1 /\ Nodes(h) \subseteq Nat /\ Closed(h, Nodes(h))
        /\ mp \in Nodes(h) /\ mp \in Nat /\ f \in Nodes(h) /\ f \in Nat /\ f # mp
        /\ KeyOf(h, mp) # NULL /\ KeyOf(h, f) = NULL /\ k # NULL /\ h.node[f] = Free
        /\ h.node[mp].next \in Int
        /\ \A n \in Nodes(h) : Step(h, n) = f => n = f
        /\ \A n \in Nodes(h) : f < n => KeyOf(h, n) # NULL
        /\ \A n \in Nodes(h) : KeyOf(h, n) # NULL => Home(h, n) \in Nodes(h)
    BY TakenFacts, KeyFacts
  <1>2. /\ g \in Tables(N) /\ Nodes(g) = Nodes(h)
        /\ g.array = h.array /\ g.dummy = h.dummy /\ g.lastfree = f
        /\ \A n \in Nodes(h) : n # f /\ n # mp => g.node[n] = h.node[n]
        /\ g.node[mp].key = h.node[mp].key /\ g.node[mp].val = h.node[mp].val
        /\ g.node[mp].dead = h.node[mp].dead /\ g.node[mp].next = f - mp
        /\ g.node[f].key = k /\ g.node[f].val = v /\ ~g.node[f].dead
        /\ g.node[f].next = IF h.node[mp].next = 0 THEN 0 ELSE mp + h.node[mp].next - f
    <2>1. h \in Tables(N) /\ freeposition(h) = f /\ f \in Nodes(h) /\ mp \in Nodes(h) /\ f # mp
      BY <1>1 DEF Taken
    <2>2. QED
      BY <2>1, ChainFacts
  <1>3. /\ Step(g, mp) = f
        /\ Step(g, f) = IF h.node[mp].next = 0 THEN f ELSE Step(h, mp)
        /\ \A n \in Nodes(h) : n # f /\ n # mp => Step(g, n) = Step(h, n)
        /\ g.node[mp].next # 0
        /\ Step(h, mp) # f
    <2>1. mp + (f - mp) = f /\ f - mp # 0
      BY <1>1
    <2>2. f + (mp + h.node[mp].next - f) = mp + h.node[mp].next
      BY <1>1
    <2>3. h.node[mp].next # 0 => g.node[f].next = mp + h.node[mp].next - f
      BY <1>2
    <2>4. h.node[mp].next = 0 => g.node[f].next = 0
      BY <1>2
    <2>5. Step(g, f) = IF h.node[mp].next = 0 THEN f ELSE Step(h, mp)
      BY <2>2, <2>3, <2>4, <1>1 DEF Step
    <2>6. QED
      BY <1>1, <1>2, <2>1, <2>5 DEF Step
  <1>4. \A x \in Nodes(h) \ {f} :
          /\ \A y \in Nodes(h) \ {f} : Reach(g, x, y) <=> Reach(h, x, y)
          /\ Reach(g, x, f) <=> Reach(h, x, mp)
    <2>1. /\ Nodes(h) \subseteq Nat /\ Nodes(g) = Nodes(h) /\ Closed(h, Nodes(h))
          /\ f \in Nodes(h) /\ mp \in Nodes(h) /\ f # mp
          /\ \A n \in Nodes(h) : Step(h, n) = f => n = f
      BY <1>1, <1>2
    <2>2. QED
      BY <2>1, <1>3, ReachInsert
  <1>5. KeyOf(g, f) = k /\ \A n \in Nodes(h) : n # f => KeyOf(g, n) = KeyOf(h, n)
    BY <1>2 DEF KeyOf
  <1>6. \A x : mainposition(g, x) = mainposition(h, x)
    BY <1>2 DEF mainposition, sizenode, Nodes
  <1>7. \A x : inarray(g, x) <=> inarray(h, x)
    BY <1>2 DEF inarray
  <1>8. Home(g, f) = mp /\ \A n \in Nodes(h) : n # f => Home(g, n) = Home(h, n)
    BY <1>5, <1>6 DEF Home, Taken
  <1>9. FreeAreUnlinked(h) /\ Chained(h) /\ Housed(h) /\ LiveFirst(h) /\ Placed(h)
    BY DEF Taken, Tidy
  <1>10. FreeAreUnlinked(g)
    <2>1. ASSUME NEW n \in Nodes(h), KeyOf(g, n) = NULL
          PROVE  g.node[n] = Free
      BY <2>1, <1>1, <1>2, <1>5, <1>9 DEF FreeAreUnlinked
    <2>2. ASSUME NEW n \in Nodes(h), g.node[n].next # 0
          PROVE  Step(g, n) \in Nodes(h) /\ KeyOf(g, Step(g, n)) # NULL
      <3>1. CASE n = mp
        BY <3>1, <1>1, <1>3, <1>5
      <3>2. CASE n # mp
        <4>1. PICK m \in Nodes(h) : h.node[m].next # 0 /\ Step(g, n) = Step(h, m)
          BY <3>2, <2>2, <1>1, <1>2, <1>3
        <4>2. Step(h, m) \in Nodes(h) /\ KeyOf(h, Step(h, m)) # NULL
          BY <4>1, <1>9 DEF FreeAreUnlinked
        <4>3. QED
          BY <4>1, <4>2, <1>1, <1>5
      <3>3. QED
        BY <3>1, <3>2
    <2>3. QED
      BY <2>1, <2>2, <1>2 DEF FreeAreUnlinked
  <1>11. Chained(g)
    <2> DEFINE Old(n) == IF n = f THEN mp ELSE n
    <2>1. ASSUME NEW n \in Nodes(h), g.node[n].next # 0, n # mp
          PROVE  Old(n) \in Nodes(h) /\ h.node[Old(n)].next # 0 /\ Step(g, n) = Step(h, Old(n)) /\ Step(g, n) # f
      <3>1. CASE n = f
        BY <2>1, <3>1, <1>1, <1>2, <1>3
      <3>2. CASE n # f
        BY <2>1, <3>2, <1>1, <1>2, <1>3
      <3>3. QED
        BY <3>1, <3>2
    <2>2. ASSUME NEW m \in Nodes(h), NEW n \in Nodes(h),
                 g.node[m].next # 0, g.node[n].next # 0, Step(g, m) = Step(g, n)
          PROVE  m = n
      <3>1. CASE m = mp \/ n = mp
        <4> HIDE DEF Old
        <4> QED
          BY <3>1, <2>1, <2>2, <1>3
      <3>2. CASE m # mp /\ n # mp
        <4>1. Old(m) = Old(n)
          <5> HIDE DEF Old
          <5> QED
            BY <3>2, <2>1, <2>2, <1>9 DEF Chained
        <4>2. QED
          BY <3>2, <4>1
      <3>3. QED
        BY <3>1, <3>2
    <2>3. ASSUME NEW y \in Nodes(h) \ {f}, Reach(g, f, y), Reach(g, y, f)
          PROVE  FALSE
      <3>1. Reach(h, y, mp)
        BY <2>3, <1>4
      <3>2. g.node[f].next # 0 /\ Reach(g, Step(g, f), y)
        BY <2>3, <1>1, <1>2, ReachFacts
      <3>3. h.node[mp].next # 0 /\ Step(g, f) = Step(h, mp)
        BY <3>2, <1>2, <1>3
      <3>4. Step(h, mp) \in Nodes(h) \ {f}
        BY <1>1, <1>3 DEF Closed
      <3>5. Reach(h, Step(h, mp), y)
        BY <3>2, <3>3, <3>4, <1>4
      <3>6. Reach(h, Step(h, mp), mp) /\ Reach(h, mp, Step(h, mp))
        BY <3>1, <3>5, <1>1, ReachFacts
      <3>7. Step(h, mp) = mp
        BY <3>4, <3>6, <1>1, <1>9 DEF Chained
      <3>8. QED
        BY <3>3, <3>7, <1>1 DEF Step
    <2>4. ASSUME NEW x \in Nodes(h), NEW y \in Nodes(h), Reach(g, x, y), Reach(g, y, x)
          PROVE  x = y
      <3>1. CASE x # f /\ y # f
        BY <3>1, <2>4, <1>4, <1>9 DEF Chained
      <3>2. CASE x = f \/ y = f
        BY <3>2, <2>4, <2>3
      <3>3. QED
        BY <3>1, <3>2
    <2>5. QED
      BY <2>2, <2>4, <1>2 DEF Chained
  <1>12. Housed(g)
    <2> SUFFICES ASSUME NEW n \in Nodes(h), KeyOf(g, n) # NULL
                 PROVE  /\ KeyOf(g, Home(g, n)) # NULL /\ Home(g, Home(g, n)) = Home(g, n)
                        /\ Reach(g, Home(g, n), n)
      BY <1>2 DEF Housed
    <2>1. CASE n = f
      <3>1. Reach(g, mp, f)
        BY <1>1, <1>4, ReachFacts
      <3>2. QED
        BY <2>1, <3>1, <1>1, <1>5, <1>8
    <2>2. CASE n # f
      <3>1. PICK m : m = Home(h, n)
        OBVIOUS
      <3>2. KeyOf(h, n) # NULL /\ m \in Nodes(h)
        BY <2>2, <3>1, <1>1, <1>5
      <3>3. KeyOf(h, m) # NULL /\ Home(h, m) = m /\ Reach(h, m, n)
        BY <3>1, <3>2, <1>9 DEF Housed
      <3>4. m # f
        BY <3>3, <1>1
      <3>5. QED
        BY <2>2, <3>1, <3>2, <3>3, <3>4, <1>4, <1>5, <1>8
    <2>3. QED
      BY <2>1, <2>2
  <1>13. LiveFirst(g)
    <2>1. \A n \in Nodes(h) : g.node[n].dead => g.node[n].val = NULL
      BY <1>2, <1>9 DEF LiveFirst
    <2>2. \A n \in Nodes(h) : n # f => (g.node[n].dead <=> h.node[n].dead)
      BY <1>2
    <2>3. ASSUME NEW m \in Nodes(h), NEW n \in Nodes(h),
                 m # n, Alive(g, m), KeyOf(g, n) = KeyOf(g, m)
          PROVE  g.node[n].dead /\ Reach(g, m, n)
      <3>1. CASE m = f
        <4>1. KeyOf(h, n) = k /\ n # f
          BY <2>3, <3>1, <1>5
        <4>2. h.node[n].dead
          BY <4>1 DEF Taken, Holds
        <4>3. n # mp
          BY <4>2, <1>9 DEF LiveFirst, Taken
        <4>4. Reach(h, mp, n)
          <5>1. Home(h, n) = mp
            BY <4>1 DEF Home, Taken
          <5>2. QED
            BY <4>1, <5>1, <1>1, <1>9 DEF Housed
        <4>5. h.node[mp].next # 0 /\ Reach(h, Step(h, mp), n)
          BY <4>3, <4>4, <1>1, ReachFacts
        <4>6. Step(g, f) = Step(h, mp) /\ Step(h, mp) \in Nodes(h) \ {f}
          BY <4>5, <1>1, <1>3 DEF Closed
        <4>7. Reach(g, Step(g, f), n)
          BY <4>1, <4>5, <4>6, <1>4
        <4>8. Reach(g, f, n)
          <5>1. Nodes(g) \subseteq Nat /\ f \in Nodes(g)
            BY <1>1, <1>2
          <5>2. QED
            BY <4>7, <5>1, ReachFacts
        <4>9. QED
          BY <3>1, <4>1, <4>2, <4>8, <2>2
      <3>2. CASE m # f /\ n = f
        <4>1. KeyOf(h, m) = k /\ ~h.node[m].dead
          BY <2>2, <2>3, <3>2, <1>5 DEF Alive
        <4>2. QED
          BY <4>1 DEF Taken, Holds
      <3>3. CASE m # f /\ n # f
        <4>1. Alive(h, m) /\ KeyOf(h, n) = KeyOf(h, m)
          BY <2>2, <2>3, <3>3, <1>5 DEF Alive
        <4>2. h.node[n].dead /\ Reach(h, m, n)
          BY <4>1, <2>3, <1>9 DEF LiveFirst
        <4>3. QED
          BY <4>2, <3>3, <2>2, <1>4
      <3>4. QED
        BY <3>1, <3>2, <3>3
    <2>4. QED
      BY <2>1, <2>3, <1>2 DEF LiveFirst
  <1>14. Placed(g)
    <2>1. \A n \in Nodes(h) : f <= n => KeyOf(g, n) # NULL
      BY <1>1, <1>5
    <2>2. \A n \in Nodes(h) : KeyOf(g, n) # NULL => ~inarray(g, KeyOf(g, n))
      BY <1>5, <1>7, <1>9 DEF Placed, Taken
    <2>3. QED
      BY <2>1, <2>2, <1>2 DEF Placed, Taken
  <1>15. Remaps(h, g, k, v)
    <2>1. Maps(g, k, v)
      <3>1. ~inarray(g, k) /\ Holds(g, k, FALSE, f) /\ g.node[f].val = v
        BY <1>1, <1>2, <1>5, <1>7 DEF Holds, Taken
      <3>2. ASSUME NEW n \in Nodes(g), Holds(g, k, FALSE, n)
            PROVE  n = f
        <4>1. n # f => KeyOf(h, n) = k /\ ~h.node[n].dead
          BY <3>2, <1>2, <1>5 DEF Holds
        <4>2. QED
          BY <3>2, <4>1, <1>2 DEF Holds, Taken
      <3>3. QED
        BY <3>1, <3>2, <1>1, <1>2 DEF Maps
    <2>2. ASSUME NEW x \in Key \ {k}, NEW y, Maps(h, x, y)
          PROVE  Maps(g, x, y)
      <3>1. \A n \in Nodes(h) : Holds(g, x, FALSE, n) <=> Holds(h, x, FALSE, n)
        <4>1. x # NULL
          BY KeyFacts
        <4>2. ~Holds(g, x, FALSE, f) /\ ~Holds(h, x, FALSE, f)
          BY <4>1, <1>1, <1>5 DEF Holds
        <4>3. QED
          BY <4>2, <1>2, <1>5 DEF Holds
      <3>2. \A n \in Nodes(h) : n # f => g.node[n].val = h.node[n].val
        BY <1>2
      <3>3. ~Holds(h, x, FALSE, f)
        <4>1. x # NULL
          BY KeyFacts
        <4>2. QED
          BY <4>1, <1>1 DEF Holds
      <3>4. QED
        BY <2>2, <3>1, <3>2, <3>3, <1>2, <1>7 DEF Maps
    <2>3. QED
      BY <2>1, <2>2 DEF Remaps
  <1>16. QED
    BY <1>2, <1>10, <1>11, <1>12, <1>13, <1>14, <1>15 DEF Tidy

\* A node out of its main position has a predecessor in its chain.
LEMMA PreviousFacts ==
  ASSUME NEW N \in Nat \ {0}, NEW h, NEW k \in Key, NEW mp, NEW f, Taken(N, h, k, mp, f),
         NEW o, o = Home(h, mp), o # mp, NEW p, p = Previous(getfreepos(h), o, mp)
  PROVE  /\ o \in Nodes(h) /\ KeyOf(h, o) # NULL /\ Home(h, o) = o /\ Reach(h, o, mp)
         /\ p \in Nodes(h) /\ h.node[p].next # 0 /\ Step(h, p) = mp /\ p # mp /\ p # f
         /\ \A n \in Nodes(h) : Step(h, n) = mp => n = p \/ (n = mp /\ h.node[mp].next = 0)
  <1>1. /\ Nodes(h) = 0 .. N - 1 /\ Nodes(h) \subseteq Nat /\ Closed(h, Nodes(h))
        /\ mp \in Nodes(h) /\ KeyOf(h, mp) # NULL /\ h.node[f] = Free
        /\ \A n \in Nodes(h) : h.node[n].next \in Int
        /\ \A n \in Nodes(h) : KeyOf(h, n) # NULL => Home(h, n) \in Nodes(h)
    BY TakenFacts, KeyFacts
  <1>2. o \in Nodes(h) /\ KeyOf(h, o) # NULL /\ Home(h, o) = o /\ Reach(h, o, mp)
    BY <1>1 DEF Taken, Tidy, Housed
  <1>3. \A n \in Nodes(h) : Step(h, n) = n => h.node[n].next = 0
    BY <1>1 DEF Step
  <1>4. \E n \in Nodes(h) : Reach(h, o, n) /\ n # mp /\ Step(h, n) = mp
    <2> SUFFICES ASSUME \A n \in Nodes(h) : Reach(h, o, n) /\ n # mp => Step(h, n) # mp
                 PROVE  FALSE
      OBVIOUS
    <2> DEFINE S == {n \in Nodes(h) : Reach(h, o, n) /\ n # mp}
    <2>1. o \in S
      BY <1>1, <1>2, ReachFacts
    <2>2. ASSUME NEW n \in S
          PROVE  Step(h, n) \in S
      <3>1. Reach(h, n, Step(h, n)) /\ Step(h, n) \in Nodes(h)
        BY <1>1, ReachFacts DEF Closed
      <3>2. Reach(h, o, Step(h, n))
        BY <3>1, <1>1, ReachFacts
      <3>3. QED
        BY <3>1, <3>2
    <2>3. mp \in S
      <3> HIDE DEF S
      <3>1. Closed(h, S)
        BY <2>2 DEF Closed
      <3>2. S \in SUBSET DOMAIN h.node
        BY DEF S, Nodes
      <3>3. QED
        BY <2>1, <3>1, <3>2, <1>2 DEF Reach
    <2>4. QED
      BY <2>3
  <1>5. PICK q : q = getfreepos(h)
    OBVIOUS
  <1>6. q.node = h.node
    <2>1. h \in Tables(N) /\ freeposition(h) = f
      BY DEF Taken
    <2>3. f \in 0 .. N
      <3>1. f \in Nodes(h)
        BY TakenFacts
      <3>2. QED
        BY <3>1, <1>1
    <2>2. QED
      BY <2>1, <2>3, <1>5, GetFreeFacts
  <1>7. \A n : n \in Linked(q, o) <=> Reach(h, o, n)
    <2>1. ASSUME NEW n
          PROVE  n \in Linked(q, o) <=> Reach(q, o, n)
      <3>1. DOMAIN q.node = 0 .. N - 1 /\ Closed(q, 0 .. N - 1) /\ o \in 0 .. N - 1
        BY <1>1, <1>2, <1>6 DEF Nodes, Closed, Step
      <3>2. QED
        BY <3>1, LinkedIsReach
    <2>2. \A n : Reach(q, o, n) <=> Reach(h, o, n)
      BY <1>6 DEF Reach, Closed, Step
    <2>3. QED
      BY <2>1, <2>2
  <1>8. \A n : Reach(h, o, n) => n \in Nodes(h)
    BY <1>1, <1>2 DEF Reach, Nodes
  <1>9. p \in Linked(q, o) /\ q.node[p].next # 0 /\ p + q.node[p].next = mp
    <2>1. PICK n \in Nodes(h) : Reach(h, o, n) /\ n # mp /\ Step(h, n) = mp
      BY <1>4
    <2>2. h.node[n].next # 0
      <3>1. n \in Nat
        BY <1>1
      <3>2. QED
        BY <2>1, <3>1 DEF Step
    <2>3. n \in Linked(q, o) /\ q.node[n].next # 0 /\ n + q.node[n].next = mp
      BY <2>1, <2>2, <1>6, <1>7 DEF Step
    <2>4. p = CHOOSE i \in Linked(q, o) : q.node[i].next # 0 /\ i + q.node[i].next = mp
      BY <1>5 DEF Previous
    <2>5. QED
      BY <2>3, <2>4
  <1>10. p \in Nodes(h) /\ h.node[p].next # 0 /\ Step(h, p) = mp
    BY <1>6, <1>7, <1>8, <1>9 DEF Step
  <1>11. p # mp /\ p # f
    BY <1>1, <1>3, <1>10 DEF Free
  <1>12. ASSUME NEW n \in Nodes(h), Step(h, n) = mp
         PROVE  n = p \/ (n = mp /\ h.node[mp].next = 0)
    <2>1. h.node[n].next = 0 => n = mp
      <3>1. n \in Nat
        BY <1>1
      <3>2. QED
        BY <3>1, <1>12 DEF Step
    <2>2. h.node[n].next # 0 => n = p
      BY <1>10, <1>12 DEF Taken, Tidy, Chained
    <2>3. QED
      BY <2>1, <2>2
  <1>13. QED
    BY <1>2, <1>10, <1>11, <1>12

\* The assignments that move a colliding node and fill its place.
LEMMA MoveFacts ==
  ASSUME NEW N \in Nat \ {0}, NEW h \in Tables(N), NEW f \in Nodes(h), freeposition(h) = f,
         NEW mp \in Nodes(h), NEW p \in Nodes(h), f # mp, p # mp, p # f,
         NEW o, p = Previous(getfreepos(h), o, mp),
         NEW k \in Key, NEW v \in Value,
         NEW g, g = Fill(movecolliding(getfreepos(h), mp, f, o), mp, k, v)
  PROVE  /\ g \in Tables(N) /\ Nodes(g) = Nodes(h)
         /\ g.array = h.array /\ g.dummy = h.dummy /\ g.lastfree = f
         /\ \A n \in Nodes(h) : n # f /\ n # mp /\ n # p => g.node[n] = h.node[n]
         /\ g.node[p].key = h.node[p].key /\ g.node[p].val = h.node[p].val
         /\ g.node[p].dead = h.node[p].dead /\ g.node[p].next = f - p
         /\ g.node[f].key = h.node[mp].key /\ g.node[f].val = h.node[mp].val
         /\ g.node[f].dead = h.node[mp].dead
         /\ g.node[f].next = IF h.node[mp].next = 0 THEN 0 ELSE h.node[mp].next + mp - f
         /\ g.node[mp].key = k /\ g.node[mp].val = v /\ ~g.node[mp].dead
         /\ g.node[mp].next = 0
  <1>1. /\ Nodes(h) = 0 .. N - 1 /\ h.node \in [0 .. N - 1 -> Node]
        /\ h.node[mp] \in Node /\ h.node[f] \in Node /\ h.node[p] \in Node
        /\ h.node[mp].next \in Int
        /\ f \in 0 .. N - 1 /\ mp \in 0 .. N - 1 /\ p \in 0 .. N - 1
    BY DEF Tables, Nodes, Node
  <1>2. PICK l \in Int : l = IF h.node[mp].next = 0 THEN 0 ELSE h.node[mp].next + mp - f
    BY <1>1
  <1>3. PICK q : q = getfreepos(h)
    OBVIOUS
  <1>4. /\ q \in Tables(N) /\ q.node = h.node /\ q.array = h.array /\ q.dummy = h.dummy
        /\ q.lastfree = f
    <2>1. f \in 0 .. N /\ f # NULL
      BY <1>1, NullAssumption
    <2>2. QED
      BY <2>1, <1>3, GetFreeFacts
  <1> DEFINE x == [q.node[p] EXCEPT !.next = f - p]
             y == [q.node[mp] EXCEPT !.next = l]
             z == [q.node[mp] EXCEPT !.next = 0, !.val = NULL]
             q1 == Put(q, p, x)
             q2 == Put(q1, f, y)
             q3 == Put(q2, mp, z)
  <1>5. /\ x \in Node /\ x.next = f - p /\ x.key = h.node[p].key /\ x.val = h.node[p].val
        /\ x.dead = h.node[p].dead
    <2>1. f - p \in Int /\ q.node[p] = h.node[p]
      BY <1>1, <1>4
    <2>2. QED
      BY <2>1, <1>1 DEF Node
  <1>6. /\ y \in Node /\ y.next = l /\ y.key = h.node[mp].key
        /\ y.val = h.node[mp].val /\ y.dead = h.node[mp].dead
    BY <1>1, <1>2, <1>4 DEF Node
  <1>7. z \in Node /\ z.next = 0
    <2>1. 0 \in Int /\ NULL \in Value /\ q.node[mp] = h.node[mp]
      BY <1>4 DEF Value
    <2>2. QED
      BY <2>1, <1>1 DEF Node
  <1>8. q3 = movecolliding(q, mp, f, o)
    <2>1. p = Previous(q, o, mp)
      BY <1>3
    <2>2. movecolliding(q, mp, f, o) = [q EXCEPT !.node[p].next = f - p,
            !.node[f] = [q.node[mp] EXCEPT !.next = l],
            !.node[mp] = [q.node[mp] EXCEPT !.next = 0, !.val = NULL]]
      BY <2>1, <1>2, <1>4 DEF movecolliding
    <2>3. QED
      BY <2>2, <1>1, <1>4 DEF Put, Tables
  <1> HIDE DEF x, y, z
  <1>9. /\ q1 \in Tables(N) /\ Nodes(q1) = Nodes(h)
        /\ q1.array = h.array /\ q1.dummy = h.dummy /\ q1.lastfree = q.lastfree
        /\ \A n \in Nodes(h) : n # p => q1.node[n] = h.node[n]
        /\ q1.node[p] = x
    <2>1. Nodes(q) = Nodes(h) /\ p \in Nodes(q)
      BY <1>4 DEF Nodes
    <2>2. QED
      BY <2>1, <1>4, <1>5, PutFacts
  <1> HIDE DEF q1
  <1>10. /\ q2 \in Tables(N) /\ Nodes(q2) = Nodes(h)
         /\ q2.array = h.array /\ q2.dummy = h.dummy /\ q2.lastfree = q.lastfree
         /\ \A n \in Nodes(h) : n # p /\ n # f => q2.node[n] = h.node[n]
         /\ q2.node[p] = x /\ q2.node[f] = y
    <2>1. f \in Nodes(q1)
      BY <1>9
    <2>2. QED
      BY <2>1, <1>9, <1>6, PutFacts
  <1> HIDE DEF q2
  <1>11. /\ q3 \in Tables(N) /\ Nodes(q3) = Nodes(h)
         /\ q3.array = h.array /\ q3.dummy = h.dummy /\ q3.lastfree = q.lastfree
         /\ \A n \in Nodes(h) : n # p /\ n # f /\ n # mp => q3.node[n] = h.node[n]
         /\ q3.node[p] = x /\ q3.node[f] = y /\ q3.node[mp] = z
    <2>1. mp \in Nodes(q2)
      BY <1>10
    <2>2. QED
      BY <2>1, <1>10, <1>7, PutFacts
  <1> HIDE DEF q3
  <1>12. g = Fill(q3, mp, k, v)
    BY <1>3, <1>8
  <1>13. QED
    BY <1>2, <1>4, <1>5, <1>6, <1>7, <1>11, <1>12, FillFacts

\* The node in the key's main position is out of its own: it moves away.
LEMMA MoveTidy ==
  ASSUME NEW N \in Nat \ {0}, NEW h, NEW k \in Key, NEW v \in Value, NEW mp, NEW f,
         Taken(N, h, k, mp, f), NEW o, o = Home(h, mp), o # mp,
         NEW g, g = Fill(movecolliding(getfreepos(h), mp, f, o), mp, k, v)
  PROVE  g \in Tables(N) /\ Tidy(g) /\ Remaps(h, g, k, v) /\ g.array = h.array
  <1>1. /\ Nodes(h) = 0 .. N - 1 /\ Nodes(h) \subseteq Nat /\ Closed(h, Nodes(h))
        /\ mp \in Nodes(h) /\ mp \in Nat /\ f \in Nodes(h) /\ f \in Nat /\ f # mp
        /\ KeyOf(h, mp) # NULL /\ KeyOf(h, f) = NULL /\ k # NULL /\ h.node[f] = Free
        /\ h.node[mp].next \in Int
        /\ \A n \in Nodes(h) : Step(h, n) = f => n = f
        /\ \A n \in Nodes(h) : f < n => KeyOf(h, n) # NULL
        /\ \A n \in Nodes(h) : KeyOf(h, n) # NULL => Home(h, n) \in Nodes(h)
    BY TakenFacts, KeyFacts
  <1>2. PICK p : p = Previous(getfreepos(h), o, mp)
    OBVIOUS
  <1>3. /\ o \in Nodes(h) /\ KeyOf(h, o) # NULL /\ Home(h, o) = o /\ Reach(h, o, mp)
        /\ p \in Nodes(h) /\ h.node[p].next # 0 /\ Step(h, p) = mp /\ p # mp /\ p # f
        /\ \A n \in Nodes(h) : Step(h, n) = mp => n = p \/ (n = mp /\ h.node[mp].next = 0)
    BY <1>2, PreviousFacts
  <1>4. /\ g \in Tables(N) /\ Nodes(g) = Nodes(h)
        /\ g.array = h.array /\ g.dummy = h.dummy /\ g.lastfree = f
        /\ \A n \in Nodes(h) : n # f /\ n # mp /\ n # p => g.node[n] = h.node[n]
        /\ g.node[p].key = h.node[p].key /\ g.node[p].val = h.node[p].val
        /\ g.node[p].dead = h.node[p].dead /\ g.node[p].next = f - p
        /\ g.node[f].key = h.node[mp].key /\ g.node[f].val = h.node[mp].val
        /\ g.node[f].dead = h.node[mp].dead
        /\ g.node[f].next = IF h.node[mp].next = 0 THEN 0 ELSE h.node[mp].next + mp - f
        /\ g.node[mp].key = k /\ g.node[mp].val = v /\ ~g.node[mp].dead
        /\ g.node[mp].next = 0
    <2>1. h \in Tables(N) /\ freeposition(h) = f
      BY DEF Taken
    <2>2. f \in Nodes(h) /\ mp \in Nodes(h) /\ f # mp /\ p \in Nodes(h) /\ p # mp /\ p # f
      BY <1>1, <1>3
    <2>3. QED
      BY <2>1, <2>2, <1>2, MoveFacts
  <1>5. /\ Step(g, p) = f /\ Step(g, mp) = mp
        /\ Step(g, f) = IF h.node[mp].next = 0 THEN f ELSE Step(h, mp)
        /\ \A n \in Nodes(h) : n # f /\ n # mp /\ n # p => Step(g, n) = Step(h, n)
        /\ h.node[mp].next # 0 => Step(h, mp) # mp
        /\ Step(h, mp) # f
    <2>1. p + (f - p) = f /\ mp + 0 = mp /\ f + 0 = f
      BY <1>1, <1>3
    <2>2. f + (h.node[mp].next + mp - f) = mp + h.node[mp].next
      BY <1>1
    <2>3. h.node[mp].next # 0 => g.node[f].next = h.node[mp].next + mp - f
      BY <1>4
    <2>4. h.node[mp].next = 0 => g.node[f].next = 0
      BY <1>4
    <2>5. Step(g, f) = IF h.node[mp].next = 0 THEN f ELSE Step(h, mp)
      BY <2>1, <2>2, <2>3, <2>4 DEF Step
    <2>6. h.node[mp].next # 0 => Step(h, mp) # mp
      BY <1>1 DEF Step
    <2>7. QED
      BY <1>1, <1>4, <2>1, <2>5, <2>6 DEF Step
  <1>6. /\ \A x, y \in Nodes(h) \ {f, mp} : Reach(g, x, y) <=> Reach(h, x, y)
        /\ \A x \in Nodes(h) \ {f, mp} :
             (Reach(g, x, f) <=> Reach(h, x, mp)) /\ (Reach(g, f, x) <=> Reach(h, mp, x))
        /\ \A x \in Nodes(h) : Reach(g, mp, x) \/ Reach(g, x, mp) => x = mp
    <2>1. /\ Nodes(h) \subseteq Nat /\ Nodes(g) = Nodes(h) /\ Closed(h, Nodes(h))
          /\ f \in Nodes(h) /\ mp \in Nodes(h) /\ f # mp
          /\ \A n \in Nodes(h) : Step(h, n) = f => n = f
      BY <1>1, <1>4
    <2>2. QED
      BY <2>1, <1>3, <1>5, ReachReplace
  <1>7. /\ KeyOf(g, mp) = k /\ KeyOf(g, f) = KeyOf(h, mp)
        /\ \A n \in Nodes(h) : n # f /\ n # mp => KeyOf(g, n) = KeyOf(h, n)
    BY <1>4 DEF KeyOf
  <1>8. \A x : mainposition(g, x) = mainposition(h, x)
    BY <1>4 DEF mainposition, sizenode, Nodes
  <1>9. \A x : inarray(g, x) <=> inarray(h, x)
    BY <1>4 DEF inarray
  <1>10. /\ Home(g, mp) = mp /\ Home(g, f) = o
         /\ \A n \in Nodes(h) : n # f /\ n # mp => Home(g, n) = Home(h, n)
    BY <1>7, <1>8 DEF Home, Taken
  <1>11. FreeAreUnlinked(h) /\ Chained(h) /\ Housed(h) /\ LiveFirst(h) /\ Placed(h)
    BY DEF Taken, Tidy
  <1>12. \A n \in Nodes(h) : KeyOf(h, n) # NULL => Home(h, n) # mp
    BY <1>11 DEF Housed
  <1>13. \A n \in Nodes(h) : KeyOf(h, n) # k
    BY <1>1, <1>12 DEF Home, Taken
  <1>14. \A n \in Nodes(h) : n # f /\ n # mp =>
           g.node[n].dead = h.node[n].dead /\ g.node[n].val = h.node[n].val
    BY <1>4
  <1>15. FreeAreUnlinked(g)
    <2>1. ASSUME NEW n \in Nodes(h), KeyOf(g, n) = NULL
          PROVE  g.node[n] = Free
      <3>1. n # f /\ n # mp /\ h.node[n] = Free
        BY <2>1, <1>1, <1>7, <1>11 DEF FreeAreUnlinked
      <3>2. n # p
        BY <3>1, <1>3 DEF Free
      <3>3. QED
        BY <3>1, <3>2, <1>4
    <2>2. ASSUME NEW n \in Nodes(h), g.node[n].next # 0
          PROVE  Step(g, n) \in Nodes(h) /\ KeyOf(g, Step(g, n)) # NULL
      <3>1. CASE n = p
        BY <3>1, <1>1, <1>5, <1>7
      <3>2. CASE n # p
        <4>1. PICK m \in Nodes(h) : h.node[m].next # 0 /\ Step(g, n) = Step(h, m)
          BY <3>2, <2>2, <1>1, <1>4, <1>5
        <4>2. Step(h, m) \in Nodes(h) /\ KeyOf(h, Step(h, m)) # NULL
          BY <4>1, <1>11 DEF FreeAreUnlinked
        <4>3. QED
          BY <4>1, <4>2, <1>1, <1>7
      <3>3. QED
        BY <3>1, <3>2
    <2>3. QED
      BY <2>1, <2>2, <1>4 DEF FreeAreUnlinked
  <1>16. Chained(g)
    <2> DEFINE Old(n) == IF n = f THEN mp ELSE n
    <2>1. ASSUME NEW n \in Nodes(h), g.node[n].next # 0
          PROVE  /\ n # mp /\ Old(n) \in Nodes(h) /\ h.node[Old(n)].next # 0
                 /\ n # p => Step(g, n) = Step(h, Old(n)) /\ Step(g, n) # f
                 /\ n = p => Step(g, n) = f
      <3>1. CASE n = f
        BY <2>1, <3>1, <1>1, <1>3, <1>4, <1>5
      <3>2. CASE n # f
        BY <2>1, <3>2, <1>1, <1>3, <1>4, <1>5
      <3>3. QED
        BY <3>1, <3>2
    <2>2. ASSUME NEW m \in Nodes(h), NEW n \in Nodes(h),
                 g.node[m].next # 0, g.node[n].next # 0, Step(g, m) = Step(g, n)
          PROVE  m = n
      <3>1. CASE m = p \/ n = p
        <4> HIDE DEF Old
        <4> QED
          BY <3>1, <2>1, <2>2
      <3>2. CASE m # p /\ n # p
        <4>1. Old(m) = Old(n) /\ m # mp /\ n # mp
          <5> HIDE DEF Old
          <5> QED
            BY <3>2, <2>1, <2>2, <1>11 DEF Chained
        <4>2. QED
          BY <4>1
      <3>3. QED
        BY <3>1, <3>2
    <2>3. ASSUME NEW y \in Nodes(h) \ {f}, Reach(g, f, y), Reach(g, y, f)
          PROVE  FALSE
      <3>1. y # mp
        BY <2>3, <1>1, <1>6
      <3>2. Reach(h, mp, y) /\ Reach(h, y, mp)
        BY <2>3, <3>1, <1>6
      <3>3. QED
        BY <3>1, <3>2, <1>1, <1>11 DEF Chained
    <2>4. ASSUME NEW x \in Nodes(h), NEW y \in Nodes(h), Reach(g, x, y), Reach(g, y, x)
          PROVE  x = y
      <3>1. CASE x = mp \/ y = mp
        BY <3>1, <2>4, <1>6
      <3>2. CASE x = f \/ y = f
        BY <3>2, <2>4, <2>3
      <3>3. CASE x # f /\ y # f /\ x # mp /\ y # mp
        BY <3>3, <2>4, <1>6, <1>11 DEF Chained
      <3>4. QED
        BY <3>1, <3>2, <3>3
    <2>5. QED
      BY <2>2, <2>4, <1>4 DEF Chained
  <1>17. Housed(g)
    <2> SUFFICES ASSUME NEW n \in Nodes(h), KeyOf(g, n) # NULL
                 PROVE  /\ KeyOf(g, Home(g, n)) # NULL /\ Home(g, Home(g, n)) = Home(g, n)
                        /\ Reach(g, Home(g, n), n)
      BY <1>4 DEF Housed
    <2>1. CASE n = mp
      <3>1. Reach(g, mp, mp)
        BY DEF Reach
      <3>2. QED
        BY <2>1, <3>1, <1>1, <1>7, <1>10
    <2>2. CASE n = f
      <3>1. o # f
        BY <1>1, <1>3
      <3>2. QED
        BY <2>2, <3>1, <1>3, <1>6, <1>7, <1>10
    <2>3. CASE n # f /\ n # mp
      <3>1. PICK m : m = Home(h, n)
        OBVIOUS
      <3>2. KeyOf(h, n) # NULL /\ m \in Nodes(h) /\ m # mp
        BY <2>3, <3>1, <1>1, <1>7, <1>12
      <3>3. KeyOf(h, m) # NULL /\ Home(h, m) = m /\ Reach(h, m, n)
        BY <3>1, <3>2, <1>11 DEF Housed
      <3>4. m # f
        BY <3>3, <1>1
      <3>5. QED
        BY <2>3, <3>1, <3>2, <3>3, <3>4, <1>6, <1>7, <1>10
    <2>4. QED
      BY <2>1, <2>2, <2>3
  <1>18. LiveFirst(g)
    <2>1. \A n \in Nodes(h) : g.node[n].dead => g.node[n].val = NULL
      BY <1>1, <1>4, <1>11 DEF LiveFirst
    <2>2. ASSUME NEW m \in Nodes(h), NEW n \in Nodes(h),
                 m # n, Alive(g, m), KeyOf(g, n) = KeyOf(g, m)
          PROVE  g.node[n].dead /\ Reach(g, m, n)
      <3>1. CASE m = mp \/ n = mp
        BY <2>2, <3>1, <1>1, <1>7, <1>13
      <3>2. CASE m = f /\ n # mp
        <4>1. n # f /\ KeyOf(h, n) = KeyOf(h, mp) /\ Alive(h, mp)
          BY <2>2, <3>2, <1>4, <1>7 DEF Alive
        <4>2. h.node[n].dead /\ Reach(h, mp, n)
          BY <4>1, <3>2, <1>1, <1>11 DEF LiveFirst
        <4>3. QED
          BY <4>1, <4>2, <3>2, <1>6, <1>14
      <3>3. CASE n = f /\ m # mp
        <4>1. m # f /\ KeyOf(h, m) = KeyOf(h, mp) /\ Alive(h, m)
          BY <2>2, <3>3, <1>7, <1>14 DEF Alive
        <4>2. h.node[mp].dead
          BY <4>1, <3>3, <1>1, <1>11 DEF LiveFirst
        <4>3. QED
          BY <4>2, <1>1, <1>11 DEF LiveFirst, Taken
      <3>4. CASE m # f /\ n # f /\ m # mp /\ n # mp
        <4>1. Alive(h, m) /\ KeyOf(h, n) = KeyOf(h, m)
          BY <2>2, <3>4, <1>7, <1>14 DEF Alive
        <4>2. h.node[n].dead /\ Reach(h, m, n)
          BY <4>1, <2>2, <1>11 DEF LiveFirst
        <4>3. QED
          BY <4>2, <3>4, <1>6, <1>14
      <3>5. QED
        BY <3>1, <3>2, <3>3, <3>4
    <2>3. QED
      BY <2>1, <2>2, <1>4 DEF LiveFirst
  <1>19. Placed(g)
    <2>1. \A n \in Nodes(h) : f <= n => KeyOf(g, n) # NULL
      BY <1>1, <1>7
    <2>2. \A n \in Nodes(h) : KeyOf(g, n) # NULL => ~inarray(g, KeyOf(g, n))
      BY <1>1, <1>7, <1>9, <1>11 DEF Placed, Taken
    <2>3. QED
      BY <2>1, <2>2, <1>4 DEF Placed, Taken
  <1>20. Remaps(h, g, k, v)
    <2>1. Maps(g, k, v)
      <3>1. ~inarray(g, k) /\ Holds(g, k, FALSE, mp) /\ g.node[mp].val = v
        BY <1>1, <1>4, <1>7, <1>9 DEF Holds, Taken
      <3>2. ASSUME NEW n \in Nodes(g), Holds(g, k, FALSE, n)
            PROVE  n = mp
        BY <3>2, <1>1, <1>4, <1>7, <1>13 DEF Holds
      <3>3. QED
        BY <3>1, <3>2, <1>1, <1>4 DEF Maps
    <2>2. ASSUME NEW x \in Key \ {k}, NEW y, Maps(h, x, y)
          PROVE  Maps(g, x, y)
      <3>1. x # NULL
        BY KeyFacts
      <3>2. /\ ~Holds(g, x, FALSE, mp) /\ ~Holds(h, x, FALSE, f)
            /\ Holds(g, x, FALSE, f) <=> Holds(h, x, FALSE, mp)
            /\ \A n \in Nodes(h) : n # f /\ n # mp =>
                 (Holds(g, x, FALSE, n) <=> Holds(h, x, FALSE, n))
        BY <3>1, <1>1, <1>4, <1>7, <1>14 DEF Holds
      <3>3. g.node[f].val = h.node[mp].val
        BY <1>4
      <3>4. inarray(g, x) => y = g.array[x.n]
        BY <2>2, <1>4, <1>9 DEF Maps
      <3>5. ASSUME ~inarray(g, x), NEW n \in Nodes(g), Holds(g, x, FALSE, n)
            PROVE  y = g.node[n].val
        <4>1. n \in Nodes(h) /\ ~inarray(h, x)
          BY <3>5, <1>4, <1>9
        <4>2. CASE n = f
          BY <4>1, <4>2, <3>2, <3>3, <3>5, <2>2, <1>1 DEF Maps
        <4>3. CASE n # f
          BY <4>1, <4>3, <3>2, <3>5, <2>2, <1>14 DEF Maps
        <4>4. QED
          BY <4>2, <4>3
      <3>6. ASSUME ~inarray(g, x), \A n \in Nodes(g) : ~Holds(g, x, FALSE, n)
            PROVE  y = NULL
        <4>1. \A n \in Nodes(h) : ~Holds(h, x, FALSE, n)
          BY <3>2, <3>6, <1>1, <1>4
        <4>2. QED
          BY <4>1, <3>6, <2>2, <1>9 DEF Maps
      <3>7. QED
        BY <3>4, <3>5, <3>6 DEF Maps
    <2>3. QED
      BY <2>1, <2>2 DEF Remaps
  <1>21. QED
    BY <1>4, <1>15, <1>16, <1>17, <1>18, <1>19, <1>20 DEF Tidy

-----------------------------------------------------------------------------
(* Assignments. *)

\* The array part holds nothing but what was stored under integer keys.
Indexed(h) == \A i \in DOMAIN h.array : h.array[i] # NULL => int(i) \in Key

\* A value changes, or a key without one is marked dead.
LEMMA EditTidy ==
  ASSUME NEW N \in Nat \ {0}, NEW h \in Tables(N), Tidy(h),
         NEW g, Nodes(g) = Nodes(h), DOMAIN g.array = DOMAIN h.array,
         g.dummy = h.dummy, g.lastfree = h.lastfree,
         \A n \in Nodes(h) : /\ g.node[n].key = h.node[n].key /\ g.node[n].next = h.node[n].next
                             /\ h.node[n].dead => g.node[n].dead
                             /\ g.node[n].dead => g.node[n].val = NULL
                             /\ h.node[n].key = NULL => g.node[n] = h.node[n]
  PROVE  Tidy(g)
  <1>1. \A m, n : Reach(g, m, n) <=> Reach(h, m, n)
    BY SameLinks
  <1>2. /\ \A n \in Nodes(h) : Step(g, n) = Step(h, n) /\ KeyOf(g, n) = KeyOf(h, n)
        /\ \A n \in Nodes(h) : g.node[n].next = h.node[n].next
    BY DEF Step, KeyOf
  <1>3. \A x : mainposition(g, x) = mainposition(h, x)
    BY DEF mainposition, sizenode, Nodes
  <1>4. \A x : inarray(g, x) <=> inarray(h, x)
    BY DEF inarray
  <1>5. FreeAreUnlinked(g)
    BY <1>2 DEF Tidy, FreeAreUnlinked, KeyOf
  <1>6. Chained(g)
    BY <1>1, <1>2 DEF Tidy, Chained
  <1>7. Housed(g)
    <2> SUFFICES ASSUME NEW n \in Nodes(h), KeyOf(g, n) # NULL
                 PROVE  /\ KeyOf(g, Home(g, n)) # NULL /\ Home(g, Home(g, n)) = Home(g, n)
                        /\ Reach(g, Home(g, n), n)
      BY DEF Housed
    <2>1. PICK m : m = Home(h, n)
      OBVIOUS
    <2>2. KeyOf(h, n) # NULL /\ Home(g, n) = m
      BY <2>1, <1>2, <1>3 DEF Home
    <2>3. KeyOf(h, m) # NULL /\ Home(h, m) = m /\ Reach(h, m, n)
      BY <2>1, <2>2 DEF Tidy, Housed
    <2>4. KeyOf(g, m) = KeyOf(h, m)
      <3>1. m \in Nodes(h)
        <4>1. KeyOf(h, n) \in Key
          BY <2>2 DEF KeyOf, Nodes, Tables, Node, Value
        <4>2. QED
          BY <4>1, <2>1, NodeFacts DEF Home, Tidy
      <3>2. QED
        BY <3>1, <1>2
    <2>5. QED
      BY <2>2, <2>3, <2>4, <1>1, <1>3 DEF Home
  <1>8. LiveFirst(g)
    <2>1. ASSUME NEW m \in Nodes(h), NEW n \in Nodes(h),
                 m # n, Alive(g, m), KeyOf(g, n) = KeyOf(g, m)
          PROVE  g.node[n].dead /\ Reach(g, m, n)
      <3>1. Alive(h, m) /\ KeyOf(h, n) = KeyOf(h, m)
        BY <2>1, <1>2 DEF Alive
      <3>2. h.node[n].dead /\ Reach(h, m, n)
        BY <3>1, <2>1 DEF Tidy, LiveFirst
      <3>3. QED
        BY <3>2, <1>1
    <2>2. QED
      BY <2>1 DEF LiveFirst
  <1>9. Placed(g)
    BY <1>2, <1>4 DEF Tidy, Placed
  <1>10. QED
    BY <1>5, <1>6, <1>7, <1>8, <1>9 DEF Tidy

\* An assignment to a slot of the array part.
LEMMA ArrayPut ==
  ASSUME NEW N \in Nat \ {0}, NEW h \in Tables(N), Tidy(h), Indexed(h),
         NEW k \in Key, NEW v \in Value, inarray(h, k),
         NEW g, g = [h EXCEPT !.array[k.n] = v]
  PROVE  g \in Tables(N) /\ Tidy(g) /\ Indexed(g) /\ Remaps(h, g, k, v)
  <1>1. k.tt = "int" /\ k.n \in DOMAIN h.array /\ int(k.n) = k /\ k.n \in Nat
    BY KeyFacts DEF inarray
  <1>2. PICK a : a = [h.array EXCEPT ![k.n] = v]
    OBVIOUS
  <1>3. h.array \in Seq(Value)
    BY DEF Tables
  <1>4. a \in Seq(Value) /\ DOMAIN a = DOMAIN h.array
    BY <1>1, <1>2, <1>3
  <1>5. a[k.n] = v /\ \A i \in DOMAIN h.array : i # k.n => a[i] = h.array[i]
    BY <1>1, <1>2
  <1>6. /\ g \in Tables(N) /\ g.node = h.node /\ g.array = a
        /\ g.dummy = h.dummy /\ g.lastfree = h.lastfree
    BY <1>2, <1>4 DEF Tables
  <1>7. Tidy(g)
    <2>1. Nodes(g) = Nodes(h) /\ DOMAIN g.array = DOMAIN h.array
      BY <1>4, <1>6 DEF Nodes
    <2>2. \A n \in Nodes(h) : h.node[n].dead => h.node[n].val = NULL
      BY DEF Tidy, LiveFirst
    <2>3. QED
      BY <1>6, <2>1, <2>2, EditTidy
  <1>8. Indexed(g)
    BY <1>1, <1>4, <1>5, <1>6 DEF Indexed
  <1>9. \A x : inarray(g, x) <=> inarray(h, x)
    BY <1>4, <1>6 DEF inarray
  <1>10. \A x, n : Holds(g, x, FALSE, n) <=> Holds(h, x, FALSE, n)
    BY <1>6 DEF Holds, KeyOf, Nodes
  <1>11. Maps(g, k, v)
    BY <1>5, <1>6, <1>9 DEF Maps
  <1>12. ASSUME NEW x \in Key \ {k}, NEW y, Maps(h, x, y)
         PROVE  Maps(g, x, y)
    <2>1. inarray(h, x) => x.n # k.n
      BY <1>1, KeyFacts DEF inarray
    <2>2. inarray(h, x) => g.array[x.n] = h.array[x.n]
      BY <2>1, <1>5, <1>6 DEF inarray
    <2>3. QED
      BY <2>2, <1>6, <1>9, <1>10, <1>12 DEF Maps, Nodes
  <1>13. QED
    BY <1>6, <1>7, <1>8, <1>11, <1>12 DEF Remaps

\* An assignment to the value of a live node.
LEMMA NodePut ==
  ASSUME NEW N \in Nat \ {0}, NEW h \in Tables(N), Tidy(h), Indexed(h),
         NEW k \in Key, NEW v \in Value, ~inarray(h, k), NEW m, Holds(h, k, FALSE, m),
         NEW g, g = [h EXCEPT !.node[m].val = v]
  PROVE  g \in Tables(N) /\ Tidy(g) /\ Indexed(g) /\ Remaps(h, g, k, v)
  <1>1. m \in Nodes(h) /\ KeyOf(h, m) = k /\ ~h.node[m].dead /\ k # NULL
    BY KeyFacts DEF Holds
  <1>2. h.node[m] \in Node /\ h.node \in [0 .. N - 1 -> Node] /\ Nodes(h) = 0 .. N - 1
    BY <1>1 DEF Tables, Nodes
  <1> DEFINE x == [h.node[m] EXCEPT !.val = v]
  <1>3. /\ x \in Node /\ x.val = v /\ x.key = k /\ x.dead = h.node[m].dead
        /\ x.next = h.node[m].next
    BY <1>1, <1>2 DEF Node, KeyOf
  <1>4. g = Put(h, m, x)
    BY <1>1, <1>2 DEF Put, Tables, Nodes
  <1> HIDE DEF x
  <1>5. /\ g \in Tables(N) /\ Nodes(g) = Nodes(h)
        /\ g.array = h.array /\ g.dummy = h.dummy /\ g.lastfree = h.lastfree
        /\ \A n \in Nodes(h) : n # m => g.node[n] = h.node[n]
        /\ g.node[m] = x
    <2>1. m \in Nodes(h) /\ x \in Node
      BY <1>1, <1>3
    <2>2. /\ Put(h, m, x) \in Tables(N) /\ Nodes(Put(h, m, x)) = Nodes(h)
          /\ Put(h, m, x).array = h.array /\ Put(h, m, x).dummy = h.dummy
          /\ Put(h, m, x).lastfree = h.lastfree
          /\ \A n \in Nodes(h) : n # m => Put(h, m, x).node[n] = h.node[n]
          /\ Put(h, m, x).node[m] = x
      BY <2>1, PutFacts
    <2>3. QED
      BY <2>2, <1>4
  <1>6. \A n \in Nodes(h) : h.node[n].dead => h.node[n].val = NULL
    BY DEF Tidy, LiveFirst
  <1>7. Tidy(g)
    <2>1. \A n \in Nodes(h) :
            /\ g.node[n].key = h.node[n].key /\ g.node[n].next = h.node[n].next
            /\ h.node[n].dead => g.node[n].dead
            /\ g.node[n].dead => g.node[n].val = NULL
            /\ h.node[n].key = NULL => g.node[n] = h.node[n]
      BY <1>1, <1>3, <1>5, <1>6 DEF KeyOf
    <2>2. QED
      BY <2>1, <1>5, EditTidy
  <1>8. Indexed(g)
    BY <1>5 DEF Indexed
  <1>9. \A z : inarray(g, z) <=> inarray(h, z)
    BY <1>5 DEF inarray
  <1>10. \A z, n : Holds(g, z, FALSE, n) <=> Holds(h, z, FALSE, n)
    BY <1>1, <1>3, <1>5 DEF Holds, KeyOf
  <1>11. Maps(g, k, v)
    <2>1. ASSUME NEW n \in Nodes(g), Holds(g, k, FALSE, n)
          PROVE  n = m
      <3>1. n \in Nodes(h) /\ KeyOf(h, n) = k /\ ~h.node[n].dead
        BY <2>1, <1>10 DEF Holds
      <3>2. QED
        BY <3>1, <1>1 DEF Tidy, LiveFirst, Alive
    <2>2. Holds(g, k, FALSE, m) /\ m \in Nodes(g)
      BY <1>1, <1>5, <1>10
    <2>3. QED
      BY <2>1, <2>2, <1>3, <1>5, <1>9 DEF Maps
  <1>12. ASSUME NEW z \in Key \ {k}, NEW y, Maps(h, z, y)
         PROVE  Maps(g, z, y)
    <2>1. ~Holds(g, z, FALSE, m)
      BY <1>1, <1>10 DEF Holds
    <2>2. QED
      BY <2>1, <1>5, <1>9, <1>10, <1>12 DEF Maps
  <1>13. QED
    BY <1>5, <1>7, <1>8, <1>11, <1>12 DEF Remaps

\* A key without a value is marked dead.
LEMMA DeadPut ==
  ASSUME NEW N \in Nat \ {0}, NEW h \in Tables(N), Tidy(h), Indexed(h),
         NEW m \in Nodes(h), h.node[m].val = NULL, h.node[m].key # NULL,
         NEW g, g = [h EXCEPT !.node[m].dead = TRUE]
  PROVE  /\ g \in Tables(N) /\ Tidy(g) /\ Indexed(g)
         /\ \A x \in Key : \A y : Maps(h, x, y) => Maps(g, x, y)
  <1>1. h.node[m] \in Node /\ h.node \in [0 .. N - 1 -> Node] /\ Nodes(h) = 0 .. N - 1
    BY DEF Tables, Nodes
  <1> DEFINE x == [h.node[m] EXCEPT !.dead = TRUE]
  <1>2. /\ x \in Node /\ x.val = NULL /\ x.key = h.node[m].key /\ x.dead
        /\ x.next = h.node[m].next
    BY <1>1 DEF Node
  <1>3. g = Put(h, m, x)
    BY <1>1 DEF Put, Tables, Nodes
  <1> HIDE DEF x
  <1>4. /\ g \in Tables(N) /\ Nodes(g) = Nodes(h)
        /\ g.array = h.array /\ g.dummy = h.dummy /\ g.lastfree = h.lastfree
        /\ \A n \in Nodes(h) : n # m => g.node[n] = h.node[n]
        /\ g.node[m] = x
    <2>1. x \in Node
      BY <1>2
    <2>2. /\ Put(h, m, x) \in Tables(N) /\ Nodes(Put(h, m, x)) = Nodes(h)
          /\ Put(h, m, x).array = h.array /\ Put(h, m, x).dummy = h.dummy
          /\ Put(h, m, x).lastfree = h.lastfree
          /\ \A n \in Nodes(h) : n # m => Put(h, m, x).node[n] = h.node[n]
          /\ Put(h, m, x).node[m] = x
      BY <2>1, PutFacts
    <2>3. QED
      BY <2>2, <1>3
  <1>5. \A n \in Nodes(h) : h.node[n].dead => h.node[n].val = NULL
    BY DEF Tidy, LiveFirst
  <1>6. Tidy(g)
    <2>1. \A n \in Nodes(h) :
            /\ g.node[n].key = h.node[n].key /\ g.node[n].next = h.node[n].next
            /\ h.node[n].dead => g.node[n].dead
            /\ g.node[n].dead => g.node[n].val = NULL
            /\ h.node[n].key = NULL => g.node[n] = h.node[n]
      BY <1>2, <1>4, <1>5
    <2>2. QED
      BY <2>1, <1>4, EditTidy
  <1>7. Indexed(g)
    BY <1>4 DEF Indexed
  <1>8. ASSUME NEW z \in Key, NEW y, Maps(h, z, y)
        PROVE  Maps(g, z, y)
    <2>1. inarray(g, z) <=> inarray(h, z)
      BY <1>4 DEF inarray
    <2>2. ~Holds(g, z, FALSE, m)
      BY <1>2, <1>4 DEF Holds
    <2>3. \A n \in Nodes(h) : n # m =>
            (Holds(g, z, FALSE, n) <=> Holds(h, z, FALSE, n)) /\ g.node[n].val = h.node[n].val
      BY <1>4 DEF Holds, KeyOf
    <2>4. Holds(h, z, FALSE, m) /\ ~inarray(h, z) => y = NULL
      BY <1>8 DEF Maps
    <2>5. inarray(g, z) => y = g.array[z.n]
      BY <2>1, <1>4, <1>8 DEF Maps
    <2>6. ASSUME ~inarray(g, z), NEW n \in Nodes(g), Holds(g, z, FALSE, n)
          PROVE  y = g.node[n].val
      <3>1. n \in Nodes(h) /\ n # m /\ Holds(h, z, FALSE, n) /\ g.node[n].val = h.node[n].val
        BY <2>2, <2>3, <2>6, <1>4
      <3>2. QED
        BY <3>1, <2>1, <2>6, <1>8 DEF Maps
    <2>7. ASSUME ~inarray(g, z), \A n \in Nodes(g) : ~Holds(g, z, FALSE, n)
          PROVE  y = NULL
      <3>1. CASE Holds(h, z, FALSE, m)
        BY <3>1, <2>1, <2>4, <2>7
      <3>2. CASE ~Holds(h, z, FALSE, m)
        <4>1. \A n \in Nodes(h) : ~Holds(h, z, FALSE, n)
          BY <3>2, <2>3, <2>7, <1>4
        <4>2. QED
          BY <4>1, <2>1, <2>7, <1>8 DEF Maps
      <3>3. QED
        BY <3>1, <3>2
    <2>8. QED
      BY <2>5, <2>6, <2>7 DEF Maps
  <1>9. QED
    BY <1>4, <1>6, <1>7, <1>8

\* What an assignment does: it changes the table unless it has to rehash.
Stores(N, h, k, v, rest, r) ==
  /\ r.todo = rest
  /\ r.t \in Tables(N) /\ Tidy(r.t) /\ Indexed(r.t) /\ Remaps(h, r.t, k, v)
Overflows(h, k, v, rest, r) ==
  /\ r = luaH_newkey(h, k, v, rest) /\ Full(h, k)
  /\ ~inarray(h, k) /\ \A n \in Nodes(h) : ~Holds(h, k, FALSE, n)

LEMMA PutTidy ==
  ASSUME NEW N \in Nat \ {0}, NEW h \in Tables(N), Tidy(h), Indexed(h),
         NEW given \in Given, NEW v \in Value, NEW rest,
         NEW k, k = normal(given), NEW r, r = luaH_put(h, given, v, rest)
  PROVE  Stores(N, h, k, v, rest, r) \/ Overflows(h, k, v, rest, r)
  <1>1. k \in Key
    BY GivenFacts
  <1>2. PICK m : m = search(h, k, FALSE)
    OBVIOUS
  <1>3. \/ m = NULL /\ \A n : ~Holds(h, k, FALSE, n)
        \/ Holds(h, k, FALSE, m) /\ m # NULL
    <2>1. FALSE \in BOOLEAN
      OBVIOUS
    <2>2. \/ m = NULL /\ \A n : ~Holds(h, k, FALSE, n)
          \/ Holds(h, k, FALSE, m)
      BY <1>1, <1>2, <2>1, SearchFacts
    <2>3. Holds(h, k, FALSE, m) => m \in Nat
      BY DEF Holds, Nodes, Tables
    <2>4. QED
      BY <2>2, <2>3, NullAssumption
  <1>4. r = IF inarray(h, k) THEN [t |-> [h EXCEPT !.array[k.n] = v], todo |-> rest]
            ELSE IF m # NULL THEN [t |-> [h EXCEPT !.node[m].val = v], todo |-> rest]
            ELSE luaH_newkey(h, k, v, rest)
    BY <1>2 DEF luaH_put
  <1>9. PICK g : g = r.t
    OBVIOUS
  <1>5. CASE inarray(h, k)
    <2>1. r.todo = rest /\ g = [h EXCEPT !.array[k.n] = v]
      BY <1>4, <1>5, <1>9
    <2>2. QED
      BY <2>1, <1>1, <1>5, <1>9, ArrayPut DEF Stores
  <1>6. CASE ~inarray(h, k) /\ m # NULL
    <2>1. r.todo = rest /\ g = [h EXCEPT !.node[m].val = v]
      BY <1>4, <1>6, <1>9
    <2>2. QED
      <3>1. Holds(h, k, FALSE, m) /\ ~inarray(h, k)
        BY <1>3, <1>6
      <3>2. g \in Tables(N) /\ Tidy(g) /\ Indexed(g) /\ Remaps(h, g, k, v)
        BY <2>1, <3>1, <1>1, NodePut
      <3>3. QED
        BY <2>1, <3>2, <1>9 DEF Stores
  <1>7. CASE ~inarray(h, k) /\ m = NULL
    <2>1. (\A n \in Nodes(h) : ~Holds(h, k, FALSE, n)) /\ r = luaH_newkey(h, k, v, rest)
      BY <1>3, <1>4, <1>7
    <2>2. PICK mp : mp = mainposition(h, k)
      OBVIOUS
    <2>3. PICK f : f = freeposition(h)
      OBVIOUS
    <2>4. PICK o : o = Home(h, mp)
      OBVIOUS
    <2>5. CASE Full(h, k)
      BY <2>1, <2>5, <1>7 DEF Overflows
    <2>6. CASE ~Full(h, k)
      <3>1. r.todo = rest
        BY <2>1, <2>6 DEF luaH_newkey
      <3>2. g = IF h.node[mp].val = NULL /\ ~h.dummy THEN Fill(h, mp, k, v)
                  ELSE IF o # mp THEN Fill(movecolliding(getfreepos(h), mp, f, o), mp, k, v)
                  ELSE Fill(chainfree(getfreepos(h), mp, f), f, k, v)
        BY <1>9, <2>1, <2>2, <2>3, <2>4, <2>6 DEF luaH_newkey, Home, KeyOf
      <3>3. mp \in Nodes(h)
        BY <1>1, <2>2, NodeFacts DEF Tidy
      <3>4. CASE h.node[mp].val = NULL /\ ~h.dummy
        <4>1. g = Fill(h, mp, k, v)
          BY <3>2, <3>4
        <4>6. /\ ~inarray(h, k) /\ ~h.dummy /\ h.node[mp].val = NULL
              /\ \A n \in Nodes(h) : ~Holds(h, k, FALSE, n)
          BY <3>4, <2>1, <1>7
        <4>2. /\ g \in Tables(N) /\ Tidy(g) /\ g.array = h.array
              /\ KeyOf(g, mp) = k /\ ~g.node[mp].dead /\ g.node[mp].val = v
              /\ \A n \in Nodes(h) : n # mp => g.node[n] = h.node[n]
          <5>1. Vacant(N, h, k, mp)
            BY <4>6, <2>2 DEF Vacant
          <5>2. QED
            BY <4>1, <5>1, <1>1, FillTidy
        <4>3. Nodes(g) = Nodes(h)
          BY <4>2 DEF Nodes, Tables
        <4>4. Remaps(h, g, k, v)
          BY <4>2, <4>3, <4>6, <3>3, <1>1, FillMaps
        <4>5. QED
          BY <1>9, <3>1, <4>2, <4>4 DEF Indexed, Stores
      <3>5. CASE ~(h.node[mp].val = NULL /\ ~h.dummy)
        <4>1. f # NULL
          BY <2>2, <2>3, <2>6, <3>5 DEF Full
        <4>2. ~h.dummy
          BY <4>1, <2>3, FreePosition
        <4>3. Taken(N, h, k, mp, f)
          BY <4>1, <4>2, <3>5, <2>1, <2>2, <2>3, <1>7 DEF Taken
        <4>4. CASE o # mp
          <5>1. g = Fill(movecolliding(getfreepos(h), mp, f, o), mp, k, v)
            BY <3>2, <3>5, <4>4
          <5>2. g \in Tables(N) /\ Tidy(g) /\ Remaps(h, g, k, v) /\ g.array = h.array
            BY <5>1, <4>3, <4>4, <2>4, <1>1, MoveTidy
          <5>3. QED
            BY <1>9, <5>2, <3>1 DEF Indexed, Stores
        <4>5. CASE o = mp
          <5>1. g = Fill(chainfree(getfreepos(h), mp, f), f, k, v)
            BY <3>2, <3>5, <4>5
          <5>4. Home(h, mp) = mp
            BY <4>5, <2>4
          <5>2. g \in Tables(N) /\ Tidy(g) /\ Remaps(h, g, k, v) /\ g.array = h.array
            BY <5>1, <5>4, <4>3, <1>1, ChainTidy
          <5>3. QED
            BY <1>9, <5>2, <3>1 DEF Indexed, Stores
        <4>6. QED
          BY <4>4, <4>5
      <3>6. QED
        BY <3>4, <3>5
    <2>7. QED
      BY <2>5, <2>6
  <1>8. QED
    BY <1>5, <1>6, <1>7

-----------------------------------------------------------------------------
(* Resizing. *)

Kept(h, na) == [i \in 1 .. na |-> IF i <= Len(h.array) THEN h.array[i] ELSE NULL]

\* g has M free nodes, at least nh, and of the array part of h what fits in na.
Fresh(h, na, nh, g, M) ==
  /\ g \in Tables(M) /\ Tidy(g) /\ Indexed(g) /\ g.array = Kept(h, na)
  /\ \A n \in Nodes(g) : g.node[n] = Free
  /\ g.dummy = (nh = 0) /\ g.lastfree = (IF nh = 0 THEN 0 ELSE M) /\ nh <= M

\* The new vectors: the array part keeps what it has room for, the nodes are
\* free and as many as are asked for, or more.
LEMMA FreshTable ==
  ASSUME NEW N \in Nat \ {0}, NEW h \in Tables(N), Indexed(h), NEW na \in Nat, NEW nh \in Nat,
         NEW g, g = setnodevector(setarrayvector(h, na), nh)
  PROVE  \E M \in Nat \ {0} : Fresh(h, na, nh, g, M)
  <1>1. h.array \in Seq(Value) /\ Len(h.array) \in Nat /\ DOMAIN h.array = 1 .. Len(h.array)
    BY DEF Tables
  <1>2. PICK a : a = Kept(h, na)
    OBVIOUS
  <1>3. /\ a \in Seq(Value) /\ DOMAIN a = 1 .. na
        /\ \A i \in 1 .. na : a[i] = IF i <= Len(h.array) THEN h.array[i] ELSE NULL
    <2>1. \A i \in 1 .. na : (IF i <= Len(h.array) THEN h.array[i] ELSE NULL) \in Value
      <3> SUFFICES ASSUME NEW i \in 1 .. na
                   PROVE  (IF i <= Len(h.array) THEN h.array[i] ELSE NULL) \in Value
        OBVIOUS
      <3>1. i <= Len(h.array) => h.array[i] \in Value
        BY <1>1
      <3>2. QED
        BY <3>1 DEF Value
    <2>2. QED
      BY <1>2, <2>1 DEF Kept
  <1>4. PICK b : b = setarrayvector(h, na)
    OBVIOUS
  <1>5. /\ b \in Tables(N) /\ b.array = a /\ b.node = h.node /\ b.dummy = h.dummy
        /\ b.lastfree = h.lastfree
    BY <1>2, <1>3, <1>4 DEF setarrayvector, Kept, Tables
  <1>6. PICK M \in Nat \ {0} : M = IF nh = 0 THEN 1 ELSE twoto[luaO_ceillog2(nh)]
    <2>1. luaO_ceillog2(nh) \in Nat
      BY CeilLog
    <2>2. twoto[luaO_ceillog2(nh)] \in Nat /\ luaO_ceillog2(nh) < twoto[luaO_ceillog2(nh)]
      BY <2>1, Powers
    <2>3. QED
      BY <2>1, <2>2
  <1>7. nh <= M
    BY <1>6, CeilLog
  <1>8. Free \in Node /\ Free.key = NULL /\ Free.next = 0 /\ Free.dead = FALSE /\ Free.val = NULL
    BY DEF Free, Node, Value
  <1>9. PICK nodes : nodes = [i \in 0 .. M - 1 |-> Free]
    OBVIOUS
  <1>10. g = IF nh = 0 THEN [b EXCEPT !.node = nodes, !.dummy = TRUE, !.lastfree = 0]
             ELSE [b EXCEPT !.node = nodes, !.dummy = FALSE, !.lastfree = M]
    <2>1. CASE nh = 0
      <3>1. 0 .. M - 1 = {0}
        BY <1>6, <2>1
      <3>2. nodes = dummynode.node
        BY <3>1, <1>9 DEF dummynode
      <3>3. QED
        BY <3>2, <2>1, <1>4 DEF setnodevector
    <2>2. CASE nh # 0
      BY <2>2, <1>4, <1>6, <1>9 DEF setnodevector
    <2>3. QED
      BY <2>1, <2>2
  <1>11. nodes \in [0 .. M - 1 -> Node]
    BY <1>8, <1>9
  <1>12. /\ g \in Tables(M) /\ g.array = a /\ g.node = nodes
         /\ g.dummy = (nh = 0) /\ g.lastfree = (IF nh = 0 THEN 0 ELSE M)
    <2>1. CASE nh = 0
      <3>1. 0 \in 0 .. M /\ TRUE \in BOOLEAN
        BY <1>6
      <3>2. g = [b EXCEPT !.node = nodes, !.dummy = TRUE, !.lastfree = 0]
        BY <2>1, <1>10
      <3>3. QED
        BY <2>1, <3>1, <3>2, <1>3, <1>5, <1>11 DEF Tables
    <2>2. CASE nh # 0
      <3>1. M \in 0 .. M /\ FALSE \in BOOLEAN
        BY <1>6
      <3>2. g = [b EXCEPT !.node = nodes, !.dummy = FALSE, !.lastfree = M]
        BY <2>2, <1>10
      <3>3. QED
        BY <2>2, <3>1, <3>2, <1>3, <1>5, <1>11 DEF Tables
    <2>3. QED
      BY <2>1, <2>2
  <1>13. /\ Nodes(g) = 0 .. M - 1
         /\ \A n \in Nodes(g) : g.node[n] = Free /\ KeyOf(g, n) = NULL /\ Step(g, n) = n
    <2>1. Nodes(g) = 0 .. M - 1 /\ \A n \in 0 .. M - 1 : g.node[n] = Free
      BY <1>9, <1>12 DEF Nodes
    <2>2. QED
      BY <2>1, <1>8 DEF KeyOf, Step
  <1>14. Tidy(g)
    <2>1. FreeAreUnlinked(g) /\ Housed(g)
      BY <1>8, <1>13 DEF FreeAreUnlinked, Housed
    <2>2. Chained(g)
      <3>1. \A n \in Nodes(g) : g.node[n].next = 0
        BY <1>8, <1>13
      <3>2. ASSUME NEW m \in Nodes(g), NEW n \in Nodes(g), Reach(g, m, n)
            PROVE  m = n
        <4>1. Closed(g, {m}) /\ {m} \in SUBSET DOMAIN g.node
          BY <1>13 DEF Closed, Nodes
        <4>2. QED
          BY <4>1, <3>2 DEF Reach
      <3>3. QED
        BY <3>1, <3>2 DEF Chained
    <2>3. LiveFirst(g)
      BY <1>8, <1>13 DEF LiveFirst, Alive
    <2>4. Placed(g)
      <3>1. \A n \in Nodes(g) : ~(M <= n)
        BY <1>6, <1>13
      <3>2. QED
        BY <3>1, <1>12, <1>13 DEF Placed
    <2>5. QED
      BY <2>1, <2>2, <2>3, <2>4 DEF Tidy
  <1>15. Indexed(g)
    BY <1>1, <1>3, <1>12 DEF Indexed
  <1>16. QED
    BY <1>2, <1>7, <1>12, <1>13, <1>14, <1>15 DEF Fresh

\* What is still to be inserted.
Entries == [key : Value, val : Value]
Has(s, x, v) == \E i \in DOMAIN s : s[i].key = x /\ s[i].val = v
Distinct(s) == \A i, j \in DOMAIN s : s[i].key # NULL /\ s[i].key = s[j].key => i = j

\* The elements of the array part beyond na and those of the nodes, in the
\* order in which they are inserted.
Vanishing(h, na) == [i \in 1 .. sizearray(h) - na |-> Entry(int(na + i), h.array[na + i])]
Old(h) == [j \in 1 .. sizenode(h) |-> Entry(h.node[sizenode(h) - j].key, h.node[sizenode(h) - j].val)]

LEMMA VanishingFacts ==
  ASSUME NEW N \in Nat \ {0}, NEW h \in Tables(N), Indexed(h), NEW na \in Nat
  PROVE  /\ Vanishing(h, na) \in Seq(Entries) /\ Distinct(Vanishing(h, na))
         /\ \A x \in Key : \A v : Has(Vanishing(h, na), x, v) <=>
              inarray(h, x) /\ na < x.n /\ v = h.array[x.n] /\ v # NULL
  <1>1. h.array \in Seq(Value) /\ Len(h.array) \in Nat /\ DOMAIN h.array = 1 .. Len(h.array)
    BY DEF Tables
  <1>10. PICK len \in Nat : len = Len(h.array)
    BY <1>1
  <1>2. PICK d \in Nat : d = IF len <= na THEN 0 ELSE len - na
    OBVIOUS
  <1>3. PICK s : s = Vanishing(h, na)
    OBVIOUS
  <1>4. s = [i \in 1 .. d |-> Entry(int(na + i), h.array[na + i])]
    <2>1. 1 .. sizearray(h) - na = 1 .. d
      BY <1>1, <1>10, <1>2 DEF sizearray
    <2>2. QED
      BY <2>1, <1>3 DEF Vanishing
  <1>5. ASSUME NEW i \in 1 .. d
        PROVE  /\ na + i \in DOMAIN h.array /\ h.array[na + i] \in Value /\ s[i] \in Entries
               /\ s[i].val = h.array[na + i]
               /\ s[i].key = IF h.array[na + i] = NULL THEN NULL ELSE int(na + i)
    <2>1. na + i \in DOMAIN h.array
      BY <1>1, <1>10, <1>2
    <2>2. h.array[na + i] \in Value
      BY <1>1, <2>1
    <2>3. h.array[na + i] # NULL => int(na + i) \in Key
      BY <2>1 DEF Indexed
    <2>4. s[i] = Entry(int(na + i), h.array[na + i])
      BY <1>4
    <2>5. QED
      BY <2>1, <2>2, <2>3, <2>4 DEF Entry, Entries, Value
  <1>6. s \in Seq(Entries) /\ DOMAIN s = 1 .. d
    <2>1. s \in [1 .. d -> Entries]
      BY <1>4, <1>5
    <2>2. QED
      BY <2>1
  <1>7. Distinct(s)
    <2> SUFFICES ASSUME NEW i \in 1 .. d, NEW j \in 1 .. d, s[i].key # NULL, s[i].key = s[j].key
                 PROVE  i = j
      BY <1>6 DEF Distinct
    <2>1. s[i].key = int(na + i) /\ s[j].key = int(na + j)
      BY <1>5
    <2>2. int(na + i).n = na + i /\ int(na + j).n = na + j
      BY DEF int
    <2>3. na + i = na + j
      BY <2>1, <2>2
    <2>4. QED
      BY <2>3
  <1>8. ASSUME NEW x \in Key, NEW v
        PROVE  Has(s, x, v) <=> inarray(h, x) /\ na < x.n /\ v = h.array[x.n] /\ v # NULL
    <2>1. x # NULL /\ x.n \in Nat /\ (x.tt = "int" => x = int(x.n))
      BY KeyFacts
    <2>2. ASSUME NEW i \in 1 .. d, s[i].key = x, s[i].val = v
          PROVE  inarray(h, x) /\ na < x.n /\ v = h.array[x.n] /\ v # NULL
      <3>1. x = int(na + i) /\ v = h.array[na + i] /\ v # NULL /\ na + i \in DOMAIN h.array
        BY <2>1, <2>2, <1>5
      <3>2. x.tt = "int" /\ x.n = na + i
        BY <3>1 DEF int
      <3>3. QED
        BY <3>1, <3>2 DEF inarray
    <2>3. ASSUME inarray(h, x), na < x.n, v = h.array[x.n], v # NULL
          PROVE  Has(s, x, v)
      <3>1. x = int(x.n) /\ x.n \in 1 .. Len(h.array)
        BY <2>1, <2>3, <1>1 DEF inarray
      <3>2. x.n - na \in 1 .. d /\ na + (x.n - na) = x.n
        BY <2>1, <2>3, <3>1, <1>10, <1>2
      <3>3. s[x.n - na].val = v /\ s[x.n - na].key = x
        BY <3>1, <3>2, <2>3, <1>5
      <3>4. QED
        BY <3>2, <3>3, <1>6 DEF Has
    <2>4. QED
      BY <2>2, <2>3, <1>6 DEF Has
  <1>9. QED
    BY <1>3, <1>6, <1>7, <1>8

LEMMA OldFacts ==
  ASSUME NEW N \in Nat \ {0}, NEW h \in Tables(N), Tidy(h)
  PROVE  /\ Old(h) \in Seq(Entries) /\ Distinct(Old(h))
         /\ \A x \in Key : \A v : Has(Old(h), x, v) <=>
              \E n \in Nodes(h) : Holds(h, x, FALSE, n) /\ v = h.node[n].val /\ v # NULL
  <1>1. Nodes(h) = 0 .. N - 1 /\ sizenode(h) = N /\ \A n \in 0 .. N - 1 : h.node[n] \in Node
    BY NodeFacts DEF Tidy
  <1>2. PICK s : s = Old(h)
    OBVIOUS
  <1>3. s = [j \in 1 .. N |-> Entry(h.node[N - j].key, h.node[N - j].val)]
    BY <1>1, <1>2 DEF Old
  <1>4. ASSUME NEW j \in 1 .. N
        PROVE  /\ N - j \in Nodes(h) /\ s[j] \in Entries /\ s[j].val = h.node[N - j].val
               /\ s[j].key = IF h.node[N - j].val = NULL THEN NULL ELSE KeyOf(h, N - j)
    <2>1. N - j \in Nodes(h) /\ h.node[N - j] \in Node
      BY <1>1
    <2>2. s[j] = Entry(h.node[N - j].key, h.node[N - j].val)
      BY <1>3
    <2>3. QED
      BY <2>1, <2>2 DEF Entry, Entries, Value, Node, KeyOf
  <1>5. s \in Seq(Entries) /\ DOMAIN s = 1 .. N
    <2>1. s \in [1 .. N -> Entries] /\ N \in Nat
      BY <1>3, <1>4
    <2>2. QED
      BY <2>1
  <1>6. \A n \in Nodes(h) : h.node[n].val # NULL => ~h.node[n].dead
    BY DEF Tidy, LiveFirst
  <1>7. Distinct(s)
    <2> SUFFICES ASSUME NEW i \in 1 .. N, NEW j \in 1 .. N, s[i].key # NULL, s[i].key = s[j].key
                 PROVE  i = j
      BY <1>5 DEF Distinct
    <2>1. PICK m \in Nodes(h), n \in Nodes(h) : m = N - i /\ n = N - j
      BY <1>4
    <2>2. /\ h.node[m].val # NULL /\ h.node[n].val # NULL
          /\ KeyOf(h, m) = KeyOf(h, n) /\ KeyOf(h, m) # NULL
      BY <2>1, <1>4
    <2>3. Alive(h, m) /\ ~h.node[n].dead
      BY <2>2, <1>6 DEF Alive
    <2>4. m = n
      BY <2>2, <2>3 DEF Tidy, LiveFirst
    <2>5. QED
      BY <2>1, <2>4
  <1>8. ASSUME NEW x \in Key, NEW v
        PROVE  Has(s, x, v) <=>
                 \E n \in Nodes(h) : Holds(h, x, FALSE, n) /\ v = h.node[n].val /\ v # NULL
    <2>1. x # NULL
      BY KeyFacts
    <2>2. ASSUME NEW j \in 1 .. N, s[j].key = x, s[j].val = v
          PROVE  \E n \in Nodes(h) : Holds(h, x, FALSE, n) /\ v = h.node[n].val /\ v # NULL
      <3>1. PICK n \in Nodes(h) : n = N - j
        BY <1>4
      <3>2. KeyOf(h, n) = x /\ v = h.node[n].val /\ v # NULL
        BY <2>1, <2>2, <3>1, <1>4
      <3>3. QED
        BY <3>2, <1>6 DEF Holds
    <2>3. ASSUME NEW n \in Nodes(h), Holds(h, x, FALSE, n), v = h.node[n].val, v # NULL
          PROVE  Has(s, x, v)
      <3>1. N - n \in 1 .. N /\ N - (N - n) = n
        BY <1>1
      <3>2. s[N - n].key = x /\ s[N - n].val = v
        BY <2>3, <3>1, <1>4 DEF Holds
      <3>3. QED
        BY <3>1, <3>2, <1>5 DEF Has
    <2>4. QED
      BY <2>2, <2>3, <1>5 DEF Has
  <1>9. QED
    BY <1>2, <1>5, <1>7, <1>8

\* c is a followed by b.
Joins(a, b, c, m, n) ==
  /\ DOMAIN a = 1 .. m /\ DOMAIN b = 1 .. n /\ DOMAIN c = 1 .. m + n
  /\ \A i \in 1 .. m : c[i] = a[i]
  /\ \A i \in m + 1 .. m + n : c[i] = b[i - m]

LEMMA JoinFacts ==
  ASSUME NEW a, NEW b, NEW c, NEW m \in Nat, NEW n \in Nat, Joins(a, b, c, m, n)
  PROVE  /\ \A x, v : Has(c, x, v) <=> Has(a, x, v) \/ Has(b, x, v)
         /\ Distinct(a) /\ Distinct(b) /\ (\A x, v, w : Has(a, x, v) /\ Has(b, x, w) => x = NULL)
              => Distinct(c)
  <1>1. \A i \in 1 .. m + n : i \in 1 .. m \/ (i \in m + 1 .. m + n /\ i - m \in 1 .. n)
    OBVIOUS
  <1>2. ASSUME NEW x, NEW v
        PROVE  Has(c, x, v) <=> Has(a, x, v) \/ Has(b, x, v)
    <2>1. Has(c, x, v) => Has(a, x, v) \/ Has(b, x, v)
      BY <1>1 DEF Has, Joins
    <2>2. Has(a, x, v) => Has(c, x, v)
      <3> SUFFICES ASSUME NEW i \in 1 .. m, a[i].key = x, a[i].val = v
                   PROVE  Has(c, x, v)
        BY DEF Has, Joins
      <3>1. i \in 1 .. m + n /\ c[i] = a[i]
        BY DEF Joins
      <3>2. QED
        BY <3>1 DEF Has, Joins
    <2>3. Has(b, x, v) => Has(c, x, v)
      <3> SUFFICES ASSUME NEW i \in 1 .. n, b[i].key = x, b[i].val = v
                   PROVE  Has(c, x, v)
        BY DEF Has, Joins
      <3>1. PICK j \in m + 1 .. m + n : j - m = i
        <4>1. m + i \in m + 1 .. m + n /\ m + i - m = i
          OBVIOUS
        <4>2. QED
          BY <4>1
      <3>2. j \in 1 .. m + n /\ c[j] = b[i]
        BY <3>1 DEF Joins
      <3>3. QED
        BY <3>2 DEF Has, Joins
    <2>4. QED
      BY <2>1, <2>2, <2>3
  <1>3. ASSUME Distinct(a), Distinct(b), \A x, v, w : Has(a, x, v) /\ Has(b, x, w) => x = NULL
        PROVE  Distinct(c)
    <2> SUFFICES ASSUME NEW i \in 1 .. m + n, NEW j \in 1 .. m + n,
                        c[i].key # NULL, c[i].key = c[j].key
                 PROVE  i = j
      BY DEF Distinct, Joins
    <2>1. CASE i \in 1 .. m /\ j \in 1 .. m
      BY <2>1, <1>3 DEF Distinct, Joins
    <2>2. CASE i \in m + 1 .. m + n /\ j \in m + 1 .. m + n
      <3>1. i - m \in 1 .. n /\ j - m \in 1 .. n
        BY <2>2
      <3>2. b[i - m].key # NULL /\ b[i - m].key = b[j - m].key
        BY <2>2 DEF Joins
      <3>3. i - m = j - m
        BY <3>1, <3>2, <1>3 DEF Distinct, Joins
      <3>4. QED
        BY <3>3, <2>2
    <2>3. ASSUME NEW p \in 1 .. m, NEW q \in m + 1 .. m + n,
                 c[p].key # NULL, c[p].key = c[q].key
          PROVE  FALSE
      <3>1. q - m \in 1 .. n
        OBVIOUS
      <3>2. Has(a, c[p].key, a[p].val)
        BY DEF Has, Joins
      <3>3. Has(b, c[p].key, b[q - m].val)
        BY <3>1, <2>3 DEF Has, Joins
      <3>4. QED
        BY <3>2, <3>3, <1>3, <2>3
    <2>4. QED
      BY <2>1, <2>2, <2>3, <1>1
  <1>4. QED
    BY <1>2, <1>3

LEMMA ConcatFacts ==
  ASSUME NEW a \in Seq(Entries), NEW b \in Seq(Entries), Distinct(a), Distinct(b),
         \A x \in Key : \A v, w : ~(Has(a, x, v) /\ Has(b, x, w))
  PROVE  /\ a \o b \in Seq(Entries) /\ Distinct(a \o b)
         /\ \A x, v : Has(a \o b, x, v) <=> Has(a, x, v) \/ Has(b, x, v)
  <1>1. PICK c : c = a \o b
    OBVIOUS
  <1>2. PICK m \in Nat, n \in Nat : m = Len(a) /\ n = Len(b)
    OBVIOUS
  <1>3. Joins(a, b, c, m, n) /\ c \in Seq(Entries)
    BY <1>1, <1>2 DEF Joins
  <1>4. ASSUME NEW x, NEW v, NEW w, Has(a, x, v), Has(b, x, w)
        PROVE  x = NULL
    <2>1. PICK i \in DOMAIN a : a[i].key = x
      BY <1>4 DEF Has
    <2>2. x \in Value
      <3>1. a[i] \in Entries
        OBVIOUS
      <3>2. QED
        BY <2>1, <3>1 DEF Entries
    <2>3. QED
      BY <2>2, <1>4 DEF Value
  <1>5. QED
    BY <1>1, <1>3, <1>4, JoinFacts

-----------------------------------------------------------------------------
(* Counting. *)

\* There are no more values of a function than arguments.
LEMMA ImageFacts ==
  ASSUME NEW S, IsFiniteSet(S), NEW f, DOMAIN f = S, NEW T, T = {f[x] : x \in S}
  PROVE  IsFiniteSet(T) /\ Cardinality(T) <= Cardinality(S)
  <1>1. [x \in S |-> f[x]] \in Surjection(S, T)
    BY DEF Surjection
  <1>2. QED
    BY <1>1, FS_Surjection

UsedSlots(h) == {j \in DOMAIN h.array : h.array[j] # NULL}

\* The keys that a rehash counts.
Every(h, ek) == {int(i) : i \in UsedSlots(h)} \cup {h.node[n].key : n \in Used(h)} \cup {ek}

LEMMA EveryFacts ==
  ASSUME NEW N \in Nat \ {0}, NEW h \in Tables(N), Tidy(h), NEW ek
  PROVE  /\ IsFiniteSet(UsedSlots(h)) /\ IsFiniteSet(Used(h))
         /\ Cardinality(UsedSlots(h)) \in Nat /\ Cardinality(Used(h)) \in Nat
         /\ totaluse(h) = Cardinality(UsedSlots(h)) + Cardinality(Used(h)) + 1
         /\ IsFiniteSet(Every(h, ek)) /\ Cardinality(Every(h, ek)) \in Nat
         /\ Cardinality(Every(h, ek)) <= totaluse(h)
  <1>1. IsFiniteSet(UsedSlots(h)) /\ IsFiniteSet(Used(h))
    <2>1. Nodes(h) = 0 .. N - 1 /\ DOMAIN h.array = 1 .. Len(h.array) /\ Len(h.array) \in Nat
      BY NodeFacts DEF Tidy, Tables
    <2>2. PICK len \in Int, z \in Int, o \in Int, l \in Int :
            len = Len(h.array) /\ z = 0 /\ o = 1 /\ l = N - 1
      BY <2>1
    <2>3. IsFiniteSet(o .. len) /\ IsFiniteSet(z .. l)
      BY FS_Interval
    <2>4. UsedSlots(h) \in SUBSET (o .. len) /\ Used(h) \in SUBSET (z .. l)
      BY <2>1, <2>2 DEF UsedSlots, Used, Nodes
    <2>5. QED
      BY <2>3, <2>4, FS_Subset
  <1>2. Cardinality(UsedSlots(h)) \in Nat /\ Cardinality(Used(h)) \in Nat
    BY <1>1, FS_CardinalityType
  <1>3. totaluse(h) = Cardinality(UsedSlots(h)) + Cardinality(Used(h)) + 1
    BY DEF totaluse, UsedSlots
  <1> DEFINE A == {int(i) : i \in UsedSlots(h)}
             B == {h.node[n].key : n \in Used(h)}
  <1>4. IsFiniteSet(A) /\ Cardinality(A) <= Cardinality(UsedSlots(h))
    <2> DEFINE f == [i \in UsedSlots(h) |-> int(i)]
    <2>1. DOMAIN f = UsedSlots(h) /\ A = {f[i] : i \in UsedSlots(h)}
      OBVIOUS
    <2>2. QED
      <3> HIDE DEF f, A
      <3> QED
        BY <1>1, <2>1, ImageFacts
  <1>5. IsFiniteSet(B) /\ Cardinality(B) <= Cardinality(Used(h))
    <2> DEFINE f == [n \in Used(h) |-> h.node[n].key]
    <2>1. DOMAIN f = Used(h) /\ B = {f[i] : i \in Used(h)}
      OBVIOUS
    <2>2. QED
      <3> HIDE DEF f, B
      <3> QED
        BY <1>1, <2>1, ImageFacts
  <1>6. PICK U : U = A \cup B \cup {ek}
    OBVIOUS
  <1>7. U = Every(h, ek)
    BY <1>6 DEF Every
  <1> HIDE DEF A, B
  <1>8. IsFiniteSet(U) /\ Cardinality(U) <= totaluse(h)
    <2>1. /\ IsFiniteSet(A \cup B)
          /\ Cardinality(A \cup B) = Cardinality(A) + Cardinality(B) - Cardinality(A \cap B)
      BY <1>4, <1>5, FS_Union
    <2>2. IsFiniteSet(A \cap B)
      BY <1>4, FS_Intersection
    <2>3. Cardinality(A) \in Nat /\ Cardinality(B) \in Nat /\ Cardinality(A \cap B) \in Nat
      BY <1>4, <1>5, <2>2, FS_CardinalityType
    <2>4. /\ IsFiniteSet(U)
          /\ Cardinality(U) = Cardinality(A \cup B) \/ Cardinality(U) = Cardinality(A \cup B) + 1
      BY <2>1, <1>6, FS_AddElement
    <2>5. QED
      BY <1>2, <1>3, <1>4, <1>5, <2>1, <2>3, <2>4
  <1>9. Cardinality(U) \in Nat
    BY <1>8, FS_CardinalityType
  <1>10. QED
    BY <1>1, <1>2, <1>3, <1>7, <1>8, <1>9

LEMMA CandidateFacts ==
  ASSUME NEW N \in Nat \ {0}, NEW h \in Tables(N), Tidy(h), NEW ek
  PROVE  /\ IsFiniteSet(Candidates(h, ek)) /\ Cardinality(Candidates(h, ek)) \in Nat
         /\ IsFiniteSet(UsedSlots(h)) /\ IsFiniteSet(Used(h))
         /\ Cardinality(UsedSlots(h)) \in Nat /\ Cardinality(Used(h)) \in Nat
         /\ totaluse(h) = Cardinality(UsedSlots(h)) + Cardinality(Used(h)) + 1
         /\ Cardinality(Candidates(h, ek)) <= totaluse(h)
         /\ \A k \in Candidates(h, ek) : k.tt = "int" /\ k.n \in 1 .. twoto[MAXABITS]
  <1>1. PICK U : U = Every(h, ek)
    OBVIOUS
  <1>2. /\ IsFiniteSet(UsedSlots(h)) /\ IsFiniteSet(Used(h))
        /\ Cardinality(UsedSlots(h)) \in Nat /\ Cardinality(Used(h)) \in Nat
        /\ totaluse(h) = Cardinality(UsedSlots(h)) + Cardinality(Used(h)) + 1
        /\ IsFiniteSet(U) /\ Cardinality(U) \in Nat /\ Cardinality(U) <= totaluse(h)
    BY <1>1, EveryFacts
  <1>3. Candidates(h, ek) = {k \in U : k.tt = "int" /\ k.n \in 1 .. twoto[MAXABITS]}
    BY <1>1 DEF Candidates, Every, UsedSlots
  <1>4. /\ IsFiniteSet(Candidates(h, ek))
        /\ Cardinality(Candidates(h, ek)) <= Cardinality(U)
    <2>1. Candidates(h, ek) \in SUBSET U
      BY <1>3
    <2>2. QED
      BY <2>1, <1>2, FS_Subset
  <1>5. Cardinality(Candidates(h, ek)) \in Nat
    BY <1>4, FS_CardinalityType
  <1>6. Cardinality(Candidates(h, ek)) <= totaluse(h)
    BY <1>2, <1>4, <1>5
  <1>7. QED
    BY <1>2, <1>3, <1>4, <1>5, <1>6

\* A set of the integer keys that an array part could hold.
Integral(C) == IsFiniteSet(C) /\ \A k \in C : k = int(k.n) /\ k.n \in 1 .. twoto[MAXABITS]
UpTo(C, i) == {k \in C : k.n <= twoto[i]}
Slice(C, i) == {k \in C : luaO_ceillog2(k.n) = i}
MoreThanHalf(C) == {i \in 0 .. MAXABITS : Cardinality(UpTo(C, i)) > twoto[i] \div 2}

LEMMA UpToFacts ==
  ASSUME NEW C, Integral(C)
  PROVE  /\ Cardinality(C) \in Nat
         /\ \A i \in Nat : /\ IsFiniteSet(UpTo(C, i)) /\ Cardinality(UpTo(C, i)) \in Nat
                           /\ Cardinality(UpTo(C, i)) <= Cardinality(C)
                           /\ Cardinality(UpTo(C, i)) <= twoto[i]
                           /\ IsFiniteSet(Slice(C, i)) /\ Cardinality(Slice(C, i)) \in Nat
         /\ Cardinality(UpTo(C, 0)) = Cardinality(Slice(C, 0))
         /\ \A i \in Nat : Cardinality(UpTo(C, i + 1)) =
                             Cardinality(UpTo(C, i)) + Cardinality(Slice(C, i + 1))
  <1>1. IsFiniteSet(C) /\ Cardinality(C) \in Nat
    BY FS_CardinalityType DEF Integral
  <1>2. \A k \in C : k.n \in Nat /\ 1 <= k.n
    BY Powers, TableAssumption DEF Integral
  <1>3. ASSUME NEW i \in Nat
        PROVE  /\ IsFiniteSet(UpTo(C, i)) /\ Cardinality(UpTo(C, i)) \in Nat
               /\ Cardinality(UpTo(C, i)) <= Cardinality(C)
               /\ IsFiniteSet(Slice(C, i)) /\ Cardinality(Slice(C, i)) \in Nat
    <2>1. UpTo(C, i) \in SUBSET C /\ Slice(C, i) \in SUBSET C
      BY DEF UpTo, Slice
    <2>2. IsFiniteSet(UpTo(C, i)) /\ Cardinality(UpTo(C, i)) <= Cardinality(C)
      BY <2>1, <1>1, FS_Subset
    <2>3. IsFiniteSet(Slice(C, i))
      BY <2>1, <1>1, FS_Subset
    <2>4. QED
      BY <2>2, <2>3, FS_CardinalityType
  <1>4. ASSUME NEW i \in Nat
        PROVE  Cardinality(UpTo(C, i)) <= twoto[i]
    <2>1. PICK o \in Int, l \in Int : o = 1 /\ l = twoto[i] /\ l \in Nat
      BY Powers
    <2>2. IsFiniteSet(o .. l) /\ Cardinality(o .. l) = l
      <3>1. IsFiniteSet(o .. l) /\ Cardinality(o .. l) = IF o > l THEN 0 ELSE l - o + 1
        BY FS_Interval
      <3>2. QED
        BY <3>1, <2>1
    <2> DEFINE f == [k \in UpTo(C, i) |-> k.n]
    <2>3. f \in Injection(UpTo(C, i), o .. l)
      <3>1. \A k \in UpTo(C, i) : k.n \in o .. l /\ k = int(k.n)
        BY <1>2, <2>1 DEF UpTo, Integral
      <3>2. \A k, m \in UpTo(C, i) : k.n = m.n => k = m
        BY <3>1
      <3>3. QED
        BY <3>1, <3>2 DEF Injection, IsInjective
    <2>4. Cardinality(UpTo(C, i)) <= Cardinality(o .. l)
      <3> HIDE DEF f
      <3> QED
        BY <2>2, <2>3, FS_Injection
    <2>5. QED
      BY <2>1, <2>2, <2>4
  <1>5. \A k \in C, i \in Nat : k.n <= twoto[i] <=> luaO_ceillog2(k.n) <= i
    BY <1>2, CeilLog
  <1>6. \A k \in C : luaO_ceillog2(k.n) \in Nat
    BY <1>2, CeilLog
  <1>7. UpTo(C, 0) = Slice(C, 0)
    BY <1>5, <1>6 DEF UpTo, Slice
  <1>8. ASSUME NEW i \in Nat
        PROVE  Cardinality(UpTo(C, i + 1)) = Cardinality(UpTo(C, i)) + Cardinality(Slice(C, i + 1))
    <2>1. UpTo(C, i + 1) = UpTo(C, i) \cup Slice(C, i + 1)
      BY <1>5, <1>6 DEF UpTo, Slice
    <2>2. UpTo(C, i) \cap Slice(C, i + 1) = {}
      BY <1>5, <1>6 DEF UpTo, Slice
    <2>3. IsFiniteSet(UpTo(C, i)) /\ IsFiniteSet(Slice(C, i + 1))
      BY <1>3
    <2>4. Cardinality(UpTo(C, i + 1)) =
            Cardinality(UpTo(C, i)) + Cardinality(Slice(C, i + 1)) - Cardinality({})
      BY <2>1, <2>2, <2>3, FS_Union
    <2>5. QED
      BY <2>4, <1>3, FS_EmptySet
  <1>9. QED
    BY <1>1, <1>3, <1>4, <1>7, <1>8

\* computesizes finds the largest power of two of whose slots more than half
\* would be used, and how many would be.
LEMMA SizesFacts ==
  ASSUME NEW C, Integral(C), NEW ns, ns = [lg \in 0 .. MAXABITS |-> Cardinality(Slice(C, lg))],
         NEW r, r = computesizes(ns, Cardinality(C))
  PROVE  LET G == MoreThanHalf(C)
         IN /\ r.n = IF G = {} THEN 0 ELSE twoto[Last(G)]
            /\ r.na = IF G = {} THEN 0 ELSE Cardinality(UpTo(C, Last(G)))
  <1> DEFINE D == 0 .. MAXABITS
             b == [i \in D |-> Cardinality(UpTo(C, i))]
             a == CHOOSE f : f = [i \in D |-> ns[i] + (IF i = 0 THEN 0 ELSE f[i - 1])]
             narray == Cardinality(C)
             turns == {i \in D : twoto[i] \div 2 < narray /\ \A j \in 0 .. i - 1 : a[j] # narray}
             good == {i \in turns : ns[i] > 0 /\ a[i] > twoto[i] \div 2}
             G == MoreThanHalf(C)
  <1>1. MAXABITS \in Nat
    BY TableAssumption
  <1>2. \A i \in D : /\ ns[i] = Cardinality(Slice(C, i)) /\ ns[i] \in Nat
                     /\ b[i] = Cardinality(UpTo(C, i)) /\ b[i] \in Nat
                     /\ b[i] <= narray /\ b[i] <= twoto[i]
    <2>1. \A i \in D : i \in Nat
      OBVIOUS
    <2>2. QED
      BY <2>1, UpToFacts
  <1>3. b[0] = ns[0] /\ \A i \in D : i # 0 => i - 1 \in D /\ b[i] = b[i - 1] + ns[i]
    <2>1. 0 \in D
      BY <1>1
    <2>2. ASSUME NEW i \in D, i # 0
          PROVE  i - 1 \in D /\ b[i] = b[i - 1] + ns[i]
      <3>1. i - 1 \in D /\ i - 1 \in Nat /\ i = (i - 1) + 1
        BY <2>2, <1>1
      <3>2. Cardinality(UpTo(C, i)) = Cardinality(UpTo(C, i - 1)) + Cardinality(Slice(C, i))
        BY <3>1, UpToFacts
      <3>3. QED
        BY <3>1, <3>2
    <2>3. Cardinality(UpTo(C, 0)) = Cardinality(Slice(C, 0))
      BY UpToFacts
    <2>4. QED
      BY <2>1, <2>2, <2>3
  <1>4. a = b
    <2>1. b = [i \in D |-> ns[i] + (IF i = 0 THEN 0 ELSE b[i - 1])]
      <3>1. \A i \in D : b[i] = ns[i] + (IF i = 0 THEN 0 ELSE b[i - 1])
        <4> HIDE DEF b
        <4> QED
          BY <1>1, <1>2, <1>3
      <3>2. b = [i \in D |-> b[i]]
        OBVIOUS
      <3>3. QED
        <4> HIDE DEF b, D
        <4> QED
          BY <3>1, <3>2
    <2>2. a = [i \in D |-> ns[i] + (IF i = 0 THEN 0 ELSE a[i - 1])]
      <3> HIDE DEF b, D
      <3> QED
        BY <2>1
    <2> DEFINE T == {i \in Nat : i \in D => a[i] = b[i]}
    <2> HIDE DEF a, b
    <2>3. 0 \in T
      BY <2>1, <2>2, <1>1
    <2>4. ASSUME NEW i \in T
          PROVE  i + 1 \in T
      <3>1. i + 1 \in D => i \in D /\ i + 1 # 0 /\ (i + 1) - 1 = i
        BY <1>1
      <3>2. i + 1 \in D => a[i + 1] = ns[i + 1] + a[i]
        BY <2>2, <3>1
      <3>3. i + 1 \in D => b[i + 1] = ns[i + 1] + b[i]
        BY <2>1, <3>1
      <3>4. QED
        BY <3>1, <3>2, <3>3
    <2>5. \A i \in Nat : i \in T
      <3>1. T \in SUBSET Nat
        OBVIOUS
      <3>2. QED
        <4> HIDE DEF T
        <4> QED
          BY <2>3, <2>4, <3>1, Induction
    <2>6. \A i \in D : a[i] = b[i]
      BY <2>5
    <2>7. QED
      <3> HIDE DEF D
      <3> QED
        BY <2>1, <2>2, <2>6
  <1> HIDE DEF a, b
  <1>5. r = IF good = {} THEN [n |-> 0, na |-> 0]
            ELSE [n |-> twoto[Last(good)], na |-> a[Last(good)]]
    BY DEF computesizes, a
  <1>6. G \in SUBSET Nat /\ \A i \in G : i <= MAXABITS
    BY <1>1 DEF MoreThanHalf
  <1>7. good \subseteq G
    BY <1>2, <1>4 DEF MoreThanHalf
  <1>8. ASSUME NEW i \in D, NEW j \in D, j < i
        PROVE  twoto[i] \in Nat /\ twoto[j] \in Nat /\ twoto[j] <= twoto[i] \div 2
    <2>1. i \in Nat /\ j \in Nat
      BY <1>1
    <2>2. twoto[i] \in Nat /\ twoto[j] \in Nat /\ 2 * twoto[j] <= twoto[i]
      BY <2>1, <1>8, PowersGrow
    <2>3. QED
      BY <2>2
  <1>9. ASSUME G # {}
        PROVE  Last(G) \in good /\ \A j \in G : j <= Last(G)
    <2>1. Last(G) \in G /\ \A j \in G : j <= Last(G)
      <3> HIDE DEF G
      <3> QED
        BY <1>1, <1>6, <1>9, LastFacts
    <2>2. PICK i \in D : i = Last(G) /\ b[i] > twoto[i] \div 2
      BY <2>1, <1>2 DEF MoreThanHalf
    <2>3. twoto[i] \in Nat /\ i \in Nat
      <3>1. i \in Nat
        OBVIOUS
      <3>2. QED
        BY <3>1, Powers
    <2>4. twoto[i] \div 2 < narray
      <3>1. b[i] \in Nat /\ b[i] <= narray /\ narray \in Nat
        BY <1>2, UpToFacts
      <3>2. PICK q \in Nat : q = twoto[i] \div 2
        BY <2>3
      <3>3. QED
        BY <2>2, <3>1, <3>2
    <2>5. ASSUME NEW j \in 0 .. i - 1, a[j] = narray
          PROVE  FALSE
      <3>1. j \in D /\ j < i
        BY <1>1, <2>3
      <3>2. twoto[j] <= twoto[i] \div 2 /\ twoto[j] \in Nat
        BY <3>1, <1>8
      <3>3. b[j] = narray /\ b[j] <= twoto[j] /\ b[j] \in Nat
        BY <2>5, <3>1, <1>2, <1>4
      <3>4. b[i] <= narray /\ b[i] \in Nat
        BY <1>2
      <3>5. QED
        BY <3>2, <3>3, <3>4, <2>2, <2>3
    <2>6. ns[i] > 0
      <3>1. CASE i = 0
        <4>1. twoto[0] = 1 /\ b[0] > twoto[0] \div 2
          BY <3>1, <2>2, Powers
        <4>2. ns[0] = b[0] /\ ns[0] \in Nat
          BY <3>1, <1>2, <1>3
        <4>3. QED
          BY <3>1, <4>1, <4>2
      <3>2. CASE i # 0
        <4>1. i - 1 \in D /\ b[i] = b[i - 1] + ns[i]
          BY <3>2, <1>3
        <4>2. twoto[i - 1] <= twoto[i] \div 2 /\ twoto[i - 1] \in Nat
          BY <4>1, <2>3, <1>8
        <4>3. b[i - 1] <= twoto[i - 1] /\ b[i - 1] \in Nat /\ ns[i] \in Nat /\ b[i] \in Nat
          BY <4>1, <1>2
        <4>4. QED
          BY <4>1, <4>2, <4>3, <2>2, <2>3
      <3>3. QED
        BY <3>1, <3>2
    <2>7. i \in good
      <3> HIDE DEF narray
      <3>1. i \in turns
        BY <2>4, <2>5
      <3>2. QED
        BY <3>1, <2>2, <2>6, <1>4
    <2>8. QED
      BY <2>1, <2>2, <2>7
  <1>10. CASE G = {}
    BY <1>5, <1>7, <1>10
  <1>11. CASE G # {}
    <2>1. Last(G) \in good /\ \A j \in G : j <= Last(G)
      BY <1>9, <1>11
    <2>2. good \in SUBSET Nat /\ good # {} /\ \A j \in good : j <= MAXABITS
      BY <1>6, <1>7, <2>1
    <2>3. Last(good) \in good /\ \A j \in good : j <= Last(good)
      <3> HIDE DEF good
      <3> QED
        BY <1>1, <2>2, LastFacts
    <2>4. Last(good) = Last(G)
      <3>1. PICK p \in Nat, q \in Nat : p = Last(good) /\ q = Last(G)
        BY <2>1, <2>2, <2>3
      <3>2. p <= q /\ q <= p
        BY <2>1, <2>3, <3>1, <1>7
      <3>3. QED
        BY <3>1, <3>2
    <2>5. a[Last(G)] = Cardinality(UpTo(C, Last(G)))
      BY <2>1, <1>2, <1>4, <1>7
    <2>6. QED
      BY <1>5, <1>11, <2>2, <2>4, <2>5
  <1>12. QED
    BY <1>10, <1>11

LEMMA CandidatesIntegral ==
  ASSUME NEW N \in Nat \ {0}, NEW h \in Tables(N), Tidy(h), NEW ek \in Key
  PROVE  Integral(Candidates(h, ek))
  <1>1. /\ IsFiniteSet(Candidates(h, ek))
        /\ \A k \in Candidates(h, ek) : k.tt = "int" /\ k.n \in 1 .. twoto[MAXABITS]
    BY CandidateFacts
  <1>2. ASSUME NEW k \in Candidates(h, ek)
        PROVE  k = int(k.n)
    <2>1. CASE \E i \in DOMAIN h.array : k = int(i)
      BY <2>1 DEF int
    <2>2. CASE \E n \in Used(h) : k = h.node[n].key
      <3>1. PICK n \in Nodes(h) : h.node[n].val # NULL /\ k = KeyOf(h, n)
        BY <2>2 DEF Used, Nodes, KeyOf
      <3>2. k # NULL
        BY <3>1 DEF Tidy, FreeAreUnlinked, Free
      <3>3. h.node[n] \in Node
        BY DEF Tables, Nodes
      <3>4. k \in Key
        BY <3>1, <3>2, <3>3 DEF Node, Value, KeyOf
      <3>5. QED
        BY <3>4, <1>1, KeyFacts
    <2>3. CASE k = ek
      BY <2>3, <1>1, KeyFacts
    <2>4. QED
      BY <2>1, <2>2, <2>3 DEF Candidates
  <1>3. QED
    BY <1>1, <1>2 DEF Integral

\* The sizes that a rehash chooses.
LEMMA RehashSizes ==
  ASSUME NEW N \in Nat \ {0}, NEW h \in Tables(N), Tidy(h), NEW ek \in Key,
         NEW C, C = Candidates(h, ek), NEW G, G = MoreThanHalf(C),
         NEW r, r = computesizes(nums(h, ek), Cardinality(C))
  PROVE  /\ r.n \in Nat /\ r.na \in Nat /\ totaluse(h) - r.na \in Nat
         /\ r.n = IF G = {} THEN 0 ELSE twoto[Last(G)]
         /\ r.na = IF G = {} THEN 0 ELSE Cardinality(UpTo(C, Last(G)))
         /\ G # {} => Last(G) \in 0 .. MAXABITS
  <1>1. Integral(C)
    BY CandidatesIntegral
  <1>2. nums(h, ek) = [lg \in 0 .. MAXABITS |-> Cardinality(Slice(C, lg))]
    BY DEF nums, Slice
  <1>3. /\ r.n = IF G = {} THEN 0 ELSE twoto[Last(G)]
        /\ r.na = IF G = {} THEN 0 ELSE Cardinality(UpTo(C, Last(G)))
    BY <1>1, <1>2, SizesFacts
  <1>4. G # {} => Last(G) \in 0 .. MAXABITS
    <2>1. MAXABITS \in Nat /\ G \in SUBSET Nat /\ \A i \in G : i <= MAXABITS
      BY TableAssumption DEF MoreThanHalf
    <2>2. G # {} => Last(G) \in G
      BY <2>1, LastFacts
    <2>3. QED
      BY <2>2 DEF MoreThanHalf
  <1>5. totaluse(h) \in Nat /\ Cardinality(C) <= totaluse(h) /\ Cardinality(C) \in Nat
    BY CandidateFacts
  <1>6. CASE G = {}
    BY <1>3, <1>5, <1>6
  <1>7. CASE G # {}
    <2>1. PICK i \in Nat : i = Last(G)
      BY <1>4, <1>7
    <2>2. twoto[i] \in Nat /\ Cardinality(UpTo(C, i)) \in Nat /\ Cardinality(UpTo(C, i)) <= Cardinality(C)
      BY <1>1, Powers, UpToFacts
    <2>3. r.n = twoto[i] /\ r.na = Cardinality(UpTo(C, i))
      BY <1>3, <1>7, <2>1
    <2>4. r.n \in Nat /\ r.na \in Nat /\ totaluse(h) - r.na \in Nat
      BY <2>2, <2>3, <1>5
    <2>5. QED
      BY <2>4, <1>3, <1>4
  <1>8. QED
    BY <1>6, <1>7, <1>3, <1>4, <1>5

-----------------------------------------------------------------------------
(* The insertions that a resize leaves to do. *)

Pending(h, s) ==
  /\ s \in Seq(Entries) /\ Distinct(s)
  /\ \A x \in Key : \A v : Has(s, x, v) => Maps(h, x, NULL)

\* The table stands for the map c once s has been inserted.
Carries(h, s, c) ==
  \A x \in Key : /\ \A v : Has(s, x, v) => c[x] = v
                 /\ (\A v : ~Has(s, x, v)) => Maps(h, x, c[x])

\* A resize loses nothing: an entry is in the new table or among what is to do.
LEMMA ResizeTidy ==
  ASSUME NEW N \in Nat \ {0}, NEW h \in Tables(N), Tidy(h), Indexed(h),
         NEW na \in Nat, NEW nh \in Nat, NEW s, NEW c, Pending(h, s), Carries(h, s, c),
         NEW r, r = luaH_resize(h, na, nh)
  PROVE  \E M \in Nat \ {0} :
           /\ r.t \in Tables(M) /\ Tidy(r.t) /\ Indexed(r.t)
           /\ Pending(r.t, r.todo \o s) /\ Carries(r.t, r.todo \o s, c)
  <1>1. PICK g : g = setnodevector(setarrayvector(h, na), nh)
    OBVIOUS
  <1>2. PICK M \in Nat \ {0} :
          /\ g \in Tables(M) /\ Tidy(g) /\ Indexed(g) /\ g.array = Kept(h, na)
          /\ \A n \in Nodes(g) : g.node[n] = Free
    <2>1. \E M \in Nat \ {0} : Fresh(h, na, nh, g, M)
      BY <1>1, FreshTable
    <2>2. QED
      BY <2>1 DEF Fresh
  <1>3. PICK a, b, d : a = Vanishing(h, na) /\ b = Old(h) /\ d = a \o b
    OBVIOUS
  <1>4. r.t = g /\ r.todo = d
    BY <1>1, <1>3 DEF luaH_resize, Vanishing, Old
  <1>5. /\ a \in Seq(Entries) /\ Distinct(a)
        /\ \A x \in Key : \A v : Has(a, x, v) <=>
             inarray(h, x) /\ na < x.n /\ v = h.array[x.n] /\ v # NULL
    BY <1>3, VanishingFacts
  <1>6. /\ b \in Seq(Entries) /\ Distinct(b)
        /\ \A x \in Key : \A v : Has(b, x, v) <=>
             \E n \in Nodes(h) : Holds(h, x, FALSE, n) /\ v = h.node[n].val /\ v # NULL
    BY <1>3, OldFacts
  <1>7. \A x \in Key, n \in Nodes(h) : Holds(h, x, FALSE, n) => ~inarray(h, x)
    BY KeyFacts DEF Holds, Tidy, Placed
  <1>8. d \in Seq(Entries) /\ Distinct(d) /\ \A x, v : Has(d, x, v) <=> Has(a, x, v) \/ Has(b, x, v)
    <2>1. \A x \in Key : \A v, w : ~(Has(a, x, v) /\ Has(b, x, w))
      BY <1>5, <1>6, <1>7
    <2>2. QED
      BY <2>1, <1>3, <1>5, <1>6, ConcatFacts
  <1>9. ASSUME NEW x \in Key, NEW v, NEW y, Has(d, x, v), Maps(h, x, y)
        PROVE  y = v /\ v # NULL
    <2>1. CASE Has(a, x, v)
      BY <2>1, <1>5, <1>9 DEF Maps
    <2>2. CASE Has(b, x, v)
      <3>1. PICK n \in Nodes(h) : Holds(h, x, FALSE, n) /\ v = h.node[n].val /\ v # NULL
        BY <2>2, <1>6
      <3>2. QED
        BY <3>1, <1>7, <1>9 DEF Maps
    <2>3. QED
      BY <2>1, <2>2, <1>8, <1>9
  <1>10. h.array \in Seq(Value) /\ Len(h.array) \in Nat /\ DOMAIN h.array = 1 .. Len(h.array)
    BY DEF Tables
  <1>11. ASSUME NEW x \in Key
         PROVE  /\ inarray(g, x) <=> x.tt = "int" /\ x.n \in 1 .. na
                /\ inarray(g, x) => g.array[x.n] = IF inarray(h, x) THEN h.array[x.n] ELSE NULL
                /\ \A n \in Nodes(g) : ~Holds(g, x, FALSE, n)
    <2>1. DOMAIN g.array = 1 .. na
      BY <1>2 DEF Kept
    <2>2. inarray(g, x) <=> x.tt = "int" /\ x.n \in 1 .. na
      BY <2>1 DEF inarray
    <2>3. \A n \in Nodes(g) : ~Holds(g, x, FALSE, n)
      BY <1>2, KeyFacts DEF Holds, KeyOf, Free
    <2>4. ASSUME inarray(g, x)
          PROVE  g.array[x.n] = IF inarray(h, x) THEN h.array[x.n] ELSE NULL
      <3>1. x.n \in 1 .. na /\ x.tt = "int"
        BY <2>2, <2>4
      <3>2. g.array[x.n] = IF x.n <= Len(h.array) THEN h.array[x.n] ELSE NULL
        BY <3>1, <1>2 DEF Kept
      <3>3. inarray(h, x) <=> x.n <= Len(h.array)
        BY <3>1, <1>10 DEF inarray
      <3>4. QED
        BY <3>2, <3>3
    <2>5. QED
      BY <2>2, <2>3, <2>4
  <1>12. ASSUME NEW x \in Key, NEW y, \A v : ~Has(d, x, v), Maps(h, x, y)
         PROVE  Maps(g, x, y)
    <2>1. ~inarray(h, x) => y = NULL
      <3>1. ASSUME ~inarray(h, x), NEW n \in Nodes(h), Holds(h, x, FALSE, n)
            PROVE  y = NULL
        <4>1. y = h.node[n].val
          BY <3>1, <1>12 DEF Maps
        <4>2. ~Has(b, x, y)
          BY <1>8, <1>12
        <4>3. QED
          BY <4>1, <4>2, <3>1, <1>6
      <3>2. QED
        BY <3>1, <1>12 DEF Maps
    <2>2. CASE inarray(g, x)
      <3>1. inarray(h, x) => y = h.array[x.n]
        BY <1>12 DEF Maps
      <3>2. g.array[x.n] = y
        BY <2>1, <2>2, <3>1, <1>11
      <3>3. QED
        BY <2>2, <3>2 DEF Maps
    <2>3. CASE ~inarray(g, x)
      <3>1. y = NULL
        <4>1. CASE inarray(h, x)
          <5>1. y = h.array[x.n] /\ ~Has(a, x, y)
            BY <4>1, <1>8, <1>12 DEF Maps
          <5>2. x.tt = "int" /\ x.n \in 1 .. Len(h.array)
            BY <4>1, <1>10 DEF inarray
          <5>3. na < x.n
            <6>1. x.n \in Nat /\ 1 <= x.n
              BY <5>2, <1>10
            <6>2. x.n \notin 1 .. na
              BY <5>2, <2>3, <1>11
            <6>3. QED
              BY <6>1, <6>2
          <5>4. QED
            BY <5>1, <5>3, <4>1, <1>5
        <4>2. QED
          BY <4>1, <2>1
      <3>2. QED
        BY <2>3, <3>1, <1>11 DEF Maps
    <2>4. QED
      BY <2>2, <2>3
  <1>13. ASSUME NEW x \in Key, NEW v, Has(d, x, v)
         PROVE  Maps(g, x, NULL)
    <2>1. ASSUME inarray(g, x)
          PROVE  g.array[x.n] = NULL
      <3>1. x.n \in 1 .. na
        BY <2>1, <1>11
      <3>2. ~Has(a, x, v)
        BY <3>1, <1>5
      <3>3. ~inarray(h, x)
        BY <3>2, <1>6, <1>7, <1>8, <1>13
      <3>4. QED
        BY <3>3, <2>1, <1>11
    <2>2. QED
      BY <2>1, <1>11 DEF Maps
  <1>14. s \in Seq(Entries) /\ Distinct(s) /\ \A x \in Key : \A v : Has(s, x, v) => Maps(h, x, NULL)
    BY DEF Pending
  <1>15. PICK e : e = d \o s
    OBVIOUS
  <1>16. e \in Seq(Entries) /\ Distinct(e) /\ \A x, v : Has(e, x, v) <=> Has(d, x, v) \/ Has(s, x, v)
    <2>1. \A x \in Key : \A v, w : ~(Has(d, x, v) /\ Has(s, x, w))
      BY <1>9, <1>14
    <2>2. QED
      BY <2>1, <1>8, <1>14, <1>15, ConcatFacts
  <1>17. ASSUME NEW x \in Key, NEW v, Has(e, x, v)
         PROVE  Maps(g, x, NULL)
    <2>1. CASE \E w : Has(d, x, w)
      BY <2>1, <1>13
    <2>2. CASE \A w : ~Has(d, x, w)
      <3>1. Has(s, x, v)
        BY <2>2, <1>16, <1>17
      <3>2. Maps(h, x, NULL)
        BY <3>1, <1>14
      <3>3. QED
        BY <2>2, <3>2, <1>12
    <2>3. QED
      BY <2>1, <2>2
  <1>18. ASSUME NEW x \in Key, NEW v, Has(e, x, v)
         PROVE  c[x] = v
    <2>1. Has(s, x, v) => c[x] = v
      BY DEF Carries
    <2>2. ASSUME Has(d, x, v)
          PROVE  c[x] = v
      <3>1. \A w : ~Has(s, x, w)
        BY <2>2, <1>9, <1>14
      <3>2. Maps(h, x, c[x])
        BY <3>1 DEF Carries
      <3>3. QED
        BY <2>2, <3>2, <1>9
    <2>3. QED
      BY <2>1, <2>2, <1>16, <1>18
  <1>19. ASSUME NEW x \in Key, \A v : ~Has(e, x, v)
         PROVE  Maps(g, x, c[x])
    <2>1. (\A v : ~Has(d, x, v)) /\ \A v : ~Has(s, x, v)
      BY <1>16, <1>19
    <2>2. Maps(h, x, c[x])
      BY <2>1 DEF Carries
    <2>3. QED
      BY <2>1, <2>2, <1>12
  <1>20. Pending(g, e) /\ Carries(g, e, c)
    BY <1>16, <1>17, <1>18, <1>19 DEF Pending, Carries
  <1>21. QED
    BY <1>2, <1>4, <1>15, <1>20

LEMMA EmptyFacts ==
  /\ <<>> \in Seq(Entries) /\ Distinct(<<>>) /\ \A x, v : ~Has(<<>>, x, v)
  BY DEF Distinct, Has

LEMMA OneFacts ==
  ASSUME NEW e \in Entries
  PROVE  /\ <<e>> \in Seq(Entries) /\ Distinct(<<e>>)
         /\ \A x, v : Has(<<e>>, x, v) <=> e.key = x /\ e.val = v
  <1>1. PICK s : s = <<e>>
    OBVIOUS
  <1>2. s \in Seq(Entries) /\ DOMAIN s = {1} /\ s[1] = e
    BY <1>1
  <1>3. QED
    BY <1>1, <1>2 DEF Distinct, Has

LEMMA HeadFacts ==
  ASSUME NEW s \in Seq(Entries), s # <<>>, Distinct(s)
  PROVE  /\ Head(s) \in Entries /\ Tail(s) \in Seq(Entries) /\ Distinct(Tail(s))
         /\ s = <<Head(s)>> \o Tail(s)
         /\ \A x, v : Has(s, x, v) <=> (Head(s).key = x /\ Head(s).val = v) \/ Has(Tail(s), x, v)
         /\ Head(s).key # NULL => \A v : ~Has(Tail(s), Head(s).key, v)
  <1>1. PICK e, b : e = Head(s) /\ b = Tail(s)
    OBVIOUS
  <1>2. PICK n \in Nat : n = Len(b) /\ Len(s) = n + 1
    <2>1. Len(s) \in Nat \ {0} /\ Len(b) = Len(s) - 1
      BY <1>1, EmptySeq, HeadTailProperties
    <2>2. QED
      BY <2>1
  <1>3. /\ e \in Entries /\ b \in Seq(Entries) /\ DOMAIN b = 1 .. n /\ DOMAIN s = 1 .. n + 1
        /\ e = s[1] /\ \A i \in 1 .. n : b[i] = s[i + 1]
    BY <1>1, <1>2, HeadTailProperties
  <1>4. s = <<e>> \o b
    <2>1. PICK l \in Nat : l = Len(s) /\ 1 \in 1 .. l /\ l \in 1 .. l
      BY <1>2
    <2>2. SubSeq(s, 1, l) = <<s[1]>> \o SubSeq(s, 1 + 1, l)
      BY <2>1, SubSeqRecursiveFirst
    <2>3. SubSeq(s, 1, l) = s
      BY <2>1, SubSeqFull
    <2>4. b = SubSeq(s, 2, l)
      BY <2>1, <1>1, TailIsSubSeq
    <2>5. QED
      BY <2>2, <2>3, <2>4, <1>3
  <1>5. ASSUME NEW x, NEW v
        PROVE  Has(s, x, v) <=> (e.key = x /\ e.val = v) \/ Has(b, x, v)
    <2>1. ASSUME NEW i \in 1 .. n + 1, s[i].key = x, s[i].val = v
          PROVE  (e.key = x /\ e.val = v) \/ Has(b, x, v)
      <3>1. i = 1 \/ (i - 1 \in 1 .. n /\ (i - 1) + 1 = i)
        OBVIOUS
      <3>2. QED
        BY <2>1, <3>1, <1>3 DEF Has
    <2>2. ASSUME NEW i \in 1 .. n, b[i].key = x, b[i].val = v
          PROVE  Has(s, x, v)
      <3>1. PICK j \in 1 .. n + 1 : j = i + 1
        OBVIOUS
      <3>2. s[j] = b[i]
        BY <3>1, <1>3
      <3>3. QED
        BY <2>2, <3>2, <1>3 DEF Has
    <2>3. ASSUME e.key = x, e.val = v
          PROVE  Has(s, x, v)
      <3>1. 1 \in 1 .. n + 1
        OBVIOUS
      <3>2. QED
        BY <2>3, <3>1, <1>3 DEF Has
    <2>4. QED
      BY <2>1, <2>2, <2>3, <1>3 DEF Has
  <1>6. Distinct(b)
    <2> SUFFICES ASSUME NEW i \in 1 .. n, NEW j \in 1 .. n, b[i].key # NULL, b[i].key = b[j].key
                 PROVE  i = j
      BY <1>3 DEF Distinct
    <2>1. PICK k \in 1 .. n + 1, l \in 1 .. n + 1 : k = i + 1 /\ l = j + 1
      OBVIOUS
    <2>2. b[i] = s[k] /\ b[j] = s[l]
      BY <2>1, <1>3
    <2>3. k = l
      BY <2>2, <1>3 DEF Distinct
    <2>4. QED
      BY <2>1, <2>3
  <1>7. ASSUME e.key # NULL, NEW v, Has(b, e.key, v)
        PROVE  FALSE
    <2>1. PICK i \in 1 .. n : b[i].key = e.key
      BY <1>3, <1>7 DEF Has
    <2>2. PICK j \in 1 .. n + 1 : j = i + 1 /\ j # 1
      OBVIOUS
    <2>3. s[j].key = s[1].key /\ s[1].key # NULL /\ 1 \in 1 .. n + 1
      BY <2>1, <2>2, <1>3, <1>7
    <2>4. j = 1
      BY <2>3, <1>3 DEF Distinct
    <2>5. QED
      BY <2>2, <2>4
  <1>8. QED
    BY <1>1, <1>3, <1>4, <1>5, <1>6, <1>7

\* A full table keeps its entries when getfreepos gives up.
LEMMA GiveUp ==
  ASSUME NEW N \in Nat \ {0}, NEW h \in Tables(N), Tidy(h), Indexed(h), freeposition(h) = NULL,
         NEW g, g = getfreepos(h)
  PROVE  /\ g \in Tables(N) /\ Tidy(g) /\ Indexed(g) /\ \A x, y : Maps(g, x, y) <=> Maps(h, x, y)
         /\ g.node = h.node /\ g.array = h.array
  <1>1. /\ g \in Tables(N) /\ g.node = h.node /\ g.array = h.array /\ g.dummy = h.dummy
        /\ g.lastfree = 0
    BY GetFreeFacts
  <1>2. \A m, n : Reach(g, m, n) <=> Reach(h, m, n)
    BY <1>1 DEF Reach, Closed, Step
  <1>3. /\ \A n : KeyOf(g, n) = KeyOf(h, n) /\ Step(g, n) = Step(h, n) /\ Home(g, n) = Home(h, n)
        /\ Nodes(g) = Nodes(h) /\ \A x : inarray(g, x) <=> inarray(h, x)
    BY <1>1 DEF KeyOf, Step, Home, mainposition, sizenode, Nodes, inarray
  <1>4. FreeAreUnlinked(g) /\ Chained(g) /\ Housed(g)
    BY <1>1, <1>2, <1>3 DEF Tidy, FreeAreUnlinked, Chained, Housed
  <1>5. LiveFirst(g)
    BY <1>1, <1>2, <1>3 DEF Tidy, LiveFirst, Alive
  <1>6. Placed(g)
    <2>1. ~h.dummy => \A n \in Nodes(h) : KeyOf(h, n) # NULL
      BY FreePosition
    <2>2. QED
      BY <2>1, <1>1, <1>3 DEF Tidy, Placed
  <1>7. ASSUME NEW x, NEW y
        PROVE  Maps(g, x, y) <=> Maps(h, x, y)
    BY <1>1, <1>3 DEF Maps, Holds
  <1>8. QED
    BY <1>1, <1>4, <1>5, <1>6, <1>7 DEF Tidy, Indexed

\* The insertion of a key into a full table becomes the last of a resize.
LEMMA FullPut ==
  ASSUME NEW N \in Nat \ {0}, NEW h \in Tables(N), Tidy(h), Indexed(h),
         NEW k \in Key, NEW v \in Value, Full(h, k),
         NEW e, e = [key |-> k, val |-> v], NEW rest \in Seq(Entries), NEW s, s = <<e>> \o rest,
         NEW c, Pending(h, s), Carries(h, s, c),
         NEW r, r = luaH_newkey(h, k, v, rest)
  PROVE  \E M \in Nat \ {0} :
           /\ r.t \in Tables(M) /\ Tidy(r.t) /\ Indexed(r.t)
           /\ Pending(r.t, r.todo) /\ Carries(r.t, r.todo, c)
  <1>1. PICK g : g = getfreepos(h)
    OBVIOUS
  <1>2. /\ g \in Tables(N) /\ Tidy(g) /\ Indexed(g) /\ \A x, y : Maps(g, x, y) <=> Maps(h, x, y)
    <2>1. freeposition(h) = NULL
      BY DEF Full
    <2>2. QED
      BY <2>1, <1>1, GiveUp
  <1>3. PICK q : q = rehash(g, k)
    OBVIOUS
  <1>4. r.t = q.t /\ r.todo = (q.todo \o <<e>>) \o rest
    <2>1. r = [t |-> q.t, todo |-> q.todo \o <<e>> \o rest]
      BY <1>1, <1>3 DEF luaH_newkey
    <2>2. QED
      BY <2>1
  <1>5. PICK z : z = computesizes(nums(g, k), Cardinality(Candidates(g, k)))
    OBVIOUS
  <1>6. z.n \in Nat /\ totaluse(g) - z.na \in Nat
    BY <1>2, <1>5, RehashSizes
  <1>7. q = luaH_resize(g, z.n, totaluse(g) - z.na)
    BY <1>3, <1>5 DEF rehash
  <1>8. Pending(g, s) /\ Carries(g, s, c)
    BY <1>2 DEF Pending, Carries
  <1>9. PICK M \in Nat \ {0} :
          /\ q.t \in Tables(M) /\ Tidy(q.t) /\ Indexed(q.t)
          /\ Pending(q.t, q.todo \o s) /\ Carries(q.t, q.todo \o s, c)
    BY <1>2, <1>6, <1>7, <1>8, ResizeTidy
  <1>10. q.todo \o s = (q.todo \o <<e>>) \o rest
    <2>1. e \in Entries
      BY DEF Entries, Value
    <2>2. <<e>> \in Seq(Entries)
      BY <2>1
    <2>3. q.todo \in Seq(Entries)
      <3>1. q.todo = Vanishing(g, z.n) \o Old(g)
        BY <1>7 DEF luaH_resize, Vanishing, Old
      <3>2. Vanishing(g, z.n) \in Seq(Entries) /\ Old(g) \in Seq(Entries)
        BY <1>2, <1>6, VanishingFacts, OldFacts
      <3>3. QED
        BY <3>1, <3>2, ConcatProperties
    <2>4. PICK a \in Seq(Entries), b \in Seq(Entries) : a = q.todo /\ b = <<e>>
      BY <2>2, <2>3
    <2>5. (a \o b) \o rest = a \o (b \o rest)
      BY ConcatAssociative
    <2>6. QED
      BY <2>4, <2>5
  <1>11. QED
    BY <1>4, <1>9, <1>10

-----------------------------------------------------------------------------
(* The inductive invariant: the table is tidy and, once what is to do has    *)
(* been inserted, stands for the content.  What a traversal must visit stays *)
(* and nothing is inserted while it lasts.                                   *)

Stands(h, s, c) ==
  /\ \E N \in Nat \ {0} : h \in Tables(N)
  /\ Tidy(h) /\ Indexed(h) /\ Pending(h, s) /\ Carries(h, s, c)

Inv ==
  /\ content \in [Key -> Value] /\ Stands(t, todo, content)
  /\ due \in SUBSET Key /\ (due # {} => todo = <<>> /\ \A k \in due : content[k] # NULL)

\* An assignment, whatever remains to be inserted after it.
LEMMA PutStands ==
  ASSUME NEW h, NEW given \in Given, NEW k, k = normal(given), NEW v \in Value,
         NEW e, e = [key |-> k, val |-> v], NEW rest \in Seq(Entries),
         NEW c, NEW d, \A x \in Key : d[x] = IF x = k THEN v ELSE c[x],
         Stands(h, rest, c), \A w : ~Has(rest, k, w),
         NEW r, r = luaH_put(h, given, v, rest)
  PROVE  Stands(r.t, r.todo, d)
  <1>1. PICK N \in Nat \ {0} : h \in Tables(N)
    BY DEF Stands
  <1>2. Tidy(h) /\ Indexed(h) /\ Pending(h, rest) /\ Carries(h, rest, c)
    BY DEF Stands
  <1>3. k \in Key /\ k # NULL
    BY GivenFacts, KeyFacts
  <1>4. PICK g : g = r.t
    OBVIOUS
  <1>5. CASE r.todo = rest /\ g \in Tables(N) /\ Tidy(g) /\ Indexed(g) /\ Remaps(h, g, k, v)
    <2>1. Pending(g, rest)
      <3>1. ASSUME NEW x \in Key, NEW w, Has(rest, x, w)
            PROVE  Maps(g, x, NULL)
        <4>1. x # k /\ Maps(h, x, NULL)
          BY <3>1, <1>2 DEF Pending
        <4>2. QED
          BY <4>1, <1>5 DEF Remaps
      <3>2. QED
        BY <3>1, <1>2 DEF Pending
    <2>2. Carries(g, rest, d)
      <3>1. ASSUME NEW x \in Key, NEW w, Has(rest, x, w)
            PROVE  d[x] = w
        <4>1. x # k /\ c[x] = w
          BY <3>1, <1>2 DEF Carries
        <4>2. QED
          BY <4>1
      <3>2. ASSUME NEW x \in Key, \A w : ~Has(rest, x, w)
            PROVE  Maps(g, x, d[x])
        <4>1. CASE x = k
          BY <4>1, <1>3, <1>5 DEF Remaps
        <4>2. CASE x # k
          <5>1. Maps(h, x, c[x])
            BY <3>2, <1>2 DEF Carries
          <5>2. QED
            BY <4>2, <5>1, <1>5 DEF Remaps
        <4>3. QED
          BY <4>1, <4>2
      <3>3. QED
        BY <3>1, <3>2 DEF Carries
    <2>3. QED
      BY <2>1, <2>2, <1>4, <1>5 DEF Stands
  <1>6. CASE /\ r = luaH_newkey(h, k, v, rest) /\ Full(h, k)
             /\ ~inarray(h, k) /\ \A n \in Nodes(h) : ~Holds(h, k, FALSE, n)
    <2>1. PICK s : s = <<e>> \o rest
      OBVIOUS
    <2>2. e \in Entries /\ e.key = k /\ e.val = v
      BY <1>3 DEF Entries, Value
    <2>3. s \in Seq(Entries) /\ Distinct(s) /\ \A x, w : Has(s, x, w) <=> (k = x /\ v = w) \/ Has(rest, x, w)
      <3>1. PICK a : a = <<e>>
        OBVIOUS
      <3>2. a \in Seq(Entries) /\ Distinct(a) /\ \A x, w : Has(a, x, w) <=> k = x /\ v = w
        BY <2>2, <3>1, OneFacts
      <3>3. rest \in Seq(Entries) /\ Distinct(rest) /\ \A x \in Key : \A y, w : ~(Has(a, x, y) /\ Has(rest, x, w))
        BY <3>2, <1>2 DEF Pending
      <3>4. a \o rest \in Seq(Entries) /\ Distinct(a \o rest)
            /\ \A x, w : Has(a \o rest, x, w) <=> Has(a, x, w) \/ Has(rest, x, w)
        BY <3>2, <3>3, ConcatFacts
      <3>5. QED
        BY <2>1, <3>1, <3>2, <3>4
    <2>4. Maps(h, k, NULL)
      BY <1>6 DEF Maps
    <2>5. Pending(h, s)
      BY <2>3, <2>4, <1>2 DEF Pending
    <2>6. Carries(h, s, d)
      <3>1. ASSUME NEW x \in Key, NEW w, Has(s, x, w)
            PROVE  d[x] = w
        <4>1. x = k => w = v
          BY <2>3, <3>1
        <4>2. x # k => c[x] = w
          BY <2>3, <3>1, <1>2 DEF Carries
        <4>3. QED
          BY <4>1, <4>2
      <3>2. ASSUME NEW x \in Key, \A w : ~Has(s, x, w)
            PROVE  Maps(h, x, d[x])
        <4>1. x # k /\ \A w : ~Has(rest, x, w)
          BY <2>3, <3>2
        <4>2. Maps(h, x, c[x])
          BY <4>1, <1>2 DEF Carries
        <4>3. QED
          BY <4>1, <4>2
      <3>3. QED
        BY <3>1, <3>2 DEF Carries
    <2>7. Full(h, k) /\ r = luaH_newkey(h, k, v, rest)
      BY <1>6
    <2>8. \E M \in Nat \ {0} :
            /\ r.t \in Tables(M) /\ Tidy(r.t) /\ Indexed(r.t)
            /\ Pending(r.t, r.todo) /\ Carries(r.t, r.todo, d)
      BY <2>1, <2>5, <2>6, <2>7, <1>1, <1>2, <1>3, FullPut
    <2>9. QED
      BY <2>8 DEF Stands
  <1>7. QED
    <2>1. Stores(N, h, k, v, rest, r) \/ Overflows(h, k, v, rest, r)
      BY <1>1, <1>2, PutTidy
    <2>2. QED
      BY <2>1, <1>4, <1>5, <1>6 DEF Stores, Overflows

\* A table that stands for a map still does once it has been resized and what
\* the resize left has been inserted.
LEMMA ResizeStands ==
  ASSUME NEW h, NEW c, Stands(h, <<>>, c), NEW na \in Nat, NEW nh \in Nat,
         NEW r, r = luaH_resize(h, na, nh)
  PROVE  Stands(r.t, r.todo, c)
  <1>1. PICK N \in Nat \ {0} : h \in Tables(N)
    BY DEF Stands
  <1>2. PICK s : s = <<>>
    OBVIOUS
  <1>3. Tidy(h) /\ Indexed(h) /\ Pending(h, s) /\ Carries(h, s, c)
    BY <1>2 DEF Stands
  <1>4. PICK M \in Nat \ {0} :
          /\ r.t \in Tables(M) /\ Tidy(r.t) /\ Indexed(r.t)
          /\ Pending(r.t, r.todo \o s) /\ Carries(r.t, r.todo \o s, c)
    BY <1>1, <1>3, ResizeTidy
  <1>5. r.todo \in Seq(Entries)
    <2>1. r.todo = Vanishing(h, na) \o Old(h)
      BY DEF luaH_resize, Vanishing, Old
    <2>2. Vanishing(h, na) \in Seq(Entries) /\ Old(h) \in Seq(Entries)
      BY <1>1, <1>3, VanishingFacts, OldFacts
    <2>3. QED
      BY <2>1, <2>2, ConcatProperties
  <1>6. r.todo \o s = r.todo
    BY <1>2, <1>5, ConcatEmptySeq
  <1>7. QED
    BY <1>4, <1>6 DEF Stands

\* The entry e may be dropped when it has no key, or taken out to be inserted.
Sheds(h, s, c, e) ==
  /\ e \in Entries /\ s \in Seq(Entries)
  /\ e.key = NULL => Stands(h, s, c)
  /\ e.key # NULL => /\ e.key \in Key /\ c[e.key] = e.val
                     /\ \A w : ~Has(s, e.key, w)
                     /\ Stands(h, s, [c EXCEPT ![e.key] = NULL])

LEMMA HeadStands ==
  ASSUME NEW h, NEW s, NEW c \in [Key -> Value], Stands(h, s, c), s # <<>>,
         NEW e, e = Head(s), NEW b, b = Tail(s)
  PROVE  Sheds(h, b, c, e)
  <1>1. PICK N \in Nat \ {0} : h \in Tables(N)
    BY DEF Stands
  <1>2. Tidy(h) /\ Indexed(h) /\ Pending(h, s) /\ Carries(h, s, c)
    BY DEF Stands
  <1>3. s \in Seq(Entries) /\ Distinct(s) /\ \A x \in Key : \A v : Has(s, x, v) => Maps(h, x, NULL)
    BY <1>2 DEF Pending
  <1>5. /\ e \in Entries /\ b \in Seq(Entries) /\ Distinct(b)
        /\ \A x, v : Has(s, x, v) <=> (e.key = x /\ e.val = v) \/ Has(b, x, v)
        /\ e.key # NULL => \A v : ~Has(b, e.key, v)
    BY <1>3, HeadFacts
  <1>6. Pending(h, b)
    BY <1>3, <1>5 DEF Pending
  <1>7. CASE e.key = NULL
    <2>1. \A x \in Key : \A v : Has(b, x, v) <=> Has(s, x, v)
      BY <1>5, <1>7, KeyFacts
    <2>2. Carries(h, b, c)
      BY <2>1, <1>2 DEF Carries
    <2>3. QED
      BY <2>2, <1>1, <1>2, <1>5, <1>6, <1>7 DEF Stands, Sheds
  <1>8. CASE e.key # NULL
    <2>1. PICK k \in Key : k = e.key
      BY <1>5, <1>8 DEF Entries, Value
    <2>2. PICK d : d = [c EXCEPT ![k] = NULL]
      OBVIOUS
    <2>3. d[k] = NULL /\ \A x \in Key : x # k => d[x] = c[x]
      BY <2>2
    <2>4. Has(s, k, e.val) /\ \A v : ~Has(b, k, v)
      BY <2>1, <1>5, <1>8
    <2>5. c[k] = e.val /\ Maps(h, k, NULL)
      BY <2>4, <1>2, <1>3 DEF Carries
    <2>6. \A x \in Key : \A v : x # k => (Has(b, x, v) <=> Has(s, x, v))
      BY <2>1, <1>5
    <2>7. Carries(h, b, d)
      <3>1. ASSUME NEW x \in Key, NEW v, Has(b, x, v)
            PROVE  d[x] = v
        <4>1. x # k /\ Has(s, x, v)
          BY <3>1, <2>4, <2>6
        <4>2. QED
          BY <4>1, <2>3, <1>2 DEF Carries
      <3>2. ASSUME NEW x \in Key, \A v : ~Has(b, x, v)
            PROVE  Maps(h, x, d[x])
        <4>1. CASE x = k
          BY <4>1, <2>3, <2>5
        <4>2. CASE x # k
          <5>1. \A v : ~Has(s, x, v)
            BY <4>2, <3>2, <2>6
          <5>2. Maps(h, x, c[x])
            BY <5>1, <1>2 DEF Carries
          <5>3. QED
            BY <4>2, <5>2, <2>3
        <4>3. QED
          BY <4>1, <4>2
      <3>3. QED
        BY <3>1, <3>2 DEF Carries
    <2>8. Stands(h, b, d)
      BY <2>7, <1>1, <1>2, <1>6 DEF Stands
    <2>9. QED
      BY <2>1, <2>2, <2>4, <2>5, <2>8, <1>5, <1>8 DEF Sheds
  <1>9. QED
    BY <1>7, <1>8

\* A collector that marks keys of nil entries dead changes no field.
LEMMA DeadStands ==
  ASSUME NEW h, NEW s, NEW c, Stands(h, s, c),
         NEW m \in Nodes(h), h.node[m].val = NULL, h.node[m].key # NULL,
         NEW g, g = [h EXCEPT !.node[m].dead = TRUE]
  PROVE  Stands(g, s, c)
  <1>1. PICK N \in Nat \ {0} : h \in Tables(N)
    BY DEF Stands
  <1>2. Tidy(h) /\ Indexed(h) /\ Pending(h, s) /\ Carries(h, s, c)
    BY DEF Stands
  <1>3. /\ g \in Tables(N) /\ Tidy(g) /\ Indexed(g)
        /\ \A x \in Key : \A y : Maps(h, x, y) => Maps(g, x, y)
    BY <1>1, <1>2, DeadPut
  <1>4. Pending(g, s) /\ Carries(g, s, c)
    BY <1>2, <1>3 DEF Pending, Carries
  <1>5. QED
    BY <1>1, <1>3, <1>4 DEF Stands

\* A new table is empty.
LEMMA NewStands ==
  ASSUME NEW c, \A x \in Key : c[x] = NULL
  PROVE  Stands(luaH_new, <<>>, c)
  <1>1. PICK h : h = luaH_new
    OBVIOUS
  <1>2. /\ h.array = <<>> /\ h.node = dummynode.node /\ h.dummy = TRUE /\ h.lastfree = 0
        /\ h = [array |-> <<>>, node |-> dummynode.node, dummy |-> TRUE, lastfree |-> 0]
    BY <1>1 DEF luaH_new
  <1>3. PICK N \in Nat \ {0} : N = 1
    OBVIOUS
  <1>4. h \in Tables(N)
    <2>1. Free \in Node
      BY DEF Free, Node, Value
    <2>2. 0 .. N - 1 = {0}
      BY <1>3
    <2>3. dummynode.node \in [0 .. N - 1 -> Node]
      BY <2>1, <2>2 DEF dummynode
    <2>4. 0 \in 0 .. N
      BY <1>3
    <2>5. QED
      BY <2>3, <2>4, <1>2 DEF Tables
  <1>5. Indexed(h)
    BY <1>2 DEF Indexed
  <1>6. PICK g : g = setnodevector(setarrayvector(h, 0), 0)
    OBVIOUS
  <1>7. g = h
    <2>1. PICK b : b = setarrayvector(h, 0)
      OBVIOUS
    <2>2. b = h
      <3>1. b = [h EXCEPT !.array = [i \in 1 .. 0 |-> IF i <= Len(@) THEN @[i] ELSE NULL]]
        BY <2>1 DEF setarrayvector
      <3>2. [i \in 1 .. 0 |-> IF i <= Len(h.array) THEN h.array[i] ELSE NULL] = <<>>
        OBVIOUS
      <3>3. QED
        BY <3>1, <3>2, <1>2
    <2>3. g = [h EXCEPT !.node = dummynode.node, !.dummy = TRUE, !.lastfree = 0]
      BY <2>1, <2>2, <1>6 DEF setnodevector
    <2>4. QED
      BY <2>3, <1>2
  <1>8. PICK M \in Nat \ {0} : Fresh(h, 0, 0, g, M)
    <2>1. PICK z \in Nat : z = 0
      OBVIOUS
    <2>2. g = setnodevector(setarrayvector(h, z), z)
      BY <2>1, <1>6
    <2>3. \E M \in Nat \ {0} : Fresh(h, z, z, g, M)
      BY <2>2, <1>3, <1>4, <1>5, FreshTable
    <2>4. QED
      BY <2>1, <2>3
  <1>9. /\ h \in Tables(M) /\ Tidy(h) /\ \A n \in Nodes(h) : h.node[n] = Free
    BY <1>7, <1>8 DEF Fresh
  <1>10. ASSUME NEW x \in Key
         PROVE  Maps(h, x, c[x])
    <2>1. ~inarray(h, x)
      BY <1>2 DEF inarray
    <2>2. \A n \in Nodes(h) : ~Holds(h, x, FALSE, n)
      BY <1>9, KeyFacts DEF Holds, KeyOf, Free
    <2>3. QED
      BY <2>1, <2>2 DEF Maps
  <1>11. Pending(h, <<>>) /\ Carries(h, <<>>, c)
    BY <1>10, EmptyFacts DEF Pending, Carries
  <1>12. QED
    BY <1>1, <1>5, <1>9, <1>11 DEF Stands

\* Once nothing remains to be inserted, the table answers with the map.
LEMMA StandsGet ==
  ASSUME NEW h, NEW c, Stands(h, <<>>, c), NEW given \in Given
  PROVE  luaH_get(h, given) = c[normal(given)]
  <1>1. PICK N \in Nat \ {0} : h \in Tables(N)
    BY DEF Stands
  <1>2. Tidy(h) /\ Carries(h, <<>>, c)
    BY DEF Stands
  <1>3. PICK k \in Key : k = normal(given) /\ normal(k) = k
    BY GivenFacts
  <1>4. Maps(h, k, c[k])
    BY <1>2, EmptyFacts DEF Carries
  <1>5. luaH_get(h, k) = c[k]
    BY <1>1, <1>2, <1>4, GetMaps
  <1>6. luaH_get(h, given) = luaH_get(h, k)
    BY <1>3 DEF luaH_get
  <1>7. QED
    BY <1>3, <1>5, <1>6

\* During a traversal an assignment to an existing field inserts nothing.
LEMMA PutExisting ==
  ASSUME NEW h, NEW c, Stands(h, <<>>, c), NEW given \in Given, NEW k, k = normal(given),
         c[k] # NULL, NEW v \in Value, NEW r, r = luaH_put(h, given, v, <<>>)
  PROVE  r.todo = <<>>
  <1>1. PICK N \in Nat \ {0} : h \in Tables(N)
    BY DEF Stands
  <1>2. Tidy(h) /\ Indexed(h) /\ Carries(h, <<>>, c)
    BY DEF Stands
  <1>3. k \in Key
    BY GivenFacts
  <1>4. Maps(h, k, c[k])
    BY <1>2, <1>3, EmptyFacts DEF Carries
  <1>5. PICK rest : rest = <<>>
    OBVIOUS
  <1>6. Stores(N, h, k, v, rest, r) \/ Overflows(h, k, v, rest, r)
    BY <1>1, <1>2, <1>5, PutTidy
  <1>7. ~Overflows(h, k, v, rest, r)
    BY <1>4 DEF Overflows, Maps
  <1>8. QED
    BY <1>5, <1>6, <1>7 DEF Stores

\* The invariant holds initially and every step of the program, of a resize
\* and of the collector preserves it.
THEOREM TableStands == Spec => []Inv
  <1>1. Init => Inv
    <2> SUFFICES ASSUME Init
                 PROVE  Inv
      OBVIOUS
    <2>1. t = luaH_new /\ todo = <<>> /\ content = [k \in Key |-> NULL] /\ due = {}
      BY DEF Init
    <2>2. \A x \in Key : content[x] = NULL
      BY <2>1
    <2>3. Stands(luaH_new, <<>>, content)
      BY <2>2, NewStands
    <2>4. content \in [Key -> Value]
      BY <2>1 DEF Value
    <2>5. QED
      BY <2>1, <2>3, <2>4 DEF Inv
  <1>2. Inv /\ [Next]_vars => Inv'
    <2> SUFFICES ASSUME Inv, [Next]_vars
                 PROVE  Inv'
      OBVIOUS
    <2>1. /\ content \in [Key -> Value] /\ Stands(t, todo, content) /\ due \in SUBSET Key
          /\ due # {} => todo = <<>> /\ \A k \in due : content[k] # NULL
      BY DEF Inv
    <2>2. \/ \E k \in Given : Set(k, normal(k)) \/ Set(k, NULL)
          \/ Reinsert \/ SetList(2) \/ (\E n \in DOMAIN t.node : DeadKey(n))
          \/ StartTraversal \/ NextKey \/ UNCHANGED vars
      BY DEF Next
    <2>3. ASSUME NEW given \in Given, NEW v \in Value, Set(given, v)
          PROVE  Inv'
      <3>1. PICK k \in Key : k = normal(given)
        BY GivenFacts
      <3>2. PICK r : r = luaH_put(t, given, v, <<>>)
        OBVIOUS
      <3>3. /\ todo = <<>> /\ (due # {} => content[k] # NULL)
            /\ t' = r.t /\ todo' = r.todo /\ content' = [content EXCEPT ![k] = v]
            /\ due' = IF v = NULL THEN due \ {k} ELSE due
        BY <2>3, <3>1, <3>2 DEF Set
      <3>4. PICK d : d = [content EXCEPT ![k] = v]
        OBVIOUS
      <3>5. d \in [Key -> Value] /\ \A x \in Key : d[x] = IF x = k THEN v ELSE content[x]
        BY <2>1, <3>4
      <3>6. Stands(t, <<>>, content)
        BY <2>1, <3>3
      <3>7. PICK e : e = [key |-> k, val |-> v]
        OBVIOUS
      <3>8. Stands(r.t, r.todo, d)
        BY <3>1, <3>2, <3>5, <3>6, <3>7, EmptyFacts, PutStands
      <3>9. due # {} => r.todo = <<>>
        BY <3>1, <3>2, <3>3, <3>6, PutExisting
      <3>10. due' \in SUBSET Key /\ (due' # {} => todo' = <<>>)
        BY <2>1, <3>3, <3>9
      <3>11. ASSUME NEW x \in due'
             PROVE  content'[x] # NULL
        <4>1. x \in due /\ x \in Key /\ (v = NULL => x # k)
          BY <2>1, <3>3, <3>11
        <4>2. content[x] # NULL
          BY <4>1, <2>1
        <4>3. QED
          BY <4>1, <4>2, <3>3, <3>4, <3>5
      <3>12. Stands(t', todo', content') /\ content' \in [Key -> Value]
        BY <3>3, <3>4, <3>5, <3>8
      <3>13. QED
        BY <3>10, <3>11, <3>12 DEF Inv
    <2>4. CASE \E k \in Given : Set(k, normal(k)) \/ Set(k, NULL)
      <3>1. \A k \in Given : normal(k) \in Value /\ NULL \in Value
        BY GivenFacts DEF Value
      <3>2. QED
        <4>1. PICK k \in Given : Set(k, normal(k)) \/ Set(k, NULL)
          BY <2>4
        <4>2. CASE Set(k, normal(k))
          BY <4>2, <3>1, <2>3
        <4>3. CASE Set(k, NULL)
          BY <4>3, <3>1, <2>3
        <4>4. QED
          BY <4>1, <4>2, <4>3
    <2>5. CASE Reinsert
      <3>1. PICK e, s : e = Head(todo) /\ s = Tail(todo)
        OBVIOUS
      <3>2. PICK r : r = luaH_put(t, e.key, e.val, s)
        OBVIOUS
      <3>3. /\ todo # <<>> /\ UNCHANGED <<content, due>>
            /\ e.key = NULL => todo' = s /\ t' = t
            /\ e.key # NULL => t' = r.t /\ todo' = r.todo
        BY <2>5, <3>1, <3>2 DEF Reinsert
      <3>4. due = {}
        BY <2>1, <3>3
      <3>5. /\ e \in Entries /\ s \in Seq(Entries)
            /\ e.key = NULL => Stands(t, s, content)
            /\ e.key # NULL => /\ e.key \in Key /\ content[e.key] = e.val
                               /\ \A w : ~Has(s, e.key, w)
                               /\ Stands(t, s, [content EXCEPT ![e.key] = NULL])
        <4>1. todo # <<>>
          BY <3>3
        <4>2. Sheds(t, s, content, e)
          BY <2>1, <3>1, <4>1, HeadStands
        <4>3. QED
          BY <4>2 DEF Sheds
      <3>6. ASSUME e.key # NULL
            PROVE  Stands(r.t, r.todo, content)
        <4>1. PICK k \in Key, v \in Value : k = e.key /\ v = e.val
          BY <3>5, <3>6 DEF Entries
        <4>2. PICK c : c = [content EXCEPT ![k] = NULL]
          OBVIOUS
        <4>3. \A x \in Key : content[x] = IF x = k THEN v ELSE c[x]
          BY <2>1, <3>5, <3>6, <4>1, <4>2
        <4>4. k \in Given /\ k = normal(k)
          BY KeyFacts
        <4>5. PICK f : f = [key |-> k, val |-> v]
          OBVIOUS
        <4>6. r = luaH_put(t, k, v, s)
          BY <3>2, <4>1
        <4>7. Stands(t, s, c) /\ \A w : ~Has(s, k, w)
          BY <3>5, <3>6, <4>1, <4>2
        <4>8. QED
          BY <3>5, <4>3, <4>4, <4>5, <4>6, <4>7, PutStands
      <3>7. Stands(t', todo', content)
        BY <3>3, <3>5, <3>6
      <3>8. Stands(t', todo', content')
        BY <3>3, <3>7
      <3>9. QED
        BY <2>1, <3>3, <3>4, <3>8 DEF Inv
    <2>6. CASE SetList(2)
      <3>1. PICK n \in Nat : n = IF t.dummy THEN 0 ELSE sizenode(t)
        <4>1. PICK N \in Nat \ {0} : t \in Tables(N)
          BY <2>1 DEF Stands
        <4>2. sizenode(t) = N
          BY <4>1, <2>1, NodeFacts DEF Stands, Tidy
        <4>3. QED
          BY <4>2
      <3>2. PICK r : r = luaH_resize(t, 2, n)
        OBVIOUS
      <3>3. todo = <<>> /\ t' = r.t /\ todo' = r.todo /\ due = {} /\ UNCHANGED <<content, due>>
        BY <2>6, <3>1, <3>2 DEF SetList, luaH_resizearray
      <3>4. Stands(t, <<>>, content)
        BY <2>1, <3>3
      <3>5. Stands(r.t, r.todo, content)
        BY <3>2, <3>4, ResizeStands
      <3>6. Stands(t', todo', content')
        BY <3>3, <3>5
      <3>7. QED
        BY <2>1, <3>3, <3>6 DEF Inv
    <2>7. ASSUME NEW n \in DOMAIN t.node, DeadKey(n)
          PROVE  Inv'
      <3>1. PICK g : g = [t EXCEPT !.node[n].dead = TRUE]
        OBVIOUS
      <3>2. /\ t.node[n].val = NULL /\ t.node[n].key # NULL
            /\ t' = g /\ UNCHANGED <<todo, content, due>>
        BY <2>7, <3>1 DEF DeadKey
      <3>3. n \in Nodes(t)
        BY DEF Nodes
      <3>4. Stands(g, todo, content)
        BY <2>1, <3>1, <3>2, <3>3, DeadStands
      <3>5. Stands(t', todo', content')
        BY <3>2, <3>4
      <3>6. QED
        BY <2>1, <3>2, <3>5 DEF Inv
    <2>8. CASE StartTraversal
      <3>1. /\ todo = <<>> /\ due' = {k \in Key : content[k] # NULL} /\ UNCHANGED <<t, todo, content>>
        BY <2>8 DEF StartTraversal
      <3>2. QED
        BY <2>1, <3>1 DEF Inv
    <2>9. CASE NextKey
      <3>1. UNCHANGED <<t, todo, content>> /\ (due' = due \/ due' = {}) /\ due # {}
        BY <2>9 DEF NextKey
      <3>2. QED
        BY <2>1, <3>1 DEF Inv
    <2>10. CASE UNCHANGED vars
      BY <2>1, <2>10 DEF vars, Inv
    <2>11. QED
      BY <2>2, <2>4, <2>5, <2>6, <2>7, <2>8, <2>9, <2>10
  <1>3. QED
    BY <1>1, <1>2, PTL DEF Spec

\* Whatever was stored under a key, and only that, is found under it, however
\* collisions, moves, rehashes and dead keys interleave, and every entry in use
\* can be reached from its main position.
THEOREM StoredIsFound == Spec => []FindsWhatWasStored
  <1>1. Inv => FindsWhatWasStored
    <2> SUFFICES ASSUME Inv, todo = <<>>
                 PROVE  ChainsComplete /\ \A k \in Given : luaH_get(t, k) = content[normal(k)]
      BY DEF FindsWhatWasStored
    <2>1. Stands(t, <<>>, content)
      BY DEF Inv
    <2>2. \A k \in Given : luaH_get(t, k) = content[normal(k)]
      BY <2>1, StandsGet
    <2>3. ASSUME NEW n \in Used(t)
          PROVE  n \in Linked(t, mainposition(t, t.node[n].key))
      <3>1. PICK N \in Nat \ {0} : t \in Tables(N)
        BY <2>1 DEF Stands
      <3>2. Tidy(t) /\ FreeAreUnlinked(t) /\ Housed(t)
        BY <2>1 DEF Stands, Tidy
      <3>3. /\ Nodes(t) = 0 .. N - 1 /\ Closed(t, 0 .. N - 1)
            /\ \A k \in Key : mainposition(t, k) \in 0 .. N - 1
            /\ \A m \in 0 .. N - 1 : t.node[m] \in Node
        BY <3>1, <3>2, NodeFacts
      <3>4. n \in Nodes(t) /\ t.node[n].val # NULL
        BY <2>3 DEF Used, Nodes
      <3>5. KeyOf(t, n) # NULL
        BY <3>2, <3>4 DEF FreeAreUnlinked, Free
      <3>6. KeyOf(t, n) \in Key
        BY <3>3, <3>4, <3>5 DEF KeyOf, Node, Value
      <3>7. PICK m \in 0 .. N - 1 : m = Home(t, n)
        BY <3>3, <3>6 DEF Home
      <3>8. Reach(t, m, n)
        BY <3>2, <3>4, <3>5, <3>7 DEF Housed
      <3>9. n \in Linked(t, m)
        BY <3>3, <3>8, LinkedIsReach DEF Nodes
      <3>10. QED
        BY <3>7, <3>9 DEF Home, KeyOf
    <2>4. QED
      BY <2>2, <2>3 DEF ChainsComplete
  <1>2. QED
    BY <1>1, TableStands, PTL

\* The array part that a resize installs has the size asked for.
LEMMA ResizedArray ==
  ASSUME NEW N \in Nat \ {0}, NEW h \in Tables(N), Indexed(h), NEW na \in Nat, NEW nh \in Nat,
         NEW g, g = luaH_resize(h, na, nh).t
  PROVE  sizearray(g) = na /\ \E M \in Nat \ {0} : Fresh(h, na, nh, g, M)
  <1>1. g = setnodevector(setarrayvector(h, na), nh)
    BY DEF luaH_resize
  <1>2. PICK M \in Nat \ {0} : Fresh(h, na, nh, g, M)
    BY <1>1, FreshTable
  <1>3. g.array \in Seq(Value) /\ g.array = Kept(h, na)
    BY <1>2 DEF Fresh, Tables
  <1>4. DOMAIN g.array = 1 .. na /\ DOMAIN g.array = 1 .. Len(g.array) /\ Len(g.array) \in Nat
    BY <1>3 DEF Kept
  <1>5. Len(g.array) = na
    BY <1>4
  <1>6. QED
    BY <1>2, <1>5 DEF sizearray

\* A rehash, however the table came about, picks the largest array part of
\* whose slots more than half would be used.
THEOREM ArrayIsMoreThanHalfUsed == Spec => []ArrayMoreThanHalfUsed
  <1>1. Inv => ArrayMoreThanHalfUsed
    <2> SUFFICES ASSUME Inv, NEW k \in Key, todo = <<>>,
                        NEW C, C = Candidates(t, k), NEW G, G = MoreThanHalf(C)
                 PROVE  sizearray(rehash(t, k).t) = IF G = {} THEN 0 ELSE twoto[Last(G)]
      BY DEF ArrayMoreThanHalfUsed, MoreThanHalf, UpTo
    <2>1. PICK N \in Nat \ {0} : t \in Tables(N) /\ Tidy(t) /\ Indexed(t)
      BY DEF Inv, Stands
    <2>2. PICK r : r = computesizes(nums(t, k), Cardinality(C))
      OBVIOUS
    <2>3. /\ r.n \in Nat /\ totaluse(t) - r.na \in Nat
          /\ r.n = IF G = {} THEN 0 ELSE twoto[Last(G)]
      BY <2>1, <2>2, RehashSizes
    <2>4. PICK na \in Nat, nh \in Nat : na = r.n /\ nh = totaluse(t) - r.na
      BY <2>3
    <2>5. PICK g : g = luaH_resize(t, na, nh).t
      OBVIOUS
    <2>6. rehash(t, k).t = g
      BY <2>2, <2>4, <2>5 DEF rehash
    <2>7. sizearray(g) = na
      BY <2>1, <2>5, ResizedArray
    <2>8. QED
      BY <2>3, <2>4, <2>6, <2>7
  <1>2. QED
    BY <1>1, TableStands, PTL

-----------------------------------------------------------------------------
(* The length. *)

\* One turn of binarysearch keeps the lower index zero or present and the upper
\* one absent, and brings them closer.
Between(h) == {z \in Nat \X Nat : z[1] < z[2] /\ (z[1] # 0 => present(h, z[1])) /\ ~present(h, z[2])}

Halved(h, z, a, b, y) ==
  /\ y \in Between(h) /\ a \in Nat /\ b \in Nat /\ a < b
  /\ y[2] - y[1] \in Nat /\ (y[2] - y[1] <= 1 \/ y[2] - y[1] < b - a)
  /\ b - a <= 1 => y = z

LEMMA HalveFacts ==
  ASSUME NEW h, NEW z \in Between(h), NEW a, NEW b, a = z[1], b = z[2], NEW y, y = halve(h, a, b)
  PROVE  Halved(h, z, a, b, y)
  <1> SUFFICES /\ y \in Between(h) /\ a \in Nat /\ b \in Nat /\ a < b
               /\ y[2] - y[1] \in Nat /\ (y[2] - y[1] <= 1 \/ y[2] - y[1] < b - a)
               /\ b - a <= 1 => y = z
    BY DEF Halved
  <1>1. /\ a \in Nat /\ b \in Nat /\ a < b /\ (a # 0 => present(h, a)) /\ ~present(h, b)
        /\ z = <<a, b>>
    BY DEF Between
  <1>2. PICK m \in Nat : m = (a + b) \div 2
    BY <1>1
  <1>3. y = IF b - a <= 1 THEN <<a, b>> ELSE IF present(h, m) THEN <<m, b>> ELSE <<a, m>>
    BY <1>2 DEF halve
  <1>4. CASE b - a <= 1
    BY <1>1, <1>3, <1>4
  <1>5. CASE b - a > 1 /\ present(h, m)
    <2>1. y = <<m, b>>
      BY <1>1, <1>3, <1>5
    <2>2. a < m /\ m < b
      BY <1>1, <1>2, <1>5
    <2>3. y \in Between(h)
      BY <2>1, <2>2, <1>1, <1>5 DEF Between
    <2>4. QED
      BY <2>1, <2>2, <2>3, <1>1, <1>5
  <1>6. CASE b - a > 1 /\ ~present(h, m)
    <2>1. y = <<a, m>>
      BY <1>1, <1>3, <1>6
    <2>2. a < m /\ m < b
      BY <1>1, <1>2, <1>6
    <2>3. y \in Between(h)
      BY <2>1, <2>2, <1>1, <1>6 DEF Between
    <2>4. QED
      BY <2>1, <2>2, <2>3, <1>1, <1>6
  <1>7. QED
    <2>1. b - a <= 1 \/ b - a > 1
      BY <1>1
    <2>2. QED
      BY <2>1, <1>4, <1>5, <1>6

LEMMA HalvesFacts ==
  ASSUME NEW h, NEW i, NEW j, NEW x, x = <<i, j>>, x \in Between(h), NEW p, p = halves(h, i, j)
  PROVE  /\ p[0] = x
         /\ \A n \in Nat : p[n] \in Between(h) /\ p[n + 1] = halve(h, p[n][1], p[n][2])
  <1> DEFINE D == Between(h)
             F == [z \in Nat \X D |-> halve(h, z[2][1], z[2][2])]
  <1>1. F \in [Nat \X D -> D]
    <2>1. \A z \in D : halve(h, z[1], z[2]) \in D
      <3> SUFFICES ASSUME NEW z \in D
                   PROVE  halve(h, z[1], z[2]) \in D
        OBVIOUS
      <3>1. PICK a, b, y : a = z[1] /\ b = z[2] /\ y = halve(h, a, b)
        OBVIOUS
      <3>2. y \in D
        BY <3>1, HalveFacts DEF Halved
      <3>3. QED
        BY <3>1, <3>2
    <2>2. QED
      <3> HIDE DEF D
      <3> QED
        BY <2>1
  <1>2. PICK q \in [Nat -> D] : Iterates(q, x, F)
    <2> HIDE DEF F
    <2> QED
      BY <1>1, Iteration
  <1>3. q = [n \in Nat |-> IF n = 0 THEN <<i, j>> ELSE halve(h, q[n - 1][1], q[n - 1][2])]
    <2>1. \A n \in Nat : q[n] = IF n = 0 THEN <<i, j>> ELSE halve(h, q[n - 1][1], q[n - 1][2])
      <3> SUFFICES ASSUME NEW n \in Nat
                   PROVE  q[n] = IF n = 0 THEN <<i, j>> ELSE halve(h, q[n - 1][1], q[n - 1][2])
        OBVIOUS
      <3>1. q[n] = IF n = 0 THEN x ELSE F[<<n, q[n - 1]>>]
        <4> HIDE DEF F
        <4> QED
          BY <1>2 DEF Iterates
      <3>2. n # 0 => n - 1 \in Nat /\ q[n - 1] \in D
        <4> HIDE DEF D
        <4> QED
          OBVIOUS
      <3>3. n # 0 => F[<<n, q[n - 1]>>] = halve(h, q[n - 1][1], q[n - 1][2])
        <4> HIDE DEF D
        <4> QED
          BY <3>2
      <3>4. QED
        <4> HIDE DEF F
        <4> QED
          BY <3>1, <3>3
    <2>2. q = [n \in Nat |-> q[n]]
      OBVIOUS
    <2>3. QED
      BY <2>1, <2>2
  <1>4. p = [n \in Nat |-> IF n = 0 THEN <<i, j>> ELSE halve(h, p[n - 1][1], p[n - 1][2])]
    BY <1>3 DEF halves
  <1>5. p[0] = x /\ \A n \in Nat : p[n + 1] = halve(h, p[n][1], p[n][2])
    BY <1>4
  <1> DEFINE T == {n \in Nat : p[n] \in D}
  <1>6. 0 \in T
    BY <1>5
  <1>7. ASSUME NEW n \in T
        PROVE  n + 1 \in T
    <2>1. PICK z \in D : z = p[n]
      OBVIOUS
    <2>2. PICK a, b, y : a = z[1] /\ b = z[2] /\ y = halve(h, a, b)
      OBVIOUS
    <2>3. y \in D /\ p[n + 1] = y /\ n \in Nat
      <3>1. y \in D
        BY <2>2, HalveFacts DEF Halved
      <3>2. p[n + 1] = y /\ n \in Nat
        BY <1>5, <2>1, <2>2
      <3>3. QED
        BY <3>1, <3>2
    <2>4. QED
      BY <2>3
  <1>8. \A n \in Nat : n \in T
    <2>1. T \in SUBSET Nat
      OBVIOUS
    <2>2. QED
      <3> HIDE DEF T
      <3> QED
        BY <1>6, <1>7, <2>1, Induction
  <1>9. QED
    BY <1>5, <1>8

\* A binary search between an index that is zero or present and one that is
\* not ends at a boundary.
Boundary(h, n) == n \in Nat /\ (n # 0 => present(h, n)) /\ ~present(h, n + 1)

LEMMA BinarySearch ==
  ASSUME NEW h, NEW i \in Nat, NEW j \in Nat, i < j, i # 0 => present(h, i), ~present(h, j)
  PROVE  Boundary(h, binarysearch(h, i, j))
  <1>1. PICK x, p : x = <<i, j>> /\ p = halves(h, i, j)
    OBVIOUS
  <1>2. x \in Between(h)
    BY <1>1 DEF Between
  <1>3. /\ p[0] = x
        /\ \A n \in Nat : p[n] \in Between(h) /\ p[n + 1] = halve(h, p[n][1], p[n][2])
    BY <1>1, <1>2, HalvesFacts
  <1>4. PICK d \in Nat : d = j - i
    OBVIOUS
  <1> DEFINE gap(n) == p[n][2] - p[n][1]
             T == {n \in Nat : gap(n) <= 1 \/ gap(n) + n <= d}
  <1>5. 0 \in T
    <2>1. gap(0) = d
      BY <1>1, <1>3, <1>4
    <2>2. QED
      BY <2>1
  <1>6. ASSUME NEW n \in T
        PROVE  n + 1 \in T
    <2>1. PICK z \in Between(h) : z = p[n]
      BY <1>3
    <2>7. PICK a, b, y : a = z[1] /\ b = z[2] /\ y = halve(h, a, b) /\ y = p[n + 1]
      BY <1>3, <2>1
    <2>2. /\ a \in Nat /\ b \in Nat /\ a < b
          /\ y[2] - y[1] \in Nat /\ (y[2] - y[1] <= 1 \/ y[2] - y[1] < b - a)
          /\ b - a <= 1 => y = z
      <3>1. Halved(h, z, a, b, y)
        BY <2>7, HalveFacts
      <3>2. QED
        BY <3>1 DEF Halved
    <2>3. n \in Nat /\ (b - a <= 1 \/ (b - a) + n <= d)
      BY <2>1, <2>7
    <2>4. CASE b - a <= 1
      <3>1. gap(n + 1) <= 1
        BY <2>1, <2>2, <2>4, <2>7
      <3>2. QED
        BY <2>3, <3>1
    <2>5. CASE ~(b - a <= 1)
      <3>1. PICK c \in Nat : c = y[2] - y[1] /\ gap(n + 1) = c
        BY <2>2, <2>7
      <3>2. c <= 1 \/ c + (n + 1) <= d
        BY <2>2, <2>3, <2>5, <3>1
      <3>3. QED
        BY <2>3, <3>1, <3>2
    <2>6. QED
      BY <2>4, <2>5
  <1>7. \A n \in Nat : n \in T
    <2>1. T \in SUBSET Nat
      OBVIOUS
    <2>2. QED
      <3> HIDE DEF T
      <3> QED
        BY <1>5, <1>6, <2>1, Induction
  <1>8. PICK z \in Between(h), a \in Nat, b \in Nat : z = p[d] /\ a = z[1] /\ b = z[2]
    BY <1>3, <1>4 DEF Between
  <1>9. b - a <= 1 \/ (b - a) + d <= d
    BY <1>7, <1>8
  <1>10. a < b /\ (a # 0 => present(h, a)) /\ ~present(h, b)
    BY <1>8 DEF Between
  <1>11. b = a + 1
    BY <1>9, <1>10
  <1>12. binarysearch(h, i, j) = a
    BY <1>1, <1>4, <1>8 DEF binarysearch
  <1>13. QED
    BY <1>10, <1>11, <1>12 DEF Boundary

\* An integer that is present has a slot or a node of its own.
LEMMA PresentFacts ==
  ASSUME NEW N \in Nat \ {0}, NEW h \in Tables(N), Tidy(h), Indexed(h), NEW i \in Nat,
         present(h, i)
  PROVE  /\ int(i) \in Key
         /\ i \in 1 .. Len(h.array) \/ \E n \in Nodes(h) : KeyOf(h, n) = int(i)
  <1>1. PICK k : k = int(i)
    OBVIOUS
  <1>2. k.tt = "int" /\ k.n = i /\ normal(k) = k
    BY <1>1 DEF int, normal
  <1>3. luaH_get(h, k) # NULL
    BY <1>1 DEF present
  <1>4. luaH_get(h, k) =
          IF inarray(h, k) THEN h.array[k.n]
          ELSE IF search(h, k, FALSE) = NULL THEN NULL ELSE h.node[search(h, k, FALSE)].val
    BY <1>2 DEF luaH_get
  <1>5. h.array \in Seq(Value) /\ DOMAIN h.array = 1 .. Len(h.array)
    BY DEF Tables
  <1>6. CASE inarray(h, k)
    <2>1. i \in 1 .. Len(h.array) /\ h.array[i] # NULL
      BY <1>2, <1>3, <1>4, <1>5, <1>6 DEF inarray
    <2>2. QED
      BY <2>1, <1>5 DEF Indexed
  <1>7. CASE ~inarray(h, k)
    <2>1. PICK s : s = search(h, k, FALSE)
      OBVIOUS
    <2>2. s # NULL /\ h.node[s].val # NULL
      BY <2>1, <1>3, <1>4, <1>7
    <2>3. /\ Nodes(h) = 0 .. N - 1 /\ sizenode(h) = N /\ Closed(h, 0 .. N - 1)
          /\ \A n \in 0 .. N - 1 : h.node[n] \in Node
      BY NodeFacts DEF Tidy
    <2>4. PICK D : D = 0 .. N - 1
      OBVIOUS
    <2>5. PICK m \in D : m = mainposition(h, k)
      <3>1. i % N \in 0 .. N - 1
        OBVIOUS
      <3>2. QED
        BY <3>1, <2>3, <2>4, <1>2 DEF mainposition
    <2>6. PICK p : p = walk(h, m)
      OBVIOUS
    <2>7. p \in [Nat -> D]
      <3>1. D \in SUBSET Nat /\ Closed(h, D)
        BY <2>3, <2>4
      <3>2. QED
        BY <3>1, <2>6, Walk
    <2>8. PICK found : found = {j \in 0 .. sizenode(h) - 1 :
                                  h.node[p[j]].key = k /\ (h.node[p[j]].dead => FALSE)}
      OBVIOUS
    <2>9. s = IF found = {} THEN NULL ELSE p[First(found)]
      BY <2>1, <2>5, <2>6, <2>8 DEF search
    <2>10. found # {} /\ found \in SUBSET Nat
      <3>1. found # {}
        BY <2>2, <2>9
      <3>2. found \subseteq 0 .. N - 1
        BY <2>3, <2>8
      <3>3. QED
        BY <3>1, <3>2
    <2>11. First(found) \in found
      BY <2>10, FirstFacts
    <2>12. s \in D /\ h.node[s].key = k
      BY <2>7, <2>8, <2>9, <2>10, <2>11
    <2>13. KeyOf(h, s) = k /\ s \in Nodes(h)
      BY <2>3, <2>4, <2>12 DEF KeyOf
    <2>14. KeyOf(h, s) # NULL
      BY <2>2, <2>13 DEF Tidy, FreeAreUnlinked, Free
    <2>15. k \in Key
      BY <2>3, <2>4, <2>12, <2>13, <2>14 DEF Node, Value
    <2>16. QED
      BY <2>13, <2>15, <1>1
  <1>8. QED
    BY <1>6, <1>7

\* There are not enough slots and nodes for all the integers that the linear
\* search tries.
LEMMA LinearSearch ==
  ASSUME NEW N \in Nat \ {0}, NEW h \in Tables(N), Tidy(h), Indexed(h)
  PROVE  Boundary(h, linearsearch(h))
  <1>1. PICK A \in Nat : A = Len(h.array) /\ A = sizearray(h)
    BY DEF Tables, sizearray
  <1>2. Nodes(h) = 0 .. N - 1 /\ sizenode(h) = N
    BY NodeFacts DEF Tidy
  <1>3. PICK L \in Nat : L = A + N + 1
    OBVIOUS
  <1>4. PICK S : S = {i \in 1 .. L : ~present(h, i)}
    OBVIOUS
  <1>5. S # {}
    <2> SUFFICES ASSUME S = {}
                 PROVE  FALSE
      OBVIOUS
    <2>1. \A i \in 1 .. L : present(h, i)
      BY <1>4
    <2>2. ASSUME NEW i \in 1 .. L, ~(i <= A)
          PROVE  \E n \in Nodes(h) : KeyOf(h, n) = int(i)
      <3>1. i \in Nat /\ present(h, i) /\ i \notin 1 .. Len(h.array)
        BY <2>1, <2>2, <1>1
      <3>2. QED
        BY <3>1, PresentFacts
    <2> DEFINE place(i) == CHOOSE n \in Nodes(h) : KeyOf(h, n) = int(i)
               f == [i \in 1 .. L |-> IF i <= A THEN i ELSE A + 1 + place(i)]
    <2>3. \A i \in 1 .. L : ~(i <= A) => place(i) \in 0 .. N - 1 /\ KeyOf(h, place(i)) = int(i)
      BY <2>2, <1>2
    <2> HIDE DEF place
    <2>4. f \in [1 .. L -> 1 .. A + N]
      <3>1. ASSUME NEW i \in 1 .. L
            PROVE  (IF i <= A THEN i ELSE A + 1 + place(i)) \in 1 .. A + N
        <4>1. CASE i <= A
          BY <4>1
        <4>2. CASE ~(i <= A)
          <5>1. PICK n \in 0 .. N - 1 : n = place(i)
            BY <4>2, <2>3
          <5>2. A + 1 + n \in 1 .. A + N
            OBVIOUS
          <5>3. QED
            BY <4>2, <5>1, <5>2
        <4>3. QED
          BY <4>1, <4>2
      <3>2. QED
        BY <3>1
    <2>5. \E x, y \in 1 .. L : x # y /\ f[x] = f[y]
      <3>1. PICK X, Y : X = 1 .. L /\ Y = 1 .. A + N
        OBVIOUS
      <3>2. IsFiniteSet(X) /\ IsFiniteSet(Y) /\ Cardinality(Y) < Cardinality(X)
        <4>1. PICK z \in Int, u \in Int, v \in Int : z = 1 /\ u = L /\ v = A + N
          OBVIOUS
        <4>2. /\ IsFiniteSet(z .. u) /\ Cardinality(z .. u) = (IF z > u THEN 0 ELSE u - z + 1)
              /\ IsFiniteSet(z .. v) /\ Cardinality(z .. v) = (IF z > v THEN 0 ELSE v - z + 1)
          BY FS_Interval
        <4>3. QED
          BY <4>1, <4>2, <3>1, <1>3
      <3>3. f \in [X -> Y]
        BY <2>4, <3>1
      <3>4. \E x, y \in X : x # y /\ f[x] = f[y]
        <4> HIDE DEF f
        <4> QED
          BY <3>2, <3>3, FS_PigeonHole
      <3>5. QED
        BY <3>1, <3>4
    <2>6. PICK x \in 1 .. L, y \in 1 .. L : x # y /\ f[x] = f[y]
      BY <2>5
    <2>7. (x <= A => f[x] = x) /\ (y <= A => f[y] = y)
      OBVIOUS
    <2>8. ~(x <= A) => f[x] = A + 1 + place(x) /\ place(x) \in 0 .. N - 1
      BY <2>3
    <2>9. ~(y <= A) => f[y] = A + 1 + place(y) /\ place(y) \in 0 .. N - 1
      BY <2>3
    <2>10. ~(x <= A) /\ ~(y <= A) /\ place(x) = place(y)
      <3> HIDE DEF f
      <3> QED
        BY <2>6, <2>7, <2>8, <2>9
    <2>11. int(x) = int(y)
      BY <2>3, <2>10
    <2>12. QED
      BY <2>6, <2>11 DEF int
  <1>6. PICK i \in S : i = First(S) /\ \A j \in S : i <= j
    <2>1. S \in SUBSET Nat
      BY <1>4
    <2>2. First(S) \in S /\ \A j \in S : First(S) <= j
      BY <2>1, <1>5, FirstFacts
    <2>3. QED
      BY <2>2
  <1>7. linearsearch(h) = i - 1
    BY <1>1, <1>2, <1>3, <1>4, <1>6 DEF linearsearch
  <1>8. i \in 1 .. L /\ ~present(h, i)
    BY <1>4
  <1>9. PICK j \in Nat : j = i - 1 /\ j + 1 = i
    BY <1>8
  <1>10. j # 0 => present(h, j)
    BY <1>4, <1>6, <1>8, <1>9
  <1>11. QED
    BY <1>7, <1>8, <1>9, <1>10 DEF Boundary

\* The probes double, hence pass every bound.
LEMMA ProbeFacts ==
  ASSUME NEW j \in Nat, NEW p, p = probe(j)
  PROVE  p[0] = j + 1 /\ \A n \in Nat : p[n] \in Nat /\ p[n + 1] = 2 * p[n] /\ n < p[n]
  <1> DEFINE F == [z \in Nat \X Nat |-> 2 * z[2]]
  <1>1. PICK q \in [Nat -> Nat] : Iterates(q, j + 1, F)
    <2>1. F \in [Nat \X Nat -> Nat] /\ j + 1 \in Nat
      OBVIOUS
    <2> HIDE DEF F
    <2>2. QED
      BY <2>1, Iteration
  <1>2. q = [n \in Nat |-> IF n = 0 THEN j + 1 ELSE 2 * q[n - 1]]
    <2>1. \A n \in Nat : q[n] = IF n = 0 THEN j + 1 ELSE 2 * q[n - 1]
      <3> SUFFICES ASSUME NEW n \in Nat
                   PROVE  q[n] = IF n = 0 THEN j + 1 ELSE 2 * q[n - 1]
        OBVIOUS
      <3>1. q[n] = IF n = 0 THEN j + 1 ELSE F[<<n, q[n - 1]>>]
        <4> HIDE DEF F
        <4> QED
          BY <1>1 DEF Iterates
      <3>2. n # 0 => n - 1 \in Nat /\ q[n - 1] \in Nat
        OBVIOUS
      <3>3. QED
        BY <3>1, <3>2
    <2>2. q = [n \in Nat |-> q[n]]
      OBVIOUS
    <2>3. QED
      BY <2>1, <2>2
  <1>3. p = [n \in Nat |-> IF n = 0 THEN j + 1 ELSE 2 * p[n - 1]]
    BY <1>2 DEF probe
  <1>4. p[0] = j + 1 /\ \A n \in Nat : p[n + 1] = 2 * p[n]
    <2>1. \A n \in Nat : p[n] = IF n = 0 THEN j + 1 ELSE 2 * p[n - 1]
      BY <1>3
    <2>2. ASSUME NEW n \in Nat
          PROVE  p[n + 1] = 2 * p[n]
      <3>1. n + 1 \in Nat /\ n + 1 # 0 /\ (n + 1) - 1 = n
        OBVIOUS
      <3>2. p[n + 1] = 2 * p[(n + 1) - 1]
        BY <2>1, <3>1
      <3>3. QED
        BY <3>1, <3>2
    <2>3. QED
      BY <2>1, <2>2
  <1> DEFINE T == {n \in Nat : p[n] \in Nat /\ n < p[n]}
  <1>5. 0 \in T
    BY <1>4
  <1>6. ASSUME NEW n \in T
        PROVE  n + 1 \in T
    BY <1>4
  <1>7. \A n \in Nat : n \in T
    <2>1. T \in SUBSET Nat
      OBVIOUS
    <2>2. QED
      <3> HIDE DEF T
      <3> QED
        BY <1>5, <1>6, <2>1, Induction
  <1>8. QED
    BY <1>4, <1>7

LEMMA UnboundSearch ==
  ASSUME NEW N \in Nat \ {0}, NEW h \in Tables(N), Tidy(h), Indexed(h),
         NEW j \in Nat, j # 0 => present(h, j)
  PROVE  Boundary(h, unbound_search(h, j))
  <1>1. PICK p : p = probe(j)
    OBVIOUS
  <1>2. p[0] = j + 1 /\ \A n \in Nat : p[n] \in Nat /\ p[n + 1] = 2 * p[n] /\ n < p[n]
    BY <1>1, ProbeFacts
  <1>3. PICK S : S = {n \in 0 .. MAX_INT : ~present(h, p[n]) \/ p[n] > MAX_INT \div 2}
    OBVIOUS
  <1>4. S # {} /\ S \in SUBSET Nat
    <2>1. MAX_INT \in Nat /\ MAX_INT \in 0 .. MAX_INT
      BY TableAssumption
    <2>2. p[MAX_INT] \in Nat /\ MAX_INT < p[MAX_INT]
      BY <2>1, <1>2
    <2>3. p[MAX_INT] > MAX_INT \div 2
      BY <2>1, <2>2
    <2>4. MAX_INT \in S
      BY <2>1, <2>3, <1>3
    <2>5. QED
      BY <2>1, <2>4, <1>3
  <1>5. PICK n \in S : n = First(S) /\ \A i \in S : n <= i
    <2>1. First(S) \in S /\ \A i \in S : First(S) <= i
      BY <1>4, FirstFacts
    <2>2. QED
      BY <2>1
  <1>6. PICK top \in Nat : top = p[n] /\ n \in Nat
    BY <1>2, <1>4
  <1>7. PICK i : i = IF n = 0 THEN j ELSE p[n - 1]
    OBVIOUS
  <1>8. unbound_search(h, j) = IF present(h, top) THEN linearsearch(h) ELSE binarysearch(h, i, top)
    BY <1>1, <1>3, <1>5, <1>6, <1>7 DEF unbound_search
  <1>9. CASE present(h, top)
    BY <1>8, <1>9, LinearSearch
  <1>10. CASE ~present(h, top)
    <2>1. i \in Nat /\ i < top /\ (i # 0 => present(h, i))
      <3>1. CASE n = 0
        BY <3>1, <1>2, <1>6, <1>7
      <3>2. CASE n # 0
        <4>1. PICK m \in Nat : m = n - 1 /\ m + 1 = n
          BY <3>2, <1>6
        <4>2. m \notin S
          BY <4>1, <1>5, <1>6
        <4>3. n \in 0 .. MAX_INT
          BY <1>3
        <4>4. m \in 0 .. MAX_INT
          BY <4>1, <4>3, TableAssumption
        <4>5. present(h, p[m])
          BY <4>2, <4>4, <1>3
        <4>6. p[m] \in Nat /\ m < p[m] /\ top = 2 * p[m]
          BY <4>1, <1>2, <1>6
        <4>7. i = p[m]
          BY <3>2, <4>1, <1>7
        <4>8. QED
          BY <4>5, <4>6, <4>7
      <3>3. QED
        BY <3>1, <3>2
    <2>2. Boundary(h, binarysearch(h, i, top))
      BY <2>1, <1>10, BinarySearch
    <2>3. QED
      BY <2>2, <1>8, <1>10
  <1>11. QED
    BY <1>9, <1>10

\* The length is a boundary of the table's integer keys.
LEMMA GetnBoundary ==
  ASSUME NEW N \in Nat \ {0}, NEW h \in Tables(N), Tidy(h), Indexed(h)
  PROVE  Boundary(h, luaH_getn(h))
  <1>1. h.array \in Seq(Value) /\ DOMAIN h.array = 1 .. Len(h.array)
    BY DEF Tables
  <1>2. PICK j \in Nat : j = sizearray(h) /\ j = Len(h.array)
    BY <1>1 DEF sizearray
  <1>3. j # 0 => (present(h, j) <=> h.array[j] # NULL)
    <2> SUFFICES ASSUME j # 0
                 PROVE  present(h, j) <=> h.array[j] # NULL
      OBVIOUS
    <2>1. PICK k : k = int(j)
      OBVIOUS
    <2>2. k.tt = "int" /\ k.n = j /\ normal(k) = k
      BY <2>1 DEF int, normal
    <2>3. inarray(h, k)
      BY <2>2, <1>1, <1>2 DEF inarray
    <2>4. luaH_get(h, k) = h.array[j]
      BY <2>2, <2>3 DEF luaH_get
    <2>5. QED
      BY <2>1, <2>4 DEF present
  <1>4. CASE j > 0 /\ h.array[j] = NULL
    <2>1. luaH_getn(h) = binarysearch(h, 0, j)
      BY <1>2, <1>4 DEF luaH_getn
    <2>2. PICK z \in Nat : z = 0
      OBVIOUS
    <2>3. z < j /\ (z # 0 => present(h, z)) /\ ~present(h, j)
      BY <2>2, <1>3, <1>4
    <2>4. Boundary(h, binarysearch(h, z, j))
      BY <2>3, BinarySearch
    <2>5. QED
      BY <2>1, <2>2, <2>4
  <1>5. CASE ~(j > 0 /\ h.array[j] = NULL) /\ h.dummy
    <2>1. luaH_getn(h) = j
      BY <1>2, <1>5 DEF luaH_getn
    <2>2. j # 0 => present(h, j)
      BY <1>3, <1>5
    <2>3. ~present(h, j + 1)
      <3> SUFFICES ASSUME present(h, j + 1)
                   PROVE  FALSE
        OBVIOUS
      <3>1. PICK i \in Nat : i = j + 1 /\ i \notin 1 .. Len(h.array)
        BY <1>2
      <3>2. int(i) \in Key /\ \E n \in Nodes(h) : KeyOf(h, n) = int(i)
        BY <3>1, PresentFacts
      <3>3. QED
        BY <3>2, <1>5, KeyFacts DEF Tidy, Placed
    <2>4. QED
      BY <2>1, <2>2, <2>3 DEF Boundary
  <1>6. CASE ~(j > 0 /\ h.array[j] = NULL) /\ ~h.dummy
    <2>1. luaH_getn(h) = unbound_search(h, j)
      BY <1>2, <1>6 DEF luaH_getn
    <2>2. j # 0 => present(h, j)
      BY <1>3, <1>6
    <2>3. QED
      BY <2>1, <2>2, UnboundSearch
  <1>7. QED
    BY <1>4, <1>5, <1>6

\* However the table came about, the length that luaH_getn finds, by bisection
\* of the array part, by doubling and bisection in the hash part or one by one,
\* is that of a boundary.
THEOREM LengthIsABoundary == Spec => []LengthIsBoundary
  <1>1. Inv => LengthIsBoundary
    <2> SUFFICES ASSUME Inv, todo = <<>>, NEW n, n = luaH_getn(t)
                 PROVE  /\ n = 0 \/ (n \in Ints /\ content[int(n)] # NULL)
                        /\ ~(n + 1 \in Ints /\ content[int(n + 1)] # NULL)
      BY DEF LengthIsBoundary
    <2>1. Stands(t, <<>>, content)
      BY DEF Inv
    <2>2. PICK N \in Nat \ {0} : t \in Tables(N) /\ Tidy(t) /\ Indexed(t)
      BY <2>1 DEF Stands
    <2>3. n \in Nat /\ (n # 0 => present(t, n)) /\ ~present(t, n + 1)
      BY <2>2, GetnBoundary DEF Boundary
    <2>4. ASSUME NEW i \in Nat
          PROVE  present(t, i) <=> i \in Ints /\ content[int(i)] # NULL
      <3>1. int(i) \in Key <=> i \in Ints
        BY DEF Key, int
      <3>2. present(t, i) => int(i) \in Key
        BY <2>2, PresentFacts
      <3>3. ASSUME int(i) \in Key
            PROVE  luaH_get(t, int(i)) = content[int(i)]
        <4>1. PICK k \in Key : k = int(i) /\ k \in Given /\ normal(k) = k
          BY <3>3, KeyFacts
        <4>2. QED
          BY <4>1, <2>1, StandsGet
      <3>4. QED
        BY <3>1, <3>2, <3>3 DEF present
    <2>5. QED
      BY <2>3, <2>4
  <1>2. QED
    BY <1>1, TableStands, PTL

-----------------------------------------------------------------------------
(* Traversals. *)

\* An index of the order of traversals whose key has a value is that key's.
LEMMA KeyatFacts ==
  ASSUME NEW N \in Nat \ {0}, NEW h \in Tables(N), Tidy(h), Indexed(h),
         NEW i \in 1 .. sizearray(h) + sizenode(h), NEW k, k = keyat(h, i), k # NULL
  PROVE  k \in Key /\ findindex(h, k) = i /\ ~Maps(h, k, NULL)
  <1>1. PICK A \in Nat : A = Len(h.array) /\ A = sizearray(h)
    BY DEF Tables, sizearray
  <1>2. DOMAIN h.array = 1 .. A
    <2>1. h.array \in Seq(Value) /\ DOMAIN h.array = 1 .. Len(h.array)
      BY DEF Tables
    <2>2. QED
      BY <1>1, <2>1
  <1>3. Nodes(h) = 0 .. N - 1 /\ sizenode(h) = N /\ \A n \in 0 .. N - 1 : h.node[n] \in Node
    BY NodeFacts DEF Tidy
  <1>4. i \in 1 .. A + N
    BY <1>1, <1>3
  <1>5. CASE i <= A
    <2>1. h.array[i] # NULL /\ k = int(i)
      BY <1>1, <1>5 DEF keyat
    <2>2. i \in DOMAIN h.array
      BY <1>2, <1>4, <1>5
    <2>3. k \in Key /\ k.tt = "int" /\ k.n = i
      BY <2>1, <2>2 DEF Indexed, int
    <2>4. inarray(h, k)
      BY <2>2, <2>3 DEF inarray
    <2>5. findindex(h, k) = i
      BY <2>3, <2>4 DEF findindex
    <2>6. QED
      BY <2>1, <2>3, <2>4, <2>5 DEF Maps
  <1>6. CASE ~(i <= A)
    <2>1. PICK n \in 0 .. N - 1 : n = i - A - 1 /\ n + 1 + A = i
      BY <1>4, <1>6
    <2>2. h.node[n].val # NULL /\ k = KeyOf(h, n)
      BY <1>1, <1>6, <2>1 DEF keyat, KeyOf
    <2>3. k \in Key
      BY <1>3, <2>2 DEF Node, KeyOf, Value
    <2>4. n \in Nodes(h) /\ ~h.node[n].dead /\ ~inarray(h, k)
      BY <1>3, <2>2 DEF Tidy, LiveFirst, Placed
    <2>5. search(h, k, TRUE) = n
      BY <2>2, <2>3, <2>4, SearchLive
    <2>6. n # NULL /\ k # NULL
      BY NullAssumption
    <2>7. findindex(h, k) = i
      BY <2>1, <2>4, <2>5, <2>6, <1>1 DEF findindex
    <2>8. Holds(h, k, FALSE, n)
      BY <2>2, <2>4 DEF Holds
    <2>9. QED
      BY <2>2, <2>3, <2>4, <2>7, <2>8 DEF Maps
  <1>7. QED
    BY <1>5, <1>6

\* A key that has a value is in the order of traversals.
LEMMA IndexFacts ==
  ASSUME NEW N \in Nat \ {0}, NEW h \in Tables(N), Tidy(h), Indexed(h), NEW k \in Key,
         ~Maps(h, k, NULL)
  PROVE  findindex(h, k) \in 1 .. sizearray(h) + sizenode(h) /\ keyat(h, findindex(h, k)) = k
  <1>1. PICK A \in Nat : A = Len(h.array) /\ A = sizearray(h)
    BY DEF Tables, sizearray
  <1>2. DOMAIN h.array = 1 .. A
    <2>1. h.array \in Seq(Value) /\ DOMAIN h.array = 1 .. Len(h.array)
      BY DEF Tables
    <2>2. QED
      BY <1>1, <2>1
  <1>3. Nodes(h) = 0 .. N - 1 /\ sizenode(h) = N
    BY NodeFacts DEF Tidy
  <1>4. k # NULL
    BY KeyFacts
  <1>5. CASE inarray(h, k)
    <2>1. k.tt = "int" /\ k.n \in 1 .. A /\ h.array[k.n] # NULL /\ k = int(k.n)
      BY <1>2, <1>5, KeyFacts DEF inarray, Maps
    <2>2. findindex(h, k) = k.n
      BY <1>4, <1>5 DEF findindex
    <2>3. keyat(h, k.n) = k
      BY <2>1, <1>1 DEF keyat
    <2>4. k.n \in 1 .. A + N
      BY <2>1
    <2>5. QED
      BY <2>2, <2>3, <2>4, <1>1, <1>3
  <1>6. CASE ~inarray(h, k)
    <2>1. PICK n \in Nodes(h) : Holds(h, k, FALSE, n) /\ h.node[n].val # NULL
      BY <1>6 DEF Maps
    <2>2. KeyOf(h, n) = k /\ ~h.node[n].dead
      BY <2>1 DEF Holds
    <2>3. search(h, k, TRUE) = n
      BY <2>2, SearchLive
    <2>4. n \in Nat /\ n \in 0 .. N - 1 /\ n # NULL
      BY <1>3, NullAssumption
    <2>5. findindex(h, k) = n + 1 + A
      BY <2>3, <2>4, <1>1, <1>4, <1>6 DEF findindex
    <2>6. PICK i \in 1 .. A + N : i = n + 1 + A /\ ~(i <= A) /\ i - A - 1 = n
      BY <2>4
    <2>7. keyat(h, i) = k
      BY <2>1, <2>2, <2>6, <1>1 DEF keyat, KeyOf
    <2>8. QED
      BY <2>5, <2>6, <2>7, <1>1, <1>3
  <1>7. QED
    BY <1>5, <1>6

\* The places of the keys are the same.
SamePlaces(h, g) ==
  /\ DOMAIN g.array = DOMAIN h.array /\ Nodes(g) = Nodes(h)
  /\ \A n \in Nodes(h) : KeyOf(g, n) = KeyOf(h, n) /\ g.node[n].next = h.node[n].next

LEMMA SameIndex ==
  ASSUME NEW M \in Nat \ {0}, NEW h \in Tables(M), Tidy(h),
         NEW N \in Nat \ {0}, NEW g \in Tables(N), Tidy(g), SamePlaces(h, g), NEW k \in Key
  PROVE  findindex(g, k) = findindex(h, k)
  <1>1. Nodes(g) = Nodes(h) /\ \A n \in Nodes(h) : g.node[n].next = h.node[n].next
    BY DEF SamePlaces
  <1>2. \A m, n : Reach(g, m, n) <=> Reach(h, m, n)
    BY <1>1, SameLinks
  <1>3. \A n : Holds(g, k, TRUE, n) <=> Holds(h, k, TRUE, n)
    BY <1>1 DEF SamePlaces, Holds
  <1>4. search(g, k, TRUE) = search(h, k, TRUE)
    <2>1. PICK r, s : r = search(h, k, TRUE) /\ s = search(g, k, TRUE)
      OBVIOUS
    <2>2. \/ r = NULL /\ \A n : ~Holds(h, k, TRUE, n)
          \/ Holds(h, k, TRUE, r) /\ \A n : Holds(h, k, TRUE, n) => Reach(h, r, n)
      BY <2>1, SearchFacts
    <2>3. \/ s = NULL /\ \A n : ~Holds(g, k, TRUE, n)
          \/ Holds(g, k, TRUE, s) /\ \A n : Holds(g, k, TRUE, n) => Reach(g, s, n)
      BY <2>1, SearchFacts
    <2>4. \A m, n \in Nodes(h) : Reach(h, m, n) /\ Reach(h, n, m) => m = n
      BY DEF Tidy, Chained
    <2>5. \A n : Holds(h, k, TRUE, n) => n \in Nodes(h)
      BY DEF Holds
    <2>6. QED
      BY <2>1, <2>2, <2>3, <2>4, <2>5, <1>2, <1>3
  <1>5. inarray(g, k) <=> inarray(h, k)
    BY DEF SamePlaces, inarray
  <1>6. sizearray(g) = sizearray(h)
    <2>1. PICK a \in Nat, b \in Nat : a = Len(g.array) /\ b = Len(h.array)
      BY DEF Tables
    <2>2. DOMAIN g.array = 1 .. a /\ DOMAIN h.array = 1 .. b
      BY <2>1 DEF Tables
    <2>3. 1 .. a = 1 .. b
      BY <2>2 DEF SamePlaces
    <2>4. a = b
      BY <2>3
    <2>5. QED
      BY <2>1, <2>4 DEF sizearray
  <1>7. QED
    BY <1>4, <1>5, <1>6 DEF findindex

\* An assignment to an existing field moves no key.
LEMMA PutInPlace ==
  ASSUME NEW h, NEW c, Stands(h, <<>>, c), NEW given \in Given, NEW k, k = normal(given),
         c[k] # NULL, NEW v \in Value, NEW r, r = luaH_put(h, given, v, <<>>)
  PROVE  SamePlaces(h, r.t)
  <1>1. PICK N \in Nat \ {0} : h \in Tables(N)
    BY DEF Stands
  <1>2. Tidy(h) /\ Carries(h, <<>>, c)
    BY DEF Stands
  <1>3. k \in Key
    BY GivenFacts
  <1>4. ~Maps(h, k, NULL)
    <2>1. Maps(h, k, c[k])
      BY <1>2, <1>3, EmptyFacts DEF Carries
    <2>2. QED
      BY <2>1, <1>1, <1>2, <1>3, GetMaps
  <1>5. CASE inarray(h, k)
    <2>1. r.t = [h EXCEPT !.array[k.n] = v]
      BY <1>5 DEF luaH_put
    <2>2. DOMAIN r.t.array = DOMAIN h.array /\ r.t.node = h.node
      BY <2>1, <1>1 DEF Tables
    <2>3. QED
      BY <2>2 DEF SamePlaces, Nodes, KeyOf
  <1>6. CASE ~inarray(h, k)
    <2>1. PICK n \in Nodes(h) : Holds(h, k, FALSE, n)
      BY <1>4, <1>6 DEF Maps
    <2>2. search(h, k, FALSE) = n
      BY <2>1, <1>1, <1>2, <1>3, SearchLive DEF Holds
    <2>3. Nodes(h) = 0 .. N - 1 /\ n # NULL
      BY <1>1, <1>2, NodeFacts, NullAssumption DEF Tidy
    <2>4. r.t = [h EXCEPT !.node[n].val = v]
      BY <2>2, <2>3, <1>6 DEF luaH_put
    <2>5. h.node \in [0 .. N - 1 -> Node]
      BY <1>1 DEF Tables
    <2>6. r.t.array = h.array /\ r.t.node = [h.node EXCEPT ![n].val = v]
      BY <2>4, <1>1 DEF Tables
    <2>7. /\ DOMAIN r.t.node = DOMAIN h.node
          /\ \A m \in 0 .. N - 1 : r.t.node[m].key = h.node[m].key /\ r.t.node[m].next = h.node[m].next
      BY <2>3, <2>5, <2>6 DEF Node
    <2>8. QED
      BY <2>3, <2>6, <2>7 DEF SamePlaces, Nodes, KeyOf
  <1>7. QED
    BY <1>5, <1>6

\* Where a traversal stands that has reached the key k: the fields up to k are
\* those visited.
Traversed(h, c, k, visited) ==
  /\ k = NULL => visited = {}
  /\ k # NULL => k \in Key /\ findindex(h, k) \in Nat
  /\ \A x \in visited : x \in Key /\ findindex(h, x) \in Nat /\ findindex(h, x) <= findindex(h, k)
  /\ \A x \in Key : c[x] # NULL /\ findindex(h, x) <= findindex(h, k) => x \in visited

LEMMA CarriedFacts ==
  ASSUME NEW h, NEW c, Stands(h, <<>>, c), NEW x \in Key
  PROVE  c[x] # NULL <=> ~Maps(h, x, NULL)
  <1>1. PICK N \in Nat \ {0} : h \in Tables(N)
    BY DEF Stands
  <1>2. Tidy(h) /\ Maps(h, x, c[x])
    BY EmptyFacts DEF Stands, Carries
  <1>3. QED
    BY <1>1, <1>2, GetMaps

\* A traversal goes on as long as the keys stay in their places and no field is
\* added.
LEMMA TraversedStays ==
  ASSUME NEW h, NEW c, Stands(h, <<>>, c), NEW g, NEW d, Stands(g, <<>>, d), SamePlaces(h, g),
         \A x \in Key : d[x] # NULL => c[x] # NULL,
         NEW k, NEW visited, Traversed(h, c, k, visited)
  PROVE  Traversed(g, d, k, visited)
  <1>1. PICK M \in Nat \ {0} : h \in Tables(M) /\ Tidy(h)
    BY DEF Stands
  <1>2. PICK N \in Nat \ {0} : g \in Tables(N) /\ Tidy(g)
    BY DEF Stands
  <1>3. \A x \in Key : findindex(g, x) = findindex(h, x)
    BY <1>1, <1>2, SameIndex
  <1>4. findindex(g, k) = findindex(h, k)
    <2>1. k = NULL => findindex(g, k) = 0 /\ findindex(h, k) = 0
      BY DEF findindex
    <2>2. QED
      BY <2>1, <1>3 DEF Traversed
  <1>5. QED
    BY <1>3, <1>4 DEF Traversed

\* What a call of luaH_next does for the traversal: it ends when every field
\* has been visited, or visits a field for the first time.
Visits(h, c, k, visited, n) ==
  \/ n = NULL /\ \A x \in Key : c[x] # NULL => x \in visited
  \/ /\ n \in Key /\ n # NULL /\ n \notin visited /\ c[n] # NULL
     /\ Traversed(h, c, n, visited \cup {n})

LEMMA NextVisits ==
  ASSUME NEW h, NEW c, Stands(h, <<>>, c), NEW k, NEW visited, Traversed(h, c, k, visited),
         NEW n, n = luaH_next(h, k)
  PROVE  Visits(h, c, k, visited, n)
  <1>1. PICK N \in Nat \ {0} : h \in Tables(N) /\ Tidy(h) /\ Indexed(h)
    BY DEF Stands
  <1>2. PICK L \in Nat : L = sizearray(h) + sizenode(h)
    <2>1. Len(h.array) \in Nat /\ sizenode(h) = N
      BY <1>1, NodeFacts DEF Tables, Tidy
    <2>2. QED
      BY <2>1 DEF sizearray
  <1>3. PICK f \in Nat : f = findindex(h, k)
    <2>1. k = NULL => findindex(h, k) = 0
      BY DEF findindex
    <2>2. QED
      BY <2>1 DEF Traversed
  <1>4. PICK rest : rest = {i \in f + 1 .. L : keyat(h, i) # NULL}
    OBVIOUS
  <1>5. n = IF rest = {} THEN NULL ELSE keyat(h, First(rest))
    BY <1>2, <1>3, <1>4 DEF luaH_next
  <1>6. ASSUME NEW x \in Key, c[x] # NULL, x \notin visited
        PROVE  findindex(h, x) \in rest /\ keyat(h, findindex(h, x)) = x
    <2>1. ~Maps(h, x, NULL)
      BY <1>6, CarriedFacts
    <2>2. findindex(h, x) \in 1 .. sizearray(h) + sizenode(h) /\ keyat(h, findindex(h, x)) = x
      BY <2>1, <1>1, IndexFacts
    <2>3. PICK i \in 1 .. L : i = findindex(h, x) /\ keyat(h, i) = x
      BY <2>2, <1>2
    <2>4. ~(i <= f)
      BY <2>3, <1>3, <1>6 DEF Traversed
    <2>5. i \in f + 1 .. L /\ keyat(h, i) # NULL
      BY <2>3, <2>4, KeyFacts
    <2>6. QED
      BY <2>3, <2>5, <1>4
  <1>7. CASE rest = {}
    BY <1>5, <1>6, <1>7 DEF Visits
  <1>8. CASE rest # {}
    <2>1. PICK i \in rest : i = First(rest) /\ \A j \in rest : i <= j
      <3>1. rest \in SUBSET Nat
        BY <1>4
      <3>2. First(rest) \in rest /\ \A j \in rest : First(rest) <= j
        BY <3>1, <1>8, FirstFacts
      <3>3. QED
        BY <3>2
    <2>2. i \in f + 1 .. L /\ keyat(h, i) # NULL
      BY <1>4
    <2>3. n = keyat(h, i) /\ n # NULL
      BY <2>1, <2>2, <1>5, <1>8
    <2>4. i \in 1 .. L /\ i \in Nat /\ f < i
      BY <2>2
    <2>5. n \in Key /\ findindex(h, n) = i /\ ~Maps(h, n, NULL)
      <3>1. i \in 1 .. sizearray(h) + sizenode(h)
        BY <2>4, <1>2
      <3>2. QED
        BY <3>1, <2>3, <1>1, KeyatFacts
    <2>6. c[n] # NULL
      BY <2>5, CarriedFacts
    <2>7. \A x \in visited : x \in Key /\ findindex(h, x) \in Nat /\ findindex(h, x) <= f
      BY <1>3 DEF Traversed
    <2>8. n \notin visited
      BY <2>4, <2>5, <2>7
    <2>9. ASSUME NEW x \in visited \cup {n}
          PROVE  x \in Key /\ findindex(h, x) \in Nat /\ findindex(h, x) <= findindex(h, n)
      <3>1. CASE x = n
        BY <3>1, <2>4, <2>5
      <3>2. CASE x \in visited
        <4>1. PICK j \in Nat : j = findindex(h, x) /\ j <= f
          BY <3>2, <2>7
        <4>2. x \in Key /\ j <= i
          BY <3>2, <4>1, <2>4, <2>7
        <4>3. QED
          BY <4>1, <4>2, <2>5
      <3>3. QED
        BY <3>1, <3>2
    <2>10. ASSUME NEW x \in Key, c[x] # NULL, findindex(h, x) <= findindex(h, n), x \notin visited
           PROVE  x = n
      <3>1. PICK j \in rest : j = findindex(h, x) /\ keyat(h, j) = x
        BY <2>10, <1>6
      <3>2. i <= j /\ j <= i
        BY <3>1, <2>1, <2>5, <2>10
      <3>3. j \in Nat
        BY <1>4
      <3>4. i = j
        BY <3>2, <3>3, <2>4
      <3>5. QED
        BY <3>1, <3>4, <2>3
    <2>11. Traversed(h, c, n, visited \cup {n})
      BY <2>3, <2>4, <2>5, <2>9, <2>10 DEF Traversed
    <2>12. QED
      BY <2>3, <2>5, <2>6, <2>8, <2>11 DEF Visits
  <1>9. QED
    BY <1>7, <1>8

\* During a traversal: nothing remains to be inserted, and the fields up to the
\* key are those visited.
TraversalInv == Inv /\ (due # {} => Traversed(t, content, key, seen))

LEMMA TraversalStep ==
  ASSUME TraversalInv, [Next]_vars
  PROVE  due' # {} => Traversed(t', content', key', seen')
  <1>1. /\ content \in [Key -> Value] /\ Stands(t, todo, content) /\ due \in SUBSET Key
        /\ due # {} => todo = <<>> /\ \A k \in due : content[k] # NULL
        /\ due # {} => Traversed(t, content, key, seen)
    BY DEF TraversalInv, Inv
  <1>2. \/ \E k \in Given : Set(k, normal(k)) \/ Set(k, NULL)
        \/ Reinsert \/ SetList(2) \/ (\E n \in DOMAIN t.node : DeadKey(n))
        \/ StartTraversal \/ NextKey \/ UNCHANGED vars
    BY DEF Next
  <1>3. ASSUME NEW given \in Given, NEW v \in Value, Set(given, v), due # {}
        PROVE  Traversed(t', content', key', seen')
    <2>1. PICK k \in Key : k = normal(given)
      BY GivenFacts
    <2>2. PICK r : r = luaH_put(t, given, v, <<>>)
      OBVIOUS
    <2>3. /\ todo = <<>> /\ content[k] # NULL /\ UNCHANGED <<key, seen>>
          /\ t' = r.t /\ todo' = r.todo /\ content' = [content EXCEPT ![k] = v]
      BY <1>3, <2>1, <2>2 DEF Set
    <2>4. PICK d : d = [content EXCEPT ![k] = v]
      OBVIOUS
    <2>5. \A x \in Key : d[x] = IF x = k THEN v ELSE content[x]
      BY <1>1, <2>4
    <2>6. Stands(t, <<>>, content)
      BY <1>1, <2>3
    <2>7. PICK e : e = [key |-> k, val |-> v]
      OBVIOUS
    <2>8. Stands(r.t, r.todo, d)
      BY <2>1, <2>2, <2>5, <2>6, <2>7, EmptyFacts, PutStands
    <2>9. r.todo = <<>> /\ SamePlaces(t, r.t)
      BY <2>1, <2>2, <2>3, <2>6, PutExisting, PutInPlace
    <2>10. PICK g : g = r.t
      OBVIOUS
    <2>11. Stands(g, <<>>, d) /\ SamePlaces(t, g)
      BY <2>8, <2>9, <2>10
    <2>12. \A x \in Key : d[x] # NULL => content[x] # NULL
      BY <2>3, <2>5
    <2>13. Traversed(g, d, key, seen)
      BY <1>1, <1>3, <2>6, <2>11, <2>12, TraversedStays
    <2>14. QED
      BY <2>3, <2>4, <2>10, <2>13
  <1>4. CASE (\E k \in Given : Set(k, normal(k)) \/ Set(k, NULL)) /\ due # {}
    <2>1. \A k \in Given : normal(k) \in Value /\ NULL \in Value
      BY GivenFacts DEF Value
    <2>2. PICK k \in Given : Set(k, normal(k)) \/ Set(k, NULL)
      BY <1>4
    <2>3. CASE Set(k, normal(k))
      BY <2>1, <2>3, <1>3, <1>4
    <2>4. CASE Set(k, NULL)
      BY <2>1, <2>4, <1>3, <1>4
    <2>5. QED
      BY <2>2, <2>3, <2>4
  <1>5. CASE (\E k \in Given : Set(k, normal(k)) \/ Set(k, NULL)) /\ due = {}
    <2>1. due' = {}
      BY <1>5 DEF Set
    <2>2. QED
      BY <2>1
  <1>6. CASE Reinsert
    <2>1. todo # <<>> /\ due' = due
      BY <1>6 DEF Reinsert
    <2>2. QED
      BY <1>1, <2>1
  <1>7. CASE SetList(2)
    <2>1. due = {} /\ due' = due
      BY <1>7 DEF SetList
    <2>2. QED
      BY <2>1
  <1>8. ASSUME NEW n \in DOMAIN t.node, DeadKey(n), due # {}
        PROVE  Traversed(t', content', key', seen')
    <2>1. PICK g : g = [t EXCEPT !.node[n].dead = TRUE]
      OBVIOUS
    <2>2. /\ todo = <<>> /\ t.node[n].val = NULL /\ t.node[n].key # NULL
          /\ t' = g /\ UNCHANGED <<content, key, seen>>
      BY <1>8, <2>1 DEF DeadKey
    <2>3. n \in Nodes(t)
      BY DEF Nodes
    <2>4. Stands(t, <<>>, content)
      BY <1>1, <2>2
    <2>5. Stands(g, <<>>, content)
      BY <2>1, <2>2, <2>3, <2>4, DeadStands
    <2>6. SamePlaces(t, g)
      <3>1. PICK N \in Nat \ {0} : t \in Tables(N)
        BY <2>4 DEF Stands
      <3>2. t.node \in [0 .. N - 1 -> Node] /\ Nodes(t) = 0 .. N - 1
        BY <3>1 DEF Tables, Nodes
      <3>3. g.array = t.array /\ g.node = [t.node EXCEPT ![n].dead = TRUE]
        BY <2>1, <3>1 DEF Tables
      <3>4. /\ DOMAIN g.node = DOMAIN t.node
            /\ \A m \in 0 .. N - 1 : g.node[m].key = t.node[m].key /\ g.node[m].next = t.node[m].next
        BY <2>3, <3>2, <3>3 DEF Node
      <3>5. QED
        BY <3>2, <3>3, <3>4 DEF SamePlaces, Nodes, KeyOf
    <2>7. Traversed(g, content, key, seen)
      BY <1>1, <1>8, <2>4, <2>5, <2>6, TraversedStays
    <2>8. QED
      BY <2>2, <2>7
  <1>9. CASE \E n \in DOMAIN t.node : DeadKey(n)
    <2>1. due' = due
      BY <1>9 DEF DeadKey
    <2>2. QED
      BY <1>8, <1>9, <2>1
  <1>10. CASE StartTraversal
    <2>1. todo = <<>> /\ key' = NULL /\ seen' = {} /\ UNCHANGED <<t, todo, content>>
      BY <1>10 DEF StartTraversal
    <2>2. Stands(t, <<>>, content)
      BY <1>1, <2>1
    <2>3. findindex(t, NULL) = 0
      BY DEF findindex
    <2>4. ASSUME NEW x \in Key, content[x] # NULL, findindex(t, x) <= 0
          PROVE  FALSE
      <3>1. PICK N \in Nat \ {0} : t \in Tables(N) /\ Tidy(t) /\ Indexed(t)
        BY <2>2 DEF Stands
      <3>2. ~Maps(t, x, NULL)
        BY <2>2, <2>4, CarriedFacts
      <3>3. findindex(t, x) \in 1 .. sizearray(t) + sizenode(t)
        BY <3>1, <3>2, IndexFacts
      <3>4. sizearray(t) + sizenode(t) \in Int
        <4>1. Len(t.array) \in Nat /\ sizenode(t) = N
          BY <3>1, NodeFacts DEF Tables, Tidy
        <4>2. QED
          BY <4>1 DEF sizearray
      <3>5. QED
        BY <3>3, <3>4, <2>4
    <2>5. Traversed(t, content, NULL, {})
      BY <2>3, <2>4 DEF Traversed
    <2>6. QED
      BY <2>1, <2>5
  <1>11. CASE NextKey
    <2>1. PICK n : n = luaH_next(t, key)
      OBVIOUS
    <2>2. /\ due # {} /\ key' = n /\ UNCHANGED <<t, todo, content>>
          /\ n = NULL => due' = {}
          /\ n # NULL => seen' = seen \cup {n}
      BY <1>11, <2>1 DEF NextKey
    <2>3. Stands(t, <<>>, content) /\ Traversed(t, content, key, seen)
      BY <1>1, <2>2
    <2>4. Visits(t, content, key, seen, n)
      BY <2>1, <2>3, NextVisits
    <2>5. n # NULL => Traversed(t, content, n, seen \cup {n})
      BY <2>4 DEF Visits
    <2>6. QED
      BY <2>2, <2>5
  <1>12. CASE UNCHANGED vars
    BY <1>1, <1>12 DEF vars
  <1>13. QED
    BY <1>2, <1>4, <1>5, <1>6, <1>7, <1>9, <1>10, <1>11, <1>12

\* A traversal that clears or changes fields, with collections in between,
\* never meets an invalid key, visits a field once, and ends only when every
\* field that stayed has been visited.
THEOREM TraversalIsComplete == Spec => TraversalComplete
  <1>1. Init => (due # {} => Traversed(t, content, key, seen))
    BY DEF Init
  <1>2. TraversalInv /\ [Next]_vars /\ Inv' => TraversalInv'
    BY TraversalStep DEF TraversalInv
  <1>3. TraversalInv /\ [Next]_vars =>
          [due # {} => /\ key # NULL => findindex(t, key) # NULL
                       /\ due' = {} /\ key' = NULL /\ key # NULL => due \subseteq seen
                       /\ key' # key /\ key' # NULL => key' \notin seen /\ content[key'] # NULL]_vars
    <2> SUFFICES ASSUME TraversalInv, [Next]_vars, due # {}, ~UNCHANGED vars
                 PROVE  /\ key # NULL => findindex(t, key) # NULL
                        /\ due' = {} /\ key' = NULL /\ key # NULL => due \subseteq seen
                        /\ key' # key /\ key' # NULL => key' \notin seen /\ content[key'] # NULL
      OBVIOUS
    <2>1. /\ Stands(t, <<>>, content) /\ due \in SUBSET Key /\ \A k \in due : content[k] # NULL
          /\ Traversed(t, content, key, seen)
      BY DEF TraversalInv, Inv
    <2>2. key # NULL => findindex(t, key) # NULL
      BY <2>1, NullAssumption DEF Traversed
    <2>3. PICK n : n = luaH_next(t, key)
      OBVIOUS
    <2>4. Visits(t, content, key, seen, n)
      BY <2>1, <2>3, NextVisits
    <2>5. key' = key \/ key' = n
      BY <2>3 DEF Next, Set, Reinsert, SetList, DeadKey, StartTraversal, NextKey
    <2>6. QED
      BY <2>1, <2>2, <2>4, <2>5 DEF Visits
  <1>4. Spec => []TraversalInv
    <2>1. Init /\ Inv => TraversalInv
      BY <1>1 DEF TraversalInv
    <2>2. QED
      BY <2>1, <1>2, TableStands, PTL DEF Spec
  <1>5. QED
    BY <1>3, <1>4, PTL DEF Spec, TraversalComplete

-----------------------------------------------------------------------------
(* The room that a resize makes. *)

Keyed(h) == {n \in Nodes(h) : KeyOf(h, n) # NULL}

\* The keys to be inserted that will need a node.
Waiting(h, s) == {x \in Key : ~inarray(h, x) /\ \E v : Has(s, x, v)}

\* There is a node for every entry to come.
Room(h, s) ==
  /\ IsFiniteSet(Waiting(h, s))
  /\ Cardinality(Keyed(h)) + Cardinality(Waiting(h, s)) <= sizenode(h)
  /\ h.dummy => Waiting(h, s) = {}

LEMMA KeyedFacts ==
  ASSUME NEW N \in Nat \ {0}, NEW h \in Tables(N), Tidy(h)
  PROVE  /\ sizenode(h) = N /\ IsFiniteSet(Keyed(h)) /\ IsFiniteSet(Nodes(h))
         /\ Cardinality(Nodes(h)) = N
         /\ Cardinality(Keyed(h)) \in Nat /\ Cardinality(Keyed(h)) <= N
         /\ Used(h) \subseteq Keyed(h)
  <1>1. Nodes(h) = 0 .. N - 1 /\ sizenode(h) = N
    BY NodeFacts DEF Tidy
  <1>2. IsFiniteSet(Nodes(h)) /\ Cardinality(Nodes(h)) = N
    <2>1. PICK z \in Int, l \in Int : z = 0 /\ l = N - 1
      OBVIOUS
    <2>2. IsFiniteSet(z .. l) /\ Cardinality(z .. l) = IF z > l THEN 0 ELSE l - z + 1
      BY FS_Interval
    <2>3. QED
      BY <2>1, <2>2, <1>1
  <1>3. IsFiniteSet(Keyed(h)) /\ Cardinality(Keyed(h)) <= N
    <2>1. Keyed(h) \in SUBSET Nodes(h)
      BY DEF Keyed
    <2>2. QED
      BY <2>1, <1>2, FS_Subset
  <1>4. Cardinality(Keyed(h)) \in Nat
    BY <1>3, FS_CardinalityType
  <1>5. Used(h) \subseteq Keyed(h)
    BY DEF Used, Keyed, Tidy, FreeAreUnlinked, Nodes, Free
  <1>6. QED
    BY <1>1, <1>2, <1>3, <1>4, <1>5

\* Nothing to insert needs no room.
LEMMA EmptyRoom ==
  ASSUME NEW N \in Nat \ {0}, NEW h \in Tables(N), Tidy(h)
  PROVE  Room(h, <<>>)
  <1>1. Waiting(h, <<>>) = {}
    BY EmptyFacts DEF Waiting
  <1>2. IsFiniteSet({}) /\ Cardinality({}) = 0
    BY FS_EmptySet
  <1>3. sizenode(h) = N /\ Cardinality(Keyed(h)) \in Nat /\ Cardinality(Keyed(h)) <= N
    BY KeyedFacts
  <1>4. IsFiniteSet(Waiting(h, <<>>)) /\ Cardinality(Waiting(h, <<>>)) = 0
    BY <1>1, <1>2
  <1>5. Cardinality(Keyed(h)) + Cardinality(Waiting(h, <<>>)) <= sizenode(h)
    BY <1>3, <1>4
  <1>6. QED
    BY <1>1, <1>4, <1>5 DEF Room

\* When there is room for a key, the table is not full.
LEMMA RoomSuffices ==
  ASSUME NEW N \in Nat \ {0}, NEW h \in Tables(N), Tidy(h), NEW s, Room(h, s),
         NEW k \in Waiting(h, s)
  PROVE  ~h.dummy /\ freeposition(h) # NULL
  <1>1. ~h.dummy
    BY DEF Room
  <1>2. ASSUME freeposition(h) = NULL
        PROVE  FALSE
    <2>1. \A n \in Nodes(h) : KeyOf(h, n) # NULL
      <3>1. \/ freeposition(h) = NULL /\ (~h.dummy => \A n \in Nodes(h) : KeyOf(h, n) # NULL)
            \/ freeposition(h) # NULL
        BY FreePosition
      <3>2. QED
        BY <3>1, <1>1, <1>2
    <2>2. Keyed(h) = Nodes(h)
      BY <2>1 DEF Keyed
    <2>3. Cardinality(Keyed(h)) = N /\ sizenode(h) = N
      BY <2>2, KeyedFacts
    <2>4. IsFiniteSet(Waiting(h, s)) /\ Cardinality(Keyed(h)) + Cardinality(Waiting(h, s)) <= N
      BY <2>3 DEF Room
    <2>5. Cardinality(Waiting(h, s)) \in Nat /\ Cardinality(Waiting(h, s)) # 0
      BY <2>4, FS_CardinalityType, FS_EmptySet
    <2>6. QED
      BY <2>3, <2>4, <2>5
  <1>3. QED
    BY <1>1, <1>2

\* A resize to as many nodes as there are keys to insert makes room for them.
LEMMA ResizeRoom ==
  ASSUME NEW N \in Nat \ {0}, NEW h \in Tables(N), Indexed(h), NEW na \in Nat, NEW nh \in Nat,
         NEW g, g = luaH_resize(h, na, nh).t, NEW s, NEW W, W = Waiting(g, s),
         IsFiniteSet(W), Cardinality(W) <= nh
  PROVE  Room(g, s)
  <1>1. PICK M \in Nat \ {0} : Fresh(h, na, nh, g, M)
    BY ResizedArray
  <1>2. /\ g \in Tables(M) /\ Tidy(g) /\ nh <= M /\ g.dummy = (nh = 0)
        /\ \A n \in Nodes(g) : g.node[n] = Free
    BY <1>1 DEF Fresh
  <1>3. sizenode(g) = M
    BY <1>2, KeyedFacts
  <1>4. Keyed(g) = {}
    BY <1>2 DEF Keyed, KeyOf, Free
  <1>5. Cardinality(Keyed(g)) = 0
    BY <1>4, FS_EmptySet
  <1>6. PICK w \in Nat : w = Cardinality(W)
    BY FS_CardinalityType
  <1>7. w <= nh /\ nh <= M
    BY <1>2, <1>6
  <1>8. Cardinality(Keyed(g)) + Cardinality(W) <= sizenode(g)
    BY <1>3, <1>5, <1>6, <1>7
  <1>9. g.dummy => W = {}
    <2>1. g.dummy => w = 0
      <3>1. g.dummy => nh = 0
        BY <1>2, Zenon
      <3>2. nh = 0 => w = 0
        BY <1>7
      <3>3. QED
        BY <3>1, <3>2, Zenon
    <2>2. QED
      BY <2>1, <1>6, FS_EmptySet
  <1>10. QED
    BY <1>8, <1>9 DEF Room

LEMMA HasConcat ==
  ASSUME NEW a \in Seq(Entries), NEW b \in Seq(Entries), NEW x, NEW v
  PROVE  Has(a \o b, x, v) <=> Has(a, x, v) \/ Has(b, x, v)
  <1>1. PICK c : c = a \o b
    OBVIOUS
  <1>2. PICK m \in Nat, n \in Nat : m = Len(a) /\ n = Len(b)
    OBVIOUS
  <1>3. Joins(a, b, c, m, n)
    BY <1>1, <1>2 DEF Joins
  <1>4. QED
    BY <1>1, <1>3, JoinFacts

LEMMA ResizeTodo ==
  ASSUME NEW h, NEW na, NEW nh
  PROVE  luaH_resize(h, na, nh).todo = Vanishing(h, na) \o Old(h)
  BY DEF luaH_resize, Vanishing, Old

\* What a resize leaves to insert are keys that a rehash counts.
LEMMA ResizeHas ==
  ASSUME NEW N \in Nat \ {0}, NEW h \in Tables(N), Tidy(h), Indexed(h), NEW na \in Nat,
         NEW s, s = Vanishing(h, na) \o Old(h), NEW x \in Key, NEW v, Has(s, x, v)
  PROVE  /\ s \in Seq(Entries)
         /\ \/ x \in {int(i) : i \in UsedSlots(h)} /\ x.tt = "int" /\ na < x.n /\ inarray(h, x)
            \/ x \in {h.node[n].key : n \in Used(h)}
  <1>1. PICK a, b : a = Vanishing(h, na) /\ b = Old(h)
    OBVIOUS
  <1>2. /\ a \in Seq(Entries)
        /\ \A w : Has(a, x, w) <=> inarray(h, x) /\ na < x.n /\ w = h.array[x.n] /\ w # NULL
    BY <1>1, VanishingFacts
  <1>3. /\ b \in Seq(Entries)
        /\ \A w : Has(b, x, w) <=>
             \E n \in Nodes(h) : Holds(h, x, FALSE, n) /\ w = h.node[n].val /\ w # NULL
    BY <1>1, OldFacts
  <1>4. s \in Seq(Entries) /\ (Has(a, x, v) \/ Has(b, x, v))
    BY <1>1, <1>2, <1>3, HasConcat, ConcatProperties
  <1>5. CASE Has(a, x, v)
    <2>1. inarray(h, x) /\ na < x.n /\ h.array[x.n] # NULL
      BY <1>2, <1>5
    <2>2. x.n \in UsedSlots(h) /\ x = int(x.n) /\ x.tt = "int"
      BY <2>1, KeyFacts DEF inarray, UsedSlots
    <2>3. QED
      BY <2>1, <2>2, <1>4
  <1>6. CASE Has(b, x, v)
    <2>1. PICK n \in Nodes(h) : Holds(h, x, FALSE, n) /\ v = h.node[n].val /\ v # NULL
      BY <1>3, <1>6
    <2>2. n \in Used(h) /\ h.node[n].key = x
      BY <2>1 DEF Used, Nodes, Holds, KeyOf
    <2>3. QED
      BY <2>2, <1>4
  <1>7. QED
    BY <1>4, <1>5, <1>6

\* A rehash makes room for what it leaves to insert and for the key it was
\* called for: the keys that the array part takes are the na that computesizes
\* counted.
LEMMA RehashRoom ==
  ASSUME NEW N \in Nat \ {0}, NEW h \in Tables(N), Tidy(h), Indexed(h), NEW k \in Key,
         NEW r, r = rehash(h, k), NEW e \in Entries, e.key = k,
         NEW s, s = r.todo \o <<e>>
  PROVE  Room(r.t, s)
  <1>1. PICK C, G, U : C = Candidates(h, k) /\ G = MoreThanHalf(C) /\ U = Every(h, k)
    OBVIOUS
  <1>2. PICK z : z = computesizes(nums(h, k), Cardinality(C))
    OBVIOUS
  <1>3. /\ z.n \in Nat /\ z.na \in Nat /\ totaluse(h) - z.na \in Nat
        /\ z.n = IF G = {} THEN 0 ELSE twoto[Last(G)]
        /\ z.na = IF G = {} THEN 0 ELSE Cardinality(UpTo(C, Last(G)))
        /\ G # {} => Last(G) \in 0 .. MAXABITS
    BY <1>1, <1>2, RehashSizes
  <1>4. PICK na \in Nat, nh \in Nat : na = z.n /\ nh = totaluse(h) - z.na
    BY <1>3
  <1>5. r = luaH_resize(h, na, nh)
    BY <1>1, <1>2, <1>4 DEF rehash
  <1>6. PICK g : g = r.t
    OBVIOUS
  <1>7. DOMAIN g.array = 1 .. na
    <2>1. PICK M \in Nat \ {0} : Fresh(h, na, nh, g, M)
      BY <1>5, <1>6, ResizedArray
    <2>2. g.array = Kept(h, na)
      BY <2>1 DEF Fresh
    <2>3. QED
      BY <2>2 DEF Kept
  <1>8. PICK q : q = Vanishing(h, na) \o Old(h) /\ q = r.todo
    <2>1. luaH_resize(h, na, nh).todo = Vanishing(h, na) \o Old(h)
      BY ResizeTodo
    <2>2. QED
      BY <2>1, <1>5
  <1>9. q \in Seq(Entries)
    <2>1. Vanishing(h, na) \in Seq(Entries) /\ Old(h) \in Seq(Entries)
      BY VanishingFacts, OldFacts
    <2>2. QED
      BY <2>1, <1>8, ConcatProperties
  <1>10. ASSUME NEW x \in Key, NEW v, Has(s, x, v)
         PROVE  x \in U
    <2>1. PICK o : o = <<e>>
      OBVIOUS
    <2>2. o \in Seq(Entries) /\ s = q \o o
      BY <2>1, <1>8
    <2>3. Has(q, x, v) \/ Has(o, x, v)
      <3>1. Has(q \o o, x, v)
        BY <2>2, <1>10
      <3>2. QED
        BY <2>2, <3>1, <1>9, HasConcat
    <2>4. Has(o, x, v) => x = k
      BY <2>1, OneFacts
    <2>5. Has(q, x, v) => x \in {int(i) : i \in UsedSlots(h)} \/ x \in {h.node[n].key : n \in Used(h)}
      BY <1>8, ResizeHas
    <2>6. QED
      BY <2>3, <2>4, <2>5, <1>1 DEF Every
  <1>11. PICK W : W = Waiting(g, s)
    OBVIOUS
  <1>12. W \subseteq U
    BY <1>10, <1>11 DEF Waiting
  <1>13. PICK P : P = IF G = {} THEN {} ELSE UpTo(C, Last(G))
    OBVIOUS
  <1>14. P \subseteq U /\ P \cap W = {} /\ Cardinality(P) = z.na
    <2>1. CASE G = {}
      BY <2>1, <1>3, <1>13, FS_EmptySet
    <2>2. CASE G # {}
      <3>1. P = {c \in C : c.n <= na} /\ Cardinality(P) = z.na
        BY <2>2, <1>3, <1>4, <1>13 DEF UpTo
      <3>2. C \subseteq U
        BY <1>1 DEF Candidates, Every, UsedSlots
      <3>3. ASSUME NEW c \in P
            PROVE  c \notin W
        <4>1. c.tt = "int" /\ c.n \in 1 .. twoto[MAXABITS] /\ c.n <= na
          BY <3>1, <1>1, CandidateFacts
        <4>2. twoto[MAXABITS] \in Nat
          BY TableAssumption, Powers
        <4>3. c.n \in 1 .. na
          BY <4>1, <4>2
        <4>4. inarray(g, c)
          BY <4>1, <4>3, <1>7 DEF inarray
        <4>5. QED
          BY <4>4, <1>11 DEF Waiting
      <3>4. QED
        BY <3>1, <3>2, <3>3
    <2>3. QED
      BY <2>1, <2>2
  <1>15. IsFiniteSet(U) /\ Cardinality(U) \in Nat /\ Cardinality(U) <= totaluse(h) /\ totaluse(h) \in Nat
    <2>1. /\ IsFiniteSet(U) /\ Cardinality(U) \in Nat /\ Cardinality(U) <= totaluse(h)
          /\ Cardinality(UsedSlots(h)) \in Nat /\ Cardinality(Used(h)) \in Nat
          /\ totaluse(h) = Cardinality(UsedSlots(h)) + Cardinality(Used(h)) + 1
      BY <1>1, EveryFacts
    <2>2. QED
      BY <2>1
  <1>16. /\ IsFiniteSet(W) /\ IsFiniteSet(P) /\ IsFiniteSet(P \cup W)
         /\ Cardinality(P \cup W) <= Cardinality(U)
    <2>1. W \in SUBSET U /\ P \in SUBSET U /\ P \cup W \in SUBSET U
      BY <1>12, <1>14
    <2>2. QED
      BY <2>1, <1>15, FS_Subset
  <1>17. Cardinality(P \cup W) = Cardinality(P) + Cardinality(W) - Cardinality(P \cap W)
    BY <1>16, FS_Union
  <1>18. Cardinality(P \cap W) = 0
    BY <1>14, FS_EmptySet
  <1>19. Cardinality(W) \in Nat /\ Cardinality(P) \in Nat
    BY <1>16, FS_CardinalityType
  <1>20. Cardinality(W) <= nh
    BY <1>4, <1>14, <1>15, <1>16, <1>17, <1>18, <1>19
  <1>21. g = luaH_resize(h, na, nh).t
    BY <1>5, <1>6
  <1>22. Room(g, s)
    BY <1>11, <1>16, <1>20, <1>21, ResizeRoom
  <1>23. QED
    BY <1>6, <1>22

\* luaH_resizearray does when the array part grows: there are as many nodes as
\* before.
LEMMA GrowRoom ==
  ASSUME NEW N \in Nat \ {0}, NEW h \in Tables(N), Tidy(h), Indexed(h), NEW na \in Nat,
         na > sizearray(h), NEW nh \in Nat, nh = IF h.dummy THEN 0 ELSE N,
         NEW r, r = luaH_resize(h, na, nh)
  PROVE  Room(r.t, r.todo)
  <1>1. PICK g, s : g = r.t /\ s = r.todo
    OBVIOUS
  <1>2. s = Vanishing(h, na) \o Old(h)
    BY <1>1 DEF luaH_resize, Vanishing, Old
  <1>3. PICK W, K : W = Waiting(g, s) /\ K = {h.node[n].key : n \in Used(h)}
    OBVIOUS
  <1>4. ASSUME NEW x \in W
        PROVE  x \in K
    <2>1. PICK v : x \in Key /\ Has(s, x, v)
      BY <1>3 DEF Waiting
    <2>2. (na < x.n /\ inarray(h, x)) \/ x \in K
      BY <2>1, <1>2, <1>3, ResizeHas
    <2>3. inarray(h, x) => x.n <= sizearray(h) /\ x.n \in Nat /\ sizearray(h) \in Nat
      BY DEF inarray, Tables, sizearray
    <2>4. QED
      BY <2>2, <2>3
  <1>5. /\ IsFiniteSet(Used(h)) /\ Cardinality(Used(h)) <= N
    <2>1. Used(h) \in SUBSET Nodes(h) /\ IsFiniteSet(Nodes(h)) /\ Cardinality(Nodes(h)) = N
      BY KeyedFacts DEF Used, Nodes
    <2>2. QED
      BY <2>1, FS_Subset
  <1>6. IsFiniteSet(K) /\ Cardinality(K) <= Cardinality(Used(h))
    <2> DEFINE f == [n \in Used(h) |-> h.node[n].key]
    <2>1. DOMAIN f = Used(h) /\ K = {f[n] : n \in Used(h)}
      BY <1>3
    <2>2. QED
      <3> HIDE DEF f
      <3> QED
        BY <2>1, <1>5, ImageFacts
  <1>7. IsFiniteSet(W) /\ Cardinality(W) <= Cardinality(K)
    <2>1. W \in SUBSET K
      BY <1>4
    <2>2. QED
      BY <2>1, <1>6, FS_Subset
  <1>8. Cardinality(W) \in Nat /\ Cardinality(K) \in Nat /\ Cardinality(Used(h)) \in Nat
    BY <1>5, <1>6, <1>7, FS_CardinalityType
  <1>9. Cardinality(W) <= nh
    <2>1. CASE h.dummy
      <3>1. Keyed(h) = {}
        BY <2>1 DEF Keyed, Tidy, Placed
      <3>2. Used(h) = {}
        BY <3>1, KeyedFacts
      <3>3. W = {}
        BY <3>2, <1>3, <1>4
      <3>4. Cardinality(W) = 0
        BY <3>3, FS_EmptySet
      <3>5. QED
        BY <3>4
    <2>2. CASE ~h.dummy
      BY <2>2, <1>5, <1>6, <1>7, <1>8
    <2>3. QED
      BY <2>1, <2>2
  <1>10. g = luaH_resize(h, na, nh).t
    BY <1>1
  <1>11. Room(g, s)
    BY <1>3, <1>7, <1>9, <1>10, ResizeRoom
  <1>12. QED
    BY <1>1, <1>11

\* An insertion that needs no rehash takes one node at most.
Grows(h, g) ==
  /\ DOMAIN g.array = DOMAIN h.array /\ ~g.dummy
  /\ \E m : Keyed(g) \subseteq Keyed(h) \cup {m}

\* Apart from the moved node's place the move keeps every key.
MoveKeeps(h, g, f, mp, p) ==
  /\ Nodes(g) = Nodes(h) /\ g.array = h.array /\ g.dummy = h.dummy
  /\ \A m \in Nodes(h) : m # f /\ m # mp /\ m # p => g.node[m] = h.node[m]
  /\ g.node[p].key = h.node[p].key

LEMMA MoveKept ==
  ASSUME NEW N \in Nat \ {0}, NEW h \in Tables(N), NEW f \in Nodes(h), freeposition(h) = f,
         NEW mp \in Nodes(h), NEW p \in Nodes(h), f # mp, p # mp, p # f,
         NEW o, p = Previous(getfreepos(h), o, mp),
         NEW k \in Key, NEW v \in Value,
         NEW g, g = Fill(movecolliding(getfreepos(h), mp, f, o), mp, k, v)
  PROVE  MoveKeeps(h, g, f, mp, p)
  BY MoveFacts DEF MoveKeeps

LEMMA PutGrows ==
  ASSUME NEW N \in Nat \ {0}, NEW h \in Tables(N), Tidy(h), Indexed(h), ~h.dummy,
         NEW k \in Key, NEW v \in Value, NEW rest, ~inarray(h, k), ~Full(h, k),
         NEW r, r = luaH_put(h, k, v, rest)
  PROVE  Grows(h, r.t)
  <1>1. normal(k) = k
    BY KeyFacts
  <1>2. PICK n : n = search(h, k, FALSE)
    OBVIOUS
  <1>3. PICK g : g = r.t
    OBVIOUS
  <1>4. CASE n # NULL
    <2>1. Holds(h, k, FALSE, n)
      <3>1. FALSE \in BOOLEAN
        OBVIOUS
      <3>2. \/ n = NULL /\ \A m : ~Holds(h, k, FALSE, m)
            \/ Holds(h, k, FALSE, n)
        BY <1>2, <3>1, SearchFacts
      <3>3. QED
        BY <1>4, <3>2
    <2>2. n \in Nodes(h) /\ h.node \in [0 .. N - 1 -> Node] /\ Nodes(h) = 0 .. N - 1
      BY <2>1 DEF Holds, Tables, Nodes
    <2>3. g = [h EXCEPT !.node[n].val = v]
      BY <1>1, <1>2, <1>3, <1>4 DEF luaH_put
    <2>4. g.array = h.array /\ g.dummy = h.dummy /\ g.node = [h.node EXCEPT ![n].val = v]
      BY <2>3 DEF Tables
    <2>5. DOMAIN g.node = DOMAIN h.node /\ \A m \in 0 .. N - 1 : g.node[m].key = h.node[m].key
      BY <2>2, <2>4 DEF Node
    <2>6. Keyed(g) = Keyed(h)
      BY <2>2, <2>5 DEF Keyed, Nodes, KeyOf
    <2>7. QED
      BY <2>4, <2>6, <1>3 DEF Grows
  <1>5. CASE n = NULL
    <2>1. r = luaH_newkey(h, k, v, rest) /\ \A m : ~Holds(h, k, FALSE, m)
      <3>1. FALSE \in BOOLEAN
        OBVIOUS
      <3>2. \/ n = NULL /\ \A m : ~Holds(h, k, FALSE, m)
            \/ Holds(h, k, FALSE, n)
        BY <1>2, <3>1, SearchFacts
      <3>3. ~Holds(h, k, FALSE, n)
        BY <1>5, NullAssumption DEF Holds, Nodes, Tables
      <3>4. QED
        BY <1>1, <1>2, <1>5, <3>2, <3>3 DEF luaH_put
    <2>2. PICK mp, f, o : mp = mainposition(h, k) /\ f = freeposition(h) /\ o = Home(h, mp)
      OBVIOUS
    <2>3. g = IF h.node[mp].val = NULL /\ ~h.dummy THEN Fill(h, mp, k, v)
                ELSE IF o # mp THEN Fill(movecolliding(getfreepos(h), mp, f, o), mp, k, v)
                ELSE Fill(chainfree(getfreepos(h), mp, f), f, k, v)
      BY <1>3, <2>1, <2>2 DEF luaH_newkey, Home, KeyOf
    <2>4. mp \in Nodes(h)
      BY <2>2, NodeFacts DEF Tidy
    <2>5. CASE h.node[mp].val = NULL
      <3>1. g = Fill(h, mp, k, v)
        BY <2>3, <2>5
      <3>2. /\ Nodes(g) = Nodes(h) /\ g.array = h.array /\ g.dummy = h.dummy
            /\ \A m \in Nodes(h) : m # mp => g.node[m] = h.node[m]
        BY <2>4, <3>1, FillFacts
      <3>3. Keyed(g) \subseteq Keyed(h) \cup {mp}
        BY <3>2 DEF Keyed, KeyOf
      <3>4. QED
        BY <3>2, <3>3, <1>3 DEF Grows
    <2>6. CASE h.node[mp].val # NULL
      <3>1. Taken(N, h, k, mp, f)
        <4>1. f # NULL
          BY <2>2, <2>6 DEF Full
        <4>2. QED
          BY <4>1, <2>1, <2>2, <2>6 DEF Taken
      <3>2. /\ Nodes(h) = 0 .. N - 1 /\ Nodes(h) \subseteq Nat /\ f \in Nodes(h) /\ f # mp
            /\ KeyOf(h, mp) \in Key
        BY <3>1, TakenFacts
      <3>3. CASE o # mp
        <4>1. g = Fill(movecolliding(getfreepos(h), mp, f, o), mp, k, v)
          BY <2>3, <2>6, <3>3
        <4>2. PICK p : p = Previous(getfreepos(h), o, mp)
          OBVIOUS
        <4>3. p \in Nodes(h) /\ p # mp /\ p # f
          BY <2>2, <3>1, <3>3, <4>2, PreviousFacts
        <4>4. freeposition(h) = f
          BY <2>2
        <4>5. MoveKeeps(h, g, f, mp, p)
          <5>1. f \in Nodes(h) /\ f # mp
            BY <3>2
          <5>2. QED
            BY <5>1, <2>4, <4>1, <4>2, <4>3, <4>4, MoveKept
        <4>6. Keyed(g) \subseteq Keyed(h) \cup {f}
          <5> SUFFICES ASSUME NEW m \in Nodes(h), KeyOf(g, m) # NULL, m # f
                       PROVE  KeyOf(h, m) # NULL
            BY <4>5 DEF Keyed, MoveKeeps
          <5>1. CASE m = mp
            BY <5>1, <3>2, KeyFacts
          <5>2. CASE m # mp
            BY <5>2, <4>5 DEF KeyOf, MoveKeeps
          <5>3. QED
            BY <5>1, <5>2
        <4>7. QED
          BY <4>5, <4>6, <1>3 DEF Grows, MoveKeeps
      <3>4. CASE o = mp
        <4>1. g = Fill(chainfree(getfreepos(h), mp, f), f, k, v)
          BY <2>3, <2>6, <3>4
        <4>2. freeposition(h) = f
          BY <2>2
        <4>3. /\ Nodes(g) = Nodes(h) /\ g.array = h.array /\ g.dummy = h.dummy
              /\ \A m \in Nodes(h) : m # f /\ m # mp => g.node[m] = h.node[m]
              /\ g.node[mp].key = h.node[mp].key
          BY <2>4, <3>2, <4>1, <4>2, ChainFacts
        <4>4. Keyed(g) \subseteq Keyed(h) \cup {f}
          BY <4>3 DEF Keyed, KeyOf
        <4>5. QED
          BY <4>3, <4>4, <1>3 DEF Grows
      <3>5. QED
        BY <3>3, <3>4
    <2>7. QED
      BY <2>5, <2>6
  <1>6. QED
    BY <1>4, <1>5

\* One of the insertions that there is room for: it does not rehash, and there
\* is room for those that follow.
Settles(h, s, k, r) ==
  /\ ~inarray(h, k) => ~Full(h, k)
  /\ Room(r.t, r.todo)

LEMMA InsertRoom ==
  ASSUME NEW N \in Nat \ {0}, NEW h \in Tables(N), Tidy(h), Indexed(h),
         NEW s \in Seq(Entries), s # <<>>, Distinct(s), Room(h, s),
         NEW k \in Key, NEW v \in Value, k = Head(s).key, NEW b, b = Tail(s),
         NEW r, r = luaH_put(h, k, v, b)
  PROVE  Settles(h, s, k, r)
  <1>1. PICK e : e = Head(s)
    OBVIOUS
  <1>2. /\ e \in Entries /\ b \in Seq(Entries) /\ Distinct(b)
        /\ \A x, w : Has(s, x, w) <=> (e.key = x /\ e.val = w) \/ Has(b, x, w)
        /\ e.key # NULL => \A w : ~Has(b, e.key, w)
    BY <1>1, HeadFacts
  <1>3. normal(k) = k /\ k \in Given /\ k # NULL /\ k = e.key
    BY <1>1, KeyFacts
  <1>4. PICK g : g = r.t
    OBVIOUS
  <1>5. /\ IsFiniteSet(Waiting(h, s)) /\ sizenode(h) = N
        /\ Cardinality(Keyed(h)) + Cardinality(Waiting(h, s)) <= N
        /\ h.dummy => Waiting(h, s) = {}
    BY KeyedFacts DEF Room
  <1>6. ~inarray(h, k) => ~h.dummy /\ ~Full(h, k)
    <2> SUFFICES ASSUME ~inarray(h, k)
                 PROVE  ~h.dummy /\ freeposition(h) # NULL
      BY DEF Full
    <2>1. Has(s, k, e.val)
      BY <1>2, <1>3
    <2>2. k \in Waiting(h, s)
      BY <2>1 DEF Waiting
    <2>3. QED
      BY <2>2, RoomSuffices
  <1>7. r.todo = b /\ g \in Tables(N) /\ Tidy(g)
    <2>1. Stores(N, h, k, v, b, r) \/ Overflows(h, k, v, b, r)
      BY <1>3, PutTidy
    <2>2. ~Overflows(h, k, v, b, r)
      BY <1>6 DEF Overflows
    <2>3. QED
      BY <2>1, <2>2, <1>4 DEF Stores
  <1>8. sizenode(g) = N /\ IsFiniteSet(Keyed(g)) /\ Cardinality(Keyed(g)) \in Nat
    BY <1>7, KeyedFacts
  <1>9. Cardinality(Waiting(h, s)) \in Nat /\ Cardinality(Keyed(h)) \in Nat /\ IsFiniteSet(Keyed(h))
    BY <1>5, KeyedFacts, FS_CardinalityType
  <1>10. CASE inarray(h, k)
    <2>1. g = [h EXCEPT !.array[k.n] = v]
      BY <1>3, <1>4, <1>10 DEF luaH_put
    <2>2. DOMAIN g.array = DOMAIN h.array /\ g.node = h.node /\ g.dummy = h.dummy
      BY <2>1 DEF Tables
    <2>3. Keyed(g) = Keyed(h)
      BY <2>2 DEF Keyed, Nodes, KeyOf
    <2>4. \A x : inarray(g, x) <=> inarray(h, x)
      BY <2>2 DEF inarray
    <2>5. Waiting(g, b) \in SUBSET Waiting(h, s)
      BY <2>4, <1>2 DEF Waiting
    <2>6. IsFiniteSet(Waiting(g, b)) /\ Cardinality(Waiting(g, b)) <= Cardinality(Waiting(h, s))
      BY <2>5, <1>5, FS_Subset
    <2>7. Cardinality(Waiting(g, b)) \in Nat
      BY <2>6, FS_CardinalityType
    <2>8. Cardinality(Keyed(g)) + Cardinality(Waiting(g, b)) <= sizenode(g)
      BY <2>3, <2>6, <2>7, <1>5, <1>8, <1>9
    <2>9. g.dummy => Waiting(g, b) = {}
      BY <2>2, <2>5, <1>5
    <2>10. Room(g, b)
      BY <2>6, <2>8, <2>9 DEF Room
    <2>11. QED
      BY <2>10, <1>4, <1>7, <1>10 DEF Settles
  <1>11. CASE ~inarray(h, k)
    <2>1. Grows(h, g)
      BY <1>4, <1>6, <1>11, PutGrows
    <2>2. PICK m : Keyed(g) \subseteq Keyed(h) \cup {m}
      BY <2>1 DEF Grows
    <2>3. \A x : inarray(g, x) <=> inarray(h, x)
      BY <2>1 DEF Grows, inarray
    <2>4. k \in Waiting(h, s) /\ Waiting(g, b) \in SUBSET (Waiting(h, s) \ {k})
      <3>1. Has(s, k, e.val)
        BY <1>2, <1>3
      <3>2. k \in Waiting(h, s)
        BY <3>1, <1>11 DEF Waiting
      <3>3. \A w : ~Has(b, k, w)
        BY <1>2, <1>3
      <3>4. \A x, w : Has(b, x, w) => Has(s, x, w)
        BY <1>2
      <3>5. QED
        BY <3>2, <3>3, <3>4, <2>3 DEF Waiting
    <2>5. /\ IsFiniteSet(Waiting(h, s) \ {k})
          /\ Cardinality(Waiting(h, s) \ {k}) = Cardinality(Waiting(h, s)) - 1
      BY <2>4, <1>5, FS_RemoveElement
    <2>6. /\ IsFiniteSet(Waiting(g, b))
          /\ Cardinality(Waiting(g, b)) <= Cardinality(Waiting(h, s) \ {k})
      BY <2>4, <2>5, FS_Subset
    <2>7. Cardinality(Waiting(g, b)) \in Nat
      BY <2>6, FS_CardinalityType
    <2>8. Cardinality(Keyed(g)) <= Cardinality(Keyed(h)) + 1
      <3>1. PICK K : K = Keyed(h) \cup {m}
        OBVIOUS
      <3>2. /\ IsFiniteSet(K)
            /\ Cardinality(K) = Cardinality(Keyed(h)) \/ Cardinality(K) = Cardinality(Keyed(h)) + 1
        BY <3>1, <1>9, FS_AddElement
      <3>3. Keyed(g) \in SUBSET K
        BY <2>2, <3>1
      <3>4. Cardinality(Keyed(g)) <= Cardinality(K)
        BY <3>2, <3>3, FS_Subset
      <3>5. QED
        BY <3>2, <3>4, <1>8, <1>9
    <2>9. Cardinality(Keyed(g)) + Cardinality(Waiting(g, b)) <= sizenode(g)
      BY <2>5, <2>6, <2>7, <2>8, <1>5, <1>8, <1>9
    <2>10. Room(g, b)
      BY <2>1, <2>6, <2>9 DEF Room, Grows
    <2>11. QED
      BY <2>10, <1>4, <1>6, <1>7 DEF Settles
  <1>12. QED
    BY <1>10, <1>11

\* An assignment inserts at once or leaves a rehash that has made room.
LEMMA PutRoom ==
  ASSUME NEW h, NEW c, Stands(h, <<>>, c), NEW given \in Given, NEW v \in Value,
         NEW r, r = luaH_put(h, given, v, <<>>)
  PROVE  Room(r.t, r.todo)
  <1>1. PICK N \in Nat \ {0} : h \in Tables(N)
    BY DEF Stands
  <1>2. Tidy(h) /\ Indexed(h)
    BY DEF Stands
  <1>3. PICK k \in Key : k = normal(given)
    BY GivenFacts
  <1>4. PICK rest : rest = <<>>
    OBVIOUS
  <1>5. Stores(N, h, k, v, rest, r) \/ Overflows(h, k, v, rest, r)
    BY <1>1, <1>2, <1>3, <1>4, PutTidy
  <1>6. CASE Stores(N, h, k, v, rest, r)
    <2>1. PICK g : g = r.t
      OBVIOUS
    <2>2. r.todo = <<>> /\ g \in Tables(N) /\ Tidy(g)
      BY <2>1, <1>4, <1>6 DEF Stores
    <2>3. Room(g, <<>>)
      BY <2>2, EmptyRoom
    <2>4. QED
      BY <2>1, <2>2, <2>3
  <1>7. CASE Overflows(h, k, v, rest, r)
    <2>1. r = luaH_newkey(h, k, v, rest) /\ Full(h, k)
      BY <1>7 DEF Overflows
    <2>2. PICK g : g = getfreepos(h)
      OBVIOUS
    <2>3. g \in Tables(N) /\ Tidy(g) /\ Indexed(g)
      <3>1. freeposition(h) = NULL
        BY <2>1 DEF Full
      <3>2. QED
        BY <3>1, <2>2, <1>1, <1>2, GiveUp
    <2>4. PICK q : q = rehash(g, k)
      OBVIOUS
    <2>5. PICK e : e = [key |-> k, val |-> v]
      OBVIOUS
    <2>6. r = [t |-> q.t, todo |-> q.todo \o <<e>> \o rest]
      BY <2>1, <2>2, <2>4, <2>5 DEF luaH_newkey
    <2>7. e \in Entries /\ e.key = k
      BY <2>5 DEF Entries, Value
    <2>8. PICK s : s = q.todo \o <<e>>
      OBVIOUS
    <2>9. Room(q.t, s)
      BY <2>3, <2>4, <2>7, <2>8, RehashRoom
    <2>10. s \in Seq(Entries)
      <3>1. PICK z : z = computesizes(nums(g, k), Cardinality(Candidates(g, k)))
        OBVIOUS
      <3>2. z.n \in Nat
        BY <2>3, <3>1, RehashSizes
      <3>3. q = luaH_resize(g, z.n, totaluse(g) - z.na)
        BY <2>4, <3>1 DEF rehash
      <3>4. q.todo = Vanishing(g, z.n) \o Old(g)
        BY <3>3, ResizeTodo
      <3>5. Vanishing(g, z.n) \in Seq(Entries) /\ Old(g) \in Seq(Entries)
        BY <2>3, <3>2, VanishingFacts, OldFacts
      <3>6. q.todo \in Seq(Entries) /\ <<e>> \in Seq(Entries)
        BY <3>4, <3>5, <2>7, ConcatProperties
      <3>7. QED
        BY <2>8, <3>6, ConcatProperties
    <2>11. s \o rest = s
      BY <2>10, <1>4, ConcatEmptySeq
    <2>12. r.t = q.t /\ r.todo = s
      BY <2>6, <2>8, <2>11
    <2>13. QED
      BY <2>9, <2>12
  <1>8. QED
    BY <1>5, <1>6, <1>7

\* The next turn of a resize finds room and leaves room for those that follow.
Advances(h, s, b, e) ==
  /\ e.key = NULL => Room(h, b)
  /\ e.key # NULL => Settles(h, s, e.key, luaH_put(h, e.key, e.val, b))

LEMMA HeadRoom ==
  ASSUME NEW h, NEW s, NEW c, Stands(h, s, c), Room(h, s), s # <<>>,
         NEW e, e = Head(s), NEW b, b = Tail(s)
  PROVE  Advances(h, s, b, e)
  <1>1. PICK N \in Nat \ {0} : h \in Tables(N)
    BY DEF Stands
  <1>2. Tidy(h) /\ Indexed(h) /\ s \in Seq(Entries) /\ Distinct(s)
    BY DEF Stands, Pending
  <1>3. e \in Entries /\ \A x, w : Has(s, x, w) <=> (e.key = x /\ e.val = w) \/ Has(b, x, w)
    BY <1>2, HeadFacts
  <1>4. ASSUME e.key = NULL
        PROVE  Room(h, b)
    <2>1. \A x \in Key : \A w : Has(s, x, w) <=> Has(b, x, w)
      BY <1>3, <1>4, KeyFacts
    <2>2. Waiting(h, b) = Waiting(h, s)
      BY <2>1 DEF Waiting
    <2>3. QED
      BY <2>2 DEF Room
  <1>5. ASSUME e.key # NULL
        PROVE  Settles(h, s, e.key, luaH_put(h, e.key, e.val, b))
    <2>1. PICK k \in Key, v \in Value : k = e.key /\ v = e.val
      BY <1>3, <1>5 DEF Entries, Value
    <2>2. PICK r : r = luaH_put(h, k, v, b)
      OBVIOUS
    <2>3. k = Head(s).key
      BY <2>1
    <2>4. Settles(h, s, k, r)
      BY <1>1, <1>2, <2>2, <2>3, InsertRoom
    <2>5. QED
      BY <2>1, <2>2, <2>4
  <1>6. QED
    BY <1>4, <1>5 DEF Advances

\* OP_SETLIST grows the array part and keeps the number of nodes.
LEMMA SetListRoom ==
  ASSUME NEW h, NEW c, Stands(h, <<>>, c), NEW na \in Nat, na > sizearray(h),
         NEW r, r = luaH_resizearray(h, na)
  PROVE  Room(r.t, r.todo)
  <1>1. PICK N \in Nat \ {0} : h \in Tables(N)
    BY DEF Stands
  <1>2. Tidy(h) /\ Indexed(h)
    BY DEF Stands
  <1>3. sizenode(h) = N
    BY <1>1, <1>2, KeyedFacts
  <1>4. PICK nh \in Nat : nh = IF h.dummy THEN 0 ELSE N
    OBVIOUS
  <1>5. r = luaH_resize(h, na, nh)
    BY <1>3, <1>4 DEF luaH_resizearray
  <1>6. QED
    BY <1>1, <1>2, <1>4, <1>5, GrowRoom

\* The collector's marks take no node.
LEMMA StillRoom ==
  ASSUME NEW h, NEW c, Stands(h, <<>>, c)
  PROVE  Room(h, <<>>)
  <1>1. PICK N \in Nat \ {0} : h \in Tables(N)
    BY DEF Stands
  <1>2. Tidy(h)
    BY DEF Stands
  <1>3. QED
    BY <1>1, <1>2, EmptyRoom

\* A resize makes room for every entry, and a rehash for the key that it was
\* called for as well: until all are inserted none of the insertions rehashes.
THEOREM RehashSuffices == Spec => []RehashMakesRoom
  <1>1. Init /\ Inv => Room(t, todo)
    <2> SUFFICES ASSUME Init, Inv
                 PROVE  Room(t, todo)
      OBVIOUS
    <2>1. todo = <<>> /\ Stands(t, <<>>, content)
      BY DEF Init, Inv
    <2>2. Room(t, <<>>)
      BY <2>1, StillRoom
    <2>3. QED
      BY <2>1, <2>2
  <1>2. Inv /\ Inv' /\ Room(t, todo) /\ [Next]_vars => Room(t, todo)'
    <2> SUFFICES ASSUME Inv, Inv', Room(t, todo), [Next]_vars
                 PROVE  Room(t', todo')
      BY DEF Room, Waiting, Has, Keyed, KeyOf, Nodes, inarray, sizenode
    <2>1. Stands(t, todo, content)
      BY DEF Inv
    <2>2. PICK h, s, d : h = t' /\ s = todo' /\ d = content'
      OBVIOUS
    <2>3. Stands(h, s, d)
      BY <2>2 DEF Inv, Stands
    <2>4. CASE todo' = <<>>
      <3>1. s = <<>>
        BY <2>2, <2>4
      <3>2. Stands(h, <<>>, d)
        BY <2>3, <3>1
      <3>3. Room(h, <<>>)
        BY <3>2, StillRoom
      <3>4. QED
        BY <3>1, <3>3, <2>2
    <2>5. ASSUME NEW given \in Given, NEW v \in Value, Set(given, v)
          PROVE  Room(t', todo')
      <3>1. PICK r : r = luaH_put(t, given, v, <<>>)
        OBVIOUS
      <3>2. todo = <<>> /\ t' = r.t /\ todo' = r.todo
        BY <2>5, <3>1 DEF Set
      <3>3. Stands(t, <<>>, content)
        BY <2>1, <3>2
      <3>4. Room(r.t, r.todo)
        BY <3>1, <3>3, PutRoom
      <3>5. QED
        BY <3>2, <3>4
    <2>6. CASE \E k \in Given : Set(k, normal(k)) \/ Set(k, NULL)
      <3>1. \A k \in Given : normal(k) \in Value /\ NULL \in Value
        BY GivenFacts DEF Value
      <3>2. PICK k \in Given : Set(k, normal(k)) \/ Set(k, NULL)
        BY <2>6
      <3>3. CASE Set(k, normal(k))
        BY <3>1, <3>3, <2>5
      <3>4. CASE Set(k, NULL)
        BY <3>1, <3>4, <2>5
      <3>5. QED
        BY <3>2, <3>3, <3>4
    <2>7. CASE Reinsert
      <3>1. PICK e, b : e = Head(todo) /\ b = Tail(todo)
        OBVIOUS
      <3>2. PICK r : r = luaH_put(t, e.key, e.val, b)
        OBVIOUS
      <3>3. /\ todo # <<>>
            /\ e.key = NULL => todo' = b /\ t' = t
            /\ e.key # NULL => t' = r.t /\ todo' = r.todo
        BY <2>7, <3>1, <3>2 DEF Reinsert
      <3>4. Advances(t, todo, b, e)
        BY <2>1, <3>1, <3>3, HeadRoom
      <3>5. e.key = NULL => Room(t, b)
        BY <3>4 DEF Advances
      <3>6. e.key # NULL => Room(r.t, r.todo)
        BY <3>2, <3>4 DEF Advances, Settles
      <3>7. QED
        BY <3>3, <3>5, <3>6
    <2>8. CASE SetList(2)
      <3>1. PICK r : r = luaH_resizearray(t, 2)
        OBVIOUS
      <3>2. todo = <<>> /\ 2 > sizearray(t) /\ t' = r.t /\ todo' = r.todo
        BY <2>8, <3>1 DEF SetList
      <3>3. Stands(t, <<>>, content)
        BY <2>1, <3>2
      <3>4. PICK n \in Nat : n = 2
        OBVIOUS
      <3>5. Room(r.t, r.todo)
        BY <3>1, <3>2, <3>3, <3>4, SetListRoom
      <3>6. QED
        BY <3>2, <3>5
    <2>9. CASE (\E n \in DOMAIN t.node : DeadKey(n)) \/ StartTraversal
      <3>1. todo = <<>> /\ todo' = todo
        BY <2>9 DEF DeadKey, StartTraversal
      <3>2. QED
        BY <3>1, <2>4
    <2>10. CASE NextKey \/ UNCHANGED vars
      <3>1. t' = t /\ todo' = todo
        BY <2>10 DEF NextKey, vars
      <3>2. QED
        BY <3>1
    <2>11. QED
      BY <2>6, <2>7, <2>8, <2>9, <2>10 DEF Next
  <1>3. Inv /\ Room(t, todo) => RehashMakesRoom
    <2> SUFFICES ASSUME Inv, Room(t, todo), todo # <<>>, Head(todo).key # NULL
                 PROVE  ~Rehashes(Head(todo).key)
      BY DEF RehashMakesRoom
    <2>1. PICK e, b : e = Head(todo) /\ b = Tail(todo)
      OBVIOUS
    <2>2. Stands(t, todo, content)
      BY DEF Inv
    <2>3. Advances(t, todo, b, e)
      BY <2>1, <2>2, HeadRoom
    <2>4. ~inarray(t, e.key) => ~Full(t, e.key)
      BY <2>1, <2>3 DEF Advances, Settles
    <2>5. QED
      BY <2>1, <2>4 DEF Rehashes
  <1>4. QED
    BY <1>1, <1>2, <1>3, TableStands, PTL DEF Spec

=============================================================================
