------------------------------- MODULE LuaBits -------------------------------
(***************************************************************************)
(* The bit library, src/lua/src/lbitlib.c, and the shifts of               *)
(* src/lua/src/lvm.c.  A lua_Unsigned is the set of its bits, numbered     *)
(* from 0; the library keeps LUA_NBITS of them.                            *)
(***************************************************************************)
EXTENDS Integers, Sequences, FiniteSets, SequencesExt

CONSTANTS
  LUA_NBITS,  \* bits of the library's numbers
  UBITS       \* bits of a lua_Unsigned

Bits == 0 .. UBITS - 1
ALLONES == 0 .. LUA_NBITS - 1
trim(x) == x \cap ALLONES
left(x, i) == {b + i : b \in x} \cap Bits
right(x, i) == {b - i : b \in x} \cap Bits

b_and(args) == trim({b \in Bits : \A n \in DOMAIN args : b \in args[n]})
b_test(args) == b_and(args) # {}
b_or(args) == trim(UNION Range(args))
b_xor(args) == trim({b \in Bits : Cardinality({n \in DOMAIN args : b \in args[n]}) % 2 = 1})
b_not(x) == trim(Bits \ x)

b_shift(r, i) ==
  CASE i < 0 /\ -i < LUA_NBITS -> right(trim(r), -i)
    [] i \in ALLONES -> trim(left(r, i))
    [] OTHER -> {}
b_lshift(r, i) == b_shift(r, i)
b_rshift(r, i) == b_shift(r, -i)

\* The bits above bit LUA_NBITS - 1 of r come down with the others, so that
\* they are trimmed away only behind the sign.
b_arshift(r, i) ==
  IF i < 0 \/ LUA_NBITS - 1 \notin r THEN b_shift(r, -i)
  ELSE IF i >= LUA_NBITS THEN ALLONES
  ELSE trim(right(r, i) \cup (Bits \ right(ALLONES, i)))

b_rot(r, d) ==
  LET i == d % LUA_NBITS
  IN IF i = 0 THEN trim(r) ELSE trim(left(trim(r), i) \cup right(trim(r), LUA_NBITS - i))
b_lrot(r, d) == b_rot(r, d)
b_rrot(r, d) == b_rot(r, -d)

fieldargs(f, w) == f >= 0 /\ w > 0 /\ f + w <= LUA_NBITS
\* The low w bits, and what the shifts of mask leave above.
mask(w) == Bits \ left(left(ALLONES, 1), w - 1)
b_extract(x, f, w) == right(trim(x), f) \cap mask(w)
\* The mask as an int, which has LUA_NBITS bits and is extended by its sign.
intmask(w) == IF LUA_NBITS - 1 \in mask(w) THEN Bits ELSE trim(mask(w))
b_replace(x, v, f, w) ==
  LET m == intmask(w)
  IN (trim(x) \ left(m, f)) \cup left(v \cap m, f)

\* luaV_shiftl on all bits of an integer.
luaV_shiftl(x, y) ==
  IF y < 0 THEN IF y <= -UBITS THEN {} ELSE right(x, -y) ELSE IF y >= UBITS THEN {} ELSE left(x, y)

=============================================================================
