------------------------------- MODULE LuaUtf8 -------------------------------
(***************************************************************************)
(* The UTF-8 library, src/lua/src/lutf8lib.c.  A string is a sequence of   *)
(* bytes; positions count from 1, and behind the last byte there is a NUL. *)
(***************************************************************************)
EXTENDS Integers, Sequences, SequencesExt

MAXUNICODE == 1114111
byte(s, i) == IF i \in DOMAIN s THEN s[i] ELSE 0
iscont(s, i) == byte(s, i) \in 128 .. 191
u_posrelat(pos, len) == IF pos >= 0 THEN pos ELSE IF -pos > len THEN 0 ELSE len + pos + 1

\* The greatest code point that fewer continuation bytes can hold.
limits == <<127, 2047, 65535>>

Overlong(res, count) == res <= limits[count]

\* Ones at the start of a first byte, without the first.
RECURSIVE ones(_)
ones(c) == IF c % 128 < 64 THEN 0 ELSE 1 + ones(2 * c)
\* The code point that starts at i and the position behind it; next = 0 if the
\* bytes are invalid.
utf8_decode(s, i) ==
  LET c == byte(s, i)
      count == ones(c)
      cont == [n \in 1 .. count |-> byte(s, i + n) % 64]
      first == (c * 2 ^ count) % 128
      res == FoldLeft(LAMBDA x, b : x * 64 + b, 0, cont) + first * 2 ^ (5 * count)
      Invalid == [next |-> 0, val |-> 0]
  IN IF c < 128 THEN [next |-> i + 1, val |-> c]
     ELSE IF count \notin 1 .. 3 \/ ~(\A n \in 1 .. count : iscont(s, i + n)) THEN Invalid
     ELSE IF res > MAXUNICODE \/ Overlong(res, count) THEN Invalid
     ELSE [next |-> i + count + 1, val |-> res]

Error == [ok |-> FALSE, v |-> <<>>]
Gives(v) == [ok |-> TRUE, v |-> v]

\* The code points that start from i to j, and the position of an invalid one or 0.
RECURSIVE decodes(_, _, _)
decodes(s, i, j) ==
  LET d == utf8_decode(s, i)
      rest == decodes(s, d.next, j)
  IN IF i > j THEN [codes |-> <<>>, at |-> 0]
     ELSE IF d.next = 0 THEN [codes |-> <<>>, at |-> i]
     ELSE [codes |-> <<d.val>> \o rest.codes, at |-> rest.at]

\* len(s, i, j): the number of characters, or nil (no value) and a position.
utflen(s, i, j) ==
  LET posi == u_posrelat(i, Len(s))
      posj == u_posrelat(j, Len(s))
      d == decodes(s, posi, posj)
  IN IF posi \notin 1 .. Len(s) + 1 \/ posj > Len(s) THEN Error
     ELSE IF d.at = 0 THEN Gives(<<Len(d.codes)>>) ELSE Gives(<<-1, d.at>>)

codepoint(s, i, j) ==
  LET posi == u_posrelat(i, Len(s))
      pose == u_posrelat(j, Len(s))
      d == decodes(s, posi, pose)
  IN IF posi < 1 \/ pose > Len(s) \/ d.at # 0 THEN Error ELSE Gives(d.codes)

\* The next position at or below (above) i whose byte is no continuation;
\* downwards the search ends at 1.
RECURSIVE back(_, _), forth(_, _)
back(s, i) == IF i > 1 /\ iscont(s, i) THEN back(s, i - 1) ELSE i
forth(s, i) == IF iscont(s, i) THEN forth(s, i + 1) ELSE i

\* Moves by n characters, as far as there are any.
RECURSIVE moves(_, _, _)
moves(s, i, n) ==
  CASE n < 0 /\ i > 1 -> moves(s, back(s, i - 1), n + 1)
    [] n > 0 /\ i <= Len(s) -> moves(s, forth(s, i + 1), n - 1)
    [] OTHER -> [i |-> i, n |-> n]
byteoffset(s, n, i) ==
  LET posi == u_posrelat(i, Len(s))
      moved == moves(s, posi, IF n > 0 THEN n - 1 ELSE n)
  IN IF posi \notin 1 .. Len(s) + 1 THEN Error
     ELSE IF n = 0 THEN Gives(<<back(s, posi)>>)
     ELSE IF iscont(s, posi) THEN Error
     ELSE IF moved.n = 0 THEN Gives(<<moved.i>>) ELSE Gives(<<>>)

\* The positions and code points that codes returns after position i.
RECURSIVE iter_aux(_, _)
iter_aux(s, i) ==
  LET n == IF i = 0 THEN 1 ELSE forth(s, i + 1)
      d == utf8_decode(s, n)
      rest == iter_aux(s, n)
  IN IF n > Len(s) THEN Gives(<<>>)
     ELSE IF d.next = 0 \/ iscont(s, d.next) THEN Error
     ELSE [ok |-> rest.ok, v |-> <<<<n, d.val>>>> \o rest.v]
iter_codes(s) == iter_aux(s, 0)

=============================================================================
