------------------------------- MODULE LuaPack -------------------------------
(***************************************************************************)
(* string.pack, packsize and unpack of src/lua/src/lstrlib.c.  A byte is a *)
(* number of NB bits, a string a sequence of bytes; a format is a sequence *)
(* of options <<letter, numeral>>, with numeral -1 where there is none.    *)
(* The conversion of floats to bytes is left to the machine: a float is    *)
(* the sequence of its bytes in native order.                              *)
(***************************************************************************)
EXTENDS Integers, Sequences, SequencesExt

CONSTANTS
  NB, SZINT, MAXINTSIZE,   \* bits of a byte, bytes of a lua_Integer, bytes packed for one at most
  NATIVE,                  \* sizes of the machine's types, by their letters, and of its alignment
  MAXSIZE                  \* of a packed string

MC == 2 ^ NB - 1
Unsigned(n) == n % 2 ^ (SZINT * NB)
Signed(n) == IF n >= 2 ^ (SZINT * NB - 1) THEN n - 2 ^ (SZINT * NB) ELSE n

-----------------------------------------------------------------------------
(* Options. *)

Header == [islittle |-> TRUE, maxalign |-> 1]
getnum(o, df) == IF o[2] = -1 THEN df ELSE o[2]
Option(h, k, size) == [h |-> h, k |-> k, size |-> size, error |-> FALSE]
Limited(h, k, size) == [Option(h, k, size) EXCEPT !.error = size \notin 1 .. MAXINTSIZE]
getoption(h, o) ==
  LET c == o[1] IN
  CASE c \in {"b", "h", "l", "j"} -> Option(h, "int", NATIVE[c])
    [] c \in {"B", "H", "L", "J", "T"} -> Option(h, "uint", NATIVE[c])
    [] c \in {"f", "d", "n"} -> Option(h, "float", NATIVE[c])
    [] c = "i" -> Limited(h, "int", getnum(o, NATIVE["i"]))
    [] c = "I" -> Limited(h, "uint", getnum(o, NATIVE["i"]))
    [] c = "s" -> Limited(h, "string", getnum(o, NATIVE["T"]))
    [] c = "c" -> [Option(h, "char", getnum(o, 0)) EXCEPT !.error = o[2] = -1]
    [] c = "z" -> Option(h, "zstr", 0)
    [] c = "x" -> Option(h, "padding", 1)
    [] c = "X" -> Option(h, "paddalign", 0)
    [] c \in {"<", "="} -> Option([h EXCEPT !.islittle = TRUE], "nop", 0)
    [] c = ">" -> Option([h EXCEPT !.islittle = FALSE], "nop", 0)
    [] c = "!" -> LET r == Limited(h, "nop", getnum(o, NATIVE["!"]))
                  IN [r EXCEPT !.size = 0, !.h.maxalign = r.size]

powerof2(n) == \E i \in 0 .. 30 : n = 2 ^ i

\* The first option of fmt with its padding, and the format behind it; X is
\* aligned like the option behind it, which is used up.
getdetails(h, totalsize, fmt) ==
  LET first == getoption(h, fmt[1])
      X == first.k = "paddalign"
      second == IF X /\ Len(fmt) > 1 THEN getoption(first.h, fmt[2]) ELSE first
      natural == second.size
      align == IF natural > h.maxalign THEN h.maxalign ELSE natural
      aligns == natural > 1 /\ first.k # "char"
  IN [h |-> second.h, k |-> first.k, size |-> first.size, fmt |-> SubSeq(fmt, IF X THEN 3 ELSE 2, Len(fmt)),
      ntoalign |-> IF aligns /\ align > 0 THEN (align - (totalsize % align)) % align ELSE 0,
      error |-> \/ first.error \/ second.error
                \/ X /\ (Len(fmt) = 1 \/ second.k = "char" \/ natural = 0)
                \/ aligns /\ ~powerof2(align)]

-----------------------------------------------------------------------------
(* pack *)

inorder(bytes, islittle) == IF islittle THEN bytes ELSE Reverse(bytes)

\* Mutant of packint: no sign extension.
packint_zeros(n, islittle, size, neg) ==
  inorder([i \in 1 .. size |-> IF i > SZINT THEN 0 ELSE (n \div 2 ^ (NB * (i - 1))) % (MC + 1)], islittle)

\* The bytes of an unsigned n, with those beyond a lua_Integer for the sign.
packint(n, islittle, size, neg) ==
  inorder([i \in 1 .. size |-> IF i > SZINT THEN IF neg THEN MC ELSE 0
                               ELSE (n \div 2 ^ (NB * (i - 1))) % (MC + 1)], islittle)

\* The bytes of argument a for an option d, and whether it fits.
Argument(d, a) ==
  LET lim == 2 ^ (d.size * NB - 1)
      int(n) == packint(Unsigned(n), d.h.islittle, d.size, d.k = "int" /\ n < 0)
      Fits(b, bytes) == [fits |-> b, bytes |-> bytes]
  IN CASE d.k = "int" -> Fits(d.size < SZINT => a \in -lim .. lim - 1, int(a))
       [] d.k = "uint" -> Fits(d.size < SZINT => Unsigned(a) < 2 * lim, int(a))
       [] d.k = "float" -> Fits(TRUE, inorder(a, d.h.islittle))
       [] d.k = "char" -> Fits(Len(a) = d.size, a)
       [] d.k = "string" -> Fits(d.size >= NATIVE["T"] \/ Len(a) < 2 * lim, int(Len(a)) \o a)
       [] d.k = "zstr" -> Fits(\A i \in DOMAIN a : a[i] # 0, Append(a, 0))

Padding(n) == [i \in 1 .. n |-> 0]
RECURSIVE pack(_, _, _, _)
pack(h, fmt, args, b) ==
  LET d == getdetails(h, Len(b), fmt)
      takes == d.k \notin {"padding", "paddalign", "nop"}
      packed == IF takes THEN Argument(d, args[1]) ELSE [fits |-> TRUE, bytes |-> Padding(d.size)]
  IN IF fmt = <<>> THEN [ok |-> TRUE, b |-> b]
     ELSE IF d.error \/ ~packed.fits THEN [ok |-> FALSE, b |-> <<>>]
     ELSE pack(d.h, d.fmt, IF takes THEN Tail(args) ELSE args, b \o Padding(d.ntoalign) \o packed.bytes)
str_pack(fmt, args) == pack(Header, fmt, args, <<>>)

RECURSIVE packsize(_, _, _)
packsize(h, fmt, totalsize) ==
  LET d == getdetails(h, totalsize, fmt) IN
  IF fmt = <<>> THEN totalsize
  ELSE IF d.error \/ totalsize > MAXSIZE - d.size - d.ntoalign \/ d.k \in {"string", "zstr"} THEN -1
  ELSE packsize(d.h, d.fmt, totalsize + d.size + d.ntoalign)
str_packsize(fmt) == packsize(Header, fmt, 0)

-----------------------------------------------------------------------------
(* unpack *)

\* The integer in size bytes, and whether it fits in a lua_Integer.
unpackint(bytes, islittle, size, issigned) ==
  LET b == inorder(bytes, islittle)
      limit == IF size <= SZINT THEN size ELSE SZINT
      res == FoldRight(LAMBDA x, n : n * (MC + 1) + x, SubSeq(b, 1, limit), 0)
      mask == 2 ^ (size * NB - 1)
      sign == IF issigned /\ Signed(res) < 0 THEN MC ELSE 0
  IN [fits |-> \A i \in limit + 1 .. size : b[i] = sign,
      n |-> IF size < SZINT THEN IF issigned /\ res >= mask THEN res - 2 * mask ELSE res ELSE Signed(res)]

\* What an option reads at pos (counted from 0), and how far it goes.
Reads(value, n) == [fits |-> TRUE, value |-> <<value>>, n |-> n]
NotFitting == [fits |-> FALSE, value |-> <<>>, n |-> 0]
\* More bytes are copied than there are: what happens is undefined.
Overrun == [NotFitting EXCEPT !.n = -1]
SIZE_T == 2 ^ (NATIVE["T"] * NB)

\* The end of the string is computed in a size_t, and wraps.  Of the lengths
\* that pass the check by that, lua_pushlstring refuses all but the largest,
\* to which it adds one in a size_t too.
StringItem(d, data, pos, int) ==
  LET len == Unsigned(int.n)
      end == pos + len + d.size
  IN CASE ~int.fits \/ end % SIZE_T > Len(data) -> NotFitting
       [] int.fits /\ end <= Len(data) -> Reads(SubSeq(data, pos + d.size + 1, end), d.size + len)
       [] int.fits /\ end >= SIZE_T /\ end % SIZE_T <= Len(data) ->
            IF len + 1 = SIZE_T THEN Overrun ELSE NotFitting
Item(d, data, pos) ==
  LET bytes == SubSeq(data, pos + 1, pos + d.size)
      int == unpackint(bytes, d.h.islittle, d.size, d.k = "int")
      zeros == {i \in pos + 1 .. Len(data) : data[i] = 0}
      zlen == IF zeros = {} THEN Len(data) - pos ELSE (CHOOSE i \in zeros : \A j \in zeros : i <= j) - pos - 1
  IN CASE d.k \in {"int", "uint"} -> IF int.fits THEN Reads(int.n, d.size) ELSE NotFitting
       [] d.k = "float" -> Reads(inorder(bytes, d.h.islittle), d.size)
       [] d.k = "char" -> Reads(bytes, d.size)
       [] d.k = "string" -> StringItem(d, data, pos, int)
       [] d.k = "zstr" -> Reads(SubSeq(data, pos + 1, pos + zlen), zlen + 1)
       [] OTHER -> [fits |-> TRUE, value |-> <<>>, n |-> d.size]

\* The values, and the next position.
TooShort == [ok |-> FALSE, values |-> <<>>, next |-> 0]
RECURSIVE unpack(_, _, _, _, _)
unpack(h, fmt, data, pos, values) ==
  LET d == getdetails(h, pos, fmt)
      item == Item(d, data, pos + d.ntoalign)
  IN IF fmt = <<>> THEN [ok |-> TRUE, values |-> values, next |-> pos + 1]
     ELSE IF d.error \/ pos + d.ntoalign + d.size > Len(data) THEN TooShort
     ELSE IF ~item.fits THEN [TooShort EXCEPT !.next = item.n]
     ELSE unpack(d.h, d.fmt, data, pos + d.ntoalign + item.n, values \o item.value)
str_unpack(fmt, data, pos) ==
  IF pos - 1 > Len(data) THEN TooShort ELSE unpack(Header, fmt, data, pos - 1, <<>>)

=============================================================================
