------------------------------ MODULE LuaFiles ------------------------------
(***************************************************************************)
(* Files: reading and iterating, src/lua/src/liolib.c, and loading source  *)
(* and binary chunks, luaL_loadfilex of src/lua/src/lauxlib.c.             *)
(***************************************************************************)
EXTENDS LuaLexer

CONSTANTS
  LUAL_BUFFERSIZE, \* characters that a buffer takes before it grows
  MAXRN,           \* the longest numeral that is read
  BUFSIZ           \* characters of a block

-----------------------------------------------------------------------------
(* C's streams: where a text ends, broken ones report an error.             *)

stream(text, broken) == [text |-> text, p |-> 1, broken |-> broken, error |-> FALSE]
EOF == "EOF"
AtEnd(f) == f.p > Len(f.text)
Peek(f) == IF AtEnd(f) THEN EOF ELSE f.text[f.p]
Advance(f) == IF AtEnd(f) THEN [f EXCEPT !.error = @ \/ f.broken] ELSE [f EXCEPT !.p = @ + 1]
Left(f) == SubSeq(f.text, f.p, Len(f.text))
fread(f, n) ==
  LET s == SubSeq(Left(f), 1, IF n <= Len(Left(f)) THEN n ELSE Len(Left(f)))
  IN [s |-> s, f |-> [f EXCEPT !.p = @ + Len(s), !.error = @ \/ (Len(s) < n /\ f.broken)]]

-----------------------------------------------------------------------------
(* A numeral: c is the character that has been read and not yet taken, ok   *)
(* whether the latest test has taken one.                                   *)

nextc(rn) ==
  IF Len(rn.buff) >= MAXRN THEN [rn EXCEPT !.buff[1] = chr(0), !.ok = FALSE]
  ELSE [rn EXCEPT !.buff = Append(@, rn.c), !.c = Peek(rn.f), !.f = Advance(rn.f), !.ok = TRUE]
test2(rn, set) == IF rn.c \in set THEN nextc(rn) ELSE [rn EXCEPT !.ok = FALSE]
RECURSIVE readdigits(_, _)
readdigits(rn, digits) ==
  LET read == test2(rn, digits)
  IN IF read.ok THEN readdigits([read EXCEPT !.count = @ + 1], digits) ELSE read
CString(s) == SubSeq(s, 1, CHOOSE n \in 0 .. Len(s) : /\ n < Len(s) => s[n + 1] = chr(0)
                                                      /\ \A i \in 1 .. n : s[i] # chr(0))

Str(text) == [t |-> "STRING", v |-> 0, s |-> text]
nil == [t |-> "nil", v |-> 0, s |-> <<>>]
Got(f, ok, value) == [f |-> f, ok |-> ok, value |-> value]

read_number(f) ==
  LET spaces == Len(Span(Left(f), lisspace))
      at == [f EXCEPT !.p = @ + spaces]
      first == [f |-> Advance(at), c |-> Peek(at), buff |-> <<>>, count |-> 0, ok |-> FALSE]
      zero == test2(test2(first, {"-", "+"}), {"0"})
      x == test2(zero, {"x", "X"})
      hex == zero.ok /\ x.ok
      lead == IF zero.ok THEN [x EXCEPT !.count = IF hex THEN 0 ELSE 1] ELSE zero
      digits == IF hex THEN lisxdigit ELSE lisdigit
      point == test2(readdigits(lead, digits), {"."})
      fraction == IF point.ok THEN readdigits(point, digits) ELSE point
      mark == test2(fraction, IF hex THEN {"p", "P"} ELSE {"e", "E"})
      exponent == IF mark.ok THEN readdigits(test2(mark, {"-", "+"}), lisdigit) ELSE mark
      rn == IF fraction.count > 0 THEN exponent ELSE fraction
      back == IF rn.c = EOF THEN rn.f ELSE [rn.f EXCEPT !.p = @ - 1]
      number == luaO_str2num(CString(rn.buff))
  IN IF number.t = "malformed number" THEN Got(back, FALSE, nil) ELSE Got(back, TRUE, number)

-----------------------------------------------------------------------------
(* Lines, characters and the rest.                                          *)

test_eof(f) == Got(IF AtEnd(f) THEN Advance(f) ELSE f, ~AtEnd(f), Str(<<>>))

\* Up to the next end of line, in pieces as large as a buffer; c is the last
\* character read.
RECURSIVE ReadPieces(_, _, _)
ReadPieces(f, b, c) ==
  IF c \in {EOF, "\n"} THEN [f |-> f, b |-> b, c |-> c]
  ELSE LET ends == {i \in 1 .. Len(Left(f)) : Left(f)[i] = "\n"}
           line == IF ends = {} THEN Len(Left(f)) ELSE (CHOOSE i \in ends : \A j \in ends : i <= j) - 1
           n == IF line < LUAL_BUFFERSIZE THEN line ELSE LUAL_BUFFERSIZE
           after == [f EXCEPT !.p = @ + n]
           b1 == b \o SubSeq(Left(f), 1, n)
       IN IF n = LUAL_BUFFERSIZE THEN ReadPieces(after, b1, Last(b1)) ELSE ReadPieces(Advance(after), b1, Peek(after))
read_line(f, chop) ==
  LET read == ReadPieces(f, <<>>, chr(0))
      b == IF ~chop /\ read.c = "\n" THEN Append(read.b, "\n") ELSE read.b
  IN Got(read.f, read.c = "\n" \/ b # <<>>, Str(b))
RECURSIVE ReadBlocks(_, _)
ReadBlocks(f, b) ==
  LET read == fread(f, LUAL_BUFFERSIZE)
  IN IF Len(read.s) = LUAL_BUFFERSIZE THEN ReadBlocks(read.f, b \o read.s) ELSE Got(read.f, TRUE, Str(b \o read.s))
read_all(f) == ReadBlocks(f, <<>>)
read_chars(f, n) == LET read == fread(f, n) IN Got(read.f, read.s # <<>>, Str(read.s))

\* What a list of formats reads: the first that fails gives nil and is the last.
ReadFormat(f, format) ==
  CASE format.k = "n" -> read_number(f)
    [] format.k = "l" -> read_line(f, TRUE)
    [] format.k = "L" -> read_line(f, FALSE)
    [] format.k = "a" -> read_all(f)
    [] format.k = "chars" -> IF format.n = 0 THEN test_eof(f) ELSE read_chars(f, format.n)
luaL_fileresult == <<nil, Str(Chars("error")), Str(Chars("errno"))>>
g_read(f, formats) ==
  LET NextFormat(r, format) ==
        LET got == ReadFormat(r.f, format)
        IN IF r.ok THEN [f |-> got.f, ok |-> got.ok, results |-> Append(r.results, IF got.ok THEN got.value ELSE nil)] ELSE r
      asked == IF formats = <<>> THEN <<[k |-> "l", n |-> 0]>> ELSE formats
      read == FoldLeft(NextFormat, [f |-> [f EXCEPT !.error = FALSE], ok |-> TRUE, results |-> <<>>], asked)
  IN [f |-> read.f, results |-> IF read.f.error THEN luaL_fileresult ELSE read.results]

-----------------------------------------------------------------------------
(* Handles: w has the handles with their streams, the default input, the    *)
(* iterators and, for every call, its results or its error.                 *)

Result(w, values) == [w EXCEPT !.results = Append(@, [error |-> "", values |-> values])]
luaL_error(w, msg) == [w EXCEPT !.results = Append(@, [error |-> msg, values |-> <<>>])]
isclosed(w, h) == w.files[h].closed
aux_close(w, h) == [w EXCEPT !.files[h].closed = TRUE]
io_close(w, h) ==
  IF isclosed(w, h) THEN luaL_error(w, "attempt to use a closed file") ELSE Result(aux_close(w, h), <<>>)
opencheck(w, text, broken) ==
  [w EXCEPT !.files = Append(@, [f |-> stream(text, broken), closed |-> FALSE])]
io_input(w, text, broken) ==
  LET opened == opencheck(w, text, broken) IN Result([opened EXCEPT !.input = Len(opened.files)], <<>>)
Reads(w, h, formats) ==
  LET read == g_read(w.files[h].f, formats) IN Result([w EXCEPT !.files[h].f = read.f], read.results)
io_read(w, formats) ==
  IF isclosed(w, w.input) THEN luaL_error(w, "standard input file is closed") ELSE Reads(w, w.input, formats)
l_checkmode(mode) ==
  LET Optional(s, c) == IF Begins(s, {c}) THEN Tail(s) ELSE s
  IN Begins(mode, {"r", "w", "a"}) /\ Optional(Optional(Tail(mode), "+"), "b") = <<>>
aux_lines(w, h, formats, toclose) ==
  Result([w EXCEPT !.iterators = Append(@, [h |-> h, formats |-> formats, toclose |-> toclose])], <<>>)
f_lines(w, h, formats) ==
  IF isclosed(w, h) THEN luaL_error(w, "attempt to use a closed file") ELSE aux_lines(w, h, formats, FALSE)
io_lines(w, text, broken, formats) ==
  LET opened == opencheck(w, text, broken) IN aux_lines(opened, Len(opened.files), formats, TRUE)
io_readline(w, i) ==
  LET p == w.iterators[i]
      read == g_read(w.files[p.h].f, p.formats)
      after == [w EXCEPT !.files[p.h].f = read.f]
  IN CASE isclosed(w, p.h) -> luaL_error(w, "file is already closed")
       [] ~isclosed(w, p.h) /\ read.results[1] # nil -> Result(after, read.results)
       [] ~isclosed(w, p.h) /\ read.results[1] = nil /\ Len(read.results) > 1 -> luaL_error(after, "error")
       [] OTHER -> Result(IF p.toclose THEN aux_close(after, p.h) ELSE after, <<>>)

-----------------------------------------------------------------------------
(* Loading a file: what luaL_loadfilex hands to the parser block by block.  *)

BOM == <<chr(239), chr(187), chr(191)>>
\* The characters of a BOM at the beginning are kept unless all three are there.
skipBOM(text) ==
  LET n == CHOOSE k \in 0 .. 3 : /\ k <= Len(text) /\ SubSeq(text, 1, k) = SubSeq(BOM, 1, k)
                                 /\ k < 3 => k = Len(text) \/ text[k + 1] # BOM[k + 1]
  IN [f |-> [stream(text, FALSE) EXCEPT !.p = n + 1], buff |-> IF n = 3 THEN <<>> ELSE SubSeq(BOM, 1, n)]
skipcomment(text) ==
  LET first == skipBOM(text)
      line == read_line(first.f, TRUE)
  IN IF Peek(first.f) = "#" THEN [f |-> line.f, buff |-> first.buff, skipped |-> TRUE]
     ELSE [f |-> first.f, buff |-> first.buff, skipped |-> FALSE]
\* The blocks that getF returns: what has been read ahead, then the file's.
RECURSIVE getF(_)
getF(f) == IF AtEnd(f) THEN <<>> ELSE <<fread(f, BUFSIZ).s>> \o getF(fread(f, BUFSIZ).f)
LUA_SIGNATURE == chr(27)
luaL_loadfilex(text) ==
  LET portion == skipcomment(text)
      c == Peek(portion.f)
      ahead == CASE c = EOF -> portion.buff \o (IF portion.skipped THEN <<"\n">> ELSE <<>>)
                 [] c = LUA_SIGNATURE -> Append(portion.buff, c)
                 [] OTHER -> portion.buff \o (IF portion.skipped THEN <<"\n", c>> ELSE <<c>>)
  IN (IF ahead = <<>> THEN <<>> ELSE <<ahead>>) \o getF(Advance(portion.f))

=============================================================================
