----------------------------- MODULE MCLuaReading ----------------------------
(***************************************************************************)
(* Texts to read with LuaLexer and the tokens the manual gives them, and   *)
(* files to read and to load with LuaFiles.                                *)
(***************************************************************************)
EXTENDS LuaFiles

Words(set, n) == UNION {[1 .. k -> set] : k \in 1 .. n}
Prefix(s, n) == SubSeq(s, 1, n)
Behind(s, n) == SubSeq(s, n + 1, Len(s))
Largest(set) == CHOOSE n \in set : \A k \in set : k <= n
Least(set) == CHOOSE n \in set : \A k \in set : n <= k

\* The first token of a text, with the number of characters read if it is one.
Read(text) ==
  LET ls == llex(luaX_setinput(text))
  IN [t |-> ls.t, v |-> ls.v, s |-> ls.s, line |-> ls.linenumber, n |-> IF ls.t = "error" THEN 0 ELSE ls.p - 1]
Tokens(t, v, s, line, n) == [t |-> t, v |-> v, s |-> s, line |-> line, n |-> n]

-----------------------------------------------------------------------------
(* Symbols: the longest that begins the text.                               *)

SymbolTexts == Words({"=", "<", ">", "~", ":", "/", "."}, 3)
AllSymbols == {"=", "==", "<", "<=", "<<", ">", ">=", ">>", "~", "~=", ":", "::", "/", "//", ".", "..", "..."}
LongestSymbol(text) ==
  LET n == Largest({k \in DOMAIN text : Joined(Prefix(text, k)) \in AllSymbols})
  IN Tokens(Joined(Prefix(text, n)), 0, <<>>, 1, n)

-----------------------------------------------------------------------------
(* Numerals: an optional part behind the point and an optional exponent,    *)
(* decimal or hexadecimal; whatever else such characters make is malformed. *)

NumeralTexts == {s \in Words({"0", "9", "x", "e", "P", "-", "."}, 4) \cup [1 .. 5 -> {"1", "x", "a", "0"}] :
                   s[1] \in lisdigit \/ (s[1] = "." /\ Len(s) > 1 /\ s[2] \in lisdigit)}
Hexadecimal(s) == Len(s) > 1 /\ s[1] = "0" /\ s[2] = "x"
\* The longest prefix that the numeral may take, of which only hexadecimal ones
\* have an x, and a sign only behind an exponent's mark.  (Of .0x the code takes
\* the x as well, and refuses it.)
Extent(s) ==
  LET point == IF s[1] = "." THEN 1 ELSE 0
      hexadecimal == Hexadecimal(Behind(s, point))
      mark == IF hexadecimal THEN "P" ELSE "e"
      From == point + (IF hexadecimal THEN 3 ELSE 2)
  IN Largest({n \in From - 1 .. Len(s) : \A i \in From .. n :
       s[i] \in lisxdigit \cup {".", mark} \/ (s[i] = "-" /\ s[i - 1] = mark)})
AllOf(s, set) == s # <<>> /\ Range(s) \subseteq set
Mantissa(s, digits) == AllOf(s, digits \cup {"."}) /\ s # <<".">> /\ Cardinality({i \in DOMAIN s : s[i] = "."}) <= 1
Exponent(s, mark) == Len(s) > 1 /\ s[1] = mark /\ AllOf(IF s[2] = "-" THEN Behind(s, 2) ELSE Behind(s, 1), lisdigit)
Numeral(s) ==
  LET digits == IF Hexadecimal(s) THEN lisxdigit ELSE lisdigit
      base == IF Hexadecimal(s) THEN 16 ELSE 10
      body == IF Hexadecimal(s) THEN Behind(s, 2) ELSE s
      n == Len(body)
  IN CASE AllOf(body, digits) ->
            Tokens("INT", Wrapped(FoldLeft(LAMBDA x, i : x + luaO_hexavalue(body[i]) * base ^ (n - i), 0, [i \in 1 .. n |-> i])), <<>>, 1, Len(s))
       [] ~AllOf(body, digits) /\ \E k \in 1 .. n :
            Mantissa(Prefix(body, k), digits) /\ (k < n => Exponent(Behind(body, k), IF base = 16 THEN "P" ELSE "e")) ->
            Tokens("FLT", 0, <<>>, 1, Len(s))
       [] OTHER -> Tokens("error", 0, <<>>, 1, 0)

-----------------------------------------------------------------------------
(* Long strings: up to the first bracket of the same level, without a line  *)
(* break at the beginning, and with every line break as a newline.          *)

LongTexts == {"", "="} \X ({<<>>} \cup Words({"]", "=", "\n", "\r", "a"}, 4))
\* Where line breaks end: two different newlines are one.
RECURSIVE BreaksOf(_, _)
BreaksOf(s, i) ==
  IF i > Len(s) THEN {}
  ELSE IF s[i] \notin Newlines THEN BreaksOf(s, i + 1)
  ELSE LET last == IF i < Len(s) /\ {s[i], s[i + 1]} = Newlines THEN i + 1 ELSE i
       IN {<<i, last>>} \cup BreaksOf(s, last + 1)
LongText(case) == <<"[">> \o Chars(case[1]) \o <<"[">> \o case[2] \o <<"]">> \o Chars(case[1]) \o <<"]">>
LongString(case) ==
  LET close == <<"]">> \o Chars(case[1]) \o <<"]">>
      inner == case[2] \o close
      end == Least({n \in 0 .. Len(case[2]) : Prefix(Behind(inner, n), Len(close)) = close})
      s == Prefix(inner, end)
      breaks == BreaksOf(s, 1)
      Written(i) == IF \E b \in breaks : b[1] = i THEN IF i = 1 THEN <<>> ELSE <<"\n">>
                    ELSE IF \E b \in breaks : b[2] = i THEN <<>> ELSE <<s[i]>>
  IN Tokens("STRING", 0, FlattenSeq([i \in DOMAIN s |-> Written(i)]), 1 + Cardinality(breaks), end + 2 * Len(close))

-----------------------------------------------------------------------------
(* Strings between quotes: every spelling of their characters.              *)

Spellings ==
  [c \in {"\n", "1", "\"", "\\200", "\t"} |->
     CASE c = "\n" -> {"\\n", "\\10", "\\010", "\\x0A", "\\u{00a}", "\\\n", "\\\r"}
       [] c = "1" -> {"1", "\\49", "\\049", "\\x31", "\\u{31}", "\\z \n1"}
       [] c = "\"" -> {"\\\"", "\\34", "\\x22"}
       [] c = "\\200" -> {"\\200", "\\xc8"}
       [] c = "\t" -> {"\t", "\\t", "\\9", "\\09", "\\x09"}]
SpelledTexts == Words(DOMAIN Spellings, 2)
\* An escape of fewer than three digits needs a character other than a digit behind it.
Short(spelling) == Len(spelling) < 4 /\ Len(spelling) > 1 /\ Chars(spelling)[2] \in lisdigit
Spelled(s) == {f \in [DOMAIN s -> UNION {Spellings[c] : c \in Range(s)}] :
                 /\ \A i \in DOMAIN s : f[i] \in Spellings[s[i]]
                 /\ \A i \in DOMAIN s : i > 1 /\ Short(f[i - 1]) => Chars(f[i])[1] \notin lisdigit}
SpelledText(f) == <<"\"">> \o FlattenSeq([i \in DOMAIN f |-> Chars(f[i])]) \o <<"\"">>
ReadSpelled(s) == LET read == {Read(SpelledText(f)) : f \in Spelled(s)} IN {<<r.t, r.s>> : r \in read}

-----------------------------------------------------------------------------
(* Tokens between spaces, line breaks and comments, with their lines.       *)

Separators == {" ", "\r\n", "--a\n", "--[[\n]]", "--[=[]]\r\r]=]", "--[=a\n"}
Separated == {"and", "a1", "...", "'b'"}
LineTexts == [word : [1 .. 2 -> Separated], separator : [1 .. 2 -> Separators]]
LineText(case) == FlattenSeq([i \in 1 .. 2 |-> Chars(case.word[i]) \o Chars(case.separator[i])])
Breaks(separator) == Cardinality({b \in BreaksOf(Chars(separator), 1) : TRUE})
TokenOf(token) ==
  CASE token = "a1" -> <<"NAME", Chars("a1")>> [] token = "'b'" -> <<"STRING", <<"b">>>> [] OTHER -> <<token, <<>>>>
LineTokens(case) ==
  LET line == <<1, 1 + Breaks(case.separator[1]), 1 + Breaks(case.separator[1]) + Breaks(case.separator[2])>>
      token == <<TokenOf(case.word[1]), TokenOf(case.word[2]), <<"EOS", <<>>>>>>
  IN [i \in 1 .. 3 |-> [t |-> token[i][1], v |-> 0, s |-> token[i][2], line |-> line[i]]]

-----------------------------------------------------------------------------
(* What %q writes is read back as the same string.                          *)

QuotedTexts == {<<>>} \cup Words({"\n", "\r", "\"", "\\", "1", "\\0"}, 4)

-----------------------------------------------------------------------------
(* Files: what is read of a text and where the next character is.           *)
Outcome(text, broken, formats) ==
  LET read == g_read(stream(text, broken), formats) IN [p |-> read.f.p, results |-> read.results]
Format(k, n) == [k |-> k, n |-> n]

-----------------------------------------------------------------------------
(* Numerals: the longest characters that some numeral begins with.          *)

NumberTexts == Words({"0", "7", "x", ".", "e", "-", " "}, 4)
               \cup {<<" ", "0">> \o s : s \in [1 .. 3 -> {"x", "a", "P", ".", "1"}]}
NumberTails == {<<>>, <<"1">>, <<"1", "e">>}
Signed(s) == IF Begins(s, {"-"}) THEN Tail(s) ELSE s
SignedNumeral(s) ==
  LET number == Numeral(Signed(s))
  IN [t |-> number.t, v |-> IF Signed(s) = s THEN number.v ELSE Wrapped(-number.v), s |-> s]
BeginsNumeral(s) == \E more \in {<<>>, <<"0">>} : SignedNumeral(s \o more).t # "error"
NumberRead(text, broken) ==
  LET spaces == Len(Span(text, {" "}))
      n == Largest({k \in 0 .. Len(text) - spaces : BeginsNumeral(SubSeq(text, spaces + 1, spaces + k))})
      taken == IF n > MAXRN THEN MAXRN ELSE n
      number == SignedNumeral(SubSeq(text, spaces + 1, spaces + n))
  IN [p |-> spaces + taken + 1,
      results |-> IF broken /\ spaces + taken = Len(text) THEN luaL_fileresult
                  ELSE IF n > MAXRN \/ number.t = "error" THEN <<nil>> ELSE <<number>>]
NumbersOf(text) == [tail \in NumberTails, broken \in BOOLEAN |-> Outcome(text \o tail, broken, <<Format("n", 0)>>)]
MeantNumbers(text) == [tail \in NumberTails, broken \in BOOLEAN |-> NumberRead(text \o tail, broken)]

-----------------------------------------------------------------------------
(* Lists of formats.                                                        *)

Formats == UNION {[1 .. n -> {Format("l", 0), Format("L", 0), Format("a", 0), Format("chars", 0), Format("chars", 3)}] :
                    n \in 0 .. 3}
FormatTexts == UNION {[1 .. n -> {"a", "\n"}] : n \in 0 .. 5}
\* How much of a rest a format takes, of it how much it returns, and whether it
\* looks behind the rest.
Takes(s, format) ==
  LET ends == {i \in DOMAIN s : s[i] = "\n"}
      line == IF ends = {} THEN Len(s) ELSE Least(ends)
      n == CASE format.k \in {"l", "L"} -> line [] format.k = "a" -> Len(s)
             [] OTHER -> IF format.n < Len(s) THEN format.n ELSE Len(s)
  IN [n |-> n, s |-> SubSeq(s, 1, IF format.k = "l" /\ ends # {} THEN n - 1 ELSE n),
      end |-> CASE format.k \in {"l", "L"} -> ends = {} [] format.k = "a" -> TRUE
                [] OTHER -> IF format.n = 0 THEN s = <<>> ELSE Len(s) < format.n]
RECURSIVE FormatsRead(_, _, _)
FormatsRead(s, formats, results) ==
  LET take == Takes(s, formats[1])
      fails == s = <<>> /\ formats[1].k # "a"
      more == Append(results, IF fails THEN nil ELSE Str(take.s))
      rest == SubSeq(s, take.n + 1, Len(s))
      onward == FormatsRead(rest, Tail(formats), more)
  IN IF fails \/ Len(formats) = 1 THEN [left |-> Len(rest), end |-> take.end, results |-> more]
     ELSE [onward EXCEPT !.end = @ \/ take.end]
FormatsOf(formats) == [text \in FormatTexts, broken \in BOOLEAN |-> Outcome(text, broken, formats)]
MeantFormats(formats) ==
  [text \in FormatTexts, broken \in BOOLEAN |->
     LET read == FormatsRead(text, IF formats = <<>> THEN <<Format("l", 0)>> ELSE formats, <<>>)
     IN [p |-> Len(text) - read.left + 1, results |-> IF broken /\ read.end THEN luaL_fileresult ELSE read.results]]

-----------------------------------------------------------------------------
(* Iterators: a default input, an iterator of its lines, and one of a file  *)
(* that it has opened itself; calls of the three and of close.              *)

World(text, broken) ==
  LET empty == [files |-> <<>>, input |-> 0, iterators |-> <<>>, results |-> <<>>]
  IN f_lines(io_lines(io_input(empty, text, broken), text, broken, <<>>), 1, <<>>)
FileCalls == {"read", "next of opened", "next of input", "close opened", "close input"}
HandleOf(call) == IF call \in {"next of opened", "close opened"} THEN 2 ELSE 1
Called(w, call) ==
  CASE call = "read" -> io_read(w, <<>>) [] call = "next of opened" -> io_readline(w, 1)
    [] call = "next of input" -> io_readline(w, 2) [] OTHER -> io_close(w, HandleOf(call))
Files == [lines : {<<<<"a">>>>, <<<<>>, <<"a">>>>, <<<<"a">>, <<"b">>>>}, ended : BOOLEAN] \cup {[lines |-> <<>>, ended |-> TRUE]}
TextOf(file) ==
  LET n == Len(file.lines)
  IN FlattenSeq([i \in 1 .. n |-> file.lines[i] \o (IF i < n \/ file.ended THEN <<"\n">> ELSE <<>>)])
CallSequences == UNION {[1 .. n -> FileCalls] : n \in 1 .. 5}
CallsOf(calls) ==
  [file \in Files, broken \in BOOLEAN |->
     LET w == FoldLeft(Called, World(TextOf(file), broken), calls) IN SubSeq(w.results, 4, Len(w.results))]
\* A file's lines go to its readers in the order of their calls; the iterator
\* that has opened a file closes it at its end, and nobody else does.
Closes(call) == call \in {"close opened", "close input"}
Reads_(calls, h, i) == {j \in 1 .. i - 1 : ~Closes(calls[j]) /\ HandleOf(calls[j]) = h}
MeantCalls(calls) ==
  [file \in Files, broken \in BOOLEAN |->
     LET lines == IF broken /\ ~file.ended THEN SubSeq(file.lines, 1, Len(file.lines) - 1) ELSE file.lines
         Count(h, i) == Cardinality(Reads_(calls, h, i))
         Closed(h, i) ==
           \E j \in 1 .. i - 1 :
             HandleOf(calls[j]) = h /\ (Closes(calls[j]) \/ (h = 2 /\ ~broken /\ Count(h, j) >= Len(lines)))
         ClosedError(call) == CASE call = "read" -> "standard input file is closed"
                                [] Closes(call) -> "attempt to use a closed file" [] OTHER -> "file is already closed"
         Answer(error, values) == [error |-> error, values |-> values]
     IN [i \in DOMAIN calls |->
           LET h == HandleOf(calls[i]) IN
           IF Closed(h, i) THEN Answer(ClosedError(calls[i]), <<>>)
           ELSE IF Closes(calls[i]) THEN Answer("", <<>>)
           ELSE IF Count(h, i) < Len(lines) THEN Answer("", <<Str(lines[Count(h, i) + 1])>>)
           ELSE IF ~broken THEN Answer("", IF calls[i] = "read" THEN <<nil>> ELSE <<>>)
           ELSE IF calls[i] = "read" THEN Answer("", luaL_fileresult) ELSE Answer("error", <<>>)]]

-----------------------------------------------------------------------------
(* Loading: the file without a byte order mark and without a first line     *)
(* that is a comment, of which a source text keeps the line end.            *)

LoadTexts == UNION {[1 .. n -> Range(BOM) \cup {"#", "\n", "a", LUA_SIGNATURE}] : n \in 0 .. 4} \cup
             {BOM \o s : s \in [1 .. 3 -> {"#", "\n", "a", LUA_SIGNATURE}]}
Loaded(text) ==
  LET blocks == luaL_loadfilex(text) IN [text |-> FlattenSeq(blocks), empty |-> <<>> \in Range(blocks)]
\* (Behind the beginning of a mark a comment counts as the first line, too.)
MeantLoaded(text) ==
  LET mark == Largest({n \in 0 .. 3 : n <= Len(text) /\ SubSeq(text, 1, n) = SubSeq(BOM, 1, n)})
      rest == SubSeq(text, mark + 1, Len(text))
      ends == {i \in DOMAIN rest : rest[i] = "\n"}
      behind == IF ends = {} THEN <<>> ELSE SubSeq(rest, Least(ends) + 1, Len(rest))
      kept == IF mark = 3 THEN <<>> ELSE SubSeq(BOM, 1, mark)
      source == IF ~Begins(rest, {"#"}) THEN rest
                ELSE IF Begins(behind, {LUA_SIGNATURE}) THEN behind ELSE <<"\n">> \o behind
  IN [text |-> kept \o source, empty |-> FALSE]

Modes == UNION {[1 .. n -> {"r", "w", "a", "+", "b", "x"}] : n \in 0 .. 4}
MeantModes == {<<c>> \o plus \o binary : c \in {"r", "w", "a"}, plus \in {<<>>, <<"+">>}, binary \in {<<>>, <<"b">>}}

=============================================================================
