------------------------------ MODULE LuaLexer -------------------------------
(***************************************************************************)
(* The lexer, src/lua/src/llex.c, with the conversion of numerals in       *)
(* src/lua/src/lobject.c and the quoting of strings in                     *)
(* src/lua/src/lstrlib.c.  A character is a string of length 1, or a       *)
(* backslash and its code; a text is a sequence of characters.             *)
(***************************************************************************)
EXTENDS Integers, Sequences, SequencesExt, TLC

CONSTANTS
  INTBITS,   \* of a lua_Integer
  MAXLINES   \* MAX_INT, at which the line number overflows

-----------------------------------------------------------------------------
(* Characters.                                                             *)

Chars(s) == [i \in 1 .. Len(s) |-> SubSeq(s, i, i)]
Joined(text) == FoldLeft(LAMBDA x, c : x \o c, "", text)
From32 == Chars(" !\"#$%&'()*+,-./0123456789:;<=>?@ABCDEFGHIJKLMNOPQRSTUVWXYZ[\\]^_")
From97 == Chars("abcdefghijklmnopqrstuvwxyz{|}~")
Control == [n \in {9, 10, 12, 13} |-> CASE n = 9 -> "\t" [] n = 10 -> "\n" [] n = 12 -> "\f" [] n = 13 -> "\r"]
chr(n) ==
  CASE n \in 32 .. 95 -> From32[n - 31]
    [] n \in 97 .. 126 -> From97[n - 96]
    [] n \in DOMAIN Control -> Control[n]
    [] OTHER -> "\\" \o ToString(n)
ord == [c \in {chr(n) : n \in 0 .. 255} |-> CHOOSE n \in 0 .. 255 : chr(n) = c]

Newlines == {"\n", "\r"}
lisspace == {" ", chr(11)} \cup Range(Control)
lisdigit == Range(Chars("0123456789"))
lisxdigit == lisdigit \cup Range(Chars("abcdefABCDEF"))
lislalpha == Range(Chars("_abcdefghijklmnopqrstuvwxyzABCDEFGHIJKLMNOPQRSTUVWXYZ"))
lislalnum == lislalpha \cup lisdigit
iscntrl == {chr(n) : n \in (0 .. 31) \cup {127}}

luaO_hexavalue(c) == IF c \in lisdigit THEN ord[c] - 48 ELSE ((ord[c] - 65) % 32) + 10

-----------------------------------------------------------------------------
(* Numerals: luaO_str2num. *)

Wrapped(n) == LET m == n % 2 ^ INTBITS IN IF m >= 2 ^ (INTBITS - 1) THEN m - 2 ^ INTBITS ELSE m

Skipped(s, set) == IF s # <<>> /\ \A i \in DOMAIN s : s[i] \in set THEN <<>>
                   ELSE SubSeq(s, CHOOSE i \in 1 .. Len(s) + 1 : /\ i <= Len(s) => s[i] \notin set
                                                                 /\ \A j \in 1 .. i - 1 : s[j] \in set, Len(s))
Span(s, set) == SubSeq(s, 1, Len(s) - Len(Skipped(s, set)))
Begins(s, set) == s # <<>> /\ s[1] \in set
isneg(s) == IF Begins(s, {"-", "+"}) THEN Tail(s) ELSE s
ishex(s) == Len(s) > 1 /\ s[1] = "0" /\ s[2] \in {"x", "X"}

\* All of s is an integer numeral, which wraps around; <<>> if it is not.
l_str2int(s) ==
  LET spaced == Skipped(s, lisspace)
      t == isneg(spaced)
      base == IF ishex(t) THEN 16 ELSE 10
      digits == IF ishex(t) THEN Span(SubSeq(t, 3, Len(t)), lisxdigit) ELSE Span(t, lisdigit)
      end == Skipped(SubSeq(t, Len(digits) + (IF ishex(t) THEN 3 ELSE 1), Len(t)), lisspace)
      a == FoldLeft(LAMBDA x, c : (x * base + luaO_hexavalue(c)) % 2 ^ INTBITS, 0, digits)
  IN IF digits = <<>> \/ end # <<>> THEN <<>> ELSE <<Wrapped(IF Begins(spaced, {"-"}) THEN -a ELSE a)>>

\* What strtod leaves of s: digits with a point, and an exponent if it has digits.
strtod(s) ==
  LET t == isneg(Skipped(s, lisspace))
      digit == IF ishex(t) THEN lisxdigit ELSE lisdigit
      body == IF ishex(t) THEN SubSeq(t, 3, Len(t)) ELSE t
      whole == Skipped(body, digit)
      after == IF Begins(whole, {"."}) THEN Skipped(Tail(whole), digit) ELSE whole
      read == SubSeq(body, 1, Len(body) - Len(after))
      exponent == isneg(IF after = <<>> THEN after ELSE Tail(after))
  IN IF \A i \in DOMAIN read : read[i] = "." THEN s
     ELSE IF Begins(after, IF ishex(t) THEN {"p", "P"} ELSE {"e", "E"}) /\ Begins(exponent, lisdigit)
     THEN Skipped(exponent, lisdigit) ELSE after

\* Whether s is a numeral of a float; its value is left out.
l_str2d(s) ==
  /\ Range(s) \cap {"n", "N"} = {}
  /\ strtod(s) # s
  /\ Skipped(strtod(s), lisspace) = <<>>

luaO_str2num(s) ==
  CASE l_str2int(s) # <<>> -> [t |-> "INT", v |-> l_str2int(s)[1], s |-> s]
    [] l_str2int(s) = <<>> /\ l_str2d(s) -> [t |-> "FLT", v |-> 0, s |-> s]
    [] OTHER -> [t |-> "malformed number", v |-> 0, s |-> s]

lua_integer2str(n) == Chars(ToString(n))

-----------------------------------------------------------------------------
(* UTF-8: luaO_utf8esc. *)

\* The bytes of code point x; mfb is the most that fits in the first byte.
utf8esc[x \in Nat, mfb \in Nat] ==
  IF x <= mfb THEN <<256 - 2 * (mfb + 1) + x>>
  ELSE utf8esc[x \div 64, mfb \div 2] \o <<128 + (x % 64)>>
luaO_utf8esc(x) == IF x < 128 THEN <<x>> ELSE utf8esc[x \div 64, 31] \o <<128 + (x % 64)>>

-----------------------------------------------------------------------------
(* The scanner's state: its place in the text, the line, the buffer, and    *)
(* the latest token with its value and with the message of an error.        *)

luaX_setinput(text) ==
  [text |-> text, p |-> 1, linenumber |-> 1, buff |-> <<>>, t |-> "", v |-> 0, s |-> <<>>, error |-> ""]
current(ls) == IF ls.p \in DOMAIN ls.text THEN ls.text[ls.p] ELSE "EOZ"
next(ls) == [ls EXCEPT !.p = @ + 1]
save(ls, text) == [ls EXCEPT !.buff = @ \o text]
save_and_next(ls) == save(next(ls), <<current(ls)>>)
luaZ_buffremove(ls, n) == [ls EXCEPT !.buff = SubSeq(@, 1, Len(@) - n)]
luaZ_resetbuffer(ls) == [ls EXCEPT !.buff = <<>>]
lexerror(ls, msg) == [ls EXCEPT !.error = msg, !.t = "error"]
Token(ls, t) == [ls EXCEPT !.t = t]

inclinenumber(ls) ==
  LET skipped == next(ls)
      two == current(skipped) \in Newlines /\ current(skipped) # current(ls)
      counted == [ls EXCEPT !.p = IF two THEN @ + 2 ELSE @ + 1, !.linenumber = @ + 1]
  IN IF counted.linenumber >= MAXLINES THEN lexerror(counted, "chunk has too many lines") ELSE counted

RECURSIVE SaveWhile(_, _)
SaveWhile(ls, set) == IF current(ls) \in set THEN SaveWhile(save_and_next(ls), set) ELSE ls
check_next2(ls, set) == IF current(ls) \in set THEN save_and_next(ls) ELSE ls

-----------------------------------------------------------------------------
(* Numerals and long brackets. *)

\* Takes whatever may belong to a numeral, and lets luaO_str2num judge it.
RECURSIVE numeral(_, _)
numeral(ls, expo) ==
  LET signed == IF current(ls) \in expo THEN check_next2(save_and_next(ls), {"-", "+"}) ELSE ls
  IN IF current(signed) \in lisxdigit \cup {"."} THEN numeral(save_and_next(signed), expo) ELSE signed
read_numeral(ls) ==
  LET first == save_and_next(ls)
      hexadecimal == current(ls) = "0" /\ current(first) \in {"x", "X"}
      read == IF hexadecimal THEN numeral(save_and_next(first), {"P", "p"}) ELSE numeral(first, {"E", "e"})
      obj == luaO_str2num(read.buff)
  IN IF obj.t = "malformed number" THEN lexerror(read, obj.t) ELSE [read EXCEPT !.t = obj.t, !.v = obj.v]

\* A sequence [=*[ or ]=*] up to its last bracket: the number of its =, which
\* is negative if that bracket is missing.
skip_sep(ls) ==
  LET skipped == SaveWhile(save_and_next(ls), {"="})
      count == skipped.p - ls.p - 1
  IN [ls |-> skipped, sep |-> IF current(skipped) = current(ls) THEN count ELSE (-count) - 1]

RECURSIVE longstring(_, _)
longstring(ls, sep) ==
  LET c == current(ls)
      closing == skip_sep(ls)
      rest == CASE c = "]" -> closing.ls
                [] c \in Newlines -> inclinenumber(save(ls, <<"\n">>))
                [] OTHER -> save_and_next(ls)
  IN CASE c = "EOZ" -> lexerror(ls, "unfinished long string")
       [] c = "]" /\ closing.sep = sep -> save_and_next(closing.ls)
       [] rest.error # "" -> rest
       [] OTHER -> longstring(rest, sep)
read_long_string(ls, sep) ==
  LET second == save_and_next(ls)
      read == longstring(IF current(second) \in Newlines THEN inclinenumber(second) ELSE second, sep)
  IN [read EXCEPT !.s = SubSeq(read.buff, 3 + sep, Len(read.buff) - 2 - sep)]

-----------------------------------------------------------------------------
(* Strings between quotes.  The buffer holds only the string: what the code *)
(* keeps for error messages and removes again is left out.                  *)

Ahead(ls, n) == IF ls.p + n \in DOMAIN ls.text THEN ls.text[ls.p + n] ELSE "EOZ"
\* The first n digits of set at n characters from here.
RECURSIVE Digits(_, _, _, _)
Digits(ls, from, set, most) ==
  IF most > 0 /\ Ahead(ls, from) \in set THEN <<Ahead(ls, from)>> \o Digits(ls, from + 1, set, most - 1) ELSE <<>>
Value(digits, base) == FoldLeft(LAMBDA x, c : x * base + luaO_hexavalue(c), 0, digits)
esccheck(ls, holds, msg, escaped) == IF holds THEN escaped ELSE lexerror(ls, msg)

\* Goes n characters on and saves the given bytes.
Saved(ls, n, bytes) == [ls EXCEPT !.p = @ + n, !.buff = @ \o [i \in DOMAIN bytes |-> chr(bytes[i])]]

readhexaesc(ls) ==
  LET digits == Digits(ls, 2, lisxdigit, 2)
  IN esccheck(ls, Len(digits) = 2, "hexadecimal digit expected", Saved(ls, 4, <<Value(digits, 16)>>))
readutf8esc(ls) ==
  LET digits == Digits(ls, 3, lisxdigit, Len(ls.text))
      end == Len(digits) + 3
      r == FoldLeft(LAMBDA x, c : IF x > 1114111 THEN x ELSE x * 16 + luaO_hexavalue(c), 0, digits)
  IN esccheck(ls, Ahead(ls, 2) = "{", "missing '{'",
     esccheck(ls, digits # <<>>, "hexadecimal digit expected",
     esccheck(ls, r <= 1114111, "UTF-8 value too large",
     esccheck(ls, Ahead(ls, end) = "}", "missing '}'", Saved(ls, end + 1, luaO_utf8esc(r))))))

readdecesc(ls) ==
  LET digits == Digits(ls, 1, lisdigit, 3)
      r == Value(digits, 10)
  IN esccheck(ls, r <= 255, "decimal escape too large", Saved(ls, Len(digits) + 1, <<r>>))

\* \z: skips spaces and line breaks.
RECURSIVE Zapped(_)
Zapped(ls) ==
  CASE current(ls) \in Newlines /\ ls.error = "" -> Zapped(inclinenumber(ls))
    [] current(ls) \in lisspace \ Newlines -> Zapped(next(ls))
    [] OTHER -> ls

Simple == [c \in {"a", "b", "f", "n", "r", "t", "v", "\\", "\"", "'"} |->
             CASE c = "a" -> 7 [] c = "b" -> 8 [] c = "f" -> 12 [] c = "n" -> 10 [] c = "r" -> 13 [] c = "t" -> 9
               [] c = "v" -> 11 [] OTHER -> ord[c]]
escape(ls) ==
  LET c == Ahead(ls, 1) IN
  CASE c \in DOMAIN Simple -> Saved(ls, 2, <<Simple[c]>>)
    [] c = "x" -> readhexaesc(ls)
    [] c = "u" -> readutf8esc(ls)
    [] c \in Newlines -> inclinenumber(save(next(ls), <<"\n">>))
    [] c = "EOZ" -> next(ls)
    [] c = "z" -> Zapped(next(next(ls)))
    [] OTHER -> esccheck(ls, c \in lisdigit, "invalid escape sequence", readdecesc(ls))

RECURSIVE read_string(_, _)
read_string(ls, del) ==
  LET c == current(ls) IN
  CASE ls.error # "" -> ls
    [] c \in {"EOZ"} \cup Newlines -> lexerror(ls, "unfinished string")
    [] c = "\\" -> read_string(escape(ls), del)
    [] c = del -> [next(ls) EXCEPT !.s = ls.buff]
    [] OTHER -> read_string(save_and_next(ls), del)

-----------------------------------------------------------------------------
(* Tokens. *)

luaX_tokens == {"and", "break", "do", "else", "elseif", "end", "false", "for", "function", "goto", "if", "in",
                "local", "nil", "not", "or", "repeat", "return", "then", "true", "until", "while"}
\* Symbols of more than one character; the first that fits is taken.
Symbols == <<"...", "..", "//", "==", ">=", "<=", "~=", "<<", ">>", "::">>
symbol(ls) ==
  LET fits == {n \in DOMAIN Symbols : \A i \in 1 .. Len(Symbols[n]) : Ahead(ls, i - 1) = SubSeq(Symbols[n], i, i)}
      first == CHOOSE n \in fits : \A k \in fits : n <= k
  IN IF fits = {} THEN Token(next(ls), current(ls))
     ELSE Token([ls EXCEPT !.p = @ + Len(Symbols[first])], Symbols[first])

word(ls) ==
  LET read == SaveWhile(ls, lislalnum)
      name == Joined(read.buff)
  IN IF name \in luaX_tokens THEN Token(read, name) ELSE [read EXCEPT !.t = "NAME", !.s = read.buff]

RECURSIVE SkipLine(_)
SkipLine(ls) == IF current(ls) \in Newlines \cup {"EOZ"} THEN ls ELSE SkipLine(next(ls))
\* Behind the two hyphens; the next token is read behind the comment.
comment(ls) ==
  LET bracket == skip_sep(ls)
      long == current(ls) = "[" /\ bracket.sep >= 0
  IN luaZ_resetbuffer(IF long THEN [read_long_string(bracket.ls, bracket.sep) EXCEPT !.s = <<>>]
                      ELSE SkipLine(IF current(ls) = "[" THEN bracket.ls ELSE ls))

RECURSIVE scan(_)
scan(ls) ==
  LET c == current(ls)
      bracket == skip_sep(ls)
  IN CASE ls.error # "" -> ls
       [] c \in Newlines -> scan(inclinenumber(ls))
       [] c \in lisspace \ Newlines -> scan(next(ls))
       [] c = "-" /\ Ahead(ls, 1) = "-" -> scan(comment(next(next(ls))))
       [] c = "[" -> CASE bracket.sep >= 0 -> Token(read_long_string(bracket.ls, bracket.sep), "STRING")
                       [] bracket.sep = -1 -> Token(bracket.ls, "[")
                       [] OTHER -> lexerror(bracket.ls, "invalid long string delimiter")
       [] c \in {"\"", "'"} -> Token(read_string(next(ls), c), "STRING")
       [] c \in lisdigit -> read_numeral(ls)
       [] c = "." /\ Ahead(ls, 1) \in lisdigit -> read_numeral(save_and_next(ls))
       [] c = "EOZ" -> Token(ls, "EOS")
       [] c \in lislalpha -> word(ls)
       [] OTHER -> symbol(ls)
llex(ls) == scan([ls EXCEPT !.buff = <<>>, !.t = "", !.v = 0, !.s = <<>>])

\* All tokens of a text with the lines on which they end, until the end or an error.
RECURSIVE TokensFrom(_)
TokensFrom(ls) ==
  LET read == llex(ls)
      token == [t |-> IF read.error # "" THEN "error" ELSE read.t, v |-> read.v,
                s |-> IF read.t \in {"NAME", "STRING"} THEN read.s ELSE <<>>, line |-> read.linenumber]
  IN IF read.t = "EOS" \/ read.error # "" THEN <<token>> ELSE <<token>> \o TokensFrom(read)
TokensOf(text) == TokensFrom(luaX_setinput(text))

-----------------------------------------------------------------------------
(* string.format with %q *)

addescaped(s, i) ==
  LET code == Chars(ToString(ord[s[i]]))
      padding == SubSeq(<<"0", "0">>, 1, 3 - Len(code))
  IN CASE s[i] \in {"\"", "\\", "\n"} -> <<"\\", s[i]>>
       [] s[i] \in iscntrl -> <<"\\">> \o (IF i < Len(s) /\ s[i + 1] \in lisdigit THEN padding ELSE <<>>) \o code
       [] OTHER -> <<s[i]>>
addquoted(s) == <<"\"">> \o FlattenSeq([i \in DOMAIN s |-> addescaped(s, i)]) \o <<"\"">>

=============================================================================
