----------------------------- MODULE LuaStrings -----------------------------
(***************************************************************************)
(* The string functions of src/lua/src/lstrlib.c and their pattern         *)
(* matching.  A string is a sequence of characters, a C pointer into it an *)
(* index from 1; behind the last character every string has a NUL.  Match  *)
(* states are threaded through the recursion as the code mutates them, so  *)
(* that a capture is undone only where the code undoes it.                 *)
(***************************************************************************)
EXTENDS Integers, Sequences, SequencesExt, FiniteSets, TLC

CONSTANTS
  MAXCCALLS,        \* depth of match's recursion
  LUA_MAXCAPTURES,
  MAXSIZE           \* of the string that str_rep makes

\* The characters, in the order of their codes.
Characters == <<"NUL", " ", "%", "(", ")", "-", "0", "1", "2", "A", "B", "[", "]", "^", "a", "b", "c">>
uchar(c) == CHOOSE i \in DOMAIN Characters : Characters[i] = c

At(str, i) == IF i \in DOMAIN str THEN str[i] ELSE "NUL"

\* Values: texts, numbers, and what stands for an error.
Text(s) == [t |-> "string", v |-> s, n |-> 0]
Position(n) == [t |-> "number", v |-> <<>>, n |-> n]
Invalid == [t |-> "error", v |-> <<>>, n |-> 0]

-----------------------------------------------------------------------------
(* Positions, and the functions without patterns. *)

posrelat(pos, len) == IF pos >= 0 THEN pos ELSE IF -pos > len THEN 0 ELSE len + pos + 1

\* What str_sub and str_byte make of a first and a last position.
first(pos) == IF pos < 1 THEN 1 ELSE pos
last(pos, len) == IF pos > len THEN len ELSE pos

str_sub(s, i, j) == SubSeq(s, first(posrelat(i, Len(s))), last(posrelat(j, Len(s)), Len(s)))

\* string.byte(s, i, j); j may be missing (<<>>), and is then i after posrelat,
\* which is put through posrelat again.
str_byte(s, i, j) ==
  LET posi == posrelat(i, Len(s))
      pose == posrelat(IF j = <<>> THEN posi ELSE j[1], Len(s))
      part == SubSeq(s, first(posi), last(pose, Len(s)))
  IN [n \in DOMAIN part |-> uchar(part[n]) - 1]

str_reverse(s) == [i \in DOMAIN s |-> s[Len(s) - i + 1]]

str_rep(s, n, sep) ==
  IF n <= 0 THEN Text(<<>>)
  ELSE IF Len(s) + Len(sep) > MAXSIZE \div n THEN Invalid
  ELSE Text(FlattenSeq([i \in 1 .. n - 1 |-> s \o sep]) \o s)

-----------------------------------------------------------------------------
(* Match states: `s` is the result of the latest match, 0 for NULL. *)

CAP_UNFINISHED == -1
CAP_POSITION == -2

MatchState(src, pat) ==
  [src |-> src, pat |-> pat, level |-> 0, matchdepth |-> MAXCCALLS, s |-> 0, error |-> FALSE,
   capture |-> [l \in 0 .. LUA_MAXCAPTURES - 1 |-> [init |-> 0, len |-> 0]]]
Returns(ms, s) == [ms EXCEPT !.s = s]
luaL_error(ms) == [ms EXCEPT !.s = 0, !.error = TRUE]
Failed(ms) == ms.s = 0 /\ ~ms.error

-----------------------------------------------------------------------------
(* Single characters and classes. *)

Lower == {"a", "b", "c"}
Upper == {"A", "B"}
Digits == {"0", "1", "2"}
tolower(c) == CASE c = "A" -> "a" [] c = "B" -> "b" [] OTHER -> c
Classes == [a |-> Lower \cup Upper, c |-> {"NUL"}]
match_class(c, cl) ==
  IF tolower(cl) \notin DOMAIN Classes THEN cl = c ELSE (c \in Classes[tolower(cl)]) = (cl \in Lower)

\* The index behind the class that starts at p; 0 if it is malformed.
RECURSIVE bracketend(_, _)
bracketend(pat, p) ==
  IF p > Len(pat) THEN 0
  ELSE LET q == IF pat[p] = "%" /\ p < Len(pat) THEN p + 2 ELSE p + 1
       IN IF At(pat, q) = "]" THEN q + 1 ELSE bracketend(pat, q)
classend(pat, p) ==
  CASE At(pat, p) = "%" -> IF p = Len(pat) THEN 0 ELSE p + 2
    [] At(pat, p) = "[" -> bracketend(pat, IF At(pat, p + 1) = "^" THEN p + 2 ELSE p + 1)
    [] OTHER -> p + 1

\* Whether the part from p of the bracketed class that ends at ec has c.
RECURSIVE inbrackets(_, _, _, _)
inbrackets(c, pat, p, ec) ==
  IF p >= ec THEN FALSE
  ELSE LET range == pat[p] # "%" /\ pat[p + 1] = "-" /\ p + 2 < ec
           hit == CASE pat[p] = "%" -> match_class(c, At(pat, p + 1))
                    [] range -> uchar(c) \in uchar(pat[p]) .. uchar(pat[p + 2])
                    [] OTHER -> pat[p] = c
       IN hit \/ inbrackets(c, pat, p + (IF pat[p] = "%" THEN 2 ELSE IF range THEN 3 ELSE 1), ec)
matchbracketclass(c, pat, p, ec) ==
  IF At(pat, p + 1) = "^" THEN ~inbrackets(c, pat, p + 2, ec) ELSE inbrackets(c, pat, p + 1, ec)

singlematch(ms, s, p, ep) ==
  /\ s <= Len(ms.src)
  /\ LET c == ms.src[s] IN
     CASE ms.pat[p] = "." -> TRUE
       [] ms.pat[p] = "%" -> match_class(c, ms.pat[p + 1])
       [] ms.pat[p] = "[" -> matchbracketclass(c, ms.pat, p, ep - 1)
       [] OTHER -> ms.pat[p] = c

-----------------------------------------------------------------------------
(* match and its helpers. *)

RECURSIVE balance(_, _, _, _, _)
balance(src, s, b, e, cont) ==
  IF s > Len(src) THEN 0
  ELSE IF src[s] = e /\ cont = 1 THEN s + 1
  ELSE balance(src, s + 1, b, e, IF src[s] = e THEN cont - 1 ELSE IF src[s] = b THEN cont + 1 ELSE cont)
matchbalance(ms, s, p) ==
  IF p >= Len(ms.pat) THEN luaL_error(ms)
  ELSE IF At(ms.src, s) # ms.pat[p] THEN Returns(ms, 0)
  ELSE Returns(ms, balance(ms.src, s + 1, ms.pat[p], ms.pat[p + 1], 1))

capture_to_close(ms) ==
  LET open == {l \in 0 .. ms.level - 1 : ms.capture[l].len = CAP_UNFINISHED}
  IN IF open = {} THEN -1 ELSE CHOOSE l \in open : \A m \in open : m <= l

check_capture(ms, l) == l \in 0 .. ms.level - 1 /\ ms.capture[l].len # CAP_UNFINISHED

\* %0 to %9; the length of a position capture is huge as a size_t, so that it
\* never matches.
match_capture(ms, s, l) ==
  IF ~check_capture(ms, l) THEN luaL_error(ms)
  ELSE LET c == ms.capture[l] IN
       IF /\ c.len # CAP_POSITION /\ Len(ms.src) + 1 - s >= c.len
          /\ SubSeq(ms.src, s, s + c.len - 1) = SubSeq(ms.src, c.init, c.init + c.len - 1)
       THEN Returns(ms, s + c.len) ELSE Returns(ms, 0)

RECURSIVE match(_, _, _), domatch(_, _, _), max_expand(_, _, _, _), min_expand(_, _, _, _)

start_capture(ms, s, p, what) ==
  IF ms.level >= LUA_MAXCAPTURES THEN luaL_error(ms)
  ELSE LET r == match([ms EXCEPT !.capture[ms.level] = [init |-> s, len |-> what],
                                 !.level = @ + 1], s, p)
       IN IF Failed(r) THEN [r EXCEPT !.level = @ - 1] ELSE r

\* Mutant of end_capture: the capture stays closed when the rest fails.
end_capture_closed(ms, s, p) ==
  LET l == capture_to_close(ms) IN
  IF l < 0 THEN luaL_error(ms)
  ELSE match([ms EXCEPT !.capture[l].len = s - ms.capture[l].init], s, p)

end_capture(ms, s, p) ==
  LET l == capture_to_close(ms) IN
  IF l < 0 THEN luaL_error(ms)
  ELSE LET r == match([ms EXCEPT !.capture[l].len = s - ms.capture[l].init], s, p)
       IN IF Failed(r) THEN [r EXCEPT !.capture[l].len = CAP_UNFINISHED] ELSE r

RECURSIVE count(_, _, _, _)
count(ms, s, p, ep) == IF singlematch(ms, s, p, ep) THEN 1 + count(ms, s + 1, p, ep) ELSE 0

\* Tries i repetitions, then fewer.
max_expand(ms, s, i, ep) ==
  LET r == match(ms, s + i, ep + 1)
  IN IF Failed(r) /\ i > 0 THEN max_expand(r, s, i - 1, ep) ELSE r

min_expand(ms, s, p, ep) ==
  LET r == match(ms, s, ep + 1)
  IN IF Failed(r) /\ singlematch(r, s, p, ep) THEN min_expand(r, s + 1, p, ep) ELSE r

\* A class and its suffix (the label dflt).
dflt(ms, s, p) ==
  LET ep == classend(ms.pat, p)
      suffix == At(ms.pat, ep)
  IN IF ep = 0 THEN luaL_error(ms)
     ELSE IF ~singlematch(ms, s, p, ep)
     THEN IF suffix \in {"*", "?", "-"} THEN domatch(ms, s, ep + 1) ELSE Returns(ms, 0)
     ELSE CASE suffix = "?" ->
                 LET r == match(ms, s + 1, ep + 1) IN IF Failed(r) THEN domatch(r, s, ep + 1) ELSE r
            [] suffix = "+" -> max_expand(ms, s + 1, count(ms, s + 1, p, ep), ep)
            [] suffix = "*" -> max_expand(ms, s, count(ms, s, p, ep), ep)
            [] suffix = "-" -> min_expand(ms, s, p, ep)
            [] OTHER -> domatch(ms, s + 1, ep)

\* %f: between a character outside and one inside the class.
frontier(ms, s, p) ==
  LET ep == classend(ms.pat, p)
      In(i) == matchbracketclass(At(ms.src, i), ms.pat, p, ep - 1)
  IN IF At(ms.pat, p) # "[" \/ ep = 0 THEN luaL_error(ms)
     ELSE IF ~In(s - 1) /\ In(s) THEN domatch(ms, s, ep)
     ELSE Returns(ms, 0)

\* The body of match, to which its gotos return.
domatch(ms, s, p) ==
  LET c == At(ms.pat, p)
      escaped == At(ms.pat, p + 1)
      Then(r, q) == IF Failed(r) \/ r.error THEN r ELSE domatch(r, r.s, q)
  IN CASE p > Len(ms.pat) -> Returns(ms, s)
       [] c = "(" -> IF escaped = ")" THEN start_capture(ms, s, p + 2, CAP_POSITION)
                     ELSE start_capture(ms, s, p + 1, CAP_UNFINISHED)
       [] c = ")" -> end_capture(ms, s, p + 1)
       [] c = "$" /\ p = Len(ms.pat) -> Returns(ms, IF s = Len(ms.src) + 1 THEN s ELSE 0)
       [] c = "%" /\ escaped = "b" -> Then(matchbalance(ms, s, p + 2), p + 4)
       [] c = "%" /\ escaped = "f" -> frontier(ms, s, p + 2)
       [] c = "%" /\ escaped \in Digits -> Then(match_capture(ms, s, uchar(escaped) - uchar("1")), p + 2)
       [] OTHER -> dflt(ms, s, p)

match(ms, s, p) ==
  IF ms.matchdepth = 0 THEN luaL_error(ms)
  ELSE [domatch([ms EXCEPT !.matchdepth = @ - 1], s, p) EXCEPT !.matchdepth = @ + 1]

-----------------------------------------------------------------------------
(* find, match and gmatch. *)

\* What the match from s to e captured under number i.
push_onecapture(ms, i, s, e) ==
  IF i >= ms.level THEN IF i = 0 THEN Text(SubSeq(ms.src, s, e - 1)) ELSE Invalid
  ELSE LET c == ms.capture[i] IN
       CASE c.len = CAP_UNFINISHED -> Invalid
         [] c.len = CAP_POSITION -> Position(c.init)
         [] OTHER -> Text(SubSeq(ms.src, c.init, c.init + c.len - 1))

\* The captures, or the whole match (unless s is NULL).
push_captures(ms, s, e) ==
  LET values == [i \in 1 .. (IF ms.level = 0 /\ s # 0 THEN 1 ELSE ms.level) |->
                   push_onecapture(ms, i - 1, s, e)]
  IN IF Invalid \in Range(values) THEN <<Invalid>> ELSE values

nospecials(p) == \A i \in DOMAIN p : p[i] \notin {"^", "$", "*", "+", "?", ".", "(", "[", "%", "-"}

\* The first place from `from` at which s2 is in s1, 0 if there is none.
lmemfind(s1, from, s2) ==
  LET at == {i \in from .. Len(s1) - Len(s2) + 1 : SubSeq(s1, i, i + Len(s2) - 1) = s2}
  IN IF at = {} THEN 0 ELSE CHOOSE i \in at : \A j \in at : i <= j

\* The first match that starts at s1 or, unless anchored, behind it; s is its
\* start and e its end.
RECURSIVE search(_, _, _, _)
search(ms, s1, p, anchor) ==
  LET r == match([ms EXCEPT !.level = 0], s1, p)
  IN IF Failed(r) /\ s1 <= Len(ms.src) /\ ~anchor THEN search(r, s1 + 1, p, anchor)
     ELSE [ms |-> r, s |-> s1, e |-> r.s]

str_find_aux(s, p, i, find, plain) ==
  LET init == first(posrelat(i, Len(s)))
      at == lmemfind(s, init, p)
      anchor == At(p, 1) = "^"
      r == search(MatchState(s, p), init, IF anchor THEN 2 ELSE 1, anchor)
      captures == push_captures(r.ms, IF find THEN 0 ELSE r.s, r.e)
  IN IF init > Len(s) + 1 THEN <<>>
     ELSE IF find /\ (plain \/ nospecials(p))
     THEN IF at = 0 THEN <<>> ELSE <<Position(at), Position(at + Len(p) - 1)>>
     ELSE IF Failed(r.ms) THEN <<>>
     ELSE IF r.ms.error \/ captures = <<Invalid>> THEN <<Invalid>>
     ELSE (IF find THEN <<Position(r.s), Position(r.e - 1)>> ELSE <<>>) \o captures

\* All that the iterator of gmatch returns from src on.
RECURSIVE gmatch_aux(_, _, _)
gmatch_aux(s, p, src) ==
  IF src > Len(s) + 1 THEN <<>>
  ELSE LET r == search(MatchState(s, p), src, 1, FALSE)
           captures == push_captures(r.ms, r.s, r.e)
       IN IF Failed(r.ms) THEN <<>>
          ELSE IF r.ms.error \/ captures = <<Invalid>> THEN <<<<Invalid>>>>
          ELSE <<captures>> \o gmatch_aux(s, p, IF r.e = r.s THEN r.e + 1 ELSE r.e)
gmatch(s, p) == gmatch_aux(s, p, 1)

-----------------------------------------------------------------------------
(* gsub. *)

tostring(v) == IF v.t = "number" THEN <<ToString(v.n)>> ELSE v.v

\* The values that the replacement string news gives from i on, with its escapes.
RECURSIVE add_s(_, _, _, _, _)
add_s(ms, news, i, s, e) ==
  LET escape == news[i] = "%"
      c == At(news, i + 1)
      value == CASE ~escape -> Text(<<news[i]>>)
                 [] escape /\ c = "0" -> Text(SubSeq(ms.src, s, e - 1))
                 [] escape /\ c \in Digits \ {"0"} -> push_onecapture(ms, uchar(c) - uchar("1"), s, e)
                 [] escape /\ c = "%" -> Text(<<"%">>)
                 [] OTHER -> Invalid
  IN IF i > Len(news) THEN <<>> ELSE <<value>> \o add_s(ms, news, IF escape THEN i + 2 ELSE i + 1, s, e)

\* The values to add for a match: of a table the field for the first capture,
\* of a function the result for all of them; without one the text is kept.
add_value(ms, repl, s, e) ==
  LET key == IF repl.t = "table" THEN <<push_onecapture(ms, 0, s, e)>> ELSE push_captures(ms, s, e)
  IN IF repl.t = "string" THEN add_s(ms, repl.v, 1, s, e)
     ELSE IF key = <<Invalid>> THEN key
     ELSE IF key \in DOMAIN repl.f THEN <<repl.f[key]>> ELSE <<Text(SubSeq(ms.src, s, e - 1))>>

\* g: the match state, the place in the string, what has been added to the
\* buffer, and the number of substitutions.
RECURSIVE substitute(_, _, _, _, _)
substitute(g, p, repl, max_s, anchor) ==
  LET r == match([g.ms EXCEPT !.level = 0], g.src, p)
      added == IF r.s = 0 THEN <<>> ELSE add_value(r, repl, g.src, r.s)
      moves == r.s > g.src
      copies == ~moves /\ g.src <= Len(g.ms.src)
      rest == [ms |-> r, n |-> IF r.s = 0 THEN g.n ELSE g.n + 1,
               src |-> IF moves THEN r.s ELSE IF copies THEN g.src + 1 ELSE g.src,
               b |-> g.b \o FlattenSeq([i \in DOMAIN added |-> tostring(added[i])])
                     \o (IF copies THEN <<g.ms.src[g.src]>> ELSE <<>>)]
  IN IF g.n >= max_s THEN g
     ELSE IF r.error \/ Invalid \in Range(added) THEN [g EXCEPT !.n = -1]
     ELSE IF anchor \/ ~(moves \/ copies) THEN rest ELSE substitute(rest, p, repl, max_s, anchor)

\* The string and the number of substitutions.
str_gsub(s, p, repl, max_s) ==
  LET anchor == At(p, 1) = "^"
      g == substitute([ms |-> MatchState(s, p), src |-> 1, b |-> <<>>, n |-> 0],
                      IF anchor THEN 2 ELSE 1, repl, max_s, anchor)
  IN IF g.n < 0 THEN <<Invalid>> ELSE <<Text(g.b \o SubSeq(s, g.src, Len(s))), Position(g.n)>>

=============================================================================
