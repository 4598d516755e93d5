---------------------------- MODULE MCLuaPatterns ----------------------------
(***************************************************************************)
(* What a pattern means, against which LuaStrings is compared.  A pattern  *)
(* is a sequence of items; the ways in which it matches from a place are   *)
(* listed in the order of preference, and nothing is ever undone: every    *)
(* way has captures of its own.                                            *)
(***************************************************************************)
EXTENDS LuaStrings

-----------------------------------------------------------------------------
(* Items: single characters with a suffix, and others.                     *)

NoChars == {}
Single(class, set, suffix) == [k |-> "class", text |-> class \o suffix, set |-> set, suffix |-> suffix]
Other(k, text, set) == [k |-> k, text |-> text, set |-> set, suffix |-> <<>>]
AnyChar == Range(Characters)
Items ==
  {Single(<<"a">>, {"a"}, <<>>), Single(<<"a">>, {"a"}, <<"*">>), Single(<<".">>, AnyChar, <<"-">>),
   Single(<<"[", "a", "-", "b", "]">>, {"a", "b"}, <<"+">>), Single(<<"[", "^", "a", "]">>, AnyChar \ {"a"}, <<"?">>),
   Other("open", <<"(">>, NoChars), Other("close", <<")">>, NoChars), Other("place", <<"(", ")">>, NoChars),
   Other("back", <<"%", "1">>, NoChars), Other("balance", <<"%", "b", "a", "b">>, {"a", "b"}),
   Other("frontier", <<"%", "f", "[", "b", "]">>, {"b"}), Other("end", <<"$">>, NoChars)}

\* Classes that are harder to read.
Classy ==
  {Single(<<"[", "]", "a", "]">>, {"]", "a"}, <<"*">>), Single(<<"[", "a", "-", "]">>, {"a", "-"}, <<"*">>),
   Single(<<"[", "^", "%", "A", "b", "]">>, (Lower \cup Upper) \ {"b"}, <<"+">>), Single(<<"%", "A">>, AnyChar \ (Lower \cup Upper), <<"?">>),
   Single(<<"[", "%", "]", "-", "b", "]">>, {"]", "-", "b"}, <<"-">>), Single(<<"[", "^", "]", "-", "b", "]">>, AnyChar \ {"]", "^", "a", "b"}, <<>>),
   Single(<<"%", "-">>, {"-"}, <<"-">>), Other("frontier", <<"%", "f", "[", "^", "a", "]">>, AnyChar \ {"a"}), Other("place", <<"(", ")">>, NoChars)}

Spelled(items) == FlattenSeq([k \in DOMAIN items |-> items[k].text])

-----------------------------------------------------------------------------
(* Ways to match: the end, and the captures with their ends, or Open or     *)
(* Place instead of an end.                                                 *)

Open == 0
Place == -1
Wrong == [ok |-> FALSE, e |-> 0, captures |-> <<>>]
Way(e, captures) == [ok |-> TRUE, e |-> e, captures |-> captures]
Capture(from, to) == [from |-> from, to |-> to]
CharAt(s, i) == IF i \in DOMAIN s THEN s[i] ELSE "NUL"

\* The ends of a single character with its suffix, in the order of preference.
Down(from, to) == [n \in 1 .. from - to + 1 |-> from - n + 1]
SingleEnds(item, s, i) ==
  LET n == CHOOSE m \in 0 .. Len(s) + 1 - i : /\ \A k \in i .. i + m - 1 : s[k] \in item.set
                                              /\ i + m <= Len(s) => s[i + m] \notin item.set
      once == IF n = 0 THEN 0 ELSE 1
  IN CASE item.suffix = <<>> -> Down(i + once, i + 1)
       [] item.suffix = <<"?">> -> Down(i + once, i)
       [] item.suffix = <<"*">> -> Down(i + n, i)
       [] item.suffix = <<"+">> -> Down(i + n, i + 1)
       [] item.suffix = <<"-">> -> Reverse(Down(i + n, i))

\* %bab: up to the first b that makes as many of them as there are a.
Number(c, s, i, e) == Cardinality({k \in i .. e - 1 : s[k] = c})
BalanceEnds(s, i) ==
  LET ends == {e \in i + 2 .. Len(s) + 1 : Number("a", s, i, e) = Number("b", s, i, e)}
  IN IF CharAt(s, i) # "a" \/ ends = {} THEN <<>> ELSE <<CHOOSE e \in ends : \A f \in ends : e <= f>>

BackEnds(s, i, c) ==
  IF c.to # Place /\ IsPrefix(SubSeq(s, c.from, c.to - 1), SubSeq(s, i, Len(s))) THEN <<i + c.to - c.from>> ELSE <<>>

IsOpen(captures) == \E n \in DOMAIN captures : captures[n].to = Open
\* Where an item may end; those that capture end where they begin.
EndsOf(item, s, i, captures) ==
  CASE item.k = "class" -> SingleEnds(item, s, i)
    [] item.k = "balance" -> BalanceEnds(s, i)
    [] item.k = "back" -> BackEnds(s, i, captures[1])
    [] item.k = "frontier" -> IF CharAt(s, i - 1) \notin item.set /\ CharAt(s, i) \in item.set THEN <<i>> ELSE <<>>
    [] item.k = "end" -> IF i = Len(s) + 1 THEN <<i>> ELSE <<>>
    [] OTHER -> <<i>>
Captured(item, i, captures) ==
  CASE item.k = "open" -> Append(captures, Capture(i, Open))
    [] item.k = "place" -> Append(captures, Capture(i, Place))
    [] item.k = "close" -> LET n == CHOOSE n \in DOMAIN captures :
                                      captures[n].to = Open /\ \A m \in n + 1 .. Len(captures) : captures[m].to # Open
                           IN [captures EXCEPT ![n].to = i]
    [] OTHER -> captures
IsWrong(item, captures) ==
  \/ item.k \in {"open", "place"} /\ Len(captures) = LUA_MAXCAPTURES
  \/ item.k = "close" /\ ~IsOpen(captures)
  \/ item.k = "back" /\ (captures = <<>> \/ captures[1].to = Open)

\* All ways for the items from the k-th on; behind a wrong one nothing counts.
RECURSIVE Ways(_, _, _, _, _)
Ways(items, k, s, i, captures) ==
  IF k > Len(items) THEN <<Way(i, captures)>>
  ELSE IF IsWrong(items[k], captures) THEN <<Wrong>>
  ELSE LET ends == EndsOf(items[k], s, i, captures)
       IN FlattenSeq([n \in DOMAIN ends |-> Ways(items, k + 1, s, ends[n], Captured(items[k], i, captures))])

-----------------------------------------------------------------------------
(* The functions, in terms of ways.                                         *)

NoMatch == <<>>
\* The first match from i on: its start and its best way.
RECURSIVE FirstMatch(_, _, _, _)
FirstMatch(items, s, i, anchored) ==
  LET ways == Ways(items, 1, s, i, <<>>)
  IN IF i > Len(s) + 1 THEN NoMatch
     ELSE IF ways # <<>> THEN <<[s |-> i, way |-> ways[1]]>>
     ELSE IF anchored THEN NoMatch
     ELSE FirstMatch(items, s, i + 1, FALSE)

\* A capture that was never closed is wrong, but only where it is asked for.
CapturedValue(s, c) ==
  CASE c.to = Place -> Position(c.from)
    [] c.to = Open -> Invalid
    [] OTHER -> Text(SubSeq(s, c.from, c.to - 1))
CapturedValues(s, way) == [n \in DOMAIN way.captures |-> CapturedValue(s, way.captures[n])]
Whole(s, m) == Text(SubSeq(s, m.s, m.way.e - 1))
Values(s, m) == IF m.way.captures = <<>> THEN <<Whole(s, m)>> ELSE CapturedValues(s, m.way)
Valid(values) == IF Invalid \in Range(values) THEN <<Invalid>> ELSE values

\* find takes a pattern that has only letters and closing brackets for a text.
IsText(items) == \A k \in DOMAIN items : items[k].text \in {<<"a">>, <<")">>}
Verbatim(items) == [k \in DOMAIN items |-> Single(items[k].text, Range(items[k].text), <<>>)]
MeantFind(pattern, s, init, anchored) ==
  LET items == IF IsText(pattern) THEN Verbatim(pattern) ELSE pattern
      m == FirstMatch(items, s, init, anchored)
  IN IF m = NoMatch THEN <<>>
     ELSE IF ~m[1].way.ok THEN <<Invalid>>
     ELSE Valid(<<Position(m[1].s), Position(m[1].way.e - 1)>> \o CapturedValues(s, m[1].way))
MeantMatch(items, s, init, anchored) ==
  LET m == FirstMatch(items, s, init, anchored)
  IN IF m = NoMatch THEN <<>> ELSE IF ~m[1].way.ok THEN <<Invalid>> ELSE Valid(Values(s, m[1]))

\* The matches that follow each other: a new one starts where the last one
\* ended, or behind that if the last one is empty.
RECURSIVE Matches(_, _, _)
Matches(items, s, i) ==
  LET m == FirstMatch(items, s, i, FALSE)
  IN IF m = NoMatch THEN <<>>
     ELSE IF ~m[1].way.ok THEN m
     ELSE m \o Matches(items, s, IF m[1].way.e = m[1].s THEN m[1].way.e + 1 ELSE m[1].way.e)
MeantGmatch(items, s) ==
  LET all == Matches(items, s, 1)
      values == [n \in DOMAIN all |-> IF all[n].way.ok THEN Valid(Values(s, all[n])) ELSE <<Invalid>>]
      wrong == {n \in DOMAIN all : values[n] = <<Invalid>>}
  IN IF wrong = {} THEN values ELSE SubSeq(values, 1, CHOOSE n \in wrong : \A m \in wrong : n <= m)

\* gsub puts the values that Replaced gives in the place of each of the first
\* max matches.
Joined(values) == FlattenSeq([n \in DOMAIN values |-> IF values[n].t = "number" THEN <<ToString(values[n].n)>> ELSE values[n].v])
MeantGsub(items, s, Replaced(_), max) ==
  LET all == Matches(items, s, 1)
      done == SubSeq(all, 1, IF max < Len(all) THEN max ELSE Len(all))
      EndOf(n) == IF n = 0 THEN 1 ELSE done[n].way.e
      pieces == [n \in DOMAIN done |-> SubSeq(s, EndOf(n - 1), done[n].s - 1) \o Joined(Replaced(done[n]))]
  IN IF \E n \in DOMAIN done : ~done[n].way.ok \/ Invalid \in Range(Replaced(done[n])) THEN <<Invalid>>
     ELSE <<Text(FlattenSeq(pieces) \o SubSeq(s, EndOf(Len(done)), Len(s))), Position(Len(done))>>

-----------------------------------------------------------------------------
(* Cases.  The replacement string swaps the first capture, or the whole     *)
(* match, and the match; the table and the function replace an "a".         *)

Replacement == [t |-> "string", v |-> <<"%", "1", "c", "%", "0">>, f |-> <<>>]
ByTable == [t |-> "table", v |-> <<>>, f |-> (<<Text(<<"a">>)>> :> Text(<<"A">>))]
ByFunction == [t |-> "function", v |-> <<>>, f |-> (<<Text(<<"a">>)>> :> Text(<<"B">>))]

Found(items, s) ==
  LET p == Spelled(items) IN
  [find |-> str_find_aux(s, p, 1, TRUE, FALSE), later |-> str_find_aux(s, p, -1, FALSE, FALSE),
   anchored |-> str_find_aux(s, <<"^">> \o p, 1, FALSE, FALSE), gmatch |-> gmatch(s, p),
   string |-> str_gsub(s, p, Replacement, 2), table |-> str_gsub(s, p, ByTable, 9), function |-> str_gsub(s, p, ByFunction, 9)]
Meant(items, s) ==
  LET Swapped(m) == <<Values(s, m)[1], Text(<<"c">>), Whole(s, m)>>
      Changed(m, key, c) ==
        IF Invalid \in Range(key) THEN <<Invalid>> ELSE IF key = <<Text(<<"a">>)>> THEN <<Text(<<c>>)>> ELSE <<Whole(s, m)>>
      ByFirst(m) == Changed(m, <<Values(s, m)[1]>>, "A")
      ByAll(m) == Changed(m, Values(s, m), "B")
  IN
  [find |-> MeantFind(items, s, 1, FALSE), later |-> MeantMatch(items, s, IF s = <<>> THEN 1 ELSE Len(s), FALSE),
   anchored |-> MeantMatch(items, s, 1, TRUE), gmatch |-> MeantGmatch(items, s),
   string |-> MeantGsub(items, s, Swapped, 2), table |-> MeantGsub(items, s, ByFirst, 9),
   function |-> MeantGsub(items, s, ByAll, 9)]

\* A $ ends the pattern, and an empty capture would be spelled like a place.
Unambiguous(items) ==
  \A k \in 1 .. Len(items) - 1 : items[k].k # "end" /\ ~(items[k].k = "open" /\ items[k + 1].k = "close")
Patterns == {items \in UNION {[1 .. n -> Items] : n \in 0 .. 3} : Unambiguous(items)}
Repeated == {item \in Items : item.suffix # <<>>}
Lazy == {item \in Items : item.suffix \in {<<"-">>, <<"?">>}}
\* A capture of two items between others.
CapturePatterns ==
  LET Bracket(k) == CHOOSE item \in Items : item.k = k
  IN {items \in {<<before, Bracket("open"), one, two, Bracket("close"), behind>> :
                    before \in Lazy, one \in Repeated \cup {Bracket("place")}, two \in Repeated, behind \in Items} :
        Unambiguous(items)}
Subjects == {<<>>, <<"a">>, <<"b">>, <<"a", "a">>, <<"a", "b">>, <<"b", "a">>, <<"a", "a", "b">>, <<"a", "b", "b">>,
             <<"a", "b", "a">>}
ClassPatterns == UNION {[1 .. n -> Classy] : n \in 1 .. 2}
ClassSubjects == {<<"]", "-", "a">>, <<"a", "^", "b", "]">>, <<"-", "-", "b">>, <<"A", "1", "a">>}

=============================================================================
