---------------------------- MODULE MCLuaLibrary ----------------------------
(***************************************************************************)
(* The programs of MCLua, sort, and calls of library functions.  An        *)
(* initial state is a program, an array to sort, or a call: a group of     *)
(* calls that belong together, with what the code answers and what it      *)
(* should answer.                                                          *)
(***************************************************************************)
EXTENDS MCLua, LuaTableLib

CONSTANTS
  Cases(_),           \* a group's cases
  Call(_, _),         \* a case of a group with its answer and what is meant
  PATIENCE,           \* steps before the first call
  LUA_NBITS, UBITS, INTBITS, MAXLINES, MAXCCALLS, LUA_MAXCAPTURES, MAXSIZE,
  BYTES, SZDUMP, SZSIZE, SZWORD, NB, SZINT, MAXINTSIZE, NATIVE, LUAL_BUFFERSIZE, MAXRN, BUFSIZ

VARIABLE call

Bit == INSTANCE LuaBits
Utf8 == INSTANCE LuaUtf8
Reading == INSTANCE MCLuaReading
Binary == INSTANCE MCLuaBinary
Matching == INSTANCE MCLuaPatterns
libraryvars == <<array, order, todo, at, compared, call>>

UpTo(set, n) == UNION {[1 .. k -> set] : k \in 0 .. n}
Answers(answer, meant) == [answer |-> answer, meant |-> meant]

-----------------------------------------------------------------------------
(* table: on sequences.                                                    *)

Sequences_ == {[i \in 1 .. n |-> i] : n \in 0 .. 4}
Places == -1 .. 6
Fields(value(_)) == [k \in {j \in 1 .. 12 : value(j) # 0} |-> value(k)]
Field(s, k) == IF k \in DOMAIN s THEN s[k] ELSE 0
Removed(s, pos) ==
  CASE pos \in DOMAIN s -> Gives(RemoveAt(s, pos), <<s[pos]>>)
    [] pos \in {Len(s), Len(s) + 1} -> Gives(s, <<0>>)
    [] OTHER -> Failed
Moved(s, f, e, to, target) ==
  Fields(LAMBDA k : IF k \in to .. to + e - f THEN Field(s, k - to + f) ELSE Field(target, k))
Alternating(s, x) ==
  IF s = <<>> THEN <<>> ELSE [n \in 1 .. 2 * Len(s) - 1 |-> IF n % 2 = 1 THEN s[(n \div 2) + 1] ELSE x]
TableCall(s) ==
  Answers(
    [insert |-> [p \in Places |-> tinsert(s, <<p>>, 9)], append |-> tinsert(s, <<>>, 9),
     remove |-> [p \in Places |-> tremove(s, <<p>>)], pop |-> tremove(s, <<>>),
     move |-> [f \in 1 .. 3, e \in 0 .. 5, to \in 1 .. 5 |-> tmove(s, f, e, to, <<>>).t],
     copy |-> [f \in 1 .. 3, e \in 0 .. 5, to \in 1 .. 5 |-> tmove(s, f, e, to, <<<<7, 7>>>>).t],
     concat |-> [i \in 1 .. 3, j \in 0 .. 4 |-> tconcat(s, <<0>>, i, <<j>>).results]],
    [insert |-> [p \in Places |-> IF p \in 1 .. Len(s) + 1 THEN Gives(InsertAt(s, p, 9), <<>>) ELSE Failed],
     append |-> Gives(Append(s, 9), <<>>),
     remove |-> [p \in Places |-> Removed(s, p)], pop |-> Removed(s, Len(s)),
     move |-> [f \in 1 .. 3, e \in 0 .. 5, to \in 1 .. 5 |-> Moved(s, f, e, to, s)],
     copy |-> [f \in 1 .. 3, e \in 0 .. 5, to \in 1 .. 5 |-> Moved(s, f, e, to, <<7, 7>>)],
     concat |-> [i \in 1 .. 3, j \in 0 .. 4 |-> IF j <= Len(s) THEN Alternating(SubSeq(s, i, j), 0) ELSE <<>>]])

\* unpack gives back what pack has been given, nils too.
UnpackCall(values) ==
  LET packed == pack(values)
  IN Answers(unpack(packed.t, 1, <<packed.n>>).results, values)

-----------------------------------------------------------------------------
(* bit32 and shifts: on numbers.                                            *)

Num(x) == FoldSet(LAMBDA b, n : n + 2 ^ b, 0, x)
M == 2 ^ LUA_NBITS
Shifts == -(UBITS + 1) .. UBITS + 1
ShiftedBy(n, i, m) == IF i >= 0 THEN (n * 2 ^ i) % m ELSE (n % m) \div 2 ^ (-i)
Signed(n) == IF n % M >= M \div 2 THEN (n % M) - M ELSE n % M
FieldArgs == {a \in (0 .. LUA_NBITS) \X (1 .. LUA_NBITS) : Bit!fieldargs(a[1], a[2])}
Part(n, f, w) == (n \div 2 ^ f) % 2 ^ w
\* Values to replace a field with; replace does not cut them for the whole width.
Replacements(w) == SUBSET (IF w = LUA_NBITS THEN Bit!ALLONES ELSE Bit!Bits)
BitCall(x) ==
  LET n == Num(x) IN
  Answers(
    [shift |-> [i \in Shifts |-> Num(Bit!luaV_shiftl(x, i))],
     lshift |-> [i \in Shifts |-> Num(Bit!b_lshift(x, i))], rshift |-> [i \in Shifts |-> Num(Bit!b_rshift(x, i))],
     arshift |-> [i \in Shifts |-> Num(Bit!b_arshift(x, i))],
     lrotate |-> [i \in Shifts |-> Num(Bit!b_lrot(x, i))], rrotate |-> [i \in Shifts |-> Num(Bit!b_rrot(x, i))],
     extract |-> [a \in FieldArgs |-> Num(Bit!b_extract(x, a[1], a[2]))],
     replace |-> [a \in FieldArgs |-> [v \in Replacements(a[2]) |-> Num(Bit!b_replace(x, v, a[1], a[2]))]],
     bnot |-> Num(Bit!b_not(x)), both |-> [y \in SUBSET Bit!ALLONES |-> Num(Bit!b_or(<<x, y>>)) + Num(Bit!b_and(<<x, y>>))],
     either |-> [y \in SUBSET Bit!ALLONES |-> Num(Bit!b_xor(<<x, y>>)) + 2 * Num(Bit!b_and(<<x, y>>))]],
    [shift |-> [i \in Shifts |-> ShiftedBy(n, i, 2 ^ UBITS)],
     lshift |-> [i \in Shifts |-> ShiftedBy(n, i, M)], rshift |-> [i \in Shifts |-> ShiftedBy(n, -i, M)],
     arshift |-> [i \in Shifts |-> IF i < 0 THEN ShiftedBy(n, -i, M) ELSE (Signed(n) \div 2 ^ i) % M],
     lrotate |-> [i \in Shifts |-> LET t == (n % M) * 2 ^ (i % LUA_NBITS) IN (t % M) + (t \div M)],
     rrotate |-> [i \in Shifts |-> LET t == (n % M) * 2 ^ ((-i) % LUA_NBITS) IN (t % M) + (t \div M)],
     extract |-> [a \in FieldArgs |-> Part(n, a[1], a[2])],
     replace |-> [a \in FieldArgs |-> [v \in Replacements(a[2]) |->
                    (n % M) + (Part(Num(v), 0, a[2]) - Part(n, a[1], a[2])) * 2 ^ a[1]]],
     bnot |-> M - 1 - (n % M), both |-> [y \in SUBSET Bit!ALLONES |-> (n % M) + Num(y)],
     either |-> [y \in SUBSET Bit!ALLONES |-> (n % M) + Num(y)]])

-----------------------------------------------------------------------------
(* utf8: code points written by luaO_utf8esc.                               *)

CodePoints == {65, 127, 128, 2047, 2048, 65535, 65536, Utf8!MAXUNICODE}
Encoded(points) == FlattenSeq([i \in DOMAIN points |-> Reading!luaO_utf8esc(points[i])])
StartOf(points, i) == Len(Encoded(SubSeq(points, 1, i - 1))) + 1
\* Reading gives back the code points, and where each of them starts.
CodesCall(points) ==
  LET s == Encoded(points)
      n == Len(points)
      starts == [i \in 1 .. n + 1 |-> StartOf(points, i)]
      Offset(k, m) == LET j == IF m > 0 THEN k + m - 1 ELSE k + m
                      IN Utf8!Gives(IF j \in 1 .. n + 1 THEN <<starts[j]>> ELSE <<>>)
  IN Answers(
    [len |-> Utf8!utflen(s, 1, -1), points |-> Utf8!codepoint(s, 1, -1), codes |-> Utf8!iter_codes(s),
     offset |-> [k \in 1 .. n + 1, m \in {-2, -1, 1, 2} |-> Utf8!byteoffset(s, m, starts[k])],
     around |-> [i \in 1 .. Len(s) + 1 |-> Utf8!byteoffset(s, 0, i)]],
    [len |-> Utf8!Gives(<<n>>), points |-> Utf8!Gives(points), codes |-> Utf8!Gives([i \in 1 .. n |-> <<starts[i], points[i]>>]),
     offset |-> [k \in 1 .. n + 1, m \in {-2, -1, 1, 2} |-> Offset(k, m)],
     around |-> [i \in 1 .. Len(s) + 1 |-> Utf8!Gives(<<starts[CHOOSE k \in 1 .. n + 1 :
                    starts[k] <= i /\ (k <= n => starts[k + 1] > i)]>>)]])

\* Of all bytes only those that luaO_utf8esc writes for some code point are
\* accepted.
Bytes == {65, 128, 143, 144, 160, 191, 192, 194, 224, 240, 244, 248}
\* The code point that n bytes at the start of s could be, if they are one.
Candidate(s, n) ==
  FoldLeft(LAMBDA x, b : x * 64 + (b % 64), IF n = 1 THEN s[1] ELSE s[1] % 2 ^ (7 - n), SubSeq(s, 2, n))
Begins(s) == {n \in 1 .. Len(s) : /\ Candidate(s, n) <= Utf8!MAXUNICODE
                                  /\ Reading!luaO_utf8esc(Candidate(s, n)) = SubSeq(s, 1, n)}
Decoding(s) == LET d == Utf8!utf8_decode(s, 1) IN IF d.next = 0 THEN <<>> ELSE <<d.next - 1, d.val>>
BytesCall(two) ==
  Answers([rest \in UpTo(Bytes, 2) |-> Decoding(two \o rest)],
          [rest \in UpTo(Bytes, 2) |->
             LET s == two \o rest IN IF Begins(s) = {} THEN <<>> ELSE LET n == CHOOSE n \in Begins(s) : TRUE IN <<n, Candidate(s, n)>>])

-----------------------------------------------------------------------------
(* Strings: positions count from 1, negative ones from the end.             *)

Letters == UpTo({"a", "b"}, 2) \cup {<<"a", "b", "a", "b">>}
Positions == -6 .. 6
PartCall(s) ==
  LET Place(i) == IF i >= 0 THEN i ELSE Len(s) + 1 + i
      Sub(i, j) == FlattenSeq([k \in DOMAIN s |-> IF Place(i) <= k /\ k <= Place(j) THEN <<s[k]>> ELSE <<>>])
      Bytes_(text) == [k \in DOMAIN text |-> Matching!uchar(text[k]) - 1]
  IN Answers(
    [sub |-> [i \in Positions, j \in Positions |-> Matching!str_sub(s, i, j)],
     byte |-> [i \in Positions |-> Matching!str_byte(s, i, <<>>)],
     rep |-> [n \in -1 .. 3 |-> Matching!str_rep(s, n, <<"c">>)],
     reverse |-> Matching!str_reverse(Matching!str_reverse(s) \o s)],
    [sub |-> [i \in Positions, j \in Positions |-> Sub(i, j)],
     byte |-> [i \in Positions |-> Bytes_(Sub(i, i))],
     rep |-> [n \in -1 .. 3 |-> Matching!Text(IF n < 1 THEN <<>> ELSE FlattenSeq([k \in 1 .. n |-> IF k = 1 THEN s ELSE <<"c">> \o s]))],
     reverse |-> Matching!str_reverse(s) \o s])

-----------------------------------------------------------------------------
(* The groups, and the specification.                                       *)

Groups == {"table", "bit32", "utf8 bytes", "part", "symbol", "numeral", "long string", "spelled", "lines", "refused",
           "ints", "int bytes", "string bytes", "packing", "pattern", "captures", "class",
           "numbers read", "formats", "file calls", "file loaded", "modes"}
RoundTripGroups == {"varargs", "codes", "quoted", "loaded", "unpacking"}
CasesOf(g) ==
  LET functions == Binary!Functions IN
  CASE g = "table" -> Sequences_ [] g = "bit32" -> SUBSET Bit!Bits [] g = "utf8 bytes" -> Bytes \X Bytes
    [] g = "part" -> Letters [] g = "symbol" -> Reading!SymbolTexts [] g = "numeral" -> Reading!NumeralTexts
    [] g = "long string" -> Reading!LongTexts [] g = "spelled" -> Reading!SpelledTexts
    [] g = "lines" -> Reading!LineTexts [] g \in {"refused", "loaded"} -> functions
    [] g \in {"ints", "int bytes"} -> Binary!IntOptions [] g = "string bytes" -> Binary!StringOptions
    [] g \in {"packing", "unpacking"} -> Binary!Layouts
    [] g = "pattern" -> Matching!Patterns [] g = "captures" -> Matching!CapturePatterns
    [] g = "class" -> Matching!ClassPatterns [] g = "varargs" -> UpTo({0, 1}, 4)
    [] g = "numbers read" -> Reading!NumberTexts [] g = "formats" -> Reading!Formats
    [] g = "file calls" -> Reading!CallSequences [] g = "file loaded" -> Reading!LoadTexts [] g = "modes" -> Reading!Modes
    [] g = "codes" -> UpTo(CodePoints, 2) [] g = "quoted" -> Reading!QuotedTexts
CallOf(g, c) ==
  LET Matched(subjects) == Answers([s \in subjects |-> Matching!Found(c, s)], [s \in subjects |-> Matching!Meant(c, s)]) IN
  CASE g = "table" -> TableCall(c) [] g = "bit32" -> BitCall(c) [] g = "utf8 bytes" -> BytesCall(c)
    [] g = "part" -> PartCall(c) [] g = "symbol" -> Answers(Reading!Read(c), Reading!LongestSymbol(c))
    [] g = "numeral" -> Answers(Reading!Read(c), Reading!Numeral(Reading!Prefix(c, Reading!Extent(c))))
    [] g = "long string" -> Answers(Reading!Read(Reading!LongText(c)), Reading!LongString(c))
    [] g = "spelled" -> Answers(Reading!ReadSpelled(c), {<<"STRING", c>>})
    [] g = "lines" -> Answers(Reading!TokensOf(Reading!LineText(c)), Reading!LineTokens(c))
    [] g = "refused" -> Answers(Binary!Refusals(c), Binary!ToBeRefused(c))
    [] g = "loaded" -> Answers(Binary!DumpedAndLoaded(c), Binary!ToBeLoaded(c))
    [] g = "ints" -> Answers(Binary!PackedInts(c), Binary!MeantInts(c))
    [] g = "int bytes" -> Answers(Binary!ReadBytes(c), Binary!MeantBytes(c))
    [] g = "string bytes" -> Answers(Binary!ReadStrings(c), Binary!MeantStrings(c))
    [] g = "packing" -> Answers(Binary!Packing(c), Binary!MeantPacking(c))
    [] g = "unpacking" -> Answers(Binary!PackedAndUnpacked(c), Binary!ArgsOf(c))
    [] g \in {"pattern", "captures"} -> Matched(Matching!Subjects) [] g = "class" -> Matched(Matching!ClassSubjects)
    [] g = "numbers read" -> Answers(Reading!NumbersOf(c), Reading!MeantNumbers(c))
    [] g = "formats" -> Answers(Reading!FormatsOf(c), Reading!MeantFormats(c))
    [] g = "file calls" -> Answers(Reading!CallsOf(c), Reading!MeantCalls(c))
    [] g = "file loaded" -> Answers(Reading!Loaded(c), Reading!MeantLoaded(c))
    [] g = "modes" -> Answers(Reading!l_checkmode(c), c \in Reading!MeantModes)
    [] g = "varargs" -> UnpackCall(c) [] g = "codes" -> CodesCall(c)
    [] g = "quoted" -> Answers(Reading!Read(Reading!addquoted(c)).s, c)
MachineTypes == Binary!Native

\* The calls begin PATIENCE steps after the programs and the sorts, so that an
\* error of these is found without making the calls.
NoCall == [group |-> "none", made |-> FALSE, case |-> <<>>, answer |-> <<>>, meant |-> <<>>]
Waiting_ == [NoCall EXCEPT !.group = "waiting"]
NoSort == array = <<>> /\ order = <<>> /\ todo = <<>> /\ at = [pc |-> "done", i |-> 0, j |-> 0, p |-> 0] /\ compared = 0
NoProgram ==
  /\ main = [error |-> {"no program"}, failed |-> {}]
  /\ program = [tree |-> <<>>, legal |-> FALSE, meaning |-> <<>>]
  /\ vm = [status |-> "refused"]
  /\ steps = 0
LibraryInit ==
  \/ Init /\ NoSort /\ call = NoCall
  \/ NoProgram /\ SortInit /\ call = NoCall
  \/ NoProgram /\ NoSort /\ call = Waiting_

Waits == call.group = "waiting" /\ steps < PATIENCE /\ steps' = steps + 1 /\ UNCHANGED call
Selects ==
  /\ call.group = "waiting" /\ steps = PATIENCE
  /\ \E g \in Groups \cup RoundTripGroups : call' = [NoCall EXCEPT !.group = g]
  /\ UNCHANGED steps
Calls_ ==
  /\ call.group \notin {"none", "waiting"} /\ ~call.made
  /\ \E c \in Cases(call.group) : \E both \in {Call(call.group, c)} :
       call' = [group |-> call.group, made |-> TRUE, case |-> c, answer |-> both.answer, meant |-> both.meant]
  /\ UNCHANGED steps
LibraryNext ==
  \/ Next /\ UNCHANGED libraryvars
  \/ SortNext /\ UNCHANGED <<vars, program, steps, call>>
  \/ (Waits \/ Selects \/ Calls_) /\ UNCHANGED <<vars, program, array, order, todo, at, compared>>
LibrarySpec == LibraryInit /\ [][LibraryNext]_<<vars, program, steps, libraryvars>>

-----------------------------------------------------------------------------
\* What string.find, match, gmatch and gsub, string.sub, byte and rep, table's
\* functions, bit32 and utf8, string.pack and packsize, io.read, io.lines and
\* loadfile, the lexer and the loader of precompiled chunks answer is what the
\* manual says they do, stated without
\* regard to how they do it: patterns as all their ways of matching in order of
\* preference, numbers as numbers and not as bits or bytes.
LibraryAnswersAsMeant == call.group \notin RoundTripGroups => call.answer = call.meant

\* What one function writes another reads back: %q and the lexer, dump and load
\* however the input is cut, pack and unpack, utf8 escapes and utf8.codepoint,
\* table.pack and unpack.
RoundTrips == call.group \in RoundTripGroups => call.answer = call.meant

=============================================================================
