------------------------------- MODULE LuaDump -------------------------------
(***************************************************************************)
(* Precompiled chunks: src/lua/src/ldump.c, lundump.c and the buffered     *)
(* input of lzio.c.  A byte is a number below BYTES, an int has SZINT and  *)
(* a size_t SZSIZE of them, the least significant first; instructions,     *)
(* integers and floats have SZWORD and are numbers that are not looked at. *)
(* A string is a sequence of bytes; where the code has NULL instead of a   *)
(* string the model has NoString, otherwise a sequence of one string.      *)
(***************************************************************************)
EXTENDS Integers, Sequences, SequencesExt

CONSTANTS BYTES, SZINT, SZSIZE, SZWORD

NoString == <<>>
encoded(x, n) == [i \in 1 .. n |-> (x \div BYTES ^ (i - 1)) % BYTES]
decoded(b) == FoldRight(LAMBDA byte, x : x * BYTES + byte, b, 0)

\* The signature behind its first byte, version and format, the bytes that show
\* conversions of the stream, and the word that shows the order of bytes.
SIGNATURE == <<3, 4, 2>>
VERSION == <<5, 0>>
LUAC_DATA == <<1, 6>>
LUAC_INT == 2 * BYTES + 5

\* Concatenates the dumps of the members of a sequence, preceded by their number.
vector(s, Dump(_)) == <<encoded(Len(s), SZINT)>> \o FlattenSeq([i \in DOMAIN s |-> Dump(s[i])])

-----------------------------------------------------------------------------
(* ldump.c: a dump is a sequence of blocks for the writer. *)

DumpByte(x) == <<<<x>>>>
DumpInt(x) == <<encoded(x, SZINT)>>
DumpWord(x) == <<encoded(x, SZWORD)>>
DumpString(s) ==
  IF s = NoString THEN DumpByte(0)
  ELSE LET size == Len(s[1]) + 1
       IN (IF size < BYTES - 1 THEN DumpByte(size) ELSE DumpByte(BYTES - 1) \o <<encoded(size, SZSIZE)>>) \o s
DumpCode(f) == DumpInt(Len(f.code)) \o <<FlattenSeq([i \in DOMAIN f.code |-> encoded(f.code[i], SZWORD)])>>

\* Types of constants, in the order of their tags.
Tags == <<"nil", "boolean", "float", "integer", "string">>
tag(t) == CHOOSE n \in DOMAIN Tags : Tags[n] = t
DumpConstant(o) ==
  DumpByte(tag(o.t)) \o
    (CASE o.t = "nil" -> <<>> [] o.t = "boolean" -> DumpByte(o.v) [] o.t \in {"float", "integer"} -> DumpWord(o.v)
       [] o.t = "string" -> DumpString(<<o.s>>))
DumpUpvalue(v) == DumpByte(v.instack) \o DumpByte(v.idx)
DumpLocVar(v) == DumpString(v.varname) \o DumpInt(v.startpc) \o DumpInt(v.endpc)

DumpDebug(f, strip) ==
  LET n(s) == IF strip THEN <<>> ELSE s
  IN DumpInt(Len(n(f.lineinfo))) \o <<FlattenSeq([i \in DOMAIN n(f.lineinfo) |-> encoded(f.lineinfo[i], SZINT)])>>
     \o vector(n(f.locvars), DumpLocVar) \o vector(n(f.names), DumpString)

RECURSIVE DumpFunction(_, _, _)
DumpFunction(f, psource, strip) ==
  DumpString(IF strip \/ f.source = psource THEN NoString ELSE f.source)
  \o DumpInt(f.linedefined) \o DumpInt(f.lastlinedefined)
  \o DumpByte(f.numparams) \o DumpByte(f.is_vararg) \o DumpByte(f.maxstacksize)
  \o DumpCode(f) \o vector(f.k, DumpConstant) \o vector(f.upvalues, DumpUpvalue)
  \o vector(f.p, LAMBDA p : DumpFunction(p, f.source, strip)) \o DumpDebug(f, strip)

DumpHeader ==
  <<SIGNATURE>> \o <<VERSION>> \o <<LUAC_DATA>>
  \o DumpByte(SZINT) \o DumpByte(SZSIZE) \o DumpByte(SZWORD) \o DumpWord(LUAC_INT)

\* The writer takes the first `room` blocks; the dump ends where it refuses one.
luaU_dump(f, strip, room) ==
  LET blocks == DumpHeader \o DumpByte(Len(f.upvalues)) \o DumpFunction(f, NoString, strip)
  IN [status |-> Len(blocks) > room, out |-> SubSeq(blocks, 1, IF Len(blocks) > room THEN room ELSE Len(blocks))]

-----------------------------------------------------------------------------
(* lzio.c: the reader's blocks; an empty one is the end of the input. *)

luaZ_init(blocks) == [p |-> <<>>, blocks |-> blocks]
luaZ_fill(z) == IF z.blocks = <<>> THEN z ELSE [p |-> Head(z.blocks), blocks |-> Tail(z.blocks)]
\* Reads n bytes into b, or all there are.
RECURSIVE luaZ_read(_, _, _)
luaZ_read(z, b, n) ==
  LET filled == luaZ_fill(z)
      m == IF n <= Len(z.p) THEN n ELSE Len(z.p)
  IN IF n = 0 THEN [z |-> z, b |-> b]
     ELSE IF z.p # <<>> THEN luaZ_read([z EXCEPT !.p = SubSeq(@, m + 1, Len(@))], b \o SubSeq(z.p, 1, m), n - m)
     ELSE IF filled.p = <<>> THEN [z |-> filled, b |-> b]
     ELSE luaZ_read(filled, b, n)

-----------------------------------------------------------------------------
(* lundump.c: S has the input, the value loaded last and the reason of an   *)
(* error, after which nothing more is read.                                 *)

LoadBlock(S, size) ==
  LET r == luaZ_read(S.z, <<>>, size) IN
  IF S.error # "" THEN [S EXCEPT !.x = encoded(0, size)]
  ELSE IF Len(r.b) < size THEN [z |-> r.z, error |-> "truncated", x |-> encoded(0, size)]
  ELSE [z |-> r.z, error |-> "", x |-> r.b]
Loads(S, x) == [z |-> S.z, error |-> S.error, x |-> x]
LoadNumber(S, size) == LET r == LoadBlock(S, size) IN Loads(r, decoded(r.x))
LoadByte(S) == LoadNumber(S, 1)
LoadInt(S) == LoadNumber(S, SZINT)
LoadWord(S) == LoadNumber(S, SZWORD)
LoadString(S) ==
  LET short == LoadByte(S)
      size == IF short.x = BYTES - 1 THEN LoadNumber(short, SZSIZE) ELSE short
      text == LoadBlock(size, size.x - 1)
  IN IF size.x = 0 THEN Loads(size, NoString) ELSE Loads(text, <<text.x>>)

\* n members of a sequence, each by Load.
members(S, n, Load(_)) ==
  FoldLeft(LAMBDA done, i : LET r == Load(done) IN Loads(r, Append(done.x, r.x)),
           Loads(S, <<>>), [i \in 1 .. n |-> i])
Vector(S, Load(_)) == LET n == LoadInt(S) IN members(n, n.x, Load)

LoadCode(S) == LET n == LoadInt(S) IN members(n, n.x, LoadWord)
LoadConstant(S) ==
  LET t == LoadByte(S)
      v == CASE t.x = tag("boolean") -> LoadByte(t)
             [] t.x \in {tag("float"), tag("integer")} -> LoadWord(t)
             [] OTHER -> Loads(t, 0)
      text == LoadString(t)
  IN CASE t.error # "" -> t
       [] t.x = tag("string") -> Loads(text, [t |-> "string", v |-> 0, s |-> IF text.error # "" THEN <<>> ELSE text.x[1]])
       [] OTHER -> Loads(v, [t |-> Tags[t.x], v |-> v.x, s |-> <<>>])
LoadUpvalue(S) == LET i == LoadByte(S)  x == LoadByte(i) IN Loads(x, [instack |-> i.x, idx |-> x.x])
LoadLocVar(S) ==
  LET n == LoadString(S)  s == LoadInt(n)  e == LoadInt(s)
  IN Loads(e, [varname |-> n.x, startpc |-> s.x, endpc |-> e.x])

\* The source of a function whose dump has none is that of its parent.
Source(loaded, psource) == IF loaded = NoString THEN psource ELSE loaded

\* The names of the upvalues are in the debug information, which may have none.
LoadNames(S, upvalues) ==
  LET n == Vector(S, LoadString)
  IN Loads(n, [i \in DOMAIN upvalues |-> IF i \in DOMAIN n.x THEN n.x[i] ELSE NoString])

RECURSIVE LoadFunction(_, _)
LoadFunction(S, psource) ==
  LET name == LoadString(S)
      source == Source(name.x, psource)
      first == LoadInt(name)  last == LoadInt(first)
      params == LoadByte(last)  vararg == LoadByte(params)  frame == LoadByte(vararg)
      code == LoadCode(frame)
      k == Vector(code, LoadConstant)
      upvalues == Vector(k, LoadUpvalue)
      p == Vector(upvalues, LAMBDA s : LoadFunction(s, source))
      lines == Vector(p, LoadInt)
      locvars == Vector(lines, LoadLocVar)
      names == LoadNames(locvars, upvalues.x)
  IN Loads(names, [source |-> source, linedefined |-> first.x, lastlinedefined |-> last.x, numparams |-> params.x,
                   is_vararg |-> vararg.x, maxstacksize |-> frame.x, code |-> code.x, k |-> k.x,
                   upvalues |-> upvalues.x, p |-> p.x, lineinfo |-> lines.x, locvars |-> locvars.x, names |-> names.x])

check(S, r, value, msg) == IF r.error = "" /\ r.x # value THEN [r EXCEPT !.error = msg] ELSE r
checkliteral(S, bytes, msg) == check(S, LoadBlock(S, Len(bytes)), bytes, msg)
checksize(S, size) == check(S, LoadByte(S), size, "size mismatch in")
checkHeader(S) ==
  LET signed == checkliteral(S, SIGNATURE, "not a")
      versioned == checkliteral(signed, VERSION, "version mismatch in")
      sized == checksize(checksize(checksize(checkliteral(versioned, LUAC_DATA, "corrupted"), SZINT), SZSIZE), SZWORD)
  IN check(sized, LoadWord(sized), LUAC_INT, "endianness mismatch in")

\* The function, or the reason why there is none.
luaU_undump(blocks) ==
  LET header == checkHeader([z |-> luaZ_init(blocks), error |-> "", x |-> <<>>])
      nupvalues == LoadByte(header)
      main == LoadFunction(nupvalues, NoString)
  IN [error |-> main.error, f |-> IF main.error = "" THEN <<main.x>> ELSE <<>>,
      failed |-> main.error = "" /\ nupvalues.x # Len(main.x.upvalues)]

=============================================================================
