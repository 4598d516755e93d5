----------------------------- MODULE MCLuaBinary -----------------------------
(***************************************************************************)
(* Precompiled functions for LuaDump and formats for LuaPack, with what    *)
(* becomes of them.                                                        *)
(***************************************************************************)
EXTENDS LuaPack, FiniteSets

CONSTANTS BYTES, SZSIZE, SZWORD, SZDUMP  \* of LuaDump, SZDUMP for its SZINT

Dump == INSTANCE LuaDump WITH SZINT <- SZDUMP

-----------------------------------------------------------------------------
(* Functions: every type of constant, short and long strings, functions     *)
(* within functions, with the source of the outer one or their own.         *)

Constant(t, v, s) == [t |-> t, v |-> v, s |-> s]
Constants ==
  <<Constant("nil", 0, <<>>), Constant("boolean", 1, <<>>), Constant("integer", 33, <<>>), Constant("float", 9, <<>>),
    Constant("string", 0, <<>>), Constant("string", 0, <<1, 2, 3, 4, 5>>), Constant("string", 0, <<1, 2, 3, 4, 5, 6>>)>>
Proto(source, k, inner, names) ==
  [source |-> source, linedefined |-> 8, lastlinedefined |-> 19, numparams |-> 1, is_vararg |-> 0, maxstacksize |-> 2,
   code |-> <<40, 2>>, k |-> k, upvalues |-> [i \in DOMAIN names |-> [instack |-> 1, idx |-> i - 1]], p |-> inner,
   lineinfo |-> <<9, 19>>, locvars |-> <<[varname |-> <<<<1>>>>, startpc |-> 0, endpc |-> 2]>>, names |-> names]
Here == <<<<7, 1>>>>
There == <<<<7, 2>>>>
Leaf(source) == Proto(source, <<Constants[7]>>, <<>>, <<>>)
Functions ==
  {Proto(Here, SubSeq(Constants, 1, n), <<>>, <<<<<<5, 5>>>>>>) : n \in 0 .. Len(Constants)}
  \cup {Proto(Here, <<>>, <<Leaf(a), Proto(b, <<>>, <<Leaf(c)>>, <<<<<<6>>>>, <<<<>>>>>>)>>, <<>>) :
          a \in {Here, There}, b \in {Here, There}, c \in {Here, There}}

RECURSIVE Stripped(_)
Stripped(f) ==
  [f EXCEPT !.source = Dump!NoString, !.lineinfo = <<>>, !.locvars = <<>>,
            !.names = [i \in DOMAIN @ |-> Dump!NoString], !.p = [i \in DOMAIN @ |-> Stripped(@[i])]]

Everything == 100000
BytesOf(f, strip) == FlattenSeq(Dump!luaU_dump(f, strip, Everything).out)
Loaded(blocks) == LET r == Dump!luaU_undump(blocks) IN IF r.failed THEN <<"failed">> ELSE r.f
\* However the reader cuts the dump, what is loaded is the function, which
\* lacks only what a stripped dump leaves out.
DumpedAndLoaded(f) ==
  LET b == BytesOf(f, FALSE) IN
  [whole |-> Loaded(<<b>>), stripped |-> Loaded(<<BytesOf(f, TRUE)>>),
   split |-> {Loaded(<<SubSeq(b, 1, n), SubSeq(b, n + 1, Len(b))>>) : n \in 1 .. Len(b) - 1},
   bytewise |-> Loaded([i \in DOMAIN b |-> <<b[i]>>])]
ToBeLoaded(f) == [whole |-> <<f>>, stripped |-> <<Stripped(f)>>, split |-> {<<f>>}, bytewise |-> <<f>>]

\* Nothing is loaded from a part of a dump, from one with another header, or
\* from one that the writer has not taken whole.
HeaderSize == Len(FlattenSeq(Dump!DumpHeader))
Refusals(f) ==
  LET b == BytesOf(f, FALSE)
      blocks == Len(Dump!luaU_dump(f, FALSE, Everything).out)
  IN [cut |-> {Dump!luaU_undump(<<SubSeq(b, 1, n)>>).error : n \in 1 .. Len(b) - 1},
      changed |-> {n \in 1 .. HeaderSize : Dump!luaU_undump(<<[b EXCEPT ![n] = (@ + 1) % BYTES]>>).error = ""},
      unwritten |-> {n \in 0 .. blocks : ~Dump!luaU_dump(f, FALSE, n).status}]
ToBeRefused(f) == [cut |-> {"truncated"}, changed |-> {}, unwritten |-> {Len(Dump!luaU_dump(f, FALSE, Everything).out)}]

-----------------------------------------------------------------------------
(* Numbers of all sizes.                                                    *)

Radix == 2 ^ NB
Sizes == 1 .. MAXINTSIZE
Ints == -(2 ^ (SZINT * NB - 1)) .. 2 ^ (SZINT * NB - 1) - 1
IntOptions == {"i", "I"} \X Sizes \X {"<", ">"}
Format(o) == <<<<o[3], -1>>, <<o[1], o[2]>>>>
\* The integers that an option's bytes can hold: all of them, as soon as it has
\* as many bytes as a lua_Integer.
Holds(o) == IF o[2] >= SZINT THEN Ints ELSE IF o[1] = "i" THEN {n \in Ints : -n <= Radix ^ o[2] \div 2 /\ n < Radix ^ o[2] \div 2}
            ELSE {n \in Ints : n \in 0 .. Radix ^ o[2] - 1}
PackedInts(o) == [n \in Ints |-> LET r == str_pack(Format(o), <<n>>) IN
                                 IF r.ok THEN str_unpack(Format(o), r.b, 1).values ELSE <<>>]
MeantInts(o) == [n \in Ints |-> IF n \in Holds(o) THEN <<n>> ELSE <<>>]

\* Bytes are read as the number they are in two's complement or, for unsigned
\* numbers that only fit without their sign, as that number's bits.
ReadBytes(o) == [b \in [1 .. o[2] -> {0, 1, Radix - 1}] |-> str_unpack(Format(o), b, 1).values]
ValueOf(o, b) ==
  LET n == FoldRight(LAMBDA x, y : y * Radix + x, IF o[3] = "<" THEN b ELSE Reverse(b), 0)
  IN IF o[1] = "i" /\ n >= Radix ^ o[2] \div 2 THEN n - Radix ^ o[2] ELSE n
MeantBytes(o) ==
  [b \in [1 .. o[2] -> {0, 1, Radix - 1}] |->
     LET n == ValueOf(o, b) IN
     CASE n \in Ints -> <<n>>
       [] n \notin Ints /\ o[1] = "I" /\ n < Radix ^ SZINT -> <<n - Radix ^ SZINT>>
       [] OTHER -> <<>>]

\* A length in front of two bytes is refused unless they are as many, or the
\* length is the largest of all: then the code copies beyond them.
StringOptions == {"s"} \X Sizes \X {"<", ">"}
TwoBytes == <<2, 1>>
ReadStrings(o) ==
  [b \in [1 .. o[2] -> {0, 1, Radix - 1}] |-> str_unpack(Format(o), b \o TwoBytes, 1)]
MeantStrings(o) ==
  [b \in [1 .. o[2] -> {0, 1, Radix - 1}] |->
     LET n == ValueOf(<<"I", o[2], o[3]>>, b) IN
     CASE n <= 2 -> [ok |-> TRUE, values |-> <<SubSeq(TwoBytes, 1, n)>>, next |-> o[2] + n + 1]
       [] n = Radix ^ SZINT - 1 -> [ok |-> FALSE, values |-> <<>>, next |-> -1]
       [] OTHER -> [ok |-> FALSE, values |-> <<>>, next |-> 0]]

-----------------------------------------------------------------------------
(* Formats of up to three items, each a sequence of options with a value    *)
(* and the bytes it has, least significant first, and the size to which it  *)
(* is aligned.                                                              *)

Item_(options, args, size, bytes, fixed) ==
  [options |-> options, args |-> args, align |-> size, bytes |-> bytes, fixed |-> fixed]
Twos(n, size) == [j \in 1 .. size |-> ((n % Radix ^ size) \div Radix ^ (j - 1)) % Radix]
Items ==
  <<Item_(<<<<"b", -1>>>>, <<-2>>, 1, Twos(-2, 1), TRUE), Item_(<<<<"i", 2>>>>, <<-5>>, 2, Twos(-5, 2), TRUE),
   Item_(<<<<"i", 5>>>>, <<-6>>, 5, Twos(-6, 5), TRUE), Item_(<<<<"I", 4>>>>, <<9>>, 4, Twos(9, 4), TRUE),
   Item_(<<<<"j", -1>>>>, <<27>>, 3, Twos(27, 3), TRUE), Item_(<<<<"f", -1>>>>, <<<<3, 1>>>>, 2, <<3, 1>>, TRUE),
   Item_(<<<<"c", 2>>>>, <<<<1, 0>>>>, 1, <<1, 0>>, TRUE), Item_(<<<<"z", -1>>>>, <<<<2>>>>, 1, <<2, 0>>, FALSE),
   Item_(<<<<"s", 2>>>>, <<<<3, 0, 1>>>>, 2, <<3, 0, 3, 0, 1>>, FALSE), Item_(<<<<"x", -1>>>>, <<>>, 1, <<0>>, TRUE),
   Item_(<<<<"X", -1>>, <<"i", 2>>>>, <<>>, 2, <<>>, TRUE)>>
Layouts == {<<<<"<", -1>>>>, <<<<"!", 2>>>>, <<<<">", -1>>, <<"!", 2>>>>} \X UNION {[1 .. n -> DOMAIN Items] : n \in 0 .. 3}
ItemsOf(case) == [i \in DOMAIN case[2] |-> Items[case[2][i]]]
FormatOf(case) == case[1] \o FlattenSeq([i \in DOMAIN case[2] |-> ItemsOf(case)[i].options])
ArgsOf(case) == FlattenSeq([i \in DOMAIN case[2] |-> ItemsOf(case)[i].args])
\* Numbers have the order of the format, texts do not.
BytesIn(item, little) ==
  CASE little \/ item.options[1][1] \in {"c", "z", "x", "X"} -> item.bytes
    [] ~little /\ item.options[1][1] = "s" -> Reverse(SubSeq(item.bytes, 1, 2)) \o SubSeq(item.bytes, 3, Len(item.bytes))
    [] OTHER -> Reverse(item.bytes)
MeantPacking(case) ==
  LET little == case[1][1] # <<">", -1>>
      aligned == Len(case[1]) = 2 \/ case[1][1][1] = "!"
      Aligned(b, item) ==
        b \o (IF aligned /\ item.align > 1 /\ Len(b) % 2 = 1 THEN <<0>> ELSE <<>>) \o BytesIn(item, little)
      b == FoldLeft(Aligned, <<>>, ItemsOf(case))
  IN [bytes |-> b, size |-> IF \A i \in DOMAIN case[2] : ItemsOf(case)[i].fixed THEN Len(b) ELSE -1]
Packing(case) == [bytes |-> str_pack(FormatOf(case), ArgsOf(case)).b, size |-> str_packsize(FormatOf(case))]
PackedAndUnpacked(case) ==
  LET r == str_unpack(FormatOf(case), str_pack(FormatOf(case), ArgsOf(case)).b, 1) IN r.values
Native == [c \in {"b", "h", "i", "l", "j", "B", "H", "L", "J", "T", "f", "d", "n", "!"} |->
             CASE c \in {"b", "B"} -> 1 [] c \in {"h", "H", "i", "f"} -> 2 [] c = "!" -> 4 [] OTHER -> 3]

=============================================================================
