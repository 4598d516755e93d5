----------------------------- MODULE MCLuaCalls ------------------------------
(***************************************************************************)
(* Every metamethod, called for every operation that tries it, by handlers *)
(* that return, yield, fail or catch errors, in functions called plainly,  *)
(* protected and across C code that cannot yield.                          *)
(***************************************************************************)
EXTENDS LuaMeaning

z == N("z")
o == N("o")
p == N("p")
mt == N("mt")
h == N("h")
f == N("f")
yield(e) == CallOf(N("yield"), <<e>>)
error(e) == CallOf(N("error"), <<e>>)
pcall(e, args) == CallOf(N("pcall"), <<e>> \o args)
error_ == N("error")
Inc_(v) == Assign(<<v>>, <<Bin(v, "+", Num(1))>>)

\* What a metamethod does with its first two arguments; v is its result.
Handlers(v) ==
  { <<Emit(<<Num(31)>>), Return(<<v>>)>>,
    <<Local(<<z>>, <<yield(Num(32))>>), Emit(<<z>>), Return(<<v>>)>>,
    <<Stat(error(Num(33)))>>,
    <<Local(<<z>>, <<Fun(<<>>, <<Local(<<N("w")>>, <<Num(1)>>),
                                 Assign(<<N("g")>>, <<Fun(<<>>, <<Assign(<<N("w")>>, <<Bin(N("w"), "+", Num(1))>>), Return(<<N("w")>>)>>)>>),
                                 Stat(CallOf(N("g"), <<>>)), Stat(yield(Num(34))), Stat(error(N("w")))>>)>>),
      Emit(<<pcall(z, <<>>), CallOf(N("g"), <<>>)>>), Return(<<v>>)>> }

\* Operations on the objects o and p, whose metatable mt has the handler h, and
\* the value that the handler returns.
Ops ==
  { [e |-> "__index", x |-> Bin(Dot(o, "a"), "+", Num(1)), v |-> Num(5)],
    [e |-> "__call", x |-> CallOf(o, <<x, Num(2)>>), v |-> Num(6)],
    [e |-> "__eq", x |-> Bin(o, "==", p), v |-> x],
    [e |-> "__lt", x |-> Bin(o, "<", p), v |-> Un("not", x)],
    [e |-> "__le", x |-> Bin(p, ">=", o), v |-> NIL],
    [e |-> "__lt", x |-> Bin(o, "<=", p), v |-> FALSE_],
    \* one operand alone has the metamethod, the other is a constant or a table
    [e |-> "__le", x |-> Bin(TableOf(<<>>), "<=", o), v |-> x],
    [e |-> "__le", x |-> Bin(o, "<=", TableOf(<<>>)), v |-> x],
    [e |-> "__le", x |-> Bin(o, ">=", Num(1)), v |-> NIL],
    [e |-> "__lt", x |-> Bin(o, ">", Num(1)), v |-> x],
    [e |-> "__concat", x |-> Bin(Quoted("a"), "..", Bin(Num(1), "..", Bin(o, "..", Quoted("b")))), v |-> Quoted("c")],
    [e |-> "__len", x |-> Un("#", o), v |-> Num(8)],
    [e |-> "__unm", x |-> Un("-", o), v |-> Num(9)],
    [e |-> "__mod", x |-> Bin(Num(4), "%", o), v |-> Num(9)],
    [e |-> "__index", x |-> Method(o, "m", <<Num(1)>>), v |-> Fun(<<z, DOTS>>, <<Return(<<DOTS>>)>>)] }

Prepared(op, handler) ==
  <<Local(<<mt>>, <<TableOf(<<>>)>>),
    Local(<<o, p, x>>, <<TableOf(<<>>), TableOf(<<>>)>>),
    Stat(CallOf(N("setmetatable"), <<o, mt>>)), Stat(CallOf(N("setmetatable"), <<p, mt>>)),
    \* the absence of the event is noted before the handler is set
    Emit(<<Bin(o, "==", p), Dot(o, "b"), Un("#", o)>>),
    Assign(<<Dot(mt, op.e)>>, <<Fun(<<N("a1"), N("a2")>>, handler)>>)>>

\* The operation as a value in a function with an upvalue, called in four ways.
Body(op) ==
  Node("LOCALFUNCTION", "f", 0, <<Fun(<<N("q")>>, <<
    Local(<<y>>, <<Num(10)>>),
    Assign(<<N("g2")>>, <<Fun(<<>>, <<Assign(<<y>>, <<Bin(y, "+", Num(1))>>), Return(<<y>>)>>)>>),
    Local(<<z>>, <<op.x>>), Assign(<<y>>, <<Bin(y, "+", Num(10))>>), Return(<<z, y, CallOf(N("g2"), <<>>)>>)>>)>>)
After == Emit(<<CallOf(N("g2"), <<>>), CallOf(N("g2"), <<>>)>>)
Contexts ==
  { <<Emit(<<CallOf(f, <<Num(1)>>)>>), After>>,
    <<Emit(<<pcall(f, <<Num(1)>>)>>), After, Emit(<<pcall(N("pcall"), <<f>>)>>)>>,
    <<Emit(<<pcall(N("call"), <<f, Num(1)>>)>>), After, Emit(<<pcall(f, <<>>)>>)>>,
    <<Emit(<<pcall(Fun(<<>>, <<Return(<<CallOf(N("call"), <<N("pcall"), f>>)>>)>>), <<>>)>>), After, Return(<<CallOf(f, <<>>)>>)>> }

Metamethods ==
  UNION {{Block(Prepared(op, handler) \o <<Body(op)>> \o context) :
            handler \in Handlers(op.v), context \in Contexts} : op \in Ops}

-----------------------------------------------------------------------------
WithMeta(t, fs) == Stat(CallOf(N("setmetatable"), <<t, TableOf(fs)>>))
Others ==
  { \* a chain of __index and __newindex, of which the last is a function
    <<Local(<<o, p, h>>, <<TableOf(<<Field(Quoted("a"), Num(1))>>), TableOf(<<>>), TableOf(<<>>)>>),
      WithMeta(o, <<Field(Quoted("__index"), p), Field(Quoted("__newindex"), p)>>),
      WithMeta(p, <<Field(Quoted("__index"), h), Field(Quoted("__newindex"), h)>>),
      Assign(<<Dot(h, "c")>>, <<Num(3)>>),
      Assign(<<Dot(o, "a"), Dot(o, "b"), Dot(o, "c")>>, <<Num(7), Num(8), Num(9)>>),
      Emit(<<Dot(o, "a"), Dot(o, "b"), Dot(h, "b"), Dot(h, "c"), Dot(p, "b")>>),
      WithMeta(h, <<Field(Quoted("__index"), Fun(<<x, y>>, <<Return(<<yield(y)>>)>>)),
                Field(Quoted("__newindex"), Fun(<<x, y, z>>, <<Emit(<<y, yield(z)>>)>>))>>),
      Assign(<<Dot(o, "d"), Dot(o, "a")>>, <<Dot(o, "e"), Num(2)>>),
      Emit(<<Dot(o, "a"), Dot(o, "d"), CallOf(N("yield"), <<>>)>>)>>,
    \* loops of tables in __index and in __newindex
    <<Local(<<o, p>>, <<TableOf(<<>>), TableOf(<<>>)>>),
      WithMeta(o, <<Field(Quoted("__index"), p), Field(Quoted("__newindex"), p)>>), WithMeta(p, <<Field(Quoted("__index"), Num(1))>>),
      Emit(<<pcall(Fun(<<>>, <<Return(<<Dot(o, "a")>>)>>), <<>>)>>),
      Assign(<<Dot(o, "a")>>, <<Num(1)>>), Emit(<<Dot(o, "a"), Dot(p, "a")>>),
      Emit(<<pcall(Fun(<<>>, <<Assign(<<At_(p, NIL)>>, <<Num(1)>>)>>), <<>>)>>)>>,
    \* globals through the metatable of _ENV
    <<Stat(CallOf(N("setmetatable"), <<N("_ENV"), TableOf(<<Field(Quoted("__index"), Fun(<<x, y>>, <<Return(<<yield(y)>>)>>)),
                                                            Field(Quoted("__newindex"), Fun(<<x, y, z>>, <<Emit(<<y, yield(z)>>)>>))>>)>>)),
      Assign(<<N("g")>>, <<N("k")>>), Emit(<<N("g")>>),
      Emit(<<pcall(Fun(<<x>>, <<Assign(<<N("g"), x>>, <<x>>), Stat(error(x))>>), <<Num(5)>>)>>)>>,
    \* an iterator that yields, whose loop body captures and fails
    <<Local(<<h>>, <<TableOf(<<>>)>>),
      Local(<<f>>, <<Fun(<<>>, <<
        ForIn(<<x, y>>, <<Fun(<<DOTS>>, <<Return(<<CallOf(N("yield"), <<DOTS>>), Num(1)>>)>>), Num(2), Num(3)>>,
              <<Assign(<<Dot(h, "f")>>, <<Fun(<<>>, <<Assign(<<x>>, <<Bin(x, "+", y)>>), Return(<<x>>)>>)>>),
                Emit(<<x, y, CallOf(Dot(h, "f"), <<>>)>>), If(Bin(x, ">", Num(7)), <<Stat(error(x))>>)>>)>>)>>),
      Emit(<<pcall(f, <<>>)>>), Emit(<<CallOf(Dot(h, "f"), <<>>), CallOf(Dot(h, "f"), <<>>)>>)>>,
    \* protected calls in protected calls, with yields and errors between
    <<Node("LOCALFUNCTION", "f", 0, <<Fun(<<x>>, <<
        Local(<<y>>, <<x>>), Assign(<<N("g")>>, <<Fun(<<>>, <<Inc_(y), Return(<<y>>)>>)>>), Stat(yield(x)),
        If(Bin(x, ">", Num(0)), <<Emit(<<pcall(f, <<Bin(x, "-", Num(1))>>), CallOf(N("g"), <<>>)>>)>>),
        Stat(yield(y)), Inc_(y), Stat(error(CallOf(N("g"), <<>>)))>>)>>),
      Emit(<<pcall(f, <<Num(2)>>), CallOf(N("g"), <<>>)>>), Stat(CallOf(f, <<Num(0)>>))>>,
    \* pcall with bad functions and none, of C functions, and tail calls of pcall and yield
    <<Emit(<<pcall(Num(1), <<>>), pcall(N("yield"), <<Num(2), Num(3)>>)>>), Emit(<<pcall(N("pcall"), <<>>)>>),
      Emit(<<pcall(N("pcall"), <<error_, Num(4)>>)>>), Emit(<<pcall(error_, <<>>)>>),
      Local(<<f>>, <<Fun(<<x>>, <<Return(<<pcall(N("yield"), <<x>>)>>)>>)>>),
      Local(<<h>>, <<Fun(<<x>>, <<Return(<<CallOf(N("yield"), <<x, x>>)>>)>>)>>),
      Emit(<<CallOf(f, <<Num(5)>>), CallOf(h, <<Num(6)>>), CallOf(N("call"), <<Fun(<<>>, <<Return(<<pcall(h, <<Num(7)>>)>>)>>)>>)>>),
      Return(<<CallOf(N("call"), <<N("yield")>>)>>)>> }

Programs == Metamethods \cup {Block(q) : q \in Others}

=============================================================================
