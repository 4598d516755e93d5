-------------------------- MODULE MCLuaStatements ---------------------------
(***************************************************************************)
(* Loops whose bodies capture, change and leave variables in every order,  *)
(* and single programs for calls, assignments, constructors and varargs,   *)
(* compiled with small limits so that constants and list items overflow;   *)
(* expressions of two levels over and, or, not, < and ==, compiled as a    *)
(* value, as a condition and as the value of an assignment.                *)
(***************************************************************************)
EXTENDS LuaMeaning

z == N("z")
u == N("u")
fs == N("fs")
f == N("f")
t == N("t")
Inc(v, n) == Assign(<<v>>, <<Bin(v, "+", Num(n))>>)
Append_(e) == Assign(<<At_(fs, Bin(Un("#", fs), "+", Num(1)))>>, <<e>>)
Counter(v) == Fun(<<>>, <<Inc(v, 1), Return(<<v>>)>>)
Equals(v, n) == Bin(v, "==", Num(n))

\* Statements on the variable z of a loop's stats.
Pool == { Append_(Counter(z)),
          If(Equals(z, 2), <<Goto("continue")>>),
          If(Bin(z, ">", Num(1)), <<BREAK>>),
          Do(<<Local(<<u>>, <<z>>), Append_(Counter(u)), If(Equals(u, 1), <<Goto("continue")>>)>>),
          While(Bin(z, "<", Num(3)), <<Local(<<u>>, <<z>>), Inc(z, 1), Append_(Counter(u)), If(Equals(u, 2), <<BREAK>>)>>),
          Repeat(<<Local(<<u>>, <<z>>), Append_(Counter(u)), Inc(z, 2)>>, Bin(u, ">=", Num(2))) }
Bodies == {<<a, b>> : a \in Pool, b \in Pool} \cup {<<a, b, Append_(Counter(z))>> : a \in Pool, b \in Pool}
Within(stats) == <<Do(stats), Label("continue")>>

Loops(stats) ==
  { For("z", <<Num(1), Num(3)>>, Within(stats)),
    ForIn(<<z>>, <<Fun(<<t, u>>, <<If(Bin(u, "<", Num(2)), <<Return(<<Bin(u, "+", Num(1))>>)>>)>>), NIL, Num(0)>>,
          Within(stats)),
    While(Bin(x, "<", Num(2)), <<Inc(x, 1), Local(<<z>>, <<x>>)>> \o <<Do(stats), Label("continue")>>) }
Whole(loop) ==
  Block(<<Local(<<fs, x>>, <<TableOf(<<>>), Num(0)>>), loop,
          For("i", <<Num(1), Un("#", fs)>>,
              <<Emit(<<CallOf(At_(fs, N("i")), <<>>), CallOf(At_(fs, N("i")), <<>>)>>)>>)>>)
LoopPrograms == {Whole(loop) : loop \in UNION {Loops(stats) : stats \in Bodies}}

Numbers(n) == [j \in 1 .. n |-> Num(10 + j)]
Both == Fun(<<DOTS>>, <<Return(<<DOTS, DOTS>>)>>)
Calls ==
  { \* varargs adjusted in the middle and at the end, missing and extra values
    <<Local(<<f>>, <<Fun(<<x, y, DOTS>>, <<Local(<<z, u>>, <<DOTS>>), Emit(<<z, u>>), Return(<<DOTS>>)>>)>>),
      Emit(<<CallOf(f, Numbers(5)), CallOf(f, Numbers(1)), CallOf(f, Numbers(3))>>),
      Local(<<x, y, z>>, <<CallOf(f, Numbers(4))>>), Emit(<<x, y, z>>),
      Local(<<x, y>>, <<Of("PAREN", <<CallOf(f, Numbers(4))>>), Num(1), CallOf(f, Numbers(2))>>), Emit(<<x, y>>)>>,
    \* tail calls, with upvalues of the caller and with fewer and more arguments
    <<Node("LOCALFUNCTION", "f", 0, <<Fun(<<x, y>>, <<
        Local(<<z>>, <<x>>), Local(<<t>>, <<Counter(z)>>),
        If(Bin(x, "<", Num(3)), <<Return(<<CallOf(f, <<Bin(x, "+", Num(1)), t, x, x, x, x>>)>>)>>),
        Return(<<CallOf(y, <<>>), CallOf(y, <<>>), z>>)>>)>>),
      Emit(<<CallOf(f, <<Num(1)>>)>>)>>,
    <<Local(<<f>>, <<Fun(<<x, DOTS>>, <<Return(<<CallOf(N("emit"), <<x, DOTS>>)>>)>>)>>),
      Emit(<<CallOf(f, <<>>), CallOf(f, Numbers(2))>>), Return(<<CallOf(f, Numbers(3))>>)>>,
    \* several targets that use each other's tables and keys
    <<Local(<<x, t>>, <<Num(1), TableOf(Numbers(3))>>),
      Assign(<<x, At_(t, x), At_(t, Bin(x, "+", Num(1)))>>, <<Num(3), Num(7)>>),
      Emit(<<x, At_(t, Num(1)), At_(t, Num(2)), At_(t, Num(3))>>)>>,
    <<Local(<<t, u>>, <<TableOf(Numbers(2)), TableOf(<<>>)>>),
      Assign(<<At_(t, Num(1)), t, At_(u, Num(1))>>, <<Num(5), u, Num(6)>>),
      Emit(<<At_(t, Num(1)), At_(u, Num(1))>>)>>,
    <<Local(<<t, u>>, <<TableOf(Numbers(2))>>), Assign(<<u>>, <<t>>),
      Local(<<f>>, <<Fun(<<>>, <<Assign(<<At_(t, Num(1)), t>>, <<Num(4), NIL>>)>>)>>), Stat(CallOf(f, <<>>)),
      Emit(<<At_(u, Num(1)), t>>)>>,
    \* more values than targets, with an open call at the end
    <<Local(<<f, x>>, <<Both>>), Assign(<<x>>, <<Num(1), Num(2), CallOf(f, Numbers(1))>>), Emit(<<x>>),
      Assign(<<x, y>>, <<CallOf(f, Numbers(1))>>), Emit(<<x, y, N("g")>>)>>,
    \* constructors: batches of items, open items, fields between
    <<Local(<<f>>, <<Both>>),
      Local(<<t>>, <<TableOf(Numbers(3) \o <<Field(Quoted("a"), Num(1))>> \o Numbers(2) \o <<CallOf(f, Numbers(2))>>)>>),
      Emit(<<Un("#", t), At_(t, Num(4)), At_(t, Num(9)), Dot(t, "a")>>)>>,
    <<Local(<<t>>, <<TableOf(<<TableOf(<<>>), TableOf(<<Num(1), Field(Quoted("a"), Num(2))>>), Num(3)>>)>>),
      Emit(<<Un("#", t), Dot(At_(t, Num(2)), "a"), At_(At_(t, Num(2)), Num(1))>>)>>,
    \* many constants: RK operands beyond the limit, OP_LOADKX
    <<Local(<<x, y>>, Numbers(2)), Emit(<<Bin(x, "+", Num(21)), Bin(Num(22), "-", y), Bin(Bin(x, "*", Num(23)), "%", Num(5))>>),
      Emit(<<Bin(x, "<", Num(24)), Bin(x, "==", Num(11)), Bin(Quoted("a"), "==", Quoted("b")), Un("-", Num(3))>>),
      Assign(<<N("g")>>, <<Quoted("c")>>), Emit(<<N("g"), Bin(Num(7), "//", Num(2)), Un("-", x)>>)>>,
    \* methods, nested functions and upvalues of upvalues
    <<Local(<<t>>, <<TableOf(<<Field(Quoted("n"), Num(1))>>)>>),
      Node("METHOD", "m", 0, <<t, Fun(<<x>>, <<Assign(<<Dot(N("self"), "n")>>, <<Bin(Dot(N("self"), "n"), "+", x)>>),
                                            Return(<<N("self")>>)>>)>>),
      Emit(<<Dot(Method(Method(t, "m", <<Num(2)>>), "m", <<Num(3)>>), "n")>>)>>,
    <<Local(<<x>>, <<Num(1)>>),
      Local(<<f>>, <<Fun(<<>>, <<Local(<<y>>, <<x>>), Return(<<Fun(<<>>, <<Inc(x, 1), Inc(y, 10), Return(<<x, y>>)>>),
                                                           Fun(<<>>, <<Return(<<Bin(x, "+", y)>>)>>)>>)>>)>>),
      Local(<<z, u>>, <<CallOf(f, <<>>)>>), Local(<<t>>, <<CallOf(f, <<>>)>>),
      Emit(<<CallOf(z, <<>>), CallOf(u, <<>>)>>), Emit(<<CallOf(t, <<>>)>>), Emit(<<CallOf(u, <<>>), x>>)>>,
    \* loops down and by steps, which change the variables they started with
    <<Local(<<x>>, <<Num(5)>>),
      For("i", <<x, Num(1), Un("-", Num(2))>>, <<Inc(x, 1), Emit(<<N("i"), x>>)>>),
      For("i", <<Num(1), Num(0)>>, <<Emit(<<N("i")>>)>>),
      IfElse(Bin(x, ">", Num(100)), <<Emit(<<Num(1)>>)>>, <<Emit(<<Bin(x, "..", Bin(Num(1), "..", Quoted("a")))>>)>>),
      Of("IF", <<Equals(x, 1), Block(<<Emit(<<Num(2)>>)>>), Equals(x, 8), Block(<<Emit(<<Num(3)>>)>>), Block(<<Emit(<<Num(4)>>)>>)>>)>> }
SinglePrograms == {Block(p) : p \in Calls}
Programs == LoopPrograms \cup SinglePrograms

-----------------------------------------------------------------------------
Leaves == {x, y, Num(2)}
Level1(leaves) == leaves \cup {Un("not", e) : e \in leaves}
                  \cup {Bin(e, op, g) : e \in leaves, op \in {"and", "or", "<"}, g \in leaves}
Level2 == {Bin(e, op, g) : e \in Level1(Leaves), op \in {"and", "or", "=="}, g \in Level1(Leaves \ {x})}
Used(e) ==
  Block(<<Local(<<x, y>>, <<Num(1)>>), Emit(<<e>>), If(e, <<Emit(<<Num(3)>>)>>), Assign(<<y>>, <<Un("not", e)>>),
          Emit(<<y>>)>>)
ExpressionPrograms == {Used(e) : e \in Level2}

=============================================================================
