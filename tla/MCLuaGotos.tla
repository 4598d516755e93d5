----------------------------- MODULE MCLuaGotos ------------------------------
(***************************************************************************)
(* Gotos out of, into and around blocks, loops and functions, past local   *)
(* variables that closures capture.  step() is true twice, so that every   *)
(* jump is taken and then not taken.                                       *)
(***************************************************************************)
EXTENDS LuaMeaning

z == N("z")
fs == N("fs")
step == CallOf(N("step"), <<>>)

Guarded(l) == If(step, <<Goto(l)>>)
Captured == <<Local(<<z>>, <<N("n")>>),
              Assign(<<At_(fs, Bin(Un("#", fs), "+", Num(1)))>>,
                     <<Fun(<<>>, <<Assign(<<z>>, <<Bin(z, "+", Num(1))>>), Return(<<z>>)>>)>>)>>

\* Items are sequences of statements.
Simple == {<<Label("a")>>, <<Guarded("a")>>, Captured, <<Emit(<<z>>)>>}
Nestable == {s \o r : s \in Simple, r \in Simple} \cup Simple
Nested == {<<Do(s)>> : s \in Nestable} \cup {<<Repeat(s, Bin(z, "~=", Un("not", step)))>> : s \in Nestable}
          \cup {<<Do(<<Local(<<N("f")>>, <<Fun(<<>>, s)>>), Stat(CallOf(N("f"), <<>>))>>)>> :
                  s \in {<<Guarded("a")>>, <<Label("a"), Guarded("a")>>}}
          \cup {<<IfElse(step, <<Emit(<<Num(2)>>), Goto("a")>>, s)>> : s \in {<<Label("a")>>, <<Goto("b")>>}}
Items == Simple \cup {<<Label("b")>>}
Bodies == {s \o r \o q : s \in Items, r \in Nested, q \in Items}
          \cup {s \o r \o q \o p : s \in Simple, r \in Simple, q \in Simple, p \in Simple}

Whole(stats) ==
  Block(<<Local(<<fs, N("n"), z>>, <<TableOf(<<>>), Num(0), Num(50)>>),
          Node("LOCALFUNCTION", "step", 0,
               <<Fun(<<>>, <<Assign(<<N("n")>>, <<Bin(N("n"), "+", Num(1))>>), Return(<<Bin(N("n"), "<=", Num(2))>>)>>)>>),
          Do(stats),
          For("i", <<Num(1), Un("#", fs)>>,
              <<Emit(<<CallOf(At_(fs, N("i")), <<>>), CallOf(At_(fs, N("i")), <<>>)>>)>>)>>)
Programs == {Whole(stats) : stats \in Bodies}

-----------------------------------------------------------------------------
(* Which programs are legal, by the manual, sections 3.3.4 and 3.5. *)

LabelsOf(b, l) == {j \in DOMAIN b.a : b.a[j].k = "LABEL" /\ b.a[j].s = l}
\* The labels of the gotos in e whose label is not in e.
RECURSIVE Leaving(_)
Leaving(e) ==
  LET inner == UNION {Leaving(e.a[j]) : j \in DOMAIN e.a} IN
  CASE e.k = "GOTO" -> {e.s}
    [] e.k = "FUNCTION" -> {}
    [] e.k = "BLOCK" -> {l \in inner : LabelsOf(e, l) = {}}
    [] OTHER -> inner

\* No goto at i to a label at j enters the scope of a local variable, which
\* lasts until the last statement that is not void, and in a repeat until its
\* condition.
Enters(b, i, j, until) ==
  /\ \E k \in i + 1 .. j - 1 : b.a[k].k \in {"LOCAL", "LOCALFUNCTION"}
  /\ until \/ \E k \in j + 1 .. Len(b.a) : b.a[k].k # "LABEL"

RECURSIVE Legal(_, _)
Legal(e, until) ==
  /\ e.k = "BLOCK" =>
       /\ \A i, j \in DOMAIN e.a : e.a[i].k = "LABEL" /\ e.a[i] = e.a[j] => i = j
       /\ \A i \in DOMAIN e.a : \A l \in Leaving(e.a[i]) : \A j \in LabelsOf(e, l) : ~Enters(e, i, j, until)
  /\ e.k = "FUNCTION" => Leaving(Last(e.a)) = {}
  /\ \A j \in DOMAIN e.a : Legal(e.a[j], e.k = "REPEAT")

-----------------------------------------------------------------------------
\* A goto that starts the then part, to a label behind it in the same block.
GotoNext ==
  {Block(<<Local(<<x>>, <<Num(1)>>), If(x, <<Goto("l"), Label("l"), Emit(<<Num(1)>>)>>), Emit(<<Num(2)>>)>>)}

=============================================================================
