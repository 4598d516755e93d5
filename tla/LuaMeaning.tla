----------------------------- MODULE LuaMeaning -----------------------------
(***************************************************************************)
(* What a Lua program means, by the reference manual, without registers,   *)
(* jumps or a stack: an evaluation of its syntax tree.  The compiler and   *)
(* the virtual machine are checked against it.                             *)
(*                                                                         *)
(* A node of a tree has a kind k, a name s, a number v and children a.     *)
(* A variable is a cell that a function captures with its environment, a   *)
(* sequence of <<name, cell>>; st holds cells, tables, functions and the   *)
(* values emitted.  An evaluation returns a record with the new st, its    *)
(* values and a signal: "" when it ends normally, or what it leaves by.    *)
(***************************************************************************)
EXTENDS LuaValue, FiniteSets, SequencesExt

Node(k, s, v, a) == [k |-> k, s |-> s, v |-> v, a |-> a]
Of(k, a) == Node(k, "", 0, a)

\* Short names, to write programs with.
NIL == Node("NIL", "nil", 0, <<>>)
FALSE_ == Node("FALSE", "false", 0, <<>>)
DOTS == Node("DOTS", "...", 0, <<>>)
BREAK == Node("BREAK", "break", 0, <<>>)
N(s) == Node("NAME", s, 0, <<>>)
Num(n) == Node("INT", "", n, <<>>)
Quoted(s) == Node("STRING", s, 0, <<>>)
Un(op, e) == Node("UN", op, 0, <<e>>)
Bin(e, op, f) == Node("BIN", op, 0, <<e, f>>)
CallOf(f, args) == Of("CALL", <<f>> \o args)
Method(e, s, args) == Node("CALL", s, 0, <<e>> \o args)
At_(t, key) == Of("INDEX", <<t, key>>)
Dot(t, s) == Node("INDEX", ".", 0, <<t, Quoted(s)>>)
Block(stats) == Of("BLOCK", stats)
ListOf(es) == Of("LIST", es)
Fun(names, stats) == Of("FUNCTION", names \o <<Block(stats)>>)
TableOf(fs) == Of("TABLE", fs)
Field(key, e) == Of("FIELD", <<key, e>>)
Local(names, es) == Of("LOCAL", <<ListOf(names), ListOf(es)>>)
Assign(ts, es) == Of("ASSIGN", <<ListOf(ts), ListOf(es)>>)
Do(stats) == Of("DO", <<Block(stats)>>)
While(c, stats) == Of("WHILE", <<c, Block(stats)>>)
Repeat(stats, c) == Of("REPEAT", <<Block(stats), c>>)
If(c, then) == Of("IF", <<c, Block(then)>>)
IfElse(c, then, else) == Of("IF", <<c, Block(then), Block(else)>>)
For(s, es, stats) == Node("FORNUM", s, 0, es \o <<Block(stats)>>)
ForIn(names, es, stats) == Of("FORIN", <<ListOf(names), ListOf(es), Block(stats)>>)
Stat(e) == Of("CALLSTAT", <<e>>)
Emit(es) == Stat(CallOf(N("emit"), es))
Return(es) == Of("RETURN", es)
Goto(s) == Node("GOTO", s, 0, <<>>)
Label(s) == Node("LABEL", s, 0, <<>>)

-----------------------------------------------------------------------------
(* The tokens of a tree, with parentheses where precedence needs them.     *)

Tk(t) == [t |-> t, s |-> "", v |-> 0]
NameToken(s) == [t |-> "NAME", s |-> s, v |-> 0]

\* Levels of precedence, from the manual, section 3.4.8.
precedence(op) ==
  CASE op = "or" -> 1 [] op = "and" -> 2 [] op \in {"<", ">", "<=", ">=", "~=", "=="} -> 3
    [] op = ".." -> 9 [] op \in {"+", "-"} -> 10 [] op \in {"*", "//", "%"} -> 11
level(e) == CASE e.k = "BIN" -> precedence(e.s) [] e.k = "UN" -> 12 [] OTHER -> 13

Separated(parts, sep) == FoldLeft(LAMBDA x, y : IF x = <<>> THEN y ELSE x \o sep \o y, <<>>, parts)
Joined(parts) == FoldLeft(LAMBDA x, y : x \o y, <<>>, parts)

RECURSIVE tokens(_)
list(nodes) == Separated([i \in DOMAIN nodes |-> tokens(nodes[i])], <<Tk(",")>>)
Below(e, least) == IF level(e) >= least THEN tokens(e) ELSE <<Tk("(")>> \o tokens(e) \o <<Tk(")")>>
funbody(e) == <<Tk("(")>> \o list(Front(e.a)) \o <<Tk(")")>> \o tokens(Last(e.a)) \o <<Tk("end")>>

tokens(e) ==
  LET x(i) == tokens(e.a[i])
      p == precedence(e.s)
      right == IF e.s = ".." THEN 1 ELSE 0
  IN CASE e.k \in {"NIL", "TRUE", "FALSE", "DOTS", "BREAK"} -> <<Tk(e.s)>>
       [] e.k = "INT" -> <<[t |-> "INT", s |-> "", v |-> e.v]>>
       [] e.k = "STRING" -> <<[t |-> "STRING", s |-> e.s, v |-> 0]>>
       [] e.k = "NAME" -> <<NameToken(e.s)>>
       [] e.k = "PAREN" -> <<Tk("(")>> \o x(1) \o <<Tk(")")>>
       [] e.k = "UN" -> <<Tk(e.s)>> \o Below(e.a[1], 12)
       [] e.k = "BIN" -> Below(e.a[1], p + right) \o <<Tk(e.s)>> \o Below(e.a[2], p + 1 - right)
       [] e.k = "INDEX" /\ e.s = "." -> x(1) \o <<Tk("."), NameToken(e.a[2].s)>>
       [] e.k = "INDEX" /\ e.s # "." -> x(1) \o <<Tk("[")>> \o x(2) \o <<Tk("]")>>
       [] e.k = "CALL" /\ e.s = "" -> x(1) \o <<Tk("(")>> \o list(Tail(e.a)) \o <<Tk(")")>>
       [] e.k = "CALL" /\ e.s # "" ->
            x(1) \o <<Tk(":"), NameToken(e.s), Tk("(")>> \o list(Tail(e.a)) \o <<Tk(")")>>
       [] e.k = "TABLE" -> <<Tk("{")>> \o list(e.a) \o <<Tk("}")>>
       [] e.k = "FIELD" -> <<Tk("[")>> \o x(1) \o <<Tk("]"), Tk("=")>> \o x(2)
       [] e.k = "FUNCTION" -> <<Tk("function")>> \o funbody(e)
       [] e.k = "LIST" -> list(e.a)
       [] e.k = "BLOCK" -> Joined([i \in DOMAIN e.a |-> x(i)])
       [] e.k = "LOCAL" -> <<Tk("local")>> \o x(1) \o (IF e.a[2].a = <<>> THEN <<>> ELSE <<Tk("=")>> \o x(2))
       [] e.k = "ASSIGN" -> x(1) \o <<Tk("=")>> \o x(2)
       [] e.k = "CALLSTAT" -> x(1)
       [] e.k = "DO" -> <<Tk("do")>> \o x(1) \o <<Tk("end")>>
       [] e.k = "WHILE" -> <<Tk("while")>> \o x(1) \o <<Tk("do")>> \o x(2) \o <<Tk("end")>>
       [] e.k = "REPEAT" -> <<Tk("repeat")>> \o x(1) \o <<Tk("until")>> \o x(2)
       [] e.k = "IF" -> <<Tk("if")>> \o x(1) \o <<Tk("then")>> \o x(2) \o
            (CASE Len(e.a) = 2 -> <<Tk("end")>>
               [] Len(e.a) = 3 -> <<Tk("else")>> \o x(3) \o <<Tk("end")>>
               [] Len(e.a) > 3 -> <<Tk("elseif")>> \o Tail(tokens(Of("IF", SubSeq(e.a, 3, Len(e.a))))))
       [] e.k = "FORNUM" -> <<Tk("for"), NameToken(e.s), Tk("=")>> \o list(Front(e.a)) \o <<Tk("do")>> \o
                            tokens(Last(e.a)) \o <<Tk("end")>>
       [] e.k = "FORIN" -> <<Tk("for")>> \o x(1) \o <<Tk("in")>> \o x(2) \o <<Tk("do")>> \o x(3) \o <<Tk("end")>>
       [] e.k = "LOCALFUNCTION" -> <<Tk("local"), Tk("function"), NameToken(e.s)>> \o funbody(e.a[1])
       [] e.k = "METHOD" ->
            <<Tk("function")>> \o x(1) \o <<Tk(":"), NameToken(e.s)>> \o funbody(e.a[2])
       [] e.k = "RETURN" -> <<Tk("return")>> \o list(e.a)
       [] e.k = "GOTO" -> <<Tk("goto"), NameToken(e.s)>>
       [] e.k = "LABEL" -> <<Tk("::"), NameToken(e.s), Tk("::")>>

Tokens(program) == tokens(program) \o <<Tk("EOS")>>

-----------------------------------------------------------------------------
(* Evaluation. *)

Result(st, sig, vals) == [st |-> st, sig |-> sig, vals |-> vals, name |-> "", env |-> <<>>]
Values(st, vals) == Result(st, "", vals)
Error(st, v) == Result(st, "error", <<v>>)
Failure == Str(<<"error">>)
Then(r, Op(_)) == IF r.sig = "" THEN Op(r) ELSE r
First(vals) == IF vals = <<>> THEN Nil ELSE vals[1]
Adjusted(vals, n) == [i \in 1 .. n |-> IF i <= Len(vals) THEN vals[i] ELSE Nil]

Cell(env, s) ==
  LET found == {i \in DOMAIN env : env[i][1] = s}
  IN IF found = {} THEN 0 ELSE env[CHOOSE i \in found : \A j \in found : j <= i][2]
\* New variables with these values.
Bind(env, names, st) ==
  env \o [i \in DOMAIN names |-> <<names[i].s, Len(st.cells) - Len(names) + i>>]
NewCells(st, vals) == [st EXCEPT !.cells = @ \o vals]

Raw(st, t, key) == LET h == st.tables[t].h IN IF key \in DOMAIN h THEN h[key] ELSE Nil
Store(st, t, key, v) ==
  [st EXCEPT !.tables[t].h = [x \in DOMAIN @ \cup {key} |-> IF x = key THEN v ELSE @[x]]]
Meta(st, v, event) ==
  IF v.t = "table" /\ st.tables[v.v].metatable # 0 THEN Raw(st, st.tables[v.v].metatable, Str(<<event>>))
  ELSE Nil
Either(st, v, w, event) == IF Meta(st, v, event) # Nil THEN Meta(st, v, event) ELSE Meta(st, w, event)
Border(st, t) ==
  CHOOSE n \in 0 .. Cardinality(DOMAIN st.tables[t].h) :
    (\A i \in 1 .. n : Raw(st, t, Integer(i)) # Nil) /\ Raw(st, t, Integer(n + 1)) = Nil
text(v) == IF v.t = "int" THEN <<ToString(v.v)>> ELSE v.s
eventof(op) == CASE op = "+" -> "ADD" [] op = "-" -> "SUB" [] op = "*" -> "MUL" [] op = "//" -> "IDIV"
                 [] op = "%" -> "MOD"
metaof(op) == CASE op = "+" -> "__add" [] op = "-" -> "__sub" [] op = "*" -> "__mul" [] op = "//" -> "__idiv"
                [] op = "%" -> "__mod" [] op = ".." -> "__concat" [] op = "<" -> "__lt" [] op = "<=" -> "__le"

RECURSIVE apply(_, _, _), evaluate(_, _, _, _), explist(_, _, _, _), block(_, _, _, _), stat(_, _, _, _),
          index(_, _, _), setindex(_, _, _, _), items(_, _, _, _, _, _), assign(_, _, _), targets(_, _, _, _),
          whileloop(_, _, _, _), fornum(_, _, _, _, _), forin(_, _, _, _), run(_, _, _, _, _)

one(r) == Then(r, LAMBDA q : Values(q.st, <<First(q.vals)>>))
truth(r) == Then(r, LAMBDA q : Values(q.st, <<Bool(~l_isfalse(First(q.vals)))>>))
negated(r) == Then(r, LAMBDA q : Values(q.st, <<Bool(l_isfalse(First(q.vals)))>>))
single(e, env, va, st) == one(evaluate(e, env, va, st))

\* The code of a C function that cannot be continued may not yield: nny counts
\* the calls of such functions.
NotYielding(st, n) == [st EXCEPT !.nny = @ + n]
Yielding(r, nny) == [r EXCEPT !.st.nny = nny]

\* A call of value f.
apply(st, f, args) ==
  LET fn == st.funcs[f.v]
      params == SelectSeq(Front(fn.node.a), LAMBDA x : x.k = "NAME")
      n == Len(params)
      st1 == NewCells(st, Adjusted(args, n))
      r == block(Last(fn.node.a), Bind(fn.env, params, st1), SubSeq(args, n + 1, Len(args)), st1)
      protected == apply(st, args[1], Tail(args))
      name == f.s[1]
      recorded == [st EXCEPT !.out = Append(@, args)]
  IN CASE f.t = "function" -> IF r.sig = "return" THEN Values(r.st, r.vals)
                              ELSE IF r.sig = "" THEN Values(r.st, <<>>) ELSE r
       [] f.t = "cfunction" ->
           (CASE name = "emit" -> Values(recorded, args)
              [] name = "yield" -> IF st.nny > 0 THEN Error(st, Failure) ELSE Values(recorded, <<Integer(7)>>)
              [] name = "error" -> Error(st, First(args))
              [] name = "call" -> Yielding(apply(NotYielding(st, 1), args[1], Tail(args)), st.nny)
              [] name = "setmetatable" -> Values([st EXCEPT !.tables[args[1].v].metatable = args[2].v], <<args[1]>>)
              [] name = "pcall" -> IF args = <<>> THEN Error(st, Failure)
                                   ELSE IF protected.sig = "error"
                                   THEN Values(Yielding(protected, st.nny).st, <<Bool(FALSE)>> \o protected.vals)
                                   ELSE Values(protected.st, <<Bool(TRUE)>> \o protected.vals))
       [] OTHER -> IF Meta(st, f, "__call").t \in {"function", "cfunction"}
                   THEN apply(st, Meta(st, f, "__call"), <<f>> \o args) ELSE Error(st, Failure)

callable(h) == h.t \in {"function", "cfunction"}

index(st, t, key) ==
  LET h == Meta(st, t, "__index") IN
  IF t.t # "table" THEN Error(st, Failure)
  ELSE IF Raw(st, t.v, key) # Nil \/ h = Nil THEN Values(st, <<Raw(st, t.v, key)>>)
  ELSE IF callable(h) THEN one(apply(st, h, <<t, key>>)) ELSE index(st, h, key)

setindex(st, t, key, v) ==
  LET h == Meta(st, t, "__newindex") IN
  IF t.t # "table" THEN Error(st, Failure)
  ELSE IF Raw(st, t.v, key) # Nil \/ h = Nil
  THEN IF key = Nil THEN Error(st, Failure) ELSE Values(Store(st, t.v, key, v), <<>>)
  ELSE IF callable(h) THEN apply(st, h, <<t, key, v>>) ELSE setindex(st, h, key, v)

\* The metamethod of a binary operation, or an error.
meta2(st, v, w, event) ==
  IF Either(st, v, w, event) = Nil THEN Error(st, Failure) ELSE one(apply(st, Either(st, v, w, event), <<v, w>>))

less(st, v, w) ==
  IF v.t = "int" /\ w.t = "int" THEN Values(st, <<Bool(v.v < w.v)>>) ELSE truth(meta2(st, v, w, "__lt"))
lesseq(st, v, w) ==
  IF v.t = "int" /\ w.t = "int" THEN Values(st, <<Bool(v.v <= w.v)>>)
  ELSE IF Either(st, v, w, "__le") # Nil THEN truth(meta2(st, v, w, "__le"))
  ELSE negated(meta2(st, w, v, "__lt"))
equal(st, v, w) ==
  IF v = w \/ v.t # "table" \/ w.t # "table" \/ Either(st, v, w, "__eq") = Nil THEN Values(st, <<Bool(v = w)>>)
  ELSE truth(meta2(st, v, w, "__eq"))

binary_(st, op, v, w) ==
  LET m == Arithmetic IN
  CASE op \in {"+", "-", "*", "//", "%"} ->
         IF v.t = "int" /\ w.t = "int"
         THEN IF validop(eventof(op), w.v) THEN Values(st, <<Integer(intarith(eventof(op), v.v, w.v))>>)
              ELSE Error(st, Failure)
         ELSE meta2(st, v, w, metaof(op))
    [] op = ".." -> IF {v.t, w.t} \subseteq {"int", "str"} THEN Values(st, <<Str(text(v) \o text(w))>>)
                    ELSE meta2(st, v, w, "__concat")
    [] op = "==" -> equal(st, v, w)
    [] op = "~=" -> negated(equal(st, v, w))
    [] op = "<" -> less(st, v, w)
    [] op = ">" -> less(st, w, v)
    [] op = "<=" -> lesseq(st, v, w)
    [] op = ">=" -> lesseq(st, w, v)

unary(st, op, v) ==
  CASE op = "not" -> Values(st, <<Bool(l_isfalse(v))>>)
    [] op = "-" -> IF v.t = "int" THEN Values(st, <<Integer(-v.v)>>) ELSE meta2(st, v, v, "__unm")
    [] op = "#" -> IF Meta(st, v, "__len") # Nil THEN one(apply(st, Meta(st, v, "__len"), <<v>>))
                   ELSE IF v.t = "table" THEN Values(st, <<Integer(Border(st, v.v))>>) ELSE Error(st, Failure)

\* All values of the last expression, one of each other.
explist(es, env, va, st) ==
  IF es = <<>> THEN Values(st, <<>>)
  ELSE IF Len(es) = 1 THEN evaluate(es[1], env, va, st)
  ELSE Then(single(es[1], env, va, st), LAMBDA q :
         Then(explist(Tail(es), env, va, q.st), LAMBDA r : Values(r.st, q.vals \o r.vals)))

\* Fields from the i-th on; n list items are stored.
items(fields, i, n, t, env, st) ==
  LET f == fields[i]
      va == env.va
      last == i = Len(fields)
      all(r) == FoldLeft(LAMBDA s, j : Store(s, t, Integer(n + j), r.vals[j]), r.st,
                         [j \in 1 .. Len(r.vals) |-> j])
  IN IF i > Len(fields) THEN Values(st, <<Table(t)>>)
     ELSE IF f.k = "FIELD"
     THEN Then(single(f.a[1], env.env, va, st), LAMBDA k :
            Then(single(f.a[2], env.env, va, k.st), LAMBDA v :
              IF k.vals[1] = Nil THEN Error(v.st, Failure)
              ELSE items(fields, i + 1, n, t, env, Store(v.st, t, k.vals[1], v.vals[1]))))
     ELSE IF last THEN Then(evaluate(f, env.env, va, st), LAMBDA r : Values(all(r), <<Table(t)>>))
     ELSE Then(single(f, env.env, va, st), LAMBDA r :
            items(fields, i + 1, n + 1, t, env, Store(r.st, t, Integer(n + 1), r.vals[1])))

Closure(node, env, st) ==
  Values([st EXCEPT !.funcs = Append(@, [node |-> node, env |-> env])], <<Function(Len(st.funcs) + 1)>>)

global(env, st, s) == index(st, st.cells[Cell(env, "_ENV")], Str(<<s>>))

evaluate(e, env, va, st) ==
  LET x(i) == single(e.a[i], env, va, st)
      second(q) == single(e.a[2], env, va, q.st)
  IN CASE e.k = "NIL" -> Values(st, <<Nil>>)
       [] e.k \in {"TRUE", "FALSE"} -> Values(st, <<Bool(e.k = "TRUE")>>)
       [] e.k = "INT" -> Values(st, <<Integer(e.v)>>)
       [] e.k = "STRING" -> Values(st, <<Str(<<e.s>>)>>)
       [] e.k = "NAME" -> IF Cell(env, e.s) = 0 THEN global(env, st, e.s)
                          ELSE Values(st, <<st.cells[Cell(env, e.s)]>>)
       [] e.k = "DOTS" -> Values(st, va)
       [] e.k = "PAREN" -> x(1)
       [] e.k = "FUNCTION" -> Closure(e, env, st)
       [] e.k = "UN" -> Then(x(1), LAMBDA q : unary(q.st, e.s, q.vals[1]))
       [] e.k = "BIN" /\ e.s = "and" ->
            Then(x(1), LAMBDA q : IF l_isfalse(q.vals[1]) THEN q ELSE second(q))
       [] e.k = "BIN" /\ e.s = "or" ->
            Then(x(1), LAMBDA q : IF l_isfalse(q.vals[1]) THEN second(q) ELSE q)
       [] e.k = "BIN" /\ e.s \notin {"and", "or"} ->
            Then(x(1), LAMBDA q : Then(second(q), LAMBDA r : binary_(r.st, e.s, q.vals[1], r.vals[1])))
       [] e.k = "INDEX" ->
            Then(x(1), LAMBDA q : Then(second(q), LAMBDA r : index(r.st, q.vals[1], r.vals[1])))
       [] e.k = "CALL" /\ e.s = "" ->
            Then(x(1), LAMBDA q : Then(explist(Tail(e.a), env, va, q.st), LAMBDA r :
              apply(r.st, q.vals[1], r.vals)))
       [] e.k = "CALL" /\ e.s # "" ->
            Then(x(1), LAMBDA q : Then(index(q.st, q.vals[1], Str(<<e.s>>)), LAMBDA f :
              Then(explist(Tail(e.a), env, va, f.st), LAMBDA r : apply(r.st, f.vals[1], q.vals \o r.vals))))
       [] e.k = "TABLE" ->
            items(e.a, 1, 0, Len(st.tables) + 1, [env |-> env, va |-> va],
                  [st EXCEPT !.tables = Append(@, [h |-> <<>>, metatable |-> 0])])

-----------------------------------------------------------------------------
(* Statements; the environment behind a statement is in the result's env. *)

Normal(st, env) == [Values(st, <<>>) EXCEPT !.env = env]
Leave(st, sig, vals, name) == [Result(st, sig, vals) EXCEPT !.name = name]

\* The statements from the i-th on; envs are the environments before the first
\* i.  A goto to a label of the block goes on there.
run(stats, envs, va, st, i) ==
  LET env == Last(envs)
      r == stat(stats[i], env, va, st)
      labels == {j \in DOMAIN stats : stats[j].k = "LABEL" /\ stats[j].s = r.name}
      j == CHOOSE l \in labels : TRUE
      passed == IF j <= i THEN SubSeq(envs, 1, j) ELSE envs \o [l \in 1 .. j - i |-> env]
  IN IF i > Len(stats) THEN Normal(st, env)
     ELSE IF r.sig = "goto" /\ labels # {} THEN run(stats, passed, va, r.st, j)
     ELSE IF r.sig # "" THEN r
     ELSE run(stats, Append(envs, r.env), va, r.st, i + 1)

block(b, env, va, st) == run(b.a, <<env>>, va, st, 1)
Inner(r, env) == IF r.sig = "" THEN Normal(r.st, env) ELSE r
Broken(r, env) == IF r.sig = "break" THEN Normal(r.st, env) ELSE r

whileloop(e, env, va, st) ==
  Then(single(e.a[1], env, va, st), LAMBDA q :
    IF l_isfalse(q.vals[1]) THEN Normal(q.st, env)
    ELSE Then(block(e.a[2], env, va, q.st), LAMBDA r : whileloop(e, env, va, r.st)))

RECURSIVE repeatloop(_, _, _, _)
repeatloop(e, env, va, st) ==
  Then(block(e.a[1], env, va, st), LAMBDA q :
    Then(single(e.a[2], q.env, va, q.st), LAMBDA r :
      IF l_isfalse(r.vals[1]) THEN repeatloop(e, env, va, r.st) ELSE Normal(r.st, env)))

\* n is the list of the index, the limit and the step.
fornum(e, env, va, st, n) ==
  LET st1 == NewCells(st, <<Integer(n[1])>>) IN
  IF IF n[3] > 0 THEN n[1] > n[2] ELSE n[1] < n[2] THEN Normal(st, env)
  ELSE Then(block(Last(e.a), Bind(env, <<e>>, st1), va, st1), LAMBDA r :
         fornum(e, env, va, r.st, <<n[1] + n[3], n[2], n[3]>>))

\* env.c holds the iterator, the state and the control variable.
forin(e, env, va, st) ==
  LET c == env.c IN
  Then(apply(st, c[1], <<c[2], c[3]>>), LAMBDA q :
    LET vals == Adjusted(q.vals, Len(e.a[1].a))
        st1 == NewCells(q.st, vals)
    IN IF First(q.vals) = Nil THEN Normal(q.st, env.env)
       ELSE Then(block(e.a[3], Bind(env.env, e.a[1].a, st1), va, st1), LAMBDA r :
              forin(e, [env EXCEPT !.c[3] = First(q.vals)], va, r.st)))

\* The tables and keys of the targets, as pairs of values; of a variable, its cell.
targets(ts, env, va, st) ==
  LET t == ts[1]
      env_ == st.cells[Cell(env, "_ENV")]
      rest(s, pair) == Then(targets(Tail(ts), env, va, s), LAMBDA r : Values(r.st, <<pair>> \o r.vals))
  IN IF ts = <<>> THEN Values(st, <<>>)
     ELSE IF t.k = "NAME"
     THEN rest(st, IF Cell(env, t.s) = 0 THEN <<env_, Str(<<t.s>>)>> ELSE <<Integer(Cell(env, t.s)), Nil>>)
     ELSE Then(single(t.a[1], env, va, st), LAMBDA q :
            Then(single(t.a[2], env, va, q.st), LAMBDA r : rest(r.st, <<q.vals[1], r.vals[1]>>)))

\* Assigns vals to pairs, from the last to the first.
assign(st, pairs, vals) ==
  LET n == Len(pairs)
      p == pairs[n]
  IN IF n = 0 THEN Values(st, <<>>)
     ELSE IF p[1].t = "int" /\ p[2] = Nil
     THEN assign([st EXCEPT !.cells[p[1].v] = vals[n]], Front(pairs), vals)
     ELSE Then(setindex(st, p[1], p[2], vals[n]), LAMBDA r : assign(r.st, Front(pairs), vals))

stat(e, env, va, st) ==
  LET n == Len(e.a)
      exps(x) == explist(x.a, env, va, st)
      self == NewCells(st, <<Nil>>)
      named == Bind(env, <<e>>, self)
      recursive == Closure(e.a[1], named, self)
      ints(vals) == \A i \in 1 .. Len(vals) : vals[i].t = "int"
      method == [e.a[2] EXCEPT !.a = <<Node("NAME", "self", 0, <<>>)>> \o @]
      done(s) == Normal(s, env)
  IN CASE e.k = "LOCAL" ->
            Then(exps(e.a[2]), LAMBDA q :
              LET st1 == NewCells(q.st, Adjusted(q.vals, Len(e.a[1].a))) IN Normal(st1, Bind(env, e.a[1].a, st1)))
       [] e.k = "ASSIGN" ->
            Then(targets(e.a[1].a, env, va, st), LAMBDA t :
              Then(explist(e.a[2].a, env, va, t.st), LAMBDA q :
                Then(assign(q.st, t.vals, Adjusted(q.vals, Len(t.vals))), LAMBDA r : done(r.st))))
       [] e.k = "CALLSTAT" -> Then(evaluate(e.a[1], env, va, st), LAMBDA q : done(q.st))
       [] e.k = "DO" -> Inner(block(e.a[1], env, va, st), env)
       [] e.k = "WHILE" -> Broken(whileloop(e, env, va, st), env)
       [] e.k = "REPEAT" -> Broken(repeatloop(e, env, va, st), env)
       [] e.k = "IF" ->
            Then(single(e.a[1], env, va, st), LAMBDA q :
              IF ~l_isfalse(q.vals[1]) THEN Inner(block(e.a[2], env, va, q.st), env)
              ELSE IF n = 2 THEN done(q.st)
              ELSE IF n = 3 THEN Inner(block(e.a[3], env, va, q.st), env)
              ELSE stat(Of("IF", SubSeq(e.a, 3, n)), env, va, q.st))
       [] e.k = "FORNUM" ->
            Then(explist(Front(e.a), env, va, st), LAMBDA q :
              LET vals == IF Len(q.vals) < 3 THEN q.vals \o <<Integer(1)>> ELSE q.vals IN
              IF ints(vals) THEN Broken(fornum(e, env, va, q.st, [i \in 1 .. 3 |-> vals[i].v]), env)
              ELSE Error(q.st, Failure))
       [] e.k = "FORIN" ->
            Then(exps(e.a[2]), LAMBDA q :
              Broken(forin(e, [env |-> env, c |-> Adjusted(q.vals, 3)], va, q.st), env))
       [] e.k = "LOCALFUNCTION" ->
            Normal([recursive.st EXCEPT !.cells[Cell(named, e.s)] = recursive.vals[1]], named)
       [] e.k = "METHOD" ->
            Then(single(e.a[1], env, va, st), LAMBDA q :
              LET f == Closure(method, env, q.st) IN
              Then(setindex(f.st, q.vals[1], Str(<<e.s>>), f.vals[1]), LAMBDA r : done(r.st)))
       [] e.k = "RETURN" -> Then(explist(e.a, env, va, st), LAMBDA q : Leave(q.st, "return", q.vals, ""))
       [] e.k = "BREAK" -> Leave(st, "break", <<>>, "")
       [] e.k = "GOTO" -> Leave(st, "goto", <<>>, e.s)
       [] e.k = "LABEL" -> done(st)

\* What a program emits, and whether an error ends it.
Meaning(program, cfunctions) ==
  LET env == [x \in {Str(<<name>>) : name \in cfunctions} |-> CFunction(x.s[1])]
      st == [cells |-> <<Table(1)>>, tables |-> <<[h |-> env, metatable |-> 0]>>, funcs |-> <<>>, out |-> <<>>, nny |-> 0]
      r == block(program, << <<"_ENV", 1>> >>, <<>>, st)
  IN [out |-> r.st.out, error |-> r.sig = "error", vals |-> IF r.sig = "error" THEN r.vals ELSE <<>>]

-----------------------------------------------------------------------------
(* Two variables that many programs use. *)

x == N("x")
y == N("y")

=============================================================================
