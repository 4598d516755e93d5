-------------------------------- MODULE LuaVM --------------------------------
(***************************************************************************)
(* The virtual machine of src/lua/src/lvm.c, with the calls, errors and    *)
(* coroutines of ldo.c, the upvalues of lfunc.c and the metamethods of     *)
(* ltm.c, running one compiled program as a coroutine.                     *)
(*                                                                         *)
(* vm is the thread and its heap: one stack for all calls, a CallInfo for  *)
(* each of them in vm.ci, tables, closures and upvalues.  A CallInfo's c   *)
(* is the C code that waits, in the C stack, for what the function called; *)
(* a yield or an error unwinds the C stack and makes it "lost", and the    *)
(* interrupted instruction is later finished by luaV_finishOp.             *)
(*                                                                         *)
(* Left out: the limits of the stacks, hooks, the collector, error texts.  *)
(***************************************************************************)
EXTENDS LuaParser

CONSTANT
  STACKSIZE,   \* slots of the stack, enough for every program run
  MAXTAGLOOP   \* metamethods tried in a chain (2000)

ASSUME VMAssumption == STACKSIZE \in Nat \ {0} /\ MAXTAGLOOP \in Nat \ {0}

VARIABLES
  main,   \* the compiled program
  vm
vars == <<main, vm>>

ErrorMessage == Str(<<"error">>)
CFunctions == {"emit", "pcall", "error", "yield", "setmetatable", "call"}

-----------------------------------------------------------------------------
(* The stack, the current call and its instruction. *)

ci(s) == Last(s.ci)
Set(s, i, v) == [s EXCEPT !.stack[i] = v]
SetTop(s, n) == [s EXCEPT !.top = n]
Push(s, v) == SetTop(Set(s, s.top, v), s.top + 1)
TopValue(s) == s.stack[s.top - 1]
Pop(s) == SetTop(s, s.top - 1)
Waiting(s, k, dest, n) == [s EXCEPT !.ci[Len(s.ci)].c = [k |-> k, dest |-> dest, n |-> n]]

closure(s) == s.closures[s.stack[ci(s).func].v]
RECURSIVE nested(_, _)
nested(p, path) == IF path = <<>> THEN p ELSE nested(p.p[Head(path) + 1], Tail(path))
proto(path) == nested(main, path)
P(s) == proto(closure(s).path)

\* The instruction being executed, before savedpc.
Inst(s) == P(s).code[ci(s).pc]
Skip(s, n) == [s EXCEPT !.ci[Len(s.ci)].pc = @ + n]
Reg(s, r) == s.stack[ci(s).base + r]
Arg(s, x) == IF ISK(x) THEN P(s).k[x - BITRK + 1] ELSE Reg(s, x)
SetRA(s, v) == Set(s, ci(s).base + Inst(s).a, v)

\* Upvalues: open ones live in the stack.
Upvalue(s, u) == IF s.upvals[u].open THEN s.stack[s.upvals[u].level] ELSE s.upvals[u].value
SetUpvalue(s, u, v) ==
  IF s.upvals[u].open THEN Set(s, s.upvals[u].level, v) ELSE [s EXCEPT !.upvals[u].value = v]

luaF_close(s, level) ==
  [s EXCEPT !.upvals = [u \in DOMAIN @ |->
     IF @[u].open /\ @[u].level >= level
     THEN [open |-> FALSE, level |-> 0, value |-> s.stack[@[u].level]] ELSE @[u]]]

openat(s, level) == {u \in DOMAIN s.upvals : s.upvals[u].open /\ s.upvals[u].level = level}
luaF_findupval(s, level) ==
  IF openat(s, level) # {} THEN s
  ELSE [s EXCEPT !.upvals = Append(@, [open |-> TRUE, level |-> level, value |-> Nil])]

dojump(s, i, e) ==
  Skip(IF i.a > 0 THEN luaF_close(s, ci(s).base + i.a - 1) ELSE s, i.b + e)
donextjump(s) == dojump(s, P(s).code[ci(s).pc + 1], 1)

\* Of a comparison.
condjump_(s, res) == IF res # (Inst(s).a = 1) THEN Skip(s, 1) ELSE donextjump(s)

-----------------------------------------------------------------------------
(* Tables and metatables. *)

luaH_get(s, t, key) ==
  LET h == s.tables[t].h IN IF key \in DOMAIN h THEN h[key] ELSE Nil

Event(name) == Str(<<name>>)

\* luaT_gettmbyobj: only tables have a metatable here.
metatable(s, o) == IF o.t = "table" THEN s.tables[o.v].metatable ELSE 0
luaT_gettmbyobj(s, o, event) ==
  IF metatable(s, o) = 0 THEN Nil ELSE luaH_get(s, metatable(s, o), Event(event))

\* fasttm: an event known to be absent is not looked up; an absence is noted.
fasttm(s, o, event) ==
  IF metatable(s, o) = 0 \/ event \in s.tables[metatable(s, o)].flags THEN Nil
  ELSE luaT_gettmbyobj(s, o, event)
noted(s, o, event) ==
  IF metatable(s, o) # 0 /\ luaT_gettmbyobj(s, o, event) = Nil
  THEN [s EXCEPT !.tables[metatable(s, o)].flags = @ \cup {event}] ELSE s

\* Mutant of SetField: the absences noted stay.
SetField_flags(s, t, key, v) ==
  [s EXCEPT !.tables[t].h = [x \in DOMAIN @ \cup {key} |-> IF x = key THEN v ELSE @[x]]]

\* The assignment of luaV_settable.
SetField(s, t, key, v) ==
  [s EXCEPT !.tables[t].h = [x \in DOMAIN @ \cup {key} |-> IF x = key THEN v ELSE @[x]],
            !.tables[t].flags = {}]

luaH_getn(s, t) ==
  CHOOSE n \in 0 .. Cardinality(DOMAIN s.tables[t].h) :
    /\ \A i \in 1 .. n : luaH_get(s, t, Integer(i)) # Nil
    /\ luaH_get(s, t, Integer(n + 1)) = Nil

rawequal(v, w) == v = w
tostring(v) == IF v.t = "int" THEN <<ToString(v.v)>> ELSE v.s

-----------------------------------------------------------------------------
(* Calls.  Each operator returns the state when the next instruction is    *)
(* due, with all the C code before it done.                                *)

RECURSIVE luaD_precall(_, _, _, _), Returned(_), Throw(_, _), luaV_concat(_, _),
          luaV_gettable(_, _, _, _, _), luaV_settable(_, _, _, _, _)

NewCall(func, base, top, nresults, isLua, reentry) ==
  [func |-> func, base |-> base, top |-> top, nresults |-> nresults, pc |-> 0, isLua |-> isLua,
   reentry |-> reentry, ypcall |-> FALSE, extra |-> 0, nny |-> 0, c |-> [k |-> "", dest |-> 0, n |-> 0]]

\* Copies n slots; the ranges may overlap, to lower addresses only.
Copy(s, from, to, n) ==
  [s EXCEPT !.stack = [i \in DOMAIN @ |-> IF i \in to .. to + n - 1 THEN @[i - to + from] ELSE @[i]]]
Nils(s, from, to) == [s EXCEPT !.stack = [i \in DOMAIN @ |-> IF i \in from .. to - 1 THEN Nil ELSE @[i]]]

\* The results from firstResult to the top go to the place of the function.
luaD_poscall(s, firstResult) ==
  LET f == ci(s)
      n == s.top - firstResult
      wanted == IF f.nresults = MULTRET THEN n ELSE f.nresults
      copied == IF n < wanted THEN n ELSE wanted
      moved == Copy(s, firstResult, f.func, copied)
  IN [Nils(moved, f.func + copied, f.func + wanted) EXCEPT !.ci = Front(@), !.top = f.func + wanted]

\* A C function ends with n results on the top.
CReturns(s, n) == Returned(luaD_poscall(s, s.top - n))

adjust_varargs(s, p, actual) ==
  LET fixed == s.top - actual
      moved == Copy(s, fixed, s.top, p.numparams)
  IN SetTop(Nils(moved, fixed, fixed + p.numparams), s.top + p.numparams)

precallLua(s, func, nresults, reentry) ==
  LET p == proto(s.closures[s.stack[func].v].path)
      given == s.top - func - 1
      n == IF given < p.numparams THEN p.numparams ELSE given
      full == SetTop(Nils(s, s.top, func + 1 + n), func + 1 + n)
      base == IF p.is_vararg THEN full.top ELSE func + 1
      placed == IF p.is_vararg THEN adjust_varargs(full, p, n) ELSE full
  IN [placed EXCEPT !.top = base + p.maxstacksize,
        !.ci = Append(@, NewCall(func, base, base + p.maxstacksize, nresults, TRUE, reentry))]

\* luaD_call of a function without yields, from C code
callnoyield(s, func, nresults) == luaD_precall([s EXCEPT !.nny = @ + 1], func, nresults, FALSE)

\* luaB_pcall and lua_pcallk: conventional where a yield is not allowed
luaB_pcall(s) ==
  LET func == ci(s).func + 1
      moved == Set(SetTop([s EXCEPT !.stack = [i \in DOMAIN @ |-> IF i \in func + 1 .. s.top THEN @[i - 1] ELSE @[i]]],
                          s.top + 1), func, Bool(TRUE))
      protected == [Waiting(moved, "pcall", 0, 0) EXCEPT !.ci[Len(s.ci)].ypcall = s.nny = 0,
                      !.ci[Len(s.ci)].extra = func + 1, !.ci[Len(s.ci)].nny = s.nny]
  IN IF s.top = func THEN Throw(s, ErrorMessage)
     ELSE IF s.nny = 0 THEN luaD_precall(protected, func + 1, MULTRET, FALSE)
     ELSE callnoyield(protected, func + 1, MULTRET)

\* lua_yieldk: the C stack is unwound to lua_resume.
lua_yieldk(s) ==
  IF s.nny > 0 THEN Throw(s, ErrorMessage)
  ELSE [s EXCEPT !.status = "yield",
                 !.ci = [i \in DOMAIN @ |-> [@[i] EXCEPT !.c.k = "lost"]]]

\* The C functions that programs call: emit, which records its arguments and
\* returns them; call, which calls a function by lua_call; and four of the
\* libraries.
callC(s) ==
  LET func == ci(s).func
      args == [i \in 1 .. s.top - func - 1 |-> s.stack[func + i]]
      name == s.stack[func].s[1]
  IN CASE name = "emit" -> CReturns([s EXCEPT !.out = Append(@, args)], Len(args))
       [] name = "error" -> Throw(s, IF args = <<>> THEN Nil ELSE args[1])
       [] name = "setmetatable" ->
            CReturns(Pop([s EXCEPT !.tables[args[1].v].metatable = args[2].v]), 1)
       [] name = "pcall" -> luaB_pcall(s)
       [] name = "call" -> callnoyield(Waiting(s, "call", 0, 0), func + 1, MULTRET)
       [] name = "yield" -> lua_yieldk(s)

luaD_precall(s, func, nresults, reentry) ==
  LET v == s.stack[func]
      tm == luaT_gettmbyobj(s, v, "__call")
      above == SetTop([s EXCEPT !.stack = [i \in DOMAIN @ |-> IF i \in func + 1 .. s.top THEN @[i - 1] ELSE @[i]]],
                      s.top + 1)
  IN CASE v.t = "function" -> precallLua(s, func, nresults, reentry)
       [] v.t = "cfunction" ->
            callC([s EXCEPT !.ci = Append(@, NewCall(func, func + 1, s.top, nresults, FALSE, FALSE))])
       [] OTHER -> IF tm.t \in {"function", "cfunction"}
                   THEN luaD_precall(Set(above, func, tm), func, nresults, reentry)
                   ELSE Throw(s, ErrorMessage)

\* luaT_callTM; the waiting code takes the result.
luaT_callTM(s, f, args, nresults) ==
  luaD_precall([s EXCEPT !.top = @ + 1 + Len(args),
                  !.stack = [i \in DOMAIN @ |->
                    CASE i = s.top -> f
                      [] i \in s.top + 1 .. s.top + Len(args) -> args[i - s.top]
                      [] OTHER -> @[i]]], s.top, nresults, FALSE)

\* luaT_trybinTM and the calls of binary events like it
binTM(s, p1, p2, event) ==
  LET tm == luaT_gettmbyobj(s, p1, event)
  IN IF tm # Nil THEN tm ELSE luaT_gettmbyobj(s, p2, event)
luaT_trybinTM(s, p1, p2, event) ==
  LET tm == binTM(s, p1, p2, event)
  IN IF tm = Nil THEN Throw(s, ErrorMessage) ELSE luaT_callTM(s, tm, <<p1, p2>>, 1)

-----------------------------------------------------------------------------
(* Errors and returns to C code. *)

luaD_throw_target(s) ==
  LET conventional == {i \in DOMAIN s.ci : s.ci[i].c.k = "pcall" /\ ~s.ci[i].ypcall}
      recoverable == {i \in DOMAIN s.ci : s.ci[i].ypcall}
  IN IF conventional # {} THEN LastOf(conventional)
     ELSE IF recoverable # {} THEN LastOf(recoverable) ELSE 0

\* Mutant of Throw: recover leaves the upvalues open.
Throw_open(s, v) ==
  LET j == luaD_throw_target(s)
      f == s.ci[j]
      at == Push(Push(SetTop(s, f.extra), Bool(FALSE)), v)
      lost(i) == IF f.ypcall THEN [s.ci[i] EXCEPT !.c.k = "lost"] ELSE s.ci[i]
  IN IF j = 0 THEN [Push(s, v) EXCEPT !.status = "error"]
     ELSE CReturns([at EXCEPT !.ci = [i \in 1 .. j |-> [lost(i) EXCEPT !.ypcall = @ /\ i # j]],
                              !.nny = f.nny], 2)

\* An error ends the innermost conventional pcall (luaD_pcall), or else, after
\* the C stack is unwound, the innermost recoverable one (recover); the pcall
\* then returns false and the error (finishpcall).
Throw(s, v) ==
  LET j == luaD_throw_target(s)
      f == s.ci[j]
      at == Push(Push(SetTop(luaF_close(s, f.extra), f.extra), Bool(FALSE)), v)
      lost(i) == IF f.ypcall THEN [s.ci[i] EXCEPT !.c.k = "lost"] ELSE s.ci[i]
  IN IF j = 0 THEN [Push(s, v) EXCEPT !.status = "error"]
     ELSE CReturns([at EXCEPT !.ci = [i \in 1 .. j |-> [lost(i) EXCEPT !.ypcall = @ /\ i # j]],
                              !.nny = f.nny], 2)

\* pcall returns what is above the function; call, what is above itself.
finishCcall(s) ==
  LET f == ci(s)
      s1 == [s EXCEPT !.ci[Len(s.ci)].ypcall = FALSE, !.nny = IF f.ypcall THEN @ ELSE @ - 1]
  IN CReturns(s1, s.top - (f.func + 1))

luaV_objlen(s, v) ==
  CASE v.t = "table" /\ fasttm(s, v, "__len") = Nil ->
         SetRA(noted(s, v, "__len"), Integer(luaH_getn(s, v.v)))
    [] v.t = "table" /\ fasttm(s, v, "__len") # Nil ->
         luaT_callTM(Waiting(s, "result", ci(s).base + Inst(s).a, 0), fasttm(s, v, "__len"), <<v, v>>, 1)
    [] OTHER -> Throw(s, ErrorMessage)

\* The jump behind the comparison is due next, or is skipped.  Whether the
\* answer is one to `<` is taken from the first operand alone; the history
\* `misread` says that this was not what the lost C code had called.  For a
\* constant first operand of `<=` that is a slot beyond the frame (the
\* lua_asserts are off), whose value may be anything.
finishOp_order(s) ==
  LET i == Inst(s)
      res == ~l_isfalse(TopValue(s))
      inverted == i.op = "LE" /\ luaT_gettmbyobj(s, Reg(s, i.b), "__le") = Nil
      told == [Pop(s) EXCEPT !.misread = @ \/ inverted # (ci(s).c.n = 1)]
  IN IF i.op = "LE" /\ ISK(i.b) THEN [s EXCEPT !.status = "undefined"]
     ELSE Skip(told, IF (IF inverted THEN ~res ELSE res) # (i.a = 1) THEN 1 ELSE 0)

finishOp_concat(s) ==
  LET top == s.top - 1
      total == top - 1 - (ci(s).base + Inst(s).b)
  IN luaV_concat(SetTop(Set(s, top - 2, s.stack[top]), top - 1), total)

\* Finishes an instruction whose C code was lost.
luaV_finishOp(s) ==
  LET i == Inst(s) IN
  CASE i.op \in Arithmetic \cup {"LEN", "GETTABUP", "GETTABLE", "SELF"} -> SetRA(Pop(s), TopValue(s))
    [] i.op \in {"LE", "LT", "EQ"} -> finishOp_order(s)
    [] i.op = "CONCAT" -> finishOp_concat(s)
    [] i.op = "TFORCALL" -> SetTop(s, ci(s).top)
    [] i.op = "CALL" -> IF i.c >= 1 THEN SetTop(s, ci(s).top) ELSE s
    [] i.op \in {"TAILCALL", "SETTABUP", "SETTABLE"} -> s

\* The C code that waits in a Lua function goes on.
goOn(s) ==
  LET i == Inst(s)
      c == ci(s).c
      res == ~l_isfalse(TopValue(s))
  IN CASE c.k = "result" -> Set(Pop(s), c.dest, TopValue(s))
       [] c.k = "settable" -> s
       [] c.k = "order" -> condjump_(Pop(s), res)
       [] c.k = "inverted" -> condjump_(Pop(s), ~res)
       [] c.k = "concat" -> luaV_concat(SetTop(Set(s, c.dest, TopValue(s)), s.top - 2), c.n)
       [] c.k = "for" -> SetTop(s, ci(s).top)
       [] c.k = "call" -> IF i.c >= 1 THEN SetTop(s, ci(s).top) ELSE s
       [] c.k = "tailcall" -> s

\* A function that no OP_CALL of luaV_execute waits for has returned.
Returned(s) ==
  CASE Len(s.ci) = 1 -> [s EXCEPT !.status = "dead"]
    [] Len(s.ci) > 1 /\ ~ci(s).isLua -> finishCcall(s)
    [] Len(s.ci) > 1 /\ ci(s).isLua -> IF ci(s).c.k = "lost" THEN luaV_finishOp(s) ELSE goOn(s)

-----------------------------------------------------------------------------
(* Operations with metamethods. *)

luaV_gettable(s, t, key, dest, loop) ==
  LET raw == IF t.t = "table" THEN luaH_get(s, t.v, key) ELSE Nil
      tm == fasttm(s, t, "__index")
  IN CASE t.t = "table" /\ (raw # Nil \/ tm = Nil) ->
            Set(IF raw = Nil THEN noted(s, t, "__index") ELSE s, dest, raw)
       [] t.t # "table" \/ loop = MAXTAGLOOP -> Throw(s, ErrorMessage)
       [] OTHER -> IF tm.t \in {"function", "cfunction"}
                   THEN luaT_callTM(Waiting(s, "result", dest, 0), tm, <<t, key>>, 1)
                   ELSE luaV_gettable(s, tm, key, dest, loop + 1)

luaV_settable(s, t, key, val, loop) ==
  LET raw == IF t.t = "table" THEN luaH_get(s, t.v, key) ELSE Nil
      tm == fasttm(s, t, "__newindex")
  IN CASE t.t = "table" /\ (raw # Nil \/ tm = Nil) ->
            IF key = Nil THEN Throw(s, ErrorMessage)
            ELSE SetField(IF raw = Nil THEN noted(s, t, "__newindex") ELSE s, t.v, key, val)
       [] t.t # "table" \/ loop = MAXTAGLOOP -> Throw(s, ErrorMessage)
       [] OTHER -> IF tm.t \in {"function", "cfunction"}
                   THEN luaT_callTM(Waiting(s, "settable", 0, 0), tm, <<t, key, val>>, 0)
                   ELSE luaV_settable(s, tm, key, val, loop + 1)

\* Strings are joined two at a time, from the top down.
luaV_concat(s, total) ==
  LET v == s.stack[s.top - 2]
      w == s.stack[s.top - 1]
      strings == v.t \in {"str", "int"} /\ w.t \in {"str", "int"}
      joint == Str(tostring(v) \o tostring(w))
  IN IF total = 1 THEN SetTop(SetRA(s, TopValue(s)), ci(s).top)
     ELSE IF strings THEN luaV_concat(Pop(Set(s, s.top - 2, joint)), total - 1)
     ELSE luaT_trybinTM(Waiting(s, "concat", s.top - 2, total - 1), v, w, "__concat")

TM(op) == CASE op = "ADD" -> "__add" [] op = "SUB" -> "__sub" [] op = "MUL" -> "__mul"
            [] op = "MOD" -> "__mod" [] op = "IDIV" -> "__idiv" [] op = "UNM" -> "__unm"
arith(s, op, v, w) ==
  IF v.t = "int" /\ w.t = "int"
  THEN IF validop(op, w.v) THEN SetRA(s, Integer(intarith(op, v.v, w.v))) ELSE Throw(s, ErrorMessage)
  ELSE luaT_trybinTM(Waiting(s, "result", ci(s).base + Inst(s).a, 0), v, w, TM(op))

equalobj(s, v, w) ==
  LET first == fasttm(s, v, "__eq")
      tm == IF first # Nil THEN first ELSE fasttm(s, w, "__eq")
      s1 == IF first # Nil THEN s ELSE noted(noted(s, v, "__eq"), w, "__eq")
  IN IF rawequal(v, w) \/ v.t # "table" \/ w.t # "table" THEN condjump_(s, rawequal(v, w))
     ELSE IF tm = Nil THEN condjump_(s1, FALSE)
     ELSE luaT_callTM(Waiting(s1, "order", 0, 0), tm, <<v, w>>, 1)

lessthan(s, v, w) ==
  IF v.t = "int" /\ w.t = "int" THEN condjump_(s, v.v < w.v)
  ELSE luaT_trybinTM(Waiting(s, "order", 0, 0), v, w, "__lt")

lessequal(s, v, w) ==
  IF v.t = "int" /\ w.t = "int" THEN condjump_(s, v.v <= w.v)
  ELSE IF binTM(s, v, w, "__le") # Nil
  THEN luaT_trybinTM(Waiting(s, "order", 0, 0), v, w, "__le")
  ELSE luaT_trybinTM(Waiting(s, "inverted", 0, 1), w, v, "__lt")

-----------------------------------------------------------------------------
(* The instructions of luaV_execute. *)

\* The call and the instruction that is due; savedpc then points behind it.
S == Skip(vm, 1)
I == Inst(S)
Is(op) == vm.status = "run" /\ I.op = op
RA == ci(S).base + I.a
R(r) == Reg(S, r)
Next_(s) == vm' = s /\ UNCHANGED main

OP_MOVE == Is("MOVE") /\ Next_(Set(S, RA, R(I.b)))
OP_LOADK == Is("LOADK") /\ Next_(Set(S, RA, P(S).k[I.b + 1]))
OP_LOADKX == Is("LOADKX") /\ Next_(Set(Skip(S, 1), RA, P(S).k[P(S).code[ci(S).pc + 1].a + 1]))
OP_LOADBOOL == Is("LOADBOOL") /\ Next_(Set(Skip(S, I.c), RA, Bool(I.b = 1)))
OP_LOADNIL == Is("LOADNIL") /\ Next_(Nils(S, RA, RA + I.b + 1))
OP_GETUPVAL == Is("GETUPVAL") /\ Next_(Set(S, RA, Upvalue(S, closure(S).upvals[I.b + 1])))
OP_SETUPVAL == Is("SETUPVAL") /\ Next_(SetUpvalue(S, closure(S).upvals[I.b + 1], R(I.a)))

OP_GETTABUP ==
  Is("GETTABUP") /\ Next_(luaV_gettable(S, Upvalue(S, closure(S).upvals[I.b + 1]), Arg(S, I.c), RA, 1))
OP_GETTABLE == Is("GETTABLE") /\ Next_(luaV_gettable(S, R(I.b), Arg(S, I.c), RA, 1))
OP_SETTABUP ==
  /\ Is("SETTABUP")
  /\ Next_(luaV_settable(S, Upvalue(S, closure(S).upvals[I.a + 1]), Arg(S, I.b), Arg(S, I.c), 1))
OP_SETTABLE == Is("SETTABLE") /\ Next_(luaV_settable(S, R(I.a), Arg(S, I.b), Arg(S, I.c), 1))
OP_SELF == Is("SELF") /\ Next_(luaV_gettable(Set(S, RA + 1, R(I.b)), R(I.b), Arg(S, I.c), RA, 1))

OP_NEWTABLE ==
  /\ Is("NEWTABLE")
  /\ Next_([Set(S, RA, Table(Len(S.tables) + 1)) EXCEPT
               !.tables = Append(@, [h |-> <<>>, metatable |-> 0, flags |-> {}])])

OP_ARITH == /\ vm.status = "run" /\ I.op \in Arithmetic \ {"UNM"}
            /\ Next_(arith(S, I.op, Arg(S, I.b), Arg(S, I.c)))
OP_UNM == Is("UNM") /\ Next_(arith(S, "UNM", R(I.b), R(I.b)))
OP_NOT == Is("NOT") /\ Next_(Set(S, RA, Bool(l_isfalse(R(I.b)))))
OP_LEN == Is("LEN") /\ Next_(luaV_objlen(S, R(I.b)))
OP_CONCAT == Is("CONCAT") /\ Next_(luaV_concat(SetTop(S, ci(S).base + I.c + 1), I.c - I.b + 1))

OP_JMP == Is("JMP") /\ Next_(dojump(S, I, 0))
OP_EQ == Is("EQ") /\ Next_(equalobj(S, Arg(S, I.b), Arg(S, I.c)))
OP_LT == Is("LT") /\ Next_(lessthan(S, Arg(S, I.b), Arg(S, I.c)))
OP_LE == Is("LE") /\ Next_(lessequal(S, Arg(S, I.b), Arg(S, I.c)))
OP_TEST ==
  /\ Is("TEST")
  /\ Next_(IF l_isfalse(R(I.a)) = (I.c = 1) THEN Skip(S, 1) ELSE donextjump(S))
OP_TESTSET ==
  /\ Is("TESTSET")
  /\ Next_(IF l_isfalse(R(I.b)) = (I.c = 1) THEN Skip(S, 1) ELSE donextjump(Set(S, RA, R(I.b))))

OP_CALL ==
  /\ Is("CALL")
  /\ Next_(luaD_precall(Waiting(IF I.b # 0 THEN SetTop(S, RA + I.b) ELSE S, "call", 0, 0), RA, I.c - 1, TRUE))

\* A called Lua function takes the place of the caller.
tailcalled(s) ==
  LET nci == ci(s)
      oci == ci(S)
      down == nci.func - oci.func
      closed == IF P(S).p # <<>> THEN luaF_close(s, oci.base) ELSE s
      moved == Copy(closed, nci.func, oci.func, nci.base + P(s).numparams - nci.func)
  IN IF Len(s.ci) = Len(S.ci) + 1 /\ nci.isLua /\ nci.reentry
     THEN [moved EXCEPT !.top = @ - down,
             !.ci = Append(Front(S.ci), [oci EXCEPT !.base = nci.base - down, !.top = nci.top - down, !.pc = 0])]
     ELSE s
OP_TAILCALL ==
  /\ Is("TAILCALL")
  /\ Next_(tailcalled(luaD_precall(
        Waiting(IF I.b # 0 THEN SetTop(S, RA + I.b) ELSE S, "tailcall", 0, 0), RA, MULTRET, TRUE)))

OP_RETURN ==
  /\ Is("RETURN")
  /\ LET topped == IF I.b # 0 THEN SetTop(S, RA + I.b - 1) ELSE S
         closed == IF P(S).p # <<>> THEN luaF_close(topped, ci(S).base) ELSE topped
         s == luaD_poscall(closed, RA)
     IN Next_(IF ~ci(S).reentry THEN Returned(s)
              ELSE IF ci(S).nresults # MULTRET THEN SetTop(s, ci(s).top) ELSE s)

\* Loops over integers.
OP_FORPREP ==
  /\ Is("FORPREP")
  /\ Next_(IF \A r \in 0 .. 2 : R(I.a + r).t = "int"
           THEN Skip(Set(S, RA, Integer(R(I.a).v - R(I.a + 2).v)), I.b)
           ELSE Throw(S, ErrorMessage))

OP_FORLOOP ==
  /\ Is("FORLOOP")
  /\ LET step == R(I.a + 2).v
         idx == R(I.a).v + step
         limit == R(I.a + 1).v
     IN Next_(IF IF 0 < step THEN idx <= limit ELSE limit <= idx
              THEN Skip(Set(Set(S, RA, Integer(idx)), RA + 3, Integer(idx)), I.b) ELSE S)

OP_TFORCALL ==
  /\ Is("TFORCALL")
  /\ LET cb == RA + 3
         placed == SetTop(Set(Set(Set(S, cb, R(I.a)), cb + 1, R(I.a + 1)), cb + 2, R(I.a + 2)), cb + 3)
     IN Next_(luaD_precall(Waiting(placed, "for", 0, 0), cb, I.c, FALSE))
OP_TFORLOOP ==
  /\ Is("TFORLOOP")
  /\ Next_(IF R(I.a + 1) # Nil THEN Skip(Set(S, RA, R(I.a + 1)), I.b) ELSE S)

OP_SETLIST ==
  /\ Is("SETLIST")
  /\ LET n == IF I.b = 0 THEN S.top - RA - 1 ELSE I.b
         c == IF I.c = 0 THEN P(S).code[ci(S).pc + 1].a ELSE I.c
         last == (c - 1) * LFIELDS_PER_FLUSH
         items == {Integer(last + j) : j \in 1 .. n}
     IN Next_(SetTop([Skip(S, IF I.c = 0 THEN 1 ELSE 0) EXCEPT
                        !.tables[R(I.a).v].h = [x \in DOMAIN @ \cup items |->
                           IF x \in items THEN S.stack[RA + x.v - last] ELSE @[x]]], ci(S).top))

\* getcached and pushclosure; a cached closure with the same upvalues is reused.
RECURSIVE capture(_, _)
capture(s, descs) ==
  IF descs = <<>> THEN s
  ELSE capture(IF Head(descs).instack THEN luaF_findupval(s, ci(s).base + Head(descs).idx) ELSE s, Tail(descs))
captured(s, desc) ==
  IF desc.instack THEN CHOOSE u \in openat(s, ci(s).base + desc.idx) : TRUE
  ELSE closure(s).upvals[desc.idx + 1]
samevariable(desc, u) ==
  IF desc.instack THEN u \in openat(S, ci(S).base + desc.idx) ELSE u = closure(S).upvals[desc.idx + 1]

getcached(path) ==
  LET ups == proto(path).upvalues IN
  IF path \in DOMAIN S.cache
     /\ \A j \in DOMAIN ups : samevariable(ups[j], S.closures[S.cache[path]].upvals[j])
  THEN S.cache[path] ELSE 0

OP_CLOSURE ==
  /\ Is("CLOSURE")
  /\ LET path == Append(closure(S).path, I.b)
         ups == proto(path).upvalues
         s == capture(S, ups)
         id == Len(S.closures) + 1
         new == [path |-> path, upvals |-> [j \in DOMAIN ups |-> captured(s, ups[j])]]
     IN Next_(IF getcached(path) # 0 THEN Set(S, RA, Function(getcached(path)))
              ELSE [Set(s, RA, Function(id)) EXCEPT !.closures = Append(@, new),
                      !.cache = [x \in DOMAIN @ \cup {path} |-> IF x = path THEN id ELSE @[x]]])

OP_VARARG ==
  /\ Is("VARARG")
  /\ LET n == ci(S).base - ci(S).func - P(S).numparams - 1
         b == IF I.b = 0 THEN n ELSE I.b - 1
         given == IF b < n THEN b ELSE n
         s == Nils(Copy(S, ci(S).base - n, RA, given), RA + given, RA + b)
     IN Next_(IF I.b = 0 THEN SetTop(s, RA + n) ELSE s)

-----------------------------------------------------------------------------
(* The thread. *)

\* The values yielded are recorded, and the coroutine goes on with a reply.
reply == Integer(7)
lua_resume ==
  /\ vm.status = "yield"
  /\ LET func == ci(vm).func
         yielded == [j \in 1 .. vm.top - func - 1 |-> vm.stack[func + j]]
     IN Next_(Returned(luaD_poscall([Push(SetTop(vm, func + 1), reply) EXCEPT
                                       !.status = "run", !.out = Append(@, yielded)], func + 1)))

\* The program is called as the body of a coroutine, its _ENV a table with the
\* C functions.
Started ==
  LET env == [x \in {Str(<<name>>) : name \in CFunctions} |-> CFunction(x.s[1])] IN
  precallLua([stack |-> [j \in 0 .. STACKSIZE |-> IF j = 1 THEN Function(1) ELSE Nil], top |-> 2,
              ci |-> <<NewCall(0, 1, 1, 0, FALSE, FALSE)>>, nny |-> 0, status |-> "run", out |-> <<>>,
              misread |-> FALSE,
              upvals |-> <<[open |-> FALSE, level |-> 0, value |-> Table(1)]>>,
              closures |-> <<[path |-> <<>>, upvals |-> <<1>>]>>, cache |-> <<>>,
              tables |-> <<[h |-> env, metatable |-> 0, flags |-> {}]>>], 1, MULTRET, FALSE)

Running ==
  \/ OP_MOVE \/ OP_LOADK \/ OP_LOADKX \/ OP_LOADBOOL \/ OP_LOADNIL \/ OP_GETUPVAL \/ OP_SETUPVAL
  \/ OP_GETTABUP \/ OP_GETTABLE \/ OP_SETTABUP \/ OP_SETTABLE \/ OP_SELF \/ OP_NEWTABLE
  \/ OP_ARITH \/ OP_UNM \/ OP_NOT \/ OP_LEN \/ OP_CONCAT \/ OP_JMP \/ OP_EQ \/ OP_LT \/ OP_LE
  \/ OP_TEST \/ OP_TESTSET \/ OP_CALL \/ OP_TAILCALL \/ OP_RETURN \/ OP_FORPREP \/ OP_FORLOOP
  \/ OP_TFORCALL \/ OP_TFORLOOP \/ OP_SETLIST \/ OP_CLOSURE \/ OP_VARARG \/ lua_resume

=============================================================================
