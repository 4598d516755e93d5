------------------------------ MODULE LuaCode -------------------------------
(***************************************************************************)
(* The code generator of src/lua/src/lcode.c.                              *)
(*                                                                         *)
(* A function under compilation (FuncState and its Proto) is a record fs   *)
(* that also holds, in fs.e, the expression (expdesc) being compiled; an   *)
(* operation of the code generator maps such a record to the next one.     *)
(* Instructions are records of an operation and three arguments, Bx and    *)
(* sBx in b.  Line numbers and the names of locals for debugging are left  *)
(* out.  fs.failed collects the lua_asserts that do not hold.              *)
(***************************************************************************)
EXTENDS LuaValue, FiniteSets, SequencesExt

CONSTANTS
  MAXINDEXRK,        \* greatest constant index in an RK argument (255)
  MAXARG_Bx,         \* greatest constant index of OP_LOADK (2^18 - 1)
  MAXARG_C,          \* greatest batch number of OP_SETLIST (511)
  LFIELDS_PER_FLUSH  \* items of a constructor stored at once (50)

ASSUME CodeAssumption ==
  /\ MAXINDEXRK \in 0 .. 255 /\ MAXARG_Bx \in Nat /\ MAXARG_C \in Nat
  /\ LFIELDS_PER_FLUSH \in Nat \ {0}

NO_JUMP == -1
NO_REG == 255
BITRK == 256
MULTRET == -1
ISK(x) == x >= BITRK

\* init_exp
Exp(k, info) == [k |-> k, info |-> info, s |-> <<>>, ind |-> [t |-> 0, idx |-> 0, vt |-> "LOCAL"],
                 t |-> NO_JUMP, f |-> NO_JUMP]
With(fs, e) == [fs EXCEPT !.e = e]
Instr(op, a, b, c) == [op |-> op, a |-> a, b |-> b, c |-> c]

pc(fs) == Len(fs.code)
At(fs, p) == fs.code[p + 1]
hasjumps(e) == e.t # e.f
hasmultret(e) == e.k \in {"CALL", "VARARG"}
tonumeral(e) == e.t = NO_JUMP /\ e.f = NO_JUMP /\ e.k = "KINT"

lua_assert(fs, name, holds) ==
  IF holds THEN fs ELSE [fs EXCEPT !.failed = @ \cup {name}]

-----------------------------------------------------------------------------
(* Jump lists: an unfinished jump points to the next one in its list. *)

testTMode(op) == op \in {"EQ", "LT", "LE", "TEST", "TESTSET"}

getjump(fs, p) == IF At(fs, p).b = NO_JUMP THEN NO_JUMP ELSE p + 1 + At(fs, p).b
fixjump(fs, p, dest) == [fs EXCEPT !.code[p + 1].b = dest - (p + 1)]

\* luaK_concat: the list that joins l1 and l2, and the code where they are joined.
joined(l1, l2) == IF l1 = NO_JUMP THEN l2 ELSE l1
RECURSIVE luaK_concat(_, _, _)
luaK_concat(fs, l1, l2) ==
  IF l1 = NO_JUMP \/ l2 = NO_JUMP THEN fs
  ELSE LET next == getjump(fs, l1)
       IN IF next = NO_JUMP THEN fixjump(fs, l1, l2) ELSE luaK_concat(fs, next, l2)

\* The instruction that controls a jump: the test before it, or itself.
getjumpcontrol(fs, p) == IF p >= 1 /\ testTMode(At(fs, p - 1).op) THEN p - 1 ELSE p
istestset(fs, node) == At(fs, getjumpcontrol(fs, node)).op = "TESTSET"

RECURSIVE need_value(_, _)
need_value(fs, list) == list # NO_JUMP /\ (~istestset(fs, list) \/ need_value(fs, getjump(fs, list)))

patchtestreg(fs, node, reg) ==
  LET p == getjumpcontrol(fs, node)
      i == At(fs, p)
  IN IF i.op # "TESTSET" THEN fs
     ELSE IF reg # NO_REG /\ reg # i.b THEN [fs EXCEPT !.code[p + 1].a = reg]
     ELSE [fs EXCEPT !.code[p + 1] = Instr("TEST", i.b, 0, i.c)]

RECURSIVE removevalues(_, _), patchlistaux(_, _, _, _, _)
removevalues(fs, list) ==
  IF list = NO_JUMP THEN fs ELSE removevalues(patchtestreg(fs, list, NO_REG), getjump(fs, list))

\* Jumps that leave a value in reg go to vtarget, the others to dtarget.
patchlistaux(fs, list, vtarget, reg, dtarget) ==
  IF list = NO_JUMP THEN fs
  ELSE LET next == getjump(fs, list)
           dest == IF istestset(fs, list) THEN vtarget ELSE dtarget
           s == patchtestreg(fs, list, reg)
       IN patchlistaux(fixjump(s, list, dest), next, vtarget, reg, dtarget)

dischargejpc(fs) ==
  [patchlistaux(fs, fs.jpc, pc(fs), NO_REG, pc(fs)) EXCEPT !.jpc = NO_JUMP]

luaK_getlabel(fs) == [fs EXCEPT !.lasttarget = pc(fs)]

luaK_patchtohere(fs, list) ==
  [luaK_concat(luaK_getlabel(fs), fs.jpc, list) EXCEPT !.jpc = joined(fs.jpc, list)]

luaK_patchlist(fs, list, target) ==
  IF target = pc(fs) THEN luaK_patchtohere(fs, list)
  ELSE patchlistaux(fs, list, target, NO_REG, target)

\* The jumps of the list will close the upvalues from level up.
RECURSIVE luaK_patchclose(_, _, _)
luaK_patchclose(fs, list, level) ==
  LET i == At(fs, list)
      s == lua_assert(fs, "patchclose", i.op = "JMP" /\ i.a \in {0} \cup level + 1 .. NO_REG)
  IN IF list = NO_JUMP THEN fs
     ELSE luaK_patchclose([s EXCEPT !.code[list + 1].a = level + 1], getjump(fs, list), level)

-----------------------------------------------------------------------------
(* Emitting instructions. *)

luaK_code(fs, i) == LET s == dischargejpc(fs) IN [s EXCEPT !.code = Append(@, i)]
luaK_codeABC(fs, op, a, b, c) == luaK_code(fs, Instr(op, a, b, c))

\* The instruction's address becomes that of the expression.
Relocatable(fs, op, b, c) ==
  LET s == luaK_codeABC(fs, op, 0, b, c) IN [s EXCEPT !.e.k = "RELOCABLE", !.e.info = pc(s) - 1]

\* The new jump is the last instruction; jumps to here jump on with it.
luaK_jump(fs) ==
  LET s == luaK_codeABC([fs EXCEPT !.jpc = NO_JUMP], "JMP", 0, NO_JUMP, 0)
  IN luaK_concat(s, pc(s) - 1, fs.jpc)
lastpc(fs) == pc(fs) - 1

condjump(fs, op, a, b, c) == luaK_jump(luaK_codeABC(fs, op, a, b, c))

luaK_ret(fs, first, nret) == luaK_codeABC(fs, "RETURN", first, nret + 1, 0)

\* Consecutive OP_LOADNILs of the same basic block are joined.
luaK_nil(fs, from, n) ==
  LET l == from + n - 1
      previous == IF pc(fs) > fs.lasttarget THEN At(fs, pc(fs) - 1) ELSE Instr("", 0, 0, 0)
      pfrom == previous.a
      pl == pfrom + previous.b
      least == IF pfrom < from THEN pfrom ELSE from
      most == IF pl > l THEN pl ELSE l
  IN IF previous.op = "LOADNIL" /\ (from \in pfrom .. pl + 1 \/ pfrom \in from .. l + 1)
     THEN [fs EXCEPT !.code[pc(fs)] = Instr("LOADNIL", least, most - least, 0)]
     ELSE luaK_codeABC(fs, "LOADNIL", from, n - 1, 0)

luaK_codek(fs, reg, k) ==
  IF k <= MAXARG_Bx THEN luaK_codeABC(fs, "LOADK", reg, k, 0)
  ELSE luaK_codeABC(luaK_codeABC(fs, "LOADKX", reg, 0, 0), "EXTRAARG", k, 0, 0)

luaK_checkstack(fs, n) ==
  [fs EXCEPT !.maxstacksize = IF fs.freereg + n > @ THEN fs.freereg + n ELSE @]
luaK_reserveregs(fs, n) == [luaK_checkstack(fs, n) EXCEPT !.freereg = @ + n]

freereg(fs, reg) ==
  IF ISK(reg) \/ reg < fs.nactvar THEN fs
  ELSE lua_assert([fs EXCEPT !.freereg = @ - 1], "freereg", reg = fs.freereg - 1)
freeexp(fs, e) == IF e.k = "NONRELOC" THEN freereg(fs, e.info) ELSE fs

\* Index of a constant, and the list of constants with it.
addk(fs, v) == IF v \in {fs.k[i] : i \in DOMAIN fs.k} THEN fs ELSE [fs EXCEPT !.k = Append(@, v)]
index(fs, v) == (CHOOSE i \in DOMAIN fs.k : fs.k[i] = v) - 1
Constant(fs, v) ==
  LET s == addk(fs, v) IN [s EXCEPT !.e.k = "K", !.e.info = index(s, v)]

-----------------------------------------------------------------------------
(* Expressions to registers. *)

luaK_setreturns(fs, nresults) ==
  LET p == fs.e.info + 1 IN
  CASE fs.e.k = "CALL" -> [fs EXCEPT !.code[p].c = nresults + 1]
    [] fs.e.k = "VARARG" -> luaK_reserveregs(
         [fs EXCEPT !.code[p].b = nresults + 1, !.code[p].a = fs.freereg], 1)
    [] OTHER -> fs

luaK_setoneret(fs) ==
  LET p == fs.e.info + 1 IN
  CASE fs.e.k = "CALL" -> [fs EXCEPT !.e.k = "NONRELOC", !.e.info = fs.code[p].a]
    [] fs.e.k = "VARARG" -> [fs EXCEPT !.code[p].b = 2, !.e.k = "RELOCABLE"]
    [] OTHER -> fs

luaK_dischargevars(fs) ==
  LET e == fs.e
      s == freereg(fs, e.ind.idx)
  IN CASE e.k = "LOCAL" -> [fs EXCEPT !.e.k = "NONRELOC"]
       [] e.k = "UPVAL" -> Relocatable(fs, "GETUPVAL", e.info, 0)
       [] e.k = "INDEXED" /\ e.ind.vt = "LOCAL" ->
            Relocatable(freereg(s, e.ind.t), "GETTABLE", e.ind.t, e.ind.idx)
       [] e.k = "INDEXED" /\ e.ind.vt = "UPVAL" ->
            Relocatable(s, "GETTABUP", e.ind.t, e.ind.idx)
       [] OTHER -> luaK_setoneret(fs)

discharge2reg(fs, reg) ==
  LET s == luaK_dischargevars(fs)
      e == s.e
      k == Constant(s, Integer(e.info))
      r == CASE e.k = "NIL" -> luaK_nil(s, reg, 1)
             [] e.k \in {"FALSE", "TRUE"} ->
                  luaK_codeABC(s, "LOADBOOL", reg, IF e.k = "TRUE" THEN 1 ELSE 0, 0)
             [] e.k = "K" -> luaK_codek(s, reg, e.info)
             [] e.k = "KINT" -> luaK_codek(k, reg, k.e.info)
             [] e.k = "RELOCABLE" -> [s EXCEPT !.code[e.info + 1].a = reg]
             [] e.k = "NONRELOC" /\ reg # e.info -> luaK_codeABC(s, "MOVE", reg, e.info, 0)
             [] OTHER -> s
  IN IF e.k \in {"VOID", "JMP"} THEN s ELSE [r EXCEPT !.e.info = reg, !.e.k = "NONRELOC"]

discharge2anyreg(fs) ==
  IF fs.e.k = "NONRELOC" THEN fs
  ELSE LET s == luaK_reserveregs(fs, 1) IN discharge2reg(s, s.freereg - 1)

code_label(fs, a, b, jump) == luaK_codeABC(luaK_getlabel(fs), "LOADBOOL", a, b, jump)

\* The loads of false and of true that jumps without a value go to; each skips
\* the other, and the value of the expression itself jumps over both.
loadbooleans(fs, reg) ==
  LET jumps == fs.e.k # "JMP"
      s == IF jumps THEN luaK_jump(fs) ELSE fs
      both == code_label(code_label(s, reg, 0, 1), reg, 1, 0)
  IN luaK_patchtohere(both, IF jumps THEN pc(s) - 1 ELSE NO_JUMP)

\* Mutant of exp2reg: values are never needed from the loads of booleans.
exp2reg_always(fs, reg) ==
  LET s == discharge2reg(fs, reg)
      t == IF s.e.k = "JMP" THEN joined(s.e.t, s.e.info) ELSE s.e.t
      s1 == IF s.e.k = "JMP" THEN luaK_concat(s, s.e.t, s.e.info) ELSE s
      final == luaK_getlabel(s1)
      s2 == patchlistaux(final, s.e.f, pc(final), reg, pc(final))
      s3 == patchlistaux(s2, t, pc(final), reg, pc(final))
  IN With(IF t # s.e.f THEN s3 ELSE s1, Exp("NONRELOC", reg))

exp2reg(fs, reg) ==
  LET s == discharge2reg(fs, reg)
      t == IF s.e.k = "JMP" THEN joined(s.e.t, s.e.info) ELSE s.e.t
      s1 == IF s.e.k = "JMP" THEN luaK_concat(s, s.e.t, s.e.info) ELSE s
      need == need_value(s1, t) \/ need_value(s1, s.e.f)
      final == luaK_getlabel(IF need THEN loadbooleans(s1, reg) ELSE s1)
      p_t == pc(final) - 1
      p_f == pc(final) - 2
      s2 == patchlistaux(final, s.e.f, pc(final), reg, p_f)
      s3 == patchlistaux(s2, t, pc(final), reg, p_t)
  IN With(IF t # s.e.f THEN s3 ELSE s1, Exp("NONRELOC", reg))

luaK_exp2nextreg(fs) ==
  LET s == luaK_dischargevars(fs)
      r == luaK_reserveregs(freeexp(s, s.e), 1)
  IN exp2reg(r, r.freereg - 1)

\* The register is then in e.info.
luaK_exp2anyreg(fs) ==
  LET s == luaK_dischargevars(fs) IN
  IF s.e.k # "NONRELOC" THEN luaK_exp2nextreg(s)
  ELSE IF ~hasjumps(s.e) THEN s
  ELSE IF s.e.info >= s.nactvar THEN exp2reg(s, s.e.info)
  ELSE luaK_exp2nextreg(s)

luaK_exp2anyregup(fs) ==
  IF fs.e.k # "UPVAL" \/ hasjumps(fs.e) THEN luaK_exp2anyreg(fs) ELSE fs

luaK_exp2val(fs) == IF hasjumps(fs.e) THEN luaK_exp2anyreg(fs) ELSE luaK_dischargevars(fs)

\* A constant that is not beyond the RK range, or any register; RK(e) is then
\* the argument.
luaK_exp2RK(fs) ==
  LET s == luaK_exp2val(fs)
      c == Constant(s, CASE s.e.k = "NIL" -> Nil [] s.e.k = "KINT" -> Integer(s.e.info)
                         [] OTHER -> Bool(s.e.k = "TRUE"))
  IN IF \/ (s.e.k \in {"NIL", "TRUE", "FALSE"} /\ Len(s.k) <= MAXINDEXRK)
        \/ (s.e.k = "KINT" /\ c.e.info <= MAXINDEXRK)
     THEN c
     ELSE IF s.e.k = "KINT" THEN luaK_exp2anyreg(c)
     ELSE IF s.e.k = "K" /\ s.e.info <= MAXINDEXRK THEN s
     ELSE luaK_exp2anyreg(s)
RK(e) == IF e.k = "K" THEN e.info + BITRK ELSE e.info

\* Stores fs.e in the variable.
luaK_storevar(fs, var) ==
  LET a == luaK_exp2anyreg(fs)
      rk == luaK_exp2RK(fs)
      r == CASE var.k = "UPVAL" -> luaK_codeABC(a, "SETUPVAL", a.e.info, var.info, 0)
             [] var.k = "INDEXED" ->
                  luaK_codeABC(rk, IF var.ind.vt = "LOCAL" THEN "SETTABLE" ELSE "SETTABUP",
                               var.ind.t, var.ind.idx, RK(rk.e))
  IN IF var.k = "LOCAL" THEN exp2reg(freeexp(fs, fs.e), var.info) ELSE freeexp(r, r.e)

luaK_self(fs, key) ==
  LET s == luaK_exp2anyreg(fs)
      r == freeexp(s, s.e)
      base == r.freereg
      kk == luaK_exp2RK(With(luaK_reserveregs(r, 2), key))
      done == luaK_codeABC(kk, "SELF", base, s.e.info, RK(kk.e))
  IN With(freeexp(done, done.e), Exp("NONRELOC", base))

\* fs.e is the key of the table t.
luaK_indexed(fs, t) ==
  LET s == luaK_exp2RK(fs) IN
  With(lua_assert(s, "indexed", ~hasjumps(t)),
       [t EXCEPT !.k = "INDEXED",
                 !.ind = [t |-> t.info, idx |-> RK(s.e),
                          vt |-> IF t.k = "UPVAL" THEN "UPVAL" ELSE "LOCAL"]])

-----------------------------------------------------------------------------
(* Conditions. *)

invertjump(fs) ==
  LET p == getjumpcontrol(fs, fs.e.info) IN [fs EXCEPT !.code[p + 1].a = 1 - @]

jumponcond(fs, cond) ==
  LET s == discharge2anyreg(fs)
      r == freeexp(s, s.e)
      ie == Last(fs.code)
  IN IF fs.e.k = "RELOCABLE" /\ At(fs, fs.e.info).op = "NOT"
     THEN condjump([fs EXCEPT !.code = Front(@)], "TEST", ie.b, 0, 1 - cond)
     ELSE condjump(r, "TESTSET", NO_REG, s.e.info, cond)

\* Falls through if the expression is true; jumps when false are in e.f.
luaK_goiftrue(fs) ==
  LET s == luaK_dischargevars(fs)
      constant == s.e.k \in {"K", "KINT", "TRUE"}
      r == CASE s.e.k = "JMP" -> invertjump(s) [] constant -> s [] OTHER -> jumponcond(s, 0)
      p == CASE s.e.k = "JMP" -> s.e.info [] constant -> NO_JUMP [] OTHER -> lastpc(r)
      c == [luaK_concat(r, s.e.f, p) EXCEPT !.e.f = joined(s.e.f, p)]
  IN [luaK_patchtohere(c, s.e.t) EXCEPT !.e.t = NO_JUMP]

luaK_goiffalse(fs) ==
  LET s == luaK_dischargevars(fs)
      constant == s.e.k \in {"NIL", "FALSE"}
      r == IF s.e.k = "JMP" \/ constant THEN s ELSE jumponcond(s, 1)
      p == CASE s.e.k = "JMP" -> s.e.info [] constant -> NO_JUMP [] OTHER -> lastpc(r)
      c == [luaK_concat(r, s.e.t, p) EXCEPT !.e.t = joined(s.e.t, p)]
  IN [luaK_patchtohere(c, s.e.f) EXCEPT !.e.f = NO_JUMP]

codenot(fs) ==
  LET s == luaK_dischargevars(fs)
      any == discharge2anyreg(s)
      r == CASE s.e.k \in {"NIL", "FALSE"} -> [s EXCEPT !.e.k = "TRUE"]
             [] s.e.k \in {"K", "KINT", "TRUE"} -> [s EXCEPT !.e.k = "FALSE"]
             [] s.e.k = "JMP" -> invertjump(s)
             [] OTHER -> Relocatable(freeexp(any, any.e), "NOT", any.e.info, 0)
  IN [removevalues(removevalues(r, s.e.f), s.e.t) EXCEPT !.e.t = s.e.f, !.e.f = s.e.t]

-----------------------------------------------------------------------------
(* Operators. *)

foldable(op, e1, e2) ==
  op \in Arithmetic /\ tonumeral(e1) /\ tonumeral(e2) /\ validop(op, e2.info)

\* Mutant of freeboth: the first operand is freed first.
freeboth_first(fs, e1, e2) == freeexp(freeexp(fs, e1), e2)

\* The operands' registers are freed from the last one down.
freeboth(fs, e1, e2) ==
  IF RK(e1) > RK(e2) THEN freeexp(freeexp(fs, e1), e2) ELSE freeexp(freeexp(fs, e2), e1)

codeunary(fs, op) ==
  LET s == luaK_exp2anyreg(fs) IN
  IF foldable(op, fs.e, Exp("KINT", 0)) THEN [fs EXCEPT !.e.info = intarith(op, @, 0)]
  ELSE Relocatable(freeexp(s, s.e), op, s.e.info, 0)

\* codeexpval and codecomp for operand e1 and fs.e
codeexpval(fs, op, e1) ==
  LET s2 == luaK_exp2RK(fs)
      s1 == luaK_exp2RK(With(s2, e1))
  IN IF foldable(op, e1, fs.e) THEN With(fs, [e1 EXCEPT !.info = intarith(op, @, fs.e.info)])
     ELSE Relocatable(freeboth(s1, s1.e, s2.e), op, RK(s1.e), RK(s2.e))

codecomp(fs, op, cond, e1) ==
  LET s1 == luaK_exp2RK(With(fs, e1))
      s2 == luaK_exp2RK(With(s1, fs.e))
      s == freeexp(freeexp(s2, s2.e), s1.e)
      exchange == cond = 0 /\ op # "EQ"
      r == condjump(s, op, IF exchange THEN 1 ELSE cond,
                    RK(IF exchange THEN s2.e ELSE s1.e), RK(IF exchange THEN s1.e ELSE s2.e))
  IN With(r, [s1.e EXCEPT !.k = "JMP", !.info = lastpc(r)])

luaK_prefix(fs, op) == IF op = "NOT" THEN codenot(fs) ELSE codeunary(fs, op)

luaK_infix(fs, op) ==
  CASE op = "AND" -> luaK_goiftrue(fs)
    [] op = "OR" -> luaK_goiffalse(fs)
    [] op = "CONCAT" -> luaK_exp2nextreg(fs)
    [] op \in Arithmetic /\ tonumeral(fs.e) -> fs
    [] OTHER -> luaK_exp2RK(fs)

luaK_posfix(fs, op, e1) ==
  LET d == luaK_dischargevars(fs)
      v == luaK_exp2val(fs)
      chained == v.e.k = "RELOCABLE" /\ At(v, v.e.info).op = "CONCAT"
  IN CASE op = "AND" ->
            lua_assert([luaK_concat(d, d.e.f, e1.f) EXCEPT !.e.f = joined(d.e.f, e1.f)],
                       "and", e1.t = NO_JUMP)
       [] op = "OR" ->
            lua_assert([luaK_concat(d, d.e.t, e1.t) EXCEPT !.e.t = joined(d.e.t, e1.t)],
                       "or", e1.f = NO_JUMP)
       [] op = "CONCAT" /\ chained ->
            With([lua_assert(freeexp(v, e1), "concat", e1.info = At(v, v.e.info).b - 1)
                    EXCEPT !.code[v.e.info + 1].b = e1.info],
                 [e1 EXCEPT !.k = "RELOCABLE", !.info = v.e.info])
       [] op = "CONCAT" /\ ~chained -> codeexpval(luaK_exp2nextreg(v), "CONCAT", e1)
       [] op \in Arithmetic -> codeexpval(fs, op, e1)
       [] op \in {"EQ", "LT", "LE"} -> codecomp(fs, op, 1, e1)
       [] op = "NE" -> codecomp(fs, "EQ", 0, e1)
       [] op = "GT" -> codecomp(fs, "LT", 0, e1)
       [] op = "GE" -> codecomp(fs, "LE", 0, e1)

luaK_setlist(fs, base, nelems, tostore) ==
  LET c == (nelems - 1) \div LFIELDS_PER_FLUSH + 1
      b == IF tostore = MULTRET THEN 0 ELSE tostore
      s == IF c <= MAXARG_C THEN luaK_codeABC(fs, "SETLIST", base, b, c)
           ELSE luaK_codeABC(luaK_codeABC(fs, "SETLIST", base, b, 0), "EXTRAARG", c, 0, 0)
  IN [s EXCEPT !.freereg = base + 1]

=============================================================================
