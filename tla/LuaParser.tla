----------------------------- MODULE LuaParser ------------------------------
(***************************************************************************)
(* The compiler of src/lua/src/lparser.c: recursive descent over the       *)
(* tokens, generating code with LuaCode as it goes.                        *)
(*                                                                         *)
(* The state ls holds the tokens not read yet, the function under          *)
(* compilation with its expression in ls.fs.e, and the functions around    *)
(* it in ls.prev.  Programs are correct syntax: the errors that tokens     *)
(* alone can cause are left out, those of gotos and labels are recorded.   *)
(* The lists of variables, labels and gotos, which the code keeps in one   *)
(* Dyndata with a base for each function, are kept for each function.      *)
(***************************************************************************)
EXTENDS LuaCode

K(ls, fs) == [ls EXCEPT !.fs = fs]
Tok(ls) == Head(ls.toks).t
luaX_next(ls) == [ls EXCEPT !.toks = Tail(@)]
testnext(ls, t) == IF Tok(ls) = t THEN luaX_next(ls) ELSE ls
Name(ls) == Head(ls.toks).s
semerror(fs, what) == [fs EXCEPT !.error = @ \cup {what}]

-----------------------------------------------------------------------------
(* Variables. *)

new_localvar(ls, name) == [ls EXCEPT !.fs.actvar = Append(@, name)]
new_localvars(ls, names) == [ls EXCEPT !.fs.actvar = @ \o names]
adjustlocalvars(ls, nvars) == [ls EXCEPT !.fs.nactvar = @ + nvars]
removevars(fs, tolevel) ==
  [fs EXCEPT !.nactvar = tolevel, !.actvar = SubSeq(@, 1, Len(@) - (fs.nactvar - tolevel))]

LastOf(S) == CHOOSE i \in S : \A j \in S : j <= i
\* The innermost active variable, and the upvalue, of that name; -1 if none.
searchvar(fs, n) ==
  LET found == {i \in 1 .. fs.nactvar : fs.actvar[i] = n}
  IN IF found = {} THEN -1 ELSE LastOf(found) - 1
searchupvalue(fs, n) ==
  LET found == {i \in DOMAIN fs.upvalues : fs.upvalues[i].name = n}
  IN IF found = {} THEN -1 ELSE LastOf(found) - 1

newupvalue(fs, n, k, info) ==
  [fs EXCEPT !.upvalues = Append(@, [name |-> n, instack |-> k = "LOCAL", idx |-> info])]

\* Marks the block where the variable at the level was defined.
markupval(fs, level) ==
  LET b == LastOf({i \in DOMAIN fs.bl : fs.bl[i].nactvar <= level})
  IN [fs EXCEPT !.bl[b].upval = TRUE]

\* Finds n in the i-th of the functions fss; as an upvalue it becomes one of
\* all functions between.
RECURSIVE singlevaraux(_, _, _, _)
singlevaraux(fss, i, n, base) ==
  IF i = 0 THEN [fss |-> fss, k |-> "VOID", info |-> 0]
  ELSE LET v == searchvar(fss[i], n)
           u == searchupvalue(fss[i], n)
           r == singlevaraux(fss, i - 1, n, FALSE)
       IN IF v >= 0
          THEN [fss |-> IF base THEN fss ELSE [fss EXCEPT ![i] = markupval(@, v)],
                k |-> "LOCAL", info |-> v]
          ELSE IF u >= 0 THEN [fss |-> fss, k |-> "UPVAL", info |-> u]
          ELSE IF r.k = "VOID" THEN r
          ELSE [fss |-> [r.fss EXCEPT ![i] = newupvalue(@, n, r.k, r.info)],
                k |-> "UPVAL", info |-> Len(r.fss[i].upvalues)]

Variable(ls, n) ==
  LET r == singlevaraux(Append(ls.prev, ls.fs), Len(ls.prev) + 1, n, TRUE)
  IN [k |-> r.k, ls |-> [ls EXCEPT !.prev = Front(r.fss), !.fs = With(Last(r.fss), Exp(r.k, r.info))]]

codestring(ls, s) == K(ls, Constant(With(ls.fs, Exp("VOID", 0)), Str(<<s>>)))
checkname(ls) == luaX_next(codestring(ls, Name(ls)))

\* A name that is no variable is a field of _ENV.
singlevar(ls) ==
  LET v == Variable(ls, Name(ls))
      env == Variable(v.ls, "_ENV").ls
      key == codestring(env, Name(ls))
  IN luaX_next(IF v.k = "VOID" THEN K(key, luaK_indexed(key.fs, env.fs.e)) ELSE v.ls)

\* Makes nvars values of the nexps expressions, the last of which is fs.e.
adjust_assign(fs, nvars, nexps) ==
  LET extra == nvars - nexps
      open == IF extra + 1 < 0 THEN 0 ELSE extra + 1
      call == luaK_setreturns(fs, open)
      closed == IF fs.e.k = "VOID" THEN fs ELSE luaK_exp2nextreg(fs)
  IN IF hasmultret(fs.e) THEN IF open > 1 THEN luaK_reserveregs(call, open - 1) ELSE call
     ELSE IF extra > 0 THEN luaK_nil(luaK_reserveregs(closed, extra), closed.freereg, extra)
     ELSE closed

-----------------------------------------------------------------------------
(* Blocks, labels and gotos. *)

block_now(fs) == Last(fs.bl)

RemoveGoto(fs, g) == [fs EXCEPT !.gt = SubSeq(@, 1, g - 1) \o SubSeq(@, g + 1, Len(@))]

closegoto(fs, g, label) ==
  LET gt == fs.gt[g]
      s == IF gt.nactvar < label.nactvar THEN semerror(fs, "jumps into the scope of local") ELSE fs
  IN RemoveGoto(luaK_patchlist(s, gt.pc, label.pc), g)

\* The first label of the current block that the goto names, 0 if none.
visiblelabel(fs, g) ==
  LET found == {i \in DOMAIN fs.label : i > block_now(fs).firstlabel /\ fs.label[i].name = fs.gt[g].name}
  IN IF found = {} THEN 0 ELSE CHOOSE i \in found : \A j \in found : i <= j

\* Tries to close a goto with the labels seen so far (a backward jump).
findlabel(fs, g) ==
  LET i == visiblelabel(fs, g)
      gt == fs.gt[g]
      lb == fs.label[i]
      close == gt.nactvar > lb.nactvar /\ (block_now(fs).upval \/ Len(fs.label) > block_now(fs).firstlabel)
  IN IF i = 0 THEN fs
     ELSE closegoto(IF close THEN luaK_patchclose(fs, gt.pc, lb.nactvar) ELSE fs, g, lb)

NewLabel(fs, name, p) == [name |-> name, pc |-> p, nactvar |-> fs.nactvar]

\* Closes the block's pending gotos to a new label (forward jumps).
RECURSIVE findgotos(_, _, _)
findgotos(fs, lb, i) ==
  IF i > Len(fs.gt) THEN fs
  ELSE IF fs.gt[i].name = lb.name THEN findgotos(closegoto(fs, i, lb), lb, i)
  ELSE findgotos(fs, lb, i + 1)

\* The gotos that block bl leaves pending are tried against outer labels.
RECURSIVE movegotosout(_, _, _)
movegotosout(fs, bl, i) ==
  IF i > Len(fs.gt) THEN fs
  ELSE LET gt == fs.gt[i]
           closed == IF bl.upval THEN luaK_patchclose(fs, gt.pc, bl.nactvar) ELSE fs
           moved == IF gt.nactvar <= bl.nactvar THEN fs
                    ELSE [closed EXCEPT !.gt[i].nactvar = bl.nactvar]
           s == findlabel(moved, i)
       IN movegotosout(s, bl, IF Len(s.gt) = Len(fs.gt) THEN i + 1 ELSE i)

enterblock(fs, isloop) ==
  lua_assert([fs EXCEPT !.bl = Append(@, [isloop |-> isloop, nactvar |-> fs.nactvar, upval |-> FALSE,
                                          firstlabel |-> Len(fs.label), firstgoto |-> Len(fs.gt)])],
             "enterblock", fs.freereg = fs.nactvar)

leaveblock(fs) ==
  LET bl == block_now(fs)
      inner == Len(fs.bl) > 1
      j == luaK_jump(fs)
      closed == IF inner /\ bl.upval
                THEN luaK_patchtohere(luaK_patchclose(j, lastpc(j), bl.nactvar), lastpc(j)) ELSE fs
      broken == IF bl.isloop
                THEN findgotos(closed, NewLabel(closed, "break", pc(closed)), bl.firstgoto + 1)
                ELSE closed
      left == [removevars([broken EXCEPT !.bl = Front(@)], bl.nactvar)
                 EXCEPT !.freereg = bl.nactvar, !.label = SubSeq(@, 1, bl.firstlabel)]
  IN IF inner THEN movegotosout(left, bl, bl.firstgoto + 1)
     ELSE IF bl.firstgoto < Len(left.gt) THEN semerror(left, "no visible label") ELSE left

-----------------------------------------------------------------------------
(* Expressions. *)

RECURSIVE subexpr(_, _), constructor(_), body(_, _), statement(_)
expr(ls) == subexpr(ls, 0)

open_func(ls) ==
  [ls EXCEPT !.prev = Append(@, ls.fs),
             !.fs = enterblock([code |-> <<>>, lasttarget |-> 0, jpc |-> NO_JUMP, freereg |-> 0,
                                k |-> <<>>, p |-> <<>>, upvalues |-> <<>>, nactvar |-> 0, actvar |-> <<>>,
                                bl |-> <<>>, label |-> <<>>, gt |-> <<>>, maxstacksize |-> 2,
                                numparams |-> 0, is_vararg |-> FALSE, e |-> Exp("VOID", 0),
                                failed |-> {}, error |-> {}], FALSE)]

Proto(fs) ==
  [code |-> fs.code, k |-> fs.k, p |-> fs.p, upvalues |-> fs.upvalues, numparams |-> fs.numparams,
   is_vararg |-> fs.is_vararg, maxstacksize |-> fs.maxstacksize, failed |-> fs.failed, error |-> fs.error]
close_func(ls) == Proto(leaveblock(luaK_ret(ls.fs, 0, 0)))

\* fieldsel and yindex, after which fs.e is the key
fieldsel(ls) ==
  LET v == K(ls, luaK_exp2anyregup(ls.fs))
      key == checkname(luaX_next(v))
  IN K(key, luaK_indexed(key.fs, v.fs.e))
yindex(ls) == LET v == expr(luaX_next(ls)) IN luaX_next(K(v, luaK_exp2val(v.fs)))

\* The number of expressions is one more than the values on the stack above
\* the base.
RECURSIVE explist(_, _)
explist(ls, n) ==
  LET v == expr(ls) IN
  IF Tok(v) = "," THEN explist(luaX_next(K(v, luaK_exp2nextreg(v.fs))), n + 1)
  ELSE [ls |-> v, n |-> n]

luaK_setmultret(fs) == luaK_setreturns(fs, MULTRET)

\* fs.e is the function, in a register.
funcargs(ls) ==
  LET base == ls.fs.e.info
      list == explist(luaX_next(ls), 1).ls
      args == CASE Tok(ls) = "(" /\ ls.toks[2].t = ")" ->
                     luaX_next(luaX_next(K(ls, With(ls.fs, Exp("VOID", 0)))))
                [] Tok(ls) = "(" /\ ls.toks[2].t # ")" -> luaX_next(K(list, luaK_setmultret(list.fs)))
                [] Tok(ls) = "{" -> constructor(ls)
                [] Tok(ls) = "STRING" -> checkname(ls)
      open == hasmultret(args.fs.e)
      s == IF open \/ args.fs.e.k = "VOID" THEN args.fs ELSE luaK_exp2nextreg(args.fs)
      call == luaK_codeABC(s, "CALL", base, IF open THEN 0 ELSE s.freereg - base, 2)
  IN K(args, With([call EXCEPT !.freereg = base + 1], Exp("CALL", lastpc(call))))

primaryexp(ls) ==
  LET v == expr(luaX_next(ls)) IN
  IF Tok(ls) = "(" THEN luaX_next(K(v, luaK_dischargevars(v.fs))) ELSE singlevar(ls)

RECURSIVE suffixes(_)
suffixes(ls) ==
  LET v == luaK_exp2anyregup(ls.fs)
      key == yindex(K(ls, v))
      name == checkname(luaX_next(ls))
  IN CASE Tok(ls) = "." -> suffixes(fieldsel(ls))
       [] Tok(ls) = "[" -> suffixes(K(key, luaK_indexed(key.fs, v.e)))
       [] Tok(ls) = ":" -> suffixes(funcargs(K(name, luaK_self(With(name.fs, ls.fs.e), name.fs.e))))
       [] Tok(ls) \in {"(", "{", "STRING"} -> suffixes(funcargs(K(ls, luaK_exp2nextreg(ls.fs))))
       [] OTHER -> ls
suffixedexp(ls) == suffixes(primaryexp(ls))

simpleexp(ls) ==
  LET Is(e) == luaX_next(K(ls, With(ls.fs, e)))
      dots == luaK_codeABC(ls.fs, "VARARG", 0, 1, 0)
  IN CASE Tok(ls) = "INT" -> Is(Exp("KINT", Head(ls.toks).v))
       [] Tok(ls) = "STRING" -> checkname(ls)
       [] Tok(ls) = "nil" -> Is(Exp("NIL", 0))
       [] Tok(ls) = "true" -> Is(Exp("TRUE", 0))
       [] Tok(ls) = "false" -> Is(Exp("FALSE", 0))
       [] Tok(ls) = "..." -> luaX_next(K(ls, With(dots, Exp("VARARG", lastpc(dots)))))
       [] Tok(ls) = "{" -> constructor(ls)
       [] Tok(ls) = "function" -> body(luaX_next(ls), FALSE)
       [] OTHER -> suffixedexp(ls)

getunopr(t) == CASE t = "not" -> "NOT" [] t = "-" -> "UNM" [] t = "#" -> "LEN" [] OTHER -> ""

Pair(x, y) == <<x, y>>
binary == << Pair("or", "OR"), Pair("and", "AND"), Pair("<", "LT"), Pair(">", "GT"), Pair("<=", "LE"),
             Pair(">=", "GE"), Pair("~=", "NE"), Pair("==", "EQ"), Pair("..", "CONCAT"), Pair("+", "ADD"),
             Pair("-", "SUB"), Pair("*", "MUL"), Pair("//", "IDIV"), Pair("%", "MOD") >>
getbinopr(t) == IF \E i \in DOMAIN binary : binary[i][1] = t
                THEN binary[CHOOSE i \in DOMAIN binary : binary[i][1] = t][2] ELSE ""

\* The left and right priority of an operator.
priority(op) == CASE op = "OR" -> <<1, 1>> [] op = "AND" -> <<2, 2>>
                  [] op \in {"LT", "GT", "LE", "GE", "NE", "EQ"} -> <<3, 3>>
                  [] op = "CONCAT" -> <<9, 8>> [] op \in {"ADD", "SUB"} -> <<10, 10>>
                  [] op \in {"MUL", "IDIV", "MOD"} -> <<11, 11>>
UNARY_PRIORITY == 12

\* Reads on while operators have a priority higher than the limit.
RECURSIVE binops(_, _)
binops(ls, limit) ==
  LET op == getbinopr(Tok(ls))
      v == luaX_next(K(ls, luaK_infix(ls.fs, op)))
      v2 == subexpr(v, priority(op)[2])
  IN IF op = "" THEN ls
     ELSE IF priority(op)[1] <= limit THEN ls
     ELSE binops(K(v2, luaK_posfix(v2.fs, op, v.fs.e)), limit)

subexpr(ls, limit) ==
  LET op == getunopr(Tok(ls))
      v == subexpr(luaX_next(ls), UNARY_PRIORITY)
  IN binops(IF op = "" THEN simpleexp(ls) ELSE K(v, luaK_prefix(v.fs, op)), limit)

(* Constructors; cc is the table's register, the last list item and counts. *)

recfield(ls, cc) ==
  LET reg == ls.fs.freereg
      key == IF Tok(ls) = "NAME" THEN checkname(ls) ELSE yindex(ls)
      rk == luaK_exp2RK(key.fs)
      val == expr(luaX_next(K(key, rk)))
      v == luaK_exp2RK(val.fs)
      s == luaK_codeABC(v, "SETTABLE", cc.t, RK(rk.e), RK(v.e))
  IN [ls |-> K(val, [s EXCEPT !.freereg = reg]), cc |-> [cc EXCEPT !.nh = @ + 1]]

listfield(ls, cc) ==
  LET v == expr(ls)
  IN [ls |-> v, cc |-> [cc EXCEPT !.v = v.fs.e, !.na = @ + 1, !.tostore = @ + 1]]

\* The item is put on the stack, and a full batch of items into the table.
closelistfield(fs, cc) ==
  LET s == luaK_exp2nextreg(With(fs, cc.v)) IN
  IF cc.v.k = "VOID" THEN [fs |-> fs, cc |-> cc]
  ELSE IF cc.tostore = LFIELDS_PER_FLUSH
  THEN [fs |-> luaK_setlist(s, cc.t, cc.na, cc.tostore),
        cc |-> [cc EXCEPT !.v.k = "VOID", !.tostore = 0]]
  ELSE [fs |-> s, cc |-> [cc EXCEPT !.v.k = "VOID"]]

lastlistfield(fs, cc) ==
  LET s == With(fs, cc.v) IN
  IF cc.tostore = 0 THEN fs
  ELSE IF hasmultret(cc.v) THEN luaK_setlist(luaK_setmultret(s), cc.t, cc.na, MULTRET)
  ELSE luaK_setlist(IF cc.v.k = "VOID" THEN s ELSE luaK_exp2nextreg(s), cc.t, cc.na, cc.tostore)

RECURSIVE fields(_, _)
fields(ls, cc) ==
  LET c == closelistfield(ls.fs, cc)
      r == IF Tok(ls) = "[" \/ (Tok(ls) = "NAME" /\ ls.toks[2].t = "=")
           THEN recfield(K(ls, c.fs), c.cc) ELSE listfield(K(ls, c.fs), c.cc)
  IN IF Tok(ls) = "}" THEN [ls |-> ls, cc |-> cc]
     ELSE IF Tok(r.ls) = "," THEN fields(luaX_next(r.ls), r.cc) ELSE r

\* Hints of sizes in OP_NEWTABLE are left out.
constructor(ls) ==
  LET new == luaK_codeABC(ls.fs, "NEWTABLE", 0, 0, 0)
      t == luaK_exp2nextreg(With(new, Exp("RELOCABLE", lastpc(new))))
      r == fields(luaX_next(K(ls, t)),
                  [t |-> t.e.info, v |-> Exp("VOID", 0), nh |-> 0, na |-> 0, tostore |-> 0])
  IN luaX_next(K(r.ls, With(lastlistfield(r.ls.fs, r.cc), t.e)))

-----------------------------------------------------------------------------
(* Functions. *)

RECURSIVE params(_)
params(ls) ==
  CASE Tok(ls) = "NAME" -> params(luaX_next(new_localvar(ls, Name(ls))))
    [] Tok(ls) = "," -> params(luaX_next(ls))
    [] Tok(ls) = "..." -> luaX_next([ls EXCEPT !.fs.is_vararg = TRUE])
    [] OTHER -> ls

parlist(ls) ==
  LET s == params(ls)
      n == Len(s.fs.actvar)
  IN K(s, luaK_reserveregs([s.fs EXCEPT !.nactvar = n, !.numparams = n], n))

block_follow(ls, withuntil) ==
  Tok(ls) \in {"else", "elseif", "end", "EOS"} \/ (withuntil /\ Tok(ls) = "until")

RECURSIVE statlist(_)
statlist(ls) ==
  LET s == statement(ls) IN
  IF block_follow(ls, TRUE) THEN ls ELSE IF Tok(ls) = "return" THEN s ELSE statlist(s)

\* The prototype is added to the enclosing function, which makes the closure.
body(ls, ismethod) ==
  LET f == luaX_next(open_func(ls))
      s == statlist(luaX_next(parlist(IF ismethod THEN new_localvar(f, "self") ELSE f)))
      proto == close_func(s)
      outer == [Last(s.prev) EXCEPT !.p = Append(@, proto), !.failed = @ \cup proto.failed,
                                    !.error = @ \cup proto.error]
      made == luaK_codeABC(outer, "CLOSURE", 0, Len(outer.p) - 1, 0)
  IN [luaX_next(s) EXCEPT !.prev = Front(@),
        !.fs = luaK_exp2nextreg(With(made, Exp("RELOCABLE", lastpc(made))))]

-----------------------------------------------------------------------------
(* Statements. *)

block(ls) ==
  LET s == statlist(K(ls, enterblock(ls.fs, FALSE))) IN K(s, leaveblock(s.fs))

\* A local or upvalue v that an earlier target of the assignment uses as its
\* table or index is copied for it.
check_conflict(fs, lh, v) ==
  LET tab(x) == x.k = "INDEXED" /\ x.ind.vt = v.k /\ x.ind.t = v.info
      idx(x) == x.k = "INDEXED" /\ v.k = "LOCAL" /\ x.ind.idx = v.info
      conflict == \E i \in DOMAIN lh : tab(lh[i]) \/ idx(lh[i])
      safe(x) == [x EXCEPT !.ind.vt = IF tab(x) THEN "LOCAL" ELSE @,
                           !.ind.t = IF tab(x) THEN fs.freereg ELSE @,
                           !.ind.idx = IF idx(x) THEN fs.freereg ELSE @]
      copy == luaK_codeABC(fs, IF v.k = "LOCAL" THEN "MOVE" ELSE "GETUPVAL", fs.freereg, v.info, 0)
  IN IF conflict THEN [fs |-> luaK_reserveregs(copy, 1), lh |-> [i \in DOMAIN lh |-> safe(lh[i])]]
     ELSE [fs |-> fs, lh |-> lh]

\* Each target takes the value on top of the stack, the last target first.
storeall(fs, lh) ==
  LET store(s, var) == luaK_storevar(With(s, Exp("NONRELOC", s.freereg - 1)), var)
  IN FoldLeft(store, fs, Reverse(lh))

RECURSIVE assignment(_, _)
assignment(ls, lh) ==
  LET v == suffixedexp(luaX_next(ls))
      c == IF v.fs.e.k = "INDEXED" THEN [fs |-> v.fs, lh |-> lh] ELSE check_conflict(v.fs, lh, v.fs.e)
      list == explist(luaX_next(ls), 1)
      nvars == Len(lh)
      s == adjust_assign(list.ls.fs, nvars, list.n)
      over == IF list.n > nvars THEN list.n - nvars ELSE 0
  IN IF Tok(ls) = "," THEN assignment(K(v, c.fs), Append(c.lh, v.fs.e))
     ELSE IF list.n = nvars
     THEN K(list.ls, storeall(luaK_storevar(luaK_setoneret(list.ls.fs), Last(lh)), Front(lh)))
     ELSE K(list.ls, storeall([s EXCEPT !.freereg = @ - over], lh))

\* The jumps when false are then in fs.e.f.
cond(ls) ==
  LET v == expr(ls)
  IN K(v, luaK_goiftrue(IF v.fs.e.k = "NIL" THEN [v.fs EXCEPT !.e.k = "FALSE"] ELSE v.fs))

\* A goto or break whose jumps are the list p.
gotostat(ls, p) ==
  LET s == IF Tok(ls) = "goto" THEN luaX_next(ls) ELSE ls
      name == IF Tok(ls) = "goto" THEN Name(s) ELSE "break"
      fs == [ls.fs EXCEPT !.gt = Append(@, NewLabel(ls.fs, name, p))]
  IN luaX_next(K(s, findlabel(fs, Len(fs.gt))))

RECURSIVE skipnoopstat(_)
skipnoopstat(ls) == IF Tok(ls) \in {";", "::"} THEN skipnoopstat(statement(ls)) ELSE ls

\* Mutant of labelstat: a label that ends its block is inside its scopes.
labelstat_scope(ls) ==
  LET name == Name(ls)
      bl == block_now(ls.fs)
      repeated == \E i \in DOMAIN ls.fs.label : i > bl.firstlabel /\ ls.fs.label[i].name = name
      checked == IF repeated THEN semerror(ls.fs, "label already defined") ELSE ls.fs
      l == Len(checked.label) + 1
      s == skipnoopstat(luaX_next(luaX_next(
             K(ls, [checked EXCEPT !.label = Append(@, NewLabel(checked, name, pc(checked)))]))))
  IN K(s, findgotos(s.fs, s.fs.label[l], bl.firstgoto + 1))

\* A label that ends its block counts as after the scope of the block's locals.
labelstat(ls) ==
  LET name == Name(ls)
      bl == block_now(ls.fs)
      repeated == \E i \in DOMAIN ls.fs.label : i > bl.firstlabel /\ ls.fs.label[i].name = name
      checked == IF repeated THEN semerror(ls.fs, "label already defined") ELSE ls.fs
      l == Len(checked.label) + 1
      s == skipnoopstat(luaX_next(luaX_next(
             K(ls, [checked EXCEPT !.label = Append(@, NewLabel(checked, name, pc(checked)))]))))
      t == IF block_follow(s, FALSE) THEN [s.fs EXCEPT !.label[l].nactvar = bl.nactvar] ELSE s.fs
  IN K(s, findgotos(t, t.label[l], bl.firstgoto + 1))

luaK_jumpto(fs, target) == LET s == luaK_jump(fs) IN luaK_patchlist(s, lastpc(s), target)

whilestat(ls) ==
  LET whileinit == pc(ls.fs)
      c == cond(luaX_next(K(ls, luaK_getlabel(ls.fs))))
      s == block(luaX_next(K(c, enterblock(c.fs, TRUE))))
  IN luaX_next(K(s, luaK_patchtohere(leaveblock(luaK_jumpto(s.fs, whileinit)), c.fs.e.f)))

\* The condition is inside the scope of the block.
repeatstat(ls) ==
  LET repeat_init == pc(ls.fs)
      s == statlist(luaX_next(K(ls, enterblock(enterblock(luaK_getlabel(ls.fs), TRUE), FALSE))))
      c == cond(luaX_next(s))
      bl2 == block_now(c.fs)
      closed == IF bl2.upval THEN luaK_patchclose(c.fs, c.fs.e.f, bl2.nactvar) ELSE c.fs
  IN K(c, leaveblock(luaK_patchlist(leaveblock(closed), c.fs.e.f, repeat_init)))

exp1(ls) == LET v == expr(ls) IN K(v, luaK_exp2nextreg(v.fs))

forbody(ls, base, nvars, isnum) ==
  LET c == luaX_next(adjustlocalvars(ls, 3))
      prep == IF isnum THEN luaK_codeABC(c.fs, "FORPREP", base, NO_JUMP, 0) ELSE luaK_jump(c.fs)
      v == adjustlocalvars(K(c, enterblock(prep, FALSE)), nvars)
      b == block(K(v, luaK_reserveregs(v.fs, nvars)))
      e == luaK_patchtohere(leaveblock(b.fs), lastpc(prep))
      loop == IF isnum THEN luaK_codeABC(e, "FORLOOP", base, NO_JUMP, 0)
              ELSE luaK_codeABC(luaK_codeABC(e, "TFORCALL", base, 0, nvars), "TFORLOOP", base + 2, NO_JUMP, 0)
  IN K(b, luaK_patchlist(loop, lastpc(loop), lastpc(prep) + 1))

fornum(ls, varname) ==
  LET base == ls.fs.freereg
      v == new_localvars(ls, <<"(for index)", "(for limit)", "(for step)", varname>>)
      limit == exp1(luaX_next(exp1(luaX_next(v))))
      one == Constant(limit.fs, Integer(1))
      s == IF Tok(limit) = "," THEN exp1(luaX_next(limit))
           ELSE K(limit, luaK_reserveregs(luaK_codek(one, one.freereg, one.e.info), 1))
  IN forbody(s, base, 1, TRUE)

RECURSIVE fornames(_)
fornames(ls) ==
  CASE Tok(ls) = "," -> fornames(luaX_next(ls))
    [] Tok(ls) = "NAME" -> fornames(luaX_next(new_localvar(ls, Name(ls))))
    [] Tok(ls) = "in" -> ls

forlist(ls, indexname) ==
  LET base == ls.fs.freereg
      v == fornames(new_localvars(ls, <<"(for generator)", "(for state)", "(for control)", indexname>>))
      list == explist(luaX_next(v), 1)
      s == luaK_checkstack(adjust_assign(list.ls.fs, 3, list.n), 3)
  IN forbody(K(list.ls, s), base, Len(v.fs.actvar) - ls.fs.nactvar - 3, FALSE)

forstat(ls) ==
  LET n == luaX_next(K(ls, enterblock(ls.fs, TRUE)))
      isnum == n.toks[2].t = "="
      v == luaX_next(n)
      s == IF isnum THEN fornum(v, Name(n)) ELSE forlist(v, Name(n))
  IN luaX_next(K(s, leaveblock(s.fs)))

\* One [IF | ELSEIF] cond THEN block; returns the list of jumps to the end.
test_then_block(ls, escapelist) ==
  LET v == expr(luaX_next(ls))
      then == luaX_next(v)
      jumps == Tok(then) \in {"goto", "break"}
      f == luaK_goiffalse(v.fs)
      g == skipnoopstat(gotostat(K(then, enterblock(f, FALSE)), f.e.t))
      skip == luaK_jump(g.fs)
      t == luaK_goiftrue(v.fs)
      jf == IF jumps THEN lastpc(skip) ELSE t.e.f
      s == statlist(IF jumps THEN K(g, skip) ELSE K(then, enterblock(t, FALSE)))
      left == leaveblock(s.fs)
      more == Tok(s) \in {"else", "elseif"}
      j == luaK_jump(left)
  IN IF jumps /\ block_follow(g, FALSE) THEN [ls |-> K(g, leaveblock(g.fs)), escapelist |-> escapelist]
     ELSE IF more
     THEN [ls |-> K(s, luaK_patchtohere(luaK_concat(j, escapelist, lastpc(j)), jf)),
           escapelist |-> joined(escapelist, lastpc(j))]
     ELSE [ls |-> K(s, luaK_patchtohere(left, jf)), escapelist |-> escapelist]

RECURSIVE test_then_blocks(_, _)
test_then_blocks(ls, escapelist) ==
  LET r == test_then_block(ls, escapelist)
  IN IF Tok(r.ls) = "elseif" THEN test_then_blocks(r.ls, r.escapelist) ELSE r

ifstat(ls) ==
  LET r == test_then_blocks(ls, NO_JUMP)
      s == IF Tok(r.ls) = "else" THEN block(luaX_next(r.ls)) ELSE r.ls
  IN luaX_next(K(s, luaK_patchtohere(s.fs, r.escapelist)))

localfunc(ls) == body(luaX_next(adjustlocalvars(new_localvar(ls, Name(ls)), 1)), FALSE)

RECURSIVE localnames(_)
localnames(ls) ==
  LET s == luaX_next(new_localvar(ls, Name(ls)))
  IN IF Tok(s) = "," THEN localnames(luaX_next(s)) ELSE s

localstat(ls) ==
  LET v == localnames(ls)
      nvars == Len(v.fs.actvar) - ls.fs.nactvar
      list == IF Tok(v) = "=" THEN explist(luaX_next(v), 1)
              ELSE [ls |-> K(v, With(v.fs, Exp("VOID", 0))), n |-> 0]
  IN adjustlocalvars(K(list.ls, adjust_assign(list.ls.fs, nvars, list.n)), nvars)

RECURSIVE funcname(_)
funcname(ls) == IF Tok(ls) \in {".", ":"} THEN funcname(fieldsel(ls)) ELSE ls

funcstat(ls) ==
  LET v == funcname(singlevar(luaX_next(ls)))
      ismethod == \E i \in DOMAIN ls.toks : ls.toks[i].t = ":" /\ Len(ls.toks) - i >= Len(v.toks)
      b == body(v, ismethod)
  IN K(b, luaK_storevar(b.fs, v.fs.e))

exprstat(ls) ==
  LET v == suffixedexp(ls) IN
  IF Tok(v) \in {"=", ","} THEN assignment(v, <<v.fs.e>>)
  ELSE [v EXCEPT !.fs.code[v.fs.e.info + 1].c = 1]

retstat(ls) ==
  LET none == block_follow(ls, TRUE) \/ Tok(ls) = ";"
      list == explist(ls, 1)
      v == list.ls
      first == v.fs.nactvar
      open == luaK_setmultret(v.fs)
      call == IF v.fs.e.k = "CALL" /\ list.n = 1
              THEN lua_assert([open EXCEPT !.code[v.fs.e.info + 1].op = "TAILCALL"], "tailcall",
                              At(open, v.fs.e.info).a = first)
              ELSE open
      one == luaK_exp2anyreg(v.fs)
      all == luaK_exp2nextreg(v.fs)
      s == IF none THEN K(ls, luaK_ret(ls.fs, 0, 0))
           ELSE IF hasmultret(v.fs.e) THEN K(v, luaK_ret(call, first, MULTRET))
           ELSE IF list.n = 1 THEN K(v, luaK_ret(one, one.e.info, 1))
           ELSE K(v, luaK_ret(lua_assert(all, "return", list.n = all.freereg - first), first, list.n))
  IN testnext(s, ";")

statement(ls) ==
  LET next == luaX_next(ls)
      s == CASE Tok(ls) = ";" -> next
             [] Tok(ls) = "if" -> ifstat(ls)
             [] Tok(ls) = "while" -> whilestat(ls)
             [] Tok(ls) = "do" -> luaX_next(block(next))
             [] Tok(ls) = "for" -> forstat(ls)
             [] Tok(ls) = "repeat" -> repeatstat(ls)
             [] Tok(ls) = "function" -> funcstat(ls)
             [] Tok(ls) = "local" /\ Tok(next) = "function" -> localfunc(luaX_next(next))
             [] Tok(ls) = "local" /\ Tok(next) # "function" -> localstat(next)
             [] Tok(ls) = "::" -> labelstat(next)
             [] Tok(ls) = "return" -> retstat(next)
             [] Tok(ls) \in {"break", "goto"} ->
                  LET j == luaK_jump(ls.fs) IN gotostat(K(ls, j), lastpc(j))
             [] OTHER -> exprstat(ls)
      fs == lua_assert(s.fs, "statement", s.fs.freereg \in s.fs.nactvar .. s.fs.maxstacksize)
  IN K(s, [fs EXCEPT !.freereg = fs.nactvar])

\* luaY_parser and mainfunc: the program is a vararg function with the single
\* upvalue _ENV.
Compile(tokens) ==
  LET f == open_func([toks |-> tokens, prev |-> <<>>, fs |-> [e |-> Exp("VOID", 0)]])
      main == newupvalue([f.fs EXCEPT !.is_vararg = TRUE], "_ENV", "LOCAL", 0)
  IN close_func(statlist([f EXCEPT !.prev = <<>>, !.fs = main]))

=============================================================================
