-------------------------------- MODULE MCLua -------------------------------
(***************************************************************************)
(* Programs compiled by LuaParser, run by LuaVM and compared with their    *)
(* meaning in LuaMeaning.  Each initial state is a program of Chosen, which *)
(* the first step compiles.                                                *)
(***************************************************************************)
EXTENDS LuaVM

CONSTANTS
  Chosen(_),  \* some syntax trees of each kind
  Case(_),    \* a tree with its code, its meaning, and whether it is legal
  MAXSTEPS    \* instructions within which each of them ends
VARIABLES program, steps

Manual == INSTANCE LuaMeaning
Statements == INSTANCE MCLuaStatements
Gotos == INSTANCE MCLuaGotos
Calls == INSTANCE MCLuaCalls

CaseOf(tree) ==
  LET legal == Gotos!Legal(tree, FALSE) /\ Gotos!Leaving(tree) = {}
  IN [legal |-> legal, main |-> Compile(Manual!Tokens(tree)),
      meaning |-> IF legal THEN Manual!Meaning(tree, CFunctions)
                  ELSE [out |-> <<>>, error |-> FALSE, vals |-> <<>>]]
Kinds == {"expressions", "statements", "gotos", "calls", "quirks"}
AllPrograms(kind) ==
  LET quirks == {} IN
  CASE kind = "expressions" -> Statements!ExpressionPrograms
    [] kind = "statements" -> Statements!Programs
    [] kind = "gotos" -> Gotos!Programs
    [] kind = "calls" -> Calls!Programs
    [] kind = "quirks" -> quirks
GotoNext(kind) == IF kind = "quirks" THEN Gotos!GotoNext ELSE {}

-----------------------------------------------------------------------------
Init ==
  /\ \E kind \in Kinds : \E tree \in Chosen(kind) : program = [tree |-> tree, legal |-> FALSE, meaning |-> <<>>]
  /\ main = [error |-> {"not compiled"}, failed |-> {}]
  /\ vm = [status |-> "source"]
  /\ steps = 0
Compiles ==
  /\ vm.status = "source"
  /\ \E c \in {Case(program.tree)} :
       /\ main' = c.main
       /\ program' = [program EXCEPT !.legal = c.legal, !.meaning = c.meaning]
       /\ vm' = [status |-> IF c.main.error = {} THEN "compiled" ELSE "refused"]
  /\ UNCHANGED steps
Starts == vm.status = "compiled" /\ vm' = Started /\ UNCHANGED <<main, program, steps>>
Next == Compiles \/ Starts \/ (Running /\ steps' = steps + 1 /\ UNCHANGED program)

-----------------------------------------------------------------------------
\* Every program ends, if the coroutine is resumed whenever it yields; a
\* program that has ended has emitted what its tree means, in that order,
\* and has ended with an error where, and with the value that, the tree does:
\* the code generator's registers, jump lists, constants and upvalues, and the
\* machine's calls, errors and metamethods have no effect of their own.  That
\* fails where `<=` called a metamethod that yielded, and luaV_finishOp finds no
\* __le in the first operand although the second has one, or looks for it
\* beyond the frame because the first operand is a constant.
CompiledRunsAsWritten ==
  /\ steps <= MAXSTEPS
  /\ vm.status \in {"dead", "error"} /\ ~vm.misread =>
       /\ vm.out = program.meaning.out
       /\ (vm.status = "error") = program.meaning.error
       /\ vm.status = "error" => TopValue(vm) = program.meaning.vals[1]

\* The parser refuses exactly the programs whose gotos break the rules of the
\* manual: jumps into blocks or functions or into the scope of a local
\* variable, and labels that are repeated or missing.
RefusesOnlyIllegalGotos == (main.error = {}) = program.legal

\* The lua_asserts of the code generator and the parser hold for all programs,
\* above all that registers are freed in the order of the stack, and every
\* instruction of every function keeps within its frame, its constants, its
\* functions and its code, whatever the machine does with it.
RECURSIVE ProtosOf(_)
ProtosOf(p) == {p} \cup UNION {ProtosOf(p.p[j]) : j \in DOMAIN p.p}
jumping == {"JMP", "FORPREP", "FORLOOP", "TFORLOOP"}
lastregister(i) ==
  CASE i.op = "LOADNIL" -> i.a + i.b
    [] i.op = "SELF" -> i.a + 1
    [] i.op \in {"CALL", "TAILCALL"} -> i.a + (IF i.b > 0 THEN i.b - 1 ELSE 0)
    [] i.op \in {"FORLOOP", "FORPREP"} -> i.a + 3
    [] i.op = "TFORCALL" -> i.a + 2 + (IF i.c > 3 THEN i.c ELSE 3)
    [] i.op = "CONCAT" -> i.c
    [] i.op \in {"EXTRAARG", "JMP", "EQ", "LT", "LE", "SETTABUP"} -> 0
    [] OTHER -> i.a
CodeIsWellFormed ==
  /\ main.failed = {}
  /\ main.error = {} =>
    \A p \in ProtosOf(main) : \A n \in DOMAIN p.code :
      LET i == p.code[n] IN
      /\ lastregister(i) < p.maxstacksize
      /\ i.op \in jumping => n + 1 + i.b \in DOMAIN p.code
      /\ i.op = "LOADK" => i.b \in 0 .. Len(p.k) - 1
      /\ \A arg \in {i.b, i.c} : i.op \in Arithmetic \cup {"EQ", "LT", "LE", "SETTABLE"} /\ ISK(arg) =>
           arg - BITRK \in 0 .. Len(p.k) - 1

-----------------------------------------------------------------------------
\* Every open upvalue is the variable of a function that is still running,
\* in the part of the stack that is in use.
OpenUpvaluesAreLive ==
  vm.status \in {"run", "yield", "dead"} =>
    \A u \in DOMAIN vm.upvals : vm.upvals[u].open =>
      \E j \in DOMAIN vm.ci :
        vm.ci[j].isLua /\ vm.upvals[u].level \in vm.ci[j].base .. vm.ci[j].top - 1

\* An event that a metatable notes as absent is absent.
AbsencesAreTrue ==
  vm.status \in {"run", "yield", "dead", "error"} =>
    \A t \in DOMAIN vm.tables : \A e \in vm.tables[t].flags : luaH_get(vm, t, Event(e)) = Nil

=============================================================================
