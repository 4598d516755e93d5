------------------------------ MODULE LuaValue ------------------------------
(***************************************************************************)
(* The Lua values that compiled programs of LuaVM and their meaning in     *)
(* LuaMeaning share: nil, booleans, integers, strings, tables, functions.  *)
(* A string is a sequence of pieces, of which only the order matters.      *)
(***************************************************************************)
EXTENDS Integers, Sequences

Tagged(t, v) == [t |-> t, v |-> v, s |-> <<>>]
Nil == Tagged("nil", 0)
Bool(b) == Tagged("bool", IF b THEN 1 ELSE 0)
Integer(n) == Tagged("int", n)
Str(s) == [t |-> "str", v |-> 0, s |-> s]
Table(id) == Tagged("table", id)
Function(id) == Tagged("function", id)
CFunction(name) == [t |-> "cfunction", v |-> 0, s |-> <<name>>]

l_isfalse(v) == v \in {Nil, Bool(FALSE)}

\* intarith: floor division and modulus; floats and bitwise operations are
\* left out.
Arithmetic == {"ADD", "SUB", "MUL", "MOD", "IDIV", "UNM"}
intarith(op, m, n) ==
  CASE op = "ADD" -> m + n
    [] op = "SUB" -> m - n
    [] op = "MUL" -> m * n
    [] op = "IDIV" -> IF n > 0 THEN m \div n ELSE (-m) \div (-n)
    [] op = "MOD" -> IF n > 0 THEN m % n ELSE -((-m) % (-n))
    [] op = "UNM" -> -m

\* Division by zero is an error, and is not folded.
validop(op, n) == op \in {"MOD", "IDIV"} => n # 0

=============================================================================
