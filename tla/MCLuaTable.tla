----------------------------- MODULE MCLuaTable ------------------------------
(* LuaTable for TLC, with either of two sets of keys: one that fills array   *)
(* parts, and one whose strings collide in every hash part.                  *)
EXTENDS LuaTable

VARIABLE keys   \* the keys that the program uses

str(n) == [tt |-> "str", n |-> n]
Dense == {int(1), int(2), int(3), str(8)}
Colliding == {int(2), str(0), str(4), str(8)}

MCInit == Init /\ keys \in {Dense, Colliding}
MCNext ==
  /\ Next /\ UNCHANGED keys
  /\ \A n \in DOMAIN t'.node : t'.node[n].key \in keys \cup {NULL}
  /\ \A i \in DOMAIN todo' : todo'[i].key \in keys \cup {NULL}
  /\ \A k \in Key \ keys : content'[k] = NULL
MCSpec == MCInit /\ [][MCNext]_<<vars, keys>>

=============================================================================
