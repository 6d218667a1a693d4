----------------------------- MODULE MCSessions -----------------------------
(***************************************************************************)
(* Three connections compete for two slots, with an admin key and a        *)
(* readonly key at the start and room for a third.                         *)
(***************************************************************************)
EXTENDS Sessions

CONSTANTS root, guest, new, t1, t2, t3

MCFirstKeys ==
  <<[name |-> root, role |-> "admin", token |-> t1],
    [name |-> guest, role |-> "readonly", token |-> t2]>>

Line(op, arg) == [op |-> op, arg |-> arg]

MCLines ==
  {Line("AUTH", t1), Line("AUTH", t2), Line("DEL_KEY", root),
   Line("ADD_KEY", [name |-> new, role |-> "admin"]),
   Line("WHOAMI", "none"), Line("ADD", "none")}

MCSplitLines == {Line("WHOAMI", "none")}
=============================================================================
