--------------------------- MODULE MCObjectValue ---------------------------
(* Instances of the single-field accessor for TLC.                       *)
EXTENDS ObjectValue

CONSTANTS o1, v1

(* An object of a type with two int fields, a varchar and an object    *)
(* pointer; callers name every field and one unknown name.               *)
MCObjects == {o1}
MCFieldKind == [a |-> "int", b |-> "int", s |-> "varchar", p |-> "object"]
MCNames == {"a", "b", "s", "p", "missing"}
MCTypes == {"int", "varchar_base", "object*"}
MCVals == {Zero, v1}

(* std::string as T: the varchar field is read and written as a string. *)
StringTypes == {"string", "varchar_base"}
=============================================================================
