----------------------- MODULE MCObjectValueThreads -----------------------
(* Two threads, each with its own object of two int fields; each updates *)
(* one field of its object, named correctly or not.                       *)
EXTENDS ObjectValueThreads

CONSTANTS t1, t2, o1, o2, v1, v2

MCThreads == {t1, t2}
MCObjects == {o1, o2}
MCOwner == [t \in MCThreads |-> IF t = t1 THEN {o1} ELSE {o2}]
MCFieldOrder == <<"a", "b">>
MCNames == {"a", "b", "missing"}
MCVals == {v1, v2}
=============================================================================
