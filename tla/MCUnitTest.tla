----------------------------- MODULE MCUnitTest -----------------------------
(* Two tests and an unknown name; one passing assertion per test run.     *)
EXTENDS UnitTest

MCTestOrder == <<"t1", "t2">>
MCNames == {"t1", "t2", "t3"}
=============================================================================
