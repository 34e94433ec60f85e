-------------------------- MODULE MCSqliteDatabase --------------------------
(* Three connections' worth of opens; one type with an UPDATE statement  *)
(* cached and no DELETE statement.                                         *)
EXTENDS SqliteDatabase

MCKeys == {"person_UPDATE", "person_DELETE"}
MCCached == {"person_UPDATE"}
=============================================================================
