--------------------------- MODULE MCMySQLResult ---------------------------
(* Instances of the MySQL result cursor for TLC.                          *)
EXTENDS MySQLResult

(* Passing model: a record with a long, a bool and a char[3] field read   *)
(* from result sets of up to two rows of digit texts.                      *)
MCKind == <<"long", "bool", "cstr">>
MCColumnValues == {<<>>, <<"1">>, <<"2", "1">>}
MCInitRecord == <<7, FALSE, CBuf(<<"2">>, TRUE, FALSE)>>

(* A single char field; columns of one and two characters.               *)
CharKind == <<"char">>
CharColumnValues == {<<"1">>, <<"2", "1">>}
CharInitRecord == <<"2">>

(* A long field; a column whose text is not a number.                    *)
LongKind == <<"long">>
TextColumnValues == {<<"x">>, <<"1">>}
LongInitRecord == <<7>>

(* A char[2] field; columns of one, two and three characters.            *)
CstrKind == <<"cstr">>
LongTextColumnValues == {<<"1">>, <<"2", "1">>, <<"1", "2", "1">>}
CstrInitRecord == <<CBuf(<<>>, TRUE, FALSE)>>

(* A long field; a SQL NULL column.                                       *)
NullColumnValues == {NULL, <<"1">>}
=============================================================================
