--------------------------- MODULE MCMSSQLDatabase ---------------------------
(* One well-formed connection string with a password and one without an  *)
(* '@'; every ODBC call may fail; three opens' worth of handles.          *)
EXTENDS MSSQLDatabase

MCDsns == {<<"u", ":", "p", "@", "h", "/", "d">>, <<"h", "/", "d">>}
MCDefaultDriver == <<"SQL Server">>
MCHardDatabase == <<"test">>
MCHardPwd == <<"sascha">>
=============================================================================
