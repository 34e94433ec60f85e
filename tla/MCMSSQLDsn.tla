----------------------------- MODULE MCMSSQLDsn -----------------------------
(* The parser over every connection string the grammar builds from parts *)
(* of up to two letters.  MCInputs, every string of up to five characters *)
(* from the separators and one letter, is the input set under which TLC   *)
(* violates MissingDatabaseRejected; GrammarParsed says nothing of such   *)
(* strings, so its run takes none (MCNoInputs).                            *)
EXTENDS MSSQLDsn

MCDefaultDriver == <<"SQL Server">>
MCParts == SeqOf({"a"}, 2)
MCInputs == SeqOf({"@", ":", "/", "(", ")", "a"}, 5)
MCNoInputs == {}
=============================================================================
