---------------------------- MODULE MSSQLDatabase ----------------------------
(***************************************************************************)
(* The MSSQL backend connection of                                         *)
(* src/src/database/mssql/mssql_database.cpp over the ODBC driver manager. *)
(*                                                                         *)
(* The driver manager's handles are numbered 1..MaxHandles in allocation  *)
(* order; kind[h] is what h is now ("free", "env" or "dbc") and parent[h]  *)
(* the environment a connection handle was allocated on.  connected is    *)
(* the set of connection handles with a live server connection.  The      *)
(* object's members are odbc_, connection_ and is_open_.  Every ODBC call *)
(* the code checks may fail (Failures); the ODBC rules used are those of  *)
(* the ODBC 3 reference: a failed SQLAllocHandle writes a null handle to   *)
(* its output, a failed SQLDisconnect leaves the connection up, and        *)
(* SQLFreeHandle(SQL_HANDLE_ENV) fails while a connection handle is still *)
(* allocated on the environment.                                           *)
(*                                                                         *)
(* execute, create_result and create_statement are stubs that return a    *)
(* null pointer and send nothing; serverTx is the server's transaction,   *)
(* which only SQL that reaches the server could change.                   *)
(***************************************************************************)
EXTENDS Naturals, Sequences, FiniteSets

CONSTANTS
  Dsns,          \* the connection strings on_open is called with
  MaxHandles,    \* handles the driver manager hands out in one behaviour
  Failures,      \* the ODBC calls that may fail: "alloc_env", "set_version",
                 \* "alloc_dbc", "connect", "disconnect"
  SizeMod, DefaultDriver, Blank,   \* as in MSSQLDsn
  HardDatabase,  \* the literal DATABASE=test of the connection string
  HardPwd,       \* the literal PWD=sascha of the connection string
  Null           \* SQL_NULL_HANDLE

Dsn == INSTANCE MSSQLDsn WITH connection <- <<>>, intended <- Null,
         parsed <- Null, Parts <- {}, Inputs <- {}, NotYet <- Null,
         NotGrammar <- Null

Handles == 1..MaxHandles

ASSUME Failures \subseteq {"alloc_env", "set_version", "alloc_dbc", "connect", "disconnect"}

VARIABLES
  kind,          \* kind[h]: "free", "env" or "dbc"
  parent,        \* parent[h]: the environment of connection handle h
  next,          \* the next handle the driver manager hands out
  connected,     \* connection handles with a live server connection
  odbc_,         \* member odbc_ (SQLHANDLE)
  connection_,   \* member connection_ (SQLHANDLE)
  is_open_,      \* member is_open_
  serverTx,      \* a transaction is open on the server
  connArgs,      \* (history) the last SQLDriverConnect: the parsed DSN and
                 \* the connection string built from it, or Null
  lastCall,      \* (history) the last operation called
  alive,         \* the mssql_database object exists
  fault          \* "none", or "terminate" when an exception left a
                 \* destructor and std::terminate ended the process

vars == <<kind, parent, next, connected, odbc_, connection_, is_open_,
          serverTx, connArgs, lastCall, alive, fault>>

-----------------------------------------------------------------------------
(* The connection string of line 129: DRIVER={driver};SERVER=host\db;     *)
(* DATABASE=test;UID=user;PWD=sascha;                                     *)
ConnectString(p) ==
  [driver |-> p.driver, server |-> <<p.host, p.db>>, database |-> HardDatabase,
   uid |-> p.user, pwd |-> HardPwd]

(* SQLFreeHandle(SQL_HANDLE_ENV, e) in the driver manager: refused while  *)
(* a connection handle of e is allocated.                                  *)
FreeEnv(e) ==
  IF \E d \in Handles : kind[d] = "dbc" /\ parent[d] = e
  THEN kind
  ELSE [kind EXCEPT ![e] = "free"]

(* The ODBC part of on_open (lines 108-137), failing at `fail` or not at  *)
(* all ("none"): SQLAllocHandle(ENV), SQLSetEnvAttr(ODBC3) (on failure    *)
(* the environment is freed), SQLAllocHandle(DBC) (on failure the         *)
(* environment is kept), SQLDriverConnect checked by throw_error; only a *)
(* connect that succeeds sets is_open_.                                    *)
Connect(p, fail) ==
  LET env == next
      dbc == next + 1
      envOk == fail # "alloc_env"
      versionOk == envOk /\ fail # "set_version"
      dbcOk == versionOk /\ fail # "alloc_dbc"
      connectOk == dbcOk /\ fail # "connect"
  IN /\ odbc_' = IF envOk THEN env ELSE Null
     /\ kind' = [kind EXCEPT ![env] = IF versionOk THEN "env" ELSE @,
                             ![dbc] = IF dbcOk THEN "dbc" ELSE @]
     /\ parent' = IF dbcOk THEN [parent EXCEPT ![dbc] = env] ELSE parent
     /\ next' = next + (IF dbcOk THEN 2 ELSE IF envOk THEN 1 ELSE 0)
     /\ connection_' = IF dbcOk THEN dbc ELSE IF versionOk THEN Null ELSE connection_
     /\ connArgs' = IF dbcOk THEN [dsn |-> p, dns |-> ConnectString(p)] ELSE connArgs
     /\ connected' = IF connectOk THEN connected \cup {dbc} ELSE connected
     /\ is_open_' = connectOk

(* on_open(connection) (lines 66-138): parse, then connect; an invalid DSN *)
(* throws before any handle is allocated.  The base class opens only a    *)
(* database that is not open.                                              *)
OnOpen(s) ==
  LET p == Dsn!ParseDsn(s)
  IN /\ ~is_open_
     /\ next + 1 <= MaxHandles
     /\ IF p.ok
        THEN \E fail \in Failures \cup {"none"} : Connect(p, fail)
        ELSE UNCHANGED <<kind, parent, next, connected, odbc_, connection_,
                         is_open_, connArgs>>
     /\ alive /\ fault = "none"
     /\ lastCall' = "open"
     /\ UNCHANGED <<serverTx, alive, fault>>

(* Mutant: is_open_ is cleared before the result of SQLDisconnect is      *)
(* checked.                                                                *)
OnCloseClearFirst ==
  /\ alive /\ fault = "none"
  /\ is_open_
  /\ is_open_' = FALSE
  /\ \/ /\ "disconnect" \in Failures
        /\ UNCHANGED <<kind, connected>>
     \/ /\ connected' = connected \ {connection_}
        /\ kind' = FreeEnv(odbc_)
  /\ lastCall' = "close"
  /\ UNCHANGED <<parent, next, odbc_, connection_, serverTx, connArgs, alive, fault>>

(* on_close() past a successful SQLDisconnect (lines 145-153): the        *)
(* environment handle is freed (the connection handle is not) and         *)
(* is_open_ cleared.  When SQLDisconnect fails, throw_error throws first  *)
(* and nothing changes.                                                    *)
Disconnected ==
  /\ connected' = connected \ {connection_}
  /\ kind' = FreeEnv(odbc_)
  /\ is_open_' = FALSE

(* on_close() called through close(); the base class closes only an open *)
(* database.                                                               *)
OnClose ==
  /\ alive /\ fault = "none"
  /\ is_open_
  /\ \/ /\ "disconnect" \in Failures
        /\ UNCHANGED <<kind, connected, is_open_>>
     \/ Disconnected
  /\ lastCall' = "close"
  /\ UNCHANGED <<parent, next, odbc_, connection_, serverTx, connArgs, alive, fault>>

(* destroy_database(db) (lines 243-246) deletes the object; its          *)
(* destructor (lines 60-63) calls close(), which runs on_close() when the *)
(* database is open.  An exception from on_close() leaves the destructor, *)
(* which is noexcept, so std::terminate ends the process.                 *)
Destroy ==
  /\ alive /\ fault = "none"
  /\ IF ~is_open_
     THEN /\ alive' = FALSE
          /\ UNCHANGED <<kind, connected, is_open_, fault>>
     ELSE \/ /\ "disconnect" \in Failures
             /\ fault' = "terminate"
             /\ UNCHANGED <<kind, connected, is_open_, alive>>
          \/ /\ Disconnected
             /\ alive' = FALSE
             /\ UNCHANGED fault
  /\ lastCall' = "destroy"
  /\ UNCHANGED <<parent, next, odbc_, connection_, serverTx, connArgs>>

(* create_database(ses) (lines 238-241) constructs a new object (lines    *)
(* 54-58): is_open_ is false; the driver manager's handles stay as they   *)
(* are.                                                                    *)
CreateDatabase ==
  /\ ~alive /\ fault = "none"
  /\ alive' = TRUE
  /\ is_open_' = FALSE
  /\ odbc_' = Null
  /\ connection_' = Null
  /\ lastCall' = "create"
  /\ UNCHANGED <<kind, parent, next, connected, serverTx, connArgs, fault>>

(* execute(sql) (lines 155-158) returns a null result and sends nothing.  *)
execute(sql) == UNCHANGED serverTx

(* on_begin, on_commit, on_rollback (lines 170-189): execute the          *)
(* statement, do not check the result (TODO), delete it.                  *)
OnTransaction(call) ==
  /\ alive /\ fault = "none"
  /\ execute(CASE call = "begin" -> "START TRANSACTION;"
               [] call = "commit" -> "COMMIT;"
               [] call = "rollback" -> "ROLLBACK;")
  /\ lastCall' = call
  /\ UNCHANGED <<kind, parent, next, connected, odbc_, connection_, is_open_,
                 connArgs, alive, fault>>

(* The constructor (lines 54-58): is_open_ is false.  odbc_ and           *)
(* connection_ are not initialised; they are written by on_open before    *)
(* they are read.                                                          *)
Init ==
  /\ kind = [h \in Handles |-> "free"]
  /\ parent = [h \in Handles |-> Null]
  /\ next = 1
  /\ connected = {}
  /\ odbc_ = Null
  /\ connection_ = Null
  /\ is_open_ = FALSE
  /\ serverTx = FALSE
  /\ connArgs = Null
  /\ lastCall = "none"
  /\ alive = TRUE
  /\ fault = "none"

Next ==
  \/ \E s \in Dsns : OnOpen(s)
  \/ OnClose
  \/ \E call \in {"begin", "commit", "rollback"} : OnTransaction(call)
  \/ Destroy
  \/ CreateDatabase

Spec == Init /\ [][Next]_vars

-----------------------------------------------------------------------------
(* Properties                                                             *)

(* The backend implements the session contract of spec.md: an object     *)
(* that exists and has is_open_ set is the abstract `open`, the live ODBC *)
(* connections are the server-side sessions, and the server's            *)
(* transaction is the abstract one.  Every path of on_open, on_close and  *)
(* the destructor, failed ODBC calls included, is a step of               *)
(* DatabaseSession or leaves its state alone.                              *)
Abstract == INSTANCE DatabaseSession WITH Sessions <- Handles,
              open <- alive /\ is_open_, server <- connected,
              tx <- IF serverTx THEN "active" ELSE "none"

SessionRefinement == Abstract!Spec

(* spec.md 5: every handle obtained is released on all exit paths.  No    *)
(* allocated ODBC handle is out of the object's reach: each one is still *)
(* held in odbc_ or connection_, where a later on_close could free it.    *)
NoHandleLost ==
  \A h \in Handles : kind[h] # "free" => h \in {odbc_, connection_}

(* spec.md 6: the connection uses the user, password and database the     *)
(* connection string names.                                                *)
ConnectsWithParsedDsn ==
  connArgs # Null =>
    /\ connArgs.dns.uid = connArgs.dsn.user
    /\ connArgs.dns.pwd = connArgs.dsn.passwd
    /\ connArgs.dns.database = connArgs.dsn.db

(* spec.md 3: after begin returns on an open connection, a transaction   *)
(* is active on the server.                                                *)
TransactionReachesServer ==
  lastCall = "begin" /\ is_open_ => serverTx
=============================================================================
