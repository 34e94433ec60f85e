---------------------------- MODULE SqliteDatabase ----------------------------
(***************************************************************************)
(* The SQLite backend of src/src/database/sqlite/sqlite_database.cpp over *)
(* the SQLite library.                                                      *)
(*                                                                         *)
(* The library's connection objects are numbered 1..MaxHandles in         *)
(* allocation order; conn[h] is "free", "open" or "failed".  As the        *)
(* SQLite C interface documents, sqlite3_open allocates a connection even *)
(* when it fails, and that connection must still be passed to             *)
(* sqlite3_close; sqlite3_close(NULL) does nothing; sqlite3_close on a     *)
(* connection already closed is a use after free ("segv").                *)
(*                                                                         *)
(* database_impl, the base class, is not in the repository; implOpen is   *)
(* its open state as spec.md 4.4 describes it: database_impl::open marks  *)
(* the database open and database_impl::close marks it closed.  Its        *)
(* statement cache is the set Cached of logical keys ("<type>_UPDATE",    *)
(* "<type>_DELETE") find_statement knows.                                  *)
(***************************************************************************)
EXTENDS Naturals, FiniteSets

CONSTANTS
  MaxHandles,    \* connections the library hands out in one behaviour
  Failures,      \* "open" when sqlite3_open may fail
  Keys,          \* the statement keys visitors look up
  Cached,        \* the keys database_impl has a prepared statement for
  Null           \* a null sqlite3 pointer

Handles == 1..MaxHandles

VARIABLES
  conn,          \* conn[h]: "free", "open" or "failed"
  next,          \* the next connection the library hands out
  db_,           \* member db_
  implOpen,      \* database_impl's open state
  alive,         \* the object exists (the destructor has not run)
  fault,         \* "none" or "segv"
  lastVisit      \* (history) the last visit: its key, whether a statement
                 \* was found, whether an error was raised; or Null

vars == <<conn, next, db_, implOpen, alive, fault, lastVisit>>

-----------------------------------------------------------------------------
(* sqlite3_close(h): frees an allocated connection, does nothing on NULL *)
(* and is undefined on one freed before.                                   *)
sqlite3_close(h) ==
  CASE h = Null            -> UNCHANGED <<conn, fault>>
    [] conn[h] # "free"    -> conn' = [conn EXCEPT ![h] = "free"] /\ UNCHANGED fault
    [] OTHER               -> fault' = "segv" /\ UNCHANGED conn

(* Mutant: database_impl::open runs before the result of sqlite3_open is *)
(* checked.                                                                *)
openMarkFirst ==
  /\ alive /\ fault = "none"
  /\ ~implOpen
  /\ next <= MaxHandles
  /\ db_' = next
  /\ next' = next + 1
  /\ implOpen' = TRUE
  /\ \E ok \in {TRUE} \cup (IF "open" \in Failures THEN {FALSE} ELSE {}) :
       conn' = [conn EXCEPT ![next] = IF ok THEN "open" ELSE "failed"]
  /\ UNCHANGED <<alive, fault, lastVisit>>

(* open(db) (lines 47-55): sqlite3_open writes a new connection to db_;   *)
(* when it fails, the error is thrown and the connection is left          *)
(* allocated; otherwise database_impl::open(db).  The session opens only  *)
(* a database that is not open.                                            *)
open ==
  /\ alive /\ fault = "none"
  /\ ~implOpen
  /\ next <= MaxHandles
  /\ db_' = next
  /\ next' = next + 1
  /\ \E ok \in {TRUE} \cup (IF "open" \in Failures THEN {FALSE} ELSE {}) :
       /\ conn' = [conn EXCEPT ![next] = IF ok THEN "open" ELSE "failed"]
       /\ implOpen' = ok
  /\ UNCHANGED <<alive, fault, lastVisit>>

(* close() (lines 57-62): database_impl::close(), then sqlite3_close(db_) *)
(* whatever state the database is in; db_ keeps its value.                *)
close ==
  /\ implOpen' = FALSE
  /\ sqlite3_close(db_)

(* A call of close() by the session.                                       *)
Close ==
  /\ alive /\ fault = "none"
  /\ close
  /\ UNCHANGED <<next, db_, alive, lastVisit>>

(* create_database() (lines 102-105) constructs a new sqlite_database   *)
(* (lines 35-39): db_ is null; the library's connections stay as they    *)
(* are.                                                                    *)
CreateDatabase ==
  /\ ~alive /\ fault = "none"
  /\ alive' = TRUE
  /\ db_' = Null
  /\ implOpen' = FALSE
  /\ UNCHANGED <<conn, next, fault, lastVisit>>

(* destroy_database(db) (lines 107-110) deletes the object; the           *)
(* destructor (lines 41-44) calls close().                                 *)
Destroy ==
  /\ alive /\ fault = "none"
  /\ close
  /\ alive' = FALSE
  /\ UNCHANGED <<next, db_, lastVisit>>

(* visit(update_action) and visit(delete_action) (lines 69-85): look the  *)
(* statement up by "<type>_UPDATE" or "<type>_DELETE"; a missing one is   *)
(* ignored ("throw error" is a comment) and nothing is bound or run.      *)
(* visit(insert_action) (lines 64-67) does nothing at all.                *)
Visit(key) ==
  /\ alive /\ fault = "none"
  /\ lastVisit' = [key |-> key, found |-> key \in Cached, raised |-> FALSE]
  /\ UNCHANGED <<conn, next, db_, implOpen, alive, fault>>

(* The constructor (lines 35-39): db_ is null.                             *)
Init ==
  /\ conn = [h \in Handles |-> "free"]
  /\ next = 1
  /\ db_ = Null
  /\ implOpen = FALSE
  /\ alive = TRUE
  /\ fault = "none"
  /\ lastVisit = Null

Next ==
  \/ open
  \/ Close
  \/ Destroy
  \/ CreateDatabase
  \/ \E key \in Keys : Visit(key)

Spec == Init /\ [][Next]_vars

-----------------------------------------------------------------------------
(* Properties                                                             *)

(* The backend implements the session contract of spec.md: the base     *)
(* class's open state is the abstract `open` and the library's open       *)
(* connections are the server-side sessions.  Every path of open, close,  *)
(* the destructor and the factory, failed sqlite3_open included, is a     *)
(* step of DatabaseSession or leaves its state alone.                      *)
Abstract == INSTANCE DatabaseSession WITH Sessions <- Handles,
              open <- implOpen, server <- {h \in Handles : conn[h] = "open"},
              tx <- "none"

SessionRefinement == Abstract!Spec

(* No close reaches undefined behaviour: a close() by the session followed *)
(* by the destructor's close() must not pass a freed connection to        *)
(* sqlite3_close.                                                          *)
NoUndefinedBehaviour == fault = "none"

(* spec.md 5: every handle obtained is released on all exit paths.  Every *)
(* allocated connection, a failed one included, is the one db_ of a live  *)
(* object holds, where close() could still free it.                        *)
NoConnectionLost ==
  \A h \in Handles : conn[h] # "free" => alive /\ h = db_

(* spec.md 7: a backend failure is raised to the caller; an update or     *)
(* delete whose prepared statement is missing from the cache fails.       *)
MissingStatementReported ==
  lastVisit # Null /\ ~lastVisit.found => lastVisit.raised
=============================================================================
