------------------------------ MODULE MSSQLDsn ------------------------------
(***************************************************************************)
(* The connection-string parser at the start of                           *)
(* mssql_database::on_open (src/src/database/mssql/mssql_database.cpp,    *)
(* lines 66-106), written with the std::string operations it uses, and    *)
(* the grammar of spec.md 6 it is meant to implement:                      *)
(*                                                                         *)
(*     user[:password]@host/database[(driver-name)]                        *)
(*                                                                         *)
(* A string is a sequence of characters.  size_type is unsigned and wraps *)
(* modulo SizeMod; npos is its largest value, so npos + 1 is 0.           *)
(***************************************************************************)
EXTENDS Naturals, Sequences, SequencesExt

CONSTANTS
  SizeMod,        \* std::string::size_type wraps modulo SizeMod
  DefaultDriver,  \* the driver used when none is given ("SQL Server")
  Blank,          \* the characters trim() removes
  Parts,          \* the texts a user, password, host, database or driver
                  \* is written with in a grammatical connection string
  Inputs,         \* further connection strings, grammatical or not
  NotYet,         \* no parse has run
  NotGrammar      \* the input was not built from the grammar

VARIABLES
  connection,     \* the string handed to on_open
  intended,       \* (ghost) what the grammar means by it, or NotGrammar
  parsed          \* the outcome of the parse, or NotYet

npos == SizeMod - 1

(* std::string::find(c): the position of the first c, or npos.           *)
find(s, c) ==
  LET i == SelectInSeq(s, LAMBDA x : x = c)
  IN IF i = 0 THEN npos ELSE i - 1

(* std::string::substr(p, n): at most n characters from position p.  The *)
(* parser only calls it with p <= size(), where it does not throw.       *)
substr(s, p, n) == SubSeq(s, p + 1, IF n >= Len(s) - p THEN Len(s) ELSE p + n)

(* tools/string.hpp trim(): the string without leading and trailing      *)
(* blanks.                                                                *)
RECURSIVE trim(_)
trim(s) ==
  CASE s # <<>> /\ Head(s) \in Blank  -> trim(Tail(s))
    [] s # <<>> /\ Last(s) \in Blank  -> trim(Front(s))
    [] OTHER                          -> s

(* Mutant: the password starts at the colon instead of after it.         *)
CredentialsFromColon(str, pos) ==
  LET credentials == substr(str, 0, pos)
      colpos == find(credentials, ":")
  IN IF colpos # npos
     THEN [user |-> substr(credentials, 0, colpos),
           passwd |-> substr(credentials, colpos, pos)]
     ELSE [user |-> substr(credentials, 0, pos), passwd |-> <<>>]

(* user and password: the text before the '@', split at its first ':'    *)
(* (lines 78-88).                                                          *)
Credentials(str, pos) ==
  LET credentials == substr(str, 0, pos)
      colpos == find(credentials, ":")
  IN IF colpos # npos
     THEN [user |-> substr(credentials, 0, colpos),
           passwd |-> substr(credentials, colpos + 1, pos)]
     ELSE [user |-> substr(credentials, 0, pos), passwd |-> <<>>]

(* database and driver: the text after the '/', split at its first '('; *)
(* the driver ends at the first ')' after it, the database name is        *)
(* trimmed; without '(' the driver is the default (lines 96-106).         *)
DbAndDriver(db) ==
  LET pos == find(db, "(")
      driver == substr(db, pos + 1, npos)
  IN IF pos # npos
     THEN [db |-> trim(substr(db, 0, pos)),
           driver |-> substr(driver, 0, find(driver, ")"))]
     ELSE [db |-> db, driver |-> DefaultDriver]

(* The parse at the start of on_open (lines 66-106): [ok |-> FALSE] where *)
(* throw_error("invalid dsn") is raised, otherwise the five parts on_open *)
(* goes on with.  Without a '/', pos is npos: host is the whole rest and  *)
(* substr(npos + 1) is substr(0), the whole rest again.                   *)
ParseDsn(str) ==
  LET pos == find(str, "@")
      cred == Credentials(str, pos)
      con == substr(str, (pos + 1) % SizeMod, npos)
      slash == find(con, "/")
      dd == DbAndDriver(substr(con, (slash + 1) % SizeMod, npos))
  IN IF pos = npos
     THEN [ok |-> FALSE]
     ELSE [ok |-> TRUE, user |-> cred.user, passwd |-> cred.passwd,
           host |-> substr(con, 0, slash), db |-> dd.db, driver |-> dd.driver]

-----------------------------------------------------------------------------
(* The grammar of spec.md 6, written from its parts: the connection      *)
(* string a user with or without a password, a host, a database and an   *)
(* optional driver are written as.                                         *)
Compose(r, hasPwd, hasDrv) ==
  r.user \o (IF hasPwd THEN <<":">> \o r.passwd ELSE <<>>)
    \o <<"@">> \o r.host \o <<"/">> \o r.db
    \o (IF hasDrv THEN <<"(">> \o r.driver \o <<")">> ELSE <<>>)

(* What the grammar means by it: the parts, an absent password empty and *)
(* an absent driver the default one.                                       *)
Meaning(r, hasPwd, hasDrv) ==
  [ok |-> TRUE, user |-> r.user,
   passwd |-> IF hasPwd THEN r.passwd ELSE <<>>,
   host |-> r.host, db |-> r.db,
   driver |-> IF hasDrv THEN r.driver ELSE DefaultDriver]

-----------------------------------------------------------------------------
(* The inputs: every string the grammar builds from Parts, with what it  *)
(* means, and the strings of Inputs.                                       *)
Init ==
  /\ \/ \E r \in [user : Parts, passwd : Parts, host : Parts, db : Parts,
                  driver : Parts], hasPwd, hasDrv \in BOOLEAN :
          /\ connection = Compose(r, hasPwd, hasDrv)
          /\ intended = Meaning(r, hasPwd, hasDrv)
     \/ /\ connection \in Inputs
        /\ intended = NotGrammar
  /\ parsed = NotYet

(* on_open(connection) runs the parse (lines 66-106).                     *)
Parse ==
  /\ parsed = NotYet
  /\ parsed' = ParseDsn(connection)
  /\ UNCHANGED <<connection, intended>>

Spec == Init /\ [][Parse]_<<connection, intended, parsed>>

-----------------------------------------------------------------------------
(* spec.md 6: a connection string written by the grammar is parsed into  *)
(* the user, password, host, database and driver it was written with: no *)
(* part loses or gains a separator or a character of its neighbour.       *)
GrammarParsed ==
  parsed # NotYet /\ intended # NotGrammar => parsed = intended

(* spec.md 6: the grammar requires "/database" after the host, so a      *)
(* connection string with no '/' after its '@' is malformed and on_open  *)
(* must reject it before it connects.                                      *)
MissingDatabaseRejected ==
  LET at == SelectInSeq(connection, LAMBDA c : c = "@")
  IN /\ parsed # NotYet
     /\ at > 0
     /\ "/" \notin Range(SubSeq(connection, at + 1, Len(connection)))
     => ~parsed.ok
=============================================================================
