---------------------------- MODULE MySQLResult ----------------------------
(***************************************************************************)
(* The MySQL result cursor and its read-from-result sink                  *)
(* (src/db/mysql/src/mysql_result.cpp).                                    *)
(*                                                                         *)
(* The client library's stored result set is the sequence `rows`; its     *)
(* internal read position is `cur` (what mysql_fetch_row advances).  The  *)
(* cursor object keeps the members rows_, fields_, row_, result_index_    *)
(* and res_.  A record with the fields `Kind` is filled by the record's   *)
(* serialize walk, one serialize(id, x) call per field, the record         *)
(* keeping its own position `visited`.                                     *)
(*                                                                         *)
(* Column text is a sequence over a small alphabet; NULL is a SQL NULL    *)
(* column, which the client library hands over as a null pointer.         *)
(* Undefined behaviour (strlen(NULL), mysql_fetch_row(NULL), reading past *)
(* the row) is the outcome "segv": the process stops.                     *)
(***************************************************************************)
EXTENDS Naturals, Sequences, TLC

CONSTANTS
  Kind,          \* the record's fields, in declaration order: a sequence of
                 \* "long", "ulong", "bool", "char", "cstr", "string"
  ColumnValues,  \* the column values a row may hold (texts, maybe NULL)
  MaxRows,       \* the largest result set
  BufSize,       \* capacity of a fixed char buffer field (char x[BufSize])
  SizeMod,       \* size_type wraps modulo SizeMod
  StoreOutcomes, \* what mysql_store_result may give: "result_set" (a SELECT)
                 \* and/or "no_result_set" (a write statement)
  InitRecord,    \* the record's field values before the first read
  NULL,          \* a SQL NULL column (null char pointer)
  NL,            \* the character '\n'
  NoRow          \* row_ is a null MYSQL_ROW

Digit == {"0", "1", "2", "3", "4", "5", "6", "7", "8", "9"}
DigitValue(c) == CHOOSE n \in 0..9 : <<"0","1","2","3","4","5","6","7","8","9">>[n + 1] = c

NF == Len(Kind)
Fields == 1..NF

ASSUME BufSize \in Nat \ {0}
ASSUME StoreOutcomes \subseteq {"result_set", "no_result_set"}

VARIABLES
  phase,         \* "none": no result object; "open"; "reading": a row is
                 \* being walked into the record
  res_,          \* TRUE iff mysql_store_result returned a result set
  rows,          \* the stored result set (client library state)
  cur,           \* rows handed out by mysql_fetch_row so far
  rows_,         \* member rows_ (size_type)
  fields_,       \* member fields_
  row_,          \* member row_: index of the current row, or NoRow
  result_index_, \* member result_index_: next column to consume
  record,        \* the record being filled
  visited,       \* fields of the record serialized in the current row
  fault,         \* "none" or "segv"
  snapshot,      \* (history) the record when the current row was fetched
  lastFetch      \* (history) what the last fetch() returned, or NoRow

vars == <<phase, res_, rows, cur, rows_, fields_, row_, result_index_,
          record, visited, fault, snapshot, lastFetch>>

Row == [Fields -> ColumnValues]
RowSets == UNION {[1..n -> Row] : n \in 0..MaxRows}

-----------------------------------------------------------------------------
(* strtol/strtoul(val, &end, 10): the value of the longest digit prefix.  *)
RECURSIVE DigitsValue(_, _)
DigitsValue(s, acc) ==
  IF s = <<>> \/ Head(s) \notin Digit
  THEN acc
  ELSE DigitsValue(Tail(s), acc * 10 + DigitValue(Head(s)))

strtol(s) == DigitsValue(s, 0)

(* The fixed buffer char x[BufSize] after a read: its text, whether a NUL *)
(* ends it inside the buffer, and whether a byte was written past it.     *)
CBuf(s, t, o) == [str |-> s, term |-> t, overrun |-> o]

(* serialize(id, x) for one field of kind k with column text val, x being *)
(* the field's value before the call (lines 109-249).  The null pointer   *)
(* case is handled by NullChecked.                                        *)
serialize(k, val, x) ==
  CASE k = "char"   -> IF Len(val) > 1 THEN val[1] ELSE x
    [] k = "long"   -> IF Len(val) = 0 THEN x ELSE strtol(val)
    [] k = "ulong"  -> IF val = NULL \/ Len(val) = 0 THEN x ELSE strtol(val)
    [] k = "bool"   -> IF Len(val) = 0 THEN x ELSE strtol(val) > 0
    [] k = "cstr"   -> IF Len(val) > BufSize
                       THEN CBuf(SubSeq(val, 1, BufSize - 1) \o <<NL>>, FALSE, FALSE)
                       ELSE CBuf(val, TRUE, Len(val) + 1 > BufSize)
    [] k = "string" -> val

(* Only serialize(unsigned long) tests the pointer before strlen.        *)
NullChecked(k) == k = "ulong"

-----------------------------------------------------------------------------
(* Mutant: fields_ taken from the row count instead of the field count. *)
ConstructSwapCounts ==
  /\ phase = "none"
  /\ fault = "none"
  /\ \E outcome \in StoreOutcomes, data \in RowSets :
       /\ res_' = (outcome = "result_set")
       /\ rows' = IF res_' THEN data ELSE <<>>
       /\ rows_' = IF res_' THEN Len(data) ELSE 0
       /\ fields_' = IF res_' THEN Len(data) ELSE 0
  /\ phase' = "open"
  /\ cur' = 0
  /\ row_' = NoRow
  /\ lastFetch' = NoRow
  /\ UNCHANGED <<result_index_, record, visited, fault, snapshot>>

(* mysql_result(MYSQL *c): store the result and take its row and field    *)
(* counts; a write statement leaves res_ null and both counts zero.  The  *)
(* error branch throws from the constructor and leaves no object.         *)
Construct ==
  /\ phase = "none"
  /\ fault = "none"
  /\ \E outcome \in StoreOutcomes, data \in RowSets :
       /\ res_' = (outcome = "result_set")
       /\ rows' = IF res_' THEN data ELSE <<>>
       /\ rows_' = IF res_' THEN Len(data) ELSE 0
       /\ fields_' = IF res_' THEN NF ELSE 0
  /\ phase' = "open"
  /\ cur' = 0
  /\ row_' = NoRow
  /\ lastFetch' = NoRow
  /\ UNCHANGED <<result_index_, record, visited, fault, snapshot>>

(* Mutant: the answer is --rows_ > 0.                                    *)
fetchPredecrement ==
  IF ~res_
  THEN /\ fault' = "segv"
       /\ UNCHANGED <<cur, rows_, row_, lastFetch>>
  ELSE /\ fault' = "none"
       /\ IF cur < Len(rows)
          THEN /\ cur' = cur + 1
               /\ row_' = cur + 1
               /\ rows_' = (rows_ + SizeMod - 1) % SizeMod
               /\ lastFetch' = (rows_ > 1)
          ELSE /\ row_' = NoRow
               /\ rows_' = 0
               /\ lastFetch' = FALSE
               /\ UNCHANGED cur

(* Mutant: rows_ is decremented before the null-row test.                *)
fetchDecrementFirst ==
  IF ~res_
  THEN /\ fault' = "segv"
       /\ UNCHANGED <<cur, rows_, row_, lastFetch>>
  ELSE /\ fault' = "none"
       /\ rows_' = (rows_ + SizeMod - 1) % SizeMod
       /\ IF cur < Len(rows)
          THEN /\ cur' = cur + 1
               /\ row_' = cur + 1
               /\ lastFetch' = (rows_ > 0)
          ELSE /\ row_' = NoRow
               /\ lastFetch' = FALSE
               /\ UNCHANGED cur

(* fetch(): row_ = mysql_fetch_row(res_); a null row zeroes rows_ and     *)
(* answers FALSE, otherwise the answer is rows_-- > 0 (lines 64-72).      *)
(* mysql_fetch_row on a null result dereferences it.                      *)
fetch ==
  IF ~res_
  THEN /\ fault' = "segv"
       /\ UNCHANGED <<cur, rows_, row_, lastFetch>>
  ELSE /\ fault' = "none"
       /\ IF cur < Len(rows)
          THEN /\ cur' = cur + 1
               /\ row_' = cur + 1
               /\ rows_' = (rows_ + SizeMod - 1) % SizeMod
               /\ lastFetch' = (rows_ > 0)
          ELSE /\ row_' = NoRow
               /\ rows_' = 0
               /\ lastFetch' = FALSE
               /\ UNCHANGED cur

(* A caller that uses fetch() and column(c) directly.                     *)
Fetch ==
  /\ phase = "open"
  /\ fault = "none"
  /\ fetch
  /\ UNCHANGED <<phase, res_, rows, fields_, result_index_, record, visited,
                 snapshot>>

(* Mutant: prepare_fetch does not restart result_index_.               *)
PrepareFetchNoReset ==
  /\ phase = "open"
  /\ fault = "none"
  /\ fetch
  /\ IF lastFetch' = TRUE
     THEN /\ phase' = "reading"
          /\ visited' = 0
          /\ snapshot' = record
     ELSE UNCHANGED <<phase, visited, snapshot>>
  /\ UNCHANGED <<res_, rows, fields_, record, result_index_>>

(* prepare_fetch(): fetch, and on a row restart the column index         *)
(* (lines 74-82); the record's serialize walk then begins.               *)
PrepareFetch ==
  /\ phase = "open"
  /\ fault = "none"
  /\ fetch
  /\ IF lastFetch' = TRUE
     THEN /\ result_index_' = 0
          /\ phase' = "reading"
          /\ visited' = 0
          /\ snapshot' = record
     ELSE UNCHANGED <<result_index_, phase, visited, snapshot>>
  /\ UNCHANGED <<res_, rows, fields_, record>>

(* One serialize(id, x) call: take row_[result_index_++] and convert it  *)
(* into the next field.  strlen of a null column, or a column past the   *)
(* row's fields_, is undefined behaviour.                                *)
SerializeField ==
  /\ phase = "reading"
  /\ fault = "none"
  /\ visited < NF
  /\ LET i   == visited + 1
         col == result_index_ + 1
         k   == Kind[i]
     IN IF col > fields_ \/ (rows[row_][col] = NULL /\ ~NullChecked(k))
        THEN /\ fault' = "segv"
             /\ UNCHANGED <<record, result_index_, visited>>
        ELSE /\ record' = [record EXCEPT ![i] = serialize(k, rows[row_][col], @)]
             /\ result_index_' = col
             /\ visited' = i
             /\ UNCHANGED fault
  /\ UNCHANGED <<phase, res_, rows, cur, rows_, fields_, row_, snapshot,
                 lastFetch>>

(* finalize_fetch() once every field is read.                            *)
FinalizeFetch ==
  /\ phase = "reading"
  /\ fault = "none"
  /\ visited = NF
  /\ phase' = "open"
  /\ UNCHANGED <<res_, rows, cur, rows_, fields_, row_, result_index_,
                 record, visited, fault, snapshot, lastFetch>>

(* ~mysql_result(): free the result set (lines 48-53); the object's      *)
(* members are gone, shown as their initial values.  The caller may run  *)
(* a new query.                                                          *)
Destroy ==
  /\ phase = "open"
  /\ fault = "none"
  /\ phase' = "none"
  /\ res_' = FALSE
  /\ rows' = <<>>
  /\ cur' = 0
  /\ rows_' = 0
  /\ fields_' = 0
  /\ row_' = NoRow
  /\ result_index_' = 0
  /\ lastFetch' = NoRow
  /\ UNCHANGED <<record, visited, fault, snapshot>>

Init ==
  /\ phase = "none"
  /\ res_ = FALSE
  /\ rows = <<>>
  /\ cur = 0
  /\ rows_ = 0
  /\ fields_ = 0
  /\ row_ = NoRow
  /\ result_index_ = 0
  /\ record = InitRecord
  /\ visited = 0
  /\ fault = "none"
  /\ snapshot = InitRecord
  /\ lastFetch = NoRow

Next ==
  \/ Construct
  \/ Fetch
  \/ PrepareFetch
  \/ SerializeField
  \/ FinalizeFetch
  \/ Destroy

Spec == Init /\ [][Next]_vars

-----------------------------------------------------------------------------
(* Properties                                                             *)

TypeOK ==
  /\ phase \in {"none", "open", "reading"}
  /\ res_ \in BOOLEAN
  /\ rows \in RowSets
  /\ cur \in 0..Len(rows)
  /\ rows_ \in 0..(SizeMod - 1)
  /\ fields_ \in {0, NF}
  /\ row_ \in (1..Len(rows)) \cup {NoRow}
  /\ result_index_ \in Nat
  /\ visited \in 0..NF
  /\ fault \in {"none", "segv"}
  /\ lastFetch \in BOOLEAN \cup {NoRow}
  /\ DOMAIN record = Fields

(* What spec.md 4.1 and 7 say a read of column text val into a field     *)
(* holding x yields: an absent column leaves x; for numeric, boolean and  *)
(* character fields an empty column, or numeric text that does not parse, *)
(* leaves x too; a fixed char buffer receives the text truncated to       *)
(* BufSize - 1 characters followed by a terminator.                       *)
Parses(val) == val # <<>> /\ Head(val) \in Digit
SpecRead(k, val, x) ==
  IF val = NULL \/ (val = <<>> /\ k \notin {"cstr", "string"}) THEN x
  ELSE CASE k \in {"long", "ulong"} -> IF Parses(val) THEN strtol(val) ELSE x
         [] k = "bool"   -> IF Parses(val) THEN strtol(val) > 0 ELSE x
         [] k = "char"   -> val[1]
         [] k = "cstr"   -> IF Len(val) < BufSize THEN CBuf(val, TRUE, FALSE)
                            ELSE CBuf(SubSeq(val, 1, BufSize - 1), TRUE, FALSE)
         [] k = "string" -> val

(* Every field the record's serialize walk has reached holds what the     *)
(* spec's conversion rule makes of the current row's column at the same   *)
(* position and the field's value when the row was fetched: the record's  *)
(* field order and the cursor's column index (result_index_, restarted by *)
(* prepare_fetch) stay aligned, and skip-on-empty keeps the prior value.  *)
ReadMatchesRow ==
  phase = "reading" =>
    /\ result_index_ = visited
    /\ \A i \in 1..visited :
         record[i] = SpecRead(Kind[i], rows[row_][i], snapshot[i])

(* result_rows() (rows_) always equals the number of stored rows that     *)
(* fetch() has not yet handed out, so a caller sizing work by it neither  *)
(* misses rows nor waits for rows that are not there.                     *)
RowsRemaining ==
  (phase # "none" /\ res_) => rows_ = Len(rows) - cur

(* No read of a row, and no fetch, is undefined behaviour: spec.md says  *)
(* an absent column is skipped and a write statement's result answers    *)
(* fetch with FALSE.                                                      *)
NoUndefinedBehaviour == fault = "none"

-----------------------------------------------------------------------------
(* The cursor implements the abstract forward-only cursor.               *)
Abstract == INSTANCE ResultCursor WITH
  Row <- Row,
  active <- phase # "none",
  pending <- SubSeq(rows, cur + 1, Len(rows)),
  current <- IF row_ = NoRow THEN NoRow ELSE rows[row_],
  answer <- lastFetch

CursorRefinement == Abstract!Spec

=============================================================================
