---------------------------- MODULE ResultCursor ----------------------------
(***************************************************************************)
(* Abstract specification of a forward-only result cursor (spec.md, 3 and *)
(* 4.4): a query hands the cursor an ordered set of rows; every fetch      *)
(* either makes the next row current and answers TRUE, or, when no row is  *)
(* left, clears the current row and answers FALSE.  Rows are delivered     *)
(* once each, in order, and never invented.                                *)
(***************************************************************************)
EXTENDS Naturals, Sequences

CONSTANTS
  Row,        \* the set of rows a query may return
  MaxRows,    \* the largest number of rows in one result set
  NoRow       \* "no current row"

ASSUME NoRow \notin Row

VARIABLES
  active,     \* a result object exists
  pending,    \* the rows not yet delivered, in order
  current,    \* the current row, or NoRow
  answer      \* what the last fetch returned (NoRow before any fetch)

avars == <<active, pending, current, answer>>

Init ==
  /\ active = FALSE
  /\ pending = <<>>
  /\ current = NoRow
  /\ answer = NoRow

Open ==
  /\ ~active
  /\ \E n \in 0..MaxRows : pending' \in [1..n -> Row]
  /\ active' = TRUE
  /\ current' = NoRow
  /\ answer' = NoRow

Fetch ==
  /\ active
  /\ \/ /\ pending # <<>>
        /\ current' = Head(pending)
        /\ pending' = Tail(pending)
        /\ answer' = TRUE
     \/ /\ pending = <<>>
        /\ current' = NoRow
        /\ answer' = FALSE
        /\ UNCHANGED pending
  /\ UNCHANGED active

Close ==
  /\ active
  /\ active' = FALSE
  /\ pending' = <<>>
  /\ current' = NoRow
  /\ answer' = NoRow

Next == Open \/ Fetch \/ Close

Spec == Init /\ [][Next]_avars
=============================================================================
