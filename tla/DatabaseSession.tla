--------------------------- MODULE DatabaseSession ---------------------------
(***************************************************************************)
(* Abstract specification of the backend driver contract (spec.md 3, 5,  *)
(* 6): a session holds at most one connection to the server; open either  *)
(* establishes one or fails and leaves nothing behind; close either ends   *)
(* it or fails and leaves it as it was; at most one transaction is active  *)
(* per connection, and it ends with commit, rollback or the close of its  *)
(* connection.                                                             *)
(***************************************************************************)
CONSTANTS
  Sessions    \* the server-side sessions a connection may be given

VARIABLES
  open,       \* the session holds a connection
  server,     \* the server-side sessions held for this client
  tx          \* "none" or "active": the server-side transaction

svars == <<open, server, tx>>

Init ==
  /\ open = FALSE
  /\ server = {}
  /\ tx = "none"

Open ==
  /\ ~open
  /\ \E s \in Sessions \ server : server' = {s}
  /\ open' = TRUE
  /\ UNCHANGED tx

Close ==
  /\ open
  /\ open' = FALSE
  /\ server' = {}
  /\ tx' = "none"

Begin ==
  /\ open
  /\ tx = "none"
  /\ tx' = "active"
  /\ UNCHANGED <<open, server>>

End ==   \* commit or rollback
  /\ tx = "active"
  /\ tx' = "none"
  /\ UNCHANGED <<open, server>>

Next == Open \/ Close \/ Begin \/ End

Spec == Init /\ [][Next]_svars
=============================================================================
