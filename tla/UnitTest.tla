------------------------------ MODULE UnitTest ------------------------------
(***************************************************************************)
(* The unit test runner of src/lib/src/unit/unit_test.cpp.                 *)
(*                                                                         *)
(* info is test_func_info_map_: a registered test's succeeded flag (true  *)
(* when added, src/include/unit/unit_test.hpp line 391) and its            *)
(* assertion_count; the test's caption and message are left out.           *)
(* current is current_test_func_info.  execute() walks the map in key     *)
(* order, one test per step (pending, acc).                                 *)
(*                                                                         *)
(* A run of one test is chosen from what the unit's code may do           *)
(* (RunChoices): initialize() makes no assertion or one that passes or    *)
(* fails, the test function makes k passing assertions and then returns,   *)
(* fails an assertion, throws a std::exception or throws something else,  *)
(* and finalize() makes no assertion or one that passes or fails.  A      *)
(* failed assertion throws unit_exception.  An assertion through a null   *)
(* current_test_func_info is undefined behaviour ("segv").                 *)
(***************************************************************************)
EXTENDS Naturals, Sequences, SequencesExt, Functions

CONSTANTS
  TestOrder,     \* the names add_test is called with, in std::map order
  Names,         \* the names execute(name) is called with
  MaxAsserts,    \* passing assertions a test function makes in one run
  MaxCount,      \* bound on assertion_count
  Null           \* a null pointer

RunChoices ==
  [init : {"none", "pass", "fail"}, k : 0..MaxAsserts,
   end : {"return", "fail", "std", "foreign"}, fin : {"none", "pass", "fail"}]

VARIABLES
  info,          \* info[t]: [succeeded, count] of registered test t
  current,       \* current_test_func_info: a test, or Null
  running,       \* an execute() is walking the map
  pending,       \* the tests execute() has still to run
  acc,           \* execute()'s local `succeeded`
  fault,         \* "none" or "segv"
  ran,           \* (history) ran[t]: "pass" or "fail", what t's latest run
                 \* did, or "none"
  lastCall       \* (history) the last call that ended: op, test, its result
                 \* and whether it ended by an exception

vars == <<info, current, running, pending, acc, fault, ran, lastCall>>

-----------------------------------------------------------------------------
(* ++current_test_func_info->assertion_count of assert_true/assert_false  *)
(* (lines 92-110) on the map inf.                                         *)
Counted(inf, cur, n) ==
  IF n = 0 THEN inf ELSE [inf EXCEPT ![cur].count = @ + n]

(* execute(test_info) (lines 129-149) for test t with choice c, from the *)
(* map inf and the pointer cur: the map and pointer after it, whether a   *)
(* null pointer was followed, whether an exception left it, and whether   *)
(* the test function ran to its end.                                       *)
(* initialize() runs before current_test_func_info is set, so its         *)
(* assertion counts on the previous test, and its failure is not caught;  *)
(* unit_exception and std::exception from the test function are caught    *)
(* and clear succeeded; anything else, and a failure in finalize(),       *)
(* propagates.                                                             *)
RunTest(inf, cur, t, c) ==
  LET inf1 == IF c.init = "none" THEN inf ELSE Counted(inf, cur, 1)
      inf2 == Counted(inf1, t, c.k + (IF c.end = "fail" THEN 1 ELSE 0))
      inf3 == IF c.end \in {"fail", "std"}
              THEN [inf2 EXCEPT ![t].succeeded = FALSE] ELSE inf2
      inf4 == IF c.fin = "none" THEN inf3 ELSE Counted(inf3, t, 1)
  IN CASE c.init # "none" /\ cur = Null ->
            [info |-> inf, current |-> cur, segv |-> TRUE, escaped |-> TRUE,
             ended |-> FALSE]
       [] c.init = "fail" ->
            [info |-> inf1, current |-> cur, segv |-> FALSE, escaped |-> TRUE,
             ended |-> FALSE]
       [] c.end = "foreign" ->
            [info |-> inf2, current |-> t, segv |-> FALSE, escaped |-> TRUE,
             ended |-> FALSE]
       [] OTHER ->
            [info |-> inf4, current |-> t, segv |-> FALSE, escaped |-> c.fin = "fail",
             ended |-> TRUE]

(* A run of t with choice c and result r = RunTest(info, current, t, c),  *)
(* its counts within MaxCount: r is applied, and when the test function   *)
(* ran to its end, what it did is recorded.                                *)
Run(t, c, r) ==
  /\ \A s \in DOMAIN r.info : r.info[s].count <= MaxCount
  /\ info' = r.info
  /\ current' = r.current
  /\ fault' = IF r.segv THEN "segv" ELSE "none"
  /\ ran' = IF ~r.ended THEN ran
            ELSE [ran EXCEPT ![t] = IF c.end = "return" THEN "pass" ELSE "fail"]

(* add_test (lines 87-90): std::map::insert, which keeps the test already *)
(* registered under that name.                                             *)
AddTest(n) ==
  /\ fault = "none" /\ ~running
  /\ n \notin DOMAIN info
  /\ info' = info @@ (n :> [succeeded |-> TRUE, count |-> 0])
  /\ ran' = ran @@ (n :> "none")
  /\ UNCHANGED <<current, running, pending, acc, fault, lastCall>>

(* execute() (lines 48-62), its start: the map's tests in key order and   *)
(* succeeded = true; with no test it returns true at once.                 *)
ExecuteAll ==
  /\ fault = "none" /\ ~running
  /\ LET order == SelectSeq(TestOrder, LAMBDA t : t \in DOMAIN info)
     IN IF order = <<>>
        THEN /\ lastCall' = [op |-> "all", test |-> Null, ret |-> TRUE, thrown |-> FALSE]
             /\ UNCHANGED <<running, pending, acc>>
        ELSE /\ running' = TRUE
             /\ pending' = order
             /\ acc' = TRUE
             /\ UNCHANGED lastCall
  /\ UNCHANGED <<info, current, fault, ran>>

(* Mutant: execute() keeps the outcome of the last test only.             *)
ExecuteStepLastOnly ==
  /\ fault = "none" /\ running
  /\ \E c \in RunChoices :
       LET r == RunTest(info, current, Head(pending), c)
           acc2 == r.info[Head(pending)].succeeded
           done == r.escaped \/ Tail(pending) = <<>>
       IN /\ Run(Head(pending), c, r)
          /\ acc' = acc2
          /\ pending' = IF done THEN <<>> ELSE Tail(pending)
          /\ running' = ~done
          /\ lastCall' = IF ~done THEN lastCall
                         ELSE [op |-> "all", test |-> Null,
                               ret |-> acc2, thrown |-> r.escaped]

(* Mutant: the iterator is not advanced (the loop runs `first->second`    *)
(* instead of `(first++)->second`).                                         *)
ExecuteStepNoAdvance ==
  /\ fault = "none" /\ running
  /\ \E c \in RunChoices :
       LET r == RunTest(info, current, Head(pending), c)
           acc2 == acc /\ r.info[Head(pending)].succeeded
           done == r.escaped \/ Tail(pending) = <<>>
       IN /\ Run(Head(pending), c, r)
          /\ acc' = acc2
          /\ pending' = IF r.escaped THEN <<>> ELSE pending
          /\ running' = ~r.escaped
          /\ lastCall' = IF ~r.escaped THEN lastCall
                         ELSE [op |-> "all", test |-> Null,
                               ret |-> acc2, thrown |-> r.escaped]

(* execute(), one turn of its loop: run the next test, clear succeeded if *)
(* the test reports failure; return it after the last test.  An exception *)
(* leaves execute() at once.                                               *)
ExecuteStep ==
  /\ fault = "none" /\ running
  /\ \E c \in RunChoices :
       LET r == RunTest(info, current, Head(pending), c)
           acc2 == acc /\ r.info[Head(pending)].succeeded
           done == r.escaped \/ Tail(pending) = <<>>
       IN /\ Run(Head(pending), c, r)
          /\ acc' = acc2
          /\ pending' = IF done THEN <<>> ELSE Tail(pending)
          /\ running' = ~done
          /\ lastCall' = IF ~done THEN lastCall
                         ELSE [op |-> "all", test |-> Null,
                               ret |-> acc2, thrown |-> r.escaped]

(* execute(test) (lines 64-74): an unknown name returns false; otherwise *)
(* the test runs and its succeeded flag is returned.                       *)
ExecuteOne(n) ==
  /\ fault = "none" /\ ~running
  /\ IF n \notin DOMAIN info
     THEN /\ lastCall' = [op |-> "one", test |-> n, ret |-> FALSE, thrown |-> FALSE]
          /\ UNCHANGED <<info, current, fault, ran>>
     ELSE \E c \in RunChoices :
            LET r == RunTest(info, current, n, c)
            IN /\ Run(n, c, r)
               /\ lastCall' = [op |-> "one", test |-> n,
                               ret |-> r.info[n].succeeded, thrown |-> r.escaped]
  /\ UNCHANGED <<running, pending, acc>>

(* The constructor (lines 27-31): no test, a null current pointer.        *)
Init ==
  /\ info = [t \in {} |-> Null]
  /\ current = Null
  /\ running = FALSE
  /\ pending = <<>>
  /\ acc = TRUE
  /\ fault = "none"
  /\ ran = [t \in {} |-> "none"]
  /\ lastCall = [op |-> "none", test |-> Null, ret |-> FALSE, thrown |-> FALSE]

Next ==
  \/ \E n \in Range(TestOrder) : AddTest(n)
  \/ \E n \in Names : ExecuteOne(n)
  \/ ExecuteAll
  \/ ExecuteStep

(* execute() is one synchronous call: once it has started, the calling   *)
(* thread stays in its loop until the loop ends or an exception leaves it  *)
(* (spec.md 5), so its steps are weakly fair.  The calls a user of the     *)
(* unit makes (add_test, execute, execute(name)) are not: the user may     *)
(* stop at any time.                                                        *)
Spec == Init /\ [][Next]_vars /\ WF_vars(ExecuteStep)

-----------------------------------------------------------------------------
(* Properties                                                             *)

(* execute() returns true exactly when, after its walk, every registered *)
(* test reports success: the result is the conjunction over all tests,    *)
(* not the last one's.                                                     *)
ExecuteReportsAll ==
  ~running /\ lastCall.op = "all" /\ ~lastCall.thrown =>
    lastCall.ret = \A t \in DOMAIN info : info[t].succeeded

(* execute() returns: the walk over the map, started with the tests       *)
(* registered at that time, ends after the last test or at the first      *)
(* exception that escapes execute(test_info), whatever the tests do.       *)
ExecuteReturns == running ~> ~running

(* No assertion is undefined behaviour: an assertion made by initialize() *)
(* (it is one of the unit's methods, lines 92-110 serve it) never         *)
(* follows a null current_test_func_info.                                  *)
NoUndefinedBehaviour == fault = "none"

(* The PASS or FAILED that execute(test_info) prints (lines 144-148) and *)
(* execute(test) returns is what the test's latest run did: a test whose  *)
(* latest run passed reports success, one whose latest run failed reports *)
(* failure.                                                                *)
LatestRunReported ==
  \A t \in DOMAIN ran : ran[t] # "none" => info[t].succeeded = (ran[t] = "pass")
=============================================================================
