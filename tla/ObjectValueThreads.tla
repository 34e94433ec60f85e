------------------------- MODULE ObjectValueThreads -------------------------
(***************************************************************************)
(* update_value<T> (src/include/object/object_value.hpp) called by        *)
(* several threads, each working on its own session and its own objects   *)
(* (spec.md 5 asks for external locking only of a session used by more    *)
(* than one thread).                                                       *)
(*                                                                         *)
(* All calls share the one function-local static object_value<T> of       *)
(* update_value<T>; its members value_, id_, object_ and succeeded_ are   *)
(* the shared variables here.  A call is split where it reads or writes   *)
(* them: set() assigns the four members, read_from walks the object's     *)
(* fields one read_<kind> call at a time, each reading id_, object_ and   *)
(* value_ when it runs, and set() ends by clearing object_, after which    *)
(* update_value returns success().  Unsynchronised access to the static   *)
(* is a data race; the outcomes modelled are those where each member      *)
(* access sees a whole value written by one of the threads.               *)
(*                                                                         *)
(* The objects' fields are of the kind T is (T = int here), so            *)
(* updater<T, T> is chosen for every field and only the name comparison   *)
(* decides.                                                                *)
(***************************************************************************)
EXTENDS Naturals, Sequences, SequencesExt

CONSTANTS
  Threads,       \* the threads calling update_value<T>
  Objects,       \* the objects, each owned by one thread (Owner)
  Owner,         \* Owner[t]: the objects thread t's session works on
  FieldOrder,    \* the fields in the order read_from visits them
  Names,         \* the field names callers pass
  Vals,          \* the values callers pass
  Zero,          \* T's zero value
  Null           \* a null pointer; also "no call yet"

Fields == Range(FieldOrder)

VARIABLES
  objects,       \* objects[o][g]: field g of object o
  modified,      \* modified[o]: mark_modified(o) was called
  value_, id_, object_, succeeded_,   \* the shared static object_value<T>
  pc,            \* pc[t]: "idle", "walk" or "done"
  pos,           \* pos[t]: the next field of thread t's walk
  call,          \* call[t]: thread t's arguments [obj, field, val], or Null
  ret,           \* ret[t]: what update_value returned to thread t
  fault,         \* "none" or "segv"
  writes         \* (history) every field assignment an updater made:
                 \* the thread, the object marked, the field and the value

vars == <<objects, modified, value_, id_, object_, succeeded_, pc, pos, call,
          ret, fault, writes>>

-----------------------------------------------------------------------------
(* update_value<T>(o, field, value) (lines 733-740) enters set()          *)
(* (lines 220-225): value_ = value; id_ = id; object_ = o;                *)
(* succeeded_ = false.                                                     *)
Set(t, o, f, v) ==
  /\ fault = "none" /\ pc[t] = "idle"
  /\ value_' = v
  /\ id_' = f
  /\ object_' = o
  /\ succeeded_' = FALSE
  /\ pc' = [pc EXCEPT ![t] = "walk"]
  /\ pos' = [pos EXCEPT ![t] = 1]
  /\ call' = [call EXCEPT ![t] = [obj |-> o, field |-> f, val |-> v]]
  /\ UNCHANGED <<objects, modified, ret, fault, writes>>

(* o->read_from(this) visits the next field g of thread t's object:      *)
(* read_<kind>(g, x) calls updater<T, T>::update(g, id_.c_str(),          *)
(* succeeded_, *this, object_, value_, x) (lines 450-454, 660-669): when  *)
(* strcmp(g, id_) is 0 it calls mark_modified(object_), assigns value_ to *)
(* the field and sets succeeded_.  mark_modified through a null object_   *)
(* is undefined behaviour ("segv").                                        *)
Walk(t) ==
  /\ fault = "none" /\ pc[t] = "walk"
  /\ pos[t] <= Len(FieldOrder)
  /\ LET g == FieldOrder[pos[t]]
         o == call[t].obj
     IN IF g # id_
        THEN UNCHANGED <<objects, modified, succeeded_, fault, writes>>
        ELSE IF object_ = Null
        THEN /\ fault' = "segv"
             /\ UNCHANGED <<objects, modified, succeeded_, writes>>
        ELSE /\ modified' = [modified EXCEPT ![object_] = TRUE]
             /\ objects' = [objects EXCEPT ![o][g] = value_]
             /\ succeeded_' = TRUE
             /\ writes' = writes \cup {[t |-> t, marked |-> object_,
                                        obj |-> o, field |-> g, val |-> value_]}
             /\ UNCHANGED fault
  /\ pos' = [pos EXCEPT ![t] = @ + 1]
  /\ UNCHANGED <<value_, id_, object_, pc, call, ret>>

(* The walk is over: set() clears object_ (line 227) and update_value     *)
(* returns type_value.success() (line 739).                                *)
Finish(t) ==
  /\ fault = "none" /\ pc[t] = "walk"
  /\ pos[t] > Len(FieldOrder)
  /\ object_' = Null
  /\ ret' = [ret EXCEPT ![t] = succeeded_]
  /\ pc' = [pc EXCEPT ![t] = "done"]
  /\ UNCHANGED <<objects, modified, value_, id_, succeeded_, pos, call, fault,
                 writes>>

(* The static is zero-initialised and constructed with object_ = 0 and    *)
(* succeeded_ = false (lines 201-204); every field starts at zero.         *)
Init ==
  /\ objects = [o \in Objects |-> [g \in Fields |-> Zero]]
  /\ modified = [o \in Objects |-> FALSE]
  /\ value_ = Zero
  /\ id_ = ""
  /\ object_ = Null
  /\ succeeded_ = FALSE
  /\ pc = [t \in Threads |-> "idle"]
  /\ pos = [t \in Threads |-> 1]
  /\ call = [t \in Threads |-> Null]
  /\ ret = [t \in Threads |-> FALSE]
  /\ fault = "none"
  /\ writes = {}

(* Each thread makes one call on one of its own objects.                  *)
Next ==
  \E t \in Threads :
    \/ \E o \in Owner[t], f \in Names, v \in Vals : Set(t, o, f, v)
    \/ Walk(t)
    \/ Finish(t)

Spec == Init /\ [][Next]_vars

-----------------------------------------------------------------------------
(* Properties                                                             *)

(* Calls made by different threads on different sessions do not see each *)
(* other: every assignment an updater makes during thread t's call puts   *)
(* t's value into t's named field and marks t's object, no call follows a *)
(* null pointer, and a returned call reports whether its own field was     *)
(* written.                                                                *)
UpdatesIsolated ==
  /\ fault = "none"
  /\ \A w \in writes :
       /\ w.field = call[w.t].field
       /\ w.val = call[w.t].val
       /\ w.marked = call[w.t].obj
  /\ \A t \in Threads : pc[t] = "done" => ret[t] = (call[t].field \in Fields)
=============================================================================
