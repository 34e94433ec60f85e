---------------------------- MODULE ObjectValue ----------------------------
(***************************************************************************)
(* The single-field accessor of src/include/object/object_value.hpp.      *)
(*                                                                         *)
(* update_value<T>(o, field, value) runs object_value<T>::set, which sets *)
(* the accessor's value_, id_ and succeeded_ and lets the object walk all *)
(* its fields through read_<kind>(name, x); the updater<T, kind> chosen   *)
(* at compile time either ignores the field or, when the names compare    *)
(* equal, marks the object modified, copies value_ into it and sets       *)
(* succeeded_.  retrieve_value<T>(o, field, v) runs object_value<T>::get  *)
(* the same way through write_<kind>(name, x) and the retriever<kind, T>, *)
(* then assigns value_ to v whatever succeeded_ says.                      *)
(*                                                                         *)
(* Each retrieve_value<T> owns one function-local static object_value<T>, *)
(* zero-initialised; its value_ survives from call to call (`retrieved`). *)
(* set and get overwrite id_ and succeeded_ before they read them, so     *)
(* those members carry nothing between calls and are not state here.      *)
(***************************************************************************)
EXTENDS Naturals, Sequences, FiniteSets, Functions, TLC

CONSTANTS
  Objects,     \* the objects
  FieldKind,   \* the objects' fields: name -> "int", "long", "string",
               \* "varchar", "object" or "object_list"
  Names,       \* the field names callers pass (FieldKind's and unknown ones)
  Types,       \* the template arguments T callers use: "int", "long",
               \* "string" (std::string), "varchar_base", "object*"
  Vals,        \* the non-pointer values
  Zero,        \* the zero value of a non-pointer T (static zero-init)
  NullPtr      \* the null object pointer

FieldNames == DOMAIN FieldKind

ASSUME Zero \in Vals
ASSUME FieldNames \subseteq Names

(* The values a T (or a field of kind k) holds.                           *)
ValuesOf(T) == IF T \in {"object*", "object"} THEN Objects \cup {NullPtr} ELSE Vals
ZeroOf(T) == IF T \in {"object*", "object"} THEN NullPtr ELSE Zero

VARIABLES
  objects,     \* objects[o][f]: the value of field f of object o
  modified,    \* modified[o]: o->mark_modified() was called
  retrieved,   \* retrieved[T]: value_ of retrieve_value<T>'s static instance
  last         \* (history) the last call: its arguments and its outcome

vars == <<objects, modified, retrieved, last>>

-----------------------------------------------------------------------------
(* Mutant: the object-pointer retriever also matches a non-pointer T.   *)
RetrievesAnyPointer(k, T) ==
  \/ k = T /\ k \in {"int", "long", "string"}
  \/ k = "varchar" /\ T \in {"string", "varchar_base"}
  \/ k = "object" /\ T \in {"object*", "varchar_base"}

(* retriever<X, T>::retrieve is the copy of one of the specialisations at *)
(* lines 98-180 when write_<kind> instantiates it with that kind's X, and *)
(* the empty primary template (lines 92-96) otherwise:                    *)
(*   write_int -> retriever<int, T>: T = int; likewise long;              *)
(*   write_string -> retriever<const std::string&, T>: T = std::string;   *)
(*   write_varchar -> retriever<const varchar_base&, T>: T = std::string, *)
(*     varchar_base or varchar<C>;                                        *)
(*   write_object -> retriever<const object_base_ptr&, X*>: T = object*;  *)
(*   write_object_list does nothing.                                      *)
Retrieves(k, T) ==
  \/ k = T /\ k \in {"int", "long", "string"}
  \/ k = "varchar" /\ T \in {"string", "varchar_base"}
  \/ k = "object" /\ T = "object*"

(* updater<T, X>::update (lines 50-90, 660-716) as read_<kind> uses it:   *)
(*   read_int -> updater<T, int>: updater<T, T> with T = int; likewise    *)
(*     long and string (updater<T, std::string>);                         *)
(*   read_varchar -> updater<T, varchar_base>: only updater<T, T> with    *)
(*     T = varchar_base; the reference specialisations                    *)
(*     updater<std::string&, varchar_base&> and the like never match;     *)
(*   read_object -> updater<T*, object_base_ptr>: T = object*;            *)
(*   read_object_list does nothing.                                       *)
Updates(k, T) ==
  \/ k = T /\ k \in {"int", "long", "string"}
  \/ k = "varchar" /\ T = "varchar_base"
  \/ k = "object" /\ T = "object*"

(* Mutant: the strcmp(f, id) test is missing.                          *)
NameIgnored(g, f) == TRUE

(* The name comparison strcmp(f, id) == 0 every specialisation makes     *)
(* before touching the field.                                             *)
NameMatches(g, f) == g = f

(* The fields of an object that the walk for (T, f) copies: a field g is *)
(* copied when its specialisation exists and its name matches.            *)
SetMatches(T, f) == {g \in FieldNames : Updates(FieldKind[g], T) /\ NameMatches(g, f)}
GetMatches(T, f) == {g \in FieldNames : Retrieves(FieldKind[g], T) /\ NameMatches(g, f)}

-----------------------------------------------------------------------------
(* update_value<T>(o, field, value) -> object_value<T>::set (lines        *)
(* 220-228, 733-784): succeeded_ = false; o->read_from(this) walks every *)
(* field; each matching one is marked modified and assigned value;       *)
(* success() is returned.                                                 *)
UpdateValue(T, o, f, v) ==
  LET hit == SetMatches(T, f)
  IN /\ objects' = [objects EXCEPT ![o] = [g \in FieldNames |->
                      IF g \in hit THEN v ELSE @[g]]]
     /\ modified' = [modified EXCEPT ![o] = @ \/ hit # {}]
     /\ last' = [op |-> "update", type |-> T, obj |-> o, field |-> f,
                 val |-> v, ok |-> hit # {}, out |-> v]
     /\ UNCHANGED retrieved

(* retrieve_value<T>(o, field, value) -> object_value<T>::get (lines      *)
(* 242-248, 799-850): succeeded_ = false; o->write_to(this) walks every  *)
(* field; a matching one is copied into value_; the caller's variable is *)
(* assigned value_ and success() is returned.                             *)
RetrieveValue(T, o, f) ==
  LET hit == GetMatches(T, f)
      new == IF hit = {} THEN retrieved[T]
             ELSE objects[o][CHOOSE g \in hit : TRUE]
  IN /\ retrieved' = [retrieved EXCEPT ![T] = new]
     /\ last' = [op |-> "retrieve", type |-> T, obj |-> o, field |-> f,
                 val |-> retrieved[T], ok |-> hit # {}, out |-> new]
     /\ UNCHANGED <<objects, modified>>

Init ==
  /\ objects = [o \in Objects |-> [g \in FieldNames |-> ZeroOf(FieldKind[g])]]
  /\ modified = [o \in Objects |-> FALSE]
  /\ retrieved = [T \in Types |-> ZeroOf(T)]
  /\ last = [op |-> "none", type |-> CHOOSE T \in Types : TRUE,
             obj |-> CHOOSE o \in Objects : TRUE, field |-> CHOOSE f \in Names : TRUE,
             val |-> Zero, ok |-> FALSE, out |-> Zero]

Next ==
  \E T \in Types, o \in Objects, f \in Names :
    \/ \E v \in ValuesOf(T) : UpdateValue(T, o, f, v)
    \/ RetrieveValue(T, o, f)

Spec == Init /\ [][Next]_vars

-----------------------------------------------------------------------------
(* Properties                                                             *)

TypeOK ==
  /\ objects \in [Objects -> [FieldNames -> UNION {ValuesOf(k) : k \in Range(FieldKind)}]]
  /\ \A o \in Objects, g \in FieldNames : objects[o][g] \in ValuesOf(FieldKind[g])
  /\ modified \in [Objects -> BOOLEAN]
  /\ \A T \in Types : retrieved[T] \in ValuesOf(T)
  /\ last.op \in {"none", "update", "retrieve"}

(* An update_value call changes no field but the one it names, of the    *)
(* object it is given, to the value it is given; it reports true exactly *)
(* when it did, and then the object has been marked modified.  A failed   *)
(* call leaves every object as it was.                                    *)
UpdateWritesNamedField ==
  [][last'.op = "update" =>
       IF last'.ok
       THEN /\ last'.field \in FieldNames
            /\ objects' = [objects EXCEPT ![last'.obj][last'.field] = last'.val]
            /\ modified'[last'.obj]
       ELSE objects' = objects]_vars

(* A retrieve_value call that reports success hands back the current     *)
(* value of the field it names, of the object it is given.               *)
RetrieveReadsNamedField ==
  [][last'.op = "retrieve" /\ last'.ok =>
       /\ last'.field \in FieldNames
       /\ last'.out = objects[last'.obj][last'.field]]_vars

(* spec.md 4.1: set and get match a field the same way, by name and type: *)
(* an update_value<T> of a field that retrieve_value<T> reads succeeds.   *)
UpdateWhereRetrieveWorks ==
  [][last'.op = "update" /\ GetMatches(last'.type, last'.field) # {} =>
       last'.ok]_vars

(* spec.md 9 wants no hidden state shared across accessor calls: a failed *)
(* retrieve_value<T> hands the caller T's default value, never a value   *)
(* copied from some earlier call on another object or field.             *)
FailedRetrieveIsFresh ==
  [][last'.op = "retrieve" /\ ~last'.ok => last'.out = ZeroOf(last'.type)]_vars

=============================================================================
