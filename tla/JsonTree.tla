------------------------------ MODULE JsonTree ------------------------------
(***************************************************************************)
(* core/json.c: the values of a document and the accessors the rest of the *)
(* program reads them with.  A null pointer reads like JSON null in all of *)
(* them, so that a chain of lookups needs no test on the way; Null is both.*)
(***************************************************************************)
EXTENDS Integers, Sequences

CONSTANT NoText    \* the null pointer, where a text may be
ASSUME JsonTreeAssumption == NoText \notin STRING

Value(type, data) == [type |-> type, data |-> data, keys |-> << >>, vals |-> << >>]
Null == Value("null", "")
Array(vals) == [type |-> "arr", data |-> "", keys |-> << >>, vals |-> vals]
Object(keys, vals) == [type |-> "obj", data |-> "", keys |-> keys, vals |-> vals]

(* json_get: the first member of that name, of an object only.             *)
Get(v, key) ==
  LET at == {i \in DOMAIN v.vals : v.type = "obj" /\ v.keys[i] = key}
  IN IF at = {} THEN Null ELSE v.vals[CHOOSE i \in at : \A j \in at : i <= j]

(* json_at counts from 0, and reads arrays only. *)
At(v, index) ==
  IF v.type = "arr" /\ index \in 0 .. Len(v.vals) - 1 THEN v.vals[index + 1] ELSE Null

(* json_count counts the members of an object as well. *)
Count(v) == Len(v.vals)

(* json_string: what is no string has no text; an empty string has one. *)
Text(v) == IF v.type = "str" THEN v.data ELSE NoText
=============================================================================
