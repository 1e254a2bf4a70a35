----------------------------- MODULE JsonParser -----------------------------
(***************************************************************************)
(* core/json.c json_parse: a recursive-descent parser whose every node,    *)
(* string, key and array is a heap block that may not be had.  The C call  *)
(* stack is `stack`, one frame for each parse_array or parse_object that   *)
(* has not returned; `ret` is the value last returned.                     *)
(*                                                                         *)
(* The text is a sequence of tokens, chosen as the parser comes to them:   *)
(* `text` is what has been consumed and `ahead` what p points at.  White   *)
(* space is skipped wherever a token begins and is left out.  How a string *)
(* or a number is spelt is left out too; "bad" is whatever starts none, a  *)
(* string that does not end or has a wrong escape included.                *)
(***************************************************************************)
EXTENDS JsonTree

CONSTANTS
  Strings, Numbers, Literals,   \* tokens that are values by themselves
  MaxDepth,                     \* JSON_MAX_DEPTH
  MaxText                       \* bound on the tokens of a text

VARIABLES
  text, ahead,   \* the tokens consumed, and the next one or "end"
  pc,
  stack,         \* the arrays and objects under construction
  depth,         \* x->depth
  ret,           \* the value returned: the tree and what json_free frees
  heap, fresh,   \* blocks in use, and the next block malloc will give
  starved        \* has an allocation failed?

vars == <<text, ahead, pc, stack, depth, ret, heap, fresh, starved>>

Scalars == Strings \cup Numbers \cup Literals
Tokens == Scalars \cup {"[", "]", "{", "}", ",", ":", "bad"}

ASSUME JsonAssumption == MaxDepth \in Nat /\ MaxText \in Nat

(* The node of a scalar. *)
Scalar(t) ==
  Value(CASE t \in Strings -> "str" [] t \in Numbers -> "num"
          [] t \in Literals -> IF t = "null" THEN "null" ELSE "bool", t)
Nothing == [tree |-> Null, own |-> {}]
NoKey == [name |-> "", own |-> {}]

Top == stack[Len(stack)]
Pop == stack' = SubSeq(stack, 1, Len(stack) - 1)
Replace(frame) == stack' = [stack EXCEPT ![Len(stack)] = frame]
Closer == IF Top.tree.type = "arr" THEN "]" ELSE "}"

(* Past the token that has been looked at. *)
Advance ==
  /\ text' = Append(text, ahead)
  /\ ahead' \in IF Len(text') < MaxText THEN Tokens \cup {"end"} ELSE {"end"}
Stay == UNCHANGED <<text, ahead>>

(* Blocks freed that are not in use, or freed twice, corrupt the heap.     *)
Corrupt == {-1}
Free(parts) ==
  LET all == UNION {parts[i] : i \in DOMAIN parts}
      once == \A i, j \in DOMAIN parts : i # j => parts[i] \cap parts[j] = {}
  IN heap' = IF all \subseteq heap /\ once THEN heap \ all ELSE Corrupt

Malloc(n) == /\ heap' = heap \cup (fresh .. fresh + n - 1)
             /\ fresh' = fresh + n
             /\ UNCHANGED starved
Starve == starved' = TRUE /\ UNCHANGED fresh

TooDeep == depth + 1 > MaxDepth

(* Mutant: an empty array or object returns without x->depth--. *)
DepthAfterEmpty == IF pc = "first" THEN depth ELSE depth - 1
DepthAround == depth - 1

(* What the function of the frame on top frees when it gives up. *)
Held == <<Top.key.own, Top.own>>

(* Mutant: push_child counts the element before keys[] has grown, so that  *)
(* json_free of the object frees what its caller frees as well.            *)
HeldWithChildTwice == <<Top.key.own, ret.own, Top.own \cup ret.own>>
HeldWithChild == <<Top.key.own, ret.own, Top.own>>

(* Mutant: what follows the value is not looked at. *)
TrailingIgnored == FALSE
Trailing == ahead # "end"

-----------------------------------------------------------------------------
Init ==
  /\ text = << >> /\ ahead \in Tokens \cup {"end"}
  /\ pc = "value"
  /\ stack = << >> /\ depth = 0
  /\ ret = Nothing
  /\ heap = {} /\ fresh = 1
  /\ starved = FALSE

(* parse_value meets the end, or what no value begins with. *)
NoValue ==
  /\ pc = "value" /\ ahead \notin Scalars \cup {"[", "{"}
  /\ pc' = "fail"
  /\ Stay /\ UNCHANGED <<stack, depth, ret, heap, fresh, starved>>

(* parse_string, parse_number: a node and its text; parse_lit: a node.  If *)
(* only the first of the two is had it is freed again.                     *)
ParseScalar ==
  /\ pc = "value" /\ ahead \in Scalars
  /\ Advance
  /\ \/ LET n == IF ahead \in Literals THEN 1 ELSE 2
        IN /\ Malloc(n)
           /\ ret' = [tree |-> Scalar(ahead), own |-> fresh .. fresh + n - 1]
           /\ pc' = "returned"
     \/ Starve /\ pc' = "fail" /\ UNCHANGED <<ret, heap>>
  /\ UNCHANGED <<stack, depth>>

(* An array or an object begins: it may be one too deep. *)
Open ==
  /\ pc = "value" /\ ahead \in {"[", "{"}
  /\ Advance
  /\ depth' = depth + 1
  /\ \/ /\ ~TooDeep /\ Malloc(1)
        /\ stack' = Append(stack, [tree |-> Value(IF ahead = "[" THEN "arr" ELSE "obj", ""),
                                   own |-> {fresh}, key |-> NoKey])
        /\ pc' = "first"
     \/ /\ \/ TooDeep /\ UNCHANGED <<fresh, starved>>
           \/ ~TooDeep /\ Starve
        /\ pc' = "fail" /\ UNCHANGED <<stack, heap>>
  /\ UNCHANGED ret

Element ==
  /\ pc = "first" /\ ahead # Closer
  /\ pc' = IF Top.tree.type = "arr" THEN "value" ELSE "key"
  /\ Stay /\ UNCHANGED <<stack, depth, ret, heap, fresh, starved>>

Close ==
  /\ pc \in {"first", "sep"} /\ ahead = Closer
  /\ Advance
  /\ depth' = DepthAround
  /\ ret' = [tree |-> Top.tree, own |-> Top.own]
  /\ Pop
  /\ pc' = "returned"
  /\ UNCHANGED <<heap, fresh, starved>>

Comma ==
  /\ pc = "sep" /\ ahead = ","
  /\ Advance
  /\ pc' = IF Top.tree.type = "arr" THEN "value" ELSE "key"
  /\ UNCHANGED <<stack, depth, ret, heap, fresh, starved>>

(* Neither a comma nor the end of the array or object. *)
NoSeparator ==
  /\ pc = "sep" /\ ahead \notin {",", Closer}
  /\ Free(Held) /\ Pop
  /\ pc' = "fail"
  /\ Stay /\ UNCHANGED <<depth, ret, fresh, starved>>

ParseKey ==
  /\ pc = "key"
  /\ \/ /\ ahead \in Strings
        /\ Advance
        /\ Malloc(1)
        /\ Replace([tree |-> Top.tree, own |-> Top.own, key |-> [name |-> ahead, own |-> {fresh}]])
        /\ pc' = "colon"
     \/ /\ Free(Held) /\ Pop
        /\ pc' = "fail"
        /\ \/ ahead \in Strings /\ Starve
           \/ ahead \notin Strings /\ UNCHANGED <<fresh, starved>>
        /\ Stay
  /\ UNCHANGED <<depth, ret>>

Colon ==
  /\ pc = "colon"
  /\ IF ahead = ":"
     THEN Advance /\ pc' = "value" /\ UNCHANGED <<stack, heap>>
     ELSE Stay /\ pc' = "fail" /\ Pop /\ Free(Held)
  /\ UNCHANGED <<depth, ret, fresh, starved>>

(* push_child: the arrays of an array or object come with its first        *)
(* element.  Its caller frees what could not be pushed.                    *)
PushChild ==
  /\ pc = "returned" /\ stack # << >>
  /\ \/ LET n == IF Top.tree.vals # << >> THEN 0 ELSE IF Top.tree.type = "arr" THEN 1 ELSE 2
        IN /\ Malloc(n)
           /\ Replace([tree |-> [Top.tree EXCEPT !.vals = Append(@, ret.tree),
                                                   !.keys = Append(@, Top.key.name)],
                       own |-> Top.own \cup Top.key.own \cup ret.own \cup (fresh .. fresh + n - 1),
                       key |-> NoKey])
           /\ pc' = "sep"
     \/ /\ Free(HeldWithChild) /\ Pop
        /\ Starve
        /\ pc' = "fail"
  /\ ret' = Nothing
  /\ Stay /\ UNCHANGED depth

(* NULL is returned to the array or object around, which gives up too.     *)
Unwind ==
  /\ pc = "fail" /\ stack # << >>
  /\ Free(Held) /\ Pop
  /\ Stay /\ UNCHANGED <<pc, depth, ret, fresh, starved>>

ReturnNull ==
  /\ pc = "fail" /\ stack = << >>
  /\ pc' = "null"
  /\ Stay /\ UNCHANGED <<stack, depth, ret, heap, fresh, starved>>

(* The value is the whole text, or there is trailing garbage. *)
ReturnRoot ==
  /\ pc = "returned" /\ stack = << >>
  /\ IF Trailing
     THEN pc' = "null" /\ ret' = Nothing /\ Free(<<ret.own>>)
     ELSE pc' = "done" /\ UNCHANGED <<ret, heap>>
  /\ Stay /\ UNCHANGED <<stack, depth, fresh, starved>>

(* The caller's json_free. *)
FreeTree ==
  /\ pc = "done"
  /\ Free(<<ret.own>>) /\ ret' = Nothing
  /\ pc' = "freed"
  /\ Stay /\ UNCHANGED <<stack, depth, fresh, starved>>

Parse ==
  \/ NoValue \/ ParseScalar \/ Open \/ Element \/ Close \/ Comma \/ NoSeparator
  \/ ParseKey \/ Colon \/ PushChild \/ Unwind \/ ReturnNull \/ ReturnRoot

(* The document is gone. *)
Terminated == pc \in {"null", "freed"} /\ UNCHANGED vars

Next == Parse \/ FreeTree \/ Terminated

Spec == Init /\ [][Next]_vars

-----------------------------------------------------------------------------
(* Properties *)

Frames == DOMAIN stack

(* Every block in use is held in exactly one place: by one array or object *)
(* under construction, by the key one of these has read, or by the value   *)
(* just returned.  So nothing leaks and nothing is freed twice, whichever  *)
(* allocation fails and wherever the text goes wrong; a NULL leaves        *)
(* nothing behind, nor does json_free of what was returned.                *)
OwnedOnce ==
  /\ pc \in {"null", "freed"} => heap = {}
  /\ heap = ret.own \cup UNION {stack[i].own \cup stack[i].key.own : i \in Frames}
  /\ \A i \in Frames :
       /\ ret.own \cap (stack[i].own \cup stack[i].key.own) = {}
       /\ stack[i].own \cap stack[i].key.own = {}
       /\ \A j \in Frames : i # j => (stack[i].own \cup stack[i].key.own)
                                       \cap (stack[j].own \cup stack[j].key.own) = {}

(* No text, however it is nested, has the parser call itself more than     *)
(* JSON_MAX_DEPTH deep: x->depth counts the arrays and objects that have   *)
(* not returned, across every way out of them, until the text is given up. *)
NestingBounded ==
  /\ Len(stack) <= MaxDepth
  /\ pc \notin {"fail", "null"} => depth = Len(stack)
=============================================================================
