---------------------------- MODULE MCJsonParser ----------------------------
(* Every text of up to MaxText tokens, against the grammar.                *)
EXTENDS JsonParser

(* The longest document a viable text of MaxText tokens may need: after    *)
(* "{" and a key, ":", a value and "}"; after the colon two less.          *)
DocLength == MaxText + 2 + MaxDepth

(* The documents of n tokens that nest up to k deep, and the sequences of  *)
(* elements and of members, at least one, that can stand in an array or in *)
(* an object.                                                              *)
Join(S, sep, T) == {s \o <<sep>> \o t : s \in S, t \in T}
Within(l, S, r) == {<<l>> \o s \o <<r>> : s \in S}

Grammar[what \in {"value", "elements", "members"}, n \in 0 .. DocLength, k \in 0 .. MaxDepth] ==
  CASE what = "value" ->
         (IF n = 1 THEN {<<t>> : t \in Scalars} ELSE {})
         \cup (IF n = 2 /\ k > 0 THEN {<<"[", "]">>, <<"{", "}">>} ELSE {})
         \cup (IF n > 2 /\ k > 0
               THEN Within("[", Grammar["elements", n - 2, k - 1], "]")
                    \cup Within("{", Grammar["members", n - 2, k - 1], "}")
               ELSE {})
    [] what = "elements" ->
         (IF n > 0 THEN Grammar["value", n, k] ELSE {})
         \cup UNION {Join(Grammar["value", i, k], ",", Grammar["elements", n - 1 - i, k]) :
                     i \in 1 .. n - 2}
    [] what = "members" ->
         (IF n > 2 THEN Join({<<s>> : s \in Strings}, ":", Grammar["value", n - 2, k]) ELSE {})
         \cup UNION {Join(Join({<<s>> : s \in Strings}, ":", Grammar["value", i - 2, k]), ",",
                          Grammar["members", n - 1 - i, k]) : i \in 3 .. n - 2}

Documents == UNION {Grammar["value", n, MaxDepth] : n \in 1 .. DocLength}

(* What may still become a document, its end included. *)
Viable ==
  LET Marked == {Append(d, "end") : d \in Documents}
  IN {SubSeq(d, 1, Len(d) - i) : d \in Marked, i \in 0 .. DocLength}

-----------------------------------------------------------------------------
(* The trees that nest up to k deep, and the text each stands for.          *)
Unnamed == ""
Leaves == {Scalar(t) : t \in Scalars}
Branches(S) == [type : {"arr", "obj"}, data : {Unnamed}, keys : Seq(Strings \cup {Unnamed}), vals : Seq(S)]
Nodes(S) == {s \in Branches(S) : Len(s.keys) = Len(s.vals)}

Opener(type) == IF type = "arr" THEN "[" ELSE "{"
Shutter(type) == IF type = "arr" THEN "]" ELSE "}"

(* What stands before the i-th element or member, and its value. *)
Introduced(s, i) ==
  (IF i > 1 THEN <<",">> ELSE << >>) \o (IF s.type = "obj" THEN <<s.keys[i], ":">> ELSE << >>)

Items(s, spelling) ==
  LET upTo[i \in 0 .. Len(s.vals)] ==
        IF i = 0 THEN << >> ELSE upTo[i - 1] \o (Introduced(s, i) \o spelling[s.vals[i]])
  IN upTo[Len(s.vals)]

LeafSpelling == [s \in Leaves |-> <<s.data>>]
NodeSpelling(spelling) ==
  [s \in Leaves \cup Nodes(DOMAIN spelling) |->
     IF s \in Leaves THEN <<s.data>>
     ELSE (<<Opener(s.type)>> \o Items(s, spelling)) \o <<Shutter(s.type)>>]

Spelling[k \in 0 .. MaxDepth] == IF k = 0 THEN LeafSpelling ELSE NodeSpelling(Spelling[k - 1])

(* A tree that is returned nests no deeper than JSON_MAX_DEPTH and is the   *)
(* whole text: no element is lost, doubled or moved, every key stands by    *)
(* its own value, nothing trails.                                           *)
TreeIsText ==
  pc = "done" =>
    /\ ahead = "end"
    /\ ret.tree \in DOMAIN Spelling[MaxDepth] /\ Spelling[MaxDepth][ret.tree] = text

(* NULL has a reason: memory ran out, or no document that nests up to      *)
(* JSON_MAX_DEPTH begins with what was read.                               *)
NullHasReason == pc \in {"fail", "null"} => starved \/ Append(text, ahead) \notin Viable
=============================================================================
