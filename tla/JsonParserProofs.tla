-------------------------- MODULE JsonParserProofs --------------------------
(* For all texts, all depths and whichever allocations fail: who owns a      *)
(* block of the parser's, for which nothing of a tree is used, since         *)
(* ownership does not depend on what the text says; and what a tree has to   *)
(* do with the text it was read from.                                        *)
EXTENDS MCJsonParser, SequenceTheorems, WellFoundedInduction, TLAPS

Blocks(frame) == frame.own \cup frame.key.own
ItemsOf(s) == {s[k] : k \in DOMAIN s}

Types ==
  /\ stack \in Seq(ItemsOf(stack))
  /\ fresh \in Nat \ {0}
  /\ heap \subseteq 1 .. fresh - 1

(* What is being returned is the only value in flight, and a frame holds a *)
(* key only from the key to the end of its value.                          *)
Control ==
  /\ pc \notin {"returned", "done"} => ret.own = {}
  /\ pc \in {"first", "sep", "key", "colon"} => stack # << >>
  /\ pc \in {"first", "sep", "key"} => Top.key.own = {}
  /\ pc \in {"null", "done", "freed"} => stack = << >>

(* Each block in use has a place, and no other has it too. *)
Placed ==
  /\ \A b \in heap : b \in ret.own \/ \E k \in Frames : b \in Blocks(stack[k])
  /\ ret.own \subseteq heap
  /\ \A k \in Frames : Blocks(stack[k]) \subseteq heap
Apart ==
  \A k \in Frames :
    /\ ret.own \cap Blocks(stack[k]) = {}
    /\ stack[k].own \cap stack[k].key.own = {}
    /\ \A j \in Frames : j # k => Blocks(stack[j]) \cap Blocks(stack[k]) = {}

Inv == Types /\ Control /\ Placed /\ Apart

-----------------------------------------------------------------------------
(* A sequence is one over its own elements.                                *)
LEMMA OverItsRange == ASSUME NEW S, NEW s \in Seq(S) PROVE s \in Seq(ItemsOf(s))
<1>1. Len(s) \in Nat /\ s \in [1 .. Len(s) -> S] /\ DOMAIN s = 1 .. Len(s)
  BY LenProperties
<1>2. s \in [1 .. Len(s) -> ItemsOf(s)]
  BY <1>1 DEF ItemsOf
<1>3. QED
  BY <1>1, <1>2

(* A frame more: the others stay where they are.                           *)
LEMMA Pushed ==
  ASSUME NEW S, NEW s \in Seq(S), NEW frame
  PROVE  /\ Append(s, frame) \in Seq(ItemsOf(Append(s, frame)))
         /\ Len(s) \in Nat /\ DOMAIN s = 1 .. Len(s)
         /\ Len(Append(s, frame)) = Len(s) + 1
         /\ DOMAIN Append(s, frame) = 1 .. Len(s) + 1
         /\ Append(s, frame)[Len(s) + 1] = frame
         /\ \A k \in 1 .. Len(s) : Append(s, frame)[k] = s[k]
<1> DEFINE T == S \cup {frame}
<1>1. s \in Seq(T) /\ frame \in T
  BY SeqMonotonic
<1>2. /\ Append(s, frame) \in Seq(T)
      /\ Len(Append(s, frame)) = Len(s) + 1
      /\ \A k \in 1 .. Len(s) : Append(s, frame)[k] = s[k]
      /\ Append(s, frame)[Len(s) + 1] = frame
  BY <1>1, AppendProperties
<1>3. QED
  BY <1>2, LenProperties, OverItsRange

(* A frame less.                                                           *)
LEMMA Popped ==
  ASSUME NEW S, NEW s \in Seq(S), s # << >>
  PROVE  LET t == SubSeq(s, 1, Len(s) - 1)
         IN /\ t \in Seq(ItemsOf(t))
            /\ Len(s) \in Nat \ {0} /\ DOMAIN s = 1 .. Len(s)
            /\ Len(t) = Len(s) - 1 /\ DOMAIN t = 1 .. Len(s) - 1
            /\ \A k \in 1 .. Len(s) - 1 : t[k] = s[k]
<1> DEFINE t == SubSeq(s, 1, Len(s) - 1)
<1>1. Len(s) \in Nat \ {0} /\ DOMAIN s = 1 .. Len(s) /\ \A k \in 1 .. Len(s) : s[k] \in S
  BY LenProperties, EmptySeq
<1>2. /\ t \in Seq(S) /\ Len(t) = Len(s) - 1
      /\ \A k \in 1 .. Len(s) - 1 : t[k] = s[k]
  <2>1. \A k \in 1 .. Len(s) - 1 : s[k] \in S
    BY <1>1
  <2>2. Len(s) - 1 \in Int /\ 1 \in Int
    BY <1>1
  <2>3. /\ t \in Seq(S)
        /\ Len(t) = IF 1 <= Len(s) - 1 THEN Len(s) - 1 - 1 + 1 ELSE 0
        /\ \A k \in 1 .. Len(s) - 1 - 1 + 1 : t[k] = s[1 + k - 1]
    BY <2>1, <2>2, SubSeqProperties
  <2>4. QED
    BY <1>1, <2>3
<1>3. t \in Seq(ItemsOf(t)) /\ DOMAIN t = 1 .. Len(t)
  BY <1>2, LenProperties, OverItsRange
<1> HIDE DEF t
<1>4. QED
  BY <1>1, <1>2, <1>3 DEF t

(* Another frame on top.                                                   *)
LEMMA Replaced ==
  ASSUME stack \in Seq(ItemsOf(stack)), stack # << >>, NEW frame, Replace(frame)
  PROVE  /\ stack' \in Seq(ItemsOf(stack'))
         /\ Len(stack) \in Nat \ {0} /\ DOMAIN stack = 1 .. Len(stack)
         /\ Len(stack') = Len(stack) /\ DOMAIN stack' = 1 .. Len(stack)
         /\ stack'[Len(stack)] = frame
         /\ \A k \in 1 .. Len(stack) - 1 : stack'[k] = stack[k]
<1> DEFINE T == ItemsOf(stack) \cup {frame}
           m == Len(stack)
<1>1. stack \in Seq(T) /\ frame \in T
  BY SeqMonotonic
<1>2. m \in Nat \ {0} /\ DOMAIN stack = 1 .. m /\ m \in 1 .. m
  BY LenProperties, EmptySeq
<1>3. stack' = [stack EXCEPT ![m] = frame]
  BY DEF Replace
<1> HIDE DEF T, m
<1>4. /\ stack' \in Seq(T) /\ Len(stack') = Len(stack)
      /\ \A k \in 1 .. Len(stack) : stack'[k] = IF k = m THEN frame ELSE stack[k]
  BY <1>1, <1>2, <1>3, ExceptSeq DEF m
<1>5. stack' \in Seq(ItemsOf(stack')) /\ DOMAIN stack' = 1 .. Len(stack')
  BY <1>4, LenProperties, OverItsRange
<1>6. stack'[m] = frame
  BY <1>2, <1>4 DEF m
<1>7. \A k \in 1 .. m - 1 : stack'[k] = stack[k]
  <2>1. \A k \in 1 .. m - 1 : k \in 1 .. m /\ k # m
    BY <1>2
  <2>2. QED
    BY <1>4, <2>1 DEF m
<1>8. QED
  BY <1>2, <1>4, <1>5, <1>6, <1>7 DEF m

(* What is freed is in use and freed once: then the heap keeps the rest.   *)
LEMMA FreesOne ==
  ASSUME NEW A, Free(<<A>>), A \subseteq heap
  PROVE  heap' = heap \ A
BY DEF Free

(* Two parts that have nothing in common. *)
LEMMA FreesTwo ==
  ASSUME NEW A, NEW B, Free(<<A, B>>), A \cup B \subseteq heap, A \cap B = {}
  PROVE  heap' = heap \ (A \cup B)
BY DEF Free

(* And three. *)
LEMMA FreesThree ==
  ASSUME NEW A, NEW B, NEW C, Free(<<A, B, C>>), A \cup B \cup C \subseteq heap,
         A \cap B = {}, A \cap C = {}, B \cap C = {}
  PROVE  heap' = heap \ (A \cup B \cup C)
BY DEF Free

-----------------------------------------------------------------------------
(* At first there is nothing to own. *)
LEMMA InitInv == Init => Inv
<1> SUFFICES ASSUME Init PROVE Inv
  OBVIOUS
<1>1. stack = << >> /\ DOMAIN stack = {} /\ stack \in Seq(ItemsOf(stack))
  BY EmptySeq DEF Init
<1>2. QED
  BY <1>1 DEF Init, Nothing, Inv, Types, Control, Placed, Apart, Frames

(* The frame on top gives up: its key and its children are freed, and      *)
(* nothing else.                                                           *)
LEMMA GivesUp ==
  ASSUME Inv, stack # << >>, ret.own = {}, Free(Held), Pop, pc' = "fail",
         UNCHANGED <<ret, fresh>>
  PROVE  Inv'
<1> DEFINE m == Len(stack)
<1>1. /\ stack' \in Seq(ItemsOf(stack'))
      /\ m \in Nat \ {0} /\ DOMAIN stack = 1 .. m /\ DOMAIN stack' = 1 .. m - 1
      /\ \A k \in 1 .. m - 1 : stack'[k] = stack[k]
  BY Popped DEF Pop, Inv, Types
<1>2. Top = stack[m] /\ m \in Frames
  BY <1>1 DEF Top, Frames
<1> HIDE DEF m
<1>3. heap' = heap \ Blocks(Top)
  <2>1. Top.key.own \cup Top.own \subseteq heap /\ Top.key.own \cap Top.own = {}
    BY <1>2 DEF Inv, Placed, Apart, Blocks
  <2>2. QED
    BY <2>1, FreesTwo DEF Held, Blocks
<1>4. Types' /\ Control'
  BY <1>1, <1>3 DEF Inv, Types, Control
<1>5. Placed'
  BY <1>1, <1>2, <1>3 DEF Inv, Placed, Apart, Frames
<1>6. Apart'
  BY <1>1 DEF Inv, Apart, Frames
<1>7. QED
  BY <1>4, <1>5, <1>6 DEF Inv

(* Nothing is taken and nothing is freed. *)
LEMMA MovesOn ==
  ASSUME Inv, UNCHANGED <<stack, ret, heap, fresh>>, Control'
  PROVE  Inv'
BY DEF Inv, Types, Placed, Apart, Frames

(* A value that is complete. *)
LEMMA ScalarKeeps == ASSUME Inv, ParseScalar PROVE Inv'
<1>1. CASE Starve /\ pc' = "fail" /\ UNCHANGED <<ret, heap>>
  <2>1. Control'
    BY <1>1 DEF Inv, Control, ParseScalar
  <2>2. QED
    BY <1>1, <2>1, MovesOn DEF ParseScalar, Starve
<1>2. CASE pc' = "returned"
  <2>1. PICK k \in {1, 2} : Malloc(k) /\ ret'.own = fresh .. fresh + k - 1
    BY <1>2 DEF ParseScalar
  <2>2. UNCHANGED stack /\ ret.own = {}
    BY DEF ParseScalar, Inv, Control
  <2>3. Types' /\ Control'
    <3>1. fresh' \in Nat \ {0} /\ heap' \subseteq 1 .. fresh' - 1
      BY <2>1 DEF Inv, Types, Malloc
    <3>2. Types'
      BY <2>2, <3>1 DEF Inv, Types
    <3>3. Control'
      BY <1>2, <2>2 DEF Control
    <3>4. QED
      BY <3>2, <3>3
  <2>4. Placed'
    BY <2>1, <2>2 DEF Inv, Placed, Malloc, Frames
  <2>5. Apart'
    <3>1. \A j \in Frames : Blocks(stack[j]) \subseteq heap
      BY DEF Inv, Placed
    <3>2. ret'.own \cap heap = {}
      BY <2>1 DEF Inv, Types
    <3>3. QED
      BY <2>2, <3>1, <3>2 DEF Inv, Apart, Frames
  <2>6. QED
    BY <2>3, <2>4, <2>5 DEF Inv
<1>3. QED
  BY <1>1, <1>2 DEF ParseScalar

(* An array or object begins with the block of its node. *)
LEMMA OpenKeeps == ASSUME Inv, Open PROVE Inv'
<1>1. CASE pc' = "fail"
  <2>1. UNCHANGED <<stack, ret, heap, fresh>>
    BY <1>1 DEF Open, Starve
  <2>2. Control'
    BY <1>1, <2>1 DEF Inv, Control, Open
  <2>3. QED
    BY <2>1, <2>2, MovesOn
<1>2. CASE pc' = "first"
  <2> DEFINE m == Len(stack)
  <2>1. PICK frame : /\ frame.own = {fresh} /\ frame.key.own = {}
                     /\ stack' = Append(stack, frame) /\ Malloc(1)
    BY <1>2 DEF Open, NoKey
  <2>2. /\ stack' \in Seq(ItemsOf(stack')) /\ m \in Nat /\ DOMAIN stack = 1 .. m
        /\ Len(stack') = m + 1 /\ DOMAIN stack' = 1 .. m + 1
        /\ stack'[m + 1] = frame
        /\ \A k \in 1 .. m : stack'[k] = stack[k]
    BY <2>1, Pushed DEF Inv, Types
  <2>3. ret' = ret /\ ret.own = {} /\ heap' = heap \cup {fresh} /\ fresh' = fresh + 1
        /\ fresh \notin heap
    <3>1. fresh \in Nat /\ fresh .. fresh + 1 - 1 = {fresh} /\ fresh \notin 1 .. fresh - 1
      BY DEF Inv, Types
    <3>2. heap' = heap \cup {fresh} /\ fresh' = fresh + 1 /\ fresh \notin heap
      BY <2>1, <3>1 DEF Inv, Types, Malloc
    <3>3. ret' = ret /\ ret.own = {}
      BY DEF Open, Inv, Control
    <3>4. QED
      BY <3>2, <3>3
  <2>4. Blocks(frame) = {fresh}
    BY <2>1 DEF Blocks
  <2> HIDE DEF m
  <2>5. Types'
    BY <2>2, <2>3 DEF Inv, Types
  <2>6. Control'
    <3>1. stack' # << >>
      BY <2>2
    <3>2. QED
      BY <1>2, <2>1, <2>2, <2>3, <3>1 DEF Control, Top
  <2>7. Placed'
    BY <2>2, <2>3, <2>4 DEF Inv, Placed, Frames
  <2>8. Apart'
    <3>1. \A k \in 1 .. m : Blocks(stack[k]) \subseteq heap
      BY <2>2 DEF Inv, Placed, Frames
    <3>2. QED
      BY <2>1, <2>2, <2>3, <2>4, <3>1 DEF Inv, Apart, Frames
  <2>9. QED
    BY <2>5, <2>6, <2>7, <2>8 DEF Inv
<1>3. QED
  BY <1>1, <1>2 DEF Open

(* A complete array or object leaves the stack and is returned. *)
LEMMA CloseKeeps == ASSUME Inv, Close PROVE Inv'
<1> DEFINE m == Len(stack)
<1>1. stack # << >> /\ ret.own = {} /\ Top.key.own = {} /\ heap' = heap /\ fresh' = fresh
      /\ ret'.own = Top.own /\ pc' = "returned" /\ Pop
  BY DEF Close, Inv, Control
<1>2. /\ stack' \in Seq(ItemsOf(stack'))
      /\ m \in Nat \ {0} /\ DOMAIN stack = 1 .. m /\ DOMAIN stack' = 1 .. m - 1
      /\ \A k \in 1 .. m - 1 : stack'[k] = stack[k]
  BY <1>1, Popped DEF Pop, Inv, Types
<1>3. Top = stack[m] /\ Blocks(stack[m]) = Top.own
  BY <1>1 DEF Top, Blocks
<1> HIDE DEF m
<1>4. Types' /\ Control'
  BY <1>1, <1>2 DEF Inv, Types, Control
<1>5. Placed'
  <2>1. \A b \in heap : \E k \in 1 .. m : b \in Blocks(stack[k])
    BY <1>1, <1>2 DEF Inv, Placed, Frames
  <2>2. \A b \in heap : b \in Top.own \/ \E k \in 1 .. m - 1 : b \in Blocks(stack[k])
    <3>1. \A k \in 1 .. m : k = m \/ k \in 1 .. m - 1
      BY <1>2
    <3>2. QED
      BY <2>1, <3>1, <1>3
  <2>3. \A k \in 1 .. m : Blocks(stack[k]) \subseteq heap
    BY <1>2 DEF Inv, Placed, Frames
  <2>4. QED
    BY <1>1, <1>2, <1>3, <2>2, <2>3 DEF Placed, Frames
<1>6. Apart'
  BY <1>1, <1>2, <1>3 DEF Inv, Apart, Frames
<1>7. QED
  BY <1>4, <1>5, <1>6 DEF Inv

(* The frame on top is replaced by one that owns more: what the value just *)
(* returned owned, and blocks that are new.                                *)
LEMMA TakesOver ==
  ASSUME Inv, stack # << >>, NEW frame, Replace(frame), NEW j \in {0, 1, 2}, Malloc(j),
         frame.own \cap frame.key.own = {},
         Blocks(frame) = Blocks(Top) \cup ret.own \cup (fresh .. fresh + j - 1),
         ret'.own = {}, Control'
  PROVE  Inv'
<1> DEFINE m == Len(stack)
           new == fresh .. fresh + j - 1
<1>1. /\ stack' \in Seq(ItemsOf(stack'))
      /\ m \in Nat \ {0} /\ DOMAIN stack = 1 .. m /\ DOMAIN stack' = 1 .. m
      /\ stack'[m] = frame
      /\ \A k \in 1 .. m - 1 : stack'[k] = stack[k]
  BY Replaced DEF Inv, Types
<1>2. Top = stack[m] /\ \A k \in 1 .. m : k = m \/ k \in 1 .. m - 1
  <2>1. Top = stack[m]
    BY DEF Top
  <2> HIDE DEF m
  <2>2. QED
    BY <1>1, <2>1
<1>3. /\ heap' = heap \cup new /\ heap \cap new = {}
      /\ fresh' \in Nat \ {0} /\ heap' \subseteq 1 .. fresh' - 1
  BY DEF Malloc, Inv, Types
<1>4. \A k \in 1 .. m : Blocks(stack[k]) \subseteq heap
  BY <1>1 DEF Inv, Placed, Frames
<1>5. ret.own \subseteq heap /\ \A k \in 1 .. m : ret.own \cap Blocks(stack[k]) = {}
  BY <1>1 DEF Inv, Placed, Apart, Frames
<1> HIDE DEF m, new
<1>6. Types'
  BY <1>1, <1>3 DEF Types
<1>7. Placed'
  <2>1. \A b \in heap : b \in ret.own \/ b \in Blocks(Top) \/ \E k \in 1 .. m - 1 : b \in Blocks(stack[k])
    BY <1>1, <1>2 DEF Inv, Placed, Frames
  <2>2. Blocks(frame) = Blocks(Top) \cup ret.own \cup new
    BY DEF new
  <2>3. \A b \in heap' : b \in Blocks(frame) \/ \E k \in 1 .. m - 1 : b \in Blocks(stack[k])
    BY <1>3, <2>1, <2>2
  <2>4. \A b \in heap' : \E k \in 1 .. m : b \in Blocks(stack'[k])
    <3>1. m \in 1 .. m /\ \A k \in 1 .. m - 1 : k \in 1 .. m
      BY <1>1
    <3>2. QED
      BY <1>1, <2>3, <3>1
  <2>5. \A k \in 1 .. m : Blocks(stack'[k]) \subseteq heap'
    BY <1>1, <1>2, <1>3, <1>4, <1>5, <2>2
  <2>6. QED
    BY <1>1, <2>4, <2>5 DEF Placed, Frames
<1>8. Apart'
  <2>1. \A k \in 1 .. m - 1 : Blocks(frame) \cap Blocks(stack[k]) = {}
    <3>1. \A k \in 1 .. m - 1 : k \in 1 .. m /\ k # m /\ m \in 1 .. m
      BY <1>1
    <3>2. \A k \in 1 .. m - 1 : Blocks(Top) \cap Blocks(stack[k]) = {}
      BY <1>1, <1>2, <3>1 DEF Inv, Apart, Frames
    <3>3. QED
      BY <1>3, <1>4, <1>5, <3>1, <3>2 DEF new
  <2>2. \A k, l \in 1 .. m - 1 : k # l => Blocks(stack[k]) \cap Blocks(stack[l]) = {}
    BY <1>1 DEF Inv, Apart, Frames
  <2>3. \A k, l \in 1 .. m : k # l => Blocks(stack'[k]) \cap Blocks(stack'[l]) = {}
    <3>1. \A k \in 1 .. m - 1 : /\ Blocks(stack'[m]) \cap Blocks(stack'[k]) = {}
                                /\ Blocks(stack'[k]) \cap Blocks(stack'[m]) = {}
      BY <1>1, <2>1
    <3>2. \A k, l \in 1 .. m - 1 : k # l => Blocks(stack'[k]) \cap Blocks(stack'[l]) = {}
      BY <1>1, <2>2, Zenon
    <3>3. QED
      BY <1>2, <3>1, <3>2, Zenon
  <2>4. \A k \in 1 .. m : stack'[k].own \cap stack'[k].key.own = {}
    <3>1. \A k \in 1 .. m - 1 : stack[k].own \cap stack[k].key.own = {}
      BY <1>1 DEF Inv, Apart, Frames
    <3>2. QED
      BY <1>1, <1>2, <3>1
  <2>5. QED
    BY <1>1, <2>3, <2>4 DEF Apart, Frames
<1>9. QED
  BY <1>6, <1>7, <1>8 DEF Inv

(* A key is read: its copy belongs to the frame. *)
LEMMA KeyKeeps == ASSUME Inv, ParseKey PROVE Inv'
<1>1. stack # << >> /\ ret.own = {} /\ Top.key.own = {} /\ ret' = ret
  BY DEF ParseKey, Inv, Control
<1>2. CASE pc' = "fail"
  <2>1. Free(Held) /\ Pop /\ fresh' = fresh
    BY <1>2 DEF ParseKey, Starve
  <2>2. QED
    BY <1>1, <1>2, <2>1, GivesUp
<1>3. CASE pc' = "colon"
  <2>1. PICK frame : /\ frame.own = Top.own /\ frame.key.own = {fresh}
                     /\ Replace(frame) /\ Malloc(1)
    BY <1>3 DEF ParseKey
  <2>2. fresh \in Nat /\ fresh .. fresh + 1 - 1 = {fresh} /\ fresh \notin heap
    BY DEF Inv, Types
  <2>3. Top.own \subseteq heap
    <3>1. Len(stack) \in DOMAIN stack
      BY <1>1, LenProperties, EmptySeq DEF Inv, Types
    <3>2. QED
      BY <3>1 DEF Inv, Placed, Top, Blocks, Frames
  <2>4. frame.own \cap frame.key.own = {}
    BY <2>1, <2>2, <2>3
  <2>5. Blocks(frame) = Blocks(Top) \cup ret.own \cup (fresh .. fresh + 1 - 1)
    BY <1>1, <2>1, <2>2 DEF Blocks
  <2>6. stack' # << >>
    BY <1>1, <2>1, Replaced, EmptySeq DEF Inv, Types
  <2>7. Control'
    BY <1>1, <1>3, <2>6 DEF Control
  <2>8. QED
    BY <1>1, <2>1, <2>4, <2>5, <2>7, TakesOver
<1>4. QED
  BY <1>2, <1>3 DEF ParseKey

(* The child is the frame's from here on, with the key it was read under. *)
LEMMA PushKeeps == ASSUME Inv, PushChild PROVE Inv'
<1>1. stack # << >> /\ pc = "returned" /\ ret'.own = {}
  BY DEF PushChild, Nothing
<1>2. CASE pc' = "sep"
  <2>1. PICK j \in {0, 1, 2} :
          /\ Malloc(j)
          /\ \E frame : /\ frame.own = Top.own \cup Top.key.own \cup ret.own \cup (fresh .. fresh + j - 1)
                        /\ frame.key.own = {}
                        /\ Replace(frame)
    BY <1>2 DEF PushChild, NoKey
  <2>2. PICK frame :
          /\ frame.own = Top.own \cup Top.key.own \cup ret.own \cup (fresh .. fresh + j - 1)
          /\ frame.key.own = {}
          /\ Replace(frame)
    BY <2>1
  <2>3. Blocks(frame) = Blocks(Top) \cup ret.own \cup (fresh .. fresh + j - 1)
    BY <2>2 DEF Blocks
  <2>4. stack' # << >> /\ Top' = frame
    <3>1. Len(stack) # 0 /\ Len(stack') = Len(stack) /\ stack'[Len(stack)] = frame
      BY <1>1, <2>2, Replaced DEF Inv, Types
    <3>2. QED
      BY <3>1 DEF Top
  <2>5. Control'
    BY <1>1, <1>2, <2>2, <2>4 DEF Control
  <2>6. QED
    BY <1>1, <2>1, <2>2, <2>3, <2>5, TakesOver
<1>3. CASE pc' = "fail"
  <2> DEFINE m == Len(stack)
  <2>1. Free(HeldWithChild) /\ Pop /\ fresh' = fresh
    BY <1>3 DEF PushChild, Starve
  <2>2. /\ stack' \in Seq(ItemsOf(stack'))
        /\ m \in Nat \ {0} /\ DOMAIN stack = 1 .. m /\ DOMAIN stack' = 1 .. m - 1
        /\ \A k \in 1 .. m - 1 : stack'[k] = stack[k]
    BY <1>1, <2>1, Popped DEF Pop, Inv, Types
  <2>3. Top = stack[m] /\ m \in Frames
    BY <2>2 DEF Top, Frames
  <2> HIDE DEF m
  <2>4. heap' = heap \ (Blocks(Top) \cup ret.own)
    <3>1. /\ Top.key.own \cup ret.own \cup Top.own \subseteq heap
          /\ Top.key.own \cap ret.own = {} /\ Top.key.own \cap Top.own = {}
          /\ ret.own \cap Top.own = {}
      BY <2>3 DEF Inv, Placed, Apart, Blocks
    <3>2. heap' = heap \ (Top.key.own \cup ret.own \cup Top.own)
      BY <2>1, <3>1, FreesThree DEF HeldWithChild
    <3>3. QED
      BY <3>2 DEF Blocks
  <2>5. Types' /\ Control'
    BY <1>1, <1>3, <2>1, <2>2, <2>4 DEF Inv, Types, Control
  <2>6. Placed'
    BY <1>1, <2>2, <2>3, <2>4 DEF Inv, Placed, Apart, Frames
  <2>7. Apart'
    BY <1>1, <2>2 DEF Inv, Apart, Frames
  <2>8. QED
    BY <2>5, <2>6, <2>7 DEF Inv
<1>4. QED
  BY <1>2, <1>3 DEF PushChild

(* What is released at the end is all there is. *)
LEMMA ReleaseKeeps ==
  ASSUME Inv, stack = << >>, Free(<<ret.own>>), ret'.own = {}, UNCHANGED <<stack, fresh>>,
         pc' \in {"null", "freed"}
  PROVE  Inv'
<1>1. DOMAIN stack = {}
  BY EmptySeq
<1>2. heap' = {}
  BY <1>1, FreesOne DEF Inv, Placed, Frames
<1>3. QED
  BY <1>1, <1>2 DEF Inv, Types, Control, Placed, Apart, Frames

(* The whole text is a value, or what is left of it makes it none. *)
LEMMA RootKeeps == ASSUME Inv, ReturnRoot PROVE Inv'
<1>1. CASE pc' = "null"
  BY <1>1, ReleaseKeeps DEF ReturnRoot, Nothing, Stay
<1>2. CASE pc' = "done"
  <2>1. UNCHANGED <<stack, ret, heap, fresh>> /\ stack = << >>
    BY <1>2 DEF ReturnRoot
  <2>2. Control'
    BY <1>2, <2>1 DEF Control
  <2>3. QED
    BY <2>1, <2>2, MovesOn
<1>3. QED
  BY <1>1, <1>2 DEF ReturnRoot

-----------------------------------------------------------------------------
(* Every step keeps who owns what. *)
LEMMA NextInv == Inv /\ [Next]_vars => Inv'
<1> SUFFICES ASSUME Inv, [Next]_vars PROVE Inv'
  OBVIOUS
<1>1. CASE NoValue
  <2>1. Control'
    BY <1>1 DEF NoValue, Inv, Control
  <2>2. QED
    BY <1>1, <2>1, MovesOn DEF NoValue
<1>2. CASE Element \/ Comma
  <2>1. UNCHANGED <<stack, ret, heap, fresh>> /\ pc \in {"first", "sep"} /\ pc' \in {"value", "key"}
    BY <1>2 DEF Element, Comma
  <2>2. Control'
    BY <2>1 DEF Inv, Control, Top
  <2>3. QED
    BY <2>1, <2>2, MovesOn
<1>3. CASE NoSeparator
  BY <1>3, GivesUp DEF NoSeparator, Inv, Control
<1>4. CASE Colon
  <2>1. pc = "colon" /\ stack # << >> /\ ret.own = {} /\ UNCHANGED <<ret, fresh>>
    BY <1>4 DEF Colon, Inv, Control
  <2>2. CASE ahead = ":"
    <3>1. UNCHANGED <<stack, ret, heap, fresh>> /\ pc' = "value"
      BY <1>4, <2>2 DEF Colon
    <3>2. Control'
      BY <2>1, <3>1 DEF Inv, Control
    <3>3. QED
      BY <3>1, <3>2, MovesOn
  <2>3. CASE ahead # ":"
    BY <1>4, <2>1, <2>3, GivesUp DEF Colon
  <2>4. QED
    BY <2>2, <2>3
<1>5. CASE Unwind
  BY <1>5, GivesUp DEF Unwind, Inv, Control
<1>6. CASE ReturnNull
  <2>1. Control'
    BY <1>6 DEF ReturnNull, Inv, Control
  <2>2. QED
    BY <1>6, <2>1, MovesOn DEF ReturnNull
<1>7. CASE FreeTree
  <2>1. stack = << >>
    BY <1>7 DEF FreeTree, Inv, Control
  <2>2. QED
    BY <1>7, <2>1, ReleaseKeeps DEF FreeTree, Nothing, Stay
<1>8. CASE UNCHANGED vars
  <2>1. Control'
    BY <1>8 DEF vars, Inv, Control, Top
  <2>2. QED
    BY <1>8, <2>1, MovesOn DEF vars
<1>9. QED
  BY <1>1, <1>2, <1>3, <1>4, <1>5, <1>6, <1>7, <1>8, ScalarKeeps, OpenKeeps, CloseKeeps, KeyKeeps,
     PushKeeps, RootKeeps DEF Next, Parse, Terminated

(* Every block in use has one owner, whichever allocation fails and        *)
(* wherever the text goes wrong, for texts of every length and depth:      *)
(* nothing leaks and nothing is freed twice.                               *)
THEOREM ParserOwnsOnce == Spec => []OwnedOnce
<1>1. ASSUME Inv PROVE OwnedOnce
  <2>1. heap = ret.own \cup UNION {stack[k].own \cup stack[k].key.own : k \in Frames}
    BY <1>1 DEF Inv, Placed, Blocks
  <2>2. pc \in {"null", "freed"} => heap = {}
    BY <1>1, <2>1, EmptySeq DEF Inv, Control, Placed, Frames
  <2>3. QED
    BY <1>1, <2>1, <2>2 DEF Inv, Apart, Blocks, OwnedOnce
<1>2. QED
  BY InitInv, NextInv, <1>1, PTL DEF Spec

(* Where no frame comes or goes, nothing changes for the nesting. *)
LEMMA NestingStays ==
  ASSUME NestingBounded, Len(stack') = Len(stack), pc' \in {"fail", "null"} \/ depth' = depth,
         pc' \in {"fail", "null"} \/ pc \notin {"fail", "null"}
  PROVE  NestingBounded'
BY DEF NestingBounded

(* A frame that gives up is one less. *)
LEMMA NestingFalls ==
  ASSUME Inv, NestingBounded, stack # << >>, Pop, pc' = "fail"
  PROVE  NestingBounded'
<1>1. Len(stack) \in Nat \ {0} /\ Len(stack') = Len(stack) - 1
  BY Popped DEF Pop, Inv, Types
<1>2. Len(stack') <= MaxDepth
  BY <1>1, JsonAssumption DEF NestingBounded
<1>3. QED
  BY <1>2 DEF NestingBounded

(* Every step keeps the count of what has not returned. *)
LEMMA NestingNext == ASSUME Inv, NestingBounded, [Next]_vars PROVE NestingBounded'
<1>1. CASE NoValue \/ ParseScalar \/ Element \/ Comma \/ ReturnNull \/ ReturnRoot \/ FreeTree
  BY <1>1, NestingStays
     DEF NoValue, ParseScalar, Element, Comma, ReturnNull, ReturnRoot, FreeTree
<1>2. CASE Open
  <2>1. CASE pc' = "fail"
    BY <1>2, <2>1, NestingStays DEF Open
  <2>2. CASE pc' = "first"
    <3>1. PICK frame : stack' = Append(stack, frame)
      BY <1>2, <2>2 DEF Open
    <3>2. Len(stack) \in Nat /\ Len(stack') = Len(stack) + 1
      BY <3>1, Pushed DEF Inv, Types
    <3>3. depth = Len(stack) /\ depth' = depth + 1 /\ ~(depth + 1 > MaxDepth)
      BY <1>2, <2>2 DEF Open, TooDeep, NestingBounded
    <3>4. QED
      BY <3>2, <3>3, JsonAssumption DEF NestingBounded
  <2>3. QED
    BY <1>2, <2>1, <2>2 DEF Open
<1>3. CASE Close
  <2>1. stack # << >> /\ Pop /\ depth' = depth - 1 /\ depth = Len(stack)
    BY <1>3 DEF Close, DepthAround, NestingBounded, Inv, Control
  <2>2. Len(stack) \in Nat \ {0} /\ Len(stack') = Len(stack) - 1
    BY <2>1, Popped DEF Pop, Inv, Types
  <2>3. QED
    BY <2>1, <2>2, JsonAssumption DEF NestingBounded
<1>4. CASE NoSeparator \/ Unwind
  BY <1>4, NestingFalls DEF NoSeparator, Unwind, Inv, Control
<1>5. CASE ParseKey
  <2>1. CASE pc' = "fail"
    BY <1>5, <2>1, NestingFalls DEF ParseKey, Inv, Control
  <2>2. CASE pc' = "colon"
    <3>1. PICK frame : Replace(frame)
      BY <1>5, <2>2 DEF ParseKey
    <3>2. Len(stack') = Len(stack)
      BY <1>5, <3>1, Replaced DEF ParseKey, Inv, Types, Control
    <3>3. QED
      BY <1>5, <3>2, NestingStays DEF ParseKey
  <2>3. QED
    BY <1>5, <2>1, <2>2 DEF ParseKey
<1>6. CASE Colon
  <2>1. CASE ahead = ":"
    BY <1>6, <2>1, NestingStays DEF Colon
  <2>2. CASE ahead # ":"
    BY <1>6, <2>2, NestingFalls DEF Colon, Inv, Control
  <2>3. QED
    BY <2>1, <2>2
<1>7. CASE PushChild
  <2>1. CASE pc' = "fail"
    BY <1>7, <2>1, NestingFalls DEF PushChild
  <2>2. CASE pc' = "sep"
    <3>1. PICK frame : Replace(frame)
      BY <1>7, <2>2 DEF PushChild
    <3>2. Len(stack') = Len(stack)
      BY <1>7, <3>1, Replaced DEF PushChild, Inv, Types
    <3>3. QED
      BY <1>7, <3>2, NestingStays DEF PushChild
  <2>3. QED
    BY <1>7, <2>1, <2>2 DEF PushChild
<1>8. CASE UNCHANGED vars
  BY <1>8, NestingStays DEF vars
<1>9. QED
  BY <1>1, <1>2, <1>3, <1>4, <1>5, <1>6, <1>7, <1>8 DEF Next, Parse, Terminated

(* The parser never nests deeper than JSON_MAX_DEPTH, and its counter is   *)
(* right until the text is given up, whatever the text.                    *)
THEOREM NestingIsBounded == Spec => []NestingBounded
<1>1. Init => NestingBounded
  BY JsonAssumption, EmptySeq DEF Init, NestingBounded
<1>2. Inv /\ NestingBounded /\ [Next]_vars => NestingBounded'
  BY NestingNext
<1>3. QED
  BY InitInv, NextInv, <1>1, <1>2, PTL DEF Spec
-----------------------------------------------------------------------------
(* The tree is the text                                                    *)

(* No number has infinitely many below it. *)
Below == {ss \in Nat \X Nat : ss[1] < ss[2]}
LEMMA BelowIsWellFounded == IsWellFoundedOn(Below, Nat)
BY NatLessThanWellFounded DEF OpToRel, Below

(* A set that holds 0, and each number up to n after the one before it,    *)
(* holds all of them.                                                      *)
LEMMA AllUpTo ==
  ASSUME NEW n \in Nat, NEW T, 0 \in T, \A i \in 1 .. n : i - 1 \in T => i \in T
  PROVE  0 .. n \subseteq T
<1>1. SUFFICES ASSUME NEW S, S = (0 .. n) \ T, S # {} PROVE FALSE
  OBVIOUS
<1>2. PICK m \in S : \A k \in S : <<k, m>> \notin Below
  <2>1. S \subseteq Nat
    BY <1>1
  <2>2. QED
    BY <1>1, <2>1, BelowIsWellFounded, WFMin
<1>3. m \in 1 .. n /\ m - 1 \in 0 .. n /\ m \in Nat
  BY <1>1, <1>2
<1>4. m - 1 \notin S
  <2>1. <<m - 1, m>> \in Below
    BY <1>3 DEF Below
  <2>2. QED
    BY <1>2, <2>1
<1>5. QED
  BY <1>1, <1>2, <1>3, <1>4

(* Sequences put together one after another exist. *)
LEMMA ChainExists ==
  ASSUME NEW p, NEW n \in Nat
  PROVE  \E f : f = [i \in 0 .. n |-> IF i = 0 THEN << >> ELSE f[i - 1] \o p[i]]
<1> DEFINE Is(f, m) == /\ f = [i \in 0 .. m |-> f[i]]
                       /\ f[0] = << >>
                       /\ \A i \in 1 .. m : f[i] = f[i - 1] \o p[i]
           T == {m \in 0 .. n : \E f : Is(f, m)}
<1>1. 0 \in T
  <2>1. PICK f : f = [i \in 0 .. 0 |-> << >>]
    OBVIOUS
  <2>2. Is(f, 0)
    BY <2>1
  <2>3. QED
    BY <2>2
<1>2. ASSUME NEW m \in 1 .. n, m - 1 \in T PROVE m \in T
  <2>1. PICK f : Is(f, m - 1)
    BY <1>2
  <2>2. PICK g : g = [i \in 0 .. m |-> IF i = m THEN f[m - 1] \o p[m] ELSE f[i]]
    OBVIOUS
  <2>3. \A i \in 0 .. m - 1 : i \in 0 .. m /\ i # m
    BY <1>2
  <2>4. g[m] = f[m - 1] \o p[m] /\ \A i \in 0 .. m - 1 : g[i] = f[i]
    BY <2>2, <2>3
  <2>5. /\ 0 \in 0 .. m - 1 /\ m - 1 \in 0 .. m - 1
        /\ \A i \in 1 .. m : i - 1 \in 0 .. m - 1 /\ (i = m \/ (i \in 1 .. m - 1 /\ i \in 0 .. m - 1))
    BY <1>2
  <2>6. g[0] = << >> /\ \A i \in 1 .. m : g[i] = g[i - 1] \o p[i]
    <3>1. g[0] = << >>
      BY <2>1, <2>4, <2>5
    <3>2. ASSUME NEW i \in 1 .. m PROVE g[i] = g[i - 1] \o p[i]
      BY <2>1, <2>4, <2>5
    <3>3. QED
      BY <3>1, <3>2
  <2>7. g = [i \in 0 .. m |-> g[i]]
    BY <2>2
  <2>8. QED
    BY <2>6, <2>7
<1>3. n \in T
  <2> HIDE DEF T
  <2>1. 0 .. n \subseteq T
    BY <1>1, <1>2, AllUpTo
  <2>2. QED
    BY <2>1
<1>4. PICK f : Is(f, n)
  BY <1>3
<1>5. f = [i \in 0 .. n |-> IF i = 0 THEN << >> ELSE f[i - 1] \o p[i]]
  BY <1>4
<1>6. QED
  BY <1>5

(* What each tree stands for is defined. *)
LEMMA SpellingExists ==
  ASSUME NEW n \in Nat
  PROVE  \E f : f = [k \in 0 .. n |-> IF k = 0 THEN LeafSpelling ELSE NodeSpelling(f[k - 1])]
<1> DEFINE Is(f, m) == /\ f = [k \in 0 .. m |-> f[k]]
                       /\ f[0] = LeafSpelling
                       /\ \A k \in 1 .. m : f[k] = NodeSpelling(f[k - 1])
           T == {m \in 0 .. n : \E f : Is(f, m)}
<1>1. 0 \in T
  <2>1. PICK f : f = [k \in 0 .. 0 |-> LeafSpelling]
    OBVIOUS
  <2>2. Is(f, 0)
    BY <2>1
  <2>3. QED
    BY <2>2
<1>2. ASSUME NEW m \in 1 .. n, m - 1 \in T PROVE m \in T
  <2>1. PICK f : Is(f, m - 1)
    BY <1>2
  <2>2. PICK g : g = [k \in 0 .. m |-> IF k = m THEN NodeSpelling(f[m - 1]) ELSE f[k]]
    OBVIOUS
  <2>3. \A k \in 0 .. m - 1 : k \in 0 .. m /\ k # m
    BY <1>2
  <2>4. g[m] = NodeSpelling(f[m - 1]) /\ \A k \in 0 .. m - 1 : g[k] = f[k]
    BY <2>2, <2>3
  <2>5. /\ 0 \in 0 .. m - 1 /\ m - 1 \in 0 .. m - 1
        /\ \A k \in 1 .. m : k - 1 \in 0 .. m - 1 /\ (k = m \/ (k \in 1 .. m - 1 /\ k \in 0 .. m - 1))
    BY <1>2
  <2>6. g[0] = LeafSpelling /\ \A k \in 1 .. m : g[k] = NodeSpelling(g[k - 1])
    <3>1. g[0] = LeafSpelling
      BY <2>1, <2>4, <2>5
    <3>2. ASSUME NEW k \in 1 .. m PROVE g[k] = NodeSpelling(g[k - 1])
      BY <2>1, <2>4, <2>5
    <3>3. QED
      BY <3>1, <3>2
  <2>7. g = [k \in 0 .. m |-> g[k]]
    BY <2>2
  <2>8. Is(g, m) /\ m \in 0 .. n
    BY <1>2, <2>6, <2>7
  <2>9. QED
    BY <2>8
<1>3. n \in T
  <2> HIDE DEF T
  <2>1. 0 .. n \subseteq T
    BY <1>1, <1>2, AllUpTo
  <2>2. QED
    BY <2>1
<1>4. PICK f : Is(f, n)
  BY <1>3
<1>5. f = [k \in 0 .. n |-> IF k = 0 THEN LeafSpelling ELSE NodeSpelling(f[k - 1])]
  <2>1. \A k \in 0 .. n : f[k] = IF k = 0 THEN LeafSpelling ELSE NodeSpelling(f[k - 1])
    <3>1. \A k \in 0 .. n : k = 0 \/ (k # 0 /\ k \in 1 .. n)
      OBVIOUS
    <3>2. QED
      BY <1>4, <3>1, Zenon
  <2>2. f = [k \in 0 .. n |-> f[k]]
    BY <1>4
  <2>3. QED
    BY <2>1, <2>2, Zenon
<1>6. QED
  BY <1>5

(* ... a scalar for its token, an array or object for what its children    *)
(* stand for.                                                              *)
LEMMA SpellingIs ==
  ASSUME NEW k \in 0 .. MaxDepth
  PROVE  Spelling[k] = IF k = 0 THEN LeafSpelling ELSE NodeSpelling(Spelling[k - 1])
<1> DEFINE Is(f) == f = [j \in 0 .. MaxDepth |-> IF j = 0 THEN LeafSpelling ELSE NodeSpelling(f[j - 1])]
<1>1. \E f : Is(f)
  BY SpellingExists, JsonAssumption
<1>2. Is(CHOOSE f : Is(f))
  BY <1>1
<1>3. Spelling = CHOOSE f : Is(f)
  BY DEF Spelling
<1>4. Is(Spelling)
  BY <1>2, <1>3, Zenon
<1> HIDE DEF Is
<1>5. Spelling = [j \in 0 .. MaxDepth |-> IF j = 0 THEN LeafSpelling ELSE NodeSpelling(Spelling[j - 1])]
  BY <1>4 DEF Is
<1>6. QED
  BY <1>5

(* Texts, with a name for the key an element has none of. *)
Letters == Tokens \cup {Unnamed}
Spells(sp) == \A v \in DOMAIN sp : sp[v] \in Seq(Letters)

(* No letter, one and two. *)
LEMMA Short ==
  ASSUME NEW S
  PROVE  << >> \in Seq(S) /\ \A a \in S : <<a>> \in Seq(S) /\ \A b \in S : <<a, b>> \in Seq(S)
OBVIOUS

(* The items of an array or object, up to each. *)
AreItems(f, s, sp, n) ==
  f[0] = << >> /\ \A i \in 1 .. n : f[i] = f[i - 1] \o (Introduced(s, i) \o sp[s.vals[i]])

AddUp(s, sp, n) == \E f : AreItems(f, s, sp, n) /\ Items(s, sp) = f[n]

(* They add up to all of them. *)
LEMMA ItemsAre == ASSUME NEW s, NEW sp, NEW n \in Nat, Len(s.vals) = n PROVE AddUp(s, sp, n)
<1> DEFINE Is(f) == f = [i \in 0 .. n |-> IF i = 0 THEN << >>
                                          ELSE f[i - 1] \o (Introduced(s, i) \o sp[s.vals[i]])]
           p == [i \in 1 .. n |-> Introduced(s, i) \o sp[s.vals[i]]]
           upTo == CHOOSE f : Is(f)
<1>1. \E f : Is(f)
  <2>1. PICK f : f = [i \in 0 .. n |-> IF i = 0 THEN << >> ELSE f[i - 1] \o p[i]]
    BY ChainExists
  <2>2. \A i \in 0 .. n : i = 0 \/ (i # 0 /\ i \in 1 .. n)
    OBVIOUS
  <2>3. \A i \in 1 .. n : p[i] = Introduced(s, i) \o sp[s.vals[i]]
    OBVIOUS
  <2> HIDE DEF p
  <2>4. f = [i \in 0 .. n |-> IF i = 0 THEN << >>
                              ELSE f[i - 1] \o (Introduced(s, i) \o sp[s.vals[i]])]
    BY <2>1, <2>2, <2>3, Zenon
  <2>5. QED
    BY <2>4
<1>2. Is(upTo)
  BY <1>1
<1>3. Items(s, sp) = upTo[n]
  BY DEF Items
<1> HIDE DEF upTo, p
<1>4. AreItems(upTo, s, sp, n)
  <2>1. \A i \in 1 .. n : i \in 0 .. n /\ i # 0
    OBVIOUS
  <2>2. 0 \in 0 .. n
    OBVIOUS
  <2>3. QED
    BY <1>2, <2>1, <2>2 DEF AreItems
<1>5. QED
  BY <1>3, <1>4 DEF AddUp

(* An array or object is one of its type, and has as many keys as values. *)
LEMMA NodeIs ==
  ASSUME NEW D, NEW s \in Nodes(D)
  PROVE  /\ s \in Branches(D)
         /\ Len(s.vals) \in Nat /\ Len(s.keys) = Len(s.vals)
         /\ \A i \in 1 .. Len(s.vals) : s.vals[i] \in D /\ s.keys[i] \in Letters
<1>1. /\ s \in Branches(D)
      /\ Len(s.keys) = Len(s.vals)
  BY DEF Nodes
<1>2. s.keys \in Seq(Strings \cup {Unnamed}) /\ s.vals \in Seq(D)
  BY <1>1 DEF Branches
<1>3. /\ Len(s.vals) \in Nat
      /\ \A i \in 1 .. Len(s.vals) : s.vals[i] \in D
      /\ \A i \in 1 .. Len(s.keys) : s.keys[i] \in Strings \cup {Unnamed}
  BY <1>2, ElementOfSeq, LenProperties
<1>4. Strings \cup {Unnamed} \subseteq Letters
  BY Zenon DEF Letters, Tokens, Scalars
<1>5. QED
  BY <1>1, <1>3, <1>4

(* What stands before an item is a text. *)
LEMMA IntroducedIs ==
  ASSUME NEW D, NEW s \in Nodes(D), NEW i \in 1 .. Len(s.vals)
  PROVE  Introduced(s, i) \in Seq(Letters)
<1> DEFINE sep == IF i > 1 THEN <<",">> ELSE << >>
           name == IF s.type = "obj" THEN <<s.keys[i], ":">> ELSE << >>
<1>1. "," \in Letters /\ ":" \in Letters
  BY Zenon DEF Letters, Tokens
<1>2. sep \in Seq(Letters)
  BY <1>1, Short, Zenon
<1>3. name \in Seq(Letters)
  BY <1>1, NodeIs, Short, Zenon
<1>4. Introduced(s, i) = sep \o name
  BY DEF Introduced
<1> HIDE DEF sep, name
<1>5. QED
  BY <1>2, <1>3, <1>4, ConcatProperties

(* Up to each item stands a text ... *)
LEMMA ItemsSpell ==
  ASSUME NEW sp, Spells(sp), NEW s \in Nodes(DOMAIN sp), NEW f, AreItems(f, s, sp, Len(s.vals))
  PROVE  \A i \in 0 .. Len(s.vals) : f[i] \in Seq(Letters)
<1> DEFINE n == Len(s.vals)
           T == {i \in 0 .. n : f[i] \in Seq(Letters)}
<1>1. n \in Nat
  BY NodeIs
<1>2. 0 \in T
  <2>1. f[0] = << >> /\ 0 \in 0 .. n
    BY <1>1 DEF AreItems
  <2>2. QED
    BY <2>1, Short
<1>3. ASSUME NEW i \in 1 .. n, i - 1 \in T PROVE i \in T
  <2>1. f[i] = f[i - 1] \o (Introduced(s, i) \o sp[s.vals[i]])
    BY DEF AreItems
  <2>2. f[i - 1] \in Seq(Letters) /\ Introduced(s, i) \in Seq(Letters)
    BY <1>3, IntroducedIs
  <2>3. sp[s.vals[i]] \in Seq(Letters)
    BY NodeIs DEF Spells
  <2>4. f[i] \in Seq(Letters)
    BY <2>1, <2>2, <2>3, ConcatProperties
  <2>5. QED
    BY <1>1, <2>4
<1>4. QED
  <2> HIDE DEF T
  <2>1. 0 .. n \subseteq T
    BY <1>1, <1>2, <1>3, AllUpTo
  <2>2. QED
    BY <2>1 DEF T

(* ... and all of them are one.                                            *)
LEMMA ItemsAreText ==
  ASSUME NEW sp, Spells(sp), NEW s \in Nodes(DOMAIN sp)
  PROVE  Items(s, sp) \in Seq(Letters)
<1>1. Len(s.vals) \in Nat
  BY NodeIs
<1>2. PICK f : AreItems(f, s, sp, Len(s.vals)) /\ Items(s, sp) = f[Len(s.vals)]
  <2>1. AddUp(s, sp, Len(s.vals))
    BY <1>1, ItemsAre
  <2>2. QED
    BY <2>1 DEF AddUp
<1>3. \A i \in 0 .. Len(s.vals) : f[i] \in Seq(Letters)
  BY <1>2, ItemsSpell
<1>4. QED
  BY <1>1, <1>2, <1>3

(* One item more stands behind the others. *)
IsLonger(t, s, sp, v, name) ==
  /\ t \in Branches(DOMAIN sp)
  /\ t.type = s.type /\ t.keys = Append(s.keys, name) /\ t.vals = Append(s.vals, v)
Follows(t, s, sp, v, name) ==
  /\ t \in Nodes(DOMAIN sp)
  /\ Len(t.vals) = Len(s.vals) + 1 /\ t.keys[Len(s.vals) + 1] = name
  /\ Items(t, sp) = Items(s, sp) \o (Introduced(t, Len(s.vals) + 1) \o sp[v])

(* The items before it are what they were. *)
LEMMA ItemsGrow ==
  ASSUME NEW sp, Spells(sp), NEW s \in Nodes(DOMAIN sp), NEW v \in DOMAIN sp,
         NEW name \in Strings \cup {Unnamed}, NEW t, IsLonger(t, s, sp, v, name)
  PROVE  Follows(t, s, sp, v, name)
<1>1. PICK n \in Nat : n = Len(s.vals) /\ n = Len(s.keys)
  BY NodeIs
<1>2. /\ s \in Branches(DOMAIN sp)
      /\ s.vals \in Seq(DOMAIN sp) /\ s.keys \in Seq(Strings \cup {Unnamed})
  BY NodeIs DEF Branches
<1>3. /\ t.type = s.type /\ t.keys = Append(s.keys, name) /\ t.vals = Append(s.vals, v)
      /\ t \in Branches(DOMAIN sp)
  BY DEF IsLonger
<1>4. /\ Len(t.vals) = n + 1 /\ t.vals[n + 1] = v /\ \A i \in 1 .. n : t.vals[i] = s.vals[i]
  <2>1. s.vals \in Seq(DOMAIN sp) /\ Len(s.vals) = n
    BY <1>1, <1>2
  <2>2. /\ Len(Append(s.vals, v)) = Len(s.vals) + 1 /\ Append(s.vals, v)[Len(s.vals) + 1] = v
        /\ \A i \in 1 .. Len(s.vals) : Append(s.vals, v)[i] = s.vals[i]
    BY <2>1, AppendProperties
  <2>3. QED
    BY <1>3, <2>1, <2>2, Zenon
<1>5. /\ Len(t.keys) = n + 1 /\ t.keys[n + 1] = name /\ \A i \in 1 .. n : t.keys[i] = s.keys[i]
  <2>1. s.keys \in Seq(Strings \cup {Unnamed}) /\ Len(s.keys) = n
    BY <1>1, <1>2
  <2>2. /\ Len(Append(s.keys, name)) = Len(s.keys) + 1 /\ Append(s.keys, name)[Len(s.keys) + 1] = name
        /\ \A i \in 1 .. Len(s.keys) : Append(s.keys, name)[i] = s.keys[i]
    BY <2>1, AppendProperties
  <2>3. QED
    BY <1>3, <2>1, <2>2, Zenon
<1>6. t \in Nodes(DOMAIN sp)
  BY <1>3, <1>4, <1>5, Zenon DEF Nodes
<1>7. \A i \in 1 .. n : Introduced(t, i) = Introduced(s, i)
  BY <1>3, <1>5, Zenon DEF Introduced
<1>8. PICK f : AreItems(f, s, sp, n) /\ Items(s, sp) = f[n]
  <2>1. AddUp(s, sp, n)
    BY <1>1, ItemsAre
  <2>2. QED
    BY <2>1 DEF AddUp
<1>9. PICK g : AreItems(g, t, sp, n + 1) /\ Items(t, sp) = g[n + 1]
  <2>1. PICK m \in Nat : m = n + 1
    OBVIOUS
  <2>2. Len(t.vals) = m
    BY <1>4, <2>1
  <2>3. AddUp(t, sp, m)
    BY <2>2, ItemsAre
  <2>4. QED
    BY <2>1, <2>3 DEF AddUp
<1> DEFINE T == {i \in 0 .. n : g[i] = f[i]}
<1>10. n \in T
  <2>1. 0 \in T
    BY <1>8, <1>9 DEF AreItems
  <2>2. ASSUME NEW i \in 1 .. n, i - 1 \in T PROVE i \in T
    <3>1. i \in 1 .. n + 1 /\ i \in 0 .. n
      OBVIOUS
    <3>2. g[i] = g[i - 1] \o (Introduced(t, i) \o sp[t.vals[i]])
      BY <1>9, <3>1 DEF AreItems
    <3>3. f[i] = f[i - 1] \o (Introduced(s, i) \o sp[s.vals[i]])
      BY <1>8 DEF AreItems
    <3>4. g[i - 1] = f[i - 1] /\ Introduced(t, i) = Introduced(s, i) /\ t.vals[i] = s.vals[i]
      BY <1>4, <1>7, <2>2
    <3>5. QED
      BY <3>1, <3>2, <3>3, <3>4
  <2> HIDE DEF T
  <2>3. 0 .. n \subseteq T
    BY <2>1, <2>2, AllUpTo
  <2>4. QED
    BY <2>3
<1>11. g[n + 1] = g[n] \o (Introduced(t, n + 1) \o sp[t.vals[n + 1]])
  <2>1. n + 1 \in 1 .. n + 1 /\ n + 1 - 1 = n
    OBVIOUS
  <2>2. \A i \in 1 .. n + 1 : g[i] = g[i - 1] \o (Introduced(t, i) \o sp[t.vals[i]])
    BY <1>9 DEF AreItems
  <2>3. PICK m : m = n + 1
    OBVIOUS
  <2>4. m \in 1 .. n + 1 /\ m - 1 = n
    BY <2>3
  <2>5. g[m] = g[m - 1] \o (Introduced(t, m) \o sp[t.vals[m]])
    BY <2>2, <2>4, Zenon
  <2>6. QED
    BY <2>3, <2>4, <2>5, Zenon
<1>12. g[n] = f[n]
  BY <1>10
<1>13. Items(t, sp) = Items(s, sp) \o (Introduced(t, n + 1) \o sp[v])
  BY <1>4, <1>8, <1>9, <1>11, <1>12
<1>14. QED
  BY <1>1, <1>3, <1>4, <1>5, <1>6, <1>13 DEF Follows

(* The node of a scalar holds its token. *)
LEMMA ValueIs == \A type, data : Value(type, data).type = type /\ Value(type, data).data = data
BY DEF Value

(* That of a token is of a scalar's type. *)
LEMMA ScalarIs ==
  ASSUME NEW t \in Scalars
  PROVE  Scalar(t).data = t /\ Scalar(t).type \in {"str", "num", "null", "bool"}
<1> DEFINE kind == CASE t \in Strings -> "str" [] t \in Numbers -> "num"
                     [] t \in Literals -> IF t = "null" THEN "null" ELSE "bool"
<1>1. Scalar(t) = Value(kind, t)
  BY Zenon DEF Scalar
<1>2. kind \in {"str", "num", "null", "bool"}
  BY DEF Scalars
<1> HIDE DEF kind
<1>3. QED
  BY <1>1, <1>2, ValueIs, Zenon

(* Brackets are letters. *)
LEMMA Brackets == \A type : <<Opener(type)>> \in Seq(Letters) /\ <<Shutter(type)>> \in Seq(Letters)
<1>1. \A type : Opener(type) \in Letters /\ Shutter(type) \in Letters
  BY Zenon DEF Letters, Tokens, Opener, Shutter
<1>2. QED
  BY <1>1, Short, Zenon

(* What every tree stands for is a text, that of a node of its opening      *)
(* bracket, its items and its closing bracket.                             *)
LEMMA SpelledNode ==
  ASSUME NEW k \in 1 .. MaxDepth, NEW s \in Nodes(DOMAIN Spelling[k - 1])
  PROVE  /\ s \in DOMAIN Spelling[k]
         /\ Spelling[k][s] = (<<Opener(s.type)>> \o Items(s, Spelling[k - 1])) \o <<Shutter(s.type)>>
<1>1. Spelling[k] = NodeSpelling(Spelling[k - 1])
  BY SpellingIs
<1>2. s \notin Leaves
  <2>1. s.type \in {"arr", "obj"}
    BY NodeIs DEF Branches
  <2>2. \A t \in Scalars : Scalar(t).type \notin {"arr", "obj"}
    BY ScalarIs
  <2>3. QED
    BY <2>1, <2>2, Zenon DEF Leaves
<1>3. QED
  BY <1>1, <1>2, Zenon DEF NodeSpelling

(* ... that of a scalar its token.                                         *)
LEMMA SpelledLeaf ==
  ASSUME NEW k \in 0 .. MaxDepth, NEW t \in Scalars
  PROVE  Scalar(t) \in DOMAIN Spelling[k] /\ Spelling[k][Scalar(t)] = <<t>>
<1>1. Scalar(t) \in Leaves /\ Scalar(t).data = t
  BY ScalarIs, Zenon DEF Leaves
<1>2. Spelling[k] = LeafSpelling \/ Spelling[k] = NodeSpelling(Spelling[k - 1])
  BY SpellingIs, Zenon
<1>3. QED
  BY <1>1, <1>2, Zenon DEF LeafSpelling, NodeSpelling

(* No tree stands for anything else. *)
LEMMA AllSpell == \A k \in 0 .. MaxDepth : Spells(Spelling[k])
<1> DEFINE T == {k \in 0 .. MaxDepth : Spells(Spelling[k])}
<1>1. MaxDepth \in Nat
  BY JsonAssumption
<1>2. \A s \in Leaves : <<s.data>> \in Seq(Letters)
  <2>1. \A t \in Scalars : t \in Letters /\ Scalar(t).data = t
    BY ScalarIs, Zenon DEF Letters, Tokens
  <2>2. QED
    BY <2>1, Short, Zenon DEF Leaves
<1>3. 0 \in T
  <2>1. 0 \in 0 .. MaxDepth /\ Spelling[0] = LeafSpelling
    BY <1>1, SpellingIs
  <2>2. QED
    BY <1>2, <2>1, Zenon DEF Spells, LeafSpelling
<1>4. ASSUME NEW k \in 1 .. MaxDepth, k - 1 \in T PROVE k \in T
  <2>1. Spells(Spelling[k - 1]) /\ k \in 0 .. MaxDepth
    BY <1>4
  <2>2. Spelling[k] = NodeSpelling(Spelling[k - 1])
    BY <2>1, SpellingIs
  <2>3. DOMAIN Spelling[k] = Leaves \cup Nodes(DOMAIN Spelling[k - 1])
    BY <2>2, Zenon DEF NodeSpelling
  <2>4. ASSUME NEW s \in Leaves PROVE Spelling[k][s] \in Seq(Letters)
    BY <1>2, <2>2, <2>4, Zenon DEF NodeSpelling
  <2>5. ASSUME NEW s \in Nodes(DOMAIN Spelling[k - 1]) PROVE Spelling[k][s] \in Seq(Letters)
    <3>1. Spelling[k][s] = (<<Opener(s.type)>> \o Items(s, Spelling[k - 1])) \o <<Shutter(s.type)>>
      BY SpelledNode
    <3>2. Items(s, Spelling[k - 1]) \in Seq(Letters)
      BY <2>1, ItemsAreText
    <3>3. <<Opener(s.type)>> \in Seq(Letters) /\ <<Shutter(s.type)>> \in Seq(Letters)
      BY Brackets
    <3>4. QED
      BY <3>1, <3>2, <3>3, ConcatProperties
  <2>6. QED
    BY <2>1, <2>3, <2>4, <2>5, Zenon DEF Spells
<1>5. QED
  <2> HIDE DEF T
  <2>1. 0 .. MaxDepth \subseteq T
    BY <1>1, <1>3, <1>4, AllUpTo
  <2>2. QED
    BY <2>1 DEF T

(* What has been read of the array or object of a frame: its bracket and    *)
(* its items, and what must stand before the next of them.                 *)
Begun(fr, sp) == <<Opener(fr.tree.type)>> \o Items(fr.tree, sp)
CommaOf(s) == IF Len(s.vals) > 0 THEN <<",">> ELSE << >>
KeyOf(s, name) == IF s.type = "obj" THEN <<name, ":">> ELSE << >>
Awaiting(fr, sp) == Begun(fr, sp) \o (CommaOf(fr.tree) \o KeyOf(fr.tree, fr.key.name))

(* The children of the k-th frame nest less deep the deeper it is. *)
Inside(k) == Spelling[MaxDepth - k]
FrameIs(fr, sp) == fr.tree \in Nodes(DOMAIN sp) /\ fr.key.name \in Strings \cup {Unnamed}

(* c[k]: the text up to the child the k-th frame waits for.                 *)
Foretold(c, s) ==
  /\ c[0] = << >>
  /\ \A k \in 0 .. Len(s) : c[k] \in Seq(Letters)
  /\ \A k \in 1 .. Len(s) : FrameIs(s[k], Inside(k)) /\ c[k] = c[k - 1] \o Awaiting(s[k], Inside(k))

(* The text is what the frames await and what has been read since.          *)
Reads(c) ==
  /\ pc = "value" => text = c[Len(stack)]
  /\ pc = "returned" =>
       /\ ret.tree \in DOMAIN Inside(Len(stack))
       /\ text = c[Len(stack)] \o Inside(Len(stack))[ret.tree]
  /\ pc \in {"first", "sep"} => text = c[Len(stack) - 1] \o Begun(Top, Inside(Len(stack)))
  /\ pc = "first" => Len(Top.tree.vals) = 0
  /\ pc = "sep" => Len(Top.tree.vals) > 0
  /\ pc = "key" =>
       /\ Top.tree.type = "obj"
       /\ text = c[Len(stack) - 1] \o (Begun(Top, Inside(Len(stack))) \o CommaOf(Top.tree))
  /\ pc = "colon" =>
       /\ Top.tree.type = "obj"
       /\ text = c[Len(stack) - 1]
                   \o ((Begun(Top, Inside(Len(stack))) \o CommaOf(Top.tree)) \o <<Top.key.name>>)
  /\ pc = "done" => TreeIsText

Accounted == pc \notin {"fail", "null", "freed"} => \E c : Foretold(c, stack) /\ Reads(c)

(* What a frame awaits is a text. *)
LEMMA AwaitingIs ==
  ASSUME NEW sp, Spells(sp), NEW fr, FrameIs(fr, sp)
  PROVE  /\ Begun(fr, sp) \in Seq(Letters) /\ CommaOf(fr.tree) \in Seq(Letters)
         /\ KeyOf(fr.tree, fr.key.name) \in Seq(Letters)
         /\ Awaiting(fr, sp) \in Seq(Letters)
<1>1. "," \in Letters /\ ":" \in Letters /\ fr.key.name \in Letters
  BY Zenon DEF Letters, Tokens, Scalars, FrameIs
<1>2. CommaOf(fr.tree) \in Seq(Letters) /\ KeyOf(fr.tree, fr.key.name) \in Seq(Letters)
  BY <1>1, Short, Zenon DEF CommaOf, KeyOf
<1>3. Items(fr.tree, sp) \in Seq(Letters) /\ <<Opener(fr.tree.type)>> \in Seq(Letters)
  BY ItemsAreText, Brackets DEF FrameIs
<1>4. Begun(fr, sp) \in Seq(Letters)
  BY <1>3, ConcatProperties DEF Begun
<1>5. QED
  BY <1>2, <1>4, ConcatProperties DEF Awaiting

(* Where the frames up to m stay, what they await stays, whatever stands on *)
(* them.                                                                    *)
LEMMA StillForetold ==
  ASSUME NEW c, NEW s, NEW t, NEW m \in Nat, Foretold(c, s), m <= Len(s), Len(s) \in Nat,
         Len(t) = m \/ (Len(t) = m + 1 /\ FrameIs(t[m + 1], Inside(m + 1)) /\ m + 1 <= MaxDepth),
         \A k \in 1 .. m : t[k] = s[k]
  PROVE  \E d : Foretold(d, t) /\ \A k \in 0 .. m : d[k] = c[k]
<1> DEFINE more == c[m] \o Awaiting(t[m + 1], Inside(m + 1))
<1>1. PICK d : d = [k \in 0 .. m + 1 |-> IF k = m + 1 THEN more ELSE c[k]]
  OBVIOUS
<1>2. d[m + 1] = more /\ \A k \in 0 .. m : d[k] = c[k]
  <2> HIDE DEF more
  <2>1. \A k \in 0 .. m : k \in 0 .. m + 1 /\ k # m + 1
    OBVIOUS
  <2>2. m + 1 \in 0 .. m + 1
    OBVIOUS
  <2>3. QED
    BY <1>1, <2>1, <2>2
<1>3. d[0] = << >> /\ \A k \in 0 .. m : d[k] \in Seq(Letters)
  BY <1>2 DEF Foretold
<1>4. \A k \in 1 .. m : FrameIs(t[k], Inside(k)) /\ d[k] = d[k - 1] \o Awaiting(t[k], Inside(k))
  <2>1. ASSUME NEW k \in 1 .. m
        PROVE  FrameIs(s[k], Inside(k)) /\ c[k] = c[k - 1] \o Awaiting(s[k], Inside(k))
    <3>1. k \in 1 .. Len(s)
      OBVIOUS
    <3>2. QED
      BY <3>1, Zenon DEF Foretold
  <2>2. \A k \in 1 .. m : k \in 0 .. m /\ k - 1 \in 0 .. m
    OBVIOUS
  <2>3. QED
    BY <1>2, <2>1, <2>2, Zenon
<1>5. CASE Len(t) = m
  BY <1>2, <1>3, <1>4, <1>5 DEF Foretold
<1>6. CASE Len(t) = m + 1 /\ FrameIs(t[m + 1], Inside(m + 1)) /\ m + 1 <= MaxDepth
  <2>1. PICK n \in Nat : n = m + 1
    OBVIOUS
  <2>2. Spells(Inside(n))
    BY <1>6, <2>1, AllSpell, JsonAssumption DEF Inside
  <2>3. Awaiting(t[n], Inside(n)) \in Seq(Letters)
    BY <1>6, <2>1, <2>2, AwaitingIs
  <2>4. c[m] \in Seq(Letters)
    BY DEF Foretold
  <2>5. d[n] \in Seq(Letters) /\ d[n] = d[m] \o Awaiting(t[n], Inside(n))
    <3>1. d[n] = c[m] \o Awaiting(t[n], Inside(n)) /\ d[m] = c[m]
      <4>1. m \in 0 .. m
        OBVIOUS
      <4>2. QED
        BY <1>2, <2>1, <4>1, Zenon
    <3>2. c[m] \o Awaiting(t[n], Inside(n)) \in Seq(Letters)
      BY <2>3, <2>4, ConcatProperties
    <3>3. QED
      BY <3>1, <3>2, Zenon
  <2>6. /\ \A k \in 0 .. n : k = n \/ k \in 0 .. m
        /\ \A k \in 1 .. n : k = n \/ k \in 1 .. m
        /\ n - 1 = m /\ Len(t) = n
    BY <1>6, <2>1
  <2>7. FrameIs(t[n], Inside(n))
    BY <1>6, <2>1
  <2>8. /\ \A k \in 0 .. n : d[k] \in Seq(Letters)
        /\ \A k \in 1 .. n : FrameIs(t[k], Inside(k)) /\ d[k] = d[k - 1] \o Awaiting(t[k], Inside(k))
    BY <1>3, <1>4, <2>5, <2>6, <2>7, Zenon
  <2>9. Foretold(d, t)
    BY <1>3, <2>6, <2>8, Zenon DEF Foretold
  <2>10. QED
    BY <1>2, <2>9, Zenon
<1>7. QED
  BY <1>5, <1>6

-----------------------------------------------------------------------------
(* What is known of the frames in use. *)
LEMMA FramesKnown ==
  ASSUME Inv, NestingBounded, NEW c, Foretold(c, stack)
  PROVE  /\ Len(stack) \in 0 .. MaxDepth /\ MaxDepth \in Nat
         /\ Spells(Inside(Len(stack)))
         /\ c[Len(stack)] \in Seq(Letters)
         /\ stack # << >> =>
              /\ Len(stack) - 1 \in 0 .. MaxDepth
              /\ c[Len(stack) - 1] \in Seq(Letters)
              /\ FrameIs(Top, Inside(Len(stack)))
              /\ c[Len(stack)] = c[Len(stack) - 1] \o Awaiting(Top, Inside(Len(stack)))
<1>1. PICK m \in 0 .. MaxDepth : m = Len(stack)
  <2>1. Len(stack) \in Nat
    BY LenProperties DEF Inv, Types
  <2>2. QED
    BY <2>1, JsonAssumption DEF NestingBounded
<1>2. MaxDepth \in Nat /\ MaxDepth - m \in 0 .. MaxDepth /\ m \in 0 .. m
  BY JsonAssumption
<1>3. Spells(Inside(m))
  BY <1>2, AllSpell DEF Inside
<1>4. c[m] \in Seq(Letters)
  BY <1>1, <1>2, Zenon DEF Foretold
<1>5. ASSUME stack # << >>
      PROVE  /\ m - 1 \in 0 .. MaxDepth /\ c[m - 1] \in Seq(Letters)
             /\ FrameIs(Top, Inside(m)) /\ c[m] = c[m - 1] \o Awaiting(Top, Inside(m))
  <2>1. m # 0
    BY <1>1, <1>5, EmptySeq DEF Inv, Types
  <2>2. m - 1 \in 0 .. MaxDepth /\ m - 1 \in 0 .. m /\ m \in 1 .. m
    BY <1>2, <2>1
  <2>3. Top = stack[m]
    BY <1>1 DEF Top
  <2>4. QED
    BY <1>1, <2>2, <2>3, Zenon DEF Foretold
<1>6. QED
  BY <1>1, <1>2, <1>3, <1>4, <1>5, Zenon

(* One token more has been read. *)
LEMMA TokenRead ==
  ASSUME Advance, text \in Seq(Letters), ahead \in Letters
  PROVE  text' = text \o <<ahead>>
BY AppendIsConcat DEF Advance

(* A scalar is its token. *)
LEMMA ScalarReads ==
  ASSUME Inv, NestingBounded, Accounted, ParseScalar PROVE Accounted'
<1> SUFFICES ASSUME pc' \notin {"fail", "null", "freed"}
             PROVE  \E c : Foretold(c, stack)' /\ Reads(c)'
  BY DEF Accounted
<1>1. /\ pc = "value" /\ ahead \in Scalars /\ Advance /\ pc' = "returned" /\ ret'.tree = Scalar(ahead)
      /\ UNCHANGED stack
  BY DEF ParseScalar
<1>2. PICK c : Foretold(c, stack) /\ Reads(c)
  BY <1>1 DEF Accounted
<1>3. PICK m \in 0 .. MaxDepth : m = Len(stack) /\ MaxDepth \in Nat
  BY <1>2, FramesKnown
<1>4. text = c[m] /\ text \in Seq(Letters)
  BY <1>1, <1>2, <1>3, FramesKnown DEF Reads
<1>5. ret'.tree \in DOMAIN Inside(m) /\ Inside(m)[ret'.tree] = <<ahead>>
  <2>1. MaxDepth - m \in 0 .. MaxDepth
    BY <1>3
  <2>2. QED
    BY <1>1, <2>1, SpelledLeaf DEF Inside
<1>6. text' = text \o <<ahead>>
  <2>1. ahead \in Letters
    BY <1>1, Zenon DEF Letters, Tokens
  <2>2. QED
    BY <1>1, <1>4, <2>1, TokenRead
<1>7. Reads(c)'
  BY <1>1, <1>3, <1>4, <1>5, <1>6 DEF Reads
<1>8. Foretold(c, stack)'
  BY <1>1, <1>2 DEF Foretold
<1>9. QED
  BY <1>7, <1>8

(* A bracket: nothing follows it yet. *)
LEMMA NoItems == ASSUME NEW s, NEW sp, Len(s.vals) = 0 PROVE Items(s, sp) = << >>
<1>1. AddUp(s, sp, 0)
  BY ItemsAre
<1>2. QED
  BY <1>1 DEF AddUp, AreItems

(* Where no key has been read there is no name. *)
LEMMA NoKeyIsUnnamed == NoKey.name = Unnamed
BY Zenon DEF NoKey, Unnamed

(* A node without children is one at any depth. *)
LEMMA NewNode ==
  ASSUME NEW D, NEW type \in {"arr", "obj"}
  PROVE  Value(type, Unnamed) \in Nodes(D) /\ Len(Value(type, Unnamed).vals) = 0
<1> DEFINE s == Value(type, Unnamed)
<1>1. s.vals = << >> /\ s.keys = << >>
  BY DEF Value
<1>2. << >> \in Seq(D) /\ << >> \in Seq(Strings \cup {Unnamed}) /\ Len(<< >>) = 0
  BY Short
<1>3. s \in Branches(D)
  BY <1>2 DEF Value, Branches
<1> HIDE DEF s
<1>4. QED
  BY <1>1, <1>2, <1>3, Zenon DEF Nodes, s

(* A frame more begins with its bracket. *)
LEMMA OpenReads ==
  ASSUME Inv, NestingBounded, NestingBounded', Accounted, Open PROVE Accounted'
<1> SUFFICES ASSUME pc' \notin {"fail", "null", "freed"}
             PROVE  \E c : Foretold(c, stack)' /\ Reads(c)'
  BY DEF Accounted
<1> DEFINE type == IF ahead = "[" THEN "arr" ELSE "obj"
           fr == [tree |-> Value(type, Unnamed), own |-> {fresh}, key |-> NoKey]
<1>1. pc = "value" /\ Advance /\ pc' = "first" /\ stack' = Append(stack, fr)
  BY Zenon DEF Open, Unnamed
<1>2. ahead \in Letters /\ type \in {"arr", "obj"} /\ Opener(type) = ahead
  <2>1. ahead \in {"[", "{"}
    BY Zenon DEF Open
  <2>2. QED
    BY <2>1, Zenon DEF Opener, Letters, Tokens
<1>3. /\ type \in {"arr", "obj"} /\ Opener(type) = ahead
      /\ fr.tree = Value(type, Unnamed) /\ fr.key.name = Unnamed
  <2> HIDE DEF type
  <2>1. fr.tree = Value(type, Unnamed) /\ fr.key = NoKey
    OBVIOUS
  <2>2. QED
    BY <1>2, <2>1, NoKeyIsUnnamed, Zenon
<1> HIDE DEF fr, type
<1>4. PICK c : Foretold(c, stack) /\ Reads(c)
  BY <1>1 DEF Accounted
<1>5. PICK m \in 0 .. MaxDepth : m = Len(stack) /\ MaxDepth \in Nat
  BY <1>4, FramesKnown
<1>6. text = c[m] /\ c[m] \in Seq(Letters)
  BY <1>1, <1>4, <1>5, FramesKnown DEF Reads
<1>7. /\ Len(stack') = m + 1 /\ stack'[m + 1] = fr /\ \A k \in 1 .. m : stack'[k] = stack[k]
  <2>1. stack \in Seq(ItemsOf(stack))
    BY DEF Inv, Types
  <2>2. QED
    BY <1>1, <1>5, <2>1, Pushed
<1>8. FrameIs(fr, Inside(m + 1)) /\ Len(fr.tree.vals) = 0 /\ fr.tree.type = type
  BY <1>3, NewNode, ValueIs, Zenon DEF FrameIs
<1>9. PICK d : Foretold(d, stack') /\ \A k \in 0 .. m : d[k] = c[k]
  <2>1. m + 1 <= MaxDepth /\ Len(stack) \in Nat /\ m <= Len(stack) /\ m \in Nat
    BY <1>5, <1>7, JsonAssumption DEF NestingBounded
  <2>2. QED
    BY <1>4, <1>7, <1>8, <2>1, StillForetold
<1>10. Begun(fr, Inside(m + 1)) = <<ahead>>
  <2>1. Items(fr.tree, Inside(m + 1)) = << >>
    BY <1>8, NoItems
  <2>2. <<ahead>> \in Seq(Letters)
    BY <1>3, Brackets
  <2>3. QED
    BY <1>3, <1>8, <2>1, <2>2, ConcatEmptySeq DEF Begun
<1>11. text' = text \o <<ahead>>
  BY <1>2, <1>1, <1>6, TokenRead
<1>12. Top' = fr /\ d[Len(stack') - 1] = c[m] /\ Inside(Len(stack')) = Inside(m + 1)
  <2>1. Len(stack') - 1 = m /\ m \in 0 .. m
    BY <1>7
  <2>2. QED
    BY <1>7, <1>9, <2>1, Zenon DEF Top
<1>13. text' = d[Len(stack') - 1] \o Begun(Top', Inside(Len(stack')))
  BY <1>6, <1>10, <1>11, <1>12, Zenon
<1>14. Reads(d)'
  <2>1. Len(Top'.tree.vals) = 0
    BY <1>8, <1>12
  <2>2. QED
    BY <1>1, <1>13, <2>1 DEF Reads
<1>15. Foretold(d, stack)'
  BY <1>9 DEF Foretold
<1>16. QED
  BY <1>14, <1>15

(* Before an element its value is awaited, before a member its key. *)
LEMMA ItemAwaited ==
  ASSUME Inv, NestingBounded, stack # << >>, UNCHANGED stack, NEW c, Foretold(c, stack),
         text' = c[Len(stack) - 1] \o (Begun(Top, Inside(Len(stack))) \o CommaOf(Top.tree)),
         pc' = IF Top.tree.type = "arr" THEN "value" ELSE "key"
  PROVE  Accounted'
<1>1. PICK m : m = Len(stack)
  OBVIOUS
<1>2. PICK sp : sp = Inside(m)
  OBVIOUS
<1>3. /\ c[m - 1] \in Seq(Letters) /\ FrameIs(Top, sp) /\ Spells(sp)
      /\ c[m] = c[m - 1] \o Awaiting(Top, sp)
  BY <1>1, <1>2, FramesKnown
<1>4. Begun(Top, sp) \in Seq(Letters) /\ CommaOf(Top.tree) \in Seq(Letters)
  BY <1>3, AwaitingIs
<1>5. Top.tree.type \in {"arr", "obj"}
  BY <1>3, NodeIs DEF FrameIs, Branches
<1>6. text' = c[m - 1] \o (Begun(Top, sp) \o CommaOf(Top.tree))
  BY <1>1, <1>2
<1>7. Foretold(c, stack)' /\ Top' = Top /\ Len(stack') = m
  BY <1>1 DEF Foretold, Top
<1>8. CASE Top.tree.type = "arr"
  <2>1. KeyOf(Top.tree, Top.key.name) = << >>
    BY <1>8 DEF KeyOf
  <2>2. text' = c[m]
    BY <1>3, <1>4, <1>6, <2>1, ConcatEmptySeq DEF Awaiting
  <2>3. Reads(c)'
    BY <1>7, <1>8, <2>2 DEF Reads
  <2>4. QED
    BY <1>7, <2>3 DEF Accounted
<1>9. CASE Top.tree.type = "obj"
  <2>1. Reads(c)'
    BY <1>2, <1>6, <1>7, <1>9 DEF Reads
  <2>2. QED
    BY <1>7, <2>1 DEF Accounted
<1>10. QED
  BY <1>5, <1>8, <1>9

(* Before the first item no comma has been read ... *)
LEMMA ElementReads == ASSUME Inv, NestingBounded, Accounted, Element PROVE Accounted'
<1>1. /\ pc = "first" /\ stack # << >> /\ UNCHANGED <<stack, text>>
      /\ pc' = IF Top.tree.type = "arr" THEN "value" ELSE "key"
  <2>1. pc = "first" /\ UNCHANGED <<stack, text>> /\ pc' = IF Top.tree.type = "arr" THEN "value" ELSE "key"
    BY Zenon DEF Element, Stay
  <2>2. QED
    BY <2>1 DEF Inv, Control
<1>2. PICK c : Foretold(c, stack) /\ Reads(c)
  BY <1>1 DEF Accounted
<1>3. PICK sp : sp = Inside(Len(stack))
  OBVIOUS
<1>4. Begun(Top, sp) \in Seq(Letters)
  BY <1>1, <1>2, <1>3, FramesKnown, AwaitingIs
<1>5. CommaOf(Top.tree) = << >> /\ text = c[Len(stack) - 1] \o Begun(Top, sp)
  <2>1. Len(Top.tree.vals) = 0 /\ text = c[Len(stack) - 1] \o Begun(Top, sp)
    BY <1>1, <1>2, <1>3 DEF Reads
  <2>2. ~(Len(Top.tree.vals) > 0)
    BY <2>1
  <2>3. QED
    BY <2>1, <2>2, Zenon DEF CommaOf
<1>6. Begun(Top, sp) \o CommaOf(Top.tree) = Begun(Top, sp)
  BY <1>4, <1>5, ConcatEmptySeq
<1>7. text' = c[Len(stack) - 1] \o (Begun(Top, Inside(Len(stack))) \o CommaOf(Top.tree))
  BY <1>1, <1>3, <1>5, <1>6, Zenon
<1>8. QED
  BY <1>1, <1>2, <1>7, ItemAwaited

(* ... before any other it has. *)
LEMMA CommaReads == ASSUME Inv, NestingBounded, Accounted, Comma PROVE Accounted'
<1>1. /\ pc = "sep" /\ stack # << >> /\ UNCHANGED stack /\ Advance
      /\ pc' = IF Top.tree.type = "arr" THEN "value" ELSE "key"
  <2>1. /\ pc = "sep" /\ UNCHANGED stack /\ Advance
        /\ pc' = IF Top.tree.type = "arr" THEN "value" ELSE "key"
    BY Zenon DEF Comma
  <2>2. QED
    BY <2>1 DEF Inv, Control
<1>2. PICK c : Foretold(c, stack) /\ Reads(c)
  BY <1>1 DEF Accounted
<1>3. PICK sp : sp = Inside(Len(stack))
  OBVIOUS
<1>4. PICK before : before = c[Len(stack) - 1]
  OBVIOUS
<1>5. /\ Spells(sp) /\ FrameIs(Top, sp) /\ before \in Seq(Letters)
      /\ Begun(Top, sp) \in Seq(Letters) /\ CommaOf(Top.tree) \in Seq(Letters)
  <2>1. Spells(sp) /\ FrameIs(Top, sp) /\ before \in Seq(Letters)
    BY <1>1, <1>2, <1>3, <1>4, FramesKnown
  <2>2. QED
    BY <2>1, AwaitingIs
<1>6. text = before \o Begun(Top, sp) /\ Len(Top.tree.vals) > 0
  BY <1>1, <1>2, <1>3, <1>4 DEF Reads
<1>7. ahead \in Letters /\ CommaOf(Top.tree) = <<ahead>>
  <2>1. ahead = ","
    BY Zenon DEF Comma
  <2>2. QED
    BY <1>6, <2>1, Zenon DEF CommaOf, Letters, Tokens
<1>8. text' = (before \o Begun(Top, sp)) \o CommaOf(Top.tree)
  <2>1. text \in Seq(Letters)
    BY <1>5, <1>6, ConcatProperties
  <2>2. text' = text \o <<ahead>>
    BY <1>1, <1>7, <2>1, TokenRead
  <2>3. QED
    BY <1>6, <1>7, <2>2, Zenon
<1>9. text' = before \o (Begun(Top, sp) \o CommaOf(Top.tree))
  BY <1>5, <1>8, ConcatAssociative
<1>10. text' = c[Len(stack) - 1] \o (Begun(Top, Inside(Len(stack))) \o CommaOf(Top.tree))
  BY <1>3, <1>4, <1>9, Zenon
<1>11. QED
  BY <1>1, <1>2, <1>10, ItemAwaited

(* The key is what was read. *)
LEMMA KeyReads == ASSUME Inv, NestingBounded, Accounted, ParseKey PROVE Accounted'
<1> SUFFICES ASSUME pc' \notin {"fail", "null", "freed"}
             PROVE  \E c : Foretold(c, stack)' /\ Reads(c)'
  BY DEF Accounted
<1> DEFINE fr == [tree |-> Top.tree, own |-> Top.own, key |-> [name |-> ahead, own |-> {fresh}]]
<1>1. pc = "key" /\ ahead \in Strings /\ Advance /\ pc' = "colon" /\ Replace(fr) /\ stack # << >>
  BY DEF ParseKey, Inv, Control
<1>2. fr.tree = Top.tree /\ fr.key.name = ahead
  OBVIOUS
<1> HIDE DEF fr
<1>3. PICK c : Foretold(c, stack) /\ Reads(c)
  BY <1>1 DEF Accounted
<1>4. PICK m \in 1 .. MaxDepth : m = Len(stack) /\ MaxDepth \in Nat
  <2>1. Len(stack) \in 0 .. MaxDepth /\ MaxDepth \in Nat /\ Len(stack) - 1 \in 0 .. MaxDepth
    BY <1>1, <1>3, FramesKnown
  <2>2. QED
    BY <2>1
<1>5. PICK sp : sp = Inside(m)
  OBVIOUS
<1>6. PICK before : before = c[m - 1]
  OBVIOUS
<1>7. /\ Spells(sp) /\ FrameIs(Top, sp) /\ before \in Seq(Letters)
      /\ Begun(Top, sp) \in Seq(Letters) /\ CommaOf(Top.tree) \in Seq(Letters)
  <2>1. Spells(sp) /\ FrameIs(Top, sp) /\ before \in Seq(Letters)
    BY <1>1, <1>3, <1>4, <1>5, <1>6, FramesKnown
  <2>2. QED
    BY <2>1, AwaitingIs
<1>8. Top.tree.type = "obj" /\ text = before \o (Begun(Top, sp) \o CommaOf(Top.tree))
  BY <1>1, <1>3, <1>4, <1>5, <1>6 DEF Reads
<1>9. Begun(fr, sp) = Begun(Top, sp) /\ FrameIs(fr, sp)
  BY <1>1, <1>2, <1>7, Zenon DEF Begun, FrameIs
<1>10. /\ Len(stack') = m /\ stack'[m] = fr /\ \A k \in 1 .. m - 1 : stack'[k] = stack[k]
  BY <1>1, <1>4, Replaced DEF Inv, Types
<1>11. PICK d : Foretold(d, stack') /\ d[m - 1] = c[m - 1]
  <2>1. PICK l \in Nat : l = m - 1
    OBVIOUS
  <2>2. l + 1 = m /\ l <= Len(stack) /\ Len(stack) \in Nat /\ l + 1 <= MaxDepth /\ l \in 0 .. l
    BY <1>4, <2>1
  <2>3. Len(stack') = l + 1 /\ FrameIs(stack'[l + 1], Inside(l + 1)) /\ \A k \in 1 .. l : stack'[k] = stack[k]
    BY <1>5, <1>9, <1>10, <2>1, <2>2, Zenon
  <2>4. \E d : Foretold(d, stack') /\ \A k \in 0 .. l : d[k] = c[k]
    BY <1>3, <2>2, <2>3, StillForetold
  <2>5. QED
    BY <2>1, <2>2, <2>4, Zenon
<1>12. text' = text \o <<ahead>>
  <2>1. text \in Seq(Letters)
    BY <1>7, <1>8, ConcatProperties
  <2>2. ahead \in Letters
    BY <1>1, Zenon DEF Letters, Tokens, Scalars
  <2>3. QED
    BY <1>1, <2>1, <2>2, TokenRead
<1>13. text' = before \o ((Begun(Top, sp) \o CommaOf(Top.tree)) \o <<ahead>>)
  <2>1. PICK begun : begun = Begun(Top, sp) \o CommaOf(Top.tree)
    OBVIOUS
  <2>2. begun \in Seq(Letters)
    BY <1>7, <2>1, ConcatProperties
  <2>3. <<ahead>> \in Seq(Letters)
    <3>1. ahead \in Letters
      BY <1>1, Zenon DEF Letters, Tokens, Scalars
    <3>2. QED
      BY <3>1, Short
  <2>4. (before \o begun) \o <<ahead>> = before \o (begun \o <<ahead>>)
    BY <1>7, <2>2, <2>3, ConcatAssociative
  <2>5. QED
    BY <1>8, <1>12, <2>1, <2>4, Zenon
<1>14. Top' = fr /\ Len(stack') = m
  BY <1>10 DEF Top
<1>15. Reads(d)'
  <2>1. text' = d[Len(stack') - 1]
                  \o ((Begun(Top', Inside(Len(stack'))) \o CommaOf(Top'.tree)) \o <<Top'.key.name>>)
    BY <1>2, <1>5, <1>6, <1>9, <1>11, <1>13, <1>14, Zenon
  <2>2. QED
    BY <1>1, <1>2, <1>8, <1>14, <2>1 DEF Reads
<1>16. Foretold(d, stack)'
  BY <1>11 DEF Foretold
<1>17. QED
  BY <1>15, <1>16

(* One letter and another are two. *)
LEMMA Pair == ASSUME NEW S, NEW a \in S, NEW b \in S PROVE <<a>> \o <<b>> = <<a, b>>
<1>1. <<a>> \in Seq(S) /\ <<b>> \in Seq(S) /\ Len(<<a>>) = 1 /\ Len(<<b>>) = 1
  OBVIOUS
<1>2. /\ <<a>> \o <<b>> \in Seq(S) /\ Len(<<a>> \o <<b>>) = 2
      /\ (<<a>> \o <<b>>)[1] = a /\ (<<a>> \o <<b>>)[2] = b
  BY <1>1, ConcatProperties
<1>3. <<a, b>> \in Seq(S) /\ Len(<<a, b>>) = 2 /\ <<a, b>>[1] = a /\ <<a, b>>[2] = b
  OBVIOUS
<1>4. \A i \in 1 .. 2 : i = 1 \/ i = 2
  OBVIOUS
<1>5. \A i \in 1 .. 2 : (<<a>> \o <<b>>)[i] = <<a, b>>[i]
  BY <1>2, <1>3, <1>4
<1>6. QED
  BY <1>2, <1>3, <1>5, SeqEqual

(* The colon stands between the key and its value. *)
LEMMA ColonReads == ASSUME Inv, NestingBounded, Accounted, Colon PROVE Accounted'
<1> SUFFICES ASSUME pc' \notin {"fail", "null", "freed"}
             PROVE  \E c : Foretold(c, stack)' /\ Reads(c)'
  BY DEF Accounted
<1>1. pc = "colon" /\ Advance /\ pc' = "value" /\ UNCHANGED stack /\ stack # << >>
  <2>1. pc = "colon" /\ Advance /\ pc' = "value" /\ UNCHANGED stack
    BY Zenon DEF Colon
  <2>2. QED
    BY <2>1 DEF Inv, Control
<1>2. ahead = ":"
  BY Zenon DEF Colon
<1>3. PICK c : Foretold(c, stack) /\ Reads(c)
  BY <1>1 DEF Accounted
<1>4. PICK m \in 1 .. MaxDepth : m = Len(stack) /\ MaxDepth \in Nat
  <2>1. Len(stack) \in 0 .. MaxDepth /\ MaxDepth \in Nat /\ Len(stack) - 1 \in 0 .. MaxDepth
    BY <1>1, <1>3, FramesKnown
  <2>2. QED
    BY <2>1
<1>5. PICK sp : sp = Inside(m)
  OBVIOUS
<1>6. PICK before : before = c[m - 1]
  OBVIOUS
<1>7. PICK name : name = Top.key.name
  OBVIOUS
<1>8. PICK begun : begun = Begun(Top, sp)
  OBVIOUS
<1>9. PICK comma : comma = CommaOf(Top.tree)
  OBVIOUS
<1>10. /\ before \in Seq(Letters) /\ begun \in Seq(Letters) /\ comma \in Seq(Letters)
       /\ name \in Letters /\ ahead \in Letters
       /\ <<name>> \in Seq(Letters) /\ <<ahead>> \in Seq(Letters) /\ <<name, ahead>> \in Seq(Letters)
       /\ c[m] = before \o Awaiting(Top, sp)
  <2>1. Spells(sp) /\ FrameIs(Top, sp) /\ before \in Seq(Letters) /\ c[m] = before \o Awaiting(Top, sp)
    BY <1>1, <1>3, <1>4, <1>5, <1>6, FramesKnown
  <2>2. begun \in Seq(Letters) /\ comma \in Seq(Letters)
    BY <1>8, <1>9, <2>1, AwaitingIs
  <2>3. name \in Letters /\ ahead \in Letters
    BY <1>2, <1>7, <2>1, Zenon DEF FrameIs, Letters, Tokens, Scalars
  <2>4. QED
    BY <2>1, <2>2, <2>3, Short
<1>11. Top.tree.type = "obj" /\ text = before \o ((begun \o comma) \o <<name>>)
  BY <1>1, <1>3, <1>4, <1>5, <1>6, <1>7, <1>8, <1>9 DEF Reads
<1>12. begun \o comma \in Seq(Letters) /\ (begun \o comma) \o <<name>> \in Seq(Letters)
  BY <1>10, ConcatProperties
<1>13. text' = text \o <<ahead>>
  <2>1. text \in Seq(Letters)
    BY <1>10, <1>11, <1>12, ConcatProperties
  <2>2. QED
    BY <1>1, <1>10, <2>1, TokenRead
<1>14. text' = c[m]
  <2>1. text' = before \o (((begun \o comma) \o <<name>>) \o <<ahead>>)
    <3>1. PICK x : x = (begun \o comma) \o <<name>>
      OBVIOUS
    <3>2. x \in Seq(Letters) /\ before \in Seq(Letters) /\ <<ahead>> \in Seq(Letters)
      BY <1>10, <1>12, <3>1
    <3>3. PICK y \in Seq(Letters) : y = <<ahead>>
      BY <3>2
    <3>4. (before \o x) \o y = before \o (x \o y)
      BY <3>2, ConcatAssociative
    <3>5. QED
      BY <1>11, <1>13, <3>1, <3>3, <3>4, Zenon
  <2>2. ((begun \o comma) \o <<name>>) \o <<ahead>> = (begun \o comma) \o (<<name>> \o <<ahead>>)
    BY <1>10, <1>12, ConcatAssociative
  <2>3. <<name>> \o <<ahead>> = <<name, ahead>>
    BY <1>10, Pair
  <2>4. (begun \o comma) \o <<name, ahead>> = begun \o (comma \o <<name, ahead>>)
    BY <1>10, ConcatAssociative
  <2>5. KeyOf(Top.tree, Top.key.name) = <<name, ahead>>
    BY <1>2, <1>7, <1>11, Zenon DEF KeyOf
  <2>6. Awaiting(Top, sp) = begun \o (comma \o <<name, ahead>>)
    BY <1>8, <1>9, <2>5, Zenon DEF Awaiting
  <2>7. QED
    BY <1>10, <2>1, <2>2, <2>3, <2>4, <2>6, Zenon
<1>15. Reads(c)'
  BY <1>1, <1>4, <1>14 DEF Reads
<1>16. Foretold(c, stack)'
  BY <1>1, <1>3 DEF Foretold
<1>17. QED
  BY <1>15, <1>16

(* A complete array or object is what its frame has read, and the bracket. *)
LEMMA CloseReads == ASSUME Inv, NestingBounded, Accounted, Close PROVE Accounted'
<1> SUFFICES ASSUME TRUE PROVE \E c : Foretold(c, stack)' /\ Reads(c)'
  BY DEF Accounted
<1>1. /\ pc \in {"first", "sep"} /\ stack # << >> /\ Advance /\ Pop /\ pc' = "returned"
      /\ ret'.tree = Top.tree
  <2>1. /\ pc \in {"first", "sep"} /\ Advance /\ Pop /\ pc' = "returned"
        /\ ret' = [tree |-> Top.tree, own |-> Top.own]
    BY Zenon DEF Close
  <2>2. QED
    BY <2>1 DEF Inv, Control
<1>2. PICK c : Foretold(c, stack) /\ Reads(c)
  BY <1>1, Zenon DEF Accounted
<1>3. PICK m \in 1 .. MaxDepth : m = Len(stack) /\ MaxDepth \in Nat
  <2>1. Len(stack) \in 0 .. MaxDepth /\ MaxDepth \in Nat /\ Len(stack) - 1 \in 0 .. MaxDepth
    BY <1>1, <1>2, FramesKnown
  <2>2. QED
    BY <2>1
<1>4. PICK sp : sp = Inside(m)
  OBVIOUS
<1>5. PICK before : before = c[m - 1]
  OBVIOUS
<1>6. PICK begun : begun = Begun(Top, sp)
  OBVIOUS
<1>7. PICK closing : closing = <<Shutter(Top.tree.type)>>
  OBVIOUS
<1>8. /\ FrameIs(Top, sp) /\ before \in Seq(Letters) /\ begun \in Seq(Letters)
      /\ closing \in Seq(Letters)
  <2>1. Spells(sp) /\ FrameIs(Top, sp) /\ before \in Seq(Letters)
    BY <1>1, <1>2, <1>3, <1>4, <1>5, FramesKnown
  <2>2. QED
    BY <1>6, <1>7, <2>1, AwaitingIs, Brackets
<1>9. text = before \o begun
  BY <1>1, <1>2, <1>3, <1>4, <1>5, <1>6 DEF Reads
<1>10. text' = before \o (begun \o closing)
  <2>1. closing = <<ahead>> /\ ahead \in Letters
    <3>1. ahead = Closer
      BY Zenon DEF Close
    <3>2. QED
      BY <1>7, <3>1, Zenon DEF Closer, Shutter, Letters, Tokens
  <2>2. text \in Seq(Letters)
    BY <1>8, <1>9, ConcatProperties
  <2>3. text' = text \o closing
    BY <1>1, <2>1, <2>2, TokenRead
  <2>4. (before \o begun) \o closing = before \o (begun \o closing)
    BY <1>8, ConcatAssociative
  <2>5. QED
    BY <1>9, <2>3, <2>4, Zenon
<1>11. PICK l \in 0 .. MaxDepth : l = m - 1
  BY <1>3
<1>12. Top.tree \in DOMAIN Inside(l) /\ Inside(l)[Top.tree] = begun \o closing
  <2>1. PICK k \in 1 .. MaxDepth : k = MaxDepth - l /\ k - 1 = MaxDepth - m
    BY <1>3, <1>11
  <2>2. sp = Spelling[k - 1] /\ Inside(l) = Spelling[k]
    BY <1>4, <2>1, Zenon DEF Inside
  <2>3. Top.tree \in Nodes(DOMAIN Spelling[k - 1])
    BY <1>8, <2>2 DEF FrameIs
  <2>4. /\ Top.tree \in DOMAIN Spelling[k]
        /\ Spelling[k][Top.tree] = (<<Opener(Top.tree.type)>> \o Items(Top.tree, Spelling[k - 1]))
                                      \o <<Shutter(Top.tree.type)>>
    BY <2>3, SpelledNode
  <2>5. QED
    BY <1>6, <1>7, <2>2, <2>4, Zenon DEF Begun
<1>13. Len(stack') = l /\ \A k \in 1 .. l : stack'[k] = stack[k]
  <2>1. stack \in Seq(ItemsOf(stack))
    BY DEF Inv, Types
  <2>2. QED
    BY <1>1, <1>3, <1>11, <2>1, Popped DEF Pop
<1>14. PICK d : Foretold(d, stack') /\ d[l] = c[l]
  <2>1. l \in Nat /\ l <= Len(stack) /\ Len(stack) \in Nat /\ l \in 0 .. l
    BY <1>3, <1>11
  <2>2. \E d : Foretold(d, stack') /\ \A k \in 0 .. l : d[k] = c[k]
    BY <1>2, <1>13, <2>1, StillForetold
  <2>3. QED
    BY <2>1, <2>2, Zenon
<1>15. Reads(d)'
  <2>1. text' = d[Len(stack')] \o Inside(Len(stack'))[ret'.tree]
    BY <1>1, <1>5, <1>10, <1>11, <1>12, <1>13, <1>14, Zenon
  <2>2. ret'.tree \in DOMAIN Inside(Len(stack'))
    BY <1>1, <1>12, <1>13, Zenon
  <2>3. QED
    BY <1>1, <2>1, <2>2 DEF Reads
<1>16. Foretold(d, stack)'
  BY <1>14 DEF Foretold
<1>17. QED
  BY <1>15, <1>16

(* It does not matter which parts are put together first ... *)
Together(a, b, r) == (a \o b) \o r = a \o (b \o r)

(* ... for three ... *)
LEMMA ThreeParts ==
  ASSUME NEW a \in Seq(Letters), NEW b \in Seq(Letters), NEW r \in Seq(Letters)
  PROVE  Together(a, b, r)
BY ConcatAssociative DEF Together

Regrouped(a, b, p, q, r) == (a \o ((b \o p) \o q)) \o r = a \o (b \o (p \o (q \o r)))

(* ... and for five. *)
LEMMA FiveParts ==
  ASSUME NEW a \in Seq(Letters), NEW b \in Seq(Letters), NEW p \in Seq(Letters), NEW q \in Seq(Letters),
         NEW r \in Seq(Letters)
  PROVE  Regrouped(a, b, p, q, r)
<1>1. PICK x \in Seq(Letters) : x = b \o p
  BY ConcatProperties
<1>2. PICK y \in Seq(Letters) : y = x \o q
  BY ConcatProperties
<1>3. PICK z \in Seq(Letters) : z = q \o r
  BY ConcatProperties
<1>4. Together(a, y, r) /\ Together(x, q, r) /\ Together(b, p, z)
  BY ThreeParts
<1>5. QED
  BY <1>1, <1>2, <1>3, <1>4, Zenon DEF Together, Regrouped

(* An element or member more, in its place and under its key. *)
LEMMA PushReads == ASSUME Inv, NestingBounded, Accounted, PushChild PROVE Accounted'
<1> SUFFICES ASSUME pc' \notin {"fail", "null", "freed"}
             PROVE  \E c : Foretold(c, stack)' /\ Reads(c)'
  BY DEF Accounted
<1> DEFINE tree == [Top.tree EXCEPT !.vals = Append(@, ret.tree), !.keys = Append(@, Top.key.name)]
<1>1. PICK own :
        Replace([tree |-> tree, own |-> own, key |-> NoKey])
  BY DEF PushChild
<1>2. PICK fr : fr = [tree |-> tree, own |-> own, key |-> NoKey]
  OBVIOUS
<1>3. fr.tree = tree /\ fr.key = NoKey /\ Replace(fr)
  BY <1>1, <1>2
<1>4. pc = "returned" /\ stack # << >> /\ UNCHANGED text /\ pc' = "sep"
  BY DEF PushChild, Stay
<1>5. PICK c : Foretold(c, stack) /\ Reads(c)
  BY <1>4 DEF Accounted
<1>6. PICK m \in 1 .. MaxDepth : m = Len(stack) /\ MaxDepth \in Nat
  <2>1. Len(stack) \in 0 .. MaxDepth /\ MaxDepth \in Nat /\ Len(stack) - 1 \in 0 .. MaxDepth
    BY <1>4, <1>5, FramesKnown
  <2>2. QED
    BY <2>1
<1>7. PICK sp : sp = Inside(m)
  OBVIOUS
<1>8. PICK before : before = c[m - 1]
  OBVIOUS
<1>9. PICK v : v = ret.tree
  OBVIOUS
<1>10. /\ Spells(sp) /\ FrameIs(Top, sp) /\ before \in Seq(Letters)
       /\ c[m] = before \o Awaiting(Top, sp)
  BY <1>4, <1>5, <1>6, <1>7, <1>8, FramesKnown
<1>11. v \in DOMAIN sp /\ text = c[m] \o sp[v]
  BY <1>4, <1>5, <1>6, <1>7, <1>9 DEF Reads
<1>12. /\ tree \in Branches(DOMAIN sp)
       /\ tree.type = Top.tree.type /\ tree.keys = Append(Top.tree.keys, Top.key.name)
       /\ tree.vals = Append(Top.tree.vals, v)
  <2>1. Top.tree \in Branches(DOMAIN sp)
    BY <1>10, NodeIs DEF FrameIs
  <2>2. Append(Top.tree.vals, v) \in Seq(DOMAIN sp)
    BY <1>11, <2>1, AppendProperties DEF Branches
  <2>3. Append(Top.tree.keys, Top.key.name) \in Seq(Strings \cup {Unnamed})
    BY <1>10, <2>1, AppendProperties DEF FrameIs, Branches
  <2>4. QED
    BY <1>9, <2>1, <2>2, <2>3 DEF Branches
<1> HIDE DEF tree
<1>13. /\ tree \in Nodes(DOMAIN sp)
       /\ Len(tree.vals) = Len(Top.tree.vals) + 1 /\ tree.keys[Len(Top.tree.vals) + 1] = Top.key.name
       /\ Items(tree, sp) = Items(Top.tree, sp) \o (Introduced(tree, Len(Top.tree.vals) + 1) \o sp[v])
  <2>1. IsLonger(tree, Top.tree, sp, v, Top.key.name)
    BY <1>12 DEF IsLonger
  <2>2. Top.tree \in Nodes(DOMAIN sp) /\ Top.key.name \in Strings \cup {Unnamed} /\ Spells(sp)
    BY <1>10 DEF FrameIs
  <2>3. Follows(tree, Top.tree, sp, v, Top.key.name)
    BY <1>11, <2>1, <2>2, ItemsGrow
  <2>4. QED
    BY <2>3 DEF Follows
<1>14. Len(Top.tree.vals) \in Nat
  BY <1>10, NodeIs DEF FrameIs
<1>15. Introduced(tree, Len(Top.tree.vals) + 1) = CommaOf(Top.tree) \o KeyOf(Top.tree, Top.key.name)
  <2>1. PICK n : n = Len(Top.tree.vals) + 1
    OBVIOUS
  <2>2. (n > 1) <=> (Len(Top.tree.vals) > 0)
    BY <1>14, <2>1
  <2>3. tree.keys[n] = Top.key.name /\ tree.type = Top.tree.type
    BY <1>12, <1>13, <2>1, Zenon
  <2>4. Introduced(tree, n) = CommaOf(Top.tree) \o KeyOf(Top.tree, Top.key.name)
    BY <2>2, <2>3, Zenon DEF Introduced, CommaOf, KeyOf
  <2>5. QED
    BY <2>1, <2>4, Zenon
<1>16. FrameIs(fr, sp) /\ fr.tree.type = Top.tree.type /\ Len(fr.tree.vals) > 0
  <2>1. fr.key.name = Unnamed
    BY <1>3, NoKeyIsUnnamed, Zenon
  <2>2. QED
    BY <1>3, <1>12, <1>13, <1>14, <2>1 DEF FrameIs
<1>17. text = before \o Begun(fr, sp)
  <2>1. PICK opening : opening = <<Opener(Top.tree.type)>>
    OBVIOUS
  <2>2. PICK items : items = Items(Top.tree, sp)
    OBVIOUS
  <2>3. PICK lead : lead = CommaOf(Top.tree) \o KeyOf(Top.tree, Top.key.name)
    OBVIOUS
  <2>4. PICK value : value = sp[v]
    OBVIOUS
  <2>5. opening \in Seq(Letters) /\ items \in Seq(Letters) /\ lead \in Seq(Letters) /\ value \in Seq(Letters)
    <3>1. opening \in Seq(Letters)
      BY <2>1, Brackets
    <3>2. items \in Seq(Letters)
      BY <1>10, <2>2, ItemsAreText DEF FrameIs
    <3>3. lead \in Seq(Letters)
      BY <1>10, <2>3, AwaitingIs, ConcatProperties
    <3>4. value \in Seq(Letters)
      BY <1>10, <1>11, <2>4 DEF Spells
    <3>5. QED
      BY <3>1, <3>2, <3>3, <3>4
  <2>6. Begun(fr, sp) = opening \o (items \o (lead \o value))
    BY <1>3, <1>13, <1>15, <1>16, <2>1, <2>2, <2>3, <2>4, Zenon DEF Begun
  <2>7. text = (before \o ((opening \o items) \o lead)) \o value
    BY <1>10, <1>11, <2>1, <2>2, <2>3, <2>4, Zenon DEF Begun, Awaiting
  <2>8. before \in Seq(Letters)
    BY <1>10
  <2>9. Regrouped(before, opening, items, lead, value)
    BY <2>5, <2>8, FiveParts
  <2>10. QED
    BY <2>6, <2>7, <2>9, Zenon DEF Regrouped
<1>18. /\ Len(stack') = m /\ stack'[m] = fr /\ \A k \in 1 .. m - 1 : stack'[k] = stack[k]
  BY <1>3, <1>4, <1>6, Replaced DEF Inv, Types
<1>19. PICK d : Foretold(d, stack') /\ d[m - 1] = c[m - 1]
  <2>1. PICK l \in Nat : l = m - 1
    OBVIOUS
  <2>2. l + 1 = m /\ l <= Len(stack) /\ Len(stack) \in Nat /\ l + 1 <= MaxDepth /\ l \in 0 .. l
    BY <1>6, <2>1
  <2>3. Len(stack') = l + 1 /\ FrameIs(stack'[l + 1], Inside(l + 1)) /\ \A k \in 1 .. l : stack'[k] = stack[k]
    BY <1>7, <1>16, <1>18, <2>1, <2>2, Zenon
  <2>4. \E d : Foretold(d, stack') /\ \A k \in 0 .. l : d[k] = c[k]
    BY <1>5, <2>2, <2>3, StillForetold
  <2>5. QED
    BY <2>1, <2>2, <2>4, Zenon
<1>20. Top' = fr /\ Len(stack') = m
  BY <1>18 DEF Top
<1>21. Reads(d)'
  <2>1. text' = d[Len(stack') - 1] \o Begun(Top', Inside(Len(stack')))
    BY <1>4, <1>7, <1>8, <1>17, <1>19, <1>20, Zenon
  <2>2. QED
    BY <1>4, <1>16, <1>20, <2>1 DEF Reads
<1>22. Foretold(d, stack)'
  BY <1>19 DEF Foretold
<1>23. QED
  BY <1>21, <1>22

(* The root is the whole text. *)
LEMMA RootReads == ASSUME Inv, NestingBounded, Accounted, ReturnRoot PROVE Accounted'
<1> SUFFICES ASSUME pc' \notin {"fail", "null", "freed"}
             PROVE  \E c : Foretold(c, stack)' /\ Reads(c)'
  BY DEF Accounted
<1>1. /\ pc = "returned" /\ stack = << >> /\ ahead = "end" /\ pc' = "done"
      /\ UNCHANGED <<text, ahead, stack, ret>>
  BY DEF ReturnRoot, Trailing, Stay
<1>2. PICK c : Foretold(c, stack) /\ Reads(c)
  BY <1>1 DEF Accounted
<1>3. PICK m \in Nat : m = Len(stack) /\ m = 0
  BY <1>1, EmptySeq
<1>4. c[m] = << >>
  BY <1>2, <1>3, Zenon DEF Foretold
<1>5. MaxDepth \in Nat /\ MaxDepth - m = MaxDepth /\ Spells(Inside(m))
  BY <1>3, AllSpell, JsonAssumption DEF Inside
<1>6. ret.tree \in DOMAIN Inside(m) /\ text = c[m] \o Inside(m)[ret.tree]
  BY <1>1, <1>2, <1>3 DEF Reads
<1>7. text = Inside(m)[ret.tree]
  <2>1. PICK whole : whole = Inside(m)[ret.tree]
    OBVIOUS
  <2>2. whole \in Seq(Letters)
    BY <1>5, <1>6, <2>1 DEF Spells
  <2>3. << >> \o whole = whole
    BY <2>2, ConcatEmptySeq
  <2>4. QED
    BY <1>4, <1>6, <2>1, <2>3, Zenon
<1>8. TreeIsText'
  BY <1>1, <1>5, <1>6, <1>7 DEF TreeIsText, Inside
<1>9. Reads(c)' /\ Foretold(c, stack)'
  BY <1>1, <1>2, <1>8 DEF Reads, Foretold
<1>10. QED
  BY <1>9

(* Every step keeps the frames true to the text. *)
LEMMA AccountedNext ==
  ASSUME Inv, NestingBounded, NestingBounded', Accounted, [Next]_vars PROVE Accounted'
<1>1. CASE NoValue \/ NoSeparator \/ Unwind \/ ReturnNull \/ FreeTree
  <2>1. pc' \in {"fail", "null", "freed"}
    BY <1>1, Zenon DEF NoValue, NoSeparator, Unwind, ReturnNull, FreeTree
  <2>2. QED
    BY <2>1 DEF Accounted
<1>2. CASE UNCHANGED vars
  BY <1>2 DEF vars, Accounted, Foretold, Reads, Top, TreeIsText
<1>3. QED
  BY <1>1, <1>2, ScalarReads, OpenReads, ElementReads, CloseReads, CommaReads, KeyReads, ColonReads,
     PushReads, RootReads DEF Next, Parse, Terminated

(* At first nothing has been read. *)
LEMMA InitAccounted == Init => Accounted
<1> SUFFICES ASSUME Init PROVE \E c : Foretold(c, stack) /\ Reads(c)
  BY DEF Accounted
<1>1. stack = << >> /\ text = << >> /\ pc = "value"
  BY DEF Init
<1>2. PICK c : c = [k \in 0 .. 0 |-> << >>]
  OBVIOUS
<1>3. Len(stack) = 0 /\ c[0] = << >> /\ << >> \in Seq(Letters)
  BY <1>1, <1>2, EmptySeq, Short
<1>4. (\A k \in 0 .. Len(stack) : k = 0) /\ (\A k \in 1 .. Len(stack) : FALSE)
  BY <1>3
<1>5. Foretold(c, stack)
  BY <1>3, <1>4, Zenon DEF Foretold
<1>6. Reads(c)
  BY <1>1, <1>3 DEF Reads
<1>7. QED
  BY <1>5, <1>6

(* A tree that json_parse returns is the whole text and nests no deeper    *)
(* than JSON_MAX_DEPTH: no element is lost, doubled or moved, every key    *)
(* stands by its own value and nothing trails, for texts of every length.  *)
THEOREM ParserReadsText == Spec => []TreeIsText
<1>1. Init => NestingBounded
  BY JsonAssumption, EmptySeq DEF Init, NestingBounded
<1>2. Inv /\ NestingBounded /\ [Next]_vars => NestingBounded'
  BY NestingNext
<1>3. Inv /\ NestingBounded /\ NestingBounded' /\ Accounted /\ [Next]_vars => Accounted'
  BY AccountedNext
<1>4. ASSUME Accounted PROVE TreeIsText
  <2>1. CASE pc = "done"
    BY <1>4, <2>1 DEF Accounted, Reads
  <2>2. CASE pc # "done"
    BY <2>2 DEF TreeIsText
  <2>3. QED
    BY <2>1, <2>2
<1>5. QED
  BY InitInv, NextInv, InitAccounted, <1>1, <1>2, <1>3, <1>4, PTL DEF Spec
=============================================================================
