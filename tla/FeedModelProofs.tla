-------------------------- MODULE FeedModelProofs ---------------------------
(* Which blocks a feed holds, for all documents of both interfaces and       *)
(* whichever copies fail; and which posts it has, for timelines of any       *)
(* length.                                                                   *)
EXTENDS MCFeedModel, SequenceTheorems, FiniteSetTheorems, WellFoundedInduction, TLAPS

ItemsOf(s) == {s[k] : k \in DOMAIN s}

(* The block of each string there is a copy of. *)
Texts == {String(p[1], p[2]) : p \in Strings}
PostsBlock == {b \in {Posts} : room > 0}

Types ==
  /\ pc \in {"parse", "feed", "posts", "items", "next", "done", "null", "freed"}
  /\ posts \in Seq(ItemsOf(posts))

(* Fields that are set only by the last steps. *)
Unset ==
  /\ pc \notin {"items", "next", "done"} => posts = << >>
  /\ pc # "done" => next = NoText
  /\ pc \in {"parse", "feed", "posts"} => room = 0
  /\ pc = "posts" => Count(Items) > 0
  /\ pc = "items" => room > 0

Holdings ==
  /\ pc \in {"parse", "null", "freed"} => heap = {}
  /\ pc = "feed" => heap = {Root}
  /\ pc = "posts" => heap = {Root, Feed}
  /\ pc \in {"items", "next"} => heap = {Root, Feed} \cup PostsBlock \cup Texts
  /\ pc = "done" => heap = {Feed} \cup PostsBlock \cup {b \in {NextId} : next # NoText} \cup Texts

Inv == Types /\ Unset /\ Holdings

-----------------------------------------------------------------------------
(* A sequence is one over its own elements. *)
LEMMA OverItsRange == ASSUME NEW S, NEW s \in Seq(S) PROVE s \in Seq(ItemsOf(s))
<1>1. Len(s) \in Nat /\ s \in [1 .. Len(s) -> S] /\ DOMAIN s = 1 .. Len(s)
  BY LenProperties
<1>2. s \in [1 .. Len(s) -> ItemsOf(s)]
  BY <1>1 DEF ItemsOf
<1>3. QED
  BY <1>1, <1>2

(* A post more: the others stay where they are. *)
LEMMA Pushed ==
  ASSUME NEW S, NEW s \in Seq(S), NEW post
  PROVE  /\ Append(s, post) \in Seq(ItemsOf(Append(s, post)))
         /\ Len(s) \in Nat /\ DOMAIN s = 1 .. Len(s)
         /\ Len(Append(s, post)) = Len(s) + 1
         /\ DOMAIN Append(s, post) = 1 .. Len(s) + 1
         /\ Append(s, post)[Len(s) + 1] = post
         /\ \A k \in 1 .. Len(s) : Append(s, post)[k] = s[k]
<1> DEFINE T == S \cup {post}
<1>1. s \in Seq(T) /\ post \in T
  BY SeqMonotonic
<1>2. /\ Append(s, post) \in Seq(T)
      /\ Len(Append(s, post)) = Len(s) + 1
      /\ \A k \in 1 .. Len(s) : Append(s, post)[k] = s[k]
      /\ Append(s, post)[Len(s) + 1] = post
  BY <1>1, AppendProperties
<1>3. QED
  BY <1>2, LenProperties, OverItsRange

(* Which strings there are, post by post and field by field. *)
LEMMA TextsOf ==
  ASSUME NEW ps, NEW fields, NEW b
  PROVE  b \in {String(p[1], p[2]) : p \in {q \in (DOMAIN ps) \X fields : ps[q[1]].text[q[2]] # NoText}}
           <=> \E k \in DOMAIN ps, f \in fields : b = String(k, f) /\ ps[k].text[f] # NoText
<1> DEFINE There == {q \in (DOMAIN ps) \X fields : ps[q[1]].text[q[2]] # NoText}
           Blocks == {String(p[1], p[2]) : p \in There}
<1>1. ASSUME NEW k \in DOMAIN ps, NEW f \in fields, ps[k].text[f] # NoText
      PROVE  String(k, f) \in Blocks
  <2>1. <<k, f>> \in There
    BY <1>1
  <2>2. String(<<k, f>>[1], <<k, f>>[2]) \in Blocks
    BY <2>1, Zenon
  <2>3. QED
    BY <2>2
<1>2. ASSUME b \in Blocks
      PROVE  \E k \in DOMAIN ps, f \in fields : b = String(k, f) /\ ps[k].text[f] # NoText
  <2>1. PICK p \in There : b = String(p[1], p[2])
    BY <1>2, Zenon
  <2>2. p[1] \in DOMAIN ps /\ p[2] \in fields /\ ps[p[1]].text[p[2]] # NoText
    OBVIOUS
  <2>3. QED
    BY <2>1, <2>2
<1>3. QED
  BY <1>1, <1>2

(* Of the posts there are. *)
LEMMA TextsByPost ==
  ASSUME NEW b
  PROVE  b \in Texts <=> \E k \in DOMAIN posts, f \in Fields : b = String(k, f) /\ posts[k].text[f] # NoText
BY TextsOf DEF Texts, Strings

(* No posts, no strings. *)
LEMMA NoTexts == posts = << >> => Texts = {}
<1> SUFFICES ASSUME posts = << >> PROVE Texts = {}
  OBVIOUS
<1>1. DOMAIN posts = {}
  BY EmptySeq
<1>2. QED
  BY <1>1, TextsByPost

(* Nor is there an array without items. *)
LEMMA NoPosts == room = 0 => PostsBlock = {}
BY DEF PostsBlock

(* Whichever interface the strings are of, they are freed by name. *)
LEMMA TextsAreFreed == Texts \subseteq Freed
<1>1. ASSUME NEW b \in Texts
      PROVE  b \in {String(k, f) : k \in DOMAIN posts, f \in Fields}
  <2>1. PICK k \in DOMAIN posts, f \in Fields : b = String(k, f)
    BY <1>1, TextsByPost
  <2>2. QED
    BY <2>1
<1>2. {String(k, f) : k \in DOMAIN posts, f \in Fields} \subseteq Freed
  BY DEF Freed, PrivateFeedFree, GraphFeedFree, Fields
<1>3. QED
  BY <1>1, <1>2

(* A string's block is none of the others. *)
LEMMA StringsAreApart ==
  /\ {Root, Feed, Posts, NextId} \cap Texts = {}
  /\ Root # Feed /\ Root # Posts /\ Root # NextId
<1>1. \A k, f : String(k, f) \notin {Root, Feed, Posts, NextId}
  BY DEF String, Root, Feed, Posts, NextId
<1>2. QED
  BY <1>1, TextsByPost DEF Root, Feed, Posts, NextId

(* Before the document there is nothing. *)
LEMMA InitInv == Init => Inv
BY EmptySeq DEF Init, Inv, Types, Unset, Holdings

(* A post is added with its strings. *)
LEMMA PostAdds ==
  ASSUME posts \in Seq(ItemsOf(posts)), NEW text, NEW slides, NEW lost,
         posts' = Append(posts, [text |-> text, slides |-> slides, lost |-> lost]), api' = api
  PROVE  /\ posts' \in Seq(ItemsOf(posts'))
         /\ Texts' = Texts \cup {String(Len(posts'), f) : f \in {g \in Fields : text[g] # NoText}}
<1> DEFINE m == Len(posts)
           post == [text |-> text, slides |-> slides, lost |-> lost]
<1>1. /\ posts' \in Seq(ItemsOf(posts')) /\ m \in Nat /\ DOMAIN posts = 1 .. m
      /\ Len(posts') = m + 1 /\ DOMAIN posts' = 1 .. m + 1
      /\ posts'[m + 1] = post
      /\ \A k \in 1 .. m : posts'[k] = posts[k]
  BY Pushed
<1>2. post.text = text /\ Fields' = Fields
  BY DEF Fields
<1> HIDE DEF m, post
<1>3. ASSUME NEW b
      PROVE  b \in Texts' <=> \E k \in 1 .. m + 1, f \in Fields : b = String(k, f) /\ posts'[k].text[f] # NoText
  <2>1. b \in Texts' <=> \E k \in DOMAIN posts', f \in Fields : b = String(k, f) /\ posts'[k].text[f] # NoText
    <3>1. PICK ps, fields : ps = posts' /\ fields = Fields
      OBVIOUS
    <3>2. Texts' = {String(p[1], p[2]) : p \in {q \in (DOMAIN ps) \X fields : ps[q[1]].text[q[2]] # NoText}}
      BY <1>2, <3>1 DEF Texts, Strings
    <3>3. b \in Texts' <=> \E k \in DOMAIN ps, f \in fields : b = String(k, f) /\ ps[k].text[f] # NoText
      BY <3>2, TextsOf
    <3>4. QED
      BY <3>1, <3>3
  <2>2. QED
    BY <1>1, <2>1
<1>4. \A k : k \in 1 .. m + 1 <=> k \in 1 .. m \/ k = m + 1
  BY <1>1
<1>5. ASSUME NEW b
      PROVE  b \in Texts' <=> b \in Texts \/ \E f \in Fields : b = String(m + 1, f) /\ text[f] # NoText
  <2>1. b \in Texts <=> \E k \in 1 .. m, f \in Fields : b = String(k, f) /\ posts[k].text[f] # NoText
    BY <1>1, TextsByPost
  <2>2. ASSUME NEW k \in 1 .. m
        PROVE  posts'[k] = posts[k] /\ k \in 1 .. m + 1
    BY <1>1, <1>4
  <2>3. m + 1 \in 1 .. m + 1 /\ posts'[m + 1].text = text
    BY <1>1, <1>2, <1>4
  <2>4. QED
    <3>1. ASSUME b \in Texts'
          PROVE  b \in Texts \/ \E f \in Fields : b = String(m + 1, f) /\ text[f] # NoText
      <4>1. PICK k \in 1 .. m + 1, f \in Fields : b = String(k, f) /\ posts'[k].text[f] # NoText
        BY <1>3, <3>1
      <4>2. QED
        BY <1>4, <2>1, <2>2, <2>3, <4>1
    <3>2. ASSUME b \in Texts
          PROVE  b \in Texts'
      <4>1. PICK k \in 1 .. m, f \in Fields : b = String(k, f) /\ posts[k].text[f] # NoText
        BY <2>1, <3>2
      <4>2. QED
        BY <1>3, <2>2, <4>1
    <3>3. ASSUME NEW f \in Fields, b = String(m + 1, f), text[f] # NoText
          PROVE  b \in Texts'
      BY <1>3, <2>3, <3>3
    <3>4. QED
      BY <3>1, <3>2, <3>3
<1>6. Texts' = Texts \cup {String(m + 1, f) : f \in {g \in Fields : text[g] # NoText}}
  BY <1>5
<1>7. QED
  BY <1>1, <1>6

-----------------------------------------------------------------------------
(* Every step keeps what the feed holds. *)
LEMMA NextInv == Inv /\ [Next]_vars => Inv'
<1> SUFFICES ASSUME Inv, [Next]_vars PROVE Inv'
  OBVIOUS
<1> USE DEF Inv, Types, Unset, Holdings
<1>1. CASE ParseRoot
  BY <1>1 DEF ParseRoot
<1>2. CASE AllocFeed
  <2>1. posts = << >> => Texts = {}
    BY NoTexts
  <2>2. UNCHANGED <<api, root, room, posts, next>>
    BY <1>2 DEF AllocFeed
  <2>3. Texts' = Texts /\ PostsBlock' = PostsBlock /\ Items' = Items
    BY <2>2 DEF Texts, Strings, Fields, PostsBlock, Items
  <2>4. CASE pc' = "posts"
    BY <1>2, <2>2, <2>3, <2>4 DEF AllocFeed
  <2>5. CASE pc' = "next"
    <3>1. heap' = {Root, Feed} /\ posts = << >> /\ next = NoText /\ room = 0
      BY <1>2, <2>5 DEF AllocFeed
    <3>2. Texts = {} /\ PostsBlock = {}
      BY <2>1, <3>1, NoPosts
    <3>3. QED
      BY <2>2, <2>3, <2>5, <3>1, <3>2
  <2>6. CASE pc' = "null"
    BY <1>2, <2>2, <2>6, StringsAreApart DEF AllocFeed
  <2>7. QED
    BY <1>2, <2>4, <2>5, <2>6 DEF AllocFeed
<1>3. CASE AllocPosts
  <2>1. posts = << >> => Texts = {}
    BY NoTexts
  <2>2. UNCHANGED <<api, root, posts, next>> /\ pc = "posts"
    BY <1>3 DEF AllocPosts
  <2>3. Texts' = Texts
    BY <2>2 DEF Texts, Strings, Fields
  <2>4. CASE pc' = "items"
    <3>1. room' > 0 /\ PostsBlock' = {Posts}
      BY <1>3, <2>2, <2>4 DEF AllocPosts, PostsBlock
    <3>2. QED
      BY <1>3, <2>1, <2>2, <2>3, <2>4, <3>1 DEF AllocPosts
  <2>5. CASE pc' = "null"
    BY <1>3, <2>2, <2>5 DEF AllocPosts
  <2>6. QED
    BY <1>3, <2>4, <2>5 DEF AllocPosts
<1>4. CASE NextItem
  <2>1. UNCHANGED <<api, root, room, next>> /\ pc = "items" /\ PostsBlock' = PostsBlock
    BY <1>4 DEF NextItem, PostsBlock
  <2>2. CASE UNCHANGED <<posts, heap>>
    <3>1. Texts' = Texts
      BY <2>1, <2>2 DEF Texts, Strings, Fields
    <3>2. pc' \in {"items", "next"}
      BY <1>4, <2>1 DEF NextItem
    <3>3. QED
      BY <2>1, <2>2, <3>1, <3>2
  <2>3. CASE \E text, slides, lost :
               /\ posts' = Append(posts, [text |-> text, slides |-> slides, lost |-> lost])
               /\ heap' = heap \cup {String(Len(posts'), f) : f \in {g \in Fields : text[g] # NoText}}
               /\ pc' = pc
    <3>1. posts' \in Seq(ItemsOf(posts')) /\ heap' = heap \cup Texts' /\ Texts \subseteq Texts'
      <4>1. PICK text, slides, lost :
               /\ posts' = Append(posts, [text |-> text, slides |-> slides, lost |-> lost])
               /\ heap' = heap \cup {String(Len(posts'), f) : f \in {g \in Fields : text[g] # NoText}}
        BY <2>3
      <4>2. /\ posts' \in Seq(ItemsOf(posts'))
            /\ Texts' = Texts \cup {String(Len(posts'), f) : f \in {g \in Fields : text[g] # NoText}}
        BY <2>1, <4>1, PostAdds
      <4>3. heap = {Root, Feed} \cup PostsBlock \cup Texts
        BY <2>1
      <4>4. QED
        BY <4>1, <4>2, <4>3
    <3>2. QED
      BY <2>1, <2>3, <3>1
  <2>4. QED
    BY <1>4, <2>2, <2>3 DEF NextItem
<1>5. CASE FinishFeed
  <2>1. Texts' = Texts /\ PostsBlock' = PostsBlock
    BY <1>5 DEF FinishFeed, Texts, Strings, Fields, PostsBlock
  <2>2. UNCHANGED <<posts, room>> /\ pc = "next" /\ pc' = "done"
    BY <1>5 DEF FinishFeed
  <2>3. heap \ {Root} = {Feed} \cup PostsBlock \cup Texts
    BY <2>2, StringsAreApart DEF PostsBlock
  <2>4. heap' = {Feed} \cup PostsBlock \cup {b \in {NextId} : next' # NoText} \cup Texts
    BY <1>5, <2>2, <2>3, StringsAreApart DEF FinishFeed
  <2>5. QED
    BY <2>1, <2>2, <2>4
<1>6. CASE FeedFree
  <2>1. heap = {Feed} \cup PostsBlock \cup {b \in {NextId} : next # NoText} \cup Texts
    BY <1>6 DEF FeedFree
  <2>2. heap \subseteq Freed
    BY <2>1, TextsAreFreed DEF Freed, PostsBlock
  <2>3. QED
    BY <1>6, <2>2, EmptySeq DEF FeedFree
<1>7. CASE UNCHANGED vars
  BY <1>7 DEF vars, Texts, Strings, Fields, PostsBlock, Items
<1>8. QED
  BY <1>1, <1>2, <1>3, <1>4, <1>5, <1>6, <1>7 DEF Next, Terminated

(* A feed holds exactly the blocks its fields point at and nothing of the  *)
(* document it was read from, whichever copies failed; no feed, and one    *)
(* that was freed, holds nothing.                                          *)
THEOREM FeedOwnsStrings == Spec => []FeedOwnsItsStrings
<1>1. Inv => FeedOwnsItsStrings
  BY DEF Inv, Holdings, Texts, PostsBlock, FeedOwnsItsStrings
<1>2. QED
  BY InitInv, NextInv, <1>1, PTL DEF Spec

-----------------------------------------------------------------------------
(* What is read of a document.                                               *)

Below == {ss \in Nat \X Nat : ss[1] < ss[2]}

(* A set of naturals has a least element. *)
LEMMA LeastNatural ==
  ASSUME NEW T, T \subseteq Nat, T # {}
  PROVE  \E m \in T : \A k \in T : m <= k
<1>1. IsWellFoundedOn(Below, Nat)
  BY NatLessThanWellFounded DEF OpToRel, Below
<1>2. PICK m \in T : \A k \in T : <<k, m>> \notin Below
  BY <1>1, WFMin
<1>3. ASSUME NEW k \in T PROVE m <= k
  <2>1. ~(k < m)
    BY <1>2 DEF Below
  <2>2. QED
    BY <2>1
<1>4. QED
  BY <1>2, <1>3

(* What is found where a set of positions says. *)
LEMMA LeastIs ==
  ASSUME NEW T, T \subseteq Nat, NEW m \in T, \A k \in T : m <= k
  PROVE  (CHOOSE l \in T : \A j \in T : l <= j) = m
<1>1. ASSUME NEW l \in T, \A j \in T : l <= j PROVE l = m
  <2>1. l <= m /\ m <= l /\ l \in Nat /\ m \in Nat
    BY <1>1
  <2>2. QED
    BY <2>1
<1>2. QED
  BY <1>1

(* A sequence is a function on 1 .. n for one n, its length. *)
LEMMA SequenceOf ==
  ASSUME NEW n \in Nat, NEW s, DOMAIN s = 1 .. n, s = [k \in 1 .. n |-> s[k]]
  PROVE  s \in Seq(ItemsOf(s)) /\ Len(s) = n
<1>1. s \in [1 .. n -> ItemsOf(s)]
  BY DEF ItemsOf
<1>2. s \in Seq(ItemsOf(s))
  BY <1>1, SeqDef
<1>3. Len(s) \in Nat /\ DOMAIN s = 1 .. Len(s)
  BY <1>2, LenProperties
<1>4. QED
  BY <1>2, <1>3

(* Two sequences in a row. *)
AreJoined(r, s, t, m, n) ==
  /\ DOMAIN s = 1 .. m /\ DOMAIN t = 1 .. n
  /\ Len(r) = m + n
  /\ DOMAIN r = 1 .. m + n
  /\ \A k \in 1 .. m : r[k] = s[k]
  /\ \A k \in 1 .. n : r[m + k] = t[k]

LEMMA Joined ==
  ASSUME NEW S, NEW s \in Seq(S), NEW T, NEW t \in Seq(T),
         NEW m, Len(s) = m, NEW n, Len(t) = n
  PROVE  s \o t \in Seq(S \cup T) /\ AreJoined(s \o t, s, t, m, n)
<1>1. s \in Seq(S \cup T) /\ t \in Seq(S \cup T)
  BY SeqMonotonic
<1>2. /\ s \o t \in Seq(S \cup T)
      /\ m \in Nat /\ n \in Nat /\ DOMAIN s = 1 .. m /\ DOMAIN t = 1 .. n
      /\ Len(s \o t) = m + n
      /\ DOMAIN (s \o t) = 1 .. Len(s \o t)
  BY <1>1, LenProperties, ConcatProperties
<1>3. ASSUME NEW k \in 1 .. m
      PROVE  (s \o t)[k] = s[k]
  BY <1>1, <1>2, ConcatProperties
<1>4. ASSUME NEW k \in 1 .. n
      PROVE  (s \o t)[m + k] = t[k]
  <2>1. m + k \in 1 .. m + n /\ m + k > m /\ (m + k) - m = k
    BY <1>2
  <2>2. QED
    BY <1>1, <2>1, ConcatProperties
<1>5. QED
  BY <1>2, <1>3, <1>4 DEF AreJoined

(* An object has a name for each of its members. *)
IsObject(o) ==
  /\ o.type = "obj"
  /\ \E S : o.keys \in Seq(S)
  /\ \E S : o.vals \in Seq(S)
  /\ Len(o.keys) = Len(o.vals)
Has(o, key) == \E k \in DOMAIN o.vals : o.keys[k] = key

Places(o, key) == {k \in DOMAIN o.vals : o.type = "obj" /\ o.keys[k] = key}

(* A member that is there is the first of its name; one that is not reads  *)
(* as null.                                                                *)
LEMMA GetFirst ==
  ASSUME NEW o, NEW key, NEW n \in Nat, DOMAIN o.vals = 1 .. n, o.type = "obj",
         NEW k \in 1 .. n, o.keys[k] = key,
         \A j \in 1 .. n : j < k => o.keys[j] # key
  PROVE  Get(o, key) = o.vals[k]
<1> DEFINE T == Places(o, key)
<1>1. T \subseteq Nat /\ k \in T /\ \A j \in T : k <= j
  BY DEF Places
<1>2. T # {} /\ (CHOOSE l \in T : \A j \in T : l <= j) = k
  <2> HIDE DEF T
  <2>1. QED
    BY <1>1, LeastIs
<1>3. QED
  BY <1>2 DEF Get, Places

LEMMA GetNone ==
  ASSUME NEW o, NEW key, o.type = "obj", ~Has(o, key)
  PROVE  Get(o, key) = Null
BY DEF Get, Has

(* Of two objects put together, what the first has is found there. *)
LEMMA GetWith ==
  ASSUME NEW a, IsObject(a), NEW b, IsObject(b)
  PROVE  /\ IsObject(With(a, b))
         /\ \A key : Get(With(a, b), key) = IF Has(a, key) THEN Get(a, key) ELSE Get(b, key)
<1> DEFINE o == With(a, b)
<1>1. PICK Ka, Va, Kb, Vb : /\ a.keys \in Seq(Ka) /\ a.vals \in Seq(Va)
                            /\ b.keys \in Seq(Kb) /\ b.vals \in Seq(Vb)
  BY DEF IsObject
<1>2. o.type = "obj" /\ o.keys = a.keys \o b.keys /\ o.vals = a.vals \o b.vals
  BY DEF With, Object
<1>3. PICK m \in Nat, n \in Nat : m = Len(a.keys) /\ n = Len(b.keys)
  BY <1>1, LenProperties
<1>4. Len(a.vals) = m /\ Len(b.vals) = n /\ a.type = "obj" /\ b.type = "obj"
  BY <1>3 DEF IsObject
<1> HIDE DEF o
<1>5. /\ o.keys \in Seq(Ka \cup Kb) /\ Len(o.keys) = m + n
      /\ \A k \in 1 .. m : o.keys[k] = a.keys[k]
      /\ \A k \in 1 .. n : o.keys[m + k] = b.keys[k]
  <2>1. PICK s, t : s = a.keys /\ t = b.keys
    OBVIOUS
  <2>2. s \in Seq(Ka) /\ t \in Seq(Kb) /\ Len(s) = m /\ Len(t) = n /\ o.keys = s \o t
    BY <1>1, <1>2, <1>3, <2>1
  <2>3. s \o t \in Seq(Ka \cup Kb) /\ AreJoined(s \o t, s, t, m, n)
    BY <2>2, Joined
  <2>4. QED
    BY <2>1, <2>2, <2>3 DEF AreJoined
<1>6. /\ o.vals \in Seq(Va \cup Vb) /\ Len(o.vals) = m + n
      /\ DOMAIN a.vals = 1 .. m /\ DOMAIN b.vals = 1 .. n /\ DOMAIN o.vals = 1 .. m + n
      /\ \A k \in 1 .. m : o.vals[k] = a.vals[k]
      /\ \A k \in 1 .. n : o.vals[m + k] = b.vals[k]
  <2>1. PICK s, t : s = a.vals /\ t = b.vals
    OBVIOUS
  <2>2. s \in Seq(Va) /\ t \in Seq(Vb) /\ Len(s) = m /\ Len(t) = n /\ o.vals = s \o t
    BY <1>1, <1>2, <1>4, <2>1
  <2>3. s \o t \in Seq(Va \cup Vb) /\ AreJoined(s \o t, s, t, m, n)
    BY <2>2, Joined
  <2>4. QED
    BY <2>1, <2>2, <2>3 DEF AreJoined
<1>7. IsObject(o)
  BY <1>2, <1>5, <1>6 DEF IsObject
<1>8. ASSUME NEW key
      PROVE  Get(o, key) = IF Has(a, key) THEN Get(a, key) ELSE Get(b, key)
  <2>1. CASE Has(a, key)
    <3> DEFINE T == {k \in 1 .. m : a.keys[k] = key}
    <3>1. T \subseteq Nat /\ T # {}
      BY <1>6, <2>1 DEF Has
    <3>2. PICK k \in T : \A j \in T : k <= j
      <4> HIDE DEF T
      <4>1. QED
        BY <3>1, LeastNatural
    <3>3. k \in 1 .. m /\ a.keys[k] = key /\ \A j \in 1 .. m : j < k => a.keys[j] # key
      BY <3>2
    <3>4. Get(a, key) = a.vals[k]
      BY <1>4, <1>6, <3>3, GetFirst
    <3>5. /\ k \in 1 .. m + n /\ o.keys[k] = key
          /\ \A j \in 1 .. m + n : j < k => o.keys[j] # key
      BY <1>5, <3>3
    <3>6. m + n \in Nat
      OBVIOUS
    <3>7. Get(o, key) = o.vals[k]
      BY <1>2, <1>6, <3>5, <3>6, GetFirst
    <3>8. QED
      BY <1>6, <2>1, <3>3, <3>4, <3>7
  <2>2. CASE ~Has(a, key) /\ Has(b, key)
    <3> DEFINE T == {k \in 1 .. n : b.keys[k] = key}
    <3>1. T \subseteq Nat /\ T # {}
      BY <1>6, <2>2 DEF Has
    <3>2. PICK k \in T : \A j \in T : k <= j
      <4> HIDE DEF T
      <4>1. QED
        BY <3>1, LeastNatural
    <3>3. k \in 1 .. n /\ b.keys[k] = key /\ \A j \in 1 .. n : j < k => b.keys[j] # key
      BY <3>2
    <3>4. Get(b, key) = b.vals[k]
      BY <1>4, <1>6, <3>3, GetFirst
    <3>5. m + k \in 1 .. m + n /\ o.keys[m + k] = key
      <4>1. m + k \in 1 .. m + n
        BY <3>3
      <4>2. o.keys[m + k] = b.keys[k]
        BY <1>5, <3>3
      <4>3. QED
        BY <3>3, <4>1, <4>2
    <3>6. ASSUME NEW j \in 1 .. m + n, j < m + k
          PROVE  o.keys[j] # key
      <4>1. CASE j <= m
        <5>1. j \in 1 .. m
          BY <4>1
        <5>2. QED
          BY <1>5, <1>6, <2>2, <5>1 DEF Has
      <4>2. CASE j > m
        <5>1. j - m \in 1 .. n /\ j - m < k /\ m + (j - m) = j
          BY <3>3, <3>6, <4>2
        <5>2. QED
          BY <1>5, <3>3, <5>1
      <4>3. QED
        BY <4>1, <4>2
    <3>7. m + n \in Nat
      OBVIOUS
    <3>8. Get(o, key) = o.vals[m + k]
      BY <1>2, <1>6, <3>5, <3>6, <3>7, GetFirst
    <3>9. QED
      BY <1>6, <2>2, <3>3, <3>4, <3>8
  <2>3. CASE ~Has(a, key) /\ ~Has(b, key)
    <3>1. ASSUME NEW j \in 1 .. m + n
          PROVE  o.keys[j] # key
      <4>1. CASE j <= m
        <5>1. j \in 1 .. m
          BY <4>1
        <5>2. QED
          BY <1>5, <1>6, <2>3, <5>1 DEF Has
      <4>2. CASE j > m
        <5>1. PICK k \in 1 .. n : m + k = j
          <6>1. j - m \in 1 .. n /\ m + (j - m) = j
            BY <3>1, <4>2
          <6>2. QED
            BY <6>1
        <5>2. o.keys[j] = b.keys[k] /\ k \in DOMAIN b.vals
          BY <1>5, <1>6, <5>1
        <5>3. QED
          BY <2>3, <5>2 DEF Has
      <4>3. QED
        BY <4>1, <4>2
    <3>2. ~Has(o, key)
      BY <1>6, <3>1 DEF Has
    <3>3. Get(o, key) = Null /\ Get(b, key) = Null
      BY <1>2, <1>4, <2>3, <3>2, GetNone
    <3>4. QED
      BY <2>3, <3>3
  <2>4. QED
    BY <2>1, <2>2, <2>3
<1>9. QED
  BY <1>7, <1>8 DEF o

(* Null is no object, and nothing but null is like it. *)
LEMMA NullIs ==
  /\ Null.type = "null" /\ Len(Null.vals) = 0
  /\ \A o : o.type # "null" => o # Null
  /\ \A o, key : o.type # "obj" => Get(o, key) = Null
<1>1. << >> \in Seq({}) /\ Len(<< >>) = 0
  BY EmptySeq
<1>2. Null.type = "null" /\ Null.vals = << >>
  BY DEF Null, Value
<1>3. ASSUME NEW o, NEW key, o.type # "obj"
      PROVE  Get(o, key) = Null
  BY <1>3 DEF Get
<1>4. QED
  BY <1>1, <1>2, <1>3

(* A string is read as it was put there, a missing one as none. *)
LEMMA StrIs == \A s : Text(Str(s)) = s /\ (Str(s) = Null <=> s = NoText)
<1>1. ASSUME NEW s
      PROVE  Text(Str(s)) = s /\ (Str(s) = Null <=> s = NoText)
  <2>1. Value("str", s).type = "str" /\ Value("str", s).data = s
    BY DEF Value
  <2>2. Null.type = "null"
    BY NullIs
  <2>3. CASE s = NoText
    BY <2>2, <2>3 DEF Str, Text
  <2>4. CASE s # NoText
    BY <2>1, <2>2, <2>4 DEF Str, Text
  <2>5. QED
    BY <2>3, <2>4
<1>2. QED
  BY <1>1

(* An object of one member, or of none when the member is null. *)
LEMMA MemberIs ==
  ASSUME NEW name, NEW v
  PROVE  /\ IsObject(Member(name, v))
         /\ \A key : Has(Member(name, v), key) <=> key = name /\ v # Null
         /\ Get(Member(name, v), name) = v
<1> DEFINE o == Member(name, v)
<1>1. CASE v = Null
  <2>1. o.type = "obj" /\ o.keys = << >> /\ o.vals = << >>
    BY <1>1 DEF Member, Object
  <2>2. DOMAIN o.vals = {} /\ IsObject(o)
    BY <2>1, EmptySeq DEF IsObject
  <2>3. \A key : ~Has(o, key)
    BY <2>2 DEF Has
  <2>4. Get(o, name) = Null
    BY <2>1, <2>3, GetNone
  <2>5. QED
    BY <1>1, <2>2, <2>3, <2>4
<1>2. CASE v # Null
  <2>1. o.type = "obj" /\ o.keys = <<name>> /\ o.vals = <<v>>
    BY <1>2 DEF Member, Object
  <2>2. /\ <<name>> \in Seq({name}) /\ <<v>> \in Seq({v})
        /\ Len(<<name>>) = 1 /\ Len(<<v>>) = 1 /\ DOMAIN <<v>> = 1 .. 1 /\ <<name>>[1] = name /\ <<v>>[1] = v
    OBVIOUS
  <2>3. IsObject(o) /\ DOMAIN o.vals = 1 .. 1 /\ o.keys[1] = name /\ o.vals[1] = v
    BY <2>1, <2>2 DEF IsObject
  <2>4. \A key : Has(o, key) <=> key = name
    BY <2>3 DEF Has
  <2>5. Get(o, name) = v
    <3> HIDE DEF o
    <3>1. 1 \in Nat /\ 1 \in 1 .. 1 /\ \A j \in 1 .. 1 : j < 1 => o.keys[j] # name
      OBVIOUS
    <3>2. Get(o, name) = o.vals[1]
      BY <2>1, <2>3, <3>1, GetFirst
    <3>3. QED
      BY <2>3, <3>2
  <2>6. QED
    BY <1>2, <2>3, <2>4, <2>5
<1>3. QED
  BY <1>1, <1>2

(* What an object with one more member before its own is read as. *)
LEMMA Lookup ==
  ASSUME NEW name, NEW v, NEW b, IsObject(b)
  PROVE  /\ IsObject(With(Member(name, v), b))
         /\ Get(With(Member(name, v), b), name) = IF v # Null THEN v ELSE Get(b, name)
         /\ \A key : key # name => Get(With(Member(name, v), b), key) = Get(b, key)
BY MemberIs, GetWith

(* A member of another name is not there. *)
LEMMA NoMember ==
  ASSUME NEW name, NEW v, NEW key, key # name
  PROVE  Get(Member(name, v), key) = Null
<1>1. Member(name, v).type = "obj" /\ ~Has(Member(name, v), key)
  BY MemberIs DEF IsObject
<1>2. QED
  BY <1>1, GetNone

(* The elements of an array. *)
LEMMA ArrayIs ==
  ASSUME NEW n \in Nat, NEW s, DOMAIN s = 1 .. n, s = [k \in 1 .. n |-> s[k]]
  PROVE  /\ Array(s) # Null /\ Count(Array(s)) = n
         /\ \A j \in 0 .. n - 1 : At(Array(s), j) = s[j + 1]
<1>1. Len(s) = n
  BY SequenceOf
<1>2. Array(s).type = "arr" /\ Array(s).vals = s
  BY DEF Array
<1>3. Array(s) # Null
  BY <1>2, NullIs
<1>4. QED
  BY <1>1, <1>2, <1>3 DEF Count, At

-----------------------------------------------------------------------------
(* The documents of timelines.                                               *)

(* The first picture of a node. *)
LEMMA PicturesRead ==
  ASSUME NEW node, NEW url, Get(node, "image_versions2") = Get(Pictures(url), "image_versions2")
  PROVE  FirstImageUrl(node) = url
<1> DEFINE first == Member("url", Str(url))
           candidates == <<first, Member("url", Str("big"))>>
<1>1. Get(node, "image_versions2") = Member("candidates", Array(candidates))
  BY MemberIs DEF Pictures
<1>2. Get(Get(node, "image_versions2"), "candidates") = Array(candidates)
  BY <1>1, MemberIs
<1>3. DOMAIN candidates = 1 .. 2 /\ candidates = [k \in 1 .. 2 |-> candidates[k]] /\ candidates[1] = first
  OBVIOUS
<1>4. At(Array(candidates), 0) = first
  <2> HIDE DEF candidates, first
  <2>1. 2 \in Nat /\ 0 \in 0 .. 2 - 1 /\ 0 + 1 = 1
    OBVIOUS
  <2>2. QED
    BY <1>3, <2>1, ArrayIs
<1>5. Text(Get(first, "url")) = url
  BY MemberIs, StrIs
<1>6. QED
  BY <1>2, <1>4, <1>5 DEF FirstImageUrl

(* The slides of a post are a sequence. *)
LEMMA SlidesAre ==
  ASSUME NEW item \in PostedItems
  PROVE  /\ Len(item.slides) \in Nat /\ DOMAIN item.slides = 1 .. Len(item.slides)
         /\ item.slides # << >> => Len(item.slides) > 0
<1>1. item.slides \in {<< >>, <<NoText>>, <<"s1", "s2">>}
  BY DEF PostedItems
<1>2. CASE item.slides = << >>
  <2>1. << >> \in Seq(STRING) /\ Len(<< >>) = 0 /\ DOMAIN << >> = 1 .. 0
    BY EmptySeq, LenProperties
  <2>2. QED
    BY <1>2, <2>1
<1>3. CASE item.slides = <<NoText>>
  <2>1. Len(<<NoText>>) = 1 /\ DOMAIN <<NoText>> = 1 .. 1
    OBVIOUS
  <2>2. Len(item.slides) = 1 /\ DOMAIN item.slides = 1 .. 1
    BY <1>3, <2>1, Zenon
  <2>3. QED
    BY <2>2
<1>4. CASE item.slides = <<"s1", "s2">>
  <2>1. Len(<<"s1", "s2">>) = 2 /\ DOMAIN <<"s1", "s2">> = 1 .. 2
    OBVIOUS
  <2>2. QED
    BY <1>4, <2>1
<1>5. QED
  BY <1>1, <1>2, <1>3, <1>4

(* What a post of the private API is read as. *)
FirstPicture(item) == IF item.slides = << >> THEN item.image_url ELSE item.slides[1]

LEMMA PostReads ==
  ASSUME NEW item \in PostedItems
  PROVE  /\ MediaOf(item).type = "obj"
         /\ PrivatePost(MediaOf(item)) =
              [username |-> <<item.username>>, caption |-> <<"c1">>, image_url |-> <<FirstPicture(item)>>]
         /\ Count(Get(MediaOf(item), "carousel_media")) = Len(item.slides)
<1> DEFINE slides == [k \in DOMAIN item.slides |-> Pictures(item.slides[k])]
           carousel == IF item.slides = << >> THEN Member("", Null)
                       ELSE Member("carousel_media", Array(slides))
           shown == With(Pictures(item.image_url), carousel)
           told == With(Member("caption", Member("text", Str("c1"))), shown)
           m == With(Member("user", Member("username", Str(item.username))), told)
<1>1. m = MediaOf(item)
  BY DEF MediaOf
<1>2. \A name, v : Member(name, v).type = "obj" /\ Member(name, v) # Null
  BY MemberIs, NullIs DEF IsObject
<1>3. Len(item.slides) \in Nat /\ DOMAIN item.slides = 1 .. Len(item.slides)
      /\ (item.slides # << >> => Len(item.slides) > 0)
  BY SlidesAre
<1>4. IsObject(carousel)
  BY MemberIs
<1>5. PICK pics : Pictures(item.image_url) = Member("image_versions2", pics) /\ pics # Null
  BY <1>2 DEF Pictures
<1> HIDE DEF carousel
<1>6. /\ IsObject(shown)
      /\ Get(shown, "image_versions2") = Get(Pictures(item.image_url), "image_versions2")
      /\ \A key : key # "image_versions2" => Get(shown, key) = Get(carousel, key)
  BY <1>4, <1>5, Lookup, MemberIs
<1> HIDE DEF shown
<1>7. /\ IsObject(told)
      /\ Get(told, "caption") = Member("text", Str("c1"))
      /\ \A key : key # "caption" => Get(told, key) = Get(shown, key)
  BY <1>2, <1>6, Lookup
<1> HIDE DEF told
<1>8. /\ IsObject(m)
      /\ Get(m, "user") = Member("username", Str(item.username))
      /\ \A key : key # "user" => Get(m, key) = Get(told, key)
  BY <1>2, <1>7, Lookup
<1> HIDE DEF m
<1>9. /\ Get(m, "caption") = Member("text", Str("c1"))
      /\ Get(m, "image_versions2") = Get(Pictures(item.image_url), "image_versions2")
      /\ Get(m, "carousel_media") = Get(carousel, "carousel_media")
  <2>1. /\ "caption" # "user" /\ "image_versions2" # "user" /\ "carousel_media" # "user"
        /\ "image_versions2" # "caption" /\ "carousel_media" # "caption"
        /\ "carousel_media" # "image_versions2"
    OBVIOUS
  <2>2. Get(m, "caption") = Get(told, "caption")
    BY <1>8, <2>1, Zenon
  <2>3. Get(m, "image_versions2") = Get(shown, "image_versions2")
    BY <1>7, <1>8, <2>1, Zenon
  <2>4. Get(m, "carousel_media") = Get(carousel, "carousel_media")
    BY <1>6, <1>7, <1>8, <2>1, Zenon
  <2>5. QED
    BY <1>6, <1>7, <2>2, <2>3, <2>4
<1>10. Get(carousel, "carousel_media") = IF item.slides = << >> THEN Null ELSE Array(slides)
  <2>1. CASE item.slides = << >>
    <3>1. "carousel_media" # "" /\ carousel = Member("", Null)
      BY <2>1 DEF carousel
    <3>2. QED
      BY <2>1, <3>1, NoMember
  <2>2. CASE item.slides # << >>
    <3>1. carousel = Member("carousel_media", Array(slides))
      BY <2>2 DEF carousel
    <3>2. QED
      BY <2>2, <3>1, MemberIs
  <2>3. QED
    BY <2>1, <2>2
<1>11. /\ m.type = "obj"
       /\ Text(Get(Get(m, "user"), "username")) = item.username
       /\ Text(Get(Get(m, "caption"), "text")) = "c1"
  <2>1. Get(Get(m, "user"), "username") = Str(item.username) /\ Get(Get(m, "caption"), "text") = Str("c1")
    BY <1>8, <1>9, MemberIs
  <2>2. QED
    BY <1>8, <2>1, StrIs DEF IsObject
<1>12. ASSUME NEW pic, FirstImageUrl(IF Count(Get(m, "carousel_media")) > 0
                                     THEN At(Get(m, "carousel_media"), 0) ELSE m) = pic
       PROVE  PrivatePost(m) = [username |-> <<item.username>>, caption |-> <<"c1">>, image_url |-> <<pic>>]
  BY <1>11, <1>12 DEF PrivatePost
<1>13. CASE item.slides = << >>
  <2>1. Get(m, "carousel_media") = Null /\ Count(Null) = 0 /\ Len(item.slides) = 0
    BY <1>9, <1>10, <1>13, NullIs, EmptySeq DEF Count
  <2>2. FirstImageUrl(m) = item.image_url
    BY <1>9, PicturesRead
  <2>3. FirstPicture(item) = item.image_url /\ ~(Count(Get(m, "carousel_media")) > 0)
    BY <1>13, <2>1 DEF FirstPicture
  <2>4. QED
    BY <1>1, <1>11, <1>12, <2>1, <2>2, <2>3
<1>14. CASE item.slides # << >>
  <2>1. /\ DOMAIN slides = 1 .. Len(item.slides)
        /\ slides = [k \in 1 .. Len(item.slides) |-> slides[k]]
        /\ slides[1] = Pictures(item.slides[1])
    BY <1>3, <1>14
  <2>2. Get(m, "carousel_media") = Array(slides)
    BY <1>9, <1>10, <1>14
  <2>3. Count(Array(slides)) = Len(item.slides) /\ At(Array(slides), 0) = slides[1]
    <3> HIDE DEF slides
    <3>1. PICK n \in Nat : n = Len(item.slides)
      BY <1>3
    <3>2. 0 \in 0 .. n - 1 /\ 0 + 1 = 1
      BY <1>3, <1>14, <3>1
    <3>3. QED
      BY <2>1, <3>1, <3>2, ArrayIs
  <2>4. FirstImageUrl(At(Array(slides), 0)) = item.slides[1]
    BY <2>1, <2>3, PicturesRead
  <2>5. QED
    <3> HIDE DEF slides
    <3>1. Count(Get(m, "carousel_media")) = Len(item.slides) /\ Len(item.slides) > 0
      BY <1>3, <1>14, <2>2, <2>3
    <3>2. FirstPicture(item) = item.slides[1]
      BY <1>14 DEF FirstPicture
    <3>3. QED
      BY <1>1, <1>11, <1>12, <2>2, <2>4, <3>1, <3>2
<1>15. QED
  BY <1>13, <1>14

(* An item of the private API has media if it is a post. *)
LEMMA PrivateItemReads ==
  ASSUME NEW item \in Injections \cup PostedItems
  PROVE  /\ Get(ItemOf(item), "media_or_ad").type = "obj" <=> IsPost(item)
         /\ IsPost(item) => item \in PostedItems /\ Get(ItemOf(item), "media_or_ad") = MediaOf(item)
<1>1. CASE item \in Injections
  <2>1. item.kind \in {"injection", "null"} /\ ~IsPost(item)
    BY <1>1 DEF Injections, IsPost
  <2>2. CASE item.kind = "injection"
    <3>1. ItemOf(item) = Member("stories", Array(<< >>))
      BY <2>2 DEF ItemOf
    <3>2. Get(ItemOf(item), "media_or_ad") = Null
      BY <3>1, NoMember
    <3>3. QED
      BY <2>1, <3>2, NullIs
  <2>3. CASE item.kind = "null"
    <3>1. ItemOf(item) = Object(<<"media_or_ad">>, <<Null>>)
      BY <2>3 DEF ItemOf
    <3>2. ItemOf(item).type = "obj" /\ ItemOf(item).keys = <<"media_or_ad">> /\ ItemOf(item).vals = <<Null>>
      <4>1. PICK ks, vs : ks = <<"media_or_ad">> /\ vs = <<Null>>
        OBVIOUS
      <4>2. ItemOf(item) = Object(ks, vs)
        BY <3>1, <4>1
      <4>3. Object(ks, vs).type = "obj" /\ Object(ks, vs).keys = ks /\ Object(ks, vs).vals = vs
        BY DEF Object
      <4>4. QED
        BY <4>1, <4>2, <4>3, Zenon
    <3>3. DOMAIN <<Null>> = 1 .. 1 /\ <<Null>>[1] = Null /\ <<"media_or_ad">>[1] = "media_or_ad"
          /\ 1 \in 1 .. 1 /\ \A j \in 1 .. 1 : ~(j < 1)
      OBVIOUS
    <3>4. Get(ItemOf(item), "media_or_ad") = Null
      <4>1. PICK o : o = ItemOf(item)
        OBVIOUS
      <4>2. /\ o.type = "obj" /\ DOMAIN o.vals = 1 .. 1 /\ o.vals[1] = Null
            /\ o.keys[1] = "media_or_ad" /\ \A j \in 1 .. 1 : j < 1 => o.keys[j] # "media_or_ad"
        BY <3>2, <3>3, <4>1
      <4>3. 1 \in Nat /\ 1 \in 1 .. 1
        OBVIOUS
      <4>4. Get(o, "media_or_ad") = o.vals[1]
        BY <4>2, <4>3, GetFirst
      <4>5. QED
        BY <4>1, <4>2, <4>4
    <3>5. QED
      BY <2>1, <3>4, NullIs
  <2>4. QED
    BY <2>1, <2>2, <2>3
<1>2. CASE item \in PostedItems
  <2>1. item.kind = "post" /\ IsPost(item)
    BY <1>2 DEF PostedItems, IsPost
  <2>2. ItemOf(item) = Member("media_or_ad", MediaOf(item))
    BY <2>1 DEF ItemOf
  <2>3. QED
    BY <1>2, <2>1, <2>2, MemberIs, PostReads
<1>3. QED
  BY <1>1, <1>2

(* An object whose members are each named like what they say. *)
NamedAfter(o, names) ==
  /\ IsObject(o)
  /\ \A key : Has(o, key) <=> key \in names
  /\ \A key \in names : Text(Get(o, key)) = key

LEMMA NamedIs ==
  ASSUME NEW n \in Nat, NEW S, NEW keys \in Seq(S), Len(keys) = n
  PROVE  NamedAfter(Named(keys), ItemsOf(keys))
<1> DEFINE vals == [k \in DOMAIN keys |-> Value("str", keys[k])]
           o == Object(keys, vals)
<1>3. DOMAIN keys = 1 .. n
  BY LenProperties
<1>1. DOMAIN vals = 1 .. n /\ \A k \in 1 .. n : vals[k] = Value("str", keys[k])
  BY <1>3
<1>2. vals \in Seq(ItemsOf(vals)) /\ Len(vals) = n
  <2>1. vals = [k \in 1 .. n |-> vals[k]]
    BY <1>1
  <2> HIDE DEF vals
  <2>2. QED
    BY <1>1, <2>1, SequenceOf
<1> HIDE DEF vals
<1>4. o.type = "obj" /\ o.keys = keys /\ o.vals = vals
  BY DEF Object
<1>5. IsObject(o)
  BY <1>2, <1>4 DEF IsObject
<1>6. \A key : Has(o, key) <=> key \in ItemsOf(keys)
  BY <1>1, <1>3, <1>4 DEF Has, ItemsOf
<1>7. ASSUME NEW key \in ItemsOf(keys)
      PROVE  Text(Get(o, key)) = key
  <2> DEFINE T == {k \in 1 .. n : keys[k] = key}
  <2>1. T \subseteq Nat /\ T # {}
    BY <1>3, <1>7 DEF ItemsOf
  <2>2. PICK k \in T : \A j \in T : k <= j
    <3> HIDE DEF T
    <3>1. QED
      BY <2>1, LeastNatural
  <2>3. k \in 1 .. n /\ keys[k] = key /\ \A j \in 1 .. n : j < k => keys[j] # key
    BY <2>2
  <2>4. Get(o, key) = vals[k]
    <3>1. PICK obj : obj = o
      OBVIOUS
    <3>2. /\ obj.type = "obj" /\ DOMAIN obj.vals = 1 .. n /\ obj.vals[k] = vals[k]
          /\ obj.keys[k] = key /\ \A j \in 1 .. n : j < k => obj.keys[j] # key
      BY <1>1, <1>4, <2>3, <3>1
    <3>3. Get(obj, key) = obj.vals[k]
      BY <2>3, <3>2, GetFirst
    <3>4. QED
      BY <3>1, <3>2, <3>3
  <2>5. QED
    BY <1>1, <2>3, <2>4 DEF Text, Value
<1>8. QED
  BY <1>5, <1>6, <1>7 DEF NamedAfter, Named, vals

(* What a medium of the Graph API is read as. *)
LEMMA MediumReads ==
  ASSUME NEW item \in GraphItems, item.kind = "media"
  PROVE  /\ GraphItemOf(item).type = "obj"
         /\ \A f \in Common : Text(Get(GraphItemOf(item), f)) = f
         /\ Text(Get(GraphItemOf(item), "caption")) = item.caption
         /\ Text(Get(GraphItemOf(item), "media_url")) = item.media_url
         /\ Text(Get(GraphItemOf(item), "thumbnail_url")) = item.thumbnail_url
<1> DEFINE first == Named(<<"id", "media_type", "permalink">>)
           second == Named(<<"timestamp", "username">>)
           thumbnail == Member("thumbnail_url", Str(item.thumbnail_url))
           urls == With(Member("media_url", Str(item.media_url)), thumbnail)
           own == With(Member("caption", Str(item.caption)), urls)
           rest == With(second, own)
           all == With(first, rest)
<1>1. all = GraphItemOf(item)
  BY DEF GraphItemOf
<1>2. NamedAfter(first, {"id", "media_type", "permalink"})
  <2>1. <<"id", "media_type", "permalink">> \in Seq({"id", "media_type", "permalink"}) /\ Len(<<"id", "media_type", "permalink">>) = 3
    OBVIOUS
  <2>4. ItemsOf(<<"id", "media_type", "permalink">>) = {"id", "media_type", "permalink"}
    <3>1. PICK s : s = <<"id", "media_type", "permalink">>
      OBVIOUS
    <3>2. DOMAIN s = 1 .. 3 /\ s[1] = "id" /\ s[2] = "media_type" /\ s[3] = "permalink"
      BY <3>1
    <3>3. ItemsOf(s) = {"id", "media_type", "permalink"}
      BY <3>2 DEF ItemsOf
    <3>4. QED
      BY <3>1, <3>3
  <2>2. 3 \in Nat
    OBVIOUS
  <2>3. QED
    BY <2>1, <2>2, <2>4, NamedIs
<1>3. NamedAfter(second, {"timestamp", "username"})
  <2>1. <<"timestamp", "username">> \in Seq({"timestamp", "username"}) /\ Len(<<"timestamp", "username">>) = 2
    OBVIOUS
  <2>4. ItemsOf(<<"timestamp", "username">>) = {"timestamp", "username"}
    <3>1. PICK s : s = <<"timestamp", "username">>
      OBVIOUS
    <3>2. DOMAIN s = 1 .. 2 /\ s[1] = "timestamp" /\ s[2] = "username"
      BY <3>1
    <3>3. ItemsOf(s) = {"timestamp", "username"}
      BY <3>2 DEF ItemsOf
    <3>4. QED
      BY <3>1, <3>3
  <2>2. 2 \in Nat
    OBVIOUS
  <2>3. QED
    BY <2>1, <2>2, <2>4, NamedIs
<1> HIDE DEF first, second
<1>4. /\ IsObject(thumbnail)
      /\ Text(Get(thumbnail, "thumbnail_url")) = item.thumbnail_url
      /\ \A key : key # "thumbnail_url" => Get(thumbnail, key) = Null
  <2>1. IsObject(thumbnail) /\ Get(thumbnail, "thumbnail_url") = Str(item.thumbnail_url)
    BY MemberIs
  <2>2. \A key : key # "thumbnail_url" => Get(thumbnail, key) = Null
    BY NoMember
  <2>3. QED
    BY <2>1, <2>2, StrIs
<1>5. /\ Text(Null) = NoText
      /\ \A s : Str(s) = Null => s = NoText
  BY StrIs, NullIs DEF Text
<1> HIDE DEF thumbnail
<1>6. /\ IsObject(urls)
      /\ Text(Get(urls, "thumbnail_url")) = item.thumbnail_url
      /\ Text(Get(urls, "media_url")) = item.media_url
  <2>1. "thumbnail_url" # "media_url"
    OBVIOUS
  <2>2. /\ IsObject(urls)
        /\ Get(urls, "thumbnail_url") = Get(thumbnail, "thumbnail_url")
        /\ Get(urls, "media_url") = IF Str(item.media_url) # Null THEN Str(item.media_url) ELSE Get(thumbnail, "media_url")
    BY <1>4, <2>1, Lookup
  <2>3. Get(thumbnail, "media_url") = Null
    BY <1>4, <2>1
  <2>4. CASE Str(item.media_url) # Null
    BY <1>4, <2>2, <2>4, StrIs
  <2>5. CASE Str(item.media_url) = Null
    BY <1>4, <1>5, <2>2, <2>3, <2>5
  <2>6. QED
    BY <2>4, <2>5
<1>7. \A key : key # "thumbnail_url" /\ key # "media_url" => Get(urls, key) = Null
  BY <1>4, Lookup
<1> HIDE DEF urls
<1>8. /\ IsObject(own)
      /\ Text(Get(own, "thumbnail_url")) = item.thumbnail_url
      /\ Text(Get(own, "media_url")) = item.media_url
      /\ Text(Get(own, "caption")) = item.caption
  <2>1. "caption" # "media_url" /\ "caption" # "thumbnail_url"
    OBVIOUS
  <2>2. /\ IsObject(own)
        /\ Get(own, "thumbnail_url") = Get(urls, "thumbnail_url")
        /\ Get(own, "media_url") = Get(urls, "media_url")
        /\ Get(own, "caption") = IF Str(item.caption) # Null THEN Str(item.caption) ELSE Get(urls, "caption")
    BY <1>6, <2>1, Lookup
  <2>3. Get(urls, "caption") = Null
    BY <1>7, <2>1
  <2>4. CASE Str(item.caption) # Null
    BY <1>6, <2>2, <2>4, StrIs
  <2>5. CASE Str(item.caption) = Null
    BY <1>5, <1>6, <2>2, <2>3, <2>5
  <2>6. QED
    BY <2>4, <2>5
<1> HIDE DEF own
<1>9. /\ IsObject(rest)
      /\ \A key : Get(rest, key) = IF key \in {"timestamp", "username"} THEN Get(second, key) ELSE Get(own, key)
  BY <1>3, <1>8, GetWith DEF NamedAfter
<1> HIDE DEF rest
<1>10. /\ IsObject(all)
       /\ \A key : Get(all, key) = IF key \in {"id", "media_type", "permalink"} THEN Get(first, key) ELSE Get(rest, key)
  BY <1>2, <1>9, GetWith DEF NamedAfter
<1> HIDE DEF all
<1>11. ASSUME NEW f \in Common
       PROVE  Text(Get(all, f)) = f
  <2>1. CASE f \in {"id", "media_type", "permalink"}
    BY <1>2, <1>10, <2>1 DEF NamedAfter
  <2>2. CASE f \in {"timestamp", "username"}
    <3>1. f \notin {"id", "media_type", "permalink"}
      BY <2>2
    <3>2. Get(all, f) = Get(second, f)
      BY <1>9, <1>10, <2>2, <3>1
    <3>3. QED
      BY <1>3, <2>2, <3>2 DEF NamedAfter
  <2>3. QED
    BY <2>1, <2>2 DEF Common
<1>12. \A key \in {"caption", "media_url", "thumbnail_url"} : Get(all, key) = Get(own, key)
  BY <1>9, <1>10
<1>13. all.type = "obj"
  BY <1>10 DEF IsObject
<1>14. QED
  BY <1>1, <1>8, <1>11, <1>12, <1>13

-----------------------------------------------------------------------------
(* Posts and the items they are for.                                         *)

(* The copies of a field that were lost. *)
LostOf(lost, f) == {n \in 1 .. 2 : <<f, n>> \in lost}

(* A field keeps the first of its texts that a copy could be made of. *)
LEMMA CopiedIs ==
  ASSUME NEW src, NEW f \in Fields, NEW lost, DOMAIN src[f] \subseteq 1 .. 2
  PROVE  Keeps(Copied(src, f, lost), src[f], LostOf(lost, f))
<1> DEFINE made == {c \in Copies(src) \ lost : c[1] = f}
           kept == {n \in DOMAIN src[f] : src[f][n] # NoText /\ n \notin LostOf(lost, f)}
<1>1. ASSUME NEW c \in made
      PROVE  c[2] \in kept
  <2>1. c \in Fields \X (1 .. 2) /\ c \notin lost /\ c[1] = f /\ c[2] \in DOMAIN src[f] /\ src[f][c[2]] # NoText
    BY DEF Copies
  <2>2. c = <<f, c[2]>>
    BY <2>1
  <2>3. QED
    BY <2>1, <2>2 DEF LostOf
<1>2. ASSUME NEW n \in kept
      PROVE  \E c \in made : c[2] = n
  <2>1. n \in 1 .. 2 /\ src[f][n] # NoText /\ <<f, n>> \notin lost
    BY DEF LostOf
  <2>2. <<f, n>> \in Fields \X (1 .. 2) /\ <<f, n>>[1] = f /\ <<f, n>>[2] = n
    BY <2>1
  <2>3. <<f, n>> \in Copies(src)
    BY <2>1, <2>2 DEF Copies
  <2>4. QED
    BY <2>1, <2>2, <2>3
<1>3. kept \subseteq Nat
  OBVIOUS
<1>4. CASE made = {}
  <2>1. Copied(src, f, lost) = NoText
    BY <1>4 DEF Copied
  <2>2. kept = {}
    BY <1>2, <1>4
  <2>3. QED
    BY <2>1, <2>2 DEF Keeps
<1>5. CASE made # {}
  <2> DEFINE best == CHOOSE c \in made : \A d \in made : c[2] <= d[2]
  <2>1. Copied(src, f, lost) = src[f][best[2]]
    BY <1>5 DEF Copied
  <2> HIDE DEF made
  <2>2. kept # {}
    BY <1>1, <1>5
  <2>3. PICK n \in kept : \A l \in kept : n <= l
    <3> HIDE DEF kept
    <3>1. QED
      BY <1>3, <2>2, LeastNatural
  <2>4. PICK c \in made : c[2] = n
    BY <1>2
  <2>5. \A d \in made : c[2] <= d[2]
    BY <1>1, <2>3, <2>4
  <2>6. best \in made /\ \A d \in made : best[2] <= d[2]
    BY <2>5
  <2> HIDE DEF best
  <2>7. best[2] \in kept /\ \A l \in kept : best[2] <= l
    BY <1>1, <1>2, <2>6
  <2>8. QED
    BY <2>1, <2>7 DEF Keeps
<1>6. QED
  BY <1>4, <1>5

(* The post that is made of a medium when the copies in lost fail, and     *)
(* what that has to do with an item.                                       *)
PostOf(m, lost) ==
  [text |-> [f \in Fields |-> Copied(Sources(m), f, lost)], slides |-> Slides(m), lost |-> lost]

Reads(m, item) ==
  /\ Skipped(m) <=> ~IsPost(item)
  /\ IsPost(item) => \A lost : Matches(PostOf(m, lost), item)

(* A medium that is looked up as its item says makes the item's post. *)
LEMMA PostMatches ==
  ASSUME NEW m, NEW item, NEW lost, Sources(m) = Says(item), DOMAIN Says(item) = Fields,
         \A f \in Fields : DOMAIN Says(item)[f] \subseteq 1 .. 2,
         Slides(m) = IF item.kind = "post" THEN Len(item.slides) ELSE 0
  PROVE  Matches(PostOf(m, lost), item)
<1> DEFINE post == PostOf(m, lost)
<1>1. /\ \A f \in Fields : post.text[f] = Copied(Says(item), f, lost)
      /\ post.slides = Slides(m) /\ post.lost = lost
  BY DEF PostOf
<1> HIDE DEF post
<1>2. ASSUME NEW f \in Fields
      PROVE  Keeps(post.text[f], Says(item)[f], {n \in 1 .. 2 : <<f, n>> \in post.lost})
  <2>1. Keeps(Copied(Says(item), f, lost), Says(item)[f], LostOf(lost, f))
    BY CopiedIs
  <2>2. QED
    BY <1>1, <2>1 DEF LostOf
<1>3. Matches(post, item)
  BY <1>1, <1>2 DEF Matches
<1>4. QED
  BY <1>3 DEF post

LEMMA PrivateReads ==
  ASSUME api = "private", NEW item \in Injections \cup PostedItems
  PROVE  Reads(Media(ItemOf(item)), item)
<1> DEFINE m == Get(ItemOf(item), "media_or_ad")
<1>1. Media(ItemOf(item)) = m
  BY DEF Media
<1>2. Skipped(m) <=> ~IsPost(item)
  BY PrivateItemReads DEF Skipped
<1>3. ASSUME IsPost(item), NEW lost
      PROVE  Matches(PostOf(m, lost), item)
  <2>1. item \in PostedItems /\ m = MediaOf(item) /\ item.kind = "post"
    BY <1>3, PrivateItemReads DEF PostedItems
  <2> HIDE DEF m
  <2>2. Says(item) = [username |-> <<item.username>>, caption |-> <<"c1">>, image_url |-> <<FirstPicture(item)>>]
    BY <2>1 DEF Says, FirstPicture
  <2>3. Sources(m) = Says(item) /\ Slides(m) = Len(item.slides)
    BY <2>1, <2>2, PostReads DEF Sources, Slides
  <2>4. Fields = {"username", "caption", "image_url"}
    BY DEF Fields, PrivateFields
  <2>5. DOMAIN Says(item) = Fields
    BY <2>2, <2>4
  <2>6. \A f \in Fields : DOMAIN Says(item)[f] \subseteq 1 .. 2
    <3>1. \A x : DOMAIN <<x>> \subseteq 1 .. 2
      OBVIOUS
    <3>2. \A f \in Fields : \E x : Says(item)[f] = <<x>>
      BY <2>2, <2>4
    <3>3. QED
      BY <3>1, <3>2, Zenon
  <2>7. QED
    BY <2>1, <2>3, <2>5, <2>6, PostMatches
<1>4. QED
  BY <1>1, <1>2, <1>3 DEF Reads

LEMMA GraphReads ==
  ASSUME api = "graph", NEW item \in GraphItems
  PROVE  Reads(Media(GraphItemOf(item)), item)
<1> DEFINE m == GraphItemOf(item)
<1>1. Media(m) = m /\ Fields = GraphFields
  BY DEF Media, Fields
<1>2. CASE item.kind # "media"
  <2>1. item.kind = "null"
    <3>1. ASSUME NEW c, NEW u, item = [kind |-> "media", caption |-> c, media_url |-> u[1], thumbnail_url |-> u[2]]
          PROVE  item.kind = "media"
      BY <3>1
    <3>2. item = [kind |-> "null"]
      BY <1>2, <3>1 DEF GraphItems
    <3>3. QED
      BY <3>2
  <2>2. m = Null /\ ~IsPost(item)
    BY <2>1 DEF GraphItemOf, IsPost
  <2>3. QED
    BY <1>1, <2>2, NullIs DEF Reads, Skipped
<1>3. CASE item.kind = "media"
  <2>1. /\ m.type = "obj"
        /\ \A f \in Common : Text(Get(m, f)) = f
        /\ Text(Get(m, "caption")) = item.caption
        /\ Text(Get(m, "media_url")) = item.media_url
        /\ Text(Get(m, "thumbnail_url")) = item.thumbnail_url
    BY <1>3, MediumReads
  <2>2. IsPost(item) /\ item.kind # "post" /\ ~Skipped(m)
    BY <1>3, <2>1 DEF IsPost, Skipped
  <2> HIDE DEF m
  <2>3. GraphFields = Common \cup {"caption", "media_url"} /\ "caption" \notin Common /\ "media_url" \notin Common
    BY DEF GraphFields, Common
  <2>4. DOMAIN Says(item) = GraphFields /\ DOMAIN GraphPost(m) = GraphFields
    BY <2>2 DEF Says, GraphPost
  <2>5. /\ \A f \in Common : Says(item)[f] = <<f>>
        /\ Says(item)["caption"] = <<item.caption>>
        /\ Says(item)["media_url"] = <<item.media_url, item.thumbnail_url>>
    BY <2>2, <2>3 DEF Says
  <2>6. ASSUME NEW f \in GraphFields
        PROVE  GraphPost(m)[f] = Says(item)[f] /\ DOMAIN Says(item)[f] \subseteq 1 .. 2
    <3>1. \A x, y : DOMAIN <<x>> \subseteq 1 .. 2 /\ DOMAIN <<x, y>> \subseteq 1 .. 2
      OBVIOUS
    <3>2. CASE f \in Common
      <4>1. GraphPost(m)[f] = <<f>>
        BY <2>1, <2>3, <3>2 DEF GraphPost
      <4>2. QED
        BY <2>5, <3>1, <3>2, <4>1, Zenon
    <3>3. CASE f = "caption"
      <4>1. GraphPost(m)[f] = <<item.caption>>
        BY <2>1, <3>3 DEF GraphPost
      <4>2. QED
        BY <2>5, <3>1, <3>3, <4>1, Zenon
    <3>4. CASE f = "media_url"
      <4>1. GraphPost(m)[f] = <<item.media_url, item.thumbnail_url>>
        BY <2>1, <3>4 DEF GraphPost
      <4>2. QED
        BY <2>5, <3>1, <3>4, <4>1, Zenon
    <3>5. QED
      BY <2>3, <3>2, <3>3, <3>4
  <2>7. GraphPost(m) = Says(item)
    <3>1. GraphPost(m) = [f \in GraphFields |-> GraphPost(m)[f]]
      BY <2>4 DEF GraphPost
    <3>2. Says(item) = [f \in GraphFields |-> Says(item)[f]]
      BY <2>2, <2>4 DEF Says
    <3>3. QED
      BY <2>6, <3>1, <3>2, Zenon
  <2>8. ASSUME NEW lost
        PROVE  Matches(PostOf(m, lost), item)
    <3>1. Sources(m) = Says(item) /\ Slides(m) = 0
      BY <2>7 DEF Sources, Slides
    <3>2. QED
      BY <1>1, <2>2, <2>4, <2>6, <3>1, PostMatches
  <2>9. QED
    BY <1>1, <2>2, <2>8 DEF Reads, m
<1>4. QED
  BY <1>2, <1>3

(* What the document of a timeline is read as: an item for an item, and    *)
(* the cursor.                                                             *)
LEMMA DocumentReads ==
  ASSUME api \in {"private", "graph"}, NEW s \in Sent[api], root = s.document
  PROVE  /\ Len(s.timeline) \in Nat
         /\ Count(Items) = Len(s.timeline)
         /\ \A k \in 1 .. Len(s.timeline) : Reads(Media(At(Items, k - 1)), s.timeline[k])
         /\ NextText = s.id
<1>1. PICK list \in Timelines(api), after \in Cursors : s = [timeline |-> list, id |-> after, document |-> DocumentOf(api, list, after)]
  <2>1. Sent[api] = {[timeline |-> t, id |-> x, document |-> DocumentOf(api, t, x)] :
                       t \in Timelines(api), x \in Cursors}
    BY DEF Sent
  <2>2. \E t \in Timelines(api), x \in Cursors : s = [timeline |-> t, id |-> x, document |-> DocumentOf(api, t, x)]
    BY <2>1
  <2>3. QED
    BY <2>2
<1>2. s.timeline = list /\ s.id = after /\ root = DocumentOf(api, list, after)
  BY <1>1
<1>3. PICK n \in 0 .. MaxItems : list \in [1 .. n -> TimelineItems(api)]
  BY DEF Timelines
<1>4. n \in Nat /\ DOMAIN list = 1 .. n /\ \A k \in 1 .. n : list[k] \in TimelineItems(api)
  <2>1. n \in Nat
    BY MCFeedModelAssumption
  <2>2. QED
    BY <1>3, <2>1
<1>5. list = [k \in 1 .. n |-> list[k]]
  BY <1>3
<1>6. Len(list) = n
  BY <1>4, <1>5, SequenceOf
<1>7. \A name, v : Member(name, v) # Null /\ Member(name, v).type = "obj" /\ IsObject(Member(name, v))
  BY MemberIs, NullIs DEF IsObject
<1>8. CASE api = "private"
  <2> DEFINE items == [k \in DOMAIN list |-> ItemOf(list[k])]
             cursor == Member("next_max_id", Str(after))
  <2>1. DOMAIN items = 1 .. n /\ items = [k \in 1 .. n |-> items[k]] /\ \A k \in 1 .. n : items[k] = ItemOf(list[k])
    BY <1>4
  <2>2. root = With(Member("feed_items", Array(items)), cursor)
    BY <1>2, <1>8 DEF DocumentOf
  <2> HIDE DEF items
  <2>3. /\ Array(items) # Null /\ Count(Array(items)) = n
        /\ \A j \in 0 .. n - 1 : At(Array(items), j) = items[j + 1]
    BY <1>4, <2>1, ArrayIs
  <2>4. Get(root, "feed_items") = Array(items) /\ Get(root, "next_max_id") = Str(after)
    <3>1. Get(cursor, "next_max_id") = Str(after) /\ IsObject(cursor) /\ "next_max_id" # "feed_items"
      BY MemberIs
    <3> HIDE DEF cursor
    <3>2. PICK all, name, v : name = "feed_items" /\ v = Array(items) /\ all = With(Member(name, v), cursor)
      OBVIOUS
    <3>3. Get(all, name) = v /\ \A key : key # name => Get(all, key) = Get(cursor, key)
      BY <2>3, <3>1, <3>2, Lookup
    <3>4. root = all
      BY <2>2, <3>2
    <3>5. QED
      BY <3>1, <3>2, <3>3, <3>4
  <2>5. Items = Array(items) /\ NextText = after
    BY <1>8, <2>4, StrIs DEF Items, NextText
  <2>6. ASSUME NEW k \in 1 .. n
        PROVE  Reads(Media(At(Items, k - 1)), list[k])
    <3>1. k - 1 \in 0 .. n - 1 /\ (k - 1) + 1 = k
      <4>1. n \in Nat
        BY <1>4
      <4>2. QED
        BY <4>1
    <3>2. At(Items, k - 1) = ItemOf(list[k])
      BY <2>1, <2>3, <2>5, <3>1
    <3>3. list[k] \in Injections \cup PostedItems
      BY <1>4, <1>8 DEF TimelineItems
    <3>4. QED
      BY <1>8, <3>2, <3>3, PrivateReads
  <2>7. QED
    BY <1>2, <1>4, <1>6, <2>3, <2>5, <2>6
<1>9. CASE api = "graph"
  <2> DEFINE items == [k \in DOMAIN list |-> GraphItemOf(list[k])]
             paging == Member("cursors", Member("after", Str(after)))
             cursor == Member("paging", paging)
  <2>1. DOMAIN items = 1 .. n /\ items = [k \in 1 .. n |-> items[k]] /\ \A k \in 1 .. n : items[k] = GraphItemOf(list[k])
    BY <1>4
  <2>2. root = With(Member("data", Array(items)), cursor)
    BY <1>2, <1>9 DEF DocumentOf
  <2> HIDE DEF items
  <2>3. /\ Array(items) # Null /\ Count(Array(items)) = n
        /\ \A j \in 0 .. n - 1 : At(Array(items), j) = items[j + 1]
    BY <1>4, <2>1, ArrayIs
  <2>4. Get(root, "data") = Array(items) /\ Get(root, "paging") = paging
    <3>1. Get(cursor, "paging") = paging /\ IsObject(cursor) /\ "paging" # "data"
      BY MemberIs
    <3> HIDE DEF cursor, paging
    <3>2. PICK all, name, v : name = "data" /\ v = Array(items) /\ all = With(Member(name, v), cursor)
      OBVIOUS
    <3>3. Get(all, name) = v /\ \A key : key # name => Get(all, key) = Get(cursor, key)
      BY <2>3, <3>1, <3>2, Lookup
    <3>4. root = all
      BY <2>2, <3>2
    <3>5. QED
      BY <3>1, <3>2, <3>3, <3>4
  <2>5. Items = Array(items)
    BY <1>9, <2>4 DEF Items
  <2>6. NextText = after
    <3>1. Get(paging, "cursors") = Member("after", Str(after)) /\ Get(Member("after", Str(after)), "after") = Str(after)
      BY MemberIs
    <3>2. QED
      BY <1>9, <2>4, <3>1, StrIs DEF NextText
  <2>7. ASSUME NEW k \in 1 .. n
        PROVE  Reads(Media(At(Items, k - 1)), list[k])
    <3>1. k - 1 \in 0 .. n - 1 /\ (k - 1) + 1 = k
      <4>1. n \in Nat
        BY <1>4
      <4>2. QED
        BY <4>1
    <3>2. At(Items, k - 1) = GraphItemOf(list[k])
      BY <2>1, <2>3, <2>5, <3>1
    <3>3. list[k] \in GraphItems
      BY <1>4, <1>9 DEF TimelineItems
    <3>4. QED
      BY <1>9, <3>2, <3>3, GraphReads
  <2>8. QED
    BY <1>2, <1>4, <1>6, <2>3, <2>5, <2>6, <2>7
<1>10. QED
  BY <1>8, <1>9

(* Of what is no timeline, nothing is read. *)
NoMedia == \A j : Skipped(Media(At(Items, j)))

LEMMA OddReads ==
  ASSUME api \in {"private", "graph"}, root \in Odd
  PROVE  NoMedia /\ NextText = NoText
<1>1. \A name, v : Member(name, v).type = "obj"
  BY MemberIs DEF IsObject
<1>2. /\ Skipped(Null) /\ Count(Null) = 0 /\ Text(Null) = NoText
      /\ \A v, key : v.type # "obj" => Get(v, key) = Null
      /\ \A v, key : v.type # "obj" => Get(Null, key) = Null
  BY NullIs DEF Skipped, Count, Text
<1>3. \A v, j : v.type # "arr" => At(v, j) = Null
  BY DEF At
<1>4. Get(Null, "media_or_ad") = Null /\ Media(Null) = Null
  BY NullIs DEF Media
(* If there are no items or no array of them, all are null.                *)
<1>5. Items.type # "arr" => NoMedia
  BY <1>2, <1>3, <1>4 DEF NoMedia
<1>6. Null.type # "arr"
  BY NullIs
<1>7. ASSUME Get(root, "next_max_id") = Null, Get(root, "paging") = Null
      PROVE  NextText = NoText
  BY <1>2, <1>7, NullIs DEF NextText
<1>8. ASSUME NEW name, NEW v, root = Member(name, v), v.type = "obj",
             name \notin {"next_max_id", "paging"}
      PROVE  NoMedia /\ NextText = NoText
  <2>1. Get(root, "next_max_id") = Null /\ Get(root, "paging") = Null
    BY <1>8, NoMember
  <2>2. \A key : Get(root, key) = v \/ Get(root, key) = Null
    BY <1>8, MemberIs, NoMember
  <2>3. Items.type # "arr"
    BY <1>6, <1>8, <2>2 DEF Items
  <2>4. QED
    BY <1>5, <1>7, <2>1, <2>3
<1>9. CASE root \in {Null, Array(<<Null>>)}
  <2>1. root.type # "obj"
    <3>1. Array(<<Null>>).type = "arr" /\ Null.type = "null"
      BY NullIs DEF Array
    <3>2. root.type \in {"arr", "null"}
      BY <1>9, <3>1, Zenon
    <3>3. QED
      BY <3>2
  <2>2. \A key : Get(root, key) = Null
    BY <1>2, <2>1
  <2>3. Items = Null
    BY <2>2 DEF Items
  <2>4. QED
    BY <1>5, <1>6, <1>7, <2>2, <2>3
<1>10. CASE root = Member("status", Str("fail"))
  <2>1. Get(root, "feed_items") = Null /\ Get(root, "data") = Null
        /\ Get(root, "next_max_id") = Null /\ Get(root, "paging") = Null
    BY <1>10, NoMember
  <2>2. Items = Null
    BY <2>1 DEF Items
  <2>3. QED
    BY <1>5, <1>6, <1>7, <2>1, <2>2
<1>11. CASE root = Member("feed_items", Member("feed_items", ItemOf([kind |-> "null"])))
  <2>1. "feed_items" \notin {"next_max_id", "paging"}
    OBVIOUS
  <2>2. QED
    BY <1>1, <1>8, <1>11, <2>1
<1>12. CASE root = Member("data", Member("data", Null))
  <2>1. "data" \notin {"next_max_id", "paging"}
    OBVIOUS
  <2>2. QED
    BY <1>1, <1>8, <1>12, <2>1
<1>13. QED
  BY <1>9, <1>10, <1>11, <1>12 DEF Odd

-----------------------------------------------------------------------------
(* The feed and the timeline, step by step.                                  *)

ShownBy(ps, timeline, n) ==
  \E of \in [DOMAIN ps -> 1 .. n] :
    /\ {of[k] : k \in DOMAIN ps} = {m \in 1 .. n : IsPost(timeline[m])}
    /\ \A k, l \in DOMAIN ps : k < l => of[k] < of[l]
    /\ \A k \in DOMAIN ps : Matches(ps[k], timeline[of[k]])

(* No posts are of no items. *)
LEMMA NoneShown == \A timeline : ShownBy(<< >>, timeline, 0)
<1>1. ASSUME NEW timeline PROVE ShownBy(<< >>, timeline, 0)
  <2>1. DOMAIN << >> = {}
    BY EmptySeq
  <2> DEFINE of == [k \in {} |-> 0]
  <2>2. of \in [{} -> 1 .. 0]
    OBVIOUS
  <2>3. {of[k] : k \in {}} = {} /\ {m \in 1 .. 0 : IsPost(timeline[m])} = {}
    OBVIOUS
  <2> HIDE DEF of
  <2>4. QED
    BY <2>1, <2>2, <2>3 DEF ShownBy
<1>2. QED
  BY <1>1

(* An item without media leaves the posts as they are. *)
LEMMA ShownStays ==
  ASSUME NEW ps, NEW timeline, NEW n \in Nat, ShownBy(ps, timeline, n), ~IsPost(timeline[n + 1])
  PROVE  ShownBy(ps, timeline, n + 1)
<1>1. PICK of \in [DOMAIN ps -> 1 .. n] :
        /\ {of[k] : k \in DOMAIN ps} = {m \in 1 .. n : IsPost(timeline[m])}
        /\ \A k, l \in DOMAIN ps : k < l => of[k] < of[l]
        /\ \A k \in DOMAIN ps : Matches(ps[k], timeline[of[k]])
  BY DEF ShownBy
<1>2. \A k : k \in 1 .. n + 1 <=> k \in 1 .. n \/ k = n + 1
  OBVIOUS
<1>3. of \in [DOMAIN ps -> 1 .. n + 1]
  BY <1>2
<1>4. {m \in 1 .. n + 1 : IsPost(timeline[m])} = {m \in 1 .. n : IsPost(timeline[m])}
  BY <1>2
<1>5. QED
  BY <1>1, <1>3, <1>4 DEF ShownBy

(* A post is added for an item that has media. *)
LEMMA ShownMore ==
  ASSUME NEW S, NEW ps \in Seq(S), NEW post, NEW timeline, NEW n \in Nat, ShownBy(ps, timeline, n),
         IsPost(timeline[n + 1]), Matches(post, timeline[n + 1])
  PROVE  ShownBy(Append(ps, post), timeline, n + 1)
<1>1. PICK of \in [DOMAIN ps -> 1 .. n] :
        /\ {of[k] : k \in DOMAIN ps} = {m \in 1 .. n : IsPost(timeline[m])}
        /\ \A k, l \in DOMAIN ps : k < l => of[k] < of[l]
        /\ \A k \in DOMAIN ps : Matches(ps[k], timeline[of[k]])
  BY DEF ShownBy
<1>2. PICK len \in Nat : len = Len(ps)
  BY LenProperties
<1>3. PICK more : more = Append(ps, post)
  OBVIOUS
<1>4. /\ DOMAIN ps = 1 .. len /\ DOMAIN more = 1 .. len + 1
      /\ more[len + 1] = post /\ \A k \in 1 .. len : more[k] = ps[k]
  BY <1>2, <1>3, Pushed
<1> DEFINE then == [k \in 1 .. len + 1 |-> IF k = len + 1 THEN n + 1 ELSE of[k]]
<1>5. \A k : k \in 1 .. n + 1 <=> k \in 1 .. n \/ k = n + 1
  OBVIOUS
<1>6. \A k : k \in 1 .. len + 1 <=> k \in 1 .. len \/ k = len + 1
  OBVIOUS
<1>7. /\ then[len + 1] = n + 1 /\ \A k \in 1 .. len : then[k] = of[k] /\ of[k] \in 1 .. n
  <2>1. len + 1 \in 1 .. len + 1 /\ \A k \in 1 .. len : k # len + 1
    OBVIOUS
  <2>2. QED
    BY <1>1, <1>4, <1>6, <2>1
<1>8. then \in [1 .. len + 1 -> 1 .. n + 1]
  BY <1>4, <1>5, <1>6, <1>7
<1> HIDE DEF then
<1>9. {then[k] : k \in 1 .. len + 1} = {m \in 1 .. n + 1 : IsPost(timeline[m])}
  <2>1. ASSUME NEW k \in 1 .. len + 1
        PROVE  then[k] \in {m \in 1 .. n + 1 : IsPost(timeline[m])}
    <3>1. CASE k \in 1 .. len
      <4>1. then[k] \in {m \in 1 .. n : IsPost(timeline[m])}
        BY <1>1, <1>4, <1>7, <3>1
      <4>2. QED
        BY <1>5, <4>1
    <3>2. CASE k = len + 1
      BY <1>5, <1>7, <3>2
    <3>3. QED
      BY <1>6, <3>1, <3>2
  <2>2. ASSUME NEW m \in 1 .. n + 1, IsPost(timeline[m])
        PROVE  \E k \in 1 .. len + 1 : then[k] = m
    <3>1. CASE m \in 1 .. n
      <4>1. PICK k \in 1 .. len : of[k] = m
        BY <1>1, <1>4, <2>2, <3>1
      <4>2. QED
        BY <1>6, <1>7, <4>1
    <3>2. CASE m = n + 1
      BY <1>6, <1>7, <3>2
    <3>3. QED
      BY <1>5, <3>1, <3>2
  <2>3. QED
    BY <2>1, <2>2
<1>10. ASSUME NEW k \in 1 .. len + 1, NEW l \in 1 .. len + 1, k < l
       PROVE  then[k] < then[l]
  <2>1. k \in 1 .. len
    BY <1>10
  <2>2. CASE l \in 1 .. len
    BY <1>1, <1>4, <1>7, <1>10, <2>1, <2>2
  <2>3. CASE l = len + 1
    <3>1. PICK p \in 1 .. n : p = of[k]
      BY <1>7, <2>1
    <3>2. then[k] = p /\ then[l] = n + 1 /\ p < n + 1
      BY <1>7, <2>1, <2>3, <3>1
    <3>3. QED
      BY <3>2
  <2>4. QED
    BY <1>6, <2>2, <2>3
<1>11. ASSUME NEW k \in 1 .. len + 1
       PROVE  Matches(more[k], timeline[then[k]])
  <2>1. CASE k \in 1 .. len
    BY <1>1, <1>4, <1>7, <2>1
  <2>2. CASE k = len + 1
    BY <1>4, <1>7, <2>2
  <2>3. QED
    BY <1>6, <2>1, <2>2
<1>12. ShownBy(more, timeline, n + 1)
  BY <1>4, <1>8, <1>9, <1>10, <1>11 DEF ShownBy
<1>13. QED
  BY <1>3, <1>12

(* Of a timeline as much is in the feed as has been looked at, of anything *)
(* else nothing.                                                           *)
Reading == pc \in {"items", "next", "done"}
KeepsNext(cursor, id, lost) == Keeps(cursor, <<id>>, {n \in 1 .. 1 : lost})

Follows(s) ==
  /\ pc = "items" => room = Len(s.timeline) /\ i \in 0 .. room /\ ShownBy(posts, s.timeline, i)
  /\ pc \in {"next", "done"} => ShownBy(posts, s.timeline, Len(s.timeline))
  /\ pc = "done" => KeepsNext(next, s.id, lostNext)

Empty ==
  /\ Reading => posts = << >>
  /\ pc = "done" => next = NoText

Told ==
  /\ api \in {"private", "graph"}
  /\ pc \in {"parse", "feed", "posts"} => i = 0
  /\ pc \notin {"done", "freed"} => lostNext = FALSE
  /\ \A s \in Sent[api] : s.document = root => Follows(s)
  /\ root \in Odd => Empty

(* The cursor there is, unless it was lost. *)
LEMMA NextKept ==
  ASSUME NEW id
  PROVE  /\ id # NoText => KeepsNext(id, id, FALSE)
         /\ KeepsNext(NoText, id, id # NoText)
<1>1. DOMAIN <<id>> = {1} /\ <<id>>[1] = id
  OBVIOUS
<1>2. 1 \in 1 .. 1 /\ 1 <= 1 /\ \A n \in 1 .. 1 : n = 1
  OBVIOUS
<1>3. QED
  BY <1>1, <1>2 DEF KeepsNext, Keeps

(* Before it is read nothing is said of the document. *)
LEMMA InitTold == Init => Told
BY DEF Init, Told, Follows, Empty, Reading

(* Every step keeps the feed in step with the timeline. *)
LEMMA NextTold == Inv /\ Told /\ [Next]_vars => Told'
<1> SUFFICES ASSUME Inv, Told, [Next]_vars PROVE Told'
  OBVIOUS
<1>1. /\ pc \in {"parse", "feed", "posts"} => i = 0 /\ posts = << >> /\ next = NoText
      /\ pc \in {"items", "next"} => next = NoText
      /\ posts \in Seq(ItemsOf(posts))
      /\ api \in {"private", "graph"}
  BY DEF Inv, Types, Unset, Told
<1>2. CASE ParseRoot
  BY <1>1, <1>2 DEF ParseRoot, Told, Follows, Empty, Reading
<1>3. CASE AllocFeed
  <2>1. UNCHANGED <<api, root, i, room, posts, next, lostNext>> /\ pc = "feed" /\ pc' \in {"posts", "next", "null"}
    BY <1>3 DEF AllocFeed
  <2>2. pc' = "next" => ~(Count(Items) > 0)
    BY <1>3 DEF AllocFeed
  <2>3. ASSUME NEW s \in Sent[api], s.document = root
        PROVE  Follows(s)'
    <3>1. Count(Items) = Len(s.timeline) /\ Len(s.timeline) \in Nat
      BY <1>1, <2>3, DocumentReads
    <3>2. CASE pc' = "next"
      <4>1. Len(s.timeline) = 0
        BY <2>2, <3>1, <3>2
      <4>2. ShownBy(posts, s.timeline, Len(s.timeline))
        BY <1>1, <2>1, <4>1, NoneShown
      <4>3. QED
        BY <2>1, <3>2, <4>2 DEF Follows
    <3>3. CASE pc' # "next"
      BY <2>1, <3>3 DEF Follows
    <3>4. QED
      BY <3>2, <3>3
  <2>4. QED
    BY <1>1, <2>1, <2>3 DEF Told, Empty, Reading
<1>4. CASE AllocPosts
  <2>1. UNCHANGED <<api, root, i, posts, next, lostNext>> /\ pc = "posts" /\ pc' \in {"items", "null"}
        /\ (pc' = "items" => room' = Count(Items))
    BY <1>4 DEF AllocPosts
  <2>2. ASSUME NEW s \in Sent[api], s.document = root
        PROVE  Follows(s)'
    <3>0. Count(Items) = Len(s.timeline) /\ Len(s.timeline) \in Nat
      BY <1>1, <2>2, DocumentReads
    <3>1. PICK n \in Nat : Count(Items) = n /\ Len(s.timeline) = n
      BY <3>0
    <3>2. ShownBy(posts, s.timeline, 0) /\ i = 0
      BY <1>1, <2>1, NoneShown
    <3>3. 0 \in 0 .. n
      OBVIOUS
    <3>4. QED
      BY <2>1, <3>1, <3>2, <3>3 DEF Follows
  <2>3. QED
    BY <1>1, <2>1, <2>2 DEF Told, Empty, Reading
<1>5. CASE NextItem
  <2>1. UNCHANGED <<api, root, room, next, lostNext>> /\ pc = "items"
    BY <1>5 DEF NextItem
  <2> DEFINE m == Media(At(Items, i))
  <2>2. i = room => pc' = "next" /\ UNCHANGED <<i, posts>>
    BY <1>5 DEF NextItem
  <2>3. i # room => i' = i + 1 /\ pc' = "items"
    BY <1>5 DEF NextItem
  <2>4. i # room /\ Skipped(m) => UNCHANGED posts
    BY <1>5 DEF NextItem
  <2>5. i # room /\ ~Skipped(m) =>
          \E lost \in SUBSET Copies(Sources(m)) :
            Cardinality(lost) <= MaxFailures /\ posts' = Append(posts, PostOf(m, lost))
    BY <1>5 DEF NextItem, PostOf
  <2> HIDE DEF m
  <2>6. ASSUME NEW s \in Sent[api], s.document = root
        PROVE  Follows(s)'
    <3>1. room = Len(s.timeline) /\ i \in 0 .. room /\ ShownBy(posts, s.timeline, i)
      BY <2>1, <2>6 DEF Told, Follows
    <3>0. Len(s.timeline) \in Nat
      BY <1>1, <2>6, DocumentReads
    <3>2. PICK n \in Nat, k \in Nat : n = Len(s.timeline) /\ k = i /\ n = room
      BY <3>0, <3>1
    <3>3. CASE i = room
      BY <2>1, <2>2, <3>1, <3>3 DEF Follows
    <3>4. CASE i # room
      <4>1. k + 1 \in 1 .. n /\ (k + 1) - 1 = k /\ k + 1 \in 0 .. n
        BY <3>1, <3>2, <3>4
      <4>2. Reads(m, s.timeline[k + 1])
        BY <1>1, <2>6, <3>2, <4>1, DocumentReads DEF m
      <4>3. ShownBy(posts, s.timeline, k)
        BY <3>1, <3>2
      <4>4. ShownBy(posts', s.timeline, k + 1)
        <5>1. CASE Skipped(m)
          <6>1. posts' = posts /\ ~IsPost(s.timeline[k + 1])
            BY <2>4, <3>4, <4>2, <5>1 DEF Reads
          <6>2. QED
            BY <4>3, <6>1, ShownStays
        <5>2. CASE ~Skipped(m)
          <6>1. PICK lost \in SUBSET Copies(Sources(m)) :
                  Cardinality(lost) <= MaxFailures /\ posts' = Append(posts, PostOf(m, lost))
            BY <2>5, <3>4, <5>2
          <6>2. IsPost(s.timeline[k + 1]) /\ Matches(PostOf(m, lost), s.timeline[k + 1])
            BY <4>2, <5>2, <6>1 DEF Reads
          <6>3. ShownBy(Append(posts, PostOf(m, lost)), s.timeline, k + 1)
            BY <1>1, <4>3, <6>2, ShownMore
          <6>4. QED
            BY <6>1, <6>3
        <5>3. QED
          BY <5>1, <5>2
      <4>5. pc' = "items" /\ room' = n /\ i' = k + 1
        BY <2>1, <2>3, <3>2, <3>4
      <4>6. QED
        BY <3>2, <4>1, <4>4, <4>5 DEF Follows
    <3>5. QED
      BY <3>3, <3>4
  <2>7. root \in Odd => Empty'
    <3>1. SUFFICES ASSUME root \in Odd PROVE Empty'
      OBVIOUS
    <3>2. Skipped(m) /\ posts = << >>
      BY <1>1, <2>1, <3>1, OddReads DEF NoMedia, m, Told, Empty, Reading
    <3>3. pc' \in {"next", "items"} /\ posts' = << >>
      BY <2>2, <2>3, <2>4, <3>2
    <3>4. QED
      BY <3>3 DEF Empty, Reading
  <2>8. pc' \notin {"parse", "feed", "posts"}
    BY <2>2, <2>3
  <2>9. QED
    BY <1>1, <2>1, <2>6, <2>7, <2>8 DEF Told
<1>6. CASE FinishFeed
  <2>1. UNCHANGED <<api, root, i, room, posts>> /\ pc = "next" /\ pc' = "done" 
        /\ \/ NextText # NoText /\ next' = NextText /\ lostNext' = lostNext
           \/ next' = next /\ lostNext' = (NextText # NoText)
    BY <1>6 DEF FinishFeed
  <2>2. next = NoText /\ lostNext = FALSE
    BY <1>1, <2>1 DEF Told
  <2>3. ASSUME NEW s \in Sent[api], s.document = root
        PROVE  Follows(s)'
    <3>1. NextText = s.id
      BY <1>1, <2>3, DocumentReads
    <3>2. ShownBy(posts, s.timeline, Len(s.timeline))
      BY <2>1, <2>3 DEF Told, Follows
    <3>3. KeepsNext(next', s.id, lostNext')
      <4>1. \/ s.id # NoText /\ next' = s.id /\ lostNext' = FALSE
            \/ next' = NoText /\ lostNext' = (s.id # NoText)
        BY <2>1, <2>2, <3>1
      <4>2. CASE s.id # NoText /\ next' = s.id /\ lostNext' = FALSE
        BY <4>2, NextKept, Zenon
      <4>3. CASE next' = NoText /\ lostNext' = (s.id # NoText)
        BY <4>3, NextKept, Zenon
      <4>4. QED
        BY <4>1, <4>2, <4>3
    <3>4. QED
      BY <2>1, <3>2, <3>3 DEF Follows
  <2>4. root \in Odd => Empty'
    <3>1. root \in Odd => posts = << >> /\ NextText = NoText
      BY <1>1, <2>1, OddReads DEF Told, Empty, Reading
    <3>2. root \in Odd => posts' = << >> /\ next' = NoText
      BY <2>1, <2>2, <3>1, Zenon
    <3>3. QED
      BY <3>2 DEF Empty
  <2>5. QED
    BY <1>1, <2>1, <2>3, <2>4 DEF Told
<1>7. CASE FeedFree
  BY <1>1, <1>7 DEF FeedFree, Told, Follows, Empty, Reading
<1>8. CASE UNCHANGED vars
  BY <1>8 DEF vars, Told, Follows, Empty, Reading
<1>9. QED
  BY <1>2, <1>3, <1>4, <1>5, <1>6, <1>7, <1>8 DEF Next, Terminated

(* Whichever timeline was sent, however long, and whichever strings there  *)
(* was no memory for: the posts of the feed are the items that have media, *)
(* in their order and none twice, and each field of a post is what its     *)
(* item says there, NULL only if the item says nothing or its copies were  *)
(* lost.  Of a document that is no timeline there is no post.              *)
THEOREM FeedFollowsTimeline == Spec => []FeedIsTimeline
<1>1. Told => FeedIsTimeline
  BY DEF Told, Follows, Empty, Reading, FeedIsTimeline, Shows, ShownBy, KeepsNext
<1>2. QED
  BY InitInv, NextInv, InitTold, NextTold, <1>1, PTL DEF Spec
=============================================================================
