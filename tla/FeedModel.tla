----------------------------- MODULE FeedModel ------------------------------
(***************************************************************************)
(* core/model_private.c and core/model.c: the JSON of a timeline, of the   *)
(* private API or of the Graph API, becomes a feed, which owns a copy of   *)
(* every string it keeps and outlives the document.  Each allocation may   *)
(* fail: without the feed or its array there is no feed, without a string  *)
(* the field is NULL.  The two mappings have the same steps; `api` says    *)
(* which of them runs.                                                     *)
(***************************************************************************)
EXTENDS JsonTree, FiniteSets

CONSTANTS
  Documents,       \* Documents[api]: the roots json_parse may return
  MaxFailures      \* bound: how many copies of one post's strings may fail
ASSUME FeedModelAssumption == DOMAIN Documents = {"private", "graph"} /\ MaxFailures \in Nat

VARIABLES
  api,
  pc,
  root,      \* the document
  i, room,   \* the item looked at, and the length of f->posts
  posts,     \* f->posts[0 .. f->count - 1], and of each the copies that were lost
  next,      \* f->next_max_id, f->next_cursor
  lostNext,  \* there was no memory for it; as posts[..].lost, history that no step reads
  heap       \* blocks in use

vars == <<api, pc, root, i, room, posts, next, lostNext, heap>>

PrivateFields == {"username", "caption", "image_url"}
GraphFields == {"id", "username", "caption", "media_type", "media_url", "permalink", "timestamp"}
Fields == IF api = "private" THEN PrivateFields ELSE GraphFields

(* Blocks; the document is freed as one, json_free being JsonParser's. *)
Root == <<"root", 0, "">>
Feed == <<"feed", 0, "">>
Posts == <<"posts", 0, "">>
NextId == <<"next", 0, "">>
String(k, field) == <<"string", k, field>>

Items == Get(root, IF api = "private" THEN "feed_items" ELSE "data")
Media(item) == IF api = "private" THEN Get(item, "media_or_ad") ELSE item
NextText ==
  IF api = "private" THEN Text(Get(root, "next_max_id"))
  ELSE Text(Get(Get(Get(root, "paging"), "cursors"), "after"))

FirstImageUrl(node) ==
  Text(Get(At(Get(Get(node, "image_versions2"), "candidates"), 0), "url"))

(* Mutant: the caption is looked up a level too high. *)
MutantPrivatePost(m) ==
  LET carousel == Get(m, "carousel_media")
  IN [username |-> <<Text(Get(Get(m, "user"), "username"))>>,
      caption |-> <<Text(Get(m, "caption"))>>,
      image_url |-> <<FirstImageUrl(IF Count(carousel) > 0 THEN At(carousel, 0) ELSE m)>>]

(* The texts a field is copied from: the next one is tried if there is no  *)
(* copy of the one before, for whatever reason.                            *)
PrivatePost(m) ==
  LET carousel == Get(m, "carousel_media")
  IN [username |-> <<Text(Get(Get(m, "user"), "username"))>>,
      caption |-> <<Text(Get(Get(m, "caption"), "text"))>>,
      image_url |-> <<FirstImageUrl(IF Count(carousel) > 0 THEN At(carousel, 0) ELSE m)>>]

(* Videos expose only thumbnail_url. *)
GraphPost(m) ==
  [f \in GraphFields |->
     IF f = "media_url" THEN <<Text(Get(m, f)), Text(Get(m, "thumbnail_url"))>>
     ELSE <<Text(Get(m, f))>>]

Sources(m) == IF api = "private" THEN PrivatePost(m) ELSE GraphPost(m)
Slides(m) == IF api = "private" THEN Count(Get(m, "carousel_media")) ELSE 0

(* The copies dup_str may be asked for, and what a field holds when those of   *)
(* lost could not be made.                                                 *)
Copies(src) == {c \in Fields \X (1..2) : c[2] \in DOMAIN src[c[1]] /\ src[c[1]][c[2]] # NoText}
Copied(src, f, lost) ==
  LET made == {c \in Copies(src) \ lost : c[1] = f}
  IN IF made = {} THEN NoText
     ELSE src[f][(CHOOSE c \in made : \A d \in made : c[2] <= d[2])[2]]

-----------------------------------------------------------------------------
Init ==
  /\ api \in {"private", "graph"}
  /\ pc = "parse" /\ root = Null
  /\ i = 0 /\ room = 0 /\ posts = << >> /\ next = NoText /\ lostNext = FALSE
  /\ heap = {}

ParseRoot ==
  /\ pc = "parse"
  /\ \/ \E d \in Documents[api] : root' = d /\ pc' = "feed" /\ heap' = {Root}
     \/ pc' = "null" /\ UNCHANGED <<root, heap>>
  /\ UNCHANGED <<api, i, room, posts, next, lostNext>>

AllocFeed ==
  /\ pc = "feed"
  /\ \/ /\ pc' = IF Count(Items) > 0 THEN "posts" ELSE "next"
        /\ heap' = heap \cup {Feed}
     \/ pc' = "null" /\ heap' = heap \ {Root}
  /\ UNCHANGED <<api, root, i, room, posts, next, lostNext>>

AllocPosts ==
  /\ pc = "posts"
  /\ \/ pc' = "items" /\ room' = Count(Items) /\ heap' = heap \cup {Posts}
     \/ pc' = "null" /\ heap' = heap \ {Root, Feed} /\ UNCHANGED room
  /\ UNCHANGED <<api, root, i, posts, next, lostNext>>

Skipped(m) == m.type # "obj"

(* An item without a media object is skipped; the strings of the others    *)
(* are copied as far as memory goes.                                       *)
NextItem ==
  /\ pc = "items"
  /\ IF i = room
     THEN pc' = "next" /\ UNCHANGED <<i, posts, heap>>
     ELSE LET m == Media(At(Items, i))
              src == Sources(m)
          IN /\ i' = i + 1
             /\ IF Skipped(m)
                THEN UNCHANGED <<posts, heap>>
                ELSE \E lost \in {s \in SUBSET Copies(src) : Cardinality(s) <= MaxFailures} :
                       LET text == [f \in Fields |-> Copied(src, f, lost)]
                       IN /\ posts' = Append(posts, [text |-> text, slides |-> Slides(m), lost |-> lost])
                          /\ heap' = heap \cup {String(Len(posts'), f) : f \in {g \in Fields : text[g] # NoText}}
             /\ UNCHANGED pc
  /\ UNCHANGED <<api, root, room, next, lostNext>>

(* The cursor is the last thing copied; the document goes. *)
FinishFeed ==
  /\ pc = "next"
  /\ \/ /\ NextText # NoText
        /\ next' = NextText
        /\ heap' = (heap \cup {NextId}) \ {Root}
        /\ UNCHANGED lostNext
     \/ /\ heap' = heap \ {Root}
        /\ lostNext' = (NextText # NoText)
        /\ UNCHANGED next
  /\ pc' = "done"
  /\ UNCHANGED <<api, root, i, room, posts>>

(* Mutant: the last post's strings are not freed. *)
MutantFreed == {Feed, Posts, NextId} \cup {String(k, f) : k \in 1 .. Len(posts) - 1, f \in Fields}

(* What private_feed_free and feed_free hand to free. *)
PrivateFeedFree == {String(k, f) : k \in DOMAIN posts, f \in PrivateFields}
GraphFeedFree == {String(k, f) : k \in DOMAIN posts, f \in GraphFields}
Freed == {Feed, Posts, NextId} \cup (IF api = "private" THEN PrivateFeedFree ELSE GraphFeedFree)

FeedFree ==
  /\ pc = "done"
  /\ heap' = heap \ Freed
  /\ pc' = "freed"
  /\ posts' = << >> /\ next' = NoText
  /\ UNCHANGED <<api, root, i, room, lostNext>>

Terminated == pc \in {"null", "freed"} /\ UNCHANGED vars

Next == ParseRoot \/ AllocFeed \/ AllocPosts \/ NextItem \/ FinishFeed \/ FeedFree \/ Terminated

Spec == Init /\ [][Next]_vars

-----------------------------------------------------------------------------
(* Properties *)

(* The strings the posts hold, each with its post. *)
Strings == {p \in (DOMAIN posts) \X Fields : posts[p[1]].text[p[2]] # NoText}

(* The feed holds exactly the blocks its fields point at, nothing of the   *)
(* document; and where there is no feed, or one that was freed, nothing is *)
(* held.                                                                   *)
FeedOwnsItsStrings ==
  /\ pc = "done" =>
       heap = {Feed} \cup {b \in {Posts} : room > 0} \cup {b \in {NextId} : next # NoText}
                     \cup {String(p[1], p[2]) : p \in Strings}
  /\ pc \in {"null", "freed"} => heap = {}
=============================================================================
