---------------------------- MODULE MCFeedModel -----------------------------
(* Timelines of up to MaxItems items, as the documents the two services    *)
(* send for them, and documents that are something else.                   *)
EXTENDS FeedModel

CONSTANT MaxItems
ASSUME MCFeedModelAssumption == MaxItems \in Nat

(* Of the private API, an item is an injection without media or a post; a  *)
(* post may lack its user's name or its picture, or have an empty one, and *)
(* is a single picture or a carousel of slides, the first of which may     *)
(* have no picture.                                                        *)
Injections == {[kind |-> "injection"], [kind |-> "null"]}
PostedItems == [kind : {"post"}, username : {NoText, "u1"}, image_url : {NoText, "", "p1"},
                slides : {<< >>, <<NoText>>, <<"s1", "s2">>}]
(* Of the Graph API, a post has a picture, a thumbnail or both; a picture  *)
(* whose URL is empty is one.                                              *)
MediaUrls == {<<"m1", NoText>>, <<NoText, "t1">>, <<"m1", "t1">>, <<"", "t1">>}
Captions == {NoText, "c1"}
GraphItems == {[kind |-> "null"]} \cup
  {[kind |-> "media", caption |-> c, media_url |-> u[1], thumbnail_url |-> u[2]] :
     c \in Captions, u \in MediaUrls}

TimelineItems(a) == IF a = "private" THEN Injections \cup PostedItems ELSE GraphItems
Timelines(a) == UNION {[1 .. n -> TimelineItems(a)] : n \in 0 .. MaxItems}
IsPost(item) == item.kind \in {"post", "media"}

(* An object of the members there are. *)
Str(s) == IF s = NoText THEN Null ELSE Value("str", s)
Member(name, v) == IF v = Null THEN Object(<< >>, << >>) ELSE Object(<<name>>, <<v>>)
With(a, b) == Object(a.keys \o b.keys, a.vals \o b.vals)

Pictures(url) ==
  Member("image_versions2", Member("candidates", Array(<<Member("url", Str(url)), Member("url", Str("big"))>>)))

MediaOf(item) ==
  With(Member("user", Member("username", Str(item.username))),
  With(Member("caption", Member("text", Str("c1"))),
  With(Pictures(item.image_url),
       IF item.slides = << >> THEN Member("", Null)
       ELSE Member("carousel_media",
                   Array([n \in DOMAIN item.slides |-> Pictures(item.slides[n])])))))

ItemOf(item) ==
  CASE item.kind = "injection" -> Member("stories", Array(<< >>))
    [] item.kind = "null" -> Object(<<"media_or_ad">>, <<Null>>)
    [] item.kind = "post" -> Member("media_or_ad", MediaOf(item))

(* The fields that every medium of the Graph API has, each with a text of  *)
(* its own.                                                                *)
Common == {"id", "media_type", "permalink", "timestamp", "username"}
Named(names) == Object(names, [k \in DOMAIN names |-> Value("str", names[k])])
GraphItemOf(item) ==
  IF item.kind = "null" THEN Null
  ELSE With(Named(<<"id", "media_type", "permalink">>),
       With(Named(<<"timestamp", "username">>),
       With(Member("caption", Str(item.caption)),
       With(Member("media_url", Str(item.media_url)),
            Member("thumbnail_url", Str(item.thumbnail_url))))))

DocumentOf(a, timeline, id) ==
  IF a = "private"
  THEN With(Member("feed_items", Array([n \in DOMAIN timeline |-> ItemOf(timeline[n])])),
            Member("next_max_id", Str(id)))
  ELSE With(Member("data", Array([n \in DOMAIN timeline |-> GraphItemOf(timeline[n])])),
            Member("paging", Member("cursors", Member("after", Str(id)))))

(* No object at all, no timeline in it, or members where items should be.  *)
Odd == {Null, Array(<<Null>>), Member("status", Str("fail")),
        Member("feed_items", Member("feed_items", ItemOf([kind |-> "null"]))),
        Member("data", Member("data", Null))}

Cursors == {NoText, "id1"}
Sent == [a \in {"private", "graph"} |->
           {[timeline |-> t, id |-> id, document |-> DocumentOf(a, t, id)] :
              t \in Timelines(a), id \in Cursors}]

MCDocuments == [a \in {"private", "graph"} |-> Odd \cup {s.document : s \in Sent[a]}]

-----------------------------------------------------------------------------
(* What an item says of each field of its post, and what goes in its place *)
(* where it says nothing: the first slide's picture is shown if there are  *)
(* slides, else the post's own; a medium's own picture goes before its     *)
(* thumbnail.                                                              *)
Says(item) ==
  IF item.kind = "post"
  THEN [username |-> <<item.username>>, caption |-> <<"c1">>,
        image_url |-> <<IF item.slides = << >> THEN item.image_url ELSE item.slides[1]>>]
  ELSE [f \in GraphFields |->
          CASE f = "caption" -> <<item.caption>>
            [] f = "media_url" -> <<item.media_url, item.thumbnail_url>>
            [] OTHER -> <<f>>]

(* A field is the first of the texts that is there and that there was      *)
(* memory for, and NULL only when there is none.                           *)
Keeps(text, said, lost) ==
  LET kept == {n \in DOMAIN said : said[n] # NoText /\ n \notin lost}
  IN IF kept = {} THEN text = NoText
     ELSE \E n \in kept : text = said[n] /\ \A l \in kept : n <= l

(* A post of the feed, and the item of the timeline it is for: what is     *)
(* missing in the post is missing in the item, or a copy of it was lost.   *)
Matches(post, item) ==
  /\ \A f \in DOMAIN Says(item) : Keeps(post.text[f], Says(item)[f], {n \in 1 .. 2 : <<f, n>> \in post.lost})
  /\ post.slides = IF item.kind = "post" THEN Len(item.slides) ELSE 0

(* The posts are the items that have media among the first n of a timeline: *)
(* each is the post of one item, all of them have one, and their order is   *)
(* the timeline's.                                                          *)
Shows(timeline, n) ==
  \E of \in [DOMAIN posts -> 1 .. n] :
    /\ {of[k] : k \in DOMAIN posts} = {m \in 1 .. n : IsPost(timeline[m])}
    /\ \A k, l \in DOMAIN posts : k < l => of[k] < of[l]
    /\ \A k \in DOMAIN posts : Matches(posts[k], timeline[of[k]])

(* The feed is the timeline: its posts are the items that have media, in   *)
(* their order and none twice, each with what that item says in every      *)
(* field but those that there was no memory for; the next page's cursor is *)
(* the timeline's in the same way.  What is no timeline has no posts.      *)
FeedIsTimeline ==
  pc = "done" =>
    /\ \A s \in Sent[api] : s.document = root =>
         /\ Shows(s.timeline, Len(s.timeline))
         /\ Keeps(next, <<s.id>>, {n \in 1 .. 1 : lostNext})
    /\ root \in Odd => posts = << >> /\ next = NoText
=============================================================================
