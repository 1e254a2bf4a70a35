---------------------------- MODULE BootAbstract ----------------------------
(* What the boot promises: it ends, in the real feed with at least one and *)
(* at most MaxRealPosts posts, or in the demo feed, and then stays there.  *)
EXTENDS Integers

CONSTANTS MaxRealPosts

VARIABLES stage, posts

vars == <<stage, posts>>

Init == stage = "starting" /\ posts = 0

ShowReal == stage = "starting" /\ stage' = "real" /\ posts' \in 1 .. MaxRealPosts

ShowDemo == stage = "starting" /\ stage' = "demo" /\ posts' = 0

Next == ShowReal \/ ShowDemo

SafeSpec == Init /\ [][Next]_vars
Spec == SafeSpec /\ WF_vars(Next)
=============================================================================
