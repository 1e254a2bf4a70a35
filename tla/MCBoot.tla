------------------------------- MODULE MCBoot -------------------------------
(* Two slots for posts and feeds of up to three.  Answers of every framing *)
(* and of sizes around those at which the buffer doubles, once and twice;  *)
(* one that is refused and one that is not HTTP.                           *)
EXTENDS Boot

MCMessages ==
  [ok : {TRUE}, status : {200}, size : 0 .. 4, framing : {"length", "chunked", "close"}]
    \cup [ok : {TRUE}, status : {404}, size : {0, 3}, framing : {"length", "chunked"}]
    \cup [ok : {FALSE}, status : {200}, size : {3}, framing : {"close"}]

MCMockPhotos == 0 .. 3
=============================================================================
