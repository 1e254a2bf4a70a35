------------------------------- MODULE Fetch -------------------------------
(***************************************************************************)
(* What a caller of https_request can rely on, without sockets, buffers or *)
(* TLS: it asks, and after a while it has nothing or a body with the       *)
(* status of that answer, which is as much of the answer's body as came.   *)
(***************************************************************************)
EXTENDS Integers

CONSTANTS Messages

VARIABLES busy, answer, reply

vars == <<busy, answer, reply>>

Nothing == [status |-> 0, size |-> -1]

Init == busy = FALSE /\ answer \in Messages /\ reply = Nothing

Ask ==
  /\ ~busy /\ reply = Nothing
  /\ busy' = TRUE
  /\ answer' \in Messages
  /\ UNCHANGED reply

GiveUp == busy /\ busy' = FALSE /\ UNCHANGED <<answer, reply>>

Deliver ==
  /\ busy /\ answer.ok
  /\ busy' = FALSE
  /\ \E n \in 0 .. answer.size : reply' = [status |-> answer.status, size |-> n]
  /\ UNCHANGED answer

Release == ~busy /\ reply # Nothing /\ reply' = Nothing /\ UNCHANGED <<busy, answer>>

Next == Ask \/ GiveUp \/ Deliver \/ Release

SafeSpec == Init /\ [][Next]_vars

(* A request comes to an end. *)
Spec == SafeSpec /\ WF_vars(GiveUp \/ Deliver)
=============================================================================
