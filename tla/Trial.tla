-------------------------------- MODULE Trial --------------------------------
(* A function of the code is tried on one input after another: a step away *)
(* from the start tries one, the next step goes back.                      *)
VARIABLES
  subject,   \* what is tried
  input,     \* what it is tried on
  result     \* what it makes of it

trialVars == <<subject, input, result>>

AtStart == subject = "none"
Start == AtStart /\ input = "none" /\ result = "none"

Try(s, i, r) == AtStart /\ subject' = s /\ input' = i /\ result' = r
Again == ~AtStart /\ subject' = "none" /\ input' = "none" /\ result' = "none"
=============================================================================
