---------------------------- MODULE HttpExchange ----------------------------
(* What the server owes one HTTP request, whatever handlers run in between:  *)
(* one status, sent before the response is over and never replaced, and one  *)
(* end, either finished by the server or cut with the connection.            *)
EXTENDS Naturals

VARIABLES status,    \* 0 until the response head is written
          outcome    \* "open", "ended" by the server, or "destroyed"

vars == <<status, outcome>>

Init == status = 0 /\ outcome = "open"

Answer == status = 0 /\ status' \in Nat \ {0} /\ outcome' \in {outcome, "ended"}
          /\ (outcome = "destroyed" => outcome' = outcome)
Finish == status # 0 /\ outcome = "open" /\ outcome' = "ended" /\ UNCHANGED status
Cut == outcome = "open" /\ outcome' = "destroyed" /\ UNCHANGED status

Next == Answer \/ Finish \/ Cut

Spec == Init /\ [][Next]_vars
=============================================================================
