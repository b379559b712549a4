---------------------------- MODULE ErrorDelivery ----------------------------
(* What a guarded stream promises about the errors its source raises         *)
(* (GuardedStream.ts, the comments on Guarded and guardStream): an error that *)
(* nobody listens to is held, an error is handed to the listeners at most     *)
(* once, and between the two it is never dropped and never copied.            *)
CONSTANT Errors      \* the errors the stream can raise, each at most once

VARIABLES held,      \* raised, and waiting for a listener
          handed     \* emitted to a listener that counts

vars == <<held, handed>>

Init == held = {} /\ handed = {}

(* The source raises e: a listener gets it at once, or it is held.            *)
Raise(e) ==
  /\ e \notin held \cup handed
  /\ \/ held' = held \cup {e} /\ UNCHANGED handed
     \/ handed' = handed \cup {e} /\ UNCHANGED held

(* A held error reaches a listener, and is held no more.                      *)
HandOver(e) ==
  /\ e \in held
  /\ held' = held \ {e}
  /\ handed' = handed \cup {e}

Next == \E e \in Errors : Raise(e) \/ HandOver(e)

Spec == Init /\ [][Next]_vars
=============================================================================
