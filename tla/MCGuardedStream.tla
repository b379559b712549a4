--------------------------- MODULE MCGuardedStream ---------------------------
(* Bounds for TLC: three errors, so that a batch of two and a later error, or *)
(* three batches of one, exist; two listeners, one of them attached by once().*)
EXTENDS GuardedStream
CONSTANTS e1, e2, e3, persistent, oneShot
MCErrors == {e1, e2, e3}
MCListeners == {persistent, oneShot}
MCOnce == {oneShot}
=============================================================================
