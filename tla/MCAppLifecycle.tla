---------------------------- MODULE MCAppLifecycle ----------------------------
(* Two schedules, so that one may fail while the other is on its way; two      *)
(* requests, so that one may finish before and one during a stop.              *)
EXTENDS AppLifecycle

CONSTANTS s1, s2, r1, r2

MCSchedules == {s1, s2}
MCRequests == {r1, r2}
MCCallbacks == {"database", "plain"}
=============================================================================
