-------------------------- MODULE MCRequestPipeline --------------------------
(* Bounds for TLC: one method of each sort the chain tells apart, two statuses *)
(* to reply with, a plain error and a redirect to throw.                       *)
EXTENDS RequestPipeline
MCMethods == {"OPTIONS", "GET", "HEAD", "POST"}
MCReplyStatuses == {200, 201}
MCErrorStatuses == {302, 403}
MCRedirects == {302}
=============================================================================
