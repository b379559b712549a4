----------------------------- MODULE MCLazyLogger -----------------------------
(* Two classes, so that one may ask for its logger before and one after the    *)
(* switch; buffers without a space, with the warning's space only, and with    *)
(* room for two messages, which five messages overrun.                        *)
EXTENDS LazyLogger

CONSTANTS c1, c2, f1, f2

MCClasses == {c1, c2}
MCFactories == {f1, f2}
MCBufferSizes == {0, 1, 3}
=============================================================================
