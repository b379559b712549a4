----------------------- MODULE RequestPipeline_proofs -----------------------
(* Proofs about RequestPipeline for any methods, statuses and either setting   *)
(* of preflightContinue.  The inductive invariant says what the place of the   *)
(* chain implies: before a route handler runs nothing has been sent, and a     *)
(* piped body belongs to a chain that has nothing left to write.               *)
EXTENDS RequestPipeline, TLAPS

EarlySteps == {"headers", "cors", "dispatch", "asset", "parse", "route", "parameters"}

ChainInv ==
  /\ pc \in EarlySteps => head = 0 /\ ~wroteItself /\ kind \in {"none", "asset"}
  /\ pc \in {"headers", "cors", "dispatch", "parse", "route", "parameters", "handler",
             "error", "write"}
     => kind = "none"
  /\ pc \in EarlySteps \cup {"handler"} => thrown = 0
  /\ pc = "headers" \/ headersSet
  /\ pc = "error" => thrown # 0
  /\ pc = "write" => result.status # 0
  /\ pc = "write" /\ thrown # 0 => result.status = thrown
  /\ ~wroteItself /\ pc \in {"handler", "error", "write"} => head = 0
  /\ pc = "catch" /\ ~wroteItself => head = 0 /\ (thrown = 500 \/ kind = "asset")
  /\ pc = "finally" /\ head = 0 => thrown = 0
  /\ head = 0 => resp # "ended"
  /\ kind \in {"data", "request"} => pc \in {"finally", "done"} /\ head # 0
  /\ kind = "none" <=> source = "none"
  /\ source = "flowing" => head # 0

IInv == TypeOK /\ ChainInv /\ NeverCrashes /\ HeadersFirst /\ ErrorStatusSent /\ BodyNotTruncated

(* The sets the provers need opened in every step.                             *)
LEMMA StatusFacts ==
  /\ {200, 204} \cup ReplyStatuses \cup ErrorStatuses \cup ParseErrors \cup RouteErrors
       \subseteq Statuses
  /\ 404 \in Statuses /\ 500 \in Statuses /\ 0 \notin Statuses
  /\ 0 \notin ReplyStatuses \cup ErrorStatuses \cup ParseErrors \cup RouteErrors
  /\ Statuses \subseteq Nat \ {0}
  BY PipelineAssumption DEF Statuses, ParseErrors, RouteErrors

LEMMA InitInv == Init => IInv
<1> SUFFICES ASSUME Init PROVE IInv
  OBVIOUS
<1>1. TypeOK
  BY DEF Init, TypeOK, NoResult, Sources
<1>2. ChainInv
  BY DEF Init, ChainInv, EarlySteps
<1> QED  BY <1>1, <1>2 DEF Init, IInv, NeverCrashes, HeadersFirst, ErrorStatusSent, BodyNotTruncated

LEMMA NextInv == IInv /\ [Next]_vars => IInv'
<1> SUFFICES ASSUME IInv, [Next]_vars PROVE IInv'
  OBVIOUS
<1> USE StatusFacts DEF IInv, TypeOK, ChainInv, NeverCrashes, HeadersFirst, ErrorStatusSent,
        BodyNotTruncated, EarlySteps, Sources, request, stream, response
<1>1. CASE SetHeaders
  BY <1>1 DEF SetHeaders, Goto
<1>2. CASE Cors
  BY <1>2 DEF Cors, Goto, End
<1>3. CASE DispatchAsset
  BY <1>3 DEF DispatchAsset
<1>4. CASE DispatchRoute
  BY <1>4 DEF DispatchRoute, Goto
<1>5. CASE AssetReadable
  <2>1. head = 0 /\ head' = 200 /\ pc' = "finally" /\ source # "flowing" /\ kind = "asset"
    BY <1>5 DEF AssetReadable, WriteHead
  <2>2. CASE method = "HEAD"
    BY <1>5, <2>1, <2>2 DEF AssetReadable, End
  <2>3. CASE method # "HEAD"
    BY <1>5, <2>1, <2>3 DEF AssetReadable
  <2> QED  BY <2>2, <2>3
<1>6. CASE AssetMissing
  BY <1>6 DEF AssetMissing
<1>7. CASE AssetUnreadable
  BY <1>7 DEF AssetUnreadable, End
<1>8. CASE ParseRequest
  <2>1. CASE Goto("route") /\ UNCHANGED <<request, headersSet, wroteItself, thrown, result>>
    BY <1>8, <2>1 DEF ParseRequest, Goto
  <2>2. ASSUME NEW s \in ParseErrors, Throw(s) PROVE IInv'
    <3>1. s \in Statuses /\ s # 0
      OBVIOUS
    <3> QED  BY <1>8, <2>2, <3>1 DEF ParseRequest, Goto, Throw
  <2> QED  BY <1>8, <2>1, <2>2 DEF ParseRequest
<1>9. CASE MatchRoute
  <2>1. CASE Goto("parameters") /\ UNCHANGED <<request, headersSet, wroteItself, thrown, result>>
    BY <1>9, <2>1 DEF MatchRoute, Goto
  <2>2. ASSUME NEW s \in RouteErrors, Throw(s) PROVE IInv'
    <3>1. s \in Statuses /\ s # 0
      OBVIOUS
    <3> QED  BY <1>9, <2>2, <3>1 DEF MatchRoute, Goto, Throw
  <2> QED  BY <1>9, <2>1, <2>2 DEF MatchRoute
<1>10. CASE HandlerWrites
  <2>1. CASE head = 0 /\ head' \in ReplyStatuses /\ wroteItself' = TRUE /\ UNCHANGED resp
    <3>1. head' \in Statuses /\ head' # 0
      BY <2>1
    <3> QED  BY <1>10, <2>1, <3>1 DEF HandlerWrites
  <2>2. CASE head # 0 /\ resp = "open" /\ End /\ UNCHANGED <<head, wroteItself>>
    BY <1>10, <2>2 DEF HandlerWrites, End
  <2> QED  BY <1>10, <2>1, <2>2 DEF HandlerWrites
<1>11. CASE HandlerReturns
  BY <1>11 DEF HandlerReturns, Goto
<1>12. CASE HandlerReturnsNothing
  BY <1>12 DEF HandlerReturnsNothing, Goto
<1>13. CASE HandlerThrows
  <2>1. ASSUME NEW s \in ErrorStatuses, Throw(s) PROVE IInv'
    <3>1. s \in Statuses /\ s # 0
      OBVIOUS
    <3> QED  BY <1>13, <2>1, <3>1 DEF HandlerThrows, Goto, Throw
  <2>2. CASE /\ thrown' = 500 /\ Goto("catch")
             /\ UNCHANGED <<request, headersSet, wroteItself, result>>
    BY <1>13, <2>2 DEF HandlerThrows, Goto
  <2>3. CASE \E s \in ErrorStatuses : Throw(s)
    BY <2>1, <2>3
  <2> QED  BY <1>13, <2>2, <2>3 DEF HandlerThrows, Goto
<1>14. CASE HandleError
  BY <1>14 DEF HandleError, IsRedirect, AddHeaderThrows, Goto
<1>15. CASE WriteResponse
  <2>1. CASE head # 0
    BY <1>15, <2>1 DEF WriteResponse, WriteHead
  <2>2. CASE head = 0
    <3>1. head' = result.status /\ head' \in Statuses /\ head' # 0 /\ pc' = "finally"
      BY <1>15, <2>2 DEF WriteResponse, WriteHead
    <3>2. CASE result.data = "none"
      BY <1>15, <2>2, <3>1, <3>2 DEF WriteResponse, End
    <3>3. CASE result.data # "none"
      <4>1. source' = "flowing" /\ kind' \in {"data", "request"} /\ resp' = resp
            /\ watched' \in BOOLEAN
        BY <1>15, <2>2, <3>3 DEF WriteResponse
      <4> QED  BY <1>15, <2>2, <3>1, <4>1 DEF WriteResponse
    <3> QED  BY <3>2, <3>3
  <2> QED  BY <2>1, <2>2
<1>16. CASE CatchError
  BY <1>16 DEF CatchError, WriteHead, End
<1>17. CASE Finally
  BY <1>17 DEF Finally, WriteHead, End
<1>18. CASE SourceEnds
  BY <1>18 DEF SourceEnds, End, Fixed
<1>19. CASE DataFails
  BY <1>19 DEF DataFails, Fixed
<1>20. CASE AssetBreaks
  BY <1>20 DEF AssetBreaks, End, Fixed
<1>21. CASE ClientDisconnects
  BY <1>21 DEF ClientDisconnects, Fixed
<1>22. CASE PumpReleases
  BY <1>22 DEF PumpReleases, Fixed
<1>23. CASE RequestBreaks
  BY <1>23 DEF RequestBreaks, Fixed
<1>24. CASE ReadParameters
  BY <1>24 DEF ReadParameters, Goto
<1>25. CASE UNCHANGED vars
  BY <1>25 DEF vars
<1> QED
  BY <1>1, <1>2, <1>3, <1>4, <1>5, <1>6, <1>7, <1>8, <1>9, <1>10, <1>11, <1>12, <1>13, <1>14, <1>15, <1>16, <1>17, <1>18, <1>19, <1>20, <1>21, <1>22, <1>23, <1>24, <1>25
     DEF Next, Middleware, AssetOpens, Parsing, HandlerSettles, Failsafe, Flow

(* The inductive invariant holds in every reachable state.                     *)
THEOREM Invariance == Spec => []IInv
  BY InitInv, NextInv, PTL DEF Spec

(* The variables keep their types.                                             *)
THEOREM TypeCorrect == Spec => []TypeOK
  BY Invariance, PTL DEF IInv

(* No writeHead throws where nothing catches it.                               *)
THEOREM FailsafeIsSafe == Spec => []NeverCrashes
  BY Invariance, PTL DEF IInv

(* No response leaves without the middleware's headers.                        *)
THEOREM HeadersOnEveryHead == Spec => []HeadersFirst
  BY Invariance, PTL DEF IInv

(* Errors under ParsingHttpHandler arrive with their own status.               *)
THEOREM ErrorsKeepStatus == Spec => []ErrorStatusSent
  BY Invariance, PTL DEF IInv

(* A broken reply stream never looks like a finished body.                     *)
THEOREM BodiesComplete == Spec => []BodyNotTruncated
  BY Invariance, PTL DEF IInv

-----------------------------------------------------------------------------
(* A step that the abstract exchange allows: the head is written once and may  *)
(* come with the end, or the response ends after its head, or it is cut.       *)
LEMMA ExchangeSteps ==
  ASSUME IInv, [Next]_vars
  PROVE  Exchange!Next \/ UNCHANGED <<head, resp>>
<1> USE StatusFacts DEF IInv, TypeOK, ChainInv, EarlySteps, Exchange!Next, Exchange!Answer,
        Exchange!Finish, Exchange!Cut, request, stream, response
<1>1. CASE Middleware
  <2>1. CASE Cors
    <3>1. CASE method = "OPTIONS" /\ ~PreflightContinue
      BY <2>1, <3>1 DEF Cors, End
    <3>2. CASE ~(method = "OPTIONS" /\ ~PreflightContinue)
      BY <2>1, <3>2 DEF Cors, Goto
    <3> QED  BY <3>1, <3>2
  <2>2. CASE SetHeaders \/ DispatchAsset \/ DispatchRoute
    BY <2>2 DEF SetHeaders, DispatchAsset, DispatchRoute, Goto
  <2> QED  BY <1>1, <2>1, <2>2 DEF Middleware
<1>2. CASE AssetOpens
  <2>1. CASE AssetReadable
    BY <2>1 DEF AssetReadable, WriteHead, End
  <2>2. CASE AssetMissing
    BY <2>2 DEF AssetMissing
  <2>3. CASE AssetUnreadable
    BY <2>3 DEF AssetUnreadable, End
  <2> QED  BY <1>2, <2>1, <2>2, <2>3 DEF AssetOpens
<1>3. CASE ParseRequest \/ MatchRoute \/ ReadParameters \/ HandleError
  BY <1>3 DEF ParseRequest, MatchRoute, ReadParameters, HandleError, IsRedirect, AddHeaderThrows, Goto, Throw
<1>4. CASE WriteResponse
  BY <1>4 DEF WriteResponse, WriteHead, End
<1>5. CASE HandlerWrites
  <2>1. CASE head = 0 /\ head' \in ReplyStatuses /\ wroteItself' = TRUE /\ UNCHANGED resp
    <3>1. head' \in Nat \ {0}
      BY <2>1
    <3> QED  BY <2>1, <3>1
  <2>2. CASE head # 0 /\ resp = "open" /\ End /\ UNCHANGED <<head, wroteItself>>
    BY <2>2 DEF End
  <2> QED  BY <1>5, <2>1, <2>2 DEF HandlerWrites
<1>6. CASE HandlerSettles
  BY <1>6 DEF HandlerSettles, HandlerReturns, HandlerReturnsNothing, HandlerThrows, Goto, Throw
<1>7. CASE Failsafe
  BY <1>7 DEF Failsafe, CatchError, Finally, WriteHead, End
<1>8. CASE Flow
  <2>1. CASE SourceEnds
    BY <2>1 DEF SourceEnds, End, Fixed
  <2>2. CASE DataFails \/ PumpReleases \/ RequestBreaks
    BY <2>2 DEF DataFails, PumpReleases, RequestBreaks, Fixed
  <2>3. CASE AssetBreaks
    BY <2>3 DEF AssetBreaks, End, Fixed
  <2> QED  BY <1>8, <2>1, <2>2, <2>3 DEF Flow
<1>9. CASE ClientDisconnects
  BY <1>9 DEF ClientDisconnects, Fixed
<1>10. CASE UNCHANGED vars
  BY <1>10 DEF vars
<1> QED
  BY <1>1, <1>2, <1>3, <1>4, <1>5, <1>6, <1>7, <1>8, <1>9, <1>10 DEF Next, Parsing

(* The chain of middlewares, handlers, failsafes and streams implements an     *)
(* exchange of one head and one end.                                           *)
THEOREM ImplementsExchange == Spec => ExchangeSpec
<1>1. Init => Exchange!Init
  BY DEF Init, Exchange!Init
<1>2. IInv /\ [Next]_vars => [Exchange!Next]_(Exchange!vars)
  BY ExchangeSteps DEF Exchange!vars
<1> QED  BY <1>1, <1>2, Invariance, PTL DEF Spec, ExchangeSpec, Exchange!Spec
=============================================================================
