--------------------------- MODULE RequestPipeline ---------------------------
(* One request through the server in the default configuration:              *)
(*   HandlerServerConfigurator (try / catch / finally around)                 *)
(*     Sequence[ Sequence[HeaderHandler, CorsHandler],                        *)
(*               Waterfall[StaticAssetHandler, ParsingHttpHandler] ]          *)
(* pc is where the promise chain of the request waits or runs next; between   *)
(* two steps of the chain the events of the streams and of the client happen. *)
(* Requests share no state, so one request shows what any of them can do.     *)
EXTENDS Naturals

CONSTANTS
  Methods,          \* request methods
  ReplyStatuses,    \* statuses route handlers reply with
  ErrorStatuses,    \* statuses of the HttpErrors route handlers throw
  Redirects,        \* those that RedirectHttpErrors carry
  PreflightContinue \* options_preflightContinue of the CorsHandler

ASSUME PipelineAssumption ==
  /\ PreflightContinue \in BOOLEAN
  /\ ReplyStatuses \subseteq Nat \ {0} /\ ErrorStatuses \subseteq Nat \ {0}
  /\ Redirects \subseteq ErrorStatuses

VARIABLES
  pc,           \* next step of the chain; "preflight" never resolves
  method, json, \* of the request: method; Content-Type is application/json
  headersSet,   \* HeaderHandler has run
  head,         \* status of the head, 0 while response.headersSent is false
  resp,         \* "open", "ended" (response.end()), "destroyed"
  wroteItself,  \* the route handler wrote the head on its own
  thrown,       \* status of the error the chain threw, 0 if none
  result,       \* the ResponseDescription to write: status and data
  source,       \* the stream behind the body, see Sources
  kind,         \* whose stream it is: "none", "asset", "data", "request"
  watched       \* pump listened to the response before it closed

vars == <<pc, method, json, headersSet, head, resp, wroteItself, thrown, result,
          source, kind, watched>>
request == <<method, json>>
stream == <<source, kind, watched>>
response == <<head, resp>>

Sources == {"none", "opening", "flowing", "ended", "failed", "destroyed"}
NoResult == [status |-> 0, data |-> "none"]
ParseErrors == {400, 500}         \* BasicRequestParser and the parsers it calls
RouteErrors == {400, 404, 405}    \* createAggregateError over the routes' 404s and 405s
Statuses == ReplyStatuses \cup ErrorStatuses \cup ParseErrors \cup RouteErrors \cup {200, 204}

TypeOK ==
  /\ pc \in {"headers", "cors", "preflight", "dispatch", "asset", "parse", "route",
             "parameters", "handler", "error", "write", "catch", "finally", "done", "crashed"}
  /\ method \in Methods /\ json \in BOOLEAN /\ headersSet \in BOOLEAN
  /\ head \in Statuses \cup {0} /\ thrown \in Statuses \cup {0}
  /\ resp \in {"open", "ended", "destroyed"} /\ wroteItself \in BOOLEAN
  /\ result \in [status : Statuses \cup {0}, data : {"none", "data", "request"}]
  /\ source \in Sources /\ kind \in {"none", "asset", "data", "request"}
  /\ watched \in BOOLEAN

Init ==
  /\ pc = "headers" /\ method \in Methods /\ json \in BOOLEAN
  /\ headersSet = FALSE /\ head = 0 /\ resp = "open" /\ wroteItself = FALSE
  /\ thrown = 0 /\ result = NoResult
  /\ source = "none" /\ kind = "none" /\ watched = FALSE

(* response.end(): nothing happens on a closed response.                      *)
End == resp' = IF resp = "open" THEN "ended" ELSE resp

\* Mutant: a second head replaces the first.
WriteHeadAgain(s, next, onThrow) == head' = s /\ pc' = next

(* response.writeHead(s) throws when the head has been sent.                  *)
WriteHead(s, next, onThrow) ==
  IF head = 0 THEN head' = s /\ pc' = next ELSE pc' = onThrow /\ UNCHANGED head

(* The chain moves on without touching the response or a stream.              *)
Goto(next) == pc' = next /\ UNCHANGED <<response, stream>>

Throw(s) == thrown' = s /\ Goto("error") /\ UNCHANGED <<request, headersSet, wroteItself, result>>

-----------------------------------------------------------------------------
\* Mutant: the headers are left out of a preflight.
SetHeadersOfReplies ==
  /\ pc = "headers" /\ headersSet' = (method # "OPTIONS")
  /\ Goto("cors")
  /\ UNCHANGED <<request, wroteItself, thrown, result>>

SetHeaders ==
  /\ pc = "headers" /\ headersSet' = TRUE
  /\ Goto("cors")
  /\ UNCHANGED <<request, wroteItself, thrown, result>>

(* cors() ends a preflight with 204 and does not call next(), the promise of  *)
(* CorsHandler.handle never settles.                                          *)
Cors ==
  /\ pc = "cors"
  /\ IF method = "OPTIONS" /\ ~PreflightContinue
     THEN head' = 204 /\ End /\ pc' = "preflight" /\ UNCHANGED stream
     ELSE Goto("dispatch")
  /\ UNCHANGED <<request, headersSet, wroteItself, thrown, result>>

(* The waterfall takes the StaticAssetHandler for a GET or HEAD of a          *)
(* configured path, and opens the file.                                       *)
DispatchAsset ==
  /\ pc = "dispatch" /\ method \in {"GET", "HEAD"}
  /\ pc' = "asset" /\ source' = "opening" /\ kind' = "asset"
  /\ UNCHANGED <<request, headersSet, response, wroteItself, thrown, result, watched>>

DispatchRoute ==
  /\ pc = "dispatch" /\ Goto("parse")
  /\ UNCHANGED <<request, headersSet, wroteItself, thrown, result>>

\* Mutant: a HEAD request does not destroy the file's stream.
AssetReadableLeft ==
  /\ pc = "asset" /\ source = "opening"
  /\ WriteHead(200, "finally", "crashed")
  /\ IF method = "HEAD" THEN End /\ UNCHANGED watched
                        ELSE watched' = (resp = "open") /\ UNCHANGED resp
  /\ source' = "flowing"
  /\ UNCHANGED <<request, headersSet, wroteItself, thrown, result, kind>>

(* asset.once('readable')                                                     *)
AssetReadable ==
  /\ pc = "asset" /\ source = "opening"
  /\ WriteHead(200, "finally", "crashed")
  /\ IF method = "HEAD"
     THEN End /\ source' = "destroyed" /\ UNCHANGED watched
     ELSE source' = "flowing" /\ watched' = (resp = "open") /\ UNCHANGED resp
  /\ UNCHANGED <<request, headersSet, wroteItself, thrown, result, kind>>

\* Mutant: the file system's error is passed on instead of a 404.
AssetMissingRaw ==
  /\ pc = "asset" /\ source = "opening"
  /\ source' = "failed" /\ thrown' = 34 /\ pc' = "catch"
  /\ UNCHANGED <<request, headersSet, response, wroteItself, result, kind, watched>>

(* asset.once('error') with ENOENT or EISDIR                                  *)
AssetMissing ==
  /\ pc = "asset" /\ source = "opening"
  /\ source' = "failed" /\ thrown' = 404 /\ pc' = "catch"
  /\ UNCHANGED <<request, headersSet, response, wroteItself, result, kind, watched>>

(* asset.once('error') otherwise, before the file was readable: end() sends   *)
(* the implicit head.                                                         *)
AssetUnreadable ==
  /\ pc = "asset" /\ source = "opening"
  /\ head' = 200 /\ End /\ source' = "destroyed" /\ pc' = "finally"
  /\ UNCHANGED <<request, headersSet, wroteItself, thrown, result, kind, watched>>

-----------------------------------------------------------------------------
(* ParsingHttpHandler.  RequestParser: no url or method, a bad or missing     *)
(* Host, a body without Content-Type (400), an URL that does not parse (500). *)
ParseRequest ==
  /\ pc = "parse"
  /\ \/ Goto("route") /\ UNCHANGED <<request, headersSet, wroteItself, thrown, result>>
     \/ \E s \in ParseErrors : Throw(s)

(* The routes' waterfall.                                                     *)
MatchRoute ==
  /\ pc = "route"
  /\ \/ Goto("parameters") /\ UNCHANGED <<request, headersSet, wroteItself, thrown, result>>
     \/ \E s \in RouteErrors : Throw(s)

(* A JSON body of one of these methods is read before the handler runs.       *)
MethodsWithBody == {"POST", "PATCH", "PUT", "DELETE"}
AwaitsBody == json /\ method \in MethodsWithBody

(* The parameters of the path, the query and the body.  An awaited body comes *)
(* at the client's pace; one that breaks off or is no JSON counts as {}.      *)
ReadParameters ==
  /\ pc = "parameters" /\ Goto("handler")
  /\ UNCHANGED <<request, headersSet, wroteItself, thrown, result>>

(* External: what a RouteHandler may do with the response it is passed and    *)
(* with its promise.  A handler that writes the response and returns nothing  *)
(* is taken to end it.                                                        *)
HandlerWrites ==
  /\ pc = "handler"
  /\ \/ /\ head = 0 /\ head' \in ReplyStatuses /\ wroteItself' = TRUE /\ UNCHANGED resp
     \/ /\ head # 0 /\ resp = "open" /\ End /\ UNCHANGED <<head, wroteItself>>
  /\ UNCHANGED <<pc, request, headersSet, thrown, result, stream>>

HandlerReturns ==
  /\ pc = "handler"
  /\ \E s \in ReplyStatuses, d \in {"none", "data", "request"} :
       result' = [status |-> s, data |-> d]
  /\ Goto("write")
  /\ UNCHANGED <<request, headersSet, wroteItself, thrown>>

HandlerReturnsNothing ==
  /\ pc = "handler" /\ (wroteItself => resp # "open")
  /\ Goto("finally")
  /\ UNCHANGED <<request, headersSet, wroteItself, thrown, result>>

HandlerThrows ==
  /\ pc = "handler"
  /\ \/ \E s \in ErrorStatuses : Throw(s)
     \/ thrown' = 500 /\ Goto("catch")   \* no Error: assertError throws it again
        /\ UNCHANGED <<request, headersSet, wroteItself, result>>

\* Mutant: every error is taken for an InternalServerError.
HandleErrorAs500 ==
  /\ pc = "error"
  /\ result' = [status |-> 500, data |-> "data"]
  /\ Goto("write")
  /\ UNCHANGED <<request, headersSet, wroteItself, thrown>>

(* RedirectingErrorHandler handles nothing else, and answers without a body.   *)
IsRedirect == thrown \in Redirects

(* A header can be added until the head has been sent.                        *)
AddHeaderThrows == head # 0

(* RedirectingErrorHandler for redirects; else SafeErrorHandler's text, whose *)
(* addHeader throws when a JSON request's head has been sent.                 *)
HandleError ==
  /\ pc = "error"
  /\ IF ~IsRedirect /\ json /\ AddHeaderThrows
     THEN Goto("catch") /\ UNCHANGED result
     ELSE /\ result' = [status |-> thrown,
                        data |-> IF IsRedirect THEN "none" ELSE "data"]
          /\ Goto("write")
  /\ UNCHANGED <<request, headersSet, wroteItself, thrown>>

(* BasicResponseWriter.handle                                                 *)
WriteResponse ==
  /\ pc = "write"
  /\ WriteHead(result.status, "finally", "catch")
  /\ CASE head # 0 -> UNCHANGED <<resp, stream>>
       [] head = 0 /\ result.data = "none" -> End /\ UNCHANGED stream
       [] OTHER -> /\ source' = "flowing" /\ kind' = result.data
                   /\ watched' = (resp = "open") /\ UNCHANGED resp
  /\ UNCHANGED <<request, headersSet, wroteItself, thrown, result>>

-----------------------------------------------------------------------------
\* Mutants: the catch does not ask for headersSent; it does not end a response
\* whose head has been sent.
CatchErrorBlind ==
  /\ pc = "catch" /\ End /\ WriteHead(500, "finally", "crashed")
  /\ UNCHANGED <<request, headersSet, wroteItself, thrown, result, stream>>
CatchErrorNoEnd ==
  /\ pc = "catch"
  /\ IF head # 0 THEN pc' = "finally" /\ UNCHANGED response
                 ELSE WriteHead(500, "finally", "crashed") /\ End
  /\ UNCHANGED <<request, headersSet, wroteItself, thrown, result, stream>>

(* HandlerServerConfigurator                                                  *)
CatchError ==
  /\ pc = "catch" /\ End
  /\ IF head # 0 THEN pc' = "finally" /\ UNCHANGED head
                 ELSE WriteHead(500, "finally", "crashed")
  /\ UNCHANGED <<request, headersSet, wroteItself, thrown, result, stream>>

Finally ==
  /\ pc = "finally"
  /\ IF head # 0 THEN pc' = "done" /\ UNCHANGED response
                 ELSE WriteHead(404, "done", "crashed") /\ End
  /\ UNCHANGED <<request, headersSet, wroteItself, thrown, result, stream>>

-----------------------------------------------------------------------------
(* Streams and client.                                                        *)
Fixed == UNCHANGED <<pc, request, headersSet, head, wroteItself, thrown, result, kind, watched>>

SourceEnds ==
  /\ source = "flowing" /\ source' = "ended" /\ End /\ Fixed

\* Mutant: the response is finished when its source breaks.
DataFailsEnds ==
  /\ source = "flowing" /\ kind = "data" /\ source' = "failed" /\ End /\ Fixed

(* pump destroys both ends of the pipe.                                       *)
DataFails ==
  /\ source = "flowing" /\ kind = "data" /\ source' = "failed"
  /\ resp' = IF resp = "open" THEN "destroyed" ELSE resp
  /\ Fixed

(* The asset's own error listener runs before pump's: it ends the response,   *)
(* then pump destroys it, which may or may not outrun the final bytes.        *)
AssetBreaks ==
  /\ source = "flowing" /\ kind = "asset" /\ source' = "failed"
  /\ \/ End
     \/ resp = "open" /\ resp' = "destroyed"
  /\ Fixed

ClientDisconnects ==
  /\ resp = "open" /\ resp' = "destroyed"
  /\ UNCHANGED source /\ Fixed

(* pump sees the response close and destroys the source.                      *)
PumpReleases ==
  /\ source = "flowing" /\ kind # "request" /\ watched /\ resp # "open"
  /\ source' = "destroyed" /\ UNCHANGED resp /\ Fixed

(* The request is on the connection of the response: it errors with it.       *)
RequestBreaks ==
  /\ source = "flowing" /\ kind = "request" /\ resp # "open"
  /\ source' = "failed" /\ UNCHANGED resp /\ Fixed

Middleware == SetHeaders \/ Cors \/ DispatchAsset \/ DispatchRoute
AssetOpens == AssetReadable \/ AssetMissing \/ AssetUnreadable
HandlerSettles == HandlerReturns \/ HandlerReturnsNothing \/ HandlerThrows
Parsing == ParseRequest \/ MatchRoute \/ HandleError \/ WriteResponse
Failsafe == CatchError \/ Finally
Flow == SourceEnds \/ DataFails \/ AssetBreaks \/ PumpReleases \/ RequestBreaks

Next ==
  \/ Middleware \/ AssetOpens \/ Parsing \/ ReadParameters \/ HandlerWrites \/ HandlerSettles \/ Failsafe
  \/ Flow \/ ClientDisconnects

Spec == Init /\ [][Next]_vars

(* The event loop runs every continuation that is ready, the file system      *)
(* answers an open, and pump and the request hear that the response closed.   *)
(* Nothing is assumed of the client, who may leave, stop sending its body or  *)
(* stop reading the response (src/ sets no timeout), of the route handlers,   *)
(* or of the streams they reply with.                                         *)
Fairness ==
  /\ WF_vars(Middleware) /\ WF_vars(AssetOpens) /\ WF_vars(Parsing) /\ WF_vars(Failsafe)
  /\ WF_vars(~AwaitsBody /\ ReadParameters)
  /\ WF_vars(PumpReleases) /\ WF_vars(RequestBreaks)
FairSpec == Spec /\ Fairness

-----------------------------------------------------------------------------
(* The failsafe does not need one: no writeHead throws outside the try, in    *)
(* the catch, the finally or the file's readable callback.                    *)
NeverCrashes == pc # "crashed"

(* Every head that leaves carries the middleware's headers, the failsafes'    *)
(* 500 and 404 and the preflight included.                                    *)
HeadersFirst == head # 0 => headersSet

(* An error thrown under ParsingHttpHandler reaches the client as its own     *)
(* status, unless the handler had answered itself.                            *)
ErrorStatusSent ==
  thrown # 0 /\ head # 0 /\ ~wroteItself /\ kind # "asset" => head = thrown

(* A body that is piped from a reply's stream is finished only when its       *)
(* source has been read to the end: a broken source cuts the connection.      *)
BodyNotTruncated ==
  resp = "ended" /\ kind \in {"data", "request"} => source = "ended"

(* One status and one end for every request.                                  *)
Exchange == INSTANCE HttpExchange WITH status <- head, outcome <- resp
ExchangeSpec == Exchange!Spec

(* The request waits for somebody else: the client's JSON body, the route     *)
(* handler, or the two ends of a pipe, the source that has more to come and   *)
(* the client that reads it.                                                  *)
WaitsForOthers ==
  \/ pc = "parameters" /\ AwaitsBody
  \/ pc = "handler"
  \/ source = "flowing" /\ watched

(* The server never leaves a request hanging on its own account: one that is  *)
(* not over for good, ended or with its connection gone, waits for somebody   *)
(* else.  A client, handler or source that stalls can keep it open forever.   *)
Answered == []<>(resp # "open" \/ WaitsForOthers)

(* Once the response is over, a pipe does not keep its file or stream open,   *)
(* and a HEAD request does not leave the file open.                           *)
SourceReleased ==
  source = "flowing" /\ resp # "open" /\ (watched \/ (method = "HEAD" /\ kind = "asset"))
    ~> source # "flowing"

(* StaticAssetHandler.ts:117: "When the file if not found or a folder, signal *)
(* a 404".                                                                    *)
MissingAssetIs404 == kind = "asset" /\ thrown = 404 /\ resp = "ended" => head = 404

(* StaticAssetHandler.ts:94: "Write a 200 response when the asset becomes     *)
(* readable".                                                                 *)
AssetSuccessWasReadable ==
  [][kind = "asset" /\ head = 0 /\ head' = 200 => source' = "flowing" \/ method = "HEAD"]_vars
=============================================================================
