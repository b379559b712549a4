--------------------------- MODULE RequestInput ---------------------------
(***************************************************************************)
(* What the server makes of one request: asset or route, URL, body,        *)
(* parameters, and the headers a route's handler reads with HeaderUtil.    *)
(*                                                                         *)
(* A path is a sequence of characters (or words) as the client spells      *)
(* them: [char, encoded], where encoded stands for the percent-encoded     *)
(* form.  A route's pattern is the sequence of segments behind its first   *)
(* slash, << <<>> >> for the path "/": a literal one is a sequence of      *)
(* characters, a parameter is <<Param, name>>.                             *)
(***************************************************************************)
EXTENDS HeaderUtil

CONSTANTS
    Requests,       \* sets of the requests a client may send
    Routes,         \* the sequence of configured routes
    Assets,         \* the configured asset paths; a folder ends with Slash
    Unreserved,     \* the characters encodeURIComponent leaves alone
    LowerCase       \* of each character that has one: its lower-case form

Param     == "param"
Slash     == [char |-> "/", encoded |-> FALSE]
Invalid   == "%"    \* a percent sign that starts no valid encoding

CONSTANTS
    AnySubdomain, NoSubdomain,
    NoHost,             \* the header is missing
    BadHost,            \* a host with a slash, a backslash or a star
    UnparsableHost,     \* a host no URL can have
    NoURL,
    Broken              \* a body that breaks off or is no JSON

Characters == [char : STRING, encoded : BOOLEAN]
Hosts      == {NoHost, BadHost, UnparsableHost} \cup Seq(STRING)

\* A configured subdomain has a label, spelled as URL spells hosts; no
\* literal holds a percent sign.
RouteRecords ==
    [method    : STRING,
     subdomain : {AnySubdomain, NoSubdomain} \cup SUBSET (Seq(STRING) \ {<<>>}),
     pattern   : Seq(Seq(STRING \ {Invalid}))]

\* The texts of a header.
Headers == {text \in Seq(STRING) : Len(text) <= MaxHeader}

ForwardedPairs == ({"host"} \X Hosts) \cup ((STRING \ {"host"}) \X STRING)

ASSUME RoutesAssumption ==
    AnySubdomain # NoSubdomain /\ Routes \in Seq(RouteRecords)

\* encodeURIComponent encodes both cases of a letter or none.
ASSUME CaseAssumption ==
    \A c \in DOMAIN LowerCase :
        LowerCase[c] \in STRING /\ (c \in Unreserved <=> LowerCase[c] \in Unreserved)

\* A request has the form the comment above describes; a host is a sequence
\* of labels.
ASSUME RequestsAssumption ==
    \A requests \in Requests : \A r \in requests :
        /\ r.path \in Seq(Characters)
        /\ r.headers.host \in Hosts
        /\ r.headers.forwarded \in Seq(Seq(ForwardedPairs))
        /\ r.headers.xForwarded.host \in Seq(Hosts)
        /\ r.headers.accept \in Headers /\ r.headers.preferences \in Headers
        /\ r.headers.link \in Seq(Headers)

VARIABLES
    request,    \* what the client sent
    stage,      \* the next step of the server, or how the request ended
    status,     \* the status of the error that ended it, 0 if none
    url,        \* what the URL extractor returned
    handler,    \* the route that handles the request, 0 if none
    body,       \* what the body parser returned
    params,     \* what the parameter extractor returned
    read        \* the headers the handler parsed

vars == <<request, stage, status, url, handler, body, params, read>>

NothingRead ==
    [name \in {"accept", "charset", "encoding", "language", "datetime", "link", "contentType"} |->
        Refused]

Init ==
    /\ \E requests \in Requests : request \in requests
    /\ stage = "dispatch"
    /\ status = 0
    /\ url = NoURL
    /\ handler = 0
    /\ body = "none"
    /\ params = <<>>
    /\ read = NothingRead

\* The request ends with an error of this status.
Fail(code) ==
    /\ stage' = "refused"
    /\ status' = code

---------------------------------------------------------------------------
(* Static assets.                                                          *)

IsFolder(asset) == Last(asset) = Slash

\* The configured paths that match the URL as it was spelled: a file as a
\* whole, a folder as a prefix of something.  A file goes first, then the
\* longest folder.
MatchingAssets(path) ==
    IF path \in Assets /\ ~IsFolder(path) THEN {path}
    ELSE LET folders == {a \in Assets : IsFolder(a) /\ IsStrictPrefix(a, path)}
         IN {a \in folders : \A b \in folders : Len(b) <= Len(a)}

HasDotDot(path) ==
    \E i \in 1..(Len(path) - 1) :
        path[i] = Slash /\ path[i + 1] = [char |-> "..", encoded |-> FALSE]

CanServeAsset ==
    /\ request.method \in {"GET", "HEAD"}
    /\ ~HasDotDot(request.path)
    /\ \E asset \in MatchingAssets(request.path) :
          \A i \in (Len(asset) + 1)..Len(request.path) : request.path[i].char # Invalid

\* The waterfall of the default configuration: assets first, then routes.
Dispatch ==
    /\ stage = "dispatch"
    /\ stage' = IF CanServeAsset THEN "asset" ELSE "extractUrl"
    /\ UNCHANGED <<request, status, url, handler, body, params, read>>

---------------------------------------------------------------------------
(* The URL.                                                                *)

IsDelimiter(c) == c.char \in {"/", "\\"}

\* Mutant: the path is used as it was spelled.
toCanonicalUriPathNot(path) == path

\* Slashes and backslashes stay as they are spelled; any other character is
\* decoded and encoded again, so that it is spelled in one way.
toCanonicalUriPath(path) ==
    [i \in DOMAIN path |->
        IF IsDelimiter(path[i]) THEN path[i]
        ELSE [path[i] EXCEPT !.encoded = path[i].char \notin Unreserved]]

\* What the URL object makes of a pathname: a backslash is a slash, the
\* segments . and .. are resolved.
Segments(pathname) ==
    LET slashed  == [i \in DOMAIN pathname |->
                        IF IsDelimiter(pathname[i]) /\ ~pathname[i].encoded
                        THEN Slash ELSE pathname[i]]
        split    == Tail(SplitOn(slashed, Slash))
        Dots(s)  == Len(s) = 1 /\ s[1].char \in {".", ".."}
        Up(done) == IF done = <<>> THEN done ELSE Front(done)
        Add(done, i) ==
            LET kept == IF ~Dots(split[i]) THEN Append(done, split[i])
                        ELSE IF split[i][1].char = "." THEN done ELSE Up(done)
            IN IF i = Len(split) /\ Dots(split[i]) THEN Append(kept, <<>>) ELSE kept
    IN FoldLeft(Add, <<>>, [i \in DOMAIN split |-> i])

\* The host the request was sent to, as a proxy may report it.
RequestHost ==
    LET forwarded == parseForwarded(request.headers)
    IN IF "host" \in DOMAIN forwarded THEN forwarded["host"] ELSE request.headers.host

RequestProtocol ==
    LET forwarded == parseForwarded(request.headers)
    IN IF "proto" \in DOMAIN forwarded THEN forwarded["proto"]
       ELSE IF request.tls THEN "https" ELSE "http"

\* A missing host and a bad one are refused; a host that is no part of a URL
\* and a path that cannot be decoded are errors of no HTTP class.
ExtractUrl ==
    /\ stage = "extractUrl"
    /\ IF RequestHost \in {NoHost, BadHost} THEN Fail(400) /\ UNCHANGED url
       ELSE IF \/ RequestHost = UnparsableHost
               \/ \E i \in DOMAIN request.path : request.path[i].char = Invalid
       THEN Fail(500) /\ UNCHANGED url
       ELSE /\ url' = [protocol |-> RequestProtocol,
                       host     |-> RequestHost,
                       segments |-> Segments(toCanonicalUriPath(request.path)),
                       search   |-> request.search]
            /\ stage' = "parseBody"
            /\ UNCHANGED status
    /\ UNCHANGED <<request, handler, body, params, read>>

---------------------------------------------------------------------------
(* The body.                                                               *)

\* RawBodyParser: no length, or a length of zero without a type, is no body;
\* a body needs a type.
ParseBody ==
    LET h       == request.headers
        typed   == h.contentType # <<>>
        present == \/ h.transferEncoding
                   \/ h.contentLength # "none" /\ ~(h.contentLength = "zero" /\ ~typed)
    IN /\ stage = "parseBody"
       /\ IF present /\ ~typed THEN Fail(400) /\ UNCHANGED body
          ELSE /\ body' = IF present THEN "request" ELSE "empty"
               /\ stage' = "route"
               /\ UNCHANGED status
       /\ UNCHANGED <<request, url, handler, params, read>>

---------------------------------------------------------------------------
(* The route.                                                              *)

\* All labels of the host but the last two.
Subdomain(host) == SubSeq(host, 1, Len(host) - 2)

MatchesSubdomain(route, host) ==
    IF route.subdomain = NoSubdomain THEN Subdomain(host) = <<>>
    ELSE /\ Subdomain(host) # <<>>
         /\ route.subdomain = AnySubdomain \/ Subdomain(host) \in route.subdomain

IsParam(segment) == Len(segment) = 2 /\ segment[1] = Param

Lower(char) == IF char \in DOMAIN LowerCase THEN LowerCase[char] ELSE char

\* pathToRegexp sets the flag i: a literal is compared without regard to case.
SameLiteral(segment, literal) ==
    /\ Len(segment) = Len(literal)
    /\ \A i \in DOMAIN literal :
          ~segment[i].encoded /\ Lower(segment[i].char) = Lower(literal[i])

\* A parameter takes a segment that is not empty; one delimiter more at the
\* end is optional, so that the route "/" takes "/" and "//".
MatchesPath(route, segments) ==
    LET n == Len(route.pattern)
    IN /\ Len(segments) = n \/ (Len(segments) = n + 1 /\ segments[n + 1] = <<>>)
       /\ \A i \in 1..n :
             IF IsParam(route.pattern[i]) THEN segments[i] # <<>>
             ELSE SameLiteral(segments[i], route.pattern[i])

\* The status with which a route declines, 0 if it takes the request.
Declines(route) ==
    IF route.method # request.method THEN 405
    ELSE IF MatchesSubdomain(route, url.host) /\ MatchesPath(route, url.segments) THEN 0
    ELSE 404

\* One status if all agree, else the class of the gravest.
AggregateStatus(statuses) ==
    IF Cardinality(statuses) = 1 THEN CHOOSE s \in statuses : TRUE
    ELSE IF \E s \in statuses : s >= 500 THEN 500 ELSE 400

\* findHandler: the first route that does not decline.
FindRoute ==
    LET taking == {i \in DOMAIN Routes : Declines(Routes[i]) = 0}
    IN /\ stage = "route"
       /\ IF taking = {}
          THEN /\ Fail(AggregateStatus({Declines(Routes[i]) : i \in DOMAIN Routes}))
               /\ UNCHANGED handler
          ELSE /\ handler' = Min(taking)
               /\ stage' = "parameters"
               /\ UNCHANGED status
       /\ UNCHANGED <<request, url, body, params, read>>

---------------------------------------------------------------------------
(* The parameters and the handler.                                         *)

\* The values of path parameters stay encoded.
PathParams ==
    LET pattern == Routes[handler].pattern
        places  == {i \in DOMAIN pattern : IsParam(pattern[i])}
    IN [name \in {pattern[i][2] : i \in places} |->
            url.segments[CHOOSE i \in places : pattern[i][2] = name]]

QueryParams == url.search

\* A body that breaks off or is no JSON counts as empty.
safeReadJsonStream(data) == IF data = Broken THEN <<>> ELSE data

\* Only a body whose type is application/json, without parameters, is read.
BodyParams ==
    IF /\ request.method \in {"POST", "PATCH", "PUT", "DELETE"}
       /\ request.headers.contentType = <<"application/json">>
       /\ body = "request"
    THEN safeReadJsonStream(request.json)
    ELSE <<>>

\* The path hides the query, the query hides the body.
Parameters == PathParams @@ QueryParams @@ BodyParams

ExtractParameters ==
    /\ stage = "parameters"
    /\ params' = Parameters
    /\ stage' = "handle"
    /\ UNCHANGED <<request, status, url, handler, body, read>>

\* What HeaderUtil returns for each header a handler may read.
ReadAll(h) ==
    [accept      |-> parseAccept(h.accept),
     charset     |-> parseAcceptCharset(h.preferences),
     encoding    |-> parseAcceptEncoding(h.preferences),
     language    |-> parseAcceptLanguage(h.preferences),
     datetime    |-> parseAcceptDateTime(h.datetime),
     link        |-> parseLinkHeader(h.link),
     contentType |-> IF h.contentType = <<>> THEN Parsed(<<>>)
                     ELSE parseContentType(h.contentType)]

\* The handler of an application reads some of the headers; a refused one
\* ends the request.
ReadHeaders ==
    /\ stage = "handle"
    /\ read' = ReadAll(request.headers)
    /\ IF \E name \in request.reads : read'[name].refused
       THEN Fail(400)
       ELSE stage' = "handled" /\ UNCHANGED status
    /\ UNCHANGED <<request, url, handler, body, params>>

Next ==
    \/ Dispatch
    \/ ExtractUrl
    \/ ParseBody
    \/ FindRoute
    \/ ExtractParameters
    \/ ReadHeaders

Spec == Init /\ [][Next]_vars

---------------------------------------------------------------------------
(* Properties.                                                             *)

\* The path as its author means it: every character decoded, an encoded
\* slash or backslash being a character of a segment and no delimiter.
Meant(path) ==
    [i \in DOMAIN path |->
        IF IsDelimiter(path[i]) THEN path[i] ELSE [path[i] EXCEPT !.encoded = FALSE]]

\* The pattern describes a path with these segments, up to the case of its
\* literals and one slash at the end.  A literal with a character that is
\* always encoded is out of reach.
MeansPath(pattern, segments) ==
    /\ Len(segments) \in {Len(pattern), Len(pattern) + 1}
    /\ \A i \in DOMAIN segments \ DOMAIN pattern : segments[i] = <<>>
    /\ \A i \in DOMAIN pattern :
          IF IsParam(pattern[i]) THEN segments[i] # <<>>
          ELSE SameLiteral(segments[i], pattern[i]) /\ ToSet(pattern[i]) \subseteq Unreserved

\* The routes configured for a request to this host, method and path.
WantedRoutes ==
    {i \in DOMAIN Routes :
        LET route  == Routes[i]
            labels == Len(RequestHost)
        IN /\ route.method = request.method
           /\ CASE route.subdomain = NoSubdomain  -> labels <= 2
                [] route.subdomain = AnySubdomain -> labels > 2
                [] OTHER -> \E name \in route.subdomain :
                                labels = Len(name) + 2 /\ IsPrefix(name, RequestHost)
           /\ MeansPath(route.pattern, Segments(Meant(request.path)))}

\* However a path is spelled, encoded or not, a request goes to the first
\* route configured for its method, its host and the meaning of its path; it
\* is refused at routing only if there is none.  (OriginalUrlExtractor,
\* PathUtil.toCanonicalUriPath, RouteMatchingRequestHandler, findHandler)
ServedIffConfigured ==
    /\ handler # 0 => WantedRoutes # {} /\ handler = Min(WantedRoutes)
    /\ stage = "refused" /\ handler = 0 /\ body # "none" => WantedRoutes = {}

\* The meaning of a header is read from its atoms, where a quoted string is
\* one symbol and carries its own text.
Written(atoms)  == FlattenSeq([i \in DOMAIN atoms |-> atoms[i].text])
Unquoted(atoms) == \A i \in DOMAIN atoms : atoms[i].string = 0

Elements(atoms) == NonEmpty(SplitOn(atoms, Symbol(",")))

\* A parameter: a token, and a token or a quoted string as its value.
ParameterMeant(param) ==
    LET pieces      == SplitOn(param, Symbol("="))
        name        == pieces[1]
        value       == IF Len(pieces) > 1 THEN pieces[2] ELSE <<>>
        Token(word) == Unquoted(word) /\ IsToken(Written(word))
    IN IF /\ Token(name)
          /\ value = <<>> \/ (Len(value) = 1 /\ ~Unquoted(value)) \/ Token(value)
       THEN Parsed([name |-> Written(name), value |-> Written(value)])
       ELSE Refused

ParametersMeant(parameters) ==
    ParsedAll([i \in DOMAIN parameters |-> ParameterMeant(parameters[i])])

\* The elements of a header, one by one.
AcceptMeant(text) ==
    LET parts == Elements(Lexed(text).atoms)
        Entry(part) == LET pieces == SplitOn(part, Symbol(";"))
                       IN AcceptEntry(Written(pieces[1]), ParametersMeant(Tail(pieces)))
    IN IF HasControl(Lexed(text).strings) THEN Refused
       ELSE [ParsedAll([i \in DOMAIN parts |-> Entry(parts[i])])
                EXCEPT !.value = SortedByWeight(@)]

LinksMeant(link) ==
    LET Entry(part) == LET pieces == SplitOn(part, Symbol(";"))
                       IN LinkEntry(Written(pieces[1]), ParametersMeant(Tail(pieces)))
        Links(text) == LET parts == Elements(Lexed(text).atoms)
                       IN IF HasControl(Lexed(text).strings) THEN Refused
                          ELSE ParsedAll([i \in DOMAIN parts |-> Entry(parts[i])])
    IN [ParsedAll([i \in DOMAIN link |-> Links(link[i])])
           EXCEPT !.value = FlattenSeq(FlattenSeq(@))]

\* The other Accept headers: what the parser makes of each element alone.
OneByOne(alone) ==
    IF \E i \in DOMAIN alone : alone[i].refused THEN Refused
    ELSE Parsed(SortedByWeight([i \in DOMAIN alone |-> alone[i].value[1]]))

LanguagesMeant(text) ==
    LET parts == splitAndClean(text)
    IN OneByOne([i \in DOMAIN parts |-> parseAcceptLanguage(parts[i])])

CharsetsMeant(text) ==
    LET parts == splitAndClean(text)
    IN OneByOne([i \in DOMAIN parts |-> parseAcceptCharset(parts[i])])

EncodingsMeant(text) ==
    LET parts == splitAndClean(text)
    IN OneByOne([i \in DOMAIN parts |-> parseAcceptEncoding(parts[i])])

\* No quoted string in front of the parameters of an element, where its number
\* stays in its place, and no word that replacements inherits.
Ordinary(text) ==
    LET atoms == Lexed(text).atoms
    IN /\ \A i \in DOMAIN Elements(atoms) :
              Unquoted(SplitOn(Elements(atoms)[i], Symbol(";"))[1])
       /\ \A i \in DOMAIN atoms :
              atoms[i].string = 0 => atoms[i].text \notin {<<m>> : m \in ObjectMembers}

\* A delimiter in a quoted string is text, and no string gets into the place
\* of another: an Accept or Link header means what its elements mean one by
\* one, and is refused if one of them is or if a string holds a control
\* character; so do the Accept headers without parameters.
\* (transformQuotedStrings, splitAndClean, parseParameters, parseAccept,
\* parseNoParameters, parseLinkHeader)
EntriesStandAlone ==
    LET h == request.headers
    IN handler # 0 /\ stage \in {"handled", "refused"} =>
        /\ Ordinary(h.accept) => read.accept = AcceptMeant(h.accept)
        /\ (\A i \in DOMAIN h.link : Ordinary(h.link[i])) => read.link = LinksMeant(h.link)
        /\ read.language = LanguagesMeant(h.preferences)
        /\ read.charset = CharsetsMeant(h.preferences)
        /\ read.encoding = EncodingsMeant(h.preferences)
============================================================================
