-------------------------- MODULE MCRequestInput --------------------------
(***************************************************************************)
(* The requests of the TLC run: every spelling of some paths at every kind *)
(* of host, the header combinations that matter to the URL and the body,   *)
(* and the Accept and Link headers of up to two elements.                  *)
(***************************************************************************)
EXTENDS RequestInput

MCMediaRanges  == {"text/html", "application/json"}
MCLanguageTags == {"en"}
MCDates        == {"date"}
MCQWeight      == [v \in {"1", "0.5", "0"} |-> CASE v = "1" -> 1000 [] v = "0.5" -> 500 [] OTHER -> 0]
MCMembers      == {"constructor"}
MCUnreserved   == {"users", "USERS", "x", ".", ".."}
MCLowerCase    == [c \in {"USERS"} |-> "users"]

Literal(word) == <<word>>
MCRoutes ==
    << [method |-> "GET",  subdomain |-> NoSubdomain,        pattern |-> << <<>> >>],
       [method |-> "POST", subdomain |-> NoSubdomain,        pattern |-> <<Literal("users")>>],
       [method |-> "GET",  subdomain |-> NoSubdomain,        pattern |-> <<Literal("users"), <<Param, "id">> >>],
       [method |-> "GET",  subdomain |-> {<<"api">>},        pattern |-> <<Literal("users")>>],
       [method |-> "GET",  subdomain |-> AnySubdomain,       pattern |-> << <<Param, "page">> >>],
       [method |-> "GET",  subdomain |-> NoSubdomain,        pattern |-> <<Literal("@")>>] >>

Plainly(word) == [char |-> word, encoded |-> FALSE]
MCAssets == {<<Slash, Plainly("x")>>, <<Slash, Plainly("x"), Slash>>,
             <<Slash, Plainly("x"), Slash, Plainly("users"), Slash>>}

---------------------------------------------------------------------------
NoHeaders ==
    [host |-> <<"site", "com">>, forwarded |-> <<>>,
     xForwarded |-> [host |-> <<>>, proto |-> <<>>],
     contentType |-> <<>>, contentLength |-> "none", transferEncoding |-> FALSE,
     accept |-> <<>>, preferences |-> <<>>, datetime |-> <<>>, link |-> <<>>]

Base ==
    [method |-> "GET", path |-> <<Slash>>, search |-> <<>>, tls |-> FALSE,
     json |-> <<>>, reads |-> {}, headers |-> NoHeaders]

Chars == [char : {"/", "\\", "users", "USERS", "@", "x", "..", Invalid}, encoded : BOOLEAN]
Paths == {<<Slash>> \o p : p \in BoundedSeq(Chars, 3)}
HostNames == {<<"site", "com">>, <<"localhost">>, <<"api", "site", "com">>,
              <<"a", "b", "site", "com">>}

PathRequests ==
    {[Base EXCEPT !.method = m, !.path = p, !.headers.host = h] :
        m \in {"GET", "POST"}, p \in Paths, h \in HostNames}

HostRequests ==
    {[Base EXCEPT !.tls = t, !.headers.host = h, !.headers.forwarded = f,
                    !.headers.xForwarded = [host |-> x, proto |-> y]] :
        t \in BOOLEAN,
        h \in {NoHost, BadHost, UnparsableHost, <<"site", "com">>},
        f \in {<<>>, << <<>> >>,
               << << <<"host", <<"api", "site", "com">> >>, <<"proto", "https">> >> >>,
               << << <<"for", "a">>, <<"host", <<"other", "com">> >>, <<"host", BadHost>> >>,
                  << <<"host", <<"site", "com">> >> >> >>},
        x \in {<<>>, <<NoHost>>, << <<"api", "site", "com">>, <<"site", "com">> >>},
        y \in {<<>>, <<"https">>}}

BodyRequests ==
    {[Base EXCEPT !.method = m, !.path = p, !.json = j, !.reads = {"contentType"}, !.search = s,
                    !.headers.contentType = t, !.headers.contentLength = l,
                    !.headers.transferEncoding = e] :
        m \in {"GET", "POST", "OPTIONS"},
        p \in {<<Slash, Plainly("users")>>, <<Slash, Plainly("users"), Slash, Plainly("x")>>},
        j \in {<<>>, [id |-> <<"json">>, name |-> <<"json">>], Broken},
        s \in {<<>>, [id |-> <<"query">>]},
        t \in {<<>>, <<"application/json">>, <<"application/json", ";", "x", "=", "x">>, <<"x">>},
        l \in {"none", "zero", "some"}, e \in BOOLEAN}

---------------------------------------------------------------------------
Quoted(text) == <<Quote>> \o text \o <<Quote>>

WithParams(heads, options, n) ==
    {FlattenSeq(<<h>> \o [i \in DOMAIN o |-> <<";">> \o o[i]]) :
        h \in heads, o \in BoundedSeq(options, n)}

AcceptParts ==
    WithParams({<<"text/html">>, <<"x">>},
               {<<"q", "=", "1">>, <<"q", "=", "0.5">>, <<"q", "=", "x">>, <<"level">>,
                <<"level", "=", "x">>, <<"level", "=">> \o Quoted(<<"x", ",", "x">>),
                <<"level", "=">> \o Quoted(<<>>), <<"mxt", "=">> \o Quoted(<<Backslash, Quote, ";">>)}, 2)

\* Strings at the place of a name or beside a token, escaped backslashes,
\* control characters, words every object has, quotes that stay open.
OddParts ==
    WithParams({<<"text/html">>, <<"<", "x", ">">>},
               {<<"rel", "=", "x">>, Quoted(<<"x">>) \o <<"=", "x">>,
                <<"level", "=", "x">> \o Quoted(<<"x">>),
                <<"level", "=">> \o Quoted(<<Backslash, Backslash>>) \o <<"=">>,
                <<"level", "=">> \o Quoted(<<Control>>), <<"level", "=", "constructor">>,
                <<"level", "=", Quote, ",", "0">>, <<"level", "=">> \o Quoted(<<"0">>)}, 2)

LinkParts ==
    WithParams({<<"<", "x", ">">>, <<"x">>, <<>>},
               {<<"rel", "=", "x">>, <<"rel", "=">> \o Quoted(<<"x", ";", "x">>), <<"@", "=", "=">>,
                <<"title", "=">> \o Quoted(<<",">>), <<"=", "x">>}, 2)

Lists(parts, others) == {p \o <<",">> \o q : p \in parts, q \in {<<>>} \cup others}

AcceptRequests ==
    {[Base EXCEPT !.reads = {"accept"}, !.headers.accept = a] :
        a \in Lists(AcceptParts, {p \in AcceptParts : Len(p) \in {5, 7, 11}})
                \cup Lists(OddParts, {p \in OddParts : Len(p) \in {5, 7, 9}})}

LinkRequests ==
    {[Base EXCEPT !.reads = {"link"}, !.headers.link = <<l>> \o more] :
        l \in Lists(LinkParts, {p \in LinkParts : Len(p) \in {6, 9, 13}})
                \cup Lists(OddParts, {p \in OddParts : Len(p) \in {9, 10}}),
        more \in {<<>>, << <<"<", "x", ">", ";", "rel">> >>}}

PreferenceParts ==
    WithParams({<<"en">>, <<"x">>, <<"*">>, <<"text/html">>, <<>>},
               {<<"q", "=", "1">>, <<"q", "=", "0.5">>, <<"q", "=", "0">>, <<"q", "=", "x">>, <<"level">>}, 1)

PreferenceRequests ==
    {[Base EXCEPT !.reads = {r}, !.headers.preferences = p, !.headers.datetime = d] :
        r \in {"language", "charset", "datetime"}, d \in {<<>>, <<"date">>, <<"x">>},
        p \in Lists(PreferenceParts, PreferenceParts)}

MCRequests == {PreferenceRequests, PathRequests, HostRequests, BodyRequests, AcceptRequests, LinkRequests}
============================================================================
