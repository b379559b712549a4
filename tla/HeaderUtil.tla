---------------------------- MODULE HeaderUtil ----------------------------
(***************************************************************************)
(* util/HeaderUtil.ts: the parsers of HTTP headers.                        *)
(*                                                                         *)
(* A header is a sequence of symbols: words, and the delimiters the        *)
(* parsers split on.  White space around a symbol is left out, as every    *)
(* parser trims it.  A word is a token or a media range.  A parser refuses *)
(* a header (BadRequestHttpError, 400) or returns a value.                 *)
(***************************************************************************)
EXTENDS Naturals, SequencesExt

Quote     == "quote"
Backslash == "backslash"
Control   == "control"      \* a character that no quoted string may hold

CONSTANTS
    MediaRanges,    \* the words of the form type/subtype
    LanguageTags,   \* the words that are language ranges, without *
    Dates,          \* the words that are dates of RFC 1123
    QWeight,        \* the weight, in thousandths, of every valid q value
    ObjectMembers,  \* the words that name a member of every object
    MaxHeader       \* the longest header Node takes

ASSUME WeightsAssumption == QWeight \in [DOMAIN QWeight -> 0..1000]

\* The decimal numerals are words of their own.
ASSUME NumeralsAssumption ==
    MaxHeader \in Nat /\ \A n \in 0..MaxHeader :
        /\ ToString(n) \in STRING \ {",", ";", "=", Quote, Backslash}
        /\ \A m \in 0..MaxHeader : ToString(m) = ToString(n) => m = n

Refused  == [refused |-> TRUE, value |-> <<>>]
Parsed(v) == [refused |-> FALSE, value |-> v]

\* What Array.map returns when its callback may throw.
ParsedAll(results) ==
    IF \E i \in DOMAIN results : results[i].refused THEN Refused
    ELSE Parsed([i \in DOMAIN results |-> results[i].value])

\* The text between the separators, like String.split.
SplitOn(text, separator) ==
    FoldLeft(LAMBDA parts, s :
                 IF s = separator THEN Append(parts, <<>>)
                 ELSE Append(Front(parts), Append(Last(parts), s)),
             << <<>> >>, text)

NonEmpty(parts) ==
    FlattenSeq([i \in DOMAIN parts |-> IF parts[i] = <<>> THEN <<>> ELSE <<parts[i]>>])

splitAndClean(input) == NonEmpty(SplitOn(input, ","))

\* The regular expression token; its class +-. holds the comma as well.
IsToken(text) ==
    /\ text # <<>>
    /\ \A i \in DOMAIN text :
          text[i] \notin MediaRanges \cup {";", "=", "<", ">", Quote, Backslash, Control}

\* The regular expression mediaRange is not anchored: it is enough that a
\* media range occurs in the text.
HasMediaRange(text) == \E i \in DOMAIN text : text[i] \in MediaRanges

IsQValue(text) == Len(text) = 1 /\ text[1] \in DOMAIN QWeight

---------------------------------------------------------------------------
(* Quoted strings.                                                         *)

\* An atom of a text: a symbol, or a quoted string and its number.
Symbol(s)         == [string |-> 0, text |-> <<s>>]
String(n, string) == [string |-> n, text |-> string]

\* The atoms of a text and its quoted strings: the matches of the regular
\* expression.  A quote that is never closed is a symbol.
Lexed(input) ==
    LET Read(acc, s) ==
            IF ~acc.open
            THEN IF s = Quote THEN [acc EXCEPT !.open = TRUE, !.string = <<>>]
                 ELSE [acc EXCEPT !.atoms = Append(@, Symbol(s))]
            ELSE IF s = Quote /\ ~acc.escaped
                 THEN [acc EXCEPT !.open = FALSE,
                                  !.strings = Append(@, acc.string),
                                  !.atoms = Append(@, String(Len(acc.strings) + 1, acc.string))]
                 ELSE [acc EXCEPT !.string = Append(@, s),
                                  !.escaped = s = Backslash /\ ~@]
        last == FoldLeft(Read,
                         [atoms |-> <<>>, strings |-> <<>>, open |-> FALSE,
                          escaped |-> FALSE, string |-> <<>>],
                         input)
        rest == IF last.open THEN <<Quote>> \o last.string ELSE <<>>
    IN [atoms   |-> last.atoms \o [i \in DOMAIN rest |-> Symbol(rest[i])],
        strings |-> last.strings]

\* Mutant: the counter of the quoted strings does not advance.
PlaceholderFixed(n) == <<Quote, "0", Quote>>

\* What stands for the n-th quoted string in the transformed text.
Placeholder(n) == <<Quote, ToString(n - 1), Quote>>

\* The text of some atoms, every quoted string replaced by "0", "1" and so on.
Spell(atoms) ==
    FlattenSeq([i \in DOMAIN atoms |->
        IF atoms[i].string = 0 THEN atoms[i].text ELSE Placeholder(atoms[i].string)])

\* A control character in a quoted string is refused.
HasControl(strings) == \E i \in DOMAIN strings : Contains(strings[i], Control)

transformQuotedStrings(input) ==
    LET lexed == Lexed(input)
    IN [result       |-> Spell(lexed.atoms),
        replacements |-> lexed.strings,
        refused      |-> HasControl(lexed.strings)]

---------------------------------------------------------------------------
(* Parameters.                                                             *)

\* What replacements has under a name that every object has: no text.
Inherited(text) == <<Control>> \o text

\* A parameter is name or name=value; of a=b=c only a and b are read.  The
\* missing value is the empty text.
parseParameter(param, replacements) ==
    LET pieces   == SplitOn(param, "=")
        name     == pieces[1]
        rawValue == IF Len(pieces) > 1 THEN pieces[2] ELSE <<>>
        quoted   == {n \in DOMAIN replacements : Placeholder(n) = rawValue}
        value    == IF quoted # {} THEN replacements[CHOOSE n \in quoted : TRUE]
                    ELSE IF rawValue \in {<<m>> : m \in ObjectMembers} THEN Inherited(rawValue)
                    ELSE rawValue
    IN IF IsToken(name) /\ (rawValue = <<>> \/ quoted # {} \/ IsToken(rawValue))
       THEN Parsed([name |-> name, value |-> value])
       ELSE Refused

parseParameters(parameters, replacements) ==
    ParsedAll([i \in DOMAIN parameters |->
                   parseParameter(parameters[i], replacements)])

\* map[name] = value
Assigned(map, name, value) == (name :> value) @@ map

---------------------------------------------------------------------------
(* Accept headers.                                                         *)

\* The entries by falling weight; entries of one weight keep their order.
SortedByWeight(entries) ==
    LET NotAfter(i) == {j \in DOMAIN entries :
                           \/ entries[j].weight > entries[i].weight
                           \/ entries[j].weight = entries[i].weight /\ j <= i}
    IN [k \in DOMAIN entries |->
           entries[CHOOSE i \in DOMAIN entries : Cardinality(NotAfter(i)) = k]]

\* A media range with its parameters.  Parameters before q belong to the
\* media type and need a value, those after it are extensions; a later q
\* replaces the weight.
AcceptEntry(range, params) ==
    LET Read(acc, p) ==
            CASE p.name = <<"q">> /\ IsQValue(p.value) ->
                    [acc EXCEPT !.weight = QWeight[p.value[1]], !.afterQ = TRUE]
              [] p.name # <<"q">> /\ acc.afterQ ->
                    [acc EXCEPT !.extension = Assigned(@, p.name, p.value)]
              [] p.name # <<"q">> /\ ~acc.afterQ /\ p.value # <<>> ->
                    [acc EXCEPT !.mediaType = Assigned(@, p.name, p.value)]
              [] OTHER ->
                    [acc EXCEPT !.valid = FALSE]
        read == FoldLeft(Read,
                         [weight |-> 1000, afterQ |-> FALSE, valid |-> TRUE,
                          mediaType |-> <<>>, extension |-> <<>>],
                         params.value)
    IN IF HasMediaRange(range) /\ ~params.refused /\ read.valid
       THEN Parsed([range |-> range, weight |-> read.weight,
                    mediaType |-> read.mediaType, extension |-> read.extension])
       ELSE Refused

parseAcceptPart(part, replacements) ==
    LET pieces == SplitOn(part, ";")
    IN AcceptEntry(pieces[1], parseParameters(Tail(pieces), replacements))

parseAccept(input) ==
    LET text  == transformQuotedStrings(input)
        parts == splitAndClean(text.result)
    IN IF text.refused THEN Refused
       ELSE [ParsedAll([i \in DOMAIN parts |->
                            parseAcceptPart(parts[i], text.replacements)])
                EXCEPT !.value = SortedByWeight(@)]

\* The other Accept headers: of what follows the range only the first piece
\* is read, and must be a q value.
parseRange(part) ==
    LET pieces == SplitOn(part, ";")
        qvalue == IF Len(pieces) > 1 THEN pieces[2] ELSE <<>>
        value  == SubSeq(qvalue, 3, Len(qvalue))
    IN CASE qvalue = <<>> ->
               Parsed([range |-> pieces[1], weight |-> 1000])
         [] IsPrefix(<<"q", "=">>, qvalue) /\ IsQValue(value) ->
               Parsed([range |-> pieces[1], weight |-> QWeight[value[1]]])
         [] OTHER -> Refused

parseNoParameters(input) ==
    LET parts == splitAndClean(input)
    IN [ParsedAll([i \in DOMAIN parts |-> parseRange(parts[i])]) EXCEPT !.value = SortedByWeight(@)]

parseAcceptCharset(input) ==
    LET all == parseNoParameters(input)
    IN IF \A i \in DOMAIN all.value : IsToken(all.value[i].range) THEN all ELSE Refused

parseAcceptEncoding(input) ==
    LET all == parseNoParameters(input)
    IN IF \A i \in DOMAIN all.value : IsToken(all.value[i].range) THEN all ELSE Refused

IsLanguageRange(text) == Len(text) = 1 /\ text[1] \in LanguageTags \cup {"*"}

parseAcceptLanguage(input) ==
    LET all == parseNoParameters(input)
    IN IF \A i \in DOMAIN all.value : IsLanguageRange(all.value[i].range) THEN all ELSE Refused

parseAcceptDateTime(input) ==
    CASE input = <<>>                              -> Parsed(<<>>)
      [] Len(input) = 1 /\ input[1] \in Dates ->
            Parsed(<<[range |-> input, weight |-> 1000]>>)
      [] OTHER                                     -> Refused

---------------------------------------------------------------------------
(* Content-Type, Link, Forwarded.                                          *)

\* The last of several parameters with one name counts.
parseContentType(input) ==
    LET text   == transformQuotedStrings(input)
        pieces == SplitOn(text.result, ";")
        params == parseParameters(Tail(pieces), text.replacements)
    IN IF text.refused \/ ~HasMediaRange(pieces[1]) \/ params.refused THEN Refused
       ELSE Parsed([value      |-> pieces[1],
                    parameters |-> FoldLeft(LAMBDA map, p : Assigned(map, p.name, p.value),
                                            <<>>, params.value)])

\* A link value without a target in angle brackets is skipped before its
\* parameters are looked at, one without rel after; the first rel counts.
\* The empty target passes the test.
LinkEntry(target, params) ==
    LET map == FoldLeft(LAMBDA m, p :
                            IF p.name = <<"rel">> /\ p.name \in DOMAIN m THEN m
                            ELSE Assigned(m, p.name, p.value),
                        <<>>, params.value)
    IN CASE target # <<>> /\ (Head(target) # "<" \/ Last(target) # ">") -> Parsed(<<>>)
         [] OTHER ->
              IF params.refused THEN Refused
              ELSE IF <<"rel">> \notin DOMAIN map THEN Parsed(<<>>)
              ELSE Parsed(<<[target     |-> SubSeq(target, 2, Len(target) - 1),
                             parameters |-> map]>>)

parseLinkPart(part, replacements) ==
    LET pieces == SplitOn(part, ";")
    IN LinkEntry(pieces[1], parseParameters(Tail(pieces), replacements))

parseLinkHeader(link) ==
    LET Entry(input) ==
            LET text  == transformQuotedStrings(input)
                parts == splitAndClean(text.result)
            IN IF text.refused THEN Refused
               ELSE ParsedAll([i \in DOMAIN parts |->
                                   parseLinkPart(parts[i], text.replacements)])
    IN [ParsedAll([i \in DOMAIN link |-> Entry(link[i])])
           EXCEPT !.value = FlattenSeq(FlattenSeq(@))]

\* headers.forwarded is a sequence of elements, each of name/value pairs;
\* only the first element counts, and in it the last pair of a name.  The
\* X-Forwarded headers, each a sequence of values, count when there is no
\* Forwarded header.
parseForwarded(headers) ==
    IF headers.forwarded # <<>>
    THEN LET pairs        == Head(headers.forwarded)
             Places(name) == {i \in DOMAIN pairs : pairs[i][1] = name}
         IN [name \in {n \in {"by", "for", "host", "proto"} : Places(n) # {}} |->
                pairs[Max(Places(name))][2]]
    ELSE [suffix \in {s \in {"host", "proto"} : headers.xForwarded[s] # <<>>} |->
              Head(headers.xForwarded[suffix])]
============================================================================
