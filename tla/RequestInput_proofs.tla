------------------------ MODULE RequestInput_proofs ------------------------
(***************************************************************************)
(* ServedIffConfigured and EntriesStandAlone for every configuration of    *)
(* routes and every request (RequestInput).                                *)
(*                                                                         *)
(* The heart of the first is CanonicalSegments: the canonical spelling of  *)
(* a path and the segments of its URL commute.  SplitOn, Segments and      *)
(* Lexed are folds; each becomes a run, a function from 0..n to what was   *)
(* read so far (SplitRuns, SegmentRuns, LexRuns), and a claim about a run  *)
(* is an induction up to its length (UpTo).                                *)
(*                                                                         *)
(* The heart of the second is SpellSplit: splitting the text in which the  *)
(* quoted strings are replaced, and splitting its atoms, commute (a        *)
(* separator is written by one atom and by it alone), and nothing in the   *)
(* pieces but a quoted string reads as one (BarePieces).  So every word of *)
(* a parameter says what its author wrote (WordTells), and every parser    *)
(* returns what its reference does (AcceptTold, LinksTold, LanguageTold,   *)
(* CharsetTold, EncodingTold).                                             *)
(***************************************************************************)
EXTENDS RequestInput, FoldLemmas, FiniteSetTheorems

\* What SplitOn (splitting a path at its slashes, a text at its commas) does with one more character.
SplitStep(parts, s, separator) ==
    IF s = separator THEN Append(parts, <<>>)
    ELSE Append(Front(parts), Append(Last(parts), s))

\* Several texts over D, at least one: what a split is.
Pieces(D) == {p \in Seq(Seq(D)) : p # <<>>}

\* A step of the split keeps its type: the text read last is there to go on.
LEMMA SplitStepType ==
    ASSUME NEW D, NEW separator, NEW parts \in Pieces(D), NEW s \in D \cup {separator}
    PROVE  SplitStep(parts, s, separator) \in Pieces(D)
<1>1. Len(parts) \in Nat \ {0} /\ parts \in Seq(Seq(D))
  BY EmptySeq DEF Pieces
<1>2. Last(parts) \in Seq(D)
  BY <1>1 DEF Last
<1>3. Front(parts) \in Seq(Seq(D))
  BY <1>1, SubSeqProperties DEF Front
<1>4. CASE s = separator
  BY <1>1, <1>4, AppendProperties DEF SplitStep, Pieces
<1>5. CASE s # separator
  <2>1. Append(Last(parts), s) \in Seq(D)
    BY <1>2, <1>5
  <2> DEFINE front == Front(parts)
             last  == Append(Last(parts), s)
  <2>2. front \in Seq(Seq(D)) /\ last \in Seq(D)
    BY <1>3, <2>1
  <2> HIDE DEF front, last
  <2>3. Append(front, last) \in Pieces(D)
    BY <2>2, AppendProperties DEF Pieces
  <2>4. QED BY <1>5, <2>3 DEF SplitStep, front, last
<1>6. QED BY <1>4, <1>5

\* The function FoldLeft unfolds to, on the sets of places that were read.
SplitIter(text, separator, iter) ==
    iter = [s \in SUBSET DOMAIN text |->
               IF s = {} THEN << <<>> >>
               ELSE SplitStep(iter[s \ {Max(s)}], text[Max(s)], separator)]

\* SplitOn is that function at all the places of the text.
LEMMA SplitIsIter ==
    ASSUME NEW text, NEW separator
    PROVE  SplitOn(text, separator) =
              (CHOOSE iter : SplitIter(text, separator, iter))[DOMAIN text]
BY DEF SplitOn, FoldLeft, MapThenFoldSet, SplitIter, SplitStep

\* What SplitOn has found after each character of a text.
SplitRun(run, D, text, separator) ==
    /\ run \in [0..Len(text) -> Pieces(D)]
    /\ run[0] = << <<>> >>
    /\ \A i \in 1..Len(text) : run[i] = SplitStep(run[i - 1], text[i], separator)
    /\ SplitOn(text, separator) = run[Len(text)]

\* The split of any text is a run over its characters, one SplitStep each, and has its type throughout.
LEMMA SplitRuns ==
    ASSUME NEW D, NEW separator, NEW text \in Seq(D \cup {separator})
    PROVE  \E run : SplitRun(run, D, text, separator)
<1> DEFINE n    == Len(text)
           E    == D \cup {separator}
           V    == Pieces(D)
           base == << <<>> >>
           step == [x \in V \X E |-> SplitStep(x[1], x[2], separator)]
<1>1. n \in Nat /\ DOMAIN text = 1..n /\ text \in [1..n -> E]
  BY LenProperties
<1>2. base \in V
  BY DEF Pieces
<1>3. step \in [V \X E -> V]
  BY SplitStepType
<1>4. \E iter \in [SUBSET (1..n) -> V] : FoldIter(n, base, step, text, iter)
  <2> HIDE DEF n, E, V, base, step
  <2> QED BY <1>1, <1>2, <1>3, FoldExists
<1>5. \E iter : SplitIter(text, separator, iter)
  <2>1. PICK iter \in [SUBSET (1..n) -> V] : FoldIter(n, base, step, text, iter)
    BY <1>4
  <2> HIDE DEF n, V, E
  <2>2. ASSUME NEW s \in SUBSET (1..n), s # {}
        PROVE  step[<<iter[s \ {Max(s)}], text[Max(s)]>>]
                  = SplitStep(iter[s \ {Max(s)}], text[Max(s)], separator)
    <3>1. Max(s) \in 1..n /\ s \ {Max(s)} \in SUBSET (1..n)
      BY <1>1, <2>2, MaxProperties
    <3>2. <<iter[s \ {Max(s)}], text[Max(s)]>> \in V \X E
      BY <1>1, <2>1, <3>1
    <3>3. QED BY <3>2
  <2>3. SplitIter(text, separator, iter)
    BY <1>1, <2>1, <2>2 DEF SplitIter, FoldIter
  <2>4. QED BY <2>3
<1> DEFINE it == CHOOSE iter : SplitIter(text, separator, iter)
<1>6. SplitIter(text, separator, it) /\ SplitOn(text, separator) = it[1..n]
  BY <1>1, <1>5, SplitIsIter
<1> HIDE DEF it
<1> DEFINE run == [i \in 0..n |-> it[1..i]]
<1>7. \A s \in SUBSET (1..n) :
         it[s] = IF s = {} THEN base ELSE SplitStep(it[s \ {Max(s)}], text[Max(s)], separator)
  BY <1>1, <1>6 DEF SplitIter
<1>8. run[0] = base /\ run[n] = it[1..n]
  <2>1. 1..0 = {} /\ {} \in SUBSET (1..n) /\ 0 \in 0..n /\ n \in 0..n
    BY <1>1
  <2>2. it[{}] = base
    BY <1>7, <2>1
  <2> HIDE DEF n, base
  <2>3. QED BY <2>1, <2>2
<1>9. ASSUME NEW i \in 1..n
      PROVE  run[i] = SplitStep(run[i - 1], text[i], separator)
  <2>1. i \in Nat \ {0} /\ 1..i \in SUBSET (1..n) /\ i \in 0..n /\ i - 1 \in 0..n
    BY <1>1
  <2>2. 1..i # {} /\ Max(1..i) = i /\ (1..i) \ {i} = 1..(i - 1)
    BY <2>1, MaxUpTo
  <2>3. it[1..i] = SplitStep(it[1..(i - 1)], text[i], separator)
    BY <1>7, <2>1, <2>2
  <2>4. QED BY <2>1, <2>3
<1>10. \A i \in 0..n : run[i] \in V
  <2> DEFINE P == {i \in 0..n : run[i] \in V}
  <2>1. 0 \in P
    BY <1>1, <1>2, <1>8
  <2>2. \A i \in 1..n : i - 1 \in P => i \in P
    <3> SUFFICES ASSUME NEW i \in 1..n, run[i - 1] \in V PROVE i \in 0..n /\ run[i] \in V
      OBVIOUS
    <3>1. text[i] \in D \cup {separator}
      BY <1>1
    <3> HIDE DEF run, n
    <3>2. SplitStep(run[i - 1], text[i], separator) \in V
      BY <3>1, SplitStepType
    <3>3. QED BY <1>1, <1>9, <3>2
  <2>3. 0..n \subseteq P
    <3> HIDE DEF P
    <3> QED BY <1>1, <2>1, <2>2, UpTo
  <2>4. QED BY <2>3
<1>11. run \in [0..n -> V]
  BY <1>10
<1>12. SplitRun(run, D, text, separator)
  BY <1>6, <1>8, <1>9, <1>11 DEF SplitRun
<1>13. QED BY <1>12

---------------------------------------------------------------------------
(* A function applied to every character of a text, of several texts.      *)

\* g applied to every character of a text, and of several texts.
Over(g, text)     == [i \in DOMAIN text |-> g[text[i]]]
OverAll(g, texts) == [i \in DOMAIN texts |-> Over(g, texts[i])]

\* The characters of one set become characters of the other.
Maps(g, D, D2) == \A d \in D : g[d] \in D2

\* Only the spelling of a character changes, not the character.
KeepsChar(g, D) == \A d \in D : g[d].char = d.char

\* A function on 1..n is a sequence.
LEMMA FunctionIsSeq ==
    ASSUME NEW S, NEW n \in Nat, NEW f \in [1..n -> S]
    PROVE  f \in Seq(S) /\ Len(f) = n /\ DOMAIN f = 1..n
<1>1. f \in Seq(S)
  BY SeqDef
<1>2. QED BY <1>1

\* Changing the characters of a text keeps its places.
LEMMA OverSeq ==
    ASSUME NEW D, NEW D2, NEW g, Maps(g, D, D2), NEW text \in Seq(D)
    PROVE  /\ Over(g, text) \in Seq(D2)
           /\ Len(Over(g, text)) = Len(text)
           /\ DOMAIN Over(g, text) = DOMAIN text
<1>1. Len(text) \in Nat /\ DOMAIN text = 1..Len(text) /\ \A i \in 1..Len(text) : text[i] \in D
  OBVIOUS
<1>2. Over(g, text) \in [1..Len(text) -> D2]
  BY <1>1 DEF Over, Maps
<1>3. QED BY <1>1, <1>2, FunctionIsSeq

\* The same for several texts.
LEMMA OverAllSeq ==
    ASSUME NEW D, NEW D2, NEW g, Maps(g, D, D2), NEW texts \in Seq(Seq(D))
    PROVE  /\ OverAll(g, texts) \in Seq(Seq(D2))
           /\ Len(OverAll(g, texts)) = Len(texts)
           /\ DOMAIN OverAll(g, texts) = DOMAIN texts
<1>1. Len(texts) \in Nat /\ DOMAIN texts = 1..Len(texts)
      /\ \A i \in 1..Len(texts) : texts[i] \in Seq(D)
  OBVIOUS
<1>2. OverAll(g, texts) \in [1..Len(texts) -> Seq(D2)]
  BY <1>1, OverSeq DEF OverAll
<1>3. QED BY <1>1, <1>2, FunctionIsSeq

\* Changing the characters commutes with appending one ...
LEMMA OverAppend ==
    ASSUME NEW D, NEW D2, NEW g, Maps(g, D, D2),
           NEW text \in Seq(D), NEW d \in D
    PROVE  Over(g, Append(text, d)) = Append(Over(g, text), g[d])
<1> DEFINE mapped == Over(g, text)
           longer == Append(text, d)
           left   == Over(g, longer)
           right  == Append(mapped, g[d])
<1>1. mapped \in Seq(D2) /\ Len(mapped) = Len(text) /\ g[d] \in D2
  BY OverSeq DEF Maps
<1>2. /\ longer \in Seq(D) /\ Len(longer) = Len(text) + 1
      /\ \A i \in 1..Len(text) : longer[i] = text[i]
      /\ longer[Len(text) + 1] = d
  BY AppendProperties
<1>3. left \in Seq(D2) /\ Len(left) = Len(longer) /\ DOMAIN left = 1..Len(longer)
  <2> HIDE DEF longer
  <2> QED BY <1>2, OverSeq, LenProperties
<1>4. /\ right \in Seq(D2) /\ Len(right) = Len(text) + 1
      /\ \A i \in 1..Len(text) : right[i] = mapped[i]
      /\ right[Len(text) + 1] = g[d]
  <2> HIDE DEF mapped
  <2> QED BY <1>1, AppendProperties
<1>5. /\ \A i \in 1..Len(text) : mapped[i] = g[text[i]]
      /\ \A i \in 1..Len(longer) : left[i] = g[longer[i]]
  <2> HIDE DEF longer
  <2> QED BY <1>2, LenProperties DEF Over
<1>6. left = right
  <2> HIDE DEF left, right, mapped, longer
  <2>1. Len(text) \in Nat
    OBVIOUS
  <2>2. \A i \in 1..Len(left) : left[i] = right[i]
    BY <1>2, <1>3, <1>4, <1>5, <2>1
  <2>3. QED BY <1>2, <1>3, <1>4, <2>2, SeqEqual
<1>7. QED BY <1>6

\* ... with appending a text ...
LEMMA OverAllAppend ==
    ASSUME NEW D, NEW D2, NEW g, Maps(g, D, D2),
           NEW texts \in Seq(Seq(D)), NEW text \in Seq(D)
    PROVE  OverAll(g, Append(texts, text)) = Append(OverAll(g, texts), Over(g, text))
<1> DEFINE all    == [t \in Seq(D) |-> Over(g, t)]
<1>1. Maps(all, Seq(D), Seq(D2))
  BY OverSeq DEF Maps
<1>2. Over(all, Append(texts, text)) = Append(Over(all, texts), all[text])
  <2> HIDE DEF all
  <2> QED BY <1>1, OverAppend
<1>3. \A t \in Seq(Seq(D)) : OverAll(g, t) = Over(all, t)
  BY DEF OverAll, Over
<1>4. Append(texts, text) \in Seq(Seq(D))
  OBVIOUS
<1>5. QED BY <1>2, <1>3, <1>4

\* ... with taking the last one off ...
LEMMA OverFront ==
    ASSUME NEW D, NEW D2, NEW g, Maps(g, D, D2),
           NEW text \in Seq(D), text # <<>>
    PROVE  /\ Front(text) \in Seq(D) /\ Last(text) \in D
           /\ Over(g, Front(text)) = Front(Over(g, text))
           /\ g[Last(text)] = Last(Over(g, text))
<1> DEFINE mapped == Over(g, text)
           front  == Front(text)
           left   == Over(g, front)
           right  == Front(mapped)
           n      == Len(text) - 1
<1>1. n \in Nat /\ DOMAIN text = 1..(n + 1) /\ Len(text) = n + 1
      /\ \A i \in 1..(n + 1) : text[i] \in D
  BY EmptySeq, LenProperties
<1> HIDE DEF n
<1>2. mapped \in Seq(D2) /\ Len(mapped) = n + 1
      /\ \A i \in 1..(n + 1) : mapped[i] = g[text[i]] /\ mapped[i] \in D2
  BY <1>1, OverSeq DEF Over, Maps
<1>3. front \in Seq(D) /\ Len(front) = n /\ \A i \in 1..n : front[i] = text[i]
  BY <1>1 DEF Front
<1>4. right \in Seq(D2) /\ Len(right) = n /\ \A i \in 1..n : right[i] = mapped[i]
  <2> HIDE DEF mapped
  <2> QED BY <1>1, <1>2 DEF Front
<1>5. left \in Seq(D2) /\ Len(left) = n /\ \A i \in 1..n : left[i] = g[front[i]]
  <2> HIDE DEF front
  <2>1. DOMAIN front = 1..n
    BY <1>3, LenProperties
  <2>2. left \in Seq(D2) /\ Len(left) = n
    BY <1>3, OverSeq
  <2>3. QED BY <2>1, <2>2 DEF Over
<1>6. left = right
  <2> HIDE DEF left, right, mapped, front
  <2>1. \A i \in 1..n : left[i] = right[i]
    BY <1>1, <1>2, <1>3, <1>4, <1>5
  <2>2. QED BY <1>4, <1>5, <2>1, SeqEqual
<1>7. Last(text) \in D /\ g[Last(text)] = Last(mapped)
  BY <1>1, <1>2 DEF Last
<1>8. QED BY <1>3, <1>6, <1>7

\* ... with taking the last text off ...
LEMMA OverAllFront ==
    ASSUME NEW D, NEW D2, NEW g, Maps(g, D, D2),
           NEW texts \in Seq(Seq(D)), texts # <<>>
    PROVE  /\ Front(texts) \in Seq(Seq(D)) /\ Last(texts) \in Seq(D)
           /\ OverAll(g, Front(texts)) = Front(OverAll(g, texts))
           /\ Over(g, Last(texts)) = Last(OverAll(g, texts))
<1> DEFINE all    == [t \in Seq(D) |-> Over(g, t)]
<1>1. Maps(all, Seq(D), Seq(D2))
  BY OverSeq DEF Maps
<1>2. /\ Front(texts) \in Seq(Seq(D)) /\ Last(texts) \in Seq(D)
      /\ Over(all, Front(texts)) = Front(Over(all, texts))
      /\ all[Last(texts)] = Last(Over(all, texts))
  <2> HIDE DEF all
  <2> QED BY <1>1, OverFront
<1>3. \A t \in Seq(Seq(D)) : OverAll(g, t) = Over(all, t)
  BY DEF OverAll, Over
<1>4. QED BY <1>2, <1>3

\* ... with taking the first one off ...
LEMMA OverTail ==
    ASSUME NEW D, NEW D2, NEW g, Maps(g, D, D2),
           NEW text \in Seq(D), text # <<>>
    PROVE  /\ Tail(text) \in Seq(D)
           /\ Over(g, Tail(text)) = Tail(Over(g, text))
<1> DEFINE tail  == Tail(text)
           mapped == Over(g, text)
           left  == Over(g, tail)
           right == Tail(mapped)
           n     == Len(text) - 1
<1>1. n \in Nat /\ DOMAIN text = 1..(n + 1) /\ Len(text) = n + 1
  BY EmptySeq, LenProperties
<1> HIDE DEF n
<1>2. mapped \in Seq(D2) /\ Len(mapped) = n + 1
      /\ \A i \in 1..(n + 1) : mapped[i] = g[text[i]]
  <2>1. mapped \in Seq(D2) /\ Len(mapped) = n + 1
    BY <1>1, OverSeq
  <2>2. QED BY <1>1, <2>1 DEF Over
<1>3. tail \in Seq(D) /\ Len(tail) = n /\ \A i \in 1..n : tail[i] = text[i + 1]
  BY <1>1
<1>4. right \in Seq(D2) /\ Len(right) = n /\ \A i \in 1..n : right[i] = mapped[i + 1]
  <2> HIDE DEF mapped
  <2>1. mapped # <<>>
    BY <1>1, <1>2
  <2>2. QED BY <1>1, <1>2, <2>1, HeadTailProperties
<1>5. left \in Seq(D2) /\ Len(left) = n /\ \A i \in 1..n : left[i] = g[tail[i]]
  <2> HIDE DEF tail
  <2>1. DOMAIN tail = 1..n
    BY <1>3, LenProperties
  <2>2. left \in Seq(D2) /\ Len(left) = n
    BY <1>3, OverSeq
  <2>3. QED BY <2>1, <2>2 DEF Over
<1>6. left = right
  <2> HIDE DEF left, right, mapped, tail
  <2>1. ASSUME NEW i \in 1..n PROVE left[i] = right[i]
    <3>1. i + 1 \in 1..(n + 1)
      BY <1>1
    <3>2. QED BY <1>2, <1>3, <1>4, <1>5, <3>1
  <2>2. QED BY <1>4, <1>5, <2>1, SeqEqual
<1>7. QED BY <1>3, <1>6

\* ... and with taking the first text off.
LEMMA OverAllTail ==
    ASSUME NEW D, NEW D2, NEW g, Maps(g, D, D2),
           NEW texts \in Seq(Seq(D)), texts # <<>>
    PROVE  /\ Tail(texts) \in Seq(Seq(D))
           /\ OverAll(g, Tail(texts)) = Tail(OverAll(g, texts))
<1> DEFINE all    == [t \in Seq(D) |-> Over(g, t)]
<1>1. Maps(all, Seq(D), Seq(D2))
  BY OverSeq DEF Maps
<1>2. Tail(texts) \in Seq(Seq(D)) /\ Over(all, Tail(texts)) = Tail(Over(all, texts))
  <2> HIDE DEF all
  <2> QED BY <1>1, OverTail
<1>3. \A t \in Seq(Seq(D)) : OverAll(g, t) = Over(all, t)
  BY DEF OverAll, Over
<1>4. QED BY <1>2, <1>3

\* Splitting at a character that is left alone commutes with changing the others.
LEMMA SplitCommutes ==
    ASSUME NEW D, NEW D2, NEW g, Maps(g, D, D2),
           NEW separator, separator \notin D, separator \notin D2, g[separator] = separator,
           NEW text \in Seq(D \cup {separator})
    PROVE  /\ SplitOn(text, separator) \in Pieces(D)
           /\ SplitOn(Over(g, text), separator) = OverAll(g, SplitOn(text, separator))
<1> DEFINE n      == Len(text)
           mapped == Over(g, text)
<1>1. n \in Nat /\ DOMAIN text = 1..n /\ \A i \in 1..n : text[i] \in D \cup {separator}
  BY LenProperties
<1>2. /\ mapped \in Seq(D2 \cup {separator}) /\ Len(mapped) = n
      /\ \A i \in 1..n : mapped[i] = g[text[i]]
  <2>1. Maps(g, D \cup {separator}, D2 \cup {separator})
    BY DEF Maps
  <2>2. mapped \in Seq(D2 \cup {separator}) /\ Len(mapped) = n
    <3> HIDE DEF mapped
    <3>1. Over(g, text) \in Seq(D2 \cup {separator}) /\ Len(Over(g, text)) = Len(text)
      BY <2>1, OverSeq
    <3>2. QED BY <3>1 DEF mapped
  <2>3. QED BY <1>1, <2>2 DEF Over
<1> HIDE DEF mapped
<1>3a. PICK run : SplitRun(run, D, text, separator)
  BY SplitRuns
<1>4a. PICK run2 : SplitRun(run2, D2, mapped, separator)
  BY <1>2, SplitRuns
<1>3. /\ run \in [0..n -> Pieces(D)]
      /\ run[0] = << <<>> >>
      /\ \A i \in 1..n : run[i] = SplitStep(run[i - 1], text[i], separator)
      /\ SplitOn(text, separator) = run[n]
  BY <1>3a DEF SplitRun
<1>4. /\ run2[0] = << <<>> >>
      /\ \A i \in 1..n : run2[i] = SplitStep(run2[i - 1], mapped[i], separator)
      /\ SplitOn(mapped, separator) = run2[n]
  BY <1>2, <1>4a DEF SplitRun
<1> HIDE DEF n
<1>5. OverAll(g, << <<>> >>) = << <<>> >>
  BY DEF OverAll, Over
<1>6. ASSUME NEW parts \in Pieces(D), NEW s \in D \cup {separator}
      PROVE  SplitStep(OverAll(g, parts), g[s], separator)
                = OverAll(g, SplitStep(parts, s, separator))
  <2>1. parts \in Seq(Seq(D)) /\ parts # <<>>
    BY DEF Pieces
  <2>2. CASE s = separator
    <3> DEFINE empty == <<>>
    <3>1. empty \in Seq(D) /\ Over(g, empty) = empty
      BY DEF Over
    <3> HIDE DEF empty
    <3>2. OverAll(g, Append(parts, empty)) = Append(OverAll(g, parts), empty)
      BY <2>1, <3>1, OverAllAppend
    <3>3. QED BY <2>2, <3>2 DEF SplitStep, empty
  <2>3. CASE s # separator
    <3>1. s \in D /\ g[s] # separator
      BY <2>3 DEF Maps
    <3> DEFINE front == Front(parts)
               last  == Last(parts)
    <3>2. /\ front \in Seq(Seq(D)) /\ last \in Seq(D)
          /\ OverAll(g, front) = Front(OverAll(g, parts))
          /\ Over(g, last) = Last(OverAll(g, parts))
      BY <2>1, OverAllFront
    <3> HIDE DEF front, last
    <3> DEFINE longer == Append(last, s)
    <3>3. longer \in Seq(D) /\ Over(g, longer) = Append(Over(g, last), g[s])
      BY <3>1, <3>2, OverAppend
    <3> HIDE DEF longer
    <3>4. OverAll(g, Append(front, longer)) = Append(OverAll(g, front), Over(g, longer))
      BY <3>2, <3>3, OverAllAppend
    <3>5. SplitStep(parts, s, separator) = Append(front, longer)
      BY <2>3 DEF SplitStep, front, last, longer
    <3>6. SplitStep(OverAll(g, parts), g[s], separator)
             = Append(OverAll(g, front), Append(Over(g, last), g[s]))
      BY <3>1, <3>2 DEF SplitStep
    <3>7. QED BY <3>3, <3>4, <3>5, <3>6
  <2>4. QED BY <2>2, <2>3
<1>7. \A i \in 0..n : run2[i] = OverAll(g, run[i])
  <2> DEFINE P == {i \in 0..n : run2[i] = OverAll(g, run[i])}
  <2>1. 0 \in P
    <3>1. 0 \in 0..n
      BY <1>1
    <3>2. run2[0] = OverAll(g, run[0])
      BY <1>3, <1>4, <1>5
    <3>3. QED BY <3>1, <3>2
  <2>2. \A i \in 1..n : i - 1 \in P => i \in P
    <3> SUFFICES ASSUME NEW i \in 1..n, run2[i - 1] = OverAll(g, run[i - 1])
                 PROVE  i \in 0..n /\ run2[i] = OverAll(g, run[i])
      OBVIOUS
    <3>1. i \in 0..n /\ i - 1 \in 0..n /\ run[i - 1] \in Pieces(D)
          /\ text[i] \in D \cup {separator}
      BY <1>1, <1>3
    <3>2. SplitStep(OverAll(g, run[i - 1]), g[text[i]], separator)
             = OverAll(g, SplitStep(run[i - 1], text[i], separator))
      BY <1>6, <3>1
    <3>3. QED BY <1>2, <1>3, <1>4, <3>1, <3>2
  <2>3. 0..n \subseteq P
    <3> HIDE DEF P
    <3> QED BY <1>1, <2>1, <2>2, UpTo
  <2>4. QED BY <2>3
<1>8. SplitOn(text, separator) \in Pieces(D)
  BY <1>1, <1>3
<1>9. n \in 0..n
  BY <1>1
<1>10. QED BY <1>3, <1>4, <1>7, <1>8, <1>9 DEF mapped

---------------------------------------------------------------------------
(* The segments of a path.                                                 *)

\* A pathname after the URL object has made its backslashes slashes.
Slashed(pathname) ==
    [i \in DOMAIN pathname |->
        IF IsDelimiter(pathname[i]) /\ ~pathname[i].encoded THEN Slash ELSE pathname[i]]

\* The segments . and .. of a path.
IsDots(s) == Len(s) = 1 /\ s[1].char \in {".", ".."}

\* What Segments keeps when it reads one more piece of the path.
Kept(split, done, i) ==
    IF ~IsDots(split[i]) THEN Append(done, split[i])
    ELSE IF split[i][1].char = "." THEN done
    ELSE IF done = <<>> THEN done ELSE Front(done)

\* One more piece of the path: a .. takes the last segment back.
SegmentStep(split, done, i) ==
    IF i = Len(split) /\ IsDots(split[i]) THEN Append(Kept(split, done, i), <<>>)
    ELSE Kept(split, done, i)

\* The function FoldLeft unfolds to in Segments.
SegmentIter(split, iter) ==
    iter = [s \in SUBSET DOMAIN [i \in DOMAIN split |-> i] |->
               IF s = {} THEN <<>>
               ELSE SegmentStep(split, iter[s \ {Max(s)}], [i \in DOMAIN split |-> i][Max(s)])]

\* The pieces of a path with their . and .. resolved.
Resolved(split) == (CHOOSE iter : SegmentIter(split, iter))[DOMAIN [i \in DOMAIN split |-> i]]

\* Segments (the pathname of the URL object) splits the path and resolves its dots.
LEMMA SegmentsIsIter ==
    ASSUME NEW pathname
    PROVE  Segments(pathname) = Resolved(Tail(SplitOn(Slashed(pathname), Slash)))
BY DEF Segments, FoldLeft, MapThenFoldSet, SegmentIter, SegmentStep, Kept, IsDots, Slashed, Resolved

\* A step of the resolution keeps its type.
LEMMA SegmentStepType ==
    ASSUME NEW D, NEW split \in Seq(Seq(D)), NEW done \in Seq(Seq(D)), NEW i \in 1..Len(split)
    PROVE  SegmentStep(split, done, i) \in Seq(Seq(D))
<1> DEFINE kept  == Kept(split, done, i)
           empty == <<>>
<1>1. split[i] \in Seq(D)
  OBVIOUS
<1>2. kept \in Seq(Seq(D))
  <2>1. Append(done, split[i]) \in Seq(Seq(D))
    BY <1>1, AppendProperties
  <2>2. done # <<>> => Front(done) \in Seq(Seq(D))
    <3>1. Maps([d \in D |-> d], D, D)
      BY DEF Maps
    <3>2. QED BY <3>1, OverAllFront
  <2>3. QED BY <2>1, <2>2 DEF Kept
<1>3. empty \in Seq(D)
  OBVIOUS
<1> HIDE DEF kept, empty
<1>4. Append(kept, empty) \in Seq(Seq(D))
  BY <1>2, <1>3, AppendProperties
<1>5. QED BY <1>2, <1>4 DEF SegmentStep, kept, empty

\* A step of the resolution does not tell two spellings of a character apart.
LEMMA SegmentStepCommutes ==
    ASSUME NEW D, NEW D2, NEW g, Maps(g, D, D2), KeepsChar(g, D),
           NEW split \in Seq(Seq(D)), NEW done \in Seq(Seq(D)), NEW i \in 1..Len(split)
    PROVE  SegmentStep(OverAll(g, split), OverAll(g, done), i)
              = OverAll(g, SegmentStep(split, done, i))
<1> DEFINE piece  == split[i]
           mapped == OverAll(g, split)
           empty  == <<>>
<1>1. piece \in Seq(D) /\ i \in DOMAIN split /\ Len(mapped) = Len(split)
  BY OverAllSeq
<1>2. mapped[i] = Over(g, piece)
  BY <1>1 DEF OverAll
<1> HIDE DEF piece, mapped
<1>3. Len(Over(g, piece)) = Len(piece) /\ (Len(piece) = 1 => Over(g, piece)[1].char = piece[1].char)
  <2>1. Len(Over(g, piece)) = Len(piece)
    BY <1>1, OverSeq
  <2>2. ASSUME Len(piece) = 1 PROVE Over(g, piece)[1].char = piece[1].char
    <3>1. 1 \in 1..Len(piece)
      BY <2>2
    <3>1a. 1 \in DOMAIN piece /\ piece[1] \in D
      BY <1>1, <3>1, ElementOfSeq, LenProperties
    <3>2. QED BY <3>1a DEF Over, KeepsChar
  <2>3. QED BY <2>1, <2>2
<1>4. IsDots(mapped[i]) <=> IsDots(piece)
  BY <1>2, <1>3 DEF IsDots
<1>5. OverAll(g, <<>>) = <<>>
  BY DEF OverAll
<1>6. done = <<>> <=> OverAll(g, done) = <<>>
  BY OverAllSeq, EmptySeq
<1>7. Kept(mapped, OverAll(g, done), i) = OverAll(g, Kept(split, done, i))
  <2>1. CASE ~IsDots(piece)
    <3>1. OverAll(g, Append(done, piece)) = Append(OverAll(g, done), Over(g, piece))
      BY <1>1, OverAllAppend
    <3>2. QED BY <1>2, <1>4, <2>1, <3>1 DEF Kept, piece
  <2>2. CASE IsDots(piece) /\ piece[1].char = "."
    BY <1>2, <1>3, <1>4, <2>2 DEF Kept, piece, IsDots
  <2>3. CASE IsDots(piece) /\ piece[1].char # "." /\ done = <<>>
    BY <1>2, <1>3, <1>4, <1>5, <2>3 DEF Kept, piece, IsDots
  <2>4. CASE IsDots(piece) /\ piece[1].char # "." /\ done # <<>>
    <3>1. OverAll(g, Front(done)) = Front(OverAll(g, done))
      BY <2>4, OverAllFront
    <3>2. QED BY <1>2, <1>3, <1>4, <1>6, <2>4, <3>1 DEF Kept, piece, IsDots
  <2>5. QED BY <2>1, <2>2, <2>3, <2>4
<1> DEFINE kept == Kept(split, done, i)
<1>8. kept \in Seq(Seq(D))
  <2>1. Append(done, piece) \in Seq(Seq(D))
    BY <1>1, AppendProperties
  <2>2. done # <<>> => Front(done) \in Seq(Seq(D))
    BY OverAllFront
  <2>3. QED BY <2>1, <2>2 DEF Kept, piece
<1>9. empty \in Seq(D) /\ Over(g, empty) = empty
  BY DEF Over
<1> HIDE DEF kept, empty
<1>10. OverAll(g, Append(kept, empty)) = Append(OverAll(g, kept), empty)
  BY <1>8, <1>9, OverAllAppend
<1>11. SegmentStep(mapped, OverAll(g, done), i) = OverAll(g, SegmentStep(split, done, i))
  BY <1>1, <1>4, <1>7, <1>10 DEF SegmentStep, kept, empty, piece
<1>12. QED BY <1>11 DEF mapped

\* What Segments has kept after each piece of a path.
SegmentRun(run, D, split) ==
    /\ run \in [0..Len(split) -> Seq(Seq(D))]
    /\ run[0] = <<>>
    /\ \A i \in 1..Len(split) : run[i] = SegmentStep(split, run[i - 1], i)
    /\ Resolved(split) = run[Len(split)]

\* The resolution of any path is a run over its pieces, one SegmentStep each.
LEMMA SegmentRuns ==
    ASSUME NEW D, NEW split \in Seq(Seq(D))
    PROVE  \E run : SegmentRun(run, D, split)
<1> DEFINE n      == Len(split)
           V      == Seq(Seq(D))
           base   == <<>>
           places == [i \in DOMAIN split |-> i]
           step   == [x \in V \X (1..n) |-> SegmentStep(split, x[1], x[2])]
<1>1. n \in Nat /\ DOMAIN split = 1..n
  BY LenProperties
<1>2. places \in [1..n -> 1..n] /\ DOMAIN places = 1..n /\ \A i \in 1..n : places[i] = i
  BY <1>1
<1>3. base \in V
  OBVIOUS
<1>4. step \in [V \X (1..n) -> V]
  BY SegmentStepType
<1>5. \E iter \in [SUBSET (1..n) -> V] : FoldIter(n, base, step, places, iter)
  <2> DEFINE E == 1..n
  <2>1. places \in [1..n -> E] /\ step \in [V \X E -> V]
    BY <1>2, <1>4
  <2> HIDE DEF n, E, V, base, step, places
  <2>2. QED BY <1>1, <1>3, <2>1, FoldExists
<1>6. \E iter : SegmentIter(split, iter)
  <2>1. PICK iter \in [SUBSET (1..n) -> V] : FoldIter(n, base, step, places, iter)
    BY <1>5
  <2> HIDE DEF n, V
  <2>2. ASSUME NEW s \in SUBSET (1..n), s # {}
        PROVE  step[<<iter[s \ {Max(s)}], places[Max(s)]>>]
                  = SegmentStep(split, iter[s \ {Max(s)}], places[Max(s)])
    <3>1. Max(s) \in 1..n /\ s \ {Max(s)} \in SUBSET (1..n)
      BY <1>1, <2>2, MaxProperties
    <3>2. <<iter[s \ {Max(s)}], places[Max(s)]>> \in V \X (1..n)
      BY <1>2, <2>1, <3>1
    <3>3. QED BY <3>2
  <2>3. SegmentIter(split, iter)
    BY <1>2, <2>1, <2>2 DEF SegmentIter, FoldIter
  <2>4. QED BY <2>3
<1> DEFINE it == CHOOSE iter : SegmentIter(split, iter)
<1>7. SegmentIter(split, it) /\ Resolved(split) = it[1..n]
  BY <1>2, <1>6 DEF Resolved
<1> HIDE DEF it
<1> DEFINE run == [i \in 0..n |-> it[1..i]]
<1>8. \A s \in SUBSET (1..n) :
         it[s] = IF s = {} THEN base ELSE SegmentStep(split, it[s \ {Max(s)}], places[Max(s)])
  BY <1>2, <1>7 DEF SegmentIter
<1>9. run[0] = base /\ run[n] = it[1..n]
  <2>1. 1..0 = {} /\ {} \in SUBSET (1..n) /\ 0 \in 0..n /\ n \in 0..n
    BY <1>1
  <2>2. it[{}] = base
    BY <1>8, <2>1
  <2> HIDE DEF n, base
  <2>3. QED BY <2>1, <2>2
<1>10. ASSUME NEW i \in 1..n
       PROVE  run[i] = SegmentStep(split, run[i - 1], i)
  <2>1. i \in Nat \ {0} /\ 1..i \in SUBSET (1..n) /\ i \in 0..n /\ i - 1 \in 0..n
    BY <1>1
  <2>2. 1..i # {} /\ Max(1..i) = i /\ (1..i) \ {i} = 1..(i - 1)
    BY <2>1, MaxUpTo
  <2>3. it[1..i] = SegmentStep(split, it[1..(i - 1)], i)
    BY <1>2, <1>8, <2>1, <2>2
  <2>4. QED BY <2>1, <2>3
<1>11. \A i \in 0..n : run[i] \in V
  <2> DEFINE P == {i \in 0..n : run[i] \in V}
  <2>1. 0 \in P
    <3>1. 0 \in 0..n
      BY <1>1
    <3> HIDE DEF run
    <3>2. QED BY <1>3, <1>9, <3>1
  <2>2. \A i \in 1..n : i - 1 \in P => i \in P
    <3> SUFFICES ASSUME NEW i \in 1..n, run[i - 1] \in V PROVE i \in 0..n /\ run[i] \in V
      OBVIOUS
    <3> HIDE DEF run
    <3>1. SegmentStep(split, run[i - 1], i) \in V
      BY SegmentStepType
    <3>2. QED BY <1>1, <1>10, <3>1
  <2>3. 0..n \subseteq P
    <3> HIDE DEF P
    <3> QED BY <1>1, <2>1, <2>2, UpTo
  <2>4. QED BY <2>3
<1>12. run \in [0..n -> V]
  BY <1>11
<1>13. SegmentRun(run, D, split)
  BY <1>7, <1>9, <1>10, <1>12 DEF SegmentRun
<1>14. QED BY <1>13

\* Resolving the dots commutes with spelling the characters in another way.
LEMMA ResolvedCommutes ==
    ASSUME NEW D, NEW D2, NEW g, Maps(g, D, D2), KeepsChar(g, D),
           NEW split \in Seq(Seq(D))
    PROVE  /\ Resolved(split) \in Seq(Seq(D))
           /\ Resolved(OverAll(g, split)) = OverAll(g, Resolved(split))
<1> DEFINE n      == Len(split)
           mapped == OverAll(g, split)
<1>1. n \in Nat /\ mapped \in Seq(Seq(D2)) /\ Len(mapped) = n
  BY OverAllSeq, LenProperties
<1> HIDE DEF mapped
<1>2. PICK run : SegmentRun(run, D, split)
  BY SegmentRuns
<1>3. PICK run2 : SegmentRun(run2, D2, mapped)
  BY <1>1, SegmentRuns
<1>4. /\ run \in [0..n -> Seq(Seq(D))] /\ run[0] = <<>> /\ Resolved(split) = run[n]
      /\ \A i \in 1..n : run[i] = SegmentStep(split, run[i - 1], i)
  BY <1>2 DEF SegmentRun
<1>5. /\ run2[0] = <<>> /\ Resolved(mapped) = run2[n]
      /\ \A i \in 1..n : run2[i] = SegmentStep(mapped, run2[i - 1], i)
  BY <1>1, <1>3 DEF SegmentRun
<1>6. \A i \in 0..n : run2[i] = OverAll(g, run[i])
  <2> DEFINE P == {i \in 0..n : run2[i] = OverAll(g, run[i])}
  <2>1. 0 \in P
    <3>1. OverAll(g, <<>>) = <<>>
      BY DEF OverAll
    <3>2. QED BY <1>1, <1>4, <1>5, <3>1
  <2>2. \A i \in 1..n : i - 1 \in P => i \in P
    <3> SUFFICES ASSUME NEW i \in 1..n, run2[i - 1] = OverAll(g, run[i - 1])
                 PROVE  i \in 0..n /\ run2[i] = OverAll(g, run[i])
      OBVIOUS
    <3>1. i \in 0..n /\ run[i - 1] \in Seq(Seq(D))
      <4>1. i \in 0..n /\ i - 1 \in 0..n
        BY <1>1
      <4>2. QED BY <1>4, <4>1
    <3>2. SegmentStep(mapped, OverAll(g, run[i - 1]), i) = OverAll(g, SegmentStep(split, run[i - 1], i))
      BY <3>1, SegmentStepCommutes DEF mapped
    <3>3. QED BY <1>4, <1>5, <3>1, <3>2
  <2>3. 0..n \subseteq P
    <3> HIDE DEF P
    <3> QED BY <1>1, <2>1, <2>2, UpTo
  <2>4. QED BY <2>3
<1>7. n \in 0..n
  BY <1>1
<1>8. QED BY <1>4, <1>5, <1>6, <1>7 DEF mapped

---------------------------------------------------------------------------
(* The segments of a path that is spelled canonically.                     *)

\* The characters of a segment, as its author means them.
Meanings == {c \in Characters : IsDelimiter(c) <=> c.encoded}

\* How toCanonicalUriPath spells them.
Canonical ==
    [c \in Characters \cup {Slash} |->
        IF IsDelimiter(c) THEN c ELSE [c EXCEPT !.encoded = c.char \notin Unreserved]]

\* The spelling of toCanonicalUriPath leaves the characters as they are and makes no slash.
LEMMA CanonicalMaps ==
    /\ Maps(Canonical, Meanings, Characters \ {Slash})
    /\ \A d \in Meanings : Canonical[d].char = d.char
    /\ Slash \notin Meanings /\ Canonical[Slash] = Slash
<1>1. IsDelimiter(Slash) /\ ~Slash.encoded
  <2>1. Slash.char = "/" /\ Slash.encoded = FALSE
    BY DEF Slash
  <2>2. IsDelimiter(Slash)
    BY <2>1 DEF IsDelimiter
  <2>3. QED BY <2>1, <2>2
<1>2. ASSUME NEW d \in Meanings
      PROVE  Canonical[d] \in Characters \ {Slash} /\ Canonical[d].char = d.char
  <2>1. d \in Characters /\ (IsDelimiter(d) <=> d.encoded) /\ d.encoded \in BOOLEAN
    BY DEF Meanings, Characters
  <2>2. CASE IsDelimiter(d)
    <3>1. Canonical[d] = d
      BY <2>1, <2>2 DEF Canonical
    <3>2. QED BY <1>1, <2>1, <2>2, <3>1
  <2>3. CASE ~IsDelimiter(d)
    <3>1. Canonical[d] = [d EXCEPT !.encoded = d.char \notin Unreserved]
      BY <2>1, <2>3 DEF Canonical
    <3>2. Canonical[d] \in Characters /\ Canonical[d].char = d.char
      BY <2>1, <3>1 DEF Characters
    <3>3. Canonical[d] # Slash
      BY <2>3, <3>2 DEF Slash, IsDelimiter
    <3>4. QED BY <3>2, <3>3
  <2>4. QED BY <2>2, <2>3
<1>3. Canonical[Slash] = Slash
  BY <1>1 DEF Canonical
<1>4. Slash \notin Meanings
  BY <1>1 DEF Meanings
<1>5. QED BY <1>1, <1>2, <1>3, <1>4 DEF Maps

\* toCanonicalUriPath spells what a path means, and keeps its slashes.
LEMMA SlashedMeant ==
    ASSUME NEW path \in Seq(Characters)
    PROVE  /\ Slashed(Meant(path)) \in Seq(Meanings \cup {Slash})
           /\ Slashed(toCanonicalUriPath(path)) = Over(Canonical, Slashed(Meant(path)))
<1> DEFINE n     == Len(path)
           left  == Slashed(toCanonicalUriPath(path))
           right == Slashed(Meant(path))
<1>1. n \in Nat /\ DOMAIN path = 1..n /\ \A i \in 1..n : path[i] \in Characters
  BY LenProperties
<1>2. /\ DOMAIN left = 1..n
      /\ DOMAIN right = 1..n
      /\ right = [i \in 1..n |-> right[i]]
  BY <1>1 DEF Slashed, Meant, toCanonicalUriPath
<1>3. ASSUME NEW i \in 1..n
      PROVE  right[i] \in Meanings \cup {Slash} /\ left[i] = Canonical[right[i]]
  <2> DEFINE c == path[i]
             m == IF IsDelimiter(c) THEN c ELSE [c EXCEPT !.encoded = FALSE]
             k == IF IsDelimiter(c) THEN c ELSE [c EXCEPT !.encoded = c.char \notin Unreserved]
  <2>1. c \in Characters
    BY <1>1
  <2>2. right[i] = IF IsDelimiter(m) /\ ~m.encoded THEN Slash ELSE m
    BY <1>1 DEF Slashed, Meant
  <2>3. left[i] = IF IsDelimiter(k) /\ ~k.encoded THEN Slash ELSE k
    BY <1>1 DEF Slashed, toCanonicalUriPath
  <2> HIDE DEF left, right
  <2>4. CASE IsDelimiter(c)
    <3>1. m = c /\ k = c
      BY <2>4
    <3>2. CASE c.encoded
      <4>1. right[i] = c /\ left[i] = c
        BY <2>2, <2>3, <3>1, <3>2
      <4>2. c \in Meanings /\ Canonical[c] = c
        BY <2>1, <2>4, <3>2 DEF Meanings, Canonical
      <4>3. QED BY <4>1, <4>2
    <3>3. CASE ~c.encoded
      <4>1. right[i] = Slash /\ left[i] = Slash
        BY <2>2, <2>3, <2>4, <3>1, <3>3
      <4>2. QED BY <4>1, CanonicalMaps
    <3>4. QED BY <3>2, <3>3
  <2>5. CASE ~IsDelimiter(c)
    <3>1. m = [c EXCEPT !.encoded = FALSE] /\ k = [c EXCEPT !.encoded = c.char \notin Unreserved]
      BY <2>5
    <3>2. /\ m \in Characters /\ m.char = c.char /\ ~m.encoded
          /\ k.char = c.char
          /\ k = [m EXCEPT !.encoded = m.char \notin Unreserved]
      BY <2>1, <3>1 DEF Characters
    <3>3. ~IsDelimiter(m) /\ ~IsDelimiter(k)
      BY <2>5, <3>2 DEF IsDelimiter
    <3> HIDE DEF m, k
    <3>4. right[i] = m /\ left[i] = k
      BY <2>2, <2>3, <3>3
    <3>5. m \in Meanings
      BY <3>2, <3>3 DEF Meanings
    <3>6. Canonical[m] = k
      BY <3>2, <3>3 DEF Canonical
    <3>7. QED BY <3>4, <3>5, <3>6
  <2>6. QED BY <2>4, <2>5
<1>4. right \in Seq(Meanings \cup {Slash})
  <2> DEFINE M == Meanings \cup {Slash}
  <2>1. right \in [1..n -> M]
    <3> HIDE DEF left, right, M
    <3>1. \A i \in 1..n : right[i] \in M
      BY <1>3 DEF M
    <3>2. QED BY <1>2, <3>1
  <2> HIDE DEF right, n, M
  <2>2. QED BY <1>1, <2>1, FunctionIsSeq DEF M
<1>5. left = Over(Canonical, right)
  <2>1. left = [i \in 1..n |-> left[i]]
    BY <1>1 DEF Slashed, toCanonicalUriPath
  <2> HIDE DEF left, right
  <2>2. QED BY <1>2, <1>3, <2>1 DEF Over
<1>6. QED BY <1>4, <1>5

\* The segments of a canonical path are those the path means, spelled canonically:
\* toCanonicalUriPath and the URL object commute, whatever the path.
THEOREM CanonicalSegments ==
    ASSUME NEW path \in Seq(Characters)
    PROVE  /\ Segments(Meant(path)) \in Seq(Seq(Meanings))
           /\ Segments(toCanonicalUriPath(path)) = OverAll(Canonical, Segments(Meant(path)))
<1> DEFINE meant  == Slashed(Meant(path))
           spelt  == Slashed(toCanonicalUriPath(path))
           pieces == SplitOn(meant, Slash)
<1>1. meant \in Seq(Meanings \cup {Slash}) /\ spelt = Over(Canonical, meant)
  BY SlashedMeant
<1>2. /\ Segments(Meant(path)) = Resolved(Tail(pieces))
      /\ Segments(toCanonicalUriPath(path)) = Resolved(Tail(SplitOn(spelt, Slash)))
  BY SegmentsIsIter
<1> HIDE DEF meant, spelt
<1>3. pieces \in Pieces(Meanings) /\ SplitOn(spelt, Slash) = OverAll(Canonical, pieces)
  <2>1. Slash \notin Characters \ {Slash}
    OBVIOUS
  <2>2. QED BY <1>1, <2>1, CanonicalMaps, SplitCommutes
<1> HIDE DEF pieces
<1> DEFINE tail == Tail(pieces)
<1>4. tail \in Seq(Seq(Meanings)) /\ OverAll(Canonical, tail) = Tail(OverAll(Canonical, pieces))
  BY <1>3, CanonicalMaps, OverAllTail DEF Pieces
<1> HIDE DEF tail
<1>5. /\ Resolved(tail) \in Seq(Seq(Meanings))
      /\ Resolved(OverAll(Canonical, tail)) = OverAll(Canonical, Resolved(tail))
  <2>1. PICK D2 : Maps(Canonical, Meanings, D2)
    BY CanonicalMaps
  <2>2. KeepsChar(Canonical, Meanings)
    BY CanonicalMaps DEF KeepsChar
  <2>3. tail \in Seq(Seq(Meanings))
    BY <1>4
  <2>4. Resolved(tail) \in Seq(Seq(Meanings))
    BY <2>1, <2>2, <2>3, ResolvedCommutes
  <2>5. Resolved(OverAll(Canonical, tail)) = OverAll(Canonical, Resolved(tail))
    BY <2>1, <2>2, <2>3, ResolvedCommutes
  <2>6. QED BY <2>4, <2>5
<1>6. QED BY <1>2, <1>3, <1>4, <1>5 DEF tail

---------------------------------------------------------------------------
(* The routes that take a request.                                         *)

\* Letters that differ only in case are both left alone by encodeURIComponent, or neither.
LEMMA SameCaseUnreserved ==
    ASSUME NEW a, NEW b, Lower(a) = Lower(b)
    PROVE  a \in Unreserved <=> b \in Unreserved
<1>1. ASSUME NEW c PROVE c \in Unreserved <=> Lower(c) \in Unreserved
  BY CaseAssumption DEF Lower
<1>2. QED BY <1>1

\* A segment of a request is a literal segment of a route exactly if it means the literal
\* up to case and the literal needs no encoding (RouteMatchingRequestHandler compares the
\* encoded texts).
LEMMA LiteralSegment ==
    ASSUME NEW segment \in Seq(Meanings), NEW literal \in Seq(STRING)
    PROVE  SameLiteral(Over(Canonical, segment), literal)
              <=> SameLiteral(segment, literal) /\ ToSet(literal) \subseteq Unreserved
<1> DEFINE n == Len(segment)
           m == Len(literal)
           spelt == Over(Canonical, segment)
<1>1. /\ n \in Nat /\ m \in Nat /\ DOMAIN segment = 1..n /\ DOMAIN literal = 1..m
      /\ \A i \in 1..n : segment[i] \in Meanings
  BY LenProperties
<1>2. /\ Len(spelt) = n
      /\ \A i \in 1..n : spelt[i] = Canonical[segment[i]]
  BY <1>1, CanonicalMaps, OverSeq DEF Over
<1>3. ASSUME NEW d \in Meanings, NEW c
      PROVE  ~Canonical[d].encoded /\ Lower(Canonical[d].char) = Lower(c)
                <=> ~d.encoded /\ Lower(d.char) = Lower(c) /\ c \in Unreserved
  <2>1. d \in Characters /\ (IsDelimiter(d) <=> d.encoded)
    BY DEF Meanings
  <2>2. CASE d.encoded
    BY <2>1, <2>2 DEF Canonical
  <2>3. CASE ~d.encoded
    <3>1. Canonical[d] = [d EXCEPT !.encoded = d.char \notin Unreserved]
      BY <2>1, <2>3 DEF Canonical
    <3>2. Canonical[d].char = d.char /\ (Canonical[d].encoded <=> d.char \notin Unreserved)
      BY <2>1, <3>1 DEF Characters
    <3>3. Lower(d.char) = Lower(c) => (d.char \in Unreserved <=> c \in Unreserved)
      BY SameCaseUnreserved
    <3>4. QED BY <2>3, <3>2, <3>3
  <2>4. QED BY <2>2, <2>3
<1>4. ToSet(literal) \subseteq Unreserved <=> \A i \in 1..m : literal[i] \in Unreserved
  BY <1>1 DEF ToSet
<1> HIDE DEF n, m, spelt
<1>5. SameLiteral(spelt, literal)
         <=> /\ n = m
             /\ \A i \in 1..m : ~spelt[i].encoded /\ Lower(spelt[i].char) = Lower(literal[i])
  BY <1>1, <1>2 DEF SameLiteral, m
<1>6. SameLiteral(segment, literal)
         <=> /\ n = m
             /\ \A i \in 1..m : ~segment[i].encoded /\ Lower(segment[i].char) = Lower(literal[i])
  BY <1>1 DEF SameLiteral, n, m
<1>7. ASSUME n = m, NEW i \in 1..m
      PROVE  ~spelt[i].encoded /\ Lower(spelt[i].char) = Lower(literal[i])
                <=> /\ ~segment[i].encoded /\ Lower(segment[i].char) = Lower(literal[i])
                    /\ literal[i] \in Unreserved
  <2>1. segment[i] \in Meanings /\ spelt[i] = Canonical[segment[i]]
    BY <1>1, <1>2, <1>7
  <2>2. QED BY <1>3, <2>1
<1>8. QED BY <1>4, <1>5, <1>6, <1>7 DEF spelt

\* RouteMatchingRequestHandler takes the paths that mean its own, up to the case of its
\* literals and one slash at the end.
THEOREM PathMatched ==
    ASSUME NEW route, route.pattern \in Seq(Seq(STRING)), NEW path \in Seq(Characters)
    PROVE  MatchesPath(route, Segments(toCanonicalUriPath(path)))
              <=> MeansPath(route.pattern, Segments(Meant(path)))
<1> DEFINE meant   == Segments(Meant(path))
           spelt   == Segments(toCanonicalUriPath(path))
           pattern == route.pattern
           n       == Len(pattern)
           m       == Len(meant)
<1>1. meant \in Seq(Seq(Meanings)) /\ spelt = OverAll(Canonical, meant)
  BY CanonicalSegments
<1> HIDE DEF meant, spelt
<1>2. /\ n \in Nat /\ DOMAIN pattern = 1..n /\ \A i \in 1..n : pattern[i] \in Seq(STRING)
      /\ m \in Nat /\ DOMAIN meant = 1..m /\ \A i \in 1..m : meant[i] \in Seq(Meanings)
  BY <1>1, LenProperties
<1>3. Len(spelt) = m /\ \A i \in 1..m : spelt[i] = Over(Canonical, meant[i])
  BY <1>1, <1>2, CanonicalMaps, OverAllSeq DEF OverAll
<1>4. ASSUME NEW i \in 1..m PROVE spelt[i] = <<>> <=> meant[i] = <<>>
  BY <1>2, <1>3, CanonicalMaps, OverSeq, EmptySeq
<1>5. ASSUME NEW i \in 1..m, i \in 1..n
      PROVE  SameLiteral(spelt[i], pattern[i])
                <=> SameLiteral(meant[i], pattern[i]) /\ ToSet(pattern[i]) \subseteq Unreserved
  BY <1>2, <1>3, <1>5, LiteralSegment
<1> DEFINE Segment(i) == IF IsParam(pattern[i]) THEN meant[i] # <<>>
                         ELSE /\ SameLiteral(meant[i], pattern[i])
                              /\ ToSet(pattern[i]) \subseteq Unreserved
<1>6. MeansPath(pattern, meant) <=> /\ m = n \/ (m = n + 1 /\ meant[n + 1] = <<>>)
                                    /\ \A i \in 1..n : Segment(i)
  <2>1. m = n => DOMAIN meant \ DOMAIN pattern = {}
    BY <1>2
  <2>2. m = n + 1 => DOMAIN meant \ DOMAIN pattern = {n + 1}
    <3> HIDE DEF m, n
    <3> QED BY <1>2
  <2>3. MeansPath(pattern, meant)
           <=> /\ m = n \/ m = n + 1
               /\ \A i \in DOMAIN meant \ DOMAIN pattern : meant[i] = <<>>
               /\ \A i \in 1..n : Segment(i)
    BY <1>2 DEF MeansPath
  <2> HIDE DEF m, n, meant, pattern, Segment
  <2>4. QED BY <1>2, <2>1, <2>2, <2>3
<1>7. MatchesPath(route, spelt) <=> /\ m = n \/ (m = n + 1 /\ meant[n + 1] = <<>>)
                                    /\ \A i \in 1..n : Segment(i)
  <2>1. MatchesPath(route, spelt)
           <=> /\ m = n \/ (m = n + 1 /\ spelt[n + 1] = <<>>)
               /\ \A i \in 1..n : IF IsParam(pattern[i]) THEN spelt[i] # <<>>
                                  ELSE SameLiteral(spelt[i], pattern[i])
    BY <1>3 DEF MatchesPath
  <2>2. m = n + 1 => n + 1 \in 1..m
    BY <1>2
  <2>3. m = n \/ m = n + 1 => \A i \in 1..n : i \in 1..m
    <3>1. n \in Nat
      BY <1>2
    <3> HIDE DEF m, n
    <3>2. QED BY <3>1
  <2>4. ASSUME NEW i \in 1..m, i \in 1..n
        PROVE  Segment(i) <=> IF IsParam(pattern[i]) THEN spelt[i] # <<>>
                              ELSE SameLiteral(spelt[i], pattern[i])
    BY <1>4, <1>5, <2>4
  <2> HIDE DEF m, n, pattern, Segment
  <2>5. m = n + 1 => (spelt[n + 1] = <<>> <=> meant[n + 1] = <<>>)
    BY <1>4, <2>2
  <2>6. QED BY <2>1, <2>3, <2>4, <2>5
<1>8. QED BY <1>6, <1>7 DEF meant, spelt

\* The subdomain of a route is the one of a host.
MeansSubdomain(route, host) ==
    CASE route.subdomain = NoSubdomain  -> Len(host) <= 2
      [] route.subdomain = AnySubdomain -> Len(host) > 2
      [] OTHER -> \E name \in route.subdomain :
                      Len(host) = Len(name) + 2 /\ IsPrefix(name, host)

\* RouteMatchingRequestHandler takes the hosts that have its subdomain before the base URL.
LEMMA SubdomainMatched ==
    ASSUME NEW route, NEW host \in Seq(STRING),
           route.subdomain \in {AnySubdomain, NoSubdomain} \cup SUBSET (Seq(STRING) \ {<<>>})
    PROVE  MatchesSubdomain(route, host) <=> MeansSubdomain(route, host)
<1> DEFINE n   == Len(host)
           sub == Subdomain(host)
<1>1. n \in Nat /\ DOMAIN host = 1..n /\ \A i \in 1..n : host[i] \in STRING
  BY LenProperties
<1>2. sub = SubSeq(host, 1, n - 2) /\ sub = [i \in 1..(n - 2) |-> host[i]]
  BY <1>1 DEF Subdomain
<1>3. sub \in Seq(STRING) /\ Len(sub) = IF n <= 2 THEN 0 ELSE n - 2
  BY <1>1, <1>2
<1> HIDE DEF sub
<1>4. sub = <<>> <=> n <= 2
  <2>1. sub = <<>> <=> Len(sub) = 0
    BY <1>3, EmptySeq
  <2> HIDE DEF n
  <2>2. CASE n <= 2
    BY <1>3, <2>1, <2>2
  <2>3. CASE ~(n <= 2)
    <3>1. Len(sub) = n - 2
      BY <1>3, <2>3
    <3>2. n - 2 # 0
      BY <1>1, <2>3
    <3>3. QED BY <2>1, <2>3, <3>1, <3>2
  <2>4. QED BY <2>2, <2>3
<1>5. CASE route.subdomain = NoSubdomain
  BY <1>4, <1>5, RoutesAssumption DEF MatchesSubdomain, MeansSubdomain, sub
<1>6. CASE route.subdomain = AnySubdomain /\ route.subdomain # NoSubdomain
  BY <1>1, <1>4, <1>6 DEF MatchesSubdomain, MeansSubdomain, sub
<1>7. CASE route.subdomain \notin {AnySubdomain, NoSubdomain}
  <2>1. ASSUME NEW name \in route.subdomain
        PROVE  name = sub <=> n = Len(name) + 2 /\ IsPrefix(name, host)
    <3>1. name \in Seq(STRING) /\ name # <<>>
      BY <1>7, <2>1
    <3> DEFINE m == Len(name)
    <3>2. m \in Nat /\ m # 0 /\ name = [i \in 1..m |-> name[i]]
      BY <3>1, LenProperties, EmptySeq
    <3>3. ASSUME name = sub PROVE n = m + 2 /\ IsPrefix(name, host)
      <4>1. m = n - 2 /\ m <= n
        <5>1. m = Len(sub)
          BY <3>3
        <5>2. m = IF n <= 2 THEN 0 ELSE n - 2
          BY <1>3, <5>1
        <5> HIDE DEF n, m
        <5>3. ~(n <= 2)
          BY <3>2, <5>2
        <5>4. m = n - 2
          BY <5>2, <5>3
        <5>5. n \in Nat
          BY <1>1
        <5>6. QED BY <5>4, <5>5
      <4>2. SubSeq(name, 1, m) = name
        BY <3>1, <3>2
      <4>3. SubSeq(host, 1, m) = sub
        BY <1>2, <4>1
      <4>4. QED BY <1>1, <3>3, <4>1, <4>2, <4>3 DEF IsPrefix
    <3>4. ASSUME n = m + 2, IsPrefix(name, host) PROVE name = sub
      <4>1. SubSeq(name, 1, m) = SubSeq(host, 1, m)
        BY <1>1, <3>4 DEF IsPrefix
      <4>2. SubSeq(name, 1, m) = name
        BY <3>1, <3>2
      <4>3. n - 2 = m
        BY <3>2, <3>4
      <4>4. QED BY <1>2, <4>1, <4>2, <4>3
    <3>5. QED BY <3>3, <3>4
  <2>2. sub \in route.subdomain => sub # <<>>
    BY <1>7
  <2>3. MatchesSubdomain(route, host) <=> sub \in route.subdomain
    BY <1>7, <2>2 DEF MatchesSubdomain, sub
  <2>4. MeansSubdomain(route, host)
           <=> \E name \in route.subdomain : n = Len(name) + 2 /\ IsPrefix(name, host)
    BY <1>7 DEF MeansSubdomain
  <2>5. QED BY <2>1, <2>3, <2>4
<1>8. QED BY <1>5, <1>6, <1>7

---------------------------------------------------------------------------
(* The invariant.                                                          *)

\* The request is one a client can send.
SomeRequest == \E requests \in Requests : request \in requests

\* The URL is the one of the request.
UrlRead ==
    /\ RequestHost \in Seq(STRING)
    /\ url.host = RequestHost
    /\ url.segments = Segments(toCanonicalUriPath(request.path))

\* The inductive invariant: what the stages of ParsingHttpHandler know.  The URL is the
\* one of the request when routes look at it, and a handler is found in one stage only.
RoutedInv ==
    /\ SomeRequest
    /\ stage \in {"dispatch", "extractUrl", "parseBody", "route"} => handler = 0
    /\ stage \in {"dispatch", "extractUrl", "parseBody", "asset"} => body = "none"
    /\ stage \in {"parseBody", "route"} => UrlRead
    /\ stage \in {"parameters", "handle"} => handler # 0
    /\ ServedIffConfigured

\* A request has a path, and its host is a host or none (whatever its headers forward).
LEMMA RequestTyped ==
    ASSUME SomeRequest
    PROVE  request.path \in Seq(Characters) /\ RequestHost \in Hosts
<1> DEFINE h == request.headers
<1>1. /\ request.path \in Seq(Characters)
      /\ h.host \in Hosts
      /\ h.forwarded \in Seq(Seq(ForwardedPairs))
      /\ h.xForwarded.host \in Seq(Hosts)
  BY RequestsAssumption DEF SomeRequest
<1>2. ASSUME "host" \in DOMAIN parseForwarded(h)
      PROVE  parseForwarded(h)["host"] \in Hosts
  <2> DEFINE pairs  == Head(h.forwarded)
             places == {i \in DOMAIN pairs : pairs[i][1] = "host"}
  <2>1. CASE h.forwarded # <<>>
    <3>1. pairs \in Seq(ForwardedPairs)
      BY <1>1, <2>1
    <3> DEFINE n == Len(pairs)
    <3>2. n \in Nat /\ DOMAIN pairs = 1..n
      BY <3>1, LenProperties
    <3>3. places # {}
      BY <1>2, <2>1 DEF parseForwarded
    <3>4. places \in SUBSET (1..n)
      BY <3>2
    <3>5. Max(places) \in places
      <4> HIDE DEF places, n
      <4> QED BY <3>2, <3>3, <3>4, MaxProperties
    <3>6. pairs[Max(places)] \in ForwardedPairs
      <4> HIDE DEF pairs
      <4> QED BY <3>1, <3>2, <3>5, ElementOfSeq
    <3>7. pairs[Max(places)][1] = "host"
      BY <3>5
    <3>8. pairs[Max(places)][2] \in Hosts
      BY <3>6, <3>7 DEF ForwardedPairs
    <3>9. parseForwarded(h)["host"] = pairs[Max(places)][2]
      BY <1>2, <2>1, <3>3 DEF parseForwarded
    <3>10. QED BY <3>8, <3>9
  <2>2. CASE h.forwarded = <<>>
    <3>1. h.xForwarded["host"] # <<>> /\ parseForwarded(h)["host"] = Head(h.xForwarded["host"])
      BY <1>2, <2>2 DEF parseForwarded
    <3>2. QED BY <1>1, <3>1
  <2>3. QED BY <2>1, <2>2
<1>3. RequestHost \in Hosts
  BY <1>1, <1>2 DEF RequestHost
<1>4. QED BY <1>1, <1>3

\* The routes that do not decline the URL of a request are those configured for it.
LEMMA TakingIsWanted ==
    ASSUME SomeRequest, UrlRead
    PROVE  {i \in DOMAIN Routes : Declines(Routes[i]) = 0} = WantedRoutes
<1>1. ASSUME NEW i \in DOMAIN Routes
      PROVE  Declines(Routes[i]) = 0
                <=> /\ Routes[i].method = request.method
                    /\ MeansSubdomain(Routes[i], RequestHost)
                    /\ MeansPath(Routes[i].pattern, Segments(Meant(request.path)))
  <2> DEFINE route == Routes[i]
  <2>1. route \in RouteRecords
    BY RoutesAssumption, ElementOfSeq, LenProperties
  <2>2. /\ route.pattern \in Seq(Seq(STRING))
        /\ route.subdomain \in {AnySubdomain, NoSubdomain} \cup SUBSET (Seq(STRING) \ {<<>>})
    <3>1. route.pattern \in Seq(Seq(STRING \ {Invalid}))
      BY <2>1 DEF RouteRecords
    <3>2. Seq(STRING \ {Invalid}) \subseteq Seq(STRING)
      OBVIOUS
    <3>3. Seq(Seq(STRING \ {Invalid})) \subseteq Seq(Seq(STRING))
      BY <3>2
    <3>4. QED BY <2>1, <3>1, <3>3 DEF RouteRecords
  <2> HIDE DEF route
  <2>3. request.path \in Seq(Characters)
    BY RequestTyped
  <2>4. MatchesSubdomain(route, url.host) <=> MeansSubdomain(route, RequestHost)
    BY <2>2, SubdomainMatched DEF UrlRead
  <2>5. MatchesPath(route, url.segments)
           <=> MeansPath(route.pattern, Segments(Meant(request.path)))
    BY <2>2, <2>3, PathMatched DEF UrlRead
  <2>6. Declines(route) = 0
           <=> /\ route.method = request.method
               /\ MatchesSubdomain(route, url.host)
               /\ MatchesPath(route, url.segments)
    BY DEF Declines
  <2>7. QED BY <2>4, <2>5, <2>6 DEF route
<1>2. WantedRoutes =
         {i \in DOMAIN Routes :
             /\ Routes[i].method = request.method
             /\ MeansSubdomain(Routes[i], RequestHost)
             /\ MeansPath(Routes[i].pattern, Segments(Meant(request.path)))}
  BY DEF WantedRoutes, MeansSubdomain
<1>3. QED BY <1>1, <1>2

\* A step that leaves the request alone changes nothing that is said of it.
LEMMA RequestKept ==
    ASSUME request' = request
    PROVE  /\ SomeRequest <=> SomeRequest'
           /\ RequestHost' = RequestHost
           /\ WantedRoutes' = WantedRoutes
           /\ url' = url => UrlRead' = UrlRead
<1>1. RequestHost' = RequestHost
  BY DEF RequestHost
<1>2. WantedRoutes' = WantedRoutes
  BY <1>1 DEF WantedRoutes
<1>3. QED BY <1>1, <1>2 DEF SomeRequest, UrlRead

\* At the start there is a request and no handler.
LEMMA RoutedInit == Init => RoutedInv
BY DEF Init, RoutedInv, SomeRequest, ServedIffConfigured

\* Every step keeps the invariant, the routing of WaterfallHandler by TakingIsWanted.
LEMMA RoutedStep == RoutedInv /\ [Next]_vars => RoutedInv'
<1> SUFFICES ASSUME RoutedInv, [Next]_vars PROVE RoutedInv'
  OBVIOUS
<1>1. CASE UNCHANGED vars
  <2>1. request' = request
    BY <1>1 DEF vars
  <2>2. QED BY <1>1, <2>1, RequestKept DEF vars, RoutedInv, ServedIffConfigured
<1>2. CASE Dispatch
  <2>1. request' = request
    BY <1>2 DEF Dispatch
  <2>2. QED BY <1>2, <2>1, RequestKept DEF Dispatch, RoutedInv, ServedIffConfigured
<1>3. CASE ExtractUrl
  <2>1. request' = request /\ handler' = handler /\ body' = body /\ handler = 0 /\ body = "none"
    BY <1>3 DEF ExtractUrl, RoutedInv
  <2>2. stage' = "refused" \/ (stage' = "parseBody" /\ UrlRead')
    <3>1. RequestHost \in Hosts
      BY RequestTyped DEF RoutedInv
    <3>2. CASE stage' # "refused"
      <4>1. /\ RequestHost \notin {NoHost, BadHost, UnparsableHost}
            /\ stage' = "parseBody"
            /\ url'.host = RequestHost
            /\ url'.segments = Segments(toCanonicalUriPath(request.path))
        BY <1>3, <3>2 DEF ExtractUrl, Fail
      <4>2. RequestHost \in Seq(STRING)
        BY <3>1, <4>1 DEF Hosts
      <4>3. QED BY <2>1, <4>1, <4>2, RequestKept DEF UrlRead
    <3>3. QED BY <3>2
  <2>3. QED BY <2>1, <2>2, RequestKept DEF RoutedInv, ServedIffConfigured
<1>4. CASE ParseBody
  <2>1. /\ request' = request /\ url' = url /\ handler' = handler
        /\ handler = 0 /\ body = "none" /\ UrlRead
        /\ \/ stage' = "refused" /\ body' = body
           \/ stage' = "route"
    BY <1>4 DEF ParseBody, RoutedInv, Fail
  <2>2. QED BY <2>1, RequestKept DEF RoutedInv, ServedIffConfigured
<1>5. CASE FindRoute
  <2> DEFINE taking == {i \in DOMAIN Routes : Declines(Routes[i]) = 0}
  <2>1. request' = request /\ handler = 0 /\ UrlRead /\ SomeRequest
    BY <1>5 DEF FindRoute, RoutedInv
  <2>2. taking = WantedRoutes
    BY <2>1, TakingIsWanted
  <2>3. CASE taking = {}
    <3>1. stage' = "refused" /\ handler' = 0 /\ WantedRoutes' = {}
      BY <1>5, <2>1, <2>2, <2>3, RequestKept DEF FindRoute, Fail
    <3>2. QED BY <2>1, <3>1, RequestKept DEF RoutedInv, ServedIffConfigured
  <2>4. CASE taking # {}
    <3>1. stage' = "parameters" /\ handler' = Min(taking)
      BY <1>5, <2>4 DEF FindRoute
    <3>2. taking \in SUBSET Nat /\ 0 \notin taking
      BY RoutesAssumption, LenProperties
    <3>3. handler' # 0
      <4> HIDE DEF taking
      <4> QED BY <2>4, <3>1, <3>2, MinProperties
    <3>4. QED BY <2>1, <2>2, <2>4, <3>1, <3>3, RequestKept DEF RoutedInv, ServedIffConfigured
  <2>5. QED BY <2>3, <2>4
<1>6. CASE ExtractParameters
  <2>1. request' = request
    BY <1>6 DEF ExtractParameters
  <2>2. QED BY <1>6, <2>1, RequestKept DEF ExtractParameters, RoutedInv, ServedIffConfigured
<1>7. CASE ReadHeaders
  <2>1. /\ request' = request /\ handler' = handler /\ handler # 0
        /\ stage' \in {"refused", "handled"}
    BY <1>7 DEF ReadHeaders, RoutedInv, Fail
  <2>2. QED BY <2>1, RequestKept DEF RoutedInv, ServedIffConfigured
<1>8. QED BY <1>1, <1>2, <1>3, <1>4, <1>5, <1>6, <1>7 DEF Next

\* What the stages of the request handler know (ParsingHttpHandler, WaterfallHandler,
\* RouteMatchingRequestHandler), for any routes and any requests.
THEOREM RoutedInvariant == Spec => []RoutedInv
<1>1. QED BY RoutedInit, RoutedStep, PTL DEF Spec

\* A request is served by the first route configured for what its path means, its method
\* and its host, and refused by all only if none is: for any routes and any requests.
THEOREM ServedAsConfigured == Spec => []ServedIffConfigured
<1>1. RoutedInv => ServedIffConfigured
  BY DEF RoutedInv
<1>2. QED BY <1>1, RoutedInvariant, PTL

---------------------------------------------------------------------------
(* Splitting a text, and what is written for one.                          *)

\* The empty text is one empty piece (SplitOn).
LEMMA SplitEmpty ==
    ASSUME NEW separator
    PROVE  SplitOn(<<>>, separator) = << <<>> >>
<1>1. PICK run : SplitRun(run, {}, <<>>, separator)
  <2>1. <<>> \in Seq({} \cup {separator})
    OBVIOUS
  <2>2. QED BY <2>1, SplitRuns
<1>2. QED BY <1>1 DEF SplitRun

\* One more character is one more step of it.
LEMMA SplitAppend ==
    ASSUME NEW D, NEW separator, NEW text \in Seq(D \cup {separator}), NEW s \in D \cup {separator}
    PROVE  /\ SplitOn(text, separator) \in Pieces(D)
           /\ SplitOn(Append(text, s), separator) = SplitStep(SplitOn(text, separator), s, separator)
<1> DEFINE n == Len(text)
           more == Append(text, s)
<1>1. /\ n \in Nat /\ Len(more) = n + 1 /\ more \in Seq(D \cup {separator})
      /\ \A i \in 1..n : more[i] = text[i]
      /\ more[n + 1] = s
  OBVIOUS
<1> HIDE DEF more
<1>2. PICK run : SplitRun(run, D, text, separator)
  BY SplitRuns
<1>3. PICK run2 : SplitRun(run2, D, more, separator)
  BY <1>1, SplitRuns
<1> DEFINE P == {i \in 0..n : run2[i] = run[i]}
<1>4. 0 \in P
  <2>1. run[0] = << <<>> >> /\ run2[0] = << <<>> >>
    BY <1>2, <1>3 DEF SplitRun
  <2>2. 0 \in 0..n
    BY <1>1
  <2>3. QED BY <2>1, <2>2
<1>5. \A i \in 1..n : i - 1 \in P => i \in P
  <2> SUFFICES ASSUME NEW i \in 1..n, run2[i - 1] = run[i - 1] PROVE i \in 0..n /\ run2[i] = run[i]
    OBVIOUS
  <2>1. i \in 1..Len(more) /\ i \in 0..n
    BY <1>1
  <2>2. run2[i] = SplitStep(run2[i - 1], more[i], separator)
    BY <1>3, <2>1 DEF SplitRun
  <2>3. run[i] = SplitStep(run[i - 1], text[i], separator)
    BY <1>2 DEF SplitRun
  <2>4. QED BY <1>1, <2>1, <2>2, <2>3
<1>6. 0..n \subseteq P
  <2> HIDE DEF P, n
  <2> QED BY <1>1, <1>4, <1>5, UpTo
<1>7. run2[n] = run[n]
  BY <1>1, <1>6
<1>8. run2[n + 1] = SplitStep(run2[n], s, separator)
  <2>1. n + 1 \in 1..Len(more) /\ (n + 1) - 1 = n
    BY <1>1
  <2>2. run2[n + 1] = SplitStep(run2[(n + 1) - 1], more[n + 1], separator)
    BY <1>3, <2>1 DEF SplitRun
  <2>3. QED BY <1>1, <2>1, <2>2
<1>9. run[n] \in Pieces(D) /\ SplitOn(text, separator) = run[n]
  BY <1>1, <1>2 DEF SplitRun
<1>10. SplitOn(more, separator) = run2[n + 1]
  BY <1>1, <1>3 DEF SplitRun
<1>11. QED BY <1>7, <1>8, <1>9, <1>10 DEF more

\* A step ends the last piece, or goes on with it.
Ends(front, last, separator) ==
    SplitStep(Append(front, last), separator, separator) = Append(Append(front, last), <<>>)
GoesOnWith(front, last, s, separator) ==
    SplitStep(Append(front, last), s, separator) = Append(front, Append(last, s))

\* A step does the first at the separator, the second at every other character.
LEMMA SplitStepForm ==
    ASSUME NEW D, NEW separator, NEW front \in Seq(Seq(D)), NEW last \in Seq(D)
    PROVE  /\ Ends(front, last, separator)
           /\ \A s \in D \ {separator} : GoesOnWith(front, last, s, separator)
<1> DEFINE V == Seq(D)
<1>1. front \in Seq(V) /\ last \in V
  OBVIOUS
<1> HIDE DEF V
<1>2. Front(Append(front, last)) = front /\ Last(Append(front, last)) = last
  BY <1>1, FrontLast
<1>3. QED BY <1>2 DEF SplitStep, Ends, GoesOnWith

\* The pieces of a text are these and a last one.
SplitsTo(text, separator, front, last) == SplitOn(text, separator) = Append(front, last)

\* A text without a separator goes to the last piece.
LEMMA SplitConcat ==
    ASSUME NEW D, NEW separator, separator \notin D, NEW text \in Seq(D \cup {separator}),
           NEW front \in Seq(Seq(D)), NEW last \in Seq(D),
           SplitsTo(text, separator, front, last), NEW more \in Seq(D)
    PROVE  SplitsTo(text \o more, separator, front, last \o more)
<1> DEFINE P == {m \in Seq(D) : SplitsTo(text \o m, separator, front, last \o m)}
<1>1. <<>> \in P
  <2>1. text \o <<>> = text /\ last \o <<>> = last /\ <<>> \in Seq(D)
    BY ConcatEmptySeq
  <2>2. QED BY <2>1
<1>2. \A m \in Seq(D) : m \in P => \A x \in D : Append(m, x) \in P
  <2> SUFFICES ASSUME NEW m \in Seq(D), SplitsTo(text \o m, separator, front, last \o m),
                      NEW x \in D
               PROVE  Append(m, x) \in Seq(D) /\ SplitsTo(text \o Append(m, x), separator, front, last \o Append(m, x))
    OBVIOUS
  <2>1. text \o Append(m, x) = Append(text \o m, x) /\ last \o Append(m, x) = Append(last \o m, x)
    <3>1. m \in Seq(D \cup {separator}) /\ x \in D \cup {separator}
      OBVIOUS
    <3>2. text \o Append(m, x) = Append(text \o m, x)
      BY <3>1, ConcatAppend
    <3>3. last \o Append(m, x) = Append(last \o m, x)
      BY ConcatAppend
    <3>4. QED BY <3>2, <3>3
  <2>2. text \o m \in Seq(D \cup {separator}) /\ last \o m \in Seq(D) /\ x \in D \cup {separator}
    OBVIOUS
  <2>3. SplitOn(Append(text \o m, x), separator) = SplitStep(SplitOn(text \o m, separator), x, separator)
    BY <2>2, SplitAppend
  <2>4. x # separator
    OBVIOUS
  <2>5. SplitStep(Append(front, last \o m), x, separator) = Append(front, Append(last \o m, x))
    <3> DEFINE l == last \o m
    <3>1. l \in Seq(D)
      OBVIOUS
    <3> HIDE DEF l
    <3>2. \A s \in D \ {separator} : GoesOnWith(front, l, s, separator)
      BY <3>1, SplitStepForm
    <3>3. GoesOnWith(front, l, x, separator)
      BY <2>4, <3>2
    <3>4. QED BY <3>3 DEF l, GoesOnWith
  <2>6. Append(m, x) \in Seq(D)
    OBVIOUS
  <2>7. QED BY <2>1, <2>3, <2>5, <2>6 DEF SplitsTo
<1>3. Seq(D) \subseteq P
  <2> HIDE DEF P
  <2> QED BY <1>1, <1>2, SeqInduct
<1>4. QED BY <1>3

\* What g writes for each element of a text, one behind the other, and of several texts.
Expand(g, text)     == FlattenSeq(Over(g, text))
ExpandAll(g, texts) == [i \in DOMAIN texts |-> Expand(g, texts[i])]

\* g writes every element of A over B.
Writes(g, A, B) == Maps(g, A, Seq(B))

\* Nothing is written for the empty text ...
LEMMA ExpandEmpty ==
    ASSUME NEW g
    PROVE  Expand(g, <<>>) = <<>> /\ ExpandAll(g, <<>>) = <<>>
<1>1. Over(g, <<>>) = <<>> /\ ExpandAll(g, <<>>) = <<>>
  BY DEF Over, ExpandAll
<1>2. QED BY <1>1, FlattenEmpty DEF Expand

\* ... and what is written is a text over B, that has an element if what an element writes has it.
LEMMA ExpandType ==
    ASSUME NEW A, NEW B, NEW g, Writes(g, A, B), NEW text \in Seq(A)
    PROVE  /\ Expand(g, text) \in Seq(B)
           /\ \A x : Occurs(Expand(g, text), x) <=> \E k \in 1..Len(text) : Occurs(g[text[k]], x)
<1> DEFINE seqs == Over(g, text)
<1>1. seqs \in Seq(Seq(B)) /\ Len(seqs) = Len(text) /\ DOMAIN seqs = DOMAIN text
  BY OverSeq DEF Writes
<1>2. DOMAIN text = 1..Len(text)
  BY LenProperties
<1>3. \A k \in 1..Len(text) : seqs[k] = g[text[k]]
  BY <1>2 DEF Over
<1> HIDE DEF seqs
<1>4. FlattenSeq(seqs) \in Seq(B)
  BY <1>1, FlattenType
<1>5. \A x : Occurs(FlattenSeq(seqs), x) <=> \E k \in 1..Len(seqs) : Occurs(seqs[k], x)
  BY <1>1, FlattenOccurs
<1>6. \A x : Occurs(FlattenSeq(seqs), x) <=> \E k \in 1..Len(text) : Occurs(g[text[k]], x)
  BY <1>1, <1>3, <1>5
<1>7. QED BY <1>4, <1>6 DEF Expand, seqs

\* One more element is written behind the others.
LEMMA ExpandAppend ==
    ASSUME NEW A, NEW B, NEW g, Writes(g, A, B), NEW text \in Seq(A), NEW a \in A
    PROVE  Expand(g, Append(text, a)) = Expand(g, text) \o g[a]
<1> DEFINE seqs == Over(g, text)
<1>1. seqs \in Seq(Seq(B)) /\ g[a] \in Seq(B)
  BY OverSeq DEF Writes, Maps
<1>2. Over(g, Append(text, a)) = Append(seqs, g[a])
  BY OverAppend DEF Writes
<1> HIDE DEF seqs
<1>3. FlattenSeq(Append(seqs, g[a])) = FlattenSeq(seqs) \o g[a]
  BY <1>1, FlattenAppend
<1>4. QED BY <1>2, <1>3 DEF Expand, seqs

\* One element alone is written as g writes it.
LEMMA ExpandOne ==
    ASSUME NEW A, NEW B, NEW g, Writes(g, A, B), NEW a \in A
    PROVE  Expand(g, <<a>>) = g[a] /\ g[a] \in Seq(B)
<1> DEFINE w == g[a]
<1>1. Over(g, <<a>>) = <<w>>
  BY DEF Over
<1>2. w \in Seq(B) /\ <<>> \in Seq(Seq(B))
  BY DEF Writes, Maps
<1> HIDE DEF w
<1>3. FlattenSeq(Append(<<>>, w)) = FlattenSeq(<<>>) \o w
  BY <1>2, FlattenAppend
<1>4. Append(<<>>, w) = <<w>> /\ <<>> \o w = w
  BY <1>2, ConcatEmptySeq
<1>5. QED BY <1>1, <1>2, <1>3, <1>4, FlattenEmpty DEF Expand, w

\* ExpandAll keeps the places and the type; the text appended is written there.
WrittenOut(g, texts, text) == ExpandAll(g, Append(texts, text)) = Append(ExpandAll(g, texts), Expand(g, text))

\* Several texts are written out each on its own.
LEMMA ExpandAllType ==
    ASSUME NEW A, NEW B, NEW g, Writes(g, A, B), NEW texts \in Seq(Seq(A))
    PROVE  /\ ExpandAll(g, texts) \in Seq(Seq(B))
           /\ Len(ExpandAll(g, texts)) = Len(texts)
           /\ DOMAIN ExpandAll(g, texts) = 1..Len(texts)
           /\ \A i \in 1..Len(texts) : ExpandAll(g, texts)[i] = Expand(g, texts[i])
           /\ texts # <<>> => ExpandAll(g, Tail(texts)) = Tail(ExpandAll(g, texts))
           /\ \A text \in Seq(A) : WrittenOut(g, texts, text)
<1> DEFINE all == [t \in Seq(A) |-> Expand(g, t)]
           V   == Seq(A)
           W   == Seq(B)
<1>1. Maps(all, V, W)
  BY ExpandType DEF Maps
<1>2. \A t \in Seq(V) : ExpandAll(g, t) = Over(all, t)
  <2> SUFFICES ASSUME NEW t \in Seq(V) PROVE ExpandAll(g, t) = Over(all, t)
    OBVIOUS
  <2>1. \A i \in DOMAIN t : t[i] \in V
    <3> HIDE DEF V
    <3> QED OBVIOUS
  <2>2. QED BY <2>1 DEF ExpandAll, Over
<1>3. texts \in Seq(V)
  OBVIOUS
<1>4. \A t \in V : all[t] = Expand(g, t)
  OBVIOUS
<1> HIDE DEF all, V, W
<1>5. /\ Over(all, texts) \in Seq(W)
      /\ Len(Over(all, texts)) = Len(texts)
      /\ DOMAIN Over(all, texts) = DOMAIN texts
  BY <1>1, <1>3, OverSeq
<1>6. DOMAIN texts = 1..Len(texts)
  BY <1>3, LenProperties
<1>7. \A i \in 1..Len(texts) : ExpandAll(g, texts)[i] = Expand(g, texts[i])
  BY <1>6 DEF ExpandAll
<1>8. ASSUME texts # <<>> PROVE ExpandAll(g, Tail(texts)) = Tail(ExpandAll(g, texts))
  <2>1. Tail(texts) \in Seq(V) /\ Over(all, Tail(texts)) = Tail(Over(all, texts))
    BY <1>1, <1>3, <1>8, OverTail
  <2>2. ExpandAll(g, Tail(texts)) = Over(all, Tail(texts)) /\ ExpandAll(g, texts) = Over(all, texts)
    BY <1>2, <1>3, <2>1
  <2>3. QED BY <2>1, <2>2
<1>9. ASSUME NEW text \in V PROVE WrittenOut(g, texts, text)
  <2>1. Over(all, Append(texts, text)) = Append(Over(all, texts), all[text])
    BY <1>1, <1>3, OverAppend
  <2>2. Append(texts, text) \in Seq(V)
    BY <1>3
  <2>3. ExpandAll(g, Append(texts, text)) = Over(all, Append(texts, text)) /\ ExpandAll(g, texts) = Over(all, texts)
    BY <1>2, <1>3, <2>2
  <2>4. QED BY <1>4, <2>1, <2>3 DEF WrittenOut
<1>10. ExpandAll(g, texts) = Over(all, texts)
  BY <1>2, <1>3
<1>11. QED BY <1>5, <1>6, <1>7, <1>8, <1>9, <1>10 DEF V, W

\* Splitting what is written is writing what was split ...
SplitWritten(g, text, from, to) == SplitOn(Expand(g, text), to) = ExpandAll(g, SplitOn(text, from))

\* ... when one element, and it alone, writes the separator.
LEMMA SplitExpand ==
    ASSUME NEW A, NEW B, NEW from, NEW to, from \notin A, to \notin B,
           NEW g, Writes(g, A, B), g[from] = <<to>>, NEW text \in Seq(A \cup {from})
    PROVE  SplitWritten(g, text, from, to)
<1> DEFINE A1 == A \cup {from}
           B1 == B \cup {to}
           P  == {t \in Seq(A1) : SplitWritten(g, t, from, to)}
<1>1. Writes(g, A1, B1)
  <2>1. ASSUME NEW a \in A PROVE g[a] \in Seq(B1)
    <3>1. g[a] \in Seq(B)
      BY DEF Writes, Maps
    <3>2. QED BY <3>1
  <2>2. <<to>> \in Seq(B1)
    OBVIOUS
  <2>3. QED BY <2>1, <2>2 DEF Writes, Maps
<1>2. <<>> \in P
  <2>1. Expand(g, <<>>) = <<>> /\ SplitOn(<<>>, to) = << <<>> >> /\ SplitOn(<<>>, from) = << <<>> >>
    BY ExpandEmpty, SplitEmpty
  <2>2. ExpandAll(g, << <<>> >>) = << <<>> >>
    BY <2>1 DEF ExpandAll
  <2>3. <<>> \in Seq(A1)
    OBVIOUS
  <2>4. QED BY <2>1, <2>2, <2>3 DEF SplitWritten
<1>3. ASSUME NEW t \in Seq(A1), SplitWritten(g, t, from, to), NEW x \in A1
      PROVE  SplitWritten(g, Append(t, x), from, to)
  <2> DEFINE parts == SplitOn(t, from)
             f     == Front(parts)
             l     == Last(parts)
             T     == Expand(g, t)
             F     == ExpandAll(g, f)
             L     == Expand(g, l)
  <2>1. parts \in Pieces(A) /\ SplitOn(Append(t, x), from) = SplitStep(parts, x, from)
    BY SplitAppend
  <2>2. f \in Seq(Seq(A)) /\ l \in Seq(A) /\ parts = Append(f, l)
    <3> DEFINE V == Seq(A)
    <3>1. parts \in Seq(V) /\ parts # <<>>
      BY <2>1 DEF Pieces
    <3> HIDE DEF V, parts
    <3>2. f \in Seq(V) /\ l \in V /\ parts = Append(f, l)
      BY <3>1, AppendForm
    <3>3. QED BY <3>2 DEF V
  <2>3. T \in Seq(B1)
    BY <1>1, ExpandType
  <2>4. F \in Seq(Seq(B)) /\ WrittenOut(g, f, l)
    <3> HIDE DEF f, l
    <3> QED BY <2>2, ExpandAllType
  <2>5. L \in Seq(B)
    <3> HIDE DEF l
    <3> QED BY <2>2, ExpandType
  <2>6. SplitOn(T, to) = ExpandAll(g, parts)
    BY <1>3 DEF SplitWritten
  <2> HIDE DEF parts, f, l, T
  <2>7. SplitOn(T, to) = Append(F, L)
    BY <2>2, <2>4, <2>6 DEF WrittenOut
  <2>8. Expand(g, Append(t, x)) = T \o g[x]
    <3>1. t \in Seq(A1)
      OBVIOUS
    <3> HIDE DEF A1, B1
    <3>2. QED BY <1>1, <1>3, <3>1, ExpandAppend DEF T
  <2>9. /\ WrittenOut(g, parts, <<>>)
        /\ x \in A => WrittenOut(g, f, Append(l, x))
    <3>1. parts \in Seq(Seq(A)) /\ <<>> \in Seq(A) /\ (x \in A => Append(l, x) \in Seq(A))
      BY <2>1, <2>2 DEF Pieces
    <3>2. \A p \in Seq(A) : WrittenOut(g, parts, p)
      BY <3>1, ExpandAllType
    <3>3. \A p \in Seq(A) : WrittenOut(g, f, p)
      BY <2>2, ExpandAllType
    <3>4. QED BY <3>1, <3>2, <3>3
  <2> HIDE DEF F, L
  <2>10. CASE x = from
    <3>1. T \o <<to>> = Append(T, to) /\ to \in B1
      BY <2>3
    <3>2. SplitOn(Append(T, to), to) = SplitStep(SplitOn(T, to), to, to)
      BY <2>3, <3>1, SplitAppend
    <3>3. Ends(F, L, to) /\ Ends(f, l, from)
      BY <2>2, <2>4, <2>5, SplitStepForm
    <3>4. SplitOn(Expand(g, Append(t, x)), to) = Append(Append(F, L), <<>>)
      BY <2>7, <2>8, <2>10, <3>1, <3>2, <3>3 DEF Ends
    <3>5. SplitOn(Append(t, x), from) = Append(parts, <<>>)
      BY <2>1, <2>2, <2>10, <3>3 DEF Ends
    <3>6. ExpandAll(g, Append(parts, <<>>)) = Append(Append(F, L), <<>>)
      BY <2>6, <2>7, <2>9, ExpandEmpty DEF WrittenOut
    <3>7. QED BY <3>4, <3>5, <3>6 DEF SplitWritten
  <2>11. CASE x \in A
    <3>1. g[x] \in Seq(B) /\ x \in A \ {from}
      BY <2>11 DEF Writes, Maps
    <3>2. SplitOn(T \o g[x], to) = Append(F, L \o g[x])
      <4> DEFINE m == g[x]
      <4>1. m \in Seq(B) /\ T \in Seq(B \cup {to}) /\ SplitsTo(T, to, F, L)
        BY <2>3, <2>7, <3>1 DEF SplitsTo
      <4> HIDE DEF m
      <4>2. SplitsTo(T \o m, to, F, L \o m)
        BY <2>4, <2>5, <4>1, SplitConcat
      <4>3. QED BY <4>2 DEF m, SplitsTo
    <3>3. GoesOnWith(f, l, x, from)
      BY <2>2, <3>1, SplitStepForm
    <3>4. SplitOn(Append(t, x), from) = Append(f, Append(l, x))
      BY <2>1, <2>2, <3>3 DEF GoesOnWith
    <3>5. Expand(g, Append(l, x)) = L \o g[x]
      BY <2>2, <2>11, ExpandAppend DEF L
    <3>6. ExpandAll(g, Append(f, Append(l, x))) = Append(F, L \o g[x])
      BY <2>9, <2>11, <3>5 DEF WrittenOut, F
    <3>7. SplitOn(Expand(g, Append(t, x)), to) = Append(F, L \o g[x])
      BY <2>8, <3>2
    <3>8. QED BY <3>4, <3>6, <3>7 DEF SplitWritten
  <2>12. QED BY <2>10, <2>11
<1>4. Seq(A1) \subseteq P
  <2>1. \A t \in Seq(A1) : t \in P => \A x \in A1 : Append(t, x) \in P
    <3> SUFFICES ASSUME NEW t \in Seq(A1), t \in P, NEW x \in A1 PROVE Append(t, x) \in P
      OBVIOUS
    <3>1. SplitWritten(g, Append(t, x), from, to)
      BY <1>3
    <3>2. Append(t, x) \in Seq(A1)
      OBVIOUS
    <3>3. QED BY <3>1, <3>2
  <2> HIDE DEF P, A1
  <2> QED BY <1>2, <2>1, SeqInduct
<1>5. QED BY <1>4

\* NonEmpty keeps what is not empty ...
Keep(D)       == [p \in Seq(D) |-> IF p = <<>> THEN <<>> ELSE <<p>>]
KeptWith(p, parts) ==
    NonEmpty(Append(parts, p)) = IF p = <<>> THEN NonEmpty(parts) ELSE Append(NonEmpty(parts), p)

\* NonEmpty writes a text out, an empty piece as nothing.
LEMMA NonEmptyIs ==
    ASSUME NEW D, NEW parts \in Seq(Seq(D))
    PROVE  NonEmpty(parts) = Expand(Keep(D), parts) /\ Writes(Keep(D), Seq(D), Seq(D) \ {<<>>})
<1> DEFINE V == Seq(D)
<1>1. \A i \in DOMAIN parts : parts[i] \in V
  <2>1. parts \in Seq(V)
    OBVIOUS
  <2> HIDE DEF V
  <2>2. QED BY <2>1
<1>2. NonEmpty(parts) = Expand(Keep(D), parts)
  BY <1>1 DEF NonEmpty, Expand, Over, Keep
<1>3. ASSUME NEW p \in V PROVE Keep(D)[p] \in Seq(V \ {<<>>})
  <2>1. Keep(D)[p] = IF p = <<>> THEN <<>> ELSE <<p>>
    BY DEF Keep
  <2> HIDE DEF V
  <2>2. CASE p = <<>>
    BY <2>1, <2>2
  <2>3. CASE p # <<>>
    <3>1. <<p>> \in Seq(V \ {<<>>})
      BY <2>3
    <3>2. QED BY <2>1, <2>3, <3>1
  <2>4. QED BY <2>2, <2>3
<1>4. QED BY <1>2, <1>3 DEF Writes, Maps

\* NonEmpty returns the pieces that are not empty, in their order.
LEMMA NonEmptyType ==
    ASSUME NEW D, NEW parts \in Seq(Seq(D))
    PROVE  /\ NonEmpty(parts) \in Seq(Seq(D) \ {<<>>})
           /\ \A x : Occurs(NonEmpty(parts), x) => x # <<>> /\ Occurs(parts, x)
           /\ \A p \in Seq(D) : KeptWith(p, parts)
<1> DEFINE V == Seq(D)
           W == V \ {<<>>}
           k == Keep(D)
<1>1. parts \in Seq(V) /\ NonEmpty(parts) = Expand(k, parts) /\ Writes(k, V, W)
  BY NonEmptyIs
<1>2. \A p \in V : k[p] = IF p = <<>> THEN <<>> ELSE <<p>>
  BY DEF Keep
<1>3. ASSUME NEW p \in V PROVE Append(parts, p) \in Seq(Seq(D)) /\ NonEmpty(Append(parts, p)) = Expand(k, Append(parts, p))
  <2>1. Append(parts, p) \in Seq(V)
    <3> HIDE DEF V
    <3> QED BY <1>1
  <2>2. QED BY <2>1, NonEmptyIs
<1> HIDE DEF V, W, k
<1>4. /\ Expand(k, parts) \in Seq(W)
      /\ \A x : Occurs(Expand(k, parts), x) <=> \E i \in 1..Len(parts) : Occurs(k[parts[i]], x)
  BY <1>1, ExpandType
<1>5. ASSUME NEW x, Occurs(NonEmpty(parts), x) PROVE x # <<>> /\ Occurs(parts, x)
  <2>1. PICK i \in 1..Len(parts) : Occurs(k[parts[i]], x)
    BY <1>1, <1>4, <1>5
  <2>2. parts[i] \in V
    BY <1>1
  <2>3. CASE parts[i] = <<>>
    <3>1. k[parts[i]] = <<>>
      BY <1>2, <2>2, <2>3
    <3>2. Len(<<>>) = 0
      OBVIOUS
    <3>3. QED BY <2>1, <3>1, <3>2 DEF Occurs
  <2>4. CASE parts[i] # <<>>
    <3>1. k[parts[i]] = <<parts[i]>>
      BY <1>2, <2>2, <2>4
    <3>2. x = parts[i]
      BY <2>1, <3>1 DEF Occurs
    <3>3. QED BY <2>4, <3>2 DEF Occurs
  <2>5. QED BY <2>3, <2>4
<1>6. ASSUME NEW p \in V PROVE KeptWith(p, parts)
  <2>1. Expand(k, Append(parts, p)) = Expand(k, parts) \o k[p]
    BY <1>1, ExpandAppend
  <2> DEFINE kept == Expand(k, parts)
  <2>2. kept \in Seq(W)
    BY <1>4
  <2> HIDE DEF kept
  <2>3. CASE p = <<>>
    <3>1. kept \o <<>> = kept
      BY <2>2, ConcatEmptySeq
    <3>2. k[p] = <<>>
      BY <1>2, <2>3
    <3>3. QED BY <1>1, <1>3, <2>1, <2>3, <3>1, <3>2 DEF kept, KeptWith
  <2>4. CASE p # <<>>
    <3>1. k[p] = <<p>> /\ p \in W
      BY <1>2, <2>4 DEF W
    <3>2. kept \o <<p>> = Append(kept, p)
      BY <2>2, <3>1
    <3>3. QED BY <1>1, <1>3, <2>1, <2>4, <3>1, <3>2 DEF kept, KeptWith
  <2>5. QED BY <2>3, <2>4
<1>7. NonEmpty(parts) \in Seq(W)
  BY <1>1, <1>4
<1>8. QED BY <1>5, <1>6, <1>7 DEF V, W

\* ... and what is written is empty only where nothing was to write.
LEMMA NonEmptyExpand ==
    ASSUME NEW A, NEW B, NEW g, Writes(g, A, B), \A a \in A : g[a] # <<>>,
           NEW texts \in Seq(Seq(A))
    PROVE  NonEmpty(ExpandAll(g, texts)) = ExpandAll(g, NonEmpty(texts))
<1> DEFINE V == Seq(A)
           P == {t \in Seq(V) : NonEmpty(ExpandAll(g, t)) = ExpandAll(g, NonEmpty(t))}
<1>1. \A t \in V : Expand(g, t) = <<>> <=> t = <<>>
  <2> SUFFICES ASSUME NEW t \in V PROVE Expand(g, t) = <<>> <=> t = <<>>
    OBVIOUS
  <2>1. t = <<>> => Expand(g, t) = <<>>
    BY ExpandEmpty
  <2>2. ASSUME t # <<>> PROVE Expand(g, t) # <<>>
    <3>1. Front(t) \in Seq(A) /\ Last(t) \in A /\ t = Append(Front(t), Last(t))
      BY <2>2, AppendForm
    <3>2. Expand(g, t) = Expand(g, Front(t)) \o g[Last(t)]
      BY <3>1, ExpandAppend
    <3> DEFINE e == Expand(g, Front(t))
               m == g[Last(t)]
    <3>3. e \in Seq(B) /\ m \in Seq(B) /\ m # <<>>
      BY <3>1, ExpandType DEF Writes, Maps
    <3> HIDE DEF e, m
    <3>4. Len(m) \in Nat \ {0} /\ Len(e) \in Nat /\ Len(e \o m) = Len(e) + Len(m)
      BY <3>3, EmptySeq, ConcatProperties
    <3>5. e \o m # <<>>
      BY <3>4
    <3>6. QED BY <3>2, <3>5 DEF e, m
  <2>3. QED BY <2>1, <2>2
<1>2. <<>> \in P
  <2>1. NonEmpty(<<>>) = <<>>
    BY FlattenEmpty DEF NonEmpty
  <2>2. QED BY <2>1, ExpandEmpty
<1>3. ASSUME NEW t \in Seq(V), NonEmpty(ExpandAll(g, t)) = ExpandAll(g, NonEmpty(t)), NEW p \in V
      PROVE  NonEmpty(ExpandAll(g, Append(t, p))) = ExpandAll(g, NonEmpty(Append(t, p)))
  <2> DEFINE e == Expand(g, p)
             all == ExpandAll(g, t)
             kept == NonEmpty(t)
  <2>1. WrittenOut(g, t, p) /\ all \in Seq(Seq(B))
    BY ExpandAllType
  <2>2. kept \in Seq(V) /\ KeptWith(p, t)
    <3>1. kept \in Seq(V \ {<<>>}) /\ KeptWith(p, t)
      BY NonEmptyType
    <3> HIDE DEF V, kept
    <3>2. QED BY <3>1
  <2>3. e \in Seq(B)
    BY ExpandType
  <2>4. KeptWith(e, all)
    <3> HIDE DEF e, all
    <3> QED BY <2>1, <2>3, NonEmptyType
  <2>5. WrittenOut(g, kept, p)
    <3> HIDE DEF kept
    <3> QED BY <2>2, ExpandAllType
  <2>6. e = <<>> <=> p = <<>>
    BY <1>1
  <2>7. ExpandAll(g, Append(t, p)) = Append(all, e)
    BY <2>1 DEF WrittenOut
  <2>8. NonEmpty(all) = ExpandAll(g, kept)
    BY <1>3
  <2> HIDE DEF e, all, kept
  <2>9. CASE p = <<>>
    BY <2>2, <2>4, <2>6, <2>7, <2>8, <2>9 DEF KeptWith, kept
  <2>10. CASE p # <<>>
    <3>1. NonEmpty(Append(all, e)) = Append(ExpandAll(g, kept), e)
      BY <2>4, <2>6, <2>8, <2>10 DEF KeptWith
    <3>2. NonEmpty(Append(t, p)) = Append(kept, p)
      BY <2>2, <2>10 DEF KeptWith, kept
    <3>3. ExpandAll(g, Append(kept, p)) = Append(ExpandAll(g, kept), e)
      BY <2>5 DEF WrittenOut, e
    <3>4. QED BY <2>7, <3>1, <3>2, <3>3
  <2>11. QED BY <2>9, <2>10
<1>4. Seq(V) \subseteq P
  <2>1. \A t \in Seq(V) : t \in P => \A p \in V : Append(t, p) \in P
    <3> SUFFICES ASSUME NEW t \in Seq(V), t \in P, NEW p \in V PROVE Append(t, p) \in P
      OBVIOUS
    <3>1. NonEmpty(ExpandAll(g, Append(t, p))) = ExpandAll(g, NonEmpty(Append(t, p)))
      BY <1>3
    <3>2. Append(t, p) \in Seq(V)
      <4> HIDE DEF V
      <4> QED OBVIOUS
    <3>3. QED BY <3>1, <3>2
  <2>2. <<>> \in P
    BY <1>2
  <2> HIDE DEF P, V
  <2> QED BY <2>1, <2>2, SeqInduct
<1>5. QED BY <1>4

---------------------------------------------------------------------------
(* The atoms of a header: what the lexer of transformQuotedStrings reads.  *)

\* The characters the proofs speak of, and the atoms of a text with these quoted strings.
Chars            == STRING \cup {",", ";", "=", Quote, Backslash}
Symbols          == {Symbol(c) : c \in Chars}
AtomSet(strings) == Symbols \cup {String(n, strings[n]) : n \in DOMAIN strings}

\* In a quoted string a quote has a backslash before it.
Escaped(string) ==
    \A i \in 1..Len(string) : string[i] = Quote => i > 1 /\ string[i - 1] = Backslash

\* What the lexer has read: outside of a string, whole strings and symbols without a quote; inside of
\* one, its text so far.
LexRecords ==
    [atoms   : Seq([string : Nat, text : Seq(Chars)]),
     strings : Seq(Seq(Chars)),
     open    : BOOLEAN,
     escaped : BOOLEAN,
     string  : Seq(Chars)]

LexStates ==
    {st \in LexRecords :
        /\ st.atoms \in Seq(AtomSet(st.strings) \ {Symbol(Quote)})
        /\ ~st.open => ~st.escaped
        /\ st.escaped => st.string # <<>> /\ Last(st.string) = Backslash
        /\ Escaped(st.string)}

\* Lexed reads one more character ...
LexStep(acc, s) ==
    IF ~acc.open
    THEN IF s = Quote THEN [acc EXCEPT !.open = TRUE, !.string = <<>>]
         ELSE [acc EXCEPT !.atoms = Append(@, Symbol(s))]
    ELSE IF s = Quote /\ ~acc.escaped
         THEN [acc EXCEPT !.open = FALSE,
                          !.strings = Append(@, acc.string),
                          !.atoms = Append(@, String(Len(acc.strings) + 1, acc.string))]
         ELSE [acc EXCEPT !.string = Append(@, s),
                          !.escaped = s = Backslash /\ ~@]

\* What it has read before the first.
LexBase == [atoms |-> <<>>, strings |-> <<>>, open |-> FALSE, escaped |-> FALSE, string |-> <<>>]

\* ... as the function FoldLeft unfolds to does.
LexIter(input, iter) ==
    iter = [s \in SUBSET DOMAIN input |->
               IF s = {} THEN LexBase ELSE LexStep(iter[s \ {Max(s)}], input[Max(s)])]

\* What it has read in the end.
LexLast(input) == (CHOOSE iter : LexIter(input, iter))[DOMAIN input]

\* What is left when a quote was not closed: symbols.
Rest(last)    == IF last.open THEN <<Quote>> \o last.string ELSE <<>>
RestAtoms(last) == [i \in DOMAIN Rest(last) |-> Symbol(Rest(last)[i])]

\* Lexed is that function at all the places of the text.
LEMMA LexedIsIter ==
    ASSUME NEW input
    PROVE  /\ Lexed(input).atoms = LexLast(input).atoms \o RestAtoms(LexLast(input))
           /\ Lexed(input).strings = LexLast(input).strings
BY DEF Lexed, FoldLeft, MapThenFoldSet, LexIter, LexStep, LexBase, LexLast, Rest, RestAtoms

\* The lexer starts in one of its states ...
LEMMA LexBaseType == LexBase \in LexStates
<1>1. LexBase \in LexRecords
  BY DEF LexBase, LexRecords
<1>2. <<>> \in Seq(AtomSet(<<>>) \ {Symbol(Quote)}) /\ Escaped(<<>>)
  BY DEF Escaped
<1>3. QED BY <1>1, <1>2 DEF LexStates, LexBase

\* The atoms stay atoms when a string is added.
LEMMA AtomsGrow ==
    ASSUME NEW strings \in Seq(Seq(Chars)), NEW string \in Seq(Chars)
    PROVE  /\ AtomSet(strings) \subseteq AtomSet(Append(strings, string))
           /\ String(Len(strings) + 1, string) \in AtomSet(Append(strings, string)) \ Symbols
<1> DEFINE V    == Seq(Chars)
           more == Append(strings, string)
           n    == Len(strings)
<1>1. /\ n \in Nat /\ DOMAIN strings = 1..n /\ DOMAIN more = 1..(n + 1)
      /\ (\A i \in 1..n : more[i] = strings[i]) /\ more[n + 1] = string
  <2>1. strings \in Seq(V) /\ string \in V
    OBVIOUS
  <2> HIDE DEF V
  <2>2. QED BY <2>1
<1> HIDE DEF more, n
<1>2. \A i \in DOMAIN strings : i \in DOMAIN more /\ more[i] = strings[i]
  BY <1>1
<1>3. n + 1 \in DOMAIN more /\ n + 1 # 0
  BY <1>1
<1>4. String(n + 1, string) \notin Symbols
  BY <1>3 DEF String, Symbol, Symbols
<1>5. String(n + 1, string) \in AtomSet(more)
  BY <1>1, <1>3 DEF AtomSet
<1>6. AtomSet(strings) \subseteq AtomSet(more)
  BY <1>2 DEF AtomSet
<1>7. QED BY <1>4, <1>5, <1>6 DEF more, n

\* The string read so far stays escaped.
LEMMA EscapedStep ==
    ASSUME NEW string \in Seq(Chars), NEW s \in Chars, Escaped(string),
           s = Quote => string # <<>> /\ Last(string) = Backslash
    PROVE  Escaped(Append(string, s)) /\ Append(string, s) # <<>> /\ Last(Append(string, s)) = s
<1> DEFINE more == Append(string, s)
           n    == Len(string)
<1>1. /\ n \in Nat /\ Len(more) = n + 1 /\ more # <<>>
      /\ (\A i \in 1..n : more[i] = string[i]) /\ more[n + 1] = s
  BY AppendProperties
<1>2. string # <<>> => n # 0 /\ Last(string) = string[n]
  BY EmptySeq DEF Last
<1> HIDE DEF more, n
<1>3. ASSUME NEW i \in 1..(n + 1), more[i] = Quote PROVE i > 1 /\ more[i - 1] = Backslash
  <2>1. CASE i = n + 1
    <3>1. n # 0 /\ string[n] = Backslash
      BY <1>1, <1>2, <1>3, <2>1
    <3>2. n \in 1..n /\ i - 1 = n
      BY <1>1, <2>1, <3>1
    <3>3. QED BY <1>1, <2>1, <3>1, <3>2
  <2>2. CASE i # n + 1
    <3>1. i \in 1..n
      BY <1>1, <2>2
    <3>2. i > 1 /\ string[i - 1] = Backslash
      BY <1>1, <1>3, <3>1 DEF Escaped, n
    <3>3. i - 1 \in 1..n
      BY <1>1, <3>1, <3>2
    <3>4. QED BY <1>1, <3>2, <3>3
  <2>3. QED BY <2>1, <2>2
<1>4. Last(more) = s
  BY <1>1 DEF Last
<1>5. Escaped(more)
  BY <1>1, <1>3 DEF Escaped
<1>6. QED BY <1>1, <1>4, <1>5 DEF more

\* ... and a step of it stays there and adds at most one string.
LEMMA LexStepType ==
    ASSUME NEW acc \in LexStates, NEW s \in Chars
    PROVE  LexStep(acc, s) \in LexStates /\ Len(LexStep(acc, s).strings) <= Len(acc.strings) + 1
<1> DEFINE atoms   == acc.atoms
           strings == acc.strings
           string  == acc.string
           A       == AtomSet(strings) \ {Symbol(Quote)}
           AnyAtom     == [string : Nat, text : Seq(Chars)]
<1>1. /\ acc = [atoms |-> atoms, strings |-> strings, open |-> acc.open,
                escaped |-> acc.escaped, string |-> string]
      /\ atoms \in Seq(AnyAtom) /\ strings \in Seq(Seq(Chars)) /\ string \in Seq(Chars)
      /\ acc.open \in BOOLEAN /\ acc.escaped \in BOOLEAN
  BY DEF LexStates, LexRecords
<1>2. atoms \in Seq(A)
  BY DEF LexStates
<1>3. /\ ~acc.open => ~acc.escaped
      /\ acc.escaped => string # <<>> /\ Last(string) = Backslash
      /\ Escaped(string)
  BY DEF LexStates
<1>4. Len(strings) \in Nat
  BY <1>1, LenProperties
<1>5. CASE ~acc.open /\ s = Quote
  <2> DEFINE next == [atoms |-> atoms, strings |-> strings, open |-> TRUE,
                      escaped |-> acc.escaped, string |-> <<>>]
  <2>1. LexStep(acc, s) = next
    BY <1>1, <1>5 DEF LexStep
  <2>2. <<>> \in Seq(Chars) /\ Escaped(<<>>)
    BY DEF Escaped
  <2>3. next \in LexRecords
    BY <1>1, <2>2 DEF LexRecords
  <2>4. next \in LexStates
    <3>1. ~next.escaped
      BY <1>3, <1>5
    <3>2. QED BY <1>2, <2>2, <2>3, <3>1 DEF LexStates
  <2>5. QED BY <1>4, <2>1, <2>4
<1>6. CASE ~acc.open /\ s # Quote
  <2> DEFINE more == Append(atoms, Symbol(s))
             next == [atoms |-> more, strings |-> strings, open |-> acc.open,
                      escaped |-> acc.escaped, string |-> string]
  <2>1. LexStep(acc, s) = next
    BY <1>1, <1>6 DEF LexStep
  <2>2. Symbol(s) \in A /\ Symbol(s) \in AnyAtom
    BY <1>6 DEF AtomSet, Symbols, Symbol
  <2>3. more \in Seq(A) /\ more \in Seq(AnyAtom)
    <3> HIDE DEF A, AnyAtom, atoms
    <3> QED BY <1>1, <1>2, <2>2
  <2> HIDE DEF more
  <2>4. next \in LexRecords
    BY <1>1, <2>3 DEF LexRecords
  <2>5. next \in LexStates
    BY <1>3, <2>3, <2>4 DEF LexStates
  <2>6. QED BY <1>4, <2>1, <2>5
<1>7. CASE acc.open /\ s = Quote /\ ~acc.escaped
  <2> DEFINE grown == Append(strings, string)
             atom  == String(Len(strings) + 1, string)
             more  == Append(atoms, atom)
             next  == [atoms |-> more, strings |-> grown, open |-> FALSE,
                       escaped |-> acc.escaped, string |-> string]
             A2    == AtomSet(grown) \ {Symbol(Quote)}
  <2>1. LexStep(acc, s) = next
    BY <1>1, <1>7 DEF LexStep
  <2>2. grown \in Seq(Seq(Chars)) /\ Len(grown) = Len(strings) + 1
    <3> DEFINE V == Seq(Chars)
    <3>1. strings \in Seq(V) /\ string \in V
      BY <1>1
    <3> HIDE DEF V, strings, string
    <3>2. grown \in Seq(V) /\ Len(grown) = Len(strings) + 1
      BY <3>1, AppendProperties
    <3>3. QED BY <3>2 DEF V
  <2>3. AtomSet(strings) \subseteq AtomSet(grown) /\ atom \in AtomSet(grown) \ Symbols
    <3> HIDE DEF strings, string
    <3> QED BY <1>1, AtomsGrow
  <2>4. A \subseteq A2 /\ atom \in A2
    BY <2>3 DEF Symbols, Chars
  <2>5. atom \in AnyAtom
    BY <1>1, <1>4 DEF String
  <2>6. more \in Seq(A2) /\ more \in Seq(AnyAtom)
    <3> HIDE DEF A, A2, AnyAtom, atoms, atom
    <3> QED BY <1>1, <1>2, <2>4, <2>5
  <2> HIDE DEF more, grown
  <2>7. next \in LexRecords
    BY <1>1, <2>2, <2>6 DEF LexRecords
  <2>8. next \in LexStates
    BY <1>3, <1>7, <2>6, <2>7 DEF LexStates
  <2>9. QED BY <1>4, <2>1, <2>2, <2>8
<1>8. CASE acc.open /\ ~(s = Quote /\ ~acc.escaped)
  <2> DEFINE longer == Append(string, s)
             now    == s = Backslash /\ ~acc.escaped
             next   == [atoms |-> atoms, strings |-> strings, open |-> acc.open,
                        escaped |-> now, string |-> longer]
  <2>1. LexStep(acc, s) = next
    BY <1>1, <1>8 DEF LexStep
  <2>2. longer \in Seq(Chars)
    BY <1>1
  <2>3. Escaped(longer) /\ longer # <<>> /\ Last(longer) = s
    <3> HIDE DEF string
    <3> QED BY <1>1, <1>3, <1>8, EscapedStep
  <2> HIDE DEF longer
  <2>4. now \in BOOLEAN /\ (now => s = Backslash)
    OBVIOUS
  <2> HIDE DEF now
  <2>5. next \in LexRecords
    BY <1>1, <2>2, <2>4 DEF LexRecords
  <2>6. next \in LexStates
    BY <1>2, <1>8, <2>3, <2>4, <2>5 DEF LexStates
  <2>7. QED BY <1>4, <2>1, <2>6
<1>9. QED BY <1>1, <1>5, <1>6, <1>7, <1>8

\* What the lexer has read after each character of a text.
LexRun(run, input) ==
    /\ run \in [0..Len(input) -> LexStates]
    /\ run[0] = LexBase
    /\ \A i \in 1..Len(input) : run[i] = LexStep(run[i - 1], input[i])
    /\ LexLast(input) = run[Len(input)]

\* Every text has such a run.
LEMMA LexRuns ==
    ASSUME NEW input \in Seq(Chars)
    PROVE  \E run : LexRun(run, input)
<1> DEFINE n    == Len(input)
           E    == Chars
           V    == LexStates
           base == LexBase
           step == [x \in V \X E |-> LexStep(x[1], x[2])]
<1>1. n \in Nat /\ DOMAIN input = 1..n /\ input \in [1..n -> E]
  BY LenProperties
<1>2. base \in V
  BY LexBaseType
<1>3. step \in [V \X E -> V]
  BY LexStepType
<1>4. \E iter \in [SUBSET (1..n) -> V] : FoldIter(n, base, step, input, iter)
  <2> HIDE DEF n, E, V, base, step
  <2> QED BY <1>1, <1>2, <1>3, FoldExists
<1>5. \E iter : LexIter(input, iter)
  <2>1. PICK iter \in [SUBSET (1..n) -> V] : FoldIter(n, base, step, input, iter)
    BY <1>4
  <2> HIDE DEF n, V, E
  <2>2. ASSUME NEW s \in SUBSET (1..n), s # {}
        PROVE  step[<<iter[s \ {Max(s)}], input[Max(s)]>>]
                  = LexStep(iter[s \ {Max(s)}], input[Max(s)])
    <3>1. Max(s) \in 1..n /\ s \ {Max(s)} \in SUBSET (1..n)
      BY <1>1, <2>2, MaxProperties
    <3>2. <<iter[s \ {Max(s)}], input[Max(s)]>> \in V \X E
      BY <1>1, <2>1, <3>1
    <3>3. QED BY <3>2
  <2>3. LexIter(input, iter)
    BY <1>1, <2>1, <2>2 DEF LexIter, FoldIter
  <2>4. QED BY <2>3
<1> DEFINE it == CHOOSE iter : LexIter(input, iter)
<1>6. LexIter(input, it) /\ LexLast(input) = it[1..n]
  BY <1>1, <1>5 DEF LexLast
<1> HIDE DEF it
<1> DEFINE run == [i \in 0..n |-> it[1..i]]
<1>7. \A s \in SUBSET (1..n) :
         it[s] = IF s = {} THEN base ELSE LexStep(it[s \ {Max(s)}], input[Max(s)])
  BY <1>1, <1>6 DEF LexIter
<1>8. run[0] = base /\ run[n] = it[1..n]
  <2>1. 1..0 = {} /\ {} \in SUBSET (1..n) /\ 0 \in 0..n /\ n \in 0..n
    BY <1>1
  <2>2. it[{}] = base
    BY <1>7, <2>1
  <2> HIDE DEF n, base
  <2>3. QED BY <2>1, <2>2
<1>9. ASSUME NEW i \in 1..n
      PROVE  run[i] = LexStep(run[i - 1], input[i])
  <2>1. i \in Nat \ {0} /\ 1..i \in SUBSET (1..n) /\ i \in 0..n /\ i - 1 \in 0..n
    BY <1>1
  <2>2. 1..i # {} /\ Max(1..i) = i /\ (1..i) \ {i} = 1..(i - 1)
    BY <2>1, MaxUpTo
  <2>3. it[1..i] = LexStep(it[1..(i - 1)], input[i])
    BY <1>7, <2>1, <2>2
  <2>4. QED BY <2>1, <2>3
<1>10. \A i \in 0..n : run[i] \in V
  <2> DEFINE P == {i \in 0..n : run[i] \in V}
  <2>1. 0 \in P
    <3>1. 0 \in 0..n
      BY <1>1
    <3> HIDE DEF run, base, V
    <3>2. QED BY <1>2, <1>8, <3>1
  <2>2. \A i \in 1..n : i - 1 \in P => i \in P
    <3> SUFFICES ASSUME NEW i \in 1..n, run[i - 1] \in V PROVE i \in 0..n /\ run[i] \in V
      OBVIOUS
    <3>1. input[i] \in Chars
      BY <1>1
    <3> HIDE DEF run, n
    <3>2. LexStep(run[i - 1], input[i]) \in V
      BY <3>1, LexStepType
    <3>3. QED BY <1>1, <1>9, <3>2
  <2>3. 0..n \subseteq P
    <3> HIDE DEF P
    <3> QED BY <1>1, <2>1, <2>2, UpTo
  <2>4. QED BY <2>3
<1>11. run \in [0..n -> V]
  BY <1>10
<1>12. LexRun(run, input)
  BY <1>6, <1>8, <1>9, <1>11 DEF LexRun
<1>13. QED BY <1>12

\* A text reads as a string in quotes, although no string is quoted there.
Bare(atoms) ==
    \E i \in 1..Len(atoms) :
        /\ i + 2 <= Len(atoms)
        /\ atoms[i] = Symbol(Quote) /\ atoms[i + 2] = Symbol(Quote)
        /\ atoms[i + 1] # Symbol(Backslash)

\* What Lexed (the regular expression of transformQuotedStrings) makes of any text.
LEMMA LexedType ==
    ASSUME NEW input \in Seq(Chars)
    PROVE  /\ Lexed(input).strings \in Seq(Seq(Chars))
           /\ Len(Lexed(input).strings) <= Len(input)
           /\ Lexed(input).atoms \in Seq(AtomSet(Lexed(input).strings))
           /\ ~Bare(Lexed(input).atoms)
<1> DEFINE last    == LexLast(input)
           n       == Len(input)
           atoms   == last.atoms
           strings == last.strings
           rest    == Rest(last)
           extra   == RestAtoms(last)
           A       == AtomSet(strings)
<1>1. PICK run : LexRun(run, input)
  BY LexRuns
<1>2. n \in Nat /\ n \in 0..n
  BY LenProperties
<1>3. last \in LexStates
  BY <1>1, <1>2 DEF LexRun
<1>4. Len(strings) <= n
  <2> DEFINE P == {i \in 0..n : Len(run[i].strings) <= i}
  <2>1. 0 \in P
    <3>1. 0 \in 0..n /\ run[0].strings = <<>>
      BY <1>1, <1>2 DEF LexRun, LexBase
    <3>2. Len(<<>>) = 0
      OBVIOUS
    <3>3. QED BY <3>1, <3>2
  <2>2. \A i \in 1..n : i - 1 \in P => i \in P
    <3> SUFFICES ASSUME NEW i \in 1..n, Len(run[i - 1].strings) <= i - 1
                 PROVE  i \in 0..n /\ Len(run[i].strings) <= i
      OBVIOUS
    <3>1. i \in 0..n /\ i - 1 \in 0..n /\ input[i] \in Chars
      BY <1>2
    <3>2. run[i - 1] \in LexStates /\ run[i] = LexStep(run[i - 1], input[i]) /\ run[i] \in LexStates
      BY <1>1, <3>1 DEF LexRun
    <3>3. Len(run[i].strings) <= Len(run[i - 1].strings) + 1
      BY <3>1, <3>2, LexStepType
    <3>4. Len(run[i].strings) \in Nat /\ Len(run[i - 1].strings) \in Nat
      <4>1. run[i].strings \in Seq(Seq(Chars)) /\ run[i - 1].strings \in Seq(Seq(Chars))
        BY <3>2 DEF LexStates, LexRecords
      <4>2. QED BY <4>1, LenProperties
    <3>5. QED BY <3>1, <3>3, <3>4
  <2>3. 0..n \subseteq P
    <3> HIDE DEF P, n
    <3> QED BY <1>2, <2>1, <2>2, UpTo
  <2>4. last = run[n]
    BY <1>1 DEF LexRun
  <2>5. QED BY <1>2, <2>3, <2>4
<1>5. strings \in Seq(Seq(Chars)) /\ last.string \in Seq(Chars) /\ Escaped(last.string)
      /\ atoms \in Seq(A \ {Symbol(Quote)}) /\ last.open \in BOOLEAN
  BY <1>3 DEF LexStates, LexRecords
<1> HIDE DEF last
<1>6. rest \in Seq(Chars)
  <2>1. Quote \in Chars
    BY DEF Chars
  <2>2. <<Quote>> \o last.string \in Seq(Chars)
    BY <1>5, <2>1, BehindOne
  <2>3. <<>> \in Seq(Chars)
    OBVIOUS
  <2>4. QED BY <1>5, <2>2, <2>3 DEF Rest
<1>7. Len(rest) \in Nat /\ DOMAIN rest = 1..Len(rest) /\ \A i \in 1..Len(rest) : rest[i] \in Chars
  BY <1>6
<1>8. \A i \in 1..Len(rest) : i + 2 <= Len(rest) /\ rest[i + 2] = Quote => rest[i + 1] = Backslash
  <2> SUFFICES ASSUME NEW i \in 1..Len(rest), i + 2 <= Len(rest), rest[i + 2] = Quote
               PROVE  rest[i + 1] = Backslash
    OBVIOUS
  <2>1. CASE ~last.open
    <3>1. Len(rest) = 0
      BY <2>1 DEF Rest
    <3>2. QED BY <1>7, <3>1
  <2>2. CASE last.open
    <3> DEFINE string == last.string
    <3>1. Quote \in Chars /\ string \in Seq(Chars)
      BY <1>5 DEF Chars
    <3>2. Len(string) \in Nat /\ rest = <<Quote>> \o string
      BY <1>5, <2>2 DEF Rest
    <3> HIDE DEF string
    <3>3. Len(rest) = Len(string) + 1 /\ \A j \in 1..Len(string) : rest[j + 1] = string[j]
      <4> HIDE DEF rest
      <4> QED BY <3>1, <3>2, BehindOne
    <3>4. rest[i + 2] = string[i + 1] /\ rest[i + 1] = string[i] /\ i + 1 \in 1..Len(string)
      <4>1. i + 1 \in 1..Len(string) /\ i \in 1..Len(string) /\ (i + 1) + 1 = i + 2
        BY <1>7, <3>2, <3>3
      <4>2. rest[(i + 1) + 1] = string[i + 1]
        BY <3>3, <4>1
      <4>3. QED BY <3>3, <4>1, <4>2
    <3>5. string[(i + 1) - 1] = Backslash
      BY <1>5, <3>4 DEF Escaped, string
    <3>6. (i + 1) - 1 = i
      BY <1>7
    <3>7. QED BY <3>4, <3>5, <3>6
  <2>3. QED BY <1>5, <2>1, <2>2
<1>9. extra \in Seq(A) /\ Len(extra) = Len(rest) /\ \A i \in 1..Len(rest) : extra[i] = Symbol(rest[i])
  <2>1. \A i \in 1..Len(rest) : Symbol(rest[i]) \in A
    BY <1>7 DEF AtomSet, Symbols
  <2>2. extra \in [1..Len(rest) -> A]
    BY <1>7, <2>1 DEF RestAtoms
  <2>3. QED BY <1>7, <2>2, FunctionIsSeq DEF RestAtoms
<1>10. atoms \in Seq(A) /\ Len(atoms) \in Nat /\ \A i \in 1..Len(atoms) : atoms[i] # Symbol(Quote)
  <2> DEFINE A1 == A \ {Symbol(Quote)}
  <2>1. atoms \in Seq(A1) /\ A1 \subseteq A /\ \A a \in A1 : a # Symbol(Quote)
    BY <1>5
  <2> HIDE DEF A, A1, atoms
  <2>2. QED BY <2>1
<1> HIDE DEF A, atoms, extra, rest
<1> DEFINE all == atoms \o extra
<1>11. all \in Seq(A) /\ Len(all) = Len(atoms) + Len(rest)
       /\ \A i \in 1..(Len(atoms) + Len(rest)) :
             all[i] = IF i <= Len(atoms) THEN atoms[i] ELSE extra[i - Len(atoms)]
  <2>1. /\ all \in Seq(A) /\ Len(all) = Len(atoms) + Len(extra)
        /\ \A i \in 1..(Len(atoms) + Len(extra)) :
              all[i] = IF i <= Len(atoms) THEN atoms[i] ELSE extra[i - Len(atoms)]
    BY <1>9, <1>10, ConcatProperties
  <2> HIDE DEF all
  <2>2. QED BY <1>9, <2>1
<1> HIDE DEF all
<1>12. ~Bare(all)
  <2> SUFFICES ASSUME NEW i \in 1..Len(all), i + 2 <= Len(all),
                      all[i] = Symbol(Quote), all[i + 2] = Symbol(Quote)
               PROVE  all[i + 1] = Symbol(Backslash)
    BY DEF Bare
  <2>1. ~(i <= Len(atoms))
    BY <1>10, <1>11
  <2> DEFINE j == i - Len(atoms)
  <2>2. j \in 1..Len(rest) /\ j + 2 <= Len(rest) /\ j + 1 \in 1..Len(rest) /\ j + 2 \in 1..Len(rest)
        /\ i + 1 \in 1..(Len(atoms) + Len(rest)) /\ i + 2 \in 1..(Len(atoms) + Len(rest))
        /\ ~(i + 1 <= Len(atoms)) /\ ~(i + 2 <= Len(atoms))
        /\ (i + 1) - Len(atoms) = j + 1 /\ (i + 2) - Len(atoms) = j + 2
    BY <1>7, <1>10, <1>11, <2>1
  <2> HIDE DEF j
  <2>3. all[i + 2] = extra[j + 2] /\ all[i + 1] = extra[j + 1]
    BY <1>11, <2>2
  <2>4. all[i + 2] = Symbol(rest[j + 2]) /\ all[i + 1] = Symbol(rest[j + 1])
    BY <1>9, <2>2, <2>3
  <2>5. rest[j + 2] = Quote
    BY <2>4 DEF Symbol
  <2>6. QED BY <1>8, <2>2, <2>4, <2>5
<1>13. Lexed(input).atoms = all /\ Lexed(input).strings = strings
  BY LexedIsIter DEF all, atoms, extra, last
<1>14. QED BY <1>4, <1>5, <1>11, <1>12, <1>13 DEF A

---------------------------------------------------------------------------
(* The transformed text splits where the atoms do.                         *)

\* What Spell (transformQuotedStrings) and Written (the reference) write for an atom.
Show(strings)   == [a \in AtomSet(strings) |-> IF a.string = 0 THEN a.text ELSE Placeholder(a.string)]
TextOf(strings) == [a \in AtomSet(strings) |-> a.text]

\* The quoted strings of one header.
Few(strings) == strings \in Seq(Seq(Chars)) /\ Len(strings) <= MaxHeader

\* What the parsers split a text at.
Separators == {",", ";", "="}

\* The longest header has a length.
LEMMA HeaderLimit == MaxHeader \in Nat
BY NumeralsAssumption

\* What stands for a quoted string holds no separator: a numeral in quotes.
LEMMA PlaceholderType ==
    ASSUME NEW n \in 1..MaxHeader, NEW sep \in Separators
    PROVE  /\ Placeholder(n) \in Seq(Chars \ {sep})
           /\ Len(Placeholder(n)) = 3
           /\ Placeholder(n)[1] = Quote /\ Placeholder(n)[3] = Quote
           /\ Placeholder(n)[2] = ToString(n - 1)
           /\ ToString(n - 1) \in Chars \ {Backslash}
<1>1. n - 1 \in 0..MaxHeader
  BY HeaderLimit
<1>2. ToString(n - 1) \in STRING \ {",", ";", "=", Quote, Backslash}
  BY <1>1, NumeralsAssumption
<1> DEFINE t == ToString(n - 1)
<1>3. t \in Chars \ {sep} /\ t # Backslash
  BY <1>2 DEF Chars, Separators
<1>4. Quote \in Chars \ {sep}
  BY DEF Chars, Separators, Quote
<1> HIDE DEF t
<1>5. <<Quote, t, Quote>> \in Seq(Chars \ {sep})
  BY <1>3, <1>4
<1>6. Placeholder(n) = <<Quote, t, Quote>>
  BY DEF Placeholder, t
<1>7. QED BY <1>3, <1>5, <1>6 DEF t

\* Two placeholders are never the same.
LEMMA PlaceholderOne ==
    ASSUME NEW m \in 1..MaxHeader, NEW n \in 1..MaxHeader, Placeholder(m) = Placeholder(n)
    PROVE  m = n
<1>1. ToString(m - 1) = ToString(n - 1)
  BY PlaceholderType DEF Separators
<1>2. m - 1 \in 0..MaxHeader /\ n - 1 \in 0..MaxHeader
  BY HeaderLimit
<1>3. m - 1 = n - 1
  BY <1>1, <1>2, NumeralsAssumption
<1>4. QED BY <1>3

\* An atom is a symbol or a string with its number.
LEMMA AtomCases ==
    ASSUME NEW strings, Few(strings), NEW a \in AtomSet(strings)
    PROVE  \/ a.string = 0 /\ \E c \in Chars : a = Symbol(c) /\ a.text = <<c>>
           \/ /\ a.string # 0 /\ a.string \in DOMAIN strings /\ a.string \in 1..MaxHeader
              /\ a.text = strings[a.string] /\ a.text \in Seq(Chars)
<1>1. Len(strings) \in Nat /\ DOMAIN strings = 1..Len(strings) /\ Len(strings) <= MaxHeader
      /\ \A n \in 1..Len(strings) : strings[n] \in Seq(Chars)
  <2> DEFINE V == Seq(Chars)
  <2>1. strings \in Seq(V) /\ Len(strings) <= MaxHeader
    BY DEF Few
  <2> HIDE DEF V
  <2>2. Len(strings) \in Nat /\ DOMAIN strings = 1..Len(strings) /\ \A n \in 1..Len(strings) : strings[n] \in V
    BY <2>1
  <2>3. QED BY <2>1, <2>2 DEF V
<1>2. CASE a \in Symbols
  <2>1. PICK c \in Chars : a = Symbol(c)
    BY <1>2 DEF Symbols
  <2>2. QED BY <2>1 DEF Symbol
<1>3. CASE a \notin Symbols
  <2>1. PICK n \in DOMAIN strings : a = String(n, strings[n])
    BY <1>3 DEF AtomSet
  <2>2. a.string = n /\ a.text = strings[n]
    BY <2>1 DEF String
  <2>3. n # 0 /\ n \in 1..MaxHeader
    BY <1>1, HeaderLimit
  <2>4. QED BY <1>1, <2>2, <2>3
<1>4. QED BY <1>2, <1>3

\* Everything an atom writes is text, a separator only where it is the atom.
LEMMA ShowWrites ==
    ASSUME NEW strings, Few(strings)
    PROVE  /\ Writes(Show(strings), AtomSet(strings), Chars)
           /\ Writes(TextOf(strings), AtomSet(strings), Chars)
           /\ \A sep \in Separators :
                 /\ Writes(Show(strings), AtomSet(strings) \ {Symbol(sep)}, Chars \ {sep})
                 /\ Symbol(sep) \in AtomSet(strings) /\ Show(strings)[Symbol(sep)] = <<sep>>
           /\ \A a \in AtomSet(strings) : Show(strings)[a] # <<>>
<1>1. ASSUME NEW a \in AtomSet(strings), NEW sep \in Separators
      PROVE  /\ Show(strings)[a] \in Seq(Chars) /\ Show(strings)[a] # <<>>
             /\ TextOf(strings)[a] \in Seq(Chars)
             /\ a # Symbol(sep) => Show(strings)[a] \in Seq(Chars \ {sep})
  <2>1. CASE a.string = 0 /\ \E c \in Chars : a = Symbol(c) /\ a.text = <<c>>
    <3>1. PICK c \in Chars : a = Symbol(c) /\ a.text = <<c>>
      BY <2>1
    <3>2. Show(strings)[a] = <<c>> /\ TextOf(strings)[a] = <<c>>
      BY <2>1, <3>1 DEF Show, TextOf
    <3>3. <<c>> \in Seq(Chars) /\ (c # sep => <<c>> \in Seq(Chars \ {sep})) /\ <<c>> # <<>>
      OBVIOUS
    <3>4. a # Symbol(sep) => c # sep
      BY <3>1
    <3>5. QED BY <3>2, <3>3, <3>4
  <2>2. CASE /\ a.string # 0 /\ a.string \in DOMAIN strings /\ a.string \in 1..MaxHeader
             /\ a.text = strings[a.string] /\ a.text \in Seq(Chars)
    <3> DEFINE p == Placeholder(a.string)
    <3>1. Show(strings)[a] = p /\ TextOf(strings)[a] = a.text
      BY <2>2 DEF Show, TextOf
    <3>2. p \in Seq(Chars \ {sep}) /\ Len(p) = 3
      BY <2>2, PlaceholderType
    <3> HIDE DEF p
    <3>3. p \in Seq(Chars) /\ p # <<>>
      <4> DEFINE C == Chars \ {sep}
      <4>1. p \in Seq(C) /\ C \subseteq Chars
        BY <3>2
      <4> HIDE DEF C
      <4>2. p \in Seq(Chars)
        BY <4>1, SeqWidens
      <4>3. p # <<>>
        <5>1. ASSUME p = <<>> PROVE FALSE
          <6>1. Len(<<>>) = 0
            OBVIOUS
          <6>2. QED BY <3>2, <5>1, <6>1
        <5>2. QED BY <5>1
      <4>4. QED BY <4>2, <4>3
    <3>4. QED BY <2>2, <3>1, <3>2, <3>3
  <2>3. QED BY <2>1, <2>2, AtomCases
<1>2. ASSUME NEW sep \in Separators
      PROVE  Symbol(sep) \in AtomSet(strings) /\ Show(strings)[Symbol(sep)] = <<sep>>
  <2>1. Symbol(sep) \in AtomSet(strings)
    BY DEF AtomSet, Symbols, Chars, Separators
  <2>2. QED BY <2>1 DEF Show, Symbol
<1>3. "," \in Separators
  BY DEF Separators
<1>4. \A a \in AtomSet(strings) :
         /\ Show(strings)[a] \in Seq(Chars) /\ Show(strings)[a] # <<>>
         /\ TextOf(strings)[a] \in Seq(Chars)
  BY <1>1, <1>3
<1>5. QED BY <1>1, <1>2, <1>4 DEF Writes, Maps

\* The texts of several parts.
SpellAll(parts) == [i \in DOMAIN parts |-> Spell(parts[i])]

\* A Spell and a Written text as the lemmas on Expand know them.
SpellEq(strings, atoms)   == Spell(atoms) = Expand(Show(strings), atoms)
WrittenEq(strings, atoms) == Written(atoms) = Expand(TextOf(strings), atoms)
AllEq(strings, parts)     == SpellAll(parts) = ExpandAll(Show(strings), parts)

\* Spell and Written write every text of atoms out in that way.
LEMMA SpellIs ==
    ASSUME NEW strings
    PROVE  /\ \A atoms \in Seq(AtomSet(strings)) : SpellEq(strings, atoms) /\ WrittenEq(strings, atoms)
           /\ \A parts \in Seq(Seq(AtomSet(strings))) : AllEq(strings, parts)
<1> DEFINE A == AtomSet(strings)
           V == Seq(A)
<1>1. ASSUME NEW atoms \in Seq(A) PROVE SpellEq(strings, atoms) /\ WrittenEq(strings, atoms)
  <2>1. \A i \in DOMAIN atoms : atoms[i] \in A
    <3> HIDE DEF A
    <3> QED OBVIOUS
  <2>2. \A i \in DOMAIN atoms :
           /\ Show(strings)[atoms[i]] = IF atoms[i].string = 0 THEN atoms[i].text ELSE Placeholder(atoms[i].string)
           /\ TextOf(strings)[atoms[i]] = atoms[i].text
    BY <2>1 DEF Show, TextOf
  <2>3. QED BY <2>2 DEF SpellEq, WrittenEq, Spell, Written, Expand, Over
<1>2. ASSUME NEW parts \in Seq(V) PROVE AllEq(strings, parts)
  <2>1. \A i \in DOMAIN parts : parts[i] \in V
    <3> HIDE DEF V
    <3> QED OBVIOUS
  <2>2. \A i \in DOMAIN parts : Spell(parts[i]) = Expand(Show(strings), parts[i])
    BY <1>1, <2>1 DEF SpellEq
  <2>3. QED BY <2>2 DEF AllEq, SpellAll, ExpandAll
<1>3. QED BY <1>1, <1>2

\* The pieces of a text are made of its elements; a text that reads as a quoted string in a piece
\* reads so in the text.
LEMMA BareGrows ==
    ASSUME NEW S, NEW t \in Seq(S), NEW x \in S, NEW u \in Seq(S)
    PROVE  (Bare(t) => Bare(Append(t, x))) /\ (Bare(t) => Bare(u \o t)) /\ ~Bare(<<>>)
<1> DEFINE more   == Append(t, x)
           longer == u \o t
<1>1. Len(t) \in Nat /\ Len(u) \in Nat
  BY LenProperties
<1>2. Len(more) = Len(t) + 1 /\ \A i \in 1..Len(t) : more[i] = t[i]
  BY AppendProperties
<1>3. Len(longer) = Len(u) + Len(t)
      /\ \A i \in 1..(Len(u) + Len(t)) : longer[i] = IF i <= Len(u) THEN u[i] ELSE t[i - Len(u)]
  BY ConcatProperties
<1> HIDE DEF more, longer
<1>4. ASSUME Bare(t) PROVE Bare(more) /\ Bare(longer)
  <2>1. PICK i \in 1..Len(t) :
           /\ i + 2 <= Len(t)
           /\ t[i] = Symbol(Quote) /\ t[i + 2] = Symbol(Quote)
           /\ t[i + 1] # Symbol(Backslash)
    BY <1>4 DEF Bare
  <2>2. i + 1 \in 1..Len(t) /\ i + 2 \in 1..Len(t) /\ i \in 1..Len(more) /\ i + 2 <= Len(more)
    BY <1>1, <1>2, <2>1
  <2>3. Bare(more)
    BY <1>2, <2>1, <2>2 DEF Bare
  <2> DEFINE k == i + Len(u)
  <2>4. /\ k \in 1..Len(longer) /\ k + 2 <= Len(longer)
        /\ k \in 1..(Len(u) + Len(t)) /\ k + 1 \in 1..(Len(u) + Len(t)) /\ k + 2 \in 1..(Len(u) + Len(t))
        /\ ~(k <= Len(u)) /\ ~(k + 1 <= Len(u)) /\ ~(k + 2 <= Len(u))
        /\ k - Len(u) = i /\ (k + 1) - Len(u) = i + 1 /\ (k + 2) - Len(u) = i + 2
    BY <1>1, <1>3, <2>1
  <2> HIDE DEF k
  <2>5. longer[k] = t[i] /\ longer[k + 1] = t[i + 1] /\ longer[k + 2] = t[i + 2]
    BY <1>3, <2>4
  <2>6. Bare(longer)
    BY <2>1, <2>4, <2>5 DEF Bare
  <2>7. QED BY <2>3, <2>6
<1>5. ~Bare(<<>>)
  BY DEF Bare
<1>6. QED BY <1>4, <1>5 DEF more, longer

\* Where the last piece of a text stands, and no piece reads as a quoted string.
EndsWith(text, last, S) == \E u \in Seq(S) : text = u \o last
NoBare(parts) == \A i \in 1..Len(parts) : ~Bare(parts[i])

\* No piece of a text reads as a quoted string, when the text does not.
LEMMA BarePieces ==
    ASSUME NEW D, NEW separator, NEW text \in Seq(D \cup {separator}), ~Bare(text)
    PROVE  NoBare(SplitOn(text, separator))
<1> DEFINE S == D \cup {separator}
           Good(t) == /\ ~Bare(t) => NoBare(SplitOn(t, separator))
                      /\ EndsWith(t, Last(SplitOn(t, separator)), S)
           P == {t \in Seq(S) : Good(t)}
<1>1. <<>> \in P
  <2>1. SplitOn(<<>>, separator) = << <<>> >> /\ <<>> \in Seq(S) /\ <<>> = <<>> \o <<>>
    BY SplitEmpty
  <2>2. Last(<< <<>> >>) = <<>> /\ Len(<< <<>> >>) = 1 /\ << <<>> >>[1] = <<>>
    BY DEF Last
  <2>3. EndsWith(<<>>, <<>>, S)
    BY <2>1 DEF EndsWith
  <2>4. ~Bare(<<>>)
    BY DEF Bare
  <2>5. NoBare(<< <<>> >>)
    BY <2>2, <2>4 DEF NoBare
  <2>6. QED BY <2>1, <2>2, <2>3, <2>5
<1>2. ASSUME NEW t \in Seq(S), Good(t), NEW x \in S PROVE Good(Append(t, x))
  <2> DEFINE parts == SplitOn(t, separator)
             f     == Front(parts)
             l     == Last(parts)
             V     == Seq(D)
             more  == Append(t, x)
  <2>1. parts \in Pieces(D) /\ SplitOn(more, separator) = SplitStep(parts, x, separator)
    BY SplitAppend
  <2>2. f \in Seq(V) /\ l \in V /\ parts = Append(f, l) /\ parts \in Seq(V)
    <3>1. parts \in Seq(V) /\ parts # <<>>
      BY <2>1 DEF Pieces
    <3> HIDE DEF V, parts
    <3>2. QED BY <3>1, AppendForm
  <2>3. PICK u \in Seq(S) : t = u \o l
    BY <1>2 DEF EndsWith
  <2>4. ~Bare(t) => NoBare(parts)
    BY <1>2
  <2>5. Bare(t) => Bare(more)
    <3> HIDE DEF S
    <3> QED BY BareGrows
  <2>6. more \in Seq(S)
    <3> HIDE DEF S
    <3> QED OBVIOUS
  <2>7. Append(f, l) = parts /\ Len(parts) = Len(f) + 1 /\ Len(f) \in Nat
        /\ \A i \in 1..Len(f) : parts[i] = f[i]
    <3> HIDE DEF V, f, l, parts
    <3> QED BY <2>2, AppendProperties, LenProperties
  <2> HIDE DEF parts, f, l, more
  <2>8. CASE x = separator
    <3> DEFINE q == Append(parts, <<>>)
    <3>1. Ends(f, l, separator)
      BY <2>2, SplitStepForm DEF V
    <3>2. SplitOn(more, separator) = q
      BY <2>1, <2>2, <2>8, <3>1 DEF Ends
    <3>3. Len(q) = Len(parts) + 1 /\ (\A i \in 1..Len(parts) : q[i] = parts[i]) /\ q[Len(parts) + 1] = <<>>
          /\ Last(q) = <<>> /\ Len(parts) \in Nat
      <4>1. <<>> \in V
        OBVIOUS
      <4> DEFINE empty == <<>>
      <4> HIDE DEF V, empty
      <4>2. empty \in V
        BY <4>1 DEF empty
      <4>3. /\ Len(Append(parts, empty)) = Len(parts) + 1
            /\ \A i \in 1..Len(parts) : Append(parts, empty)[i] = parts[i]
            /\ Append(parts, empty)[Len(parts) + 1] = empty
        BY <2>2, <4>2, AppendProperties
      <4>4. Last(Append(parts, empty)) = empty
        BY <2>2, <4>2, FrontLast
      <4>5. Len(parts) \in Nat
        BY <2>2, LenProperties
      <4>6. QED BY <4>3, <4>4, <4>5 DEF empty
    <3> HIDE DEF q
    <3>4. EndsWith(more, <<>>, S)
      <4>1. more = more \o <<>>
        BY <2>6, ConcatEmptySeq
      <4>2. QED BY <2>6, <4>1 DEF EndsWith
    <3>5. ~Bare(more) => NoBare(q)
      <4> SUFFICES ASSUME ~Bare(more), NEW i \in 1..Len(q) PROVE ~Bare(q[i])
        BY DEF NoBare
      <4>1. CASE i = Len(parts) + 1
        <5>1. ~Bare(<<>>)
          BY DEF Bare
        <5>2. QED BY <3>3, <4>1, <5>1
      <4>2. CASE i # Len(parts) + 1
        <5>1. i \in 1..Len(parts)
          BY <3>3, <4>2
        <5>2. QED BY <2>4, <2>5, <3>3, <5>1 DEF NoBare
      <4>3. QED BY <4>1, <4>2
    <3>6. QED BY <3>2, <3>3, <3>4, <3>5 DEF more
  <2>9. CASE x # separator
    <3> DEFINE m == Append(l, x)
               q == Append(f, m)
    <3>1. x \in D
      BY <2>9
    <3>2. GoesOnWith(f, l, x, separator)
      BY <2>2, <2>9, <3>1, SplitStepForm DEF V
    <3>3. SplitOn(more, separator) = q
      BY <2>1, <2>2, <3>2 DEF GoesOnWith
    <3>4. m \in V
      BY <2>2, <3>1
    <3>5. more = u \o m
      <4>1. l \in Seq(S) /\ x \in S
        BY <2>2
      <4> HIDE DEF S, V
      <4>2. u \o Append(l, x) = Append(u \o l, x)
        BY <4>1, ConcatAppend
      <4>3. QED BY <2>3, <4>2 DEF more
    <3> HIDE DEF m, V
    <3>6. Len(q) = Len(f) + 1 /\ (\A i \in 1..Len(f) : q[i] = f[i]) /\ q[Len(f) + 1] = m /\ Last(q) = m
      BY <2>2, <3>4, AppendProperties, FrontLast
    <3>7. EndsWith(more, m, S)
      BY <3>5 DEF EndsWith
    <3>8. Bare(m) => Bare(more)
      <4>1. m \in Seq(S)
        BY <3>4 DEF V
      <4> HIDE DEF S
      <4>2. QED BY <3>5, <4>1, BareGrows
    <3> HIDE DEF q
    <3>9. ~Bare(more) => NoBare(q)
      <4> SUFFICES ASSUME ~Bare(more), NEW i \in 1..Len(q) PROVE ~Bare(q[i])
        BY DEF NoBare
      <4>1. CASE i = Len(f) + 1
        BY <3>6, <3>8, <4>1
      <4>2. CASE i # Len(f) + 1
        <5>1. i \in 1..Len(f) /\ i \in 1..Len(parts)
          BY <2>7, <3>6, <4>2
        <5>2. QED BY <2>4, <2>5, <2>7, <3>6, <5>1 DEF NoBare
      <4>3. QED BY <4>1, <4>2
    <3>10. QED BY <3>3, <3>6, <3>7, <3>9 DEF more
  <2>10. QED BY <2>8, <2>9
<1>3. Seq(S) \subseteq P
  <2>1. \A t \in Seq(S) : t \in P => \A x \in S : Append(t, x) \in P
    <3> SUFFICES ASSUME NEW t \in Seq(S), t \in P, NEW x \in S PROVE Append(t, x) \in P
      OBVIOUS
    <3>1. Append(t, x) \in Seq(S)
      <4> HIDE DEF S, P, Good
      <4> QED OBVIOUS
    <3>2. Good(t)
      <4> HIDE DEF Good
      <4> QED OBVIOUS
    <3> HIDE DEF Good
    <3>3. Good(Append(t, x))
      BY <1>2, <3>2
    <3>4. QED BY <3>1, <3>3
  <2> HIDE DEF P, S
  <2> QED BY <1>1, <2>1, SeqInduct
<1>4. QED
  <2>1. text \in P
    <3> HIDE DEF P
    <3> QED BY <1>3
  <2>2. QED BY <2>1

\* The atoms of a text without the words that replacements inherits.
Ord(strings) ==
    {a \in AtomSet(strings) : a.string = 0 => a.text \notin {<<m>> : m \in ObjectMembers}}

\* A text of such atoms in which nothing but a quoted string reads as one.
Clean(strings, t) == t \in Seq(Ord(strings)) /\ ~Bare(t)

\* What is clean is a text of atoms.
LEMMA CleanAtoms ==
    ASSUME NEW strings, NEW t, Clean(strings, t)
    PROVE  t \in Seq(AtomSet(strings)) /\ t \in Seq(Ord(strings)) /\ ~Bare(t) /\ Len(t) \in Nat
<1>1. Ord(strings) \subseteq AtomSet(strings)
  BY DEF Ord
<1>2. t \in Seq(Ord(strings)) /\ ~Bare(t)
  BY DEF Clean
<1>3. t \in Seq(AtomSet(strings))
  BY <1>1, <1>2, SeqWidens
<1>4. QED BY <1>2, <1>3, LenProperties

\* Splitting the transformed text splits the atoms; the pieces of a clean text are clean.
AllClean(strings, parts) == \A i \in 1..Len(parts) : Clean(strings, parts[i])

SpelledSplit(t, sep) == SplitOn(Spell(t), sep) = SpellAll(SplitOn(t, Symbol(sep)))

\* Both hold for every clean text and every separator of the parsers.
LEMMA SpellSplit ==
    ASSUME NEW strings, Few(strings), NEW t, Clean(strings, t), NEW sep \in Separators
    PROVE  /\ SpelledSplit(t, sep)
           /\ SplitOn(t, Symbol(sep)) \in Pieces(Ord(strings))
           /\ AllClean(strings, SplitOn(t, Symbol(sep)))
<1> DEFINE A     == AtomSet(strings)
           O     == Ord(strings)
           s     == Symbol(sep)
           D     == A \ {s}
           E     == O \ {s}
           B     == Chars \ {sep}
           g     == Show(strings)
           parts == SplitOn(t, s)
<1>1. t \in Seq(A) /\ t \in Seq(O) /\ ~Bare(t)
  BY CleanAtoms
<1>2. Writes(g, D, B) /\ s \in A /\ g[s] = <<sep>>
  BY ShowWrites
<1>3. t \in Seq(D \cup {s}) /\ t \in Seq(E \cup {s})
  <2>1. A \subseteq D \cup {s} /\ O \subseteq E \cup {s}
    OBVIOUS
  <2> HIDE DEF A, O, D, E, s
  <2>2. QED BY <1>1, <2>1, SeqWidens
<1>4. parts \in Pieces(D) /\ parts \in Pieces(E)
  <2> HIDE DEF D, E, s
  <2>1. SplitOn(t, s) \in Pieces(D)
    <3>1. s \in D \cup {s}
      OBVIOUS
    <3>2. QED BY <1>3, <3>1, SplitAppend
  <2>2. SplitOn(t, s) \in Pieces(E)
    <3>1. s \in E \cup {s}
      OBVIOUS
    <3>2. QED BY <1>3, <3>1, SplitAppend
  <2>3. QED BY <2>1, <2>2
<1>5. parts \in Pieces(O) /\ parts \in Seq(Seq(A))
  <2>1. E \subseteq O /\ O \subseteq A
    BY DEF Ord
  <2>2. Seq(E) \subseteq Seq(O) /\ Seq(O) \subseteq Seq(A)
    <3> HIDE DEF E, O, A
    <3> QED BY <2>1, SeqWidens
  <2>3. Seq(Seq(E)) \subseteq Seq(Seq(O)) /\ Seq(Seq(O)) \subseteq Seq(Seq(A))
    <3> DEFINE VE == Seq(E)
               VO == Seq(O)
               VA == Seq(A)
    <3> HIDE DEF VE, VO, VA
    <3>1. VE \subseteq VO /\ VO \subseteq VA
      BY <2>2 DEF VE, VO, VA
    <3>2. Seq(VE) \subseteq Seq(VO) /\ Seq(VO) \subseteq Seq(VA)
      BY <3>1, SeqWidens
    <3>3. QED BY <3>2 DEF VE, VO, VA
  <2>4. QED BY <1>4, <2>3 DEF Pieces
<1>6. NoBare(parts)
  <2> HIDE DEF E, s
  <2> QED BY <1>1, <1>3, BarePieces
<1>7. AllClean(strings, parts)
  <2>1. \A i \in 1..Len(parts) : parts[i] \in Seq(O)
    <3> DEFINE V == Seq(O)
    <3>1. parts \in Seq(V)
      BY <1>5 DEF Pieces
    <3> HIDE DEF V, parts
    <3>2. \A i \in 1..Len(parts) : parts[i] \in V
      BY <3>1
    <3>3. QED BY <3>2 DEF V
  <2>2. QED BY <1>6, <2>1 DEF AllClean, NoBare, Clean
<1>8. SplitWritten(g, t, s, sep)
  <2>1. s \notin D /\ sep \notin B
    OBVIOUS
  <2> HIDE DEF D, B, s, g
  <2>2. QED BY <1>2, <1>3, <2>1, SplitExpand
<1>9. SpelledSplit(t, sep)
  <2>1. SpellEq(strings, t) /\ AllEq(strings, parts)
    BY <1>1, <1>5, SpellIs
  <2>2. QED BY <1>8, <2>1 DEF SpelledSplit, SplitWritten, SpellEq, AllEq
<1>10. QED BY <1>5, <1>7, <1>9

\* SpellAll keeps the places.
LEMMA SpellAllType ==
    ASSUME NEW strings, Few(strings), NEW parts \in Seq(Seq(Ord(strings)))
    PROVE  /\ DOMAIN SpellAll(parts) = 1..Len(parts) /\ Len(SpellAll(parts)) = Len(parts) /\ Len(parts) \in Nat
           /\ \A i \in 1..Len(parts) : SpellAll(parts)[i] = Spell(parts[i])
           /\ parts # <<>> => Tail(SpellAll(parts)) = SpellAll(Tail(parts)) /\ Tail(parts) \in Seq(Seq(Ord(strings)))
           /\ NonEmpty(SpellAll(parts)) = SpellAll(NonEmpty(parts))
           /\ NonEmpty(parts) \in Seq(Seq(Ord(strings)))
<1> DEFINE A == AtomSet(strings)
           O == Ord(strings)
           V == Seq(A)
           U == Seq(O)
           g == Show(strings)
<1>1. U \subseteq V
  <2>1. O \subseteq A
    BY DEF Ord
  <2> HIDE DEF O, A
  <2>2. QED BY <2>1, SeqWidens
<1>2. Seq(U) \subseteq Seq(V)
  <2> HIDE DEF U, V
  <2> QED BY <1>1, SeqWidens
<1>3. parts \in Seq(V) /\ parts \in Seq(U)
  BY <1>2
<1>4. \A p \in Seq(U) : SpellAll(p) = ExpandAll(g, p)
  <2>1. \A p \in Seq(V) : AllEq(strings, p)
    BY SpellIs
  <2>2. QED BY <1>2, <2>1 DEF AllEq
<1>5. Writes(g, A, Chars) /\ \A a \in A : g[a] # <<>>
  BY ShowWrites
<1>6. DOMAIN parts = 1..Len(parts) /\ Len(parts) \in Nat
  <2> HIDE DEF V
  <2> QED BY <1>3, LenProperties
<1>7. /\ Len(ExpandAll(g, parts)) = Len(parts)
      /\ parts # <<>> => ExpandAll(g, Tail(parts)) = Tail(ExpandAll(g, parts))
  <2>1. parts \in Seq(Seq(A))
    BY <1>3
  <2> HIDE DEF g, A
  <2>2. QED BY <1>5, <2>1, ExpandAllType
<1>8. parts # <<>> => Tail(parts) \in Seq(U)
  <2> HIDE DEF U
  <2> QED BY <1>3, HeadTailProperties
<1>9. NonEmpty(ExpandAll(g, parts)) = ExpandAll(g, NonEmpty(parts))
  <2>1. parts \in Seq(Seq(A))
    BY <1>3
  <2> HIDE DEF g, A
  <2>2. QED BY <1>5, <2>1, NonEmptyExpand
<1>10. NonEmpty(parts) \in Seq(U)
  <2>1. NonEmpty(parts) \in Seq(U \ {<<>>})
    BY NonEmptyType
  <2>2. U \ {<<>>} \subseteq U
    OBVIOUS
  <2> DEFINE W == U \ {<<>>}
  <2> HIDE DEF U, W
  <2>3. NonEmpty(parts) \in Seq(W) /\ W \subseteq U
    BY <2>1, <2>2 DEF W
  <2>4. QED BY <2>3, SeqWidens
<1>11. parts # <<>> => SpellAll(Tail(parts)) = Tail(SpellAll(parts))
  BY <1>3, <1>4, <1>7, <1>8
<1>12. NonEmpty(SpellAll(parts)) = SpellAll(NonEmpty(parts))
  BY <1>3, <1>4, <1>9, <1>10
<1>13. DOMAIN SpellAll(parts) = 1..Len(parts) /\ \A i \in 1..Len(parts) : SpellAll(parts)[i] = Spell(parts[i])
  BY <1>6 DEF SpellAll
<1>14. Len(SpellAll(parts)) = Len(parts)
  BY <1>3, <1>4, <1>7
<1>15. QED BY <1>6, <1>8, <1>10, <1>11, <1>12, <1>13, <1>14

\* An atom writes at least one character, a quoted string three.
Long(t) ==
    /\ Len(Spell(t)) >= Len(t)
    /\ ~Unquoted(t) => Len(Spell(t)) >= Len(t) + 2
    /\ Unquoted(t) => /\ Len(Spell(t)) = Len(t)
                      /\ \A i \in 1..Len(t) : t[i] = Symbol(Spell(t)[i])

\* That is so for every text of atoms (Spell).
LEMMA SpellLong ==
    ASSUME NEW strings, Few(strings), NEW t \in Seq(AtomSet(strings))
    PROVE  Long(t)
<1> DEFINE A == AtomSet(strings)
           P == {x \in Seq(A) : Long(x)}
<1>1. <<>> \in P
  <2>1. Spell(<<>>) = <<>>
    <3>1. <<>> \in Seq(AtomSet(strings))
      OBVIOUS
    <3>2. SpellEq(strings, <<>>)
      BY <3>1, SpellIs
    <3>3. Expand(Show(strings), <<>>) = <<>>
      BY ExpandEmpty
    <3>4. QED BY <3>2, <3>3 DEF SpellEq
  <2>2. Len(<<>>) = 0 /\ Unquoted(<<>>) /\ <<>> \in Seq(A)
    BY DEF Unquoted
  <2>3. Long(<<>>)
    BY <2>1, <2>2 DEF Long
  <2>4. QED BY <2>2, <2>3
<1>2. ASSUME NEW x \in Seq(A), Long(x), NEW a \in A PROVE Long(Append(x, a))
  <2> DEFINE more == Append(x, a)
             sx   == Spell(x)
             sa   == Show(strings)[a]
             n    == Len(x)
  <2>1. more \in Seq(A) /\ Len(more) = n + 1 /\ n \in Nat /\ (\A i \in 1..n : more[i] = x[i]) /\ more[n + 1] = a
        /\ DOMAIN more = 1..(n + 1) /\ DOMAIN x = 1..n
    <3> HIDE DEF A
    <3> QED BY AppendProperties, LenProperties
  <2> HIDE DEF more, n
  <2>2. sx \in Seq(Chars) /\ sa \in Seq(Chars) /\ Spell(more) = sx \o sa
    <3>1. Writes(Show(strings), A, Chars)
      BY ShowWrites
    <3>2. SpellEq(strings, x) /\ SpellEq(strings, more)
      BY <2>1, SpellIs
    <3> HIDE DEF A
    <3>3. Expand(Show(strings), x) \in Seq(Chars)
      BY <3>1, ExpandType
    <3>4. Expand(Show(strings), Append(x, a)) = Expand(Show(strings), x) \o Show(strings)[a]
      BY <3>1, ExpandAppend
    <3>5. sa \in Seq(Chars)
      BY <3>1 DEF Writes, Maps
    <3>6. QED BY <3>2, <3>3, <3>4, <3>5 DEF SpellEq, more
  <2> HIDE DEF sx
  <2>3. Len(sx) \in Nat /\ Len(sa) \in Nat /\ Len(sx \o sa) = Len(sx) + Len(sa)
        /\ \A i \in 1..(Len(sx) + Len(sa)) : (sx \o sa)[i] = IF i <= Len(sx) THEN sx[i] ELSE sa[i - Len(sx)]
    <3> HIDE DEF sa
    <3> QED BY <2>2, ConcatProperties, LenProperties
  <2>4. Unquoted(more) <=> Unquoted(x) /\ a.string = 0
    <3>1. ASSUME Unquoted(more) PROVE Unquoted(x) /\ a.string = 0
      <4>1. \A i \in 1..n : x[i].string = 0
        <5> SUFFICES ASSUME NEW i \in 1..n PROVE x[i].string = 0
          OBVIOUS
        <5>1. i \in 1..(n + 1)
          BY <2>1
        <5>2. QED BY <2>1, <3>1, <5>1 DEF Unquoted
      <4>2. n + 1 \in 1..(n + 1)
        BY <2>1
      <4>3. QED BY <2>1, <3>1, <4>1, <4>2 DEF Unquoted
    <3>2. ASSUME Unquoted(x), a.string = 0 PROVE Unquoted(more)
      <4> SUFFICES ASSUME NEW i \in 1..(n + 1) PROVE more[i].string = 0
        BY <2>1 DEF Unquoted
      <4>1. CASE i = n + 1
        BY <2>1, <3>2, <4>1
      <4>2. CASE i # n + 1
        <5>1. i \in 1..n
          BY <2>1, <4>2
        <5>2. QED BY <2>1, <3>2, <5>1 DEF Unquoted
      <4>3. QED BY <4>1, <4>2
    <3>3. QED BY <3>1, <3>2
  <2>5. CASE a.string = 0
    <3>1. PICK c \in Chars : a = Symbol(c) /\ a.text = <<c>>
      BY <2>5, AtomCases
    <3>2. sa = <<c>>
      BY <2>5, <3>1 DEF Show
    <3>3. Len(sa) = 1 /\ sa[1] = c
      BY <3>2
    <3>4. ASSUME Unquoted(x), NEW i \in 1..(n + 1) PROVE more[i] = Symbol((sx \o sa)[i])
      <4>1. Len(sx) = n /\ \A j \in 1..n : x[j] = Symbol(sx[j])
        BY <1>2, <3>4 DEF Long, sx, n
      <4>2. i \in 1..(Len(sx) + Len(sa))
        BY <2>1, <3>3, <4>1
      <4>3. CASE i = n + 1
        <5>1. ~(i <= Len(sx)) /\ i - Len(sx) = 1
          BY <2>1, <4>1, <4>3
        <5>2. (sx \o sa)[i] = c
          BY <2>3, <3>3, <4>2, <5>1
        <5>3. QED BY <2>1, <3>1, <4>3, <5>2
      <4>4. CASE i # n + 1
        <5>1. i \in 1..n /\ i <= Len(sx)
          BY <2>1, <4>1, <4>4
        <5>2. (sx \o sa)[i] = sx[i]
          BY <2>3, <4>2, <5>1
        <5>3. QED BY <2>1, <4>1, <5>1, <5>2
      <4>5. QED BY <4>3, <4>4
    <3>5. Len(sx) >= n /\ (~Unquoted(x) => Len(sx) >= n + 2) /\ (Unquoted(x) => Len(sx) = n)
      BY <1>2 DEF Long, sx, n
    <3>6. Len(Spell(more)) = Len(sx) + 1
      BY <2>2, <2>3, <3>3
    <3>7. Long(more)
      BY <2>1, <2>2, <2>3, <2>4, <2>5, <3>4, <3>5, <3>6 DEF Long
    <3>8. QED BY <3>7 DEF more
  <2>6. CASE a.string # 0
    <3>1. sa = Placeholder(a.string) /\ a.string \in 1..MaxHeader
      BY <2>6, AtomCases DEF Show
    <3>2. Len(sa) = 3
      BY <3>1, PlaceholderType DEF Separators
    <3>3. Len(sx) >= n
      BY <1>2 DEF Long, sx, n
    <3>4. Len(Spell(more)) >= (n + 1) + 2
      BY <2>1, <2>2, <2>3, <3>2, <3>3
    <3>5. Long(more)
      BY <2>1, <2>2, <2>3, <2>4, <2>6, <3>2, <3>4 DEF Long
    <3>6. QED BY <3>5 DEF more
  <2>7. QED BY <2>5, <2>6
<1>3. Seq(A) \subseteq P
  <2>1. \A x \in Seq(A) : x \in P => \A a \in A : Append(x, a) \in P
    <3> SUFFICES ASSUME NEW x \in Seq(A), Long(x), NEW a \in A PROVE Append(x, a) \in Seq(A) /\ Long(Append(x, a))
      OBVIOUS
    <3>1. Append(x, a) \in Seq(A)
      <4> HIDE DEF A
      <4> QED OBVIOUS
    <3>2. QED BY <1>2, <3>1
  <2> HIDE DEF P, A
  <2> QED BY <1>1, <2>1, SeqInduct
<1>4. QED BY <1>3

---------------------------------------------------------------------------
(* Words and parameters.                                                   *)

\* What a clean word says in the transformed text and as its author wrote it.
WordTold(strings, w) ==
    /\ Unquoted(w) => Spell(w) = Written(w)
    /\ Spell(w) = <<>> <=> w = <<>>
    /\ ~Unquoted(w) => Occurs(Spell(w), Quote)
    /\ Unquoted(w) => Spell(w) \notin {<<m>> : m \in ObjectMembers}
    /\ \A n \in DOMAIN strings :
          Spell(w) = Placeholder(n) <=> Len(w) = 1 /\ w[1].string = n
    /\ Len(w) = 1 /\ ~Unquoted(w) =>
          /\ w[1].string \in DOMAIN strings
          /\ Written(w) = strings[w[1].string]

\* Every clean word says that.
LEMMA WordTells ==
    ASSUME NEW strings, Few(strings), NEW w, Clean(strings, w)
    PROVE  WordTold(strings, w)
<1> DEFINE A == AtomSet(strings)
           g == Show(strings)
<1>1. w \in Seq(A) /\ w \in Seq(Ord(strings)) /\ ~Bare(w) /\ Len(w) \in Nat
  BY CleanAtoms
<1>2. DOMAIN w = 1..Len(w) /\ (\A i \in 1..Len(w) : w[i] \in A) /\ \A i \in 1..Len(w) : w[i] \in Ord(strings)
  <2> HIDE DEF A
  <2>1. DOMAIN w = 1..Len(w) /\ (\A i \in 1..Len(w) : w[i] \in A)
    BY <1>1
  <2>2. \A i \in 1..Len(w) : w[i] \in Ord(strings)
    BY <1>1
  <2>3. QED BY <2>1, <2>2
<1>3. SpellEq(strings, w) /\ WrittenEq(strings, w) /\ Long(w)
  BY <1>1, SpellIs, SpellLong
<1>4. Writes(g, A, Chars)
  BY ShowWrites
<1>5. Unquoted(w) => Spell(w) = Written(w)
  <2> SUFFICES ASSUME Unquoted(w) PROVE Spell(w) = Written(w)
    OBVIOUS
  <2>1. [i \in DOMAIN w |-> IF w[i].string = 0 THEN w[i].text ELSE Placeholder(w[i].string)]
           = [i \in DOMAIN w |-> w[i].text]
    BY DEF Unquoted
  <2>2. QED BY <2>1 DEF Spell, Written
<1>6. Spell(w) \in Seq(Chars) /\ \A x : Occurs(Spell(w), x) <=> \E k \in 1..Len(w) : Occurs(g[w[k]], x)
  <2>1. /\ Expand(g, w) \in Seq(Chars)
        /\ \A x : Occurs(Expand(g, w), x) <=> \E k \in 1..Len(w) : Occurs(g[w[k]], x)
    <3> HIDE DEF g, A
    <3> QED BY <1>1, <1>4, ExpandType
  <2>2. QED BY <1>3, <2>1 DEF SpellEq
<1>7. Len(<<>>) = 0 /\ Len(Spell(w)) \in Nat
  BY <1>6, LenProperties
<1>8. Spell(w) = <<>> <=> w = <<>>
  <2>1. w = <<>> => Spell(w) = <<>>
    BY <1>3, ExpandEmpty DEF SpellEq
  <2>2. ASSUME Spell(w) = <<>> PROVE w = <<>>
    <3>1. Len(w) = 0
      BY <1>1, <1>3, <1>7, <2>2 DEF Long
    <3> HIDE DEF A
    <3>2. QED BY <1>1, <3>1, EmptySeq
  <2>3. QED BY <2>1, <2>2
<1>9. \A i \in 1..Len(w) : w[i].string # 0 =>
         /\ w[i].string \in DOMAIN strings /\ w[i].string \in 1..MaxHeader
         /\ w[i].text = strings[w[i].string] /\ w[i].text \in Seq(Chars)
         /\ g[w[i]] = Placeholder(w[i].string)
  <2> SUFFICES ASSUME NEW i \in 1..Len(w), w[i].string # 0
               PROVE  /\ w[i].string \in DOMAIN strings /\ w[i].string \in 1..MaxHeader
                      /\ w[i].text = strings[w[i].string] /\ w[i].text \in Seq(Chars)
                      /\ g[w[i]] = Placeholder(w[i].string)
    OBVIOUS
  <2>1. w[i] \in AtomSet(strings)
    BY <1>2
  <2>2. QED BY <2>1, AtomCases DEF Show
<1>10. ~Unquoted(w) => Occurs(Spell(w), Quote)
  <2> SUFFICES ASSUME ~Unquoted(w) PROVE Occurs(Spell(w), Quote)
    OBVIOUS
  <2>1. PICK i \in 1..Len(w) : w[i].string # 0
    BY <1>2 DEF Unquoted
  <2> DEFINE p == Placeholder(w[i].string)
  <2>2. p[1] = Quote /\ Len(p) = 3 /\ g[w[i]] = p
    BY <1>9, <2>1, PlaceholderType DEF Separators
  <2> HIDE DEF p
  <2>3. 1 \in 1..Len(p)
    BY <2>2
  <2>4. Occurs(g[w[i]], Quote)
    BY <2>2, <2>3 DEF Occurs
  <2>5. QED BY <1>6, <2>1, <2>4
<1>11. Unquoted(w) => Spell(w) \notin {<<m>> : m \in ObjectMembers}
  <2> SUFFICES ASSUME Unquoted(w), NEW m \in ObjectMembers, Spell(w) = <<m>> PROVE FALSE
    OBVIOUS
  <2>1. Len(<<m>>) = 1 /\ <<m>>[1] = m
    OBVIOUS
  <2>2. Len(w) = 1 /\ \A i \in 1..Len(w) : w[i] = Symbol(Spell(w)[i])
    BY <1>3, <2>1 DEF Long
  <2>3. w[1] = Symbol(m) /\ w[1] \in Ord(strings)
    BY <1>2, <2>1, <2>2
  <2>4. Symbol(m).string = 0 /\ Symbol(m).text = <<m>>
    BY DEF Symbol
  <2>5. QED BY <2>3, <2>4 DEF Ord
<1>12. ASSUME NEW n \in DOMAIN strings, Spell(w) = Placeholder(n) PROVE Len(w) = 1 /\ w[1].string = n
  <2>1. n \in 1..MaxHeader
    <3> DEFINE V == Seq(Chars)
    <3>1. strings \in Seq(V) /\ Len(strings) <= MaxHeader
      BY DEF Few
    <3> HIDE DEF V
    <3>2. Len(strings) \in Nat /\ DOMAIN strings = 1..Len(strings)
      BY <3>1, LenProperties
    <3>3. QED BY <3>1, <3>2, HeaderLimit
  <2>2. /\ Len(Spell(w)) = 3 /\ Spell(w)[1] = Quote /\ Spell(w)[3] = Quote
        /\ Spell(w)[2] = ToString(n - 1) /\ ToString(n - 1) \in Chars \ {Backslash}
    BY <1>12, <2>1, PlaceholderType DEF Separators
  <2>3. CASE Unquoted(w)
    <3>1. Len(w) = 3 /\ \A i \in 1..Len(w) : w[i] = Symbol(Spell(w)[i])
      BY <1>3, <2>2, <2>3 DEF Long
    <3>2. w[1] = Symbol(Quote) /\ w[2] = Symbol(ToString(n - 1)) /\ w[3] = Symbol(Quote)
      BY <2>2, <3>1
    <3>3. Symbol(ToString(n - 1)) # Symbol(Backslash)
      BY <2>2 DEF Symbol
    <3>4. 1 \in 1..Len(w) /\ 1 + 2 <= Len(w) /\ 1 + 1 = 2 /\ 1 + 2 = 3
      BY <3>1
    <3>5. Bare(w)
      BY <3>2, <3>3, <3>4 DEF Bare
    <3>6. QED BY <1>1, <3>5
  <2>4. CASE ~Unquoted(w)
    <3>1. Len(w) + 2 <= 3
      BY <1>3, <2>2, <2>4 DEF Long
    <3>2. PICK i \in 1..Len(w) : w[i].string # 0
      BY <1>2, <2>4 DEF Unquoted
    <3>3. Len(w) = 1 /\ i = 1
      <4> HIDE DEF A, g
      <4>1. Len(w) \in Nat
        BY <1>1
      <4>2. QED BY <3>1, <3>2, <4>1
    <3>4. w = <<w[1]>>
      <4> HIDE DEF A
      <4> QED BY <1>1, <3>3
    <3>5. Spell(w) = Placeholder(w[1].string)
      <4> DEFINE a == w[1]
      <4>1. a \in A /\ g[a] = Placeholder(a.string) /\ w = <<a>>
        BY <1>2, <1>9, <3>2, <3>3, <3>4
      <4> HIDE DEF a, g, A
      <4>2. Expand(g, <<a>>) = g[a]
        BY <1>4, <4>1, ExpandOne
      <4>3. QED BY <1>3, <4>1, <4>2 DEF SpellEq, a, g
    <3>6. w[1].string = n
      BY <1>9, <1>12, <2>1, <3>2, <3>3, <3>5, PlaceholderOne
    <3>7. QED BY <3>3, <3>6
  <2>5. QED BY <2>3, <2>4
<1>13. ASSUME Len(w) = 1, w[1].string # 0
       PROVE  /\ w[1].string \in DOMAIN strings
              /\ Spell(w) = Placeholder(w[1].string)
              /\ Written(w) = strings[w[1].string]
  <2> DEFINE a == w[1]
  <2>1. a \in A /\ a.string \in DOMAIN strings /\ a.text = strings[a.string] /\ a.text \in Seq(Chars)
        /\ g[a] = Placeholder(a.string) /\ w = <<a>>
    <3>1. 1 \in 1..Len(w)
      BY <1>13
    <3>2. w = <<a>>
      <4> HIDE DEF A
      <4> QED BY <1>1, <1>13
    <3>3. QED BY <1>2, <1>9, <1>13, <3>1, <3>2
  <2> HIDE DEF a
  <2>3. \A h : Writes(h, A, Chars) => Expand(h, w) = h[a]
    <3> HIDE DEF A
    <3> QED BY <2>1, ExpandOne
  <2>4. Expand(g, w) = g[a] /\ Expand(TextOf(strings), w) = TextOf(strings)[a]
    BY <1>4, <2>3, ShowWrites
  <2>5. TextOf(strings)[a] = a.text
    BY <2>1 DEF TextOf
  <2>6. QED BY <1>3, <2>1, <2>4, <2>5 DEF SpellEq, WrittenEq, a
<1>14. \A n \in DOMAIN strings : Len(w) = 1 /\ w[1].string = n => Spell(w) = Placeholder(n)
  <2> SUFFICES ASSUME NEW n \in DOMAIN strings, Len(w) = 1, w[1].string = n PROVE Spell(w) = Placeholder(n)
    OBVIOUS
  <2>1. n # 0
    <3>1. Len(strings) \in Nat /\ DOMAIN strings = 1..Len(strings)
      <4> DEFINE V == Seq(Chars)
      <4>1. strings \in Seq(V)
        BY DEF Few
      <4> HIDE DEF V
      <4>2. QED BY <4>1, LenProperties
    <3>2. QED BY <3>1
  <2>2. QED BY <1>13, <2>1
<1>15. Len(w) = 1 /\ ~Unquoted(w) => w[1].string # 0
  <2>1. Len(w) = 1 => \A i \in 1..Len(w) : i = 1
    OBVIOUS
  <2>2. QED BY <1>2, <2>1 DEF Unquoted
<1>16. QED BY <1>5, <1>8, <1>10, <1>11, <1>12, <1>13, <1>14, <1>15 DEF WordTold

\* A word is a token in the transformed text exactly if its author wrote one.
Token(word) == Unquoted(word) /\ IsToken(Written(word))

\* No word with a quoted string becomes a token, none without one ceases to be.
LEMMA TokenTold ==
    ASSUME NEW strings, Few(strings), NEW w, Clean(strings, w)
    PROVE  (IsToken(Spell(w)) <=> Token(w)) /\ (Unquoted(w) => Spell(w) = Written(w))
<1>1. WordTold(strings, w)
  BY WordTells
<1>2. CASE Unquoted(w)
  BY <1>1, <1>2 DEF WordTold, Token
<1>3. CASE ~Unquoted(w)
  <2>1. Occurs(Spell(w), Quote)
    BY <1>1, <1>3 DEF WordTold
  <2>2. PICK i \in 1..Len(Spell(w)) : Spell(w)[i] = Quote
    BY <2>1 DEF Occurs
  <2>3. DOMAIN Spell(w) = 1..Len(Spell(w))
    <3>1. w \in Seq(AtomSet(strings))
      BY CleanAtoms
    <3>2. SpellEq(strings, w) /\ Writes(Show(strings), AtomSet(strings), Chars)
      BY <3>1, SpellIs, ShowWrites
    <3>3. Expand(Show(strings), w) \in Seq(Chars)
      BY <3>1, <3>2, ExpandType
    <3>4. Spell(w) \in Seq(Chars)
      BY <3>2, <3>3 DEF SpellEq
    <3>5. QED BY <3>4, LenProperties
  <2>4. ~IsToken(Spell(w))
    BY <2>2, <2>3 DEF IsToken
  <2>5. QED BY <1>3, <2>4 DEF Token
<1>4. QED BY <1>2, <1>3

\* What parseParameter and its reference make of a name and a value.
Value(raw, quoted, strings) ==
    IF quoted # {} THEN strings[CHOOSE n \in quoted : TRUE]
    ELSE IF raw \in {<<m>> : m \in ObjectMembers} THEN Inherited(raw)
    ELSE raw

\* The quoted strings a value stands for.
Places(raw, strings) == {n \in DOMAIN strings : Placeholder(n) = raw}

\* parseParameter, of the name and the value it split off.
Told(name, raw, strings) ==
    IF IsToken(name) /\ (raw = <<>> \/ Places(raw, strings) # {} \/ IsToken(raw))
    THEN Parsed([name |-> name, value |-> Value(raw, Places(raw, strings), strings)])
    ELSE Refused

\* ParameterMeant, of the same.
Meaning(name, value) ==
    IF Token(name) /\ (value = <<>> \/ (Len(value) = 1 /\ ~Unquoted(value)) \/ Token(value))
    THEN Parsed([name |-> Written(name), value |-> Written(value)])
    ELSE Refused

\* They agree, when name and value are clean.
LEMMA NameValueTold ==
    ASSUME NEW strings, Few(strings), NEW name, NEW word, Clean(strings, name), Clean(strings, word)
    PROVE  Told(Spell(name), Spell(word), strings) = Meaning(name, word)
<1> DEFINE raw    == Spell(word)
           quoted == Places(raw, strings)
<1>1. WordTold(strings, word) /\ (IsToken(raw) <=> Token(word)) /\ (Unquoted(word) => raw = Written(word))
  BY WordTells, TokenTold
<1>2. (IsToken(Spell(name)) <=> Token(name)) /\ (Token(name) => Spell(name) = Written(name))
  BY TokenTold DEF Token
<1>3. \A n \in quoted : Len(word) = 1 /\ word[1].string = n
  BY <1>1 DEF WordTold, Places
<1>4. Len(<<>>) = 0 /\ Unquoted(<<>>)
  BY DEF Unquoted
<1>5. CASE Len(word) = 1 /\ ~Unquoted(word)
  <2> DEFINE k == word[1].string
  <2>1. k \in DOMAIN strings /\ Written(word) = strings[k] /\ raw = Placeholder(k)
    BY <1>1, <1>5 DEF WordTold
  <2>2. quoted = {k}
    BY <1>3, <2>1 DEF Places
  <2>3. (CHOOSE n \in quoted : TRUE) = k
    BY <2>2
  <2>4. Value(raw, quoted, strings) = Written(word)
    BY <2>1, <2>2, <2>3 DEF Value
  <2>5. quoted # {}
    BY <2>2
  <2> HIDE DEF raw, quoted
  <2>6. QED BY <1>2, <1>5, <2>4, <2>5 DEF Told, Meaning, raw, quoted
<1>6. CASE ~(Len(word) = 1 /\ ~Unquoted(word)) /\ Unquoted(word)
  <2>1. quoted = {}
    <3> SUFFICES ASSUME NEW n \in quoted PROVE FALSE
      OBVIOUS
    <3>1. Len(word) = 1 /\ word[1].string = n /\ n \in DOMAIN strings
      BY <1>3 DEF Places
    <3>2. 1 \in DOMAIN word
      <4>1. word \in Seq(AtomSet(strings))
        BY CleanAtoms
      <4>2. DOMAIN word = 1..Len(word)
        BY <4>1, LenProperties
      <4>3. QED BY <3>1, <4>2
    <3>3. n = 0
      BY <1>6, <3>1, <3>2 DEF Unquoted
    <3>4. DOMAIN strings = 1..Len(strings)
      <4> DEFINE V == Seq(Chars)
      <4>1. strings \in Seq(V)
        BY DEF Few
      <4> HIDE DEF V
      <4>2. QED BY <4>1, LenProperties
    <3>5. QED BY <3>1, <3>3, <3>4
  <2>2. raw = Written(word) /\ raw \notin {<<m>> : m \in ObjectMembers} /\ (raw = <<>> <=> word = <<>>)
    BY <1>1, <1>6 DEF WordTold
  <2>3. Value(raw, quoted, strings) = Written(word)
    <3> HIDE DEF raw, quoted
    <3> QED BY <2>1, <2>2 DEF Value
  <2> HIDE DEF raw, quoted
  <2>4. QED BY <1>1, <1>2, <1>6, <2>1, <2>2, <2>3 DEF Told, Meaning, raw, quoted
<1>7. CASE ~(Len(word) = 1 /\ ~Unquoted(word)) /\ ~Unquoted(word)
  <2>1. quoted = {}
    BY <1>3, <1>7
  <2>2. word # <<>>
    BY <1>4, <1>7
  <2>3. raw # <<>>
    BY <1>1, <2>2 DEF WordTold
  <2>4. ~Token(word)
    BY <1>7 DEF Token
  <2> HIDE DEF raw, quoted
  <2>5. QED BY <1>1, <1>7, <2>1, <2>2, <2>3, <2>4 DEF Told, Meaning, raw, quoted
<1>8. QED BY <1>5, <1>6, <1>7

\* A piece that is missing is the empty text.
Second(pieces) == IF Len(pieces) > 1 THEN pieces[2] ELSE <<>>

\* A parameter (parseParameter) says what its atoms mean.
LEMMA ParameterTold ==
    ASSUME NEW strings, Few(strings), NEW p, Clean(strings, p)
    PROVE  parseParameter(Spell(p), strings) = ParameterMeant(p)
<1> DEFINE ps   == SplitOn(p, Symbol("="))
           all  == SpellAll(ps)
           word == Second(ps)
<1>1. "=" \in Separators
  BY DEF Separators
<1>2. SpelledSplit(p, "=") /\ ps \in Pieces(Ord(strings)) /\ AllClean(strings, ps)
  BY <1>1, SpellSplit
<1>3. SplitOn(Spell(p), "=") = all
  BY <1>2 DEF SpelledSplit
<1>4. Len(all) = Len(ps) /\ Len(ps) \in Nat /\ \A i \in 1..Len(ps) : all[i] = Spell(ps[i])
  <2>1. ps \in Seq(Seq(Ord(strings)))
    BY <1>2 DEF Pieces
  <2> HIDE DEF ps
  <2>2. QED BY <2>1, SpellAllType
<1>5. Len(ps) # 0
  <2> DEFINE V == Seq(Ord(strings))
  <2>1. ps \in Seq(V) /\ ps # <<>>
    BY <1>2 DEF Pieces
  <2> HIDE DEF V, ps
  <2>2. QED BY <2>1, EmptySeq
<1>6. Clean(strings, ps[1]) /\ all[1] = Spell(ps[1])
  <2>1. 1 \in 1..Len(ps)
    BY <1>4, <1>5
  <2> HIDE DEF ps, all
  <2>2. QED BY <1>2, <1>4, <2>1 DEF AllClean
<1>7. Clean(strings, word) /\ Second(all) = Spell(word)
  <2>1. CASE Len(ps) > 1
    <3>1. 2 \in 1..Len(ps)
      BY <1>4, <2>1
    <3> HIDE DEF ps, all
    <3>2. QED BY <1>2, <1>4, <2>1, <3>1 DEF AllClean, Second
  <2>2. CASE ~(Len(ps) > 1)
    <3>1. word = <<>> /\ Second(all) = <<>>
      BY <1>4, <2>2 DEF Second
    <3>2. Clean(strings, <<>>)
      BY DEF Clean, Bare
    <3>3. Spell(<<>>) = <<>>
      <4>1. WordTold(strings, <<>>)
        BY <3>2, WordTells
      <4>2. QED BY <4>1 DEF WordTold
    <3>4. QED BY <3>1, <3>2, <3>3
  <2>3. QED BY <2>1, <2>2
<1> HIDE DEF ps, all, word
<1>8. parseParameter(Spell(p), strings) = Told(all[1], Second(all), strings)
  <2>1. parseParameter(Spell(p), strings)
           = Told(SplitOn(Spell(p), "=")[1], Second(SplitOn(Spell(p), "=")), strings)
    BY DEF parseParameter, Told, Value, Places, Second
  <2>2. QED BY <1>3, <2>1
<1>9. ParameterMeant(p) = Meaning(ps[1], word)
  BY DEF ParameterMeant, Meaning, Token, ps, word, Second
<1>10. Told(Spell(ps[1]), Spell(word), strings) = Meaning(ps[1], word)
  BY <1>6, <1>7, NameValueTold
<1>11. QED BY <1>6, <1>7, <1>8, <1>9, <1>10

\* Several parameters (parseParameters) say what theirs mean.
LEMMA ParametersTold ==
    ASSUME NEW strings, Few(strings), NEW parts \in Seq(Seq(Ord(strings))), AllClean(strings, parts)
    PROVE  parseParameters(SpellAll(parts), strings) = ParametersMeant(parts)
<1> DEFINE all == SpellAll(parts)
<1>1. DOMAIN all = 1..Len(parts) /\ \A i \in 1..Len(parts) : all[i] = Spell(parts[i])
  BY SpellAllType
<1>2. DOMAIN parts = 1..Len(parts)
  <2> DEFINE V == Seq(Ord(strings))
  <2>1. parts \in Seq(V)
    OBVIOUS
  <2> HIDE DEF V
  <2>2. QED BY <2>1, LenProperties
<1> HIDE DEF all
<1>3. \A i \in 1..Len(parts) : parseParameter(all[i], strings) = ParameterMeant(parts[i])
  BY <1>1, ParameterTold DEF AllClean
<1>4. [i \in DOMAIN all |-> parseParameter(all[i], strings)] = [i \in DOMAIN parts |-> ParameterMeant(parts[i])]
  BY <1>1, <1>2, <1>3
<1>5. QED BY <1>4 DEF parseParameters, ParametersMeant, all

---------------------------------------------------------------------------
(* The elements of an Accept and of a Link header.                         *)

\* An element of a header says what it means: what is in front of its parameters, and they.
LEMMA ElementTold ==
    ASSUME NEW strings, Few(strings), NEW part, Clean(strings, part), NEW sep \in Separators,
           Unquoted(SplitOn(part, Symbol(sep))[1])
    PROVE  /\ SplitOn(Spell(part), sep)[1] = Written(SplitOn(part, Symbol(sep))[1])
           /\ parseParameters(Tail(SplitOn(Spell(part), sep)), strings)
                 = ParametersMeant(Tail(SplitOn(part, Symbol(sep))))
<1> DEFINE ps  == SplitOn(part, Symbol(sep))
           all == SpellAll(ps)
           V   == Seq(Ord(strings))
<1>2. SpelledSplit(part, sep) /\ ps \in Pieces(Ord(strings)) /\ AllClean(strings, ps)
  BY SpellSplit
<1>3. SplitOn(Spell(part), sep) = all
  BY <1>2 DEF SpelledSplit
<1>4. ps \in Seq(V) /\ ps # <<>>
  BY <1>2 DEF Pieces
<1>5. Unquoted(ps[1])
  OBVIOUS
<1> HIDE DEF ps
<1>6. /\ Len(ps) \in Nat /\ \A i \in 1..Len(ps) : all[i] = Spell(ps[i])
      /\ Tail(all) = SpellAll(Tail(ps)) /\ Tail(ps) \in Seq(Seq(Ord(strings)))
  BY <1>4, SpellAllType
<1> HIDE DEF all
<1>7. Len(ps) # 0
  <2> HIDE DEF V
  <2> QED BY <1>4, EmptySeq
<1>8. 1 \in 1..Len(ps) /\ Len(ps) \in Nat
  <2>1. Len(ps) \in Nat
    BY <1>6
  <2>2. QED BY <1>7, <2>1
<1>9. all[1] = Written(ps[1])
  <2>1. Clean(strings, ps[1]) /\ all[1] = Spell(ps[1])
    BY <1>2, <1>6, <1>8 DEF AllClean
  <2>2. Unquoted(ps[1]) => Spell(ps[1]) = Written(ps[1])
    BY <2>1, TokenTold
  <2>3. QED BY <1>5, <2>1, <2>2
<1>10. AllClean(strings, Tail(ps))
  <2>1. Len(Tail(ps)) = Len(ps) - 1 /\ \A i \in 1..Len(Tail(ps)) : Tail(ps)[i] = ps[i + 1]
    <3> HIDE DEF V
    <3> QED BY <1>4, <1>6, HeadTailProperties
  <2> SUFFICES ASSUME NEW i \in 1..Len(Tail(ps)) PROVE Clean(strings, Tail(ps)[i])
    BY DEF AllClean
  <2>2. i + 1 \in 1..Len(ps)
    BY <1>8, <2>1
  <2>3. QED BY <1>2, <2>1, <2>2 DEF AllClean
<1>11. parseParameters(SpellAll(Tail(ps)), strings) = ParametersMeant(Tail(ps))
  BY <1>6, <1>10, ParametersTold
<1>12. QED BY <1>3, <1>6, <1>9, <1>11 DEF ps

\* The elements of an ordinary header: where they are, and that they can be read one by one.
AllElements(strings, parts, all) ==
    /\ DOMAIN all = DOMAIN parts
    /\ \A i \in DOMAIN parts : all[i] = Spell(parts[i])
    /\ AllClean(strings, parts) /\ DOMAIN parts = 1..Len(parts)

\* splitAndClean finds the elements of an ordinary header.
LEMMA ElementsTold ==
    ASSUME NEW text \in Headers, Ordinary(text)
    PROVE  /\ Few(Lexed(text).strings)
           /\ AllElements(Lexed(text).strings, Elements(Lexed(text).atoms),
                          splitAndClean(Spell(Lexed(text).atoms)))
<1> DEFINE strings == Lexed(text).strings
           atoms   == Lexed(text).atoms
           O       == Ord(strings)
           U       == Seq(O)
           pieces  == SplitOn(atoms, Symbol(","))
           parts   == Elements(atoms)
           all     == splitAndClean(Spell(atoms))
<1>1. text \in Seq(Chars) /\ Len(text) <= MaxHeader /\ Len(text) \in Nat
  <2>1. STRING \subseteq Chars
    BY DEF Chars
  <2>2. text \in Seq(STRING) /\ Len(text) <= MaxHeader
    BY DEF Headers
  <2>3. QED BY <2>1, <2>2, SeqWidens, LenProperties
<1>2. /\ strings \in Seq(Seq(Chars)) /\ Len(strings) <= Len(text)
      /\ atoms \in Seq(AtomSet(strings)) /\ ~Bare(atoms)
  BY <1>1, LexedType
<1>3. Few(strings)
  <2>1. Len(strings) \in Nat
    BY <1>2, LenProperties
  <2>2. QED BY <1>1, <1>2, <2>1, HeaderLimit DEF Few
<1>4. \A i \in DOMAIN atoms : atoms[i].string = 0 => atoms[i].text \notin {<<m>> : m \in ObjectMembers}
  BY DEF Ordinary
<1> HIDE DEF strings, atoms
<1>5. Clean(strings, atoms)
  <2> DEFINE A == AtomSet(strings)
  <2>1. atoms \in Seq(A) /\ DOMAIN atoms = 1..Len(atoms) /\ Len(atoms) \in Nat /\ \A i \in 1..Len(atoms) : atoms[i] \in A
    <3>1. atoms \in Seq(A)
      BY <1>2
    <3> HIDE DEF A
    <3>2. QED BY <3>1
  <2>2. \A i \in 1..Len(atoms) : atoms[i] \in O
    BY <1>4, <2>1 DEF Ord
  <2>3. atoms \in Seq(O)
    <3> HIDE DEF O, A
    <3>1. atoms = [i \in 1..Len(atoms) |-> atoms[i]]
      BY <2>1
    <3>2. atoms \in [1..Len(atoms) -> O]
      BY <2>2, <3>1
    <3>3. QED BY <2>1, <3>2, FunctionIsSeq
  <2>4. QED BY <1>2, <2>3 DEF Clean
<1>6. SpelledSplit(atoms, ",") /\ pieces \in Pieces(O) /\ AllClean(strings, pieces)
  <2>1. "," \in Separators
    BY DEF Separators
  <2>2. QED BY <1>3, <1>5, <2>1, SpellSplit
<1>7. pieces \in Seq(U)
  BY <1>6 DEF Pieces
<1>8. parts = NonEmpty(pieces) /\ all = NonEmpty(SpellAll(pieces))
  BY <1>6 DEF Elements, splitAndClean, SpelledSplit
<1> HIDE DEF parts, all, pieces
<1>9. NonEmpty(SpellAll(pieces)) = SpellAll(NonEmpty(pieces)) /\ NonEmpty(pieces) \in Seq(Seq(O))
  BY <1>3, <1>7, SpellAllType
<1>10. all = SpellAll(parts) /\ parts \in Seq(U)
  BY <1>8, <1>9
<1>11. DOMAIN all = 1..Len(parts) /\ \A i \in 1..Len(parts) : all[i] = Spell(parts[i])
  BY <1>3, <1>10, SpellAllType
<1>12. DOMAIN parts = 1..Len(parts)
  <2> HIDE DEF U
  <2> QED BY <1>10, LenProperties
<1>13. AllClean(strings, parts)
  <2> SUFFICES ASSUME NEW i \in 1..Len(parts) PROVE Clean(strings, parts[i])
    BY DEF AllClean
  <2>1. Occurs(parts, parts[i])
    BY DEF Occurs
  <2>2. \A x : Occurs(NonEmpty(pieces), x) => x # <<>> /\ Occurs(pieces, x)
    <3>1. pieces \in Seq(Seq(O))
      BY <1>7
    <3> HIDE DEF O
    <3>2. QED BY <3>1, NonEmptyType
  <2>3. PICK k \in 1..Len(pieces) : pieces[k] = parts[i]
    BY <1>8, <2>1, <2>2 DEF Occurs
  <2>4. QED BY <1>6, <2>3 DEF AllClean
<1>14. AllElements(strings, parts, all)
  BY <1>11, <1>12, <1>13 DEF AllElements
<1>15. QED BY <1>3, <1>14 DEF strings, atoms, parts, all

\* The first piece of every element of an ordinary header is unquoted.
LEMMA OrdinaryFirst ==
    ASSUME NEW text, Ordinary(text)
    PROVE  \A i \in DOMAIN Elements(Lexed(text).atoms) :
              Unquoted(SplitOn(Elements(Lexed(text).atoms)[i], Symbol(";"))[1])
BY DEF Ordinary

\* parseAccept reads every ordinary header as its elements mean it.
LEMMA AcceptTold ==
    ASSUME NEW text \in Headers, Ordinary(text)
    PROVE  parseAccept(text) = AcceptMeant(text)
<1> DEFINE strings == Lexed(text).strings
           atoms   == Lexed(text).atoms
           parts   == Elements(atoms)
           all     == splitAndClean(Spell(atoms))
           Entry(part) == AcceptEntry(Written(SplitOn(part, Symbol(";"))[1]),
                                      ParametersMeant(Tail(SplitOn(part, Symbol(";")))))
<1>1. Few(strings) /\ AllElements(strings, parts, all)
  BY ElementsTold
<1>2. \A i \in DOMAIN parts : Unquoted(SplitOn(parts[i], Symbol(";"))[1])
  BY OrdinaryFirst
<1>3. parseAccept(text) =
         IF HasControl(strings) THEN Refused
         ELSE [ParsedAll([i \in DOMAIN all |-> parseAcceptPart(all[i], strings)])
                  EXCEPT !.value = SortedByWeight(@)]
  BY DEF parseAccept, transformQuotedStrings
<1>4. AcceptMeant(text) =
         IF HasControl(strings) THEN Refused
         ELSE [ParsedAll([i \in DOMAIN parts |-> Entry(parts[i])])
                  EXCEPT !.value = SortedByWeight(@)]
  BY DEF AcceptMeant
<1> HIDE DEF strings, atoms, parts, all
<1>5. \A i \in DOMAIN parts : parseAcceptPart(all[i], strings) = Entry(parts[i])
  <2> SUFFICES ASSUME NEW i \in DOMAIN parts PROVE parseAcceptPart(all[i], strings) = Entry(parts[i])
    OBVIOUS
  <2> DEFINE p == parts[i]
  <2>1. Clean(strings, p) /\ all[i] = Spell(p) /\ Unquoted(SplitOn(p, Symbol(";"))[1])
    BY <1>1, <1>2 DEF AllElements, AllClean
  <2> HIDE DEF p
  <2>2. /\ SplitOn(Spell(p), ";")[1] = Written(SplitOn(p, Symbol(";"))[1])
        /\ parseParameters(Tail(SplitOn(Spell(p), ";")), strings)
              = ParametersMeant(Tail(SplitOn(p, Symbol(";"))))
    <3>1. ";" \in Separators
      BY DEF Separators
    <3>2. QED BY <1>1, <2>1, <3>1, ElementTold
  <2>3. parseAcceptPart(Spell(p), strings)
           = AcceptEntry(SplitOn(Spell(p), ";")[1],
                         parseParameters(Tail(SplitOn(Spell(p), ";")), strings))
    BY DEF parseAcceptPart
  <2>4. parseAcceptPart(all[i], strings) = Entry(p)
    BY <2>1, <2>2, <2>3
  <2>5. QED BY <2>4 DEF p
<1>6. DOMAIN all = DOMAIN parts
  BY <1>1 DEF AllElements
<1> HIDE DEF Entry
<1>7. [i \in DOMAIN all |-> parseAcceptPart(all[i], strings)] = [i \in DOMAIN parts |-> Entry(parts[i])]
  BY <1>5, <1>6
<1>8. QED BY <1>3, <1>4, <1>7

\* The links of one header, as parseLinkHeader and its reference read them.
LinkRead(text) ==
    LET all == splitAndClean(Spell(Lexed(text).atoms))
    IN IF HasControl(Lexed(text).strings) THEN Refused
       ELSE ParsedAll([i \in DOMAIN all |-> parseLinkPart(all[i], Lexed(text).strings)])

LinkMeant(text) ==
    LET parts == Elements(Lexed(text).atoms)
    IN IF HasControl(Lexed(text).strings) THEN Refused
       ELSE ParsedAll([i \in DOMAIN parts |->
               LinkEntry(Written(SplitOn(parts[i], Symbol(";"))[1]),
                         ParametersMeant(Tail(SplitOn(parts[i], Symbol(";")))))])

\* They agree on every ordinary header.
LEMMA LinkTold ==
    ASSUME NEW text \in Headers, Ordinary(text)
    PROVE  LinkRead(text) = LinkMeant(text)
<1> DEFINE strings == Lexed(text).strings
           atoms   == Lexed(text).atoms
           parts   == Elements(atoms)
           all     == splitAndClean(Spell(atoms))
           Entry(part) == LinkEntry(Written(SplitOn(part, Symbol(";"))[1]),
                                    ParametersMeant(Tail(SplitOn(part, Symbol(";")))))
<1>1. Few(strings) /\ AllElements(strings, parts, all)
  BY ElementsTold
<1>2. \A i \in DOMAIN parts : Unquoted(SplitOn(parts[i], Symbol(";"))[1])
  BY OrdinaryFirst
<1>3. LinkRead(text) =
         IF HasControl(strings) THEN Refused
         ELSE ParsedAll([i \in DOMAIN all |-> parseLinkPart(all[i], strings)])
  BY DEF LinkRead
<1>4. LinkMeant(text) =
         IF HasControl(strings) THEN Refused
         ELSE ParsedAll([i \in DOMAIN parts |-> Entry(parts[i])])
  BY DEF LinkMeant
<1> HIDE DEF strings, atoms, parts, all
<1>5. \A i \in DOMAIN parts : parseLinkPart(all[i], strings) = Entry(parts[i])
  <2> SUFFICES ASSUME NEW i \in DOMAIN parts PROVE parseLinkPart(all[i], strings) = Entry(parts[i])
    OBVIOUS
  <2> DEFINE p == parts[i]
  <2>1. Clean(strings, p) /\ all[i] = Spell(p) /\ Unquoted(SplitOn(p, Symbol(";"))[1])
    BY <1>1, <1>2 DEF AllElements, AllClean
  <2> HIDE DEF p
  <2>2. /\ SplitOn(Spell(p), ";")[1] = Written(SplitOn(p, Symbol(";"))[1])
        /\ parseParameters(Tail(SplitOn(Spell(p), ";")), strings)
              = ParametersMeant(Tail(SplitOn(p, Symbol(";"))))
    <3>1. ";" \in Separators
      BY DEF Separators
    <3>2. QED BY <1>1, <2>1, <3>1, ElementTold
  <2>3. parseLinkPart(Spell(p), strings)
           = LinkEntry(SplitOn(Spell(p), ";")[1],
                       parseParameters(Tail(SplitOn(Spell(p), ";")), strings))
    BY DEF parseLinkPart
  <2>4. parseLinkPart(all[i], strings) = Entry(p)
    BY <2>1, <2>2, <2>3
  <2>5. QED BY <2>4 DEF p
<1>6. DOMAIN all = DOMAIN parts
  BY <1>1 DEF AllElements
<1> HIDE DEF Entry
<1>7. [i \in DOMAIN all |-> parseLinkPart(all[i], strings)] = [i \in DOMAIN parts |-> Entry(parts[i])]
  BY <1>5, <1>6
<1>8. QED BY <1>3, <1>4, <1>7

\* parseLinkHeader reads several ordinary headers as their elements mean them.
LEMMA LinksTold ==
    ASSUME NEW link \in Seq(Headers), \A i \in DOMAIN link : Ordinary(link[i])
    PROVE  parseLinkHeader(link) = LinksMeant(link)
<1>1. \A i \in DOMAIN link : LinkRead(link[i]) = LinkMeant(link[i])
  <2> SUFFICES ASSUME NEW i \in DOMAIN link PROVE LinkRead(link[i]) = LinkMeant(link[i])
    OBVIOUS
  <2>1. link[i] \in Headers
    <3> DEFINE H == Headers
    <3>1. link \in Seq(H)
      OBVIOUS
    <3> HIDE DEF H
    <3>2. link[i] \in H
      BY <3>1
    <3>3. QED BY <3>2 DEF H
  <2>2. QED BY <2>1, LinkTold
<1>2. [i \in DOMAIN link |-> LinkRead(link[i])] = [i \in DOMAIN link |-> LinkMeant(link[i])]
  BY <1>1
<1>3. parseLinkHeader(link) = [ParsedAll([i \in DOMAIN link |-> LinkRead(link[i])])
                                  EXCEPT !.value = FlattenSeq(FlattenSeq(@))]
  BY DEF parseLinkHeader, transformQuotedStrings, LinkRead
<1>4. LinksMeant(link) = [ParsedAll([i \in DOMAIN link |-> LinkMeant(link[i])])
                             EXCEPT !.value = FlattenSeq(FlattenSeq(@))]
  BY DEF LinksMeant, LinkMeant
<1>5. QED BY <1>2, <1>3, <1>4

---------------------------------------------------------------------------
(* Sorting by weight.                                                      *)

\* The places of the entries that are not sorted behind the i-th (SortedByWeight) ...
NotBehind(entries, i) ==
    {j \in DOMAIN entries :
        \/ entries[j].weight > entries[i].weight
        \/ entries[j].weight = entries[i].weight /\ j <= i}

\* ... of entries that have a weight.
Weighed(entries, n) == DOMAIN entries = 1..n /\ \A i \in 1..n : entries[i].weight \in Nat

\* Their number is the place of the i-th entry when all are sorted.
Rank(entries, n) == [i \in 1..n |-> Cardinality(NotBehind(entries, i))]

\* Every place is the rank of one entry, and an entry ranks before those it is not behind.
LEMMA RankBijection ==
    ASSUME NEW n \in Nat, NEW entries, Weighed(entries, n)
    PROVE  /\ Rank(entries, n) \in Bijection(1..n, 1..n)
           /\ \A i, j \in 1..n : i # j /\ j \in NotBehind(entries, i)
                                => Rank(entries, n)[j] < Rank(entries, n)[i]
           /\ \A i, j \in 1..n : j \in NotBehind(entries, i) \/ i \in NotBehind(entries, j)
<1> DEFINE B(i)  == NotBehind(entries, i)
           rank == Rank(entries, n)
<1>1. IsFiniteSet(1..n) /\ Cardinality(1..n) = n
  BY FS_Interval
<1>2. \A i \in 1..n : B(i) \in SUBSET (1..n) /\ i \in B(i)
  BY DEF NotBehind, Weighed
<1>3. \A i \in 1..n : IsFiniteSet(B(i)) /\ Cardinality(B(i)) \in 1..n
  <2> SUFFICES ASSUME NEW i \in 1..n PROVE IsFiniteSet(B(i)) /\ Cardinality(B(i)) \in 1..n
    OBVIOUS
  <2> DEFINE b == B(i)
  <2>1. b \in SUBSET (1..n) /\ b # {}
    BY <1>2
  <2> HIDE DEF b
  <2>2. IsFiniteSet(b) /\ Cardinality(b) <= Cardinality(1..n)
    BY <1>1, <2>1, FS_Subset
  <2>3. Cardinality(b) \in Nat /\ Cardinality(b) # 0
    BY <2>1, <2>2, FS_CardinalityType, FS_EmptySet
  <2>4. Cardinality(b) \in 1..n
    BY <1>1, <2>2, <2>3
  <2>5. QED BY <2>2, <2>4 DEF b
<1>4. ASSUME NEW i \in 1..n, NEW j \in 1..n, i # j, j \in B(i)
      PROVE  Cardinality(B(j)) < Cardinality(B(i))
  <2>1. B(j) \in SUBSET B(i) /\ i \notin B(j)
    BY <1>4 DEF NotBehind, Weighed
  <2> DEFINE b == B(i)
             c == B(j)
  <2>2. c \in SUBSET b /\ c # b /\ IsFiniteSet(b) /\ Cardinality(b) \in 1..n /\ Cardinality(c) \in 1..n
    BY <1>2, <1>3, <2>1
  <2> HIDE DEF b, c
  <2>3. Cardinality(c) <= Cardinality(b) /\ (Cardinality(b) = Cardinality(c) => b = c)
    BY <2>2, FS_Subset
  <2>4. Cardinality(c) < Cardinality(b)
    BY <2>2, <2>3
  <2>5. QED BY <2>4 DEF b, c
<1>5. \A i, j \in 1..n : j \in B(i) \/ i \in B(j)
  BY DEF NotBehind, Weighed
<1>6. \A i, j \in 1..n : i # j => Cardinality(B(i)) # Cardinality(B(j))
  <2> SUFFICES ASSUME NEW i \in 1..n, NEW j \in 1..n, i # j PROVE Cardinality(B(i)) # Cardinality(B(j))
    OBVIOUS
  <2>1. Cardinality(B(i)) \in 1..n /\ Cardinality(B(j)) \in 1..n
    BY <1>3
  <2>2. CASE j \in B(i)
    <3>1. Cardinality(B(j)) < Cardinality(B(i))
      BY <1>4, <2>2
    <3> HIDE DEF B
    <3>2. QED BY <2>1, <3>1
  <2>3. CASE i \in B(j)
    <3>1. Cardinality(B(i)) < Cardinality(B(j))
      BY <1>4, <2>3
    <3> HIDE DEF B
    <3>2. QED BY <2>1, <3>1
  <2>4. QED BY <1>5, <2>2, <2>3
<1>7. rank \in Injection(1..n, 1..n)
  <2>1. rank = [i \in 1..n |-> Cardinality(B(i))]
    BY DEF Rank
  <2> HIDE DEF B, rank
  <2>2. QED BY <1>3, <1>6, <2>1 DEF Injection, IsInjective
<1>8. rank \in Bijection(1..n, 1..n)
  <2> HIDE DEF rank
  <2>1. rank \in Surjection(1..n, 1..n)
    BY <1>1, <1>7, FS_Injection
  <2>2. QED BY <1>7, <2>1 DEF Bijection
<1>9. \A i, j \in 1..n : i # j /\ j \in B(i) => rank[j] < rank[i]
  BY <1>4 DEF Rank
<1>10. QED BY <1>5, <1>8, <1>9

\* The places of the entries in the order they are sorted in: each entry once, no entry
\* behind one of a smaller weight, and entries of one weight in the order they came in.
SortedBy(entries, n, order) ==
    /\ order \in Bijection(1..n, 1..n)
    /\ SortedByWeight(entries) = [k \in 1..n |-> entries[order[k]]]
    /\ \A j, k \in 1..n : j < k =>
          \/ entries[order[j]].weight > entries[order[k]].weight
          \/ entries[order[j]].weight = entries[order[k]].weight /\ order[j] < order[k]

\* parseAccept and its siblings sort the entries of a header by falling weight, keep each
\* of them and keep the order of those with one weight: for any number of entries.
THEOREM EntriesSorted ==
    ASSUME NEW n \in Nat, NEW entries, Weighed(entries, n)
    PROVE  \E order : SortedBy(entries, n, order)
<1> DEFINE rank  == Rank(entries, n)
           order == [k \in 1..n |-> CHOOSE i \in 1..n : rank[i] = k]
<1>1. /\ rank \in Bijection(1..n, 1..n)
      /\ \A i, j \in 1..n : i # j /\ j \in NotBehind(entries, i) => rank[j] < rank[i]
      /\ \A i, j \in 1..n : j \in NotBehind(entries, i) \/ i \in NotBehind(entries, j)
  BY RankBijection
<1>2. SortedByWeight(entries) = [k \in 1..n |-> entries[order[k]]]
  <2>1. DOMAIN entries = 1..n
    BY DEF Weighed
  <2>2. \A i \in 1..n : rank[i] = Cardinality(NotBehind(entries, i))
    BY DEF Rank
  <2>3. SortedByWeight(entries) =
           [k \in 1..n |-> entries[CHOOSE i \in 1..n : Cardinality(NotBehind(entries, i)) = k]]
    BY <2>1 DEF SortedByWeight, NotBehind
  <2> HIDE DEF rank
  <2>4. ASSUME NEW k \in 1..n
        PROVE  (CHOOSE i \in 1..n : Cardinality(NotBehind(entries, i)) = k) = order[k]
    BY <2>2
  <2>5. QED BY <2>3, <2>4
<1> HIDE DEF rank
<1>3. \A k \in 1..n : order[k] \in 1..n /\ rank[order[k]] = k
  <2>1. \A k \in 1..n : \E i \in 1..n : rank[i] = k
    BY <1>1 DEF Bijection, Surjection
  <2>2. QED BY <2>1
<1>4. \A i \in 1..n : order[rank[i]] = i
  <2>1. \A i \in 1..n : rank[i] \in 1..n
    BY <1>1 DEF Bijection, Surjection
  <2>2. \A i, j \in 1..n : rank[i] = rank[j] => i = j
    BY <1>1 DEF Bijection, Injection, IsInjective
  <2> HIDE DEF order
  <2>3. QED BY <1>3, <2>1, <2>2
<1>5. order \in [1..n -> 1..n]
  BY <1>3
<1> HIDE DEF order
<1>6. order \in Bijection(1..n, 1..n)
  <2>1. order \in Injection(1..n, 1..n)
    BY <1>3, <1>5 DEF Injection, IsInjective
  <2>2. \A i \in 1..n : rank[i] \in 1..n
    BY <1>1 DEF Bijection, Surjection
  <2>3. order \in Surjection(1..n, 1..n)
    BY <1>4, <1>5, <2>2 DEF Surjection
  <2>4. QED BY <2>1, <2>3 DEF Bijection
<1>7. ASSUME NEW j \in 1..n, NEW k \in 1..n, j < k
      PROVE  \/ entries[order[j]].weight > entries[order[k]].weight
             \/ entries[order[j]].weight = entries[order[k]].weight /\ order[j] < order[k]
  <2> DEFINE a == order[j]
             b == order[k]
  <2>1. a \in 1..n /\ b \in 1..n /\ rank[a] = j /\ rank[b] = k
    BY <1>3
  <2> HIDE DEF a, b
  <2>2. a # b
    BY <1>7, <2>1
  <2>3. ~(b \in NotBehind(entries, a))
    <3>1. b \in NotBehind(entries, a) => rank[b] < rank[a]
      BY <1>1, <2>1, <2>2
    <3>2. QED BY <1>7, <2>1, <3>1
  <2>4. a \in NotBehind(entries, b)
    BY <1>1, <2>1, <2>3
  <2>5. \/ entries[a].weight > entries[b].weight
        \/ entries[a].weight = entries[b].weight /\ a < b
    BY <2>1, <2>2, <2>4 DEF NotBehind
  <2>6. QED BY <2>5 DEF a, b
<1>8. QED BY <1>2, <1>6, <1>7 DEF SortedBy

---------------------------------------------------------------------------
(* The Accept headers without parameters.                                  *)

\* A text without a separator is one element, if it is not empty.
LEMMA OneElement ==
    ASSUME NEW D, NEW sep, sep \notin D, NEW p \in Seq(D), p # <<>>
    PROVE  NonEmpty(SplitOn(p, sep)) = <<p>>
<1> DEFINE V == Seq(D)
<1>1. SplitsTo(<<>>, sep, <<>>, <<>>)
  <2>1. SplitOn(<<>>, sep) = << <<>> >>
    BY SplitEmpty
  <2>2. QED BY <2>1 DEF SplitsTo
<1>2. SplitsTo(<<>> \o p, sep, <<>>, <<>> \o p)
  <2>1. <<>> \in Seq(D) /\ <<>> \in Seq(Seq(D)) /\ <<>> \in Seq(D \cup {sep})
    OBVIOUS
  <2>2. QED BY <1>1, <2>1, SplitConcat
<1>3. <<>> \o p = p
  BY ConcatEmptySeq
<1>4. SplitOn(p, sep) = Append(<<>>, p)
  BY <1>2, <1>3 DEF SplitsTo
<1>5. KeptWith(p, <<>>)
  <2>1. <<>> \in Seq(Seq(D))
    OBVIOUS
  <2>2. QED BY <2>1, NonEmptyType
<1>6. NonEmpty(<<>>) = <<>>
  BY FlattenEmpty DEF NonEmpty
<1>7. NonEmpty(Append(<<>>, p)) = Append(<<>>, p)
  BY <1>5, <1>6 DEF KeptWith
<1>8. Append(<<>>, p) = <<p>>
  OBVIOUS
<1>9. QED BY <1>4, <1>7, <1>8

\* Each of these texts is the only element of its own.
AllAlone(parts, sep) ==
    /\ DOMAIN parts = 1..Len(parts) /\ Len(parts) \in Nat
    /\ \A i \in 1..Len(parts) : NonEmpty(SplitOn(parts[i], sep)) = <<parts[i]>>

\* The elements of a header are such texts.
LEMMA ElementsAlone ==
    ASSUME NEW sep \in Separators, NEW text \in Seq(Chars)
    PROVE  AllAlone(NonEmpty(SplitOn(text, sep)), sep)
<1> DEFINE D == Chars \ {sep}
           V == Seq(D)
           pieces == SplitOn(text, sep)
           parts  == NonEmpty(pieces)
<1>1. sep \in Chars
  BY DEF Chars, Separators
<1>2. pieces \in Pieces(D) /\ sep \notin D
  <2>1. D \cup {sep} = Chars /\ sep \notin D
    BY <1>1
  <2>2. text \in Seq(D \cup {sep})
    BY <2>1
  <2> HIDE DEF D
  <2>3. PICK run : SplitRun(run, D, text, sep)
    BY <2>2, SplitRuns
  <2>4. Len(text) \in 0..Len(text)
    BY LenProperties
  <2>5. QED BY <2>1, <2>3, <2>4 DEF SplitRun
<1> HIDE DEF pieces, D
<1>3. pieces \in Seq(Seq(D))
  BY <1>2 DEF Pieces
<1>4. parts \in Seq(V \ {<<>>})
  BY <1>3, NonEmptyType
<1> HIDE DEF parts, V
<1>5. DOMAIN parts = 1..Len(parts) /\ Len(parts) \in Nat /\ \A i \in 1..Len(parts) : parts[i] \in V \ {<<>>}
  BY <1>4
<1>6. \A i \in 1..Len(parts) : NonEmpty(SplitOn(parts[i], sep)) = <<parts[i]>>
  BY <1>2, <1>5, OneElement DEF V
<1>7. AllAlone(parts, sep)
  BY <1>5, <1>6 DEF AllAlone
<1>8. QED BY <1>7 DEF parts, pieces

\* splitAndClean is this split at the commas.
LEMMA PartsAlone ==
    ASSUME NEW text \in Seq(Chars)
    PROVE  /\ DOMAIN splitAndClean(text) = 1..Len(splitAndClean(text))
           /\ Len(splitAndClean(text)) \in Nat
           /\ \A i \in 1..Len(splitAndClean(text)) :
                 splitAndClean(splitAndClean(text)[i]) = <<splitAndClean(text)[i]>>
<1>1. "," \in Separators
  BY DEF Separators
<1>2. AllAlone(NonEmpty(SplitOn(text, ",")), ",")
  BY <1>1, ElementsAlone
<1>3. QED BY <1>2 DEF AllAlone, splitAndClean

\* parseRange, whatever separates a range from what follows it.
RangeOf(part, sep) ==
    LET pieces == SplitOn(part, sep)
        qvalue == IF Len(pieces) > 1 THEN pieces[2] ELSE <<>>
        value  == SubSeq(qvalue, 3, Len(qvalue))
    IN CASE qvalue = <<>> ->
               Parsed([range |-> pieces[1], weight |-> 1000])
         [] IsPrefix(<<"q", "=">>, qvalue) /\ IsQValue(value) ->
               Parsed([range |-> pieces[1], weight |-> QWeight[value[1]]])
         [] OTHER -> Refused

\* A range is refused, or has a weight.
Weighty(result) ==
    \/ result = Refused
    \/ \E value : result = Parsed(value) /\ value.weight \in Nat

\* parseRange refuses its part, or returns an entry with a weight.
LEMMA RangeWeighty ==
    ASSUME NEW part
    PROVE  Weighty(parseRange(part))
<1>1. \A sep : Weighty(RangeOf(part, sep))
  <2> SUFFICES ASSUME NEW sep PROVE Weighty(RangeOf(part, sep))
    OBVIOUS
  <2> DEFINE pieces == SplitOn(part, sep)
             qvalue == IF Len(pieces) > 1 THEN pieces[2] ELSE <<>>
             value  == SubSeq(qvalue, 3, Len(qvalue))
             prefix == IsPrefix(<<"q", "=">>, qvalue)
  <2>1. RangeOf(part, sep) =
           CASE qvalue = <<>> -> Parsed([range |-> pieces[1], weight |-> 1000])
             [] prefix /\ IsQValue(value) -> Parsed([range |-> pieces[1], weight |-> QWeight[value[1]]])
             [] OTHER -> Refused
    BY DEF RangeOf
  <2> HIDE DEF pieces, qvalue, value, prefix
  <2>2. IsQValue(value) => QWeight[value[1]] \in Nat
    BY WeightsAssumption DEF IsQValue
  <2>3. \/ RangeOf(part, sep) = Parsed([range |-> pieces[1], weight |-> 1000])
        \/ IsQValue(value) /\ RangeOf(part, sep) = Parsed([range |-> pieces[1], weight |-> QWeight[value[1]]])
        \/ RangeOf(part, sep) = Refused
    BY <2>1
  <2>4. QED BY <2>2, <2>3 DEF Weighty
<1>2. parseRange(part) = RangeOf(part, ";")
  BY DEF parseRange, RangeOf
<1>3. QED BY <1>1, <1>2

\* What parseNoParameters returns when the parts of a header read as these results.
Ranges(results) == [ParsedAll(results) EXCEPT !.value = SortedByWeight(@)]

\* All the values of some results, by weight.
ValuesSorted(results) == SortedByWeight([i \in DOMAIN results |-> results[i].value])

\* One that is refused refuses all, else every value is there, in some order.
RangesSorted(results, n) ==
    \/ /\ \E i \in 1..n : results[i] = Refused
       /\ Ranges(results) = Refused
    \/ /\ \A i \in 1..n : ~results[i].refused
       /\ Ranges(results) = Parsed(ValuesSorted(results))
       /\ \E order : SortedBy([i \in DOMAIN results |-> results[i].value], n, order)

\* parseNoParameters refuses or sorts in that way.
LEMMA RangesRead ==
    ASSUME NEW n \in Nat, NEW results, DOMAIN results = 1..n, \A i \in 1..n : Weighty(results[i])
    PROVE  RangesSorted(results, n)
<1> DEFINE values == [i \in DOMAIN results |-> results[i].value]
<1>1. CASE \E i \in 1..n : results[i].refused
  <2>1. ParsedAll(results) = Refused
    BY <1>1 DEF ParsedAll
  <2>2. SortedByWeight(<<>>) = <<>>
    BY DEF SortedByWeight
  <2>3. Ranges(results) = Refused
    BY <2>1, <2>2 DEF Ranges, Refused
  <2>4. PICK i \in 1..n : results[i].refused
    BY <1>1
  <2>5. results[i] = Refused
    BY <2>4 DEF Weighty, Parsed
  <2>6. QED BY <2>3, <2>5 DEF RangesSorted
<1>2. CASE ~(\E i \in 1..n : results[i].refused)
  <2>1. ParsedAll(results) = Parsed(values)
    BY <1>2 DEF ParsedAll
  <2>2. \A i \in 1..n : results[i].value.weight \in Nat
    BY <1>2 DEF Weighty, Parsed, Refused
  <2>3. Weighed(values, n)
    BY <2>2 DEF Weighed
  <2> HIDE DEF values
  <2>4. \E order : SortedBy(values, n, order)
    BY <2>3, EntriesSorted
  <2>5. Ranges(results) = Parsed(SortedByWeight(values))
    <3>1. Parsed(values).value = values
      BY DEF Parsed
    <3>2. \A v : [Parsed(values) EXCEPT !.value = v] = Parsed(v)
      <4>1. \A f, v : [[refused |-> f, value |-> values] EXCEPT !.value = v] = [refused |-> f, value |-> v]
        OBVIOUS
      <4>2. QED BY <4>1, Zenon DEF Parsed
    <3>3. [Parsed(values) EXCEPT !.value = SortedByWeight(Parsed(values).value)]
             = Parsed(SortedByWeight(values))
      BY <3>1, <3>2
    <3>4. QED BY <2>1, <3>3 DEF Ranges
  <2>6. QED BY <1>2, <2>4, <2>5 DEF RangesSorted, values, ValuesSorted
<1>3. QED BY <1>1, <1>2

\* What becomes of one range alone: it is refused, or the only value.
LEMMA RangeAlone ==
    ASSUME NEW result, Weighty(result)
    PROVE  Ranges(<<result>>) = IF result.refused THEN Refused ELSE Parsed(<<result.value>>)
<1> DEFINE results == <<result>>
           values  == [i \in DOMAIN results |-> results[i].value]
<1>1. RangesSorted(results, 1)
  <2>1. DOMAIN results = 1..1 /\ \A i \in 1..1 : Weighty(results[i])
    OBVIOUS
  <2> HIDE DEF results
  <2>2. QED BY <2>1, RangesRead
<1>2. CASE result.refused
  BY <1>1, <1>2 DEF RangesSorted
<1>3. CASE ~result.refused
  <2>1. Ranges(results) = Parsed(ValuesSorted(results)) /\ \E order : SortedBy(values, 1, order)
    BY <1>1, <1>3 DEF RangesSorted, Refused
  <2>2. PICK order : SortedBy(values, 1, order)
    BY <2>1
  <2>3. order[1] = 1
    BY <2>2 DEF SortedBy, Bijection, Surjection
  <2>4. values[1] = result.value
    OBVIOUS
  <2>5. SortedByWeight(values) = [k \in 1..1 |-> values[order[k]]]
    BY <2>2 DEF SortedBy
  <2> HIDE DEF values
  <2>6. SortedByWeight(values) = <<result.value>>
    BY <2>3, <2>4, <2>5
  <2>7. QED BY <1>3, <2>1, <2>6 DEF values, ValuesSorted
<1>4. QED BY <1>2, <1>3

\* The symbols of a header are characters.
LEMMA HeaderChars ==
    ASSUME NEW text \in Headers
    PROVE  text \in Seq(Chars)
<1>1. STRING \subseteq Chars
  BY DEF Chars
<1>2. text \in Seq(STRING)
  BY DEF Headers
<1>3. QED BY <1>1, <1>2, SeqWidens

\* Refused is refused and holds nothing, Parsed is not and holds its value.
LEMMA Outcome ==
    /\ Refused.refused /\ Refused.value = <<>>
    /\ \A v : ~Parsed(v).refused /\ Parsed(v).value = v
BY DEF Refused, Parsed

\* parseNoParameters of one element.
LEMMA PartAlone ==
    ASSUME NEW part, splitAndClean(part) = <<part>>
    PROVE  parseNoParameters(part) = Ranges(<<parseRange(part)>>)
<1> DEFINE parts   == <<part>>
           results == [i \in DOMAIN parts |-> parseRange(parts[i])]
<1>1. results = <<parseRange(part)>>
  OBVIOUS
<1>2. parseNoParameters(part) = Ranges(results)
  BY DEF parseNoParameters, Ranges
<1>3. QED BY <1>1, <1>2

\* The results if all their ranges are good ones.
Chosen(all, good) ==
    IF \A k \in DOMAIN all.value : all.value[k].range \in good THEN all ELSE Refused

\* The ranges of some results, and what holds no other.
RangeSet(results) == {results[i].value.range : i \in DOMAIN results}
RangeFrom(all, results) == \A k \in DOMAIN all.value : all.value[k].range \in RangeSet(results)

\* All elements read together are refused, or have the ranges of the elements.
LEMMA ChosenTold ==
    ASSUME NEW n \in Nat, NEW results, DOMAIN results = 1..n, \A i \in 1..n : Weighty(results[i]),
           NEW good, NEW alone, DOMAIN alone = 1..n,
           \A i \in 1..n : alone[i] = Chosen(Ranges(<<results[i]>>), good)
    PROVE  Chosen(Ranges(results), good) = OneByOne(alone)
<1> DEFINE Good(i) == results[i].value.range \in good
           values  == [i \in DOMAIN results |-> results[i].value]
           meant   == [i \in 1..n |-> alone[i].value[1]]
<1>1. RangesSorted(results, n)
  BY RangesRead
<1>2. ASSUME NEW i \in 1..n, results[i].refused
      PROVE  alone[i] = Refused
  <2>1. Ranges(<<results[i]>>) = Refused
    BY <1>2, RangeAlone
  <2>2. QED BY <2>1 DEF Chosen
<1>3. ASSUME NEW i \in 1..n, ~results[i].refused
      PROVE  alone[i] = IF Good(i) THEN Parsed(<<results[i].value>>) ELSE Refused
  <2>1. Ranges(<<results[i]>>) = Parsed(<<results[i].value>>)
    BY <1>3, RangeAlone
  <2>2. Parsed(<<results[i].value>>).value = <<results[i].value>>
    BY Outcome
  <2>3. QED BY <2>1, <2>2 DEF Chosen
<1>4. CASE \E i \in 1..n : results[i].refused
  <2>1. Ranges(results) = Refused
    BY <1>1, <1>4 DEF RangesSorted
  <2>2. PICK i \in 1..n : results[i].refused
    BY <1>4
  <2>3. alone[i].refused
    BY <1>2, <2>2, Outcome
  <2>4. QED BY <2>1, <2>3 DEF Chosen, OneByOne
<1>5. CASE ~\E i \in 1..n : results[i].refused
  <2>1. \A i \in 1..n : results[i] # Refused
    BY <1>5, Outcome
  <2>2. Ranges(results) = Parsed(ValuesSorted(results)) /\ \E order : SortedBy(values, n, order)
    BY <1>1, <2>1 DEF RangesSorted
  <2>3. PICK order : SortedBy(values, n, order)
    BY <2>2
  <2>4. ValuesSorted(results) = [k \in 1..n |-> values[order[k]]]
    BY <2>3 DEF SortedBy, ValuesSorted
  <2>5. /\ \A k \in 1..n : order[k] \in 1..n
        /\ \A i \in 1..n : \E k \in 1..n : order[k] = i
    BY <2>3 DEF SortedBy, Bijection, Surjection
  <2>6. Ranges(results).value = [k \in 1..n |-> values[order[k]]]
    BY <2>2, <2>4, Outcome
  <2>7. \A i \in 1..n : values[i] = results[i].value
    OBVIOUS
  <2> HIDE DEF values
  <2>8. (\A k \in DOMAIN Ranges(results).value : Ranges(results).value[k].range \in good)
           <=> \A i \in 1..n : Good(i)
    <3> DEFINE sorted == Ranges(results).value
    <3>1. DOMAIN sorted = 1..n /\ \A k \in 1..n : sorted[k] = results[order[k]].value
      BY <2>5, <2>6, <2>7
    <3> HIDE DEF sorted
    <3>2. (\A k \in 1..n : sorted[k].range \in good) <=> \A k \in 1..n : Good(order[k])
      BY <3>1
    <3> HIDE DEF Good
    <3>3. (\A k \in 1..n : Good(order[k])) <=> \A i \in 1..n : Good(i)
      BY <2>5
    <3>4. QED BY <3>1, <3>2, <3>3 DEF sorted
  <2> HIDE DEF Good
  <2>9. CASE \A i \in 1..n : Good(i)
    <3>1. \A i \in 1..n : alone[i] = Parsed(<<results[i].value>>)
      BY <1>3, <1>5, <2>9
    <3>2. \A i \in 1..n : ~alone[i].refused /\ alone[i].value = <<results[i].value>>
      BY <3>1, Outcome
    <3>3. \A i \in 1..n : alone[i].value[1] = values[i]
      BY <2>7, <3>2
    <3>4. meant = values
      BY <3>3 DEF values
    <3>5. ~\E i \in 1..n : alone[i].refused
      BY <3>2
    <3>6. Chosen(Ranges(results), good) = Parsed(SortedByWeight(values))
      BY <2>2, <2>8, <2>9 DEF Chosen, ValuesSorted, values
    <3>7. QED BY <3>4, <3>5, <3>6 DEF OneByOne
  <2>10. CASE ~\A i \in 1..n : Good(i)
    <3>1. PICK i \in 1..n : ~Good(i)
      BY <2>10
    <3>2. alone[i] = Refused
      BY <1>3, <1>5, <3>1
    <3>3. alone[i].refused
      BY <3>2, Outcome
    <3>4. QED BY <2>8, <2>10, <3>3 DEF Chosen, OneByOne
  <2>11. QED BY <2>9, <2>10
<1>6. QED BY <1>4, <1>5

\* How parseNoParameters reads the parts of a header, together and one by one.
PartsRead(text, parts, n, results) ==
    /\ DOMAIN parts = 1..n /\ n \in Nat
    /\ DOMAIN results = 1..n /\ \A i \in 1..n : Weighty(results[i])
    /\ parseNoParameters(text) = Ranges(results) /\ RangeFrom(Ranges(results), results)
    /\ \A i \in 1..n : /\ parseNoParameters(parts[i]) = Ranges(<<results[i]>>)
                       /\ RangeFrom(Ranges(<<results[i]>>), results)

\* It reads every header a client can send in that way.
LEMMA PartsReadOne ==
    ASSUME NEW text \in Headers
    PROVE  LET parts == splitAndClean(text)
               n     == Len(parts)
           IN PartsRead(text, parts, n, [i \in 1..n |-> parseRange(parts[i])])
<1> DEFINE parts   == splitAndClean(text)
           n       == Len(parts)
           results == [i \in 1..n |-> parseRange(parts[i])]
<1>1. DOMAIN parts = 1..n /\ n \in Nat /\ \A i \in 1..n : splitAndClean(parts[i]) = <<parts[i]>>
  BY HeaderChars, PartsAlone
<1>2. parseNoParameters(text) = Ranges(results)
  <2>1. [i \in DOMAIN parts |-> parseRange(parts[i])] = results
    BY <1>1
  <2>2. QED BY <2>1 DEF parseNoParameters, Ranges
<1>3. \A i \in 1..n : parseNoParameters(parts[i]) = Ranges(<<results[i]>>)
  BY <1>1, PartAlone
<1> HIDE DEF parts, n
<1>4. DOMAIN results = 1..n /\ \A i \in 1..n : Weighty(results[i])
  BY RangeWeighty
<1> HIDE DEF results
<1>5. RangeFrom(Ranges(results), results)
  <2> DEFINE values == [i \in DOMAIN results |-> results[i].value]
  <2>1. RangesSorted(results, n)
    BY <1>1, <1>4, RangesRead
  <2>2. CASE Ranges(results) = Refused
    BY <2>2, Outcome DEF RangeFrom
  <2>3. CASE Ranges(results) # Refused
    <3>1. Ranges(results) = Parsed(ValuesSorted(results)) /\ \E order : SortedBy(values, n, order)
      BY <2>1, <2>3 DEF RangesSorted
    <3>2. PICK order : SortedBy(values, n, order)
      BY <3>1
    <3>3. Ranges(results).value = [k \in 1..n |-> values[order[k]]]
      BY <3>1, <3>2, Outcome DEF SortedBy, ValuesSorted
    <3>4. \A k \in 1..n : order[k] \in 1..n
      BY <3>2 DEF SortedBy, Bijection, Surjection
    <3>5. QED BY <1>4, <3>3, <3>4 DEF RangeFrom, RangeSet
  <2>4. QED BY <2>2, <2>3
<1>6. ASSUME NEW i \in 1..n PROVE RangeFrom(Ranges(<<results[i]>>), results)
  <2>1. CASE results[i].refused
    <3>1. Ranges(<<results[i]>>) = Refused
      BY <1>4, <2>1, RangeAlone
    <3>2. QED BY <3>1, Outcome DEF RangeFrom
  <2>2. CASE ~results[i].refused
    <3>1. Ranges(<<results[i]>>) = Parsed(<<results[i].value>>)
      BY <1>4, <2>2, RangeAlone
    <3>2. Ranges(<<results[i]>>).value = <<results[i].value>>
      BY <3>1, Outcome
    <3>3. QED BY <1>4, <3>2 DEF RangeFrom, RangeSet
  <2>3. QED BY <2>1, <2>2
<1>7. PartsRead(text, parts, n, results)
  BY <1>1, <1>2, <1>3, <1>4, <1>5, <1>6 DEF PartsRead
<1>8. QED BY <1>7 DEF parts, n, results

\* parseAcceptEncoding reads a header as it reads its elements one by one.
LEMMA EncodingTold ==
    ASSUME NEW text \in Headers
    PROVE  parseAcceptEncoding(text) = EncodingsMeant(text)
<1> DEFINE parts   == splitAndClean(text)
           n       == Len(parts)
           results == [i \in 1..n |-> parseRange(parts[i])]
           good    == {r \in RangeSet(results) : IsToken(r)}
           alone   == [i \in 1..n |-> parseAcceptEncoding(parts[i])]
<1>1. PartsRead(text, parts, n, results)
  BY PartsReadOne
<1>2. ASSUME NEW all, RangeFrom(all, results)
      PROVE  (\A k \in DOMAIN all.value : IsToken(all.value[k].range))
                <=> \A k \in DOMAIN all.value : all.value[k].range \in good
  BY <1>2 DEF RangeFrom
<1>3. EncodingsMeant(text) = OneByOne(alone)
  BY <1>1 DEF EncodingsMeant, OneByOne, PartsRead
<1>4. parseAcceptEncoding(text) =
         IF \A k \in DOMAIN Ranges(results).value : IsToken(Ranges(results).value[k].range)
         THEN Ranges(results) ELSE Refused
  BY <1>1 DEF parseAcceptEncoding, PartsRead
<1>5. \A i \in 1..n : alone[i] =
         IF \A k \in DOMAIN Ranges(<<results[i]>>).value :
               IsToken(Ranges(<<results[i]>>).value[k].range)
         THEN Ranges(<<results[i]>>) ELSE Refused
  BY <1>1 DEF parseAcceptEncoding, PartsRead
<1>6. DOMAIN alone = 1..n
  OBVIOUS
<1> HIDE DEF parts, n, results, good, alone
<1>7. parseAcceptEncoding(text) = Chosen(Ranges(results), good)
  BY <1>1, <1>2, <1>4 DEF Chosen, PartsRead
<1>8. \A i \in 1..n : alone[i] = Chosen(Ranges(<<results[i]>>), good)
  BY <1>1, <1>2, <1>5 DEF Chosen, PartsRead
<1>9. Chosen(Ranges(results), good) = OneByOne(alone)
  BY <1>1, <1>6, <1>8, ChosenTold DEF PartsRead
<1>10. QED BY <1>3, <1>7, <1>9

\* parseAcceptLanguage reads a header as it reads its elements one by one.
LEMMA LanguageTold ==
    ASSUME NEW text \in Headers
    PROVE  parseAcceptLanguage(text) = LanguagesMeant(text)
<1> DEFINE parts   == splitAndClean(text)
           n       == Len(parts)
           results == [i \in 1..n |-> parseRange(parts[i])]
           good    == {r \in RangeSet(results) : IsLanguageRange(r)}
           alone   == [i \in 1..n |-> parseAcceptLanguage(parts[i])]
<1>1. PartsRead(text, parts, n, results)
  BY PartsReadOne
<1>2. ASSUME NEW all, RangeFrom(all, results)
      PROVE  (\A k \in DOMAIN all.value : IsLanguageRange(all.value[k].range))
                <=> \A k \in DOMAIN all.value : all.value[k].range \in good
  BY <1>2 DEF RangeFrom
<1>3. LanguagesMeant(text) = OneByOne(alone)
  BY <1>1 DEF LanguagesMeant, OneByOne, PartsRead
<1>4. parseAcceptLanguage(text) =
         IF \A k \in DOMAIN Ranges(results).value : IsLanguageRange(Ranges(results).value[k].range)
         THEN Ranges(results) ELSE Refused
  BY <1>1 DEF parseAcceptLanguage, PartsRead
<1>5. \A i \in 1..n : alone[i] =
         IF \A k \in DOMAIN Ranges(<<results[i]>>).value :
               IsLanguageRange(Ranges(<<results[i]>>).value[k].range)
         THEN Ranges(<<results[i]>>) ELSE Refused
  BY <1>1 DEF parseAcceptLanguage, PartsRead
<1>6. DOMAIN alone = 1..n
  OBVIOUS
<1> HIDE DEF parts, n, results, good, alone
<1>7. parseAcceptLanguage(text) = Chosen(Ranges(results), good)
  BY <1>1, <1>2, <1>4 DEF Chosen, PartsRead
<1>8. \A i \in 1..n : alone[i] = Chosen(Ranges(<<results[i]>>), good)
  BY <1>1, <1>2, <1>5 DEF Chosen, PartsRead
<1>9. Chosen(Ranges(results), good) = OneByOne(alone)
  BY <1>1, <1>6, <1>8, ChosenTold DEF PartsRead
<1>10. QED BY <1>3, <1>7, <1>9

\* parseAcceptCharset reads a header as it reads its elements one by one.
LEMMA CharsetTold ==
    ASSUME NEW text \in Headers
    PROVE  parseAcceptCharset(text) = CharsetsMeant(text)
<1> DEFINE parts   == splitAndClean(text)
           n       == Len(parts)
           results == [i \in 1..n |-> parseRange(parts[i])]
           good    == {r \in RangeSet(results) : IsToken(r)}
           alone   == [i \in 1..n |-> parseAcceptCharset(parts[i])]
<1>1. PartsRead(text, parts, n, results)
  BY PartsReadOne
<1>2. ASSUME NEW all, RangeFrom(all, results)
      PROVE  (\A k \in DOMAIN all.value : IsToken(all.value[k].range))
                <=> \A k \in DOMAIN all.value : all.value[k].range \in good
  BY <1>2 DEF RangeFrom
<1>3. CharsetsMeant(text) = OneByOne(alone)
  BY <1>1 DEF CharsetsMeant, OneByOne, PartsRead
<1>4. parseAcceptCharset(text) =
         IF \A k \in DOMAIN Ranges(results).value : IsToken(Ranges(results).value[k].range)
         THEN Ranges(results) ELSE Refused
  BY <1>1 DEF parseAcceptCharset, PartsRead
<1>5. \A i \in 1..n : alone[i] =
         IF \A k \in DOMAIN Ranges(<<results[i]>>).value :
               IsToken(Ranges(<<results[i]>>).value[k].range)
         THEN Ranges(<<results[i]>>) ELSE Refused
  BY <1>1 DEF parseAcceptCharset, PartsRead
<1>6. DOMAIN alone = 1..n
  OBVIOUS
<1> HIDE DEF parts, n, results, good, alone
<1>7. parseAcceptCharset(text) = Chosen(Ranges(results), good)
  BY <1>1, <1>2, <1>4 DEF Chosen, PartsRead
<1>8. \A i \in 1..n : alone[i] = Chosen(Ranges(<<results[i]>>), good)
  BY <1>1, <1>2, <1>5 DEF Chosen, PartsRead
<1>9. Chosen(Ranges(results), good) = OneByOne(alone)
  BY <1>1, <1>6, <1>8, ChosenTold DEF PartsRead
<1>10. QED BY <1>3, <1>7, <1>9

---------------------------------------------------------------------------
(* What a handler reads.                                                   *)

\* What a handler has read of its request is what HeaderUtil makes of the headers.
ReadInv ==
    handler # 0 /\ stage \in {"handled", "refused"} => read = ReadAll(request.headers)

\* At the start no handler has read anything.
LEMMA ReadInit == Init => ReadInv
BY DEF Init, ReadInv

\* Only ReadHeaders ends the request of a handler: the other errors come before there is one.
LEMMA ReadStep == RoutedInv /\ ReadInv /\ [Next]_vars => ReadInv'
<1> SUFFICES ASSUME RoutedInv, ReadInv, [Next]_vars PROVE ReadInv'
  OBVIOUS
<1>1. CASE UNCHANGED vars
  BY <1>1 DEF vars, ReadInv
<1>2. CASE Dispatch
  BY <1>2 DEF Dispatch, ReadInv
<1>3. CASE ExtractUrl
  BY <1>3 DEF ExtractUrl, RoutedInv, ReadInv
<1>4. CASE ParseBody
  BY <1>4 DEF ParseBody, RoutedInv, ReadInv
<1>5. CASE FindRoute
  BY <1>5 DEF FindRoute, Fail, RoutedInv, ReadInv
<1>6. CASE ExtractParameters
  BY <1>6 DEF ExtractParameters, ReadInv
<1>7. CASE ReadHeaders
  BY <1>7 DEF ReadHeaders, ReadInv
<1>8. QED BY <1>1, <1>2, <1>3, <1>4, <1>5, <1>6, <1>7 DEF Next

\* What the parsers make of the headers a client can send.
LEMMA HeadersTold ==
    ASSUME SomeRequest
    PROVE  LET h    == request.headers
               told == ReadAll(h)
           IN /\ Ordinary(h.accept) => told.accept = AcceptMeant(h.accept)
              /\ (\A i \in DOMAIN h.link : Ordinary(h.link[i])) => told.link = LinksMeant(h.link)
              /\ told.language = LanguagesMeant(h.preferences)
              /\ told.charset = CharsetsMeant(h.preferences)
              /\ told.encoding = EncodingsMeant(h.preferences)
<1> DEFINE h == request.headers
<1>1. h.accept \in Headers /\ h.preferences \in Headers /\ h.link \in Seq(Headers)
  BY RequestsAssumption DEF SomeRequest
<1>2. /\ ReadAll(h).accept = parseAccept(h.accept)
      /\ ReadAll(h).link = parseLinkHeader(h.link)
      /\ ReadAll(h).language = parseAcceptLanguage(h.preferences)
      /\ ReadAll(h).charset = parseAcceptCharset(h.preferences)
      /\ ReadAll(h).encoding = parseAcceptEncoding(h.preferences)
  BY DEF ReadAll
<1> HIDE DEF h
<1>3. Ordinary(h.accept) => parseAccept(h.accept) = AcceptMeant(h.accept)
  BY <1>1, AcceptTold
<1>4. (\A i \in DOMAIN h.link : Ordinary(h.link[i])) => parseLinkHeader(h.link) = LinksMeant(h.link)
  BY <1>1, LinksTold
<1>5. /\ parseAcceptLanguage(h.preferences) = LanguagesMeant(h.preferences)
      /\ parseAcceptCharset(h.preferences) = CharsetsMeant(h.preferences)
      /\ parseAcceptEncoding(h.preferences) = EncodingsMeant(h.preferences)
  BY <1>1, LanguageTold, CharsetTold, EncodingTold
<1>6. QED BY <1>2, <1>3, <1>4, <1>5 DEF h

\* Whatever the headers and their quoted strings, a handler reads in them what their
\* elements mean one by one (transformQuotedStrings, splitAndClean, parseAccept and its
\* siblings, parseLinkHeader).
THEOREM EntriesAlone == Spec => []EntriesStandAlone
<1>1. RoutedInv /\ ReadInv => EntriesStandAlone
  <2> SUFFICES ASSUME RoutedInv, ReadInv, handler # 0, stage \in {"handled", "refused"}
               PROVE  EntriesStandAlone
    BY DEF EntriesStandAlone
  <2>1. SomeRequest /\ read = ReadAll(request.headers)
    BY DEF RoutedInv, ReadInv
  <2>2. QED BY <2>1, HeadersTold DEF EntriesStandAlone
<1>2. Spec => []ReadInv
  BY ReadInit, ReadStep, RoutedInvariant, PTL DEF Spec
<1>3. QED BY <1>1, <1>2, RoutedInvariant, PTL
=============================================================================
