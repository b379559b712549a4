----------------------------- MODULE FoldLemmas -----------------------------
(***************************************************************************)
(* Induction over the numbers, and what it says of the folds of the        *)
(* community modules.  The induction theorems of the library take an       *)
(* operator as their parameter; here a statement is a set of numbers, and  *)
(* the induction is a smallest counterexample (WFMin).  FoldLeft unfolds   *)
(* to a function on the subsets of the places of a sequence, chosen by its *)
(* equation: FoldExists says that there is one.  FlattenSeq is such a      *)
(* function on numbers (FlattenRuns).                                      *)
(***************************************************************************)
EXTENDS SequencesExt, SequenceTheorems, WellFoundedInduction, TLAPS

\* A set of numbers that holds 0 and every successor holds them all.
LEMMA NatInduct ==
    ASSUME NEW P, 0 \in P, \A n \in Nat : n \in P => n + 1 \in P
    PROVE  Nat \subseteq P
<1>1. SUFFICES ASSUME Nat \ P # {} PROVE FALSE
  OBVIOUS
<1>2. PICK x \in Nat \ P : \A y \in Nat \ P : ~(<<y, x>> \in OpToRel(<, Nat))
  BY <1>1, NatLessThanWellFounded, WFMin
<1>3. x # 0 /\ x - 1 \in Nat /\ x - 1 < x
  OBVIOUS
<1>4. x - 1 \in P
  <2>1. <<x - 1, x>> \in OpToRel(<, Nat)
    BY <1>3 DEF OpToRel
  <2>2. QED BY <1>2, <1>3, <2>1
<1>5. QED BY <1>3, <1>4

\* The same up to a bound.
LEMMA UpTo ==
    ASSUME NEW n \in Nat, NEW P, 0 \in P, \A i \in 1..n : i - 1 \in P => i \in P
    PROVE  0..n \subseteq P
<1> DEFINE Q == {i \in Nat : i <= n => i \in P}
<1>1. 0 \in Q
  OBVIOUS
<1>2. \A i \in Nat : i \in Q => i + 1 \in Q
  <2>1. SUFFICES ASSUME NEW i \in Nat, i \in Q, i + 1 <= n PROVE i + 1 \in P
    OBVIOUS
  <2>2. i \in P /\ i + 1 \in 1..n /\ (i + 1) - 1 = i
    BY <2>1
  <2>3. QED BY <2>2
<1>3. Nat \subseteq Q
  <2> HIDE DEF Q
  <2> QED BY <1>1, <1>2, NatInduct
<1>4. QED BY <1>3

\* A set of numbers with a bound has a greatest one ...
LEMMA MaxExists ==
    ASSUME NEW n \in Nat
    PROVE  \A s \in SUBSET (1..n) : s # {} => \E x \in s : \A y \in s : x >= y
<1> DEFINE P == {k \in Nat : \A s \in SUBSET (1..k) : s # {} => \E x \in s : \A y \in s : x >= y}
<1>1. 0 \in P
  <2>1. \A s \in SUBSET (1..0) : s = {}
    OBVIOUS
  <2>2. QED BY <2>1
<1>2. \A k \in Nat : k \in P => k + 1 \in P
  <2>1. SUFFICES ASSUME NEW k \in Nat, k \in P, NEW s \in SUBSET (1..(k + 1)), s # {}
                 PROVE  \E x \in s : \A y \in s : x >= y
    OBVIOUS
  <2>2. CASE k + 1 \in s
    BY <2>1, <2>2
  <2>3. CASE k + 1 \notin s
    <3>1. s \in SUBSET (1..k)
      BY <2>1, <2>3
    <3>2. QED BY <2>1, <3>1
  <2>4. QED BY <2>2, <2>3
<1>3. Nat \subseteq P
  <2> HIDE DEF P
  <2> QED BY <1>1, <1>2, NatInduct
<1>4. QED BY <1>3

\* ... which is the one that Max chooses.
LEMMA MaxProperties ==
    ASSUME NEW n \in Nat, NEW s \in SUBSET (1..n), s # {}
    PROVE  /\ Max(s) \in s
           /\ \A y \in s : y <= Max(s)
           /\ s \ {Max(s)} \in SUBSET (1..n)
<1>1. \E x \in s : \A y \in s : x >= y
  BY MaxExists
<1>2. Max(s) \in s /\ \A y \in s : Max(s) >= y
  BY <1>1 DEF Max
<1>3. QED BY <1>2

\* Min chooses the smallest number of a set.
LEMMA MinProperties ==
    ASSUME NEW s \in SUBSET Nat, s # {}
    PROVE  Min(s) \in s /\ \A y \in s : Min(s) <= y
<1>1. PICK x \in s : \A y \in s : ~(<<y, x>> \in OpToRel(<, Nat))
  BY NatLessThanWellFounded, WFMin
<1>2. \A y \in s : x <= y
  <2>1. ASSUME NEW y \in s, y < x PROVE FALSE
    <3>1. <<y, x>> \in OpToRel(<, Nat)
      BY <2>1 DEF OpToRel
    <3>2. QED BY <1>1, <3>1
  <2>2. QED BY <2>1
<1>3. QED BY <1>2 DEF Min

\* The greatest number up to a bound is the bound.
LEMMA MaxUpTo ==
    ASSUME NEW i \in Nat \ {0}
    PROVE  1..i # {} /\ Max(1..i) = i /\ (1..i) \ {i} = 1..(i - 1)
<1>1. 1..i \in SUBSET (1..i) /\ i \in 1..i /\ 1..i # {}
  OBVIOUS
<1>2. Max(1..i) \in 1..i /\ i <= Max(1..i)
  BY <1>1, MaxProperties
<1>3. QED BY <1>1, <1>2

\* What a fold to the left of n elements has made of each set of places.
FoldIter(n, base, step, seq, iter) ==
    iter = [s \in SUBSET (1..n) |->
               IF s = {} THEN base ELSE step[<<iter[s \ {Max(s)}], seq[Max(s)]>>]]

\* There is such a function, and it has a type.
LEMMA FoldExists ==
    ASSUME NEW V, NEW E, NEW base \in V, NEW step \in [V \X E -> V],
           NEW n \in Nat, NEW seq \in [1..n -> E]
    PROVE  \E iter \in [SUBSET (1..n) -> V] : FoldIter(n, base, step, seq, iter)
<1> DEFINE Has(k) == \E iter \in [SUBSET (1..k) -> V] : FoldIter(k, base, step, seq, iter)
<1>1. Has(0)
  <2>1. 1..0 = {} /\ SUBSET (1..0) = {{}}
    OBVIOUS
  <2> DEFINE it == [s \in {{}} |-> base]
  <2>2. it \in [SUBSET (1..0) -> V] /\ FoldIter(0, base, step, seq, it)
    BY <2>1 DEF FoldIter
  <2>3. QED BY <2>2
<1>2. ASSUME NEW k \in Nat, Has(k), k + 1 <= n
      PROVE  Has(k + 1)
  <2>2. PICK it \in [SUBSET (1..k) -> V] : FoldIter(k, base, step, seq, it)
    BY <1>2
  <2> DEFINE next == [s \in SUBSET (1..(k + 1)) |->
                         IF s = {} THEN base ELSE step[<<it[s \ {Max(s)}], seq[Max(s)]>>]]
  <2>3. ASSUME NEW s \in SUBSET (1..(k + 1)), s # {}
        PROVE  s \ {Max(s)} \in SUBSET (1..k) /\ Max(s) \in 1..n
    <3>1. Max(s) \in s /\ \A y \in s : y <= Max(s)
      <4>1. k + 1 \in Nat
        OBVIOUS
      <4> HIDE DEF next
      <4>2. QED BY <2>3, <4>1, MaxProperties
    <3>2. \A y \in s \ {Max(s)} : y \in 1..k
      <4>1. \A y \in s \ {Max(s)} : y \in 1..(k + 1) /\ y <= Max(s) /\ Max(s) \in 1..(k + 1) /\ y # Max(s)
        BY <3>1
      <4>2. QED BY <4>1
    <3>3. s \ {Max(s)} \in SUBSET (1..k)
      BY <3>2
    <3>4. Max(s) \in 1..(k + 1)
      BY <3>1
    <3>5. Max(s) \in 1..n
      <4> HIDE DEF Has, next
      <4>1. k + 1 <= n
        BY <1>2
      <4>2. QED BY <3>4, <4>1
    <3>6. QED BY <3>3, <3>5
  <2>4. next \in [SUBSET (1..(k + 1)) -> V]
    BY <2>3
  <2>5. ASSUME NEW s \in SUBSET (1..k) PROVE next[s] = it[s]
    <3>1. s \in SUBSET (1..(k + 1))
      OBVIOUS
    <3>2. it[s] = IF s = {} THEN base ELSE step[<<it[s \ {Max(s)}], seq[Max(s)]>>]
      BY <2>2 DEF FoldIter
    <3>3. QED BY <3>1, <3>2
  <2>6. \A s \in SUBSET (1..(k + 1)) :
           next[s] = IF s = {} THEN base ELSE step[<<next[s \ {Max(s)}], seq[Max(s)]>>]
    BY <2>3, <2>5
  <2>7. FoldIter(k + 1, base, step, seq, next)
    BY <2>4, <2>6 DEF FoldIter
  <2>8. QED BY <2>4, <2>7
<1>3. Has(n)
  <2> DEFINE P == {k \in Nat : k <= n => Has(k)}
  <2> HIDE DEF Has
  <2>1. 0 \in P
    BY <1>1
  <2>2. \A k \in Nat : k \in P => k + 1 \in P
    BY <1>2
  <2>3. Nat \subseteq P
    <3> HIDE DEF P
    <3> QED BY <2>1, <2>2, NatInduct
  <2>4. QED BY <2>3
<1>4. QED BY <1>3

---------------------------------------------------------------------------
(* FlattenSeq puts sequences together.                                     *)

\* What a function defined by a step on numbers, as the folds and FlattenSeq are, has after each.
StepRun(run, V, n, base, step, seq) ==
    /\ run \in [0..n -> V]
    /\ run[0] = base
    /\ \A i \in 1..n : run[i] = step[<<run[i - 1], seq[i]>>]

\* There is such a run.
LEMMA RunExists ==
    ASSUME NEW V, NEW E, NEW base \in V, NEW step \in [V \X E -> V],
           NEW n \in Nat, NEW seq \in [1..n -> E]
    PROVE  \E run : StepRun(run, V, n, base, step, seq)
<1>1. PICK iter \in [SUBSET (1..n) -> V] : FoldIter(n, base, step, seq, iter)
  BY FoldExists
<1> DEFINE run == [i \in 0..n |-> iter[1..i]]
<1>2. run \in [0..n -> V]
  <2>1. \A i \in 0..n : 1..i \in SUBSET (1..n)
    OBVIOUS
  <2>2. QED BY <1>1, <2>1
<1>3. run[0] = base
  <2>1. 1..0 = {} /\ {} \in SUBSET (1..n) /\ 0 \in 0..n
    OBVIOUS
  <2>2. iter[{}] = base
    BY <1>1, <2>1 DEF FoldIter
  <2>3. QED BY <2>1, <2>2
<1>4. ASSUME NEW i \in 1..n PROVE run[i] = step[<<run[i - 1], seq[i]>>]
  <2>1. i \in Nat \ {0} /\ 1..i \in SUBSET (1..n) /\ i \in 0..n /\ i - 1 \in 0..n
    OBVIOUS
  <2>2. 1..i # {} /\ Max(1..i) = i /\ (1..i) \ {i} = 1..(i - 1)
    BY <2>1, MaxUpTo
  <2>3. \A s \in SUBSET (1..n) : s # {} => iter[s] = step[<<iter[s \ {Max(s)}], seq[Max(s)]>>]
    BY <1>1 DEF FoldIter
  <2>4. iter[1..i] = step[<<iter[1..(i - 1)], seq[i]>>]
    BY <2>1, <2>2, <2>3
  <2>5. QED BY <2>1, <2>4
<1>5. StepRun(run, V, n, base, step, seq)
  BY <1>2, <1>3, <1>4 DEF StepRun
<1>6. QED BY <1>5

\* The texts of a sequence one behind the other, after each of them.
FlattenRun(run, S, seqs) ==
    /\ run \in [0..Len(seqs) -> Seq(S)]
    /\ run[0] = <<>>
    /\ \A i \in 1..Len(seqs) : run[i] = run[i - 1] \o seqs[i]

\* The function FlattenSeq is defined by.
FlattenFcn(seqs, f) == f = [i \in 1..Len(seqs) |-> IF i = 1 THEN seqs[i] ELSE f[i - 1] \o seqs[i]]

\* FlattenSeq is such a run.
LEMMA FlattenRuns ==
    ASSUME NEW S, NEW seqs \in Seq(Seq(S))
    PROVE  \E run : FlattenRun(run, S, seqs) /\ FlattenSeq(seqs) = run[Len(seqs)]
<1> DEFINE n    == Len(seqs)
           V    == Seq(S)
           step == [x \in V \X V |-> x[1] \o x[2]]
<1>1. n \in Nat /\ DOMAIN seqs = 1..n /\ seqs \in [1..n -> V] /\ \A i \in 1..n : seqs[i] \in V
  BY LenProperties
<1>2. <<>> \in V /\ step \in [V \X V -> V]
  OBVIOUS
<1>3. PICK run : StepRun(run, V, n, <<>>, step, seqs)
  <2> HIDE DEF n, V, step
  <2> QED BY <1>1, <1>2, RunExists
<1>4. /\ run \in [0..n -> V]
      /\ run[0] = <<>>
      /\ \A i \in 1..n : run[i] = step[<<run[i - 1], seqs[i]>>]
  BY <1>3 DEF StepRun
<1>5. \A i \in 1..n : run[i - 1] \in V /\ run[i] \in V /\ run[i] = run[i - 1] \o seqs[i]
  <2> SUFFICES ASSUME NEW i \in 1..n
               PROVE  run[i - 1] \in V /\ run[i] \in V /\ run[i] = run[i - 1] \o seqs[i]
    OBVIOUS
  <2>1. i \in 0..n /\ i - 1 \in 0..n
    BY <1>1
  <2> HIDE DEF n, V
  <2>2. run[i - 1] \in V /\ seqs[i] \in V /\ run[i] \in V
    BY <1>1, <1>4, <2>1
  <2>3. <<run[i - 1], seqs[i]>> \in V \X V
    BY <2>2
  <2>4. step[<<run[i - 1], seqs[i]>>] = run[i - 1] \o seqs[i]
    BY <2>3
  <2>5. QED BY <1>4, <2>2, <2>4
<1>6. FlattenRun(run, S, seqs)
  BY <1>4, <1>5 DEF FlattenRun
<1> HIDE DEF step
<1>7. CASE n = 0
  <2>1. seqs = <<>>
    BY <1>1, <1>7, EmptySeq
  <2>2. FlattenSeq(seqs) = seqs
    BY <1>7 DEF FlattenSeq
  <2>3. run[n] = <<>>
    BY <1>4, <1>7
  <2>4. QED BY <1>6, <2>1, <2>2, <2>3
<1>8. CASE n # 0
  <2> DEFINE g == [i \in 1..n |-> run[i]]
  <2>1. FlattenFcn(seqs, g)
    <3>1. ASSUME NEW i \in 1..n
          PROVE  run[i] = IF i = 1 THEN seqs[i] ELSE g[i - 1] \o seqs[i]
      <4>1. CASE i = 1
        <5>1. run[i - 1] = <<>> /\ seqs[i] \in V
          BY <1>1, <1>4, <4>1
        <5>2. <<>> \o seqs[i] = seqs[i]
          BY <5>1
        <5>3. QED BY <1>5, <4>1, <5>1, <5>2
      <4>2. CASE i # 1
        <5>1. i - 1 \in 1..n
          BY <1>1, <4>2
        <5>2. g[i - 1] = run[i - 1]
          <6> HIDE DEF n
          <6> QED BY <5>1
        <5>3. QED BY <1>5, <4>2, <5>2
      <4>3. QED BY <4>1, <4>2
    <3>2. g = [i \in 1..n |-> IF i = 1 THEN seqs[i] ELSE g[i - 1] \o seqs[i]]
      BY <3>1
    <3>3. QED BY <3>2 DEF FlattenFcn
  <2>2. FlattenSeq(seqs) = (CHOOSE f : FlattenFcn(seqs, f))[n]
    BY <1>8 DEF FlattenSeq, FlattenFcn
  <2> DEFINE f == CHOOSE f : FlattenFcn(seqs, f)
  <2>3. FlattenFcn(seqs, f)
    <3> HIDE DEF g
    <3> QED BY <2>1
  <2>4. FlattenSeq(seqs) = f[n]
    BY <2>2
  <2> HIDE DEF f, g
  <2>5. \A i \in 1..n : f[i] = IF i = 1 THEN seqs[i] ELSE f[i - 1] \o seqs[i]
    BY <2>3 DEF FlattenFcn
  <2> DEFINE P == {i \in 0..n : i # 0 => f[i] = run[i]}
  <2>6. 0 \in P
    BY <1>1
  <2>7. \A i \in 1..n : i - 1 \in P => i \in P
    <3> SUFFICES ASSUME NEW i \in 1..n, i - 1 # 0 => f[i - 1] = run[i - 1]
                 PROVE  i \in 0..n /\ f[i] = run[i]
      OBVIOUS
    <3>1. CASE i = 1
      <4>1. run[i - 1] = <<>> /\ seqs[i] \in V
        BY <1>1, <1>4, <3>1
      <4>2. <<>> \o seqs[i] = seqs[i]
        BY <4>1
      <4>3. i \in 0..n
        BY <1>1
      <4>4. f[i] = seqs[i] /\ run[i] = run[i - 1] \o seqs[i]
        BY <1>5, <2>5, <3>1
      <4>5. QED BY <4>1, <4>2, <4>3, <4>4
    <3>2. CASE i # 1
      <4>1. i - 1 # 0 /\ i \in 0..n
        BY <1>1, <3>2
      <4> HIDE DEF n, V
      <4>2. QED BY <1>5, <2>5, <3>2, <4>1
    <3>3. QED BY <3>1, <3>2
  <2>8. 0..n \subseteq P
    <3> HIDE DEF P, n
    <3> QED BY <1>1, <2>6, <2>7, UpTo
  <2>9. f[n] = run[n]
    <3>1. n \in P
      <4>1. n \in 0..n
        BY <1>1
      <4> HIDE DEF P, n
      <4>2. QED BY <2>8, <4>1
    <3>2. QED BY <1>8, <3>1
  <2>10. QED BY <1>6, <2>4, <2>9
<1>9. QED BY <1>7, <1>8

\* more goes on where seqs, of length n, ends.
GoesOn(n, seqs, more) == n = Len(seqs) /\ n <= Len(more) /\ \A i \in 1..n : more[i] = seqs[i]

\* Two runs over the same texts are one.
LEMMA FlattenOne ==
    ASSUME NEW S, NEW seqs \in Seq(Seq(S)), NEW more \in Seq(Seq(S)), NEW n \in Nat,
           GoesOn(n, seqs, more),
           NEW run, FlattenRun(run, S, seqs), NEW run2, FlattenRun(run2, S, more)
    PROVE  run2[n] = run[n]
<1> DEFINE P == {i \in 0..n : run2[i] = run[i]}
<1>1. n = Len(seqs) /\ n <= Len(more) /\ \A i \in 1..n : more[i] = seqs[i]
  BY DEF GoesOn
<1>2. Len(more) \in Nat /\ \A i \in 1..n : i \in 1..Len(more)
  BY <1>1
<1>3. 0 \in P
  BY DEF FlattenRun
<1>4. \A i \in 1..n : i - 1 \in P => i \in P
  <2> SUFFICES ASSUME NEW i \in 1..n, run2[i - 1] = run[i - 1] PROVE i \in 0..n /\ run2[i] = run[i]
    OBVIOUS
  <2>1. run2[i] = run2[i - 1] \o more[i]
    BY <1>2 DEF FlattenRun
  <2>2. run[i] = run[i - 1] \o seqs[i]
    BY <1>1 DEF FlattenRun
  <2>3. i \in 0..n
    OBVIOUS
  <2>4. QED BY <1>1, <2>1, <2>2, <2>3
<1>5. 0..n \subseteq P
  <2> HIDE DEF P
  <2> QED BY <1>3, <1>4, UpTo
<1>6. QED BY <1>5

\* Sequences over S are put together to one over S.
LEMMA FlattenType ==
    ASSUME NEW S, NEW seqs \in Seq(Seq(S))
    PROVE  FlattenSeq(seqs) \in Seq(S)
<1>1. PICK run : FlattenRun(run, S, seqs) /\ FlattenSeq(seqs) = run[Len(seqs)]
  BY FlattenRuns
<1>2. Len(seqs) \in 0..Len(seqs)
  BY LenProperties
<1>3. QED BY <1>1, <1>2 DEF FlattenRun

\* Nothing flattens to nothing.
LEMMA FlattenEmpty == FlattenSeq(<<>>) = <<>>
BY DEF FlattenSeq

\* One more sequence is put behind the others.
LEMMA FlattenAppend ==
    ASSUME NEW S, NEW seqs \in Seq(Seq(S)), NEW seq \in Seq(S)
    PROVE  FlattenSeq(Append(seqs, seq)) = FlattenSeq(seqs) \o seq
<1> DEFINE more == Append(seqs, seq)
           n    == Len(seqs)
           V    == Seq(S)
<1>1. more \in Seq(V) /\ Len(more) = n + 1 /\ n \in Nat
      /\ (\A i \in 1..n : more[i] = seqs[i]) /\ more[n + 1] = seq
  <2> HIDE DEF V
  <2>1. seqs \in Seq(V) /\ seq \in V
    BY DEF V
  <2>2. QED BY <2>1, AppendProperties, LenProperties
<1>2. PICK run : FlattenRun(run, S, seqs) /\ FlattenSeq(seqs) = run[n]
  BY FlattenRuns
<1> HIDE DEF more
<1>3. PICK run2 : FlattenRun(run2, S, more) /\ FlattenSeq(more) = run2[Len(more)]
  BY <1>1, FlattenRuns
<1>4. run2[n] = run[n]
  <2>1. GoesOn(n, seqs, more) /\ more \in Seq(Seq(S)) /\ n \in Nat
    BY <1>1 DEF GoesOn
  <2> HIDE DEF n, V
  <2>2. QED BY <1>2, <1>3, <2>1, FlattenOne
<1>5. run2[n + 1] = run2[n] \o seq
  <2>1. n + 1 \in 1..Len(more) /\ (n + 1) - 1 = n
    BY <1>1
  <2>2. run2[n + 1] = run2[(n + 1) - 1] \o more[n + 1]
    BY <1>3, <2>1 DEF FlattenRun
  <2>3. QED BY <1>1, <2>1, <2>2
<1>6. QED BY <1>1, <1>2, <1>3, <1>4, <1>5 DEF more

\* An element of a sequence.
Occurs(t, x) == \E i \in 1..Len(t) : t[i] = x

\* What occurs in two sequences put together occurs in one of them.
LEMMA OccursConcat ==
    ASSUME NEW S, NEW s \in Seq(S), NEW t \in Seq(S), NEW x
    PROVE  Occurs(s \o t, x) <=> Occurs(s, x) \/ Occurs(t, x)
<1>1. /\ Len(s \o t) = Len(s) + Len(t)
      /\ Len(s) \in Nat /\ Len(t) \in Nat
      /\ \A j \in 1..(Len(s) + Len(t)) :
            (s \o t)[j] = IF j <= Len(s) THEN s[j] ELSE t[j - Len(s)]
  BY ConcatProperties
<1>2. ASSUME NEW j \in 1..Len(t), t[j] = x PROVE Occurs(s \o t, x)
  <2>1. Len(s) + j \in 1..(Len(s) + Len(t)) /\ ~(Len(s) + j <= Len(s)) /\ (Len(s) + j) - Len(s) = j
    BY <1>1
  <2>2. (s \o t)[Len(s) + j] = t[j]
    BY <1>1, <2>1
  <2>3. QED BY <1>1, <1>2, <2>1, <2>2 DEF Occurs
<1>3. ASSUME NEW j \in 1..Len(s), s[j] = x PROVE Occurs(s \o t, x)
  <2>1. j \in 1..(Len(s) + Len(t)) /\ (s \o t)[j] = s[j]
    BY <1>1
  <2>2. QED BY <1>1, <1>3, <2>1 DEF Occurs
<1>4. ASSUME NEW j \in 1..(Len(s) + Len(t)), (s \o t)[j] = x PROVE Occurs(s, x) \/ Occurs(t, x)
  <2>1. CASE j <= Len(s)
    <3>1. j \in 1..Len(s) /\ s[j] = x
      BY <1>1, <1>4, <2>1
    <3>2. QED BY <3>1 DEF Occurs
  <2>2. CASE ~(j <= Len(s))
    <3>1. j - Len(s) \in 1..Len(t) /\ t[j - Len(s)] = x
      BY <1>1, <1>4, <2>2
    <3>2. QED BY <3>1 DEF Occurs
  <2>3. QED BY <2>1, <2>2
<1>5. (Occurs(s, x) => Occurs(s \o t, x)) /\ (Occurs(t, x) => Occurs(s \o t, x))
  BY <1>2, <1>3 DEF Occurs
<1>6. Occurs(s \o t, x) => Occurs(s, x) \/ Occurs(t, x)
  <2>1. SUFFICES ASSUME Occurs(s \o t, x) PROVE Occurs(s, x) \/ Occurs(t, x)
    OBVIOUS
  <2>2. PICK j \in 1..(Len(s) + Len(t)) : (s \o t)[j] = x
    BY <1>1, <2>1 DEF Occurs
  <2>3. QED BY <1>4, <2>2
<1>7. QED BY <1>5, <1>6

\* What is in the flattened sequence is in one of the sequences, and the other way around.
LEMMA FlattenOccurs ==
    ASSUME NEW S, NEW seqs \in Seq(Seq(S)), NEW x
    PROVE  Occurs(FlattenSeq(seqs), x) <=> \E k \in 1..Len(seqs) : Occurs(seqs[k], x)
<1> DEFINE n == Len(seqs)
<1>1. n \in Nat /\ DOMAIN seqs = 1..n /\ \A i \in 1..n : seqs[i] \in Seq(S)
  BY LenProperties
<1>2. PICK run : FlattenRun(run, S, seqs) /\ FlattenSeq(seqs) = run[n]
  BY FlattenRuns
<1>3. /\ run[0] = <<>>
      /\ \A i \in 0..n : run[i] \in Seq(S)
      /\ \A i \in 1..n : run[i] = run[i - 1] \o seqs[i]
  BY <1>2 DEF FlattenRun
<1> HIDE DEF n
<1> DEFINE P == {i \in 0..n : Occurs(run[i], x) <=> \E k \in 1..i : Occurs(seqs[k], x)}
<1>4. 0 \in P
  <2>1. 0 \in 0..n /\ 1..0 = {} /\ Len(<<>>) = 0
    BY <1>1
  <2>2. ~Occurs(<<>>, x)
    BY <2>1 DEF Occurs
  <2>3. QED BY <1>3, <2>1, <2>2
<1>5. \A i \in 1..n : i - 1 \in P => i \in P
  <2> SUFFICES ASSUME NEW i \in 1..n, Occurs(run[i - 1], x) <=> \E k \in 1..(i - 1) : Occurs(seqs[k], x)
               PROVE  i \in 0..n /\ (Occurs(run[i], x) <=> \E k \in 1..i : Occurs(seqs[k], x))
    OBVIOUS
  <2>1. i \in 0..n /\ i - 1 \in 0..n
    BY <1>1
  <2>2. run[i] = run[i - 1] \o seqs[i] /\ run[i - 1] \in Seq(S) /\ seqs[i] \in Seq(S)
    BY <1>1, <1>3, <2>1
  <2>3. Occurs(run[i], x) <=> Occurs(run[i - 1], x) \/ Occurs(seqs[i], x)
    BY <2>2, OccursConcat
  <2>4. 1..i = (1..(i - 1)) \cup {i}
    BY <1>1
  <2>5. QED BY <2>1, <2>3, <2>4
<1>6. 0..n \subseteq P
  <2> HIDE DEF P
  <2> QED BY <1>1, <1>4, <1>5, UpTo
<1>7. Occurs(run[n], x) <=> \E k \in 1..n : Occurs(seqs[k], x)
  BY <1>1, <1>6
<1>8. QED BY <1>2, <1>7 DEF n

---------------------------------------------------------------------------
(* Sequences, element by element.                                          *)

\* A set of sequences that holds the empty one, and what one more element makes of each, holds all.
LEMMA SeqInduct ==
    ASSUME NEW S, NEW P, <<>> \in P, \A t \in Seq(S) : t \in P => \A x \in S : Append(t, x) \in P
    PROVE  Seq(S) \subseteq P
<1> DEFINE Q == {n \in Nat : \A t \in Seq(S) : Len(t) = n => t \in P}
<1>1. 0 \in Q
  BY EmptySeq
<1>2. \A n \in Nat : n \in Q => n + 1 \in Q
  <2> SUFFICES ASSUME NEW n \in Nat, n \in Q, NEW t \in Seq(S), Len(t) = n + 1 PROVE t \in P
    OBVIOUS
  <2>1. t # <<>> /\ Len(t) \in 1..Len(t)
    BY EmptySeq
  <2> DEFINE front == SubSeq(t, 1, n)
             last  == t[n + 1]
  <2>2. front \in Seq(S) /\ Len(front) = n /\ last \in S
    OBVIOUS
  <2>3. t = Append(front, last)
    OBVIOUS
  <2>4. front \in P
    BY <2>2
  <2> HIDE DEF front, last
  <2>5. QED BY <2>2, <2>3, <2>4
<1>3. Nat \subseteq Q
  <2> HIDE DEF Q
  <2> QED BY <1>1, <1>2, NatInduct
<1>4. QED
  <2> SUFFICES ASSUME NEW t \in Seq(S) PROVE t \in P
    OBVIOUS
  <2>1. Len(t) \in Q
    BY <1>3
  <2>2. QED BY <2>1

\* The front and the last of what was appended.
LEMMA FrontLast ==
    ASSUME NEW S, NEW t \in Seq(S), NEW x \in S
    PROVE  Front(Append(t, x)) = t /\ Last(Append(t, x)) = x
BY DEF Front, Last

\* A text that is not empty has a front and a last element.
LEMMA AppendForm ==
    ASSUME NEW S, NEW t \in Seq(S), t # <<>>
    PROVE  Front(t) \in Seq(S) /\ Last(t) \in S /\ t = Append(Front(t), Last(t))
<1>1. Len(t) \in Nat \ {0}
  BY EmptySeq
<1>2. QED BY <1>1 DEF Front, Last

\* Appending to a sequence appends to what it ends.
LEMMA ConcatAppend ==
    ASSUME NEW S, NEW s \in Seq(S), NEW t \in Seq(S), NEW x \in S
    PROVE  s \o Append(t, x) = Append(s \o t, x)
OBVIOUS

\* A sequence over a set is one over a larger set.
LEMMA SeqWidens ==
    ASSUME NEW C, NEW D, C \subseteq D, NEW t \in Seq(C)
    PROVE  t \in Seq(D)
OBVIOUS

\* A sequence behind one element.
LEMMA BehindOne ==
    ASSUME NEW S, NEW x \in S, NEW t \in Seq(S)
    PROVE  /\ <<x>> \in Seq(S) /\ <<x>> \o t \in Seq(S)
           /\ Len(<<x>> \o t) = Len(t) + 1
           /\ \A i \in 1..Len(t) : (<<x>> \o t)[i + 1] = t[i]
<1> DEFINE one == <<x>>
<1>1. one \in Seq(S) /\ Len(one) = 1 /\ Len(t) \in Nat
  BY LenProperties
<1> HIDE DEF one
<1>2. /\ one \o t \in Seq(S)
      /\ Len(one \o t) = Len(one) + Len(t)
      /\ \A i \in 1..(Len(one) + Len(t)) : (one \o t)[i] = IF i <= Len(one) THEN one[i] ELSE t[i - Len(one)]
  BY <1>1, ConcatProperties
<1>3. ASSUME NEW i \in 1..Len(t) PROVE (one \o t)[i + 1] = t[i]
  <2>1. i + 1 \in 1..(Len(one) + Len(t)) /\ ~(i + 1 <= Len(one)) /\ (i + 1) - Len(one) = i
    BY <1>1
  <2>2. QED BY <1>2, <2>1
<1>4. QED BY <1>1, <1>2, <1>3 DEF one
=============================================================================
