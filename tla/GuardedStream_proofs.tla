------------------------ MODULE GuardedStream_proofs ------------------------
(* Proofs about GuardedStream for any sets of errors and listeners.  The       *)
(* inductive invariant is the conjunction of the safety invariants with two    *)
(* more facts.  Before guardStream has run, no error is held anywhere: without *)
(* it guardStream's first call, which empties guardedErrors, could lose one.   *)
(* The guarding listener is attached as long as the stream is guarded: without *)
(* it an emission could find the listener array of a guarded stream empty.     *)
EXTENDS GuardedStream, SequenceTheorems, TLAPS

(* Nothing is stored or pending before the stream is guarded.                  *)
UnguardedHoldsNothing ==
  /\ crashed => ~guarded
  /\ ~guarded => /\ guardedErrors = <<>> /\ immediates = <<>> /\ emitting = <<>>
                 /\ guardedTimeout = "unset"

(* No removal, once() or new guard leaves a guarded stream without the Guard;  *)
(* without a Guard every listener counts.                                      *)
GuardAttached ==
  /\ guarded <=> Guard \in listeners
  /\ Guard \notin listeners => counted = listeners

IInv == TypeOK /\ UnguardedHoldsNothing /\ GuardAttached /\ NothingLost /\ HeldOnce
        /\ TimerCoversStored

-----------------------------------------------------------------------------
(* What storing an error, taking the first of a batch, queueing a batch and    *)
(* starting one do to the elements of the sequences.                           *)
LEMMA AppendElems ==
  ASSUME NEW S, NEW s \in Seq(S), NEW e \in S
  PROVE  /\ Append(s, e) \in Seq(S) /\ Append(s, e) # <<>>
         /\ SeqElems(Append(s, e)) = SeqElems(s) \cup {e}
         /\ NoRepeats(s) /\ e \notin SeqElems(s) => NoRepeats(Append(s, e))
<1> DEFINE n == Len(s)
           r == Append(s, e)
<1>1. /\ r \in Seq(S) /\ r # <<>> /\ n \in Nat
      /\ DOMAIN s = 1..n /\ DOMAIN r = 1..(n + 1)
      /\ \A i \in 1..n : r[i] = s[i]
      /\ r[n + 1] = e
  BY AppendProperties, LenProperties
<1>2. 1..(n + 1) = 1..n \cup {n + 1}
  BY <1>1
<1> HIDE DEF n, r
<1>3. SeqElems(r) = SeqElems(s) \cup {e}
  <2>1. ASSUME NEW i \in DOMAIN s PROVE i \in DOMAIN r /\ r[i] = s[i]
    BY <1>1, <1>2
  <2>2. ASSUME NEW i \in DOMAIN r PROVE r[i] = e \/ (i \in DOMAIN s /\ r[i] = s[i])
    BY <1>1, <1>2
  <2>3. n + 1 \in DOMAIN r
    BY <1>1
  <2> QED  BY <2>1, <2>2, <2>3, <1>1 DEF SeqElems
<1>4. NoRepeats(s) /\ e \notin SeqElems(s) => NoRepeats(r)
  BY <1>1, <1>2 DEF NoRepeats, SeqElems
<1> QED  BY <1>1, <1>3, <1>4 DEF r

LEMMA TailElems ==
  ASSUME NEW S, NEW s \in Seq(S), s # <<>>
  PROVE  /\ Head(s) \in S /\ Tail(s) \in Seq(S)
         /\ SeqElems(s) = {Head(s)} \cup SeqElems(Tail(s))
         /\ NoRepeats(s) => NoRepeats(Tail(s)) /\ Head(s) \notin SeqElems(Tail(s))
<1> DEFINE n == Len(Tail(s))
<1>1. /\ Head(s) = s[1] /\ Head(s) \in S /\ Tail(s) \in Seq(S)
      /\ n \in Nat /\ Len(s) = n + 1
      /\ \A i \in 1..n : Tail(s)[i] = s[i + 1]
  BY HeadTailProperties, EmptySeq, LenProperties
<1>2. DOMAIN s = 1..(n + 1) /\ DOMAIN Tail(s) = 1..n
  BY <1>1, LenProperties
<1>3. \A i \in 1..n : i + 1 \in 1..(n + 1) /\ i + 1 # 1
  BY <1>1
<1>4. \A i \in 1..(n + 1) : i = 1 \/ (i - 1 \in 1..n /\ i = (i - 1) + 1)
  BY <1>1
<1> HIDE DEF n
<1>5. SeqElems(s) \subseteq {Head(s)} \cup SeqElems(Tail(s))
  <2> SUFFICES ASSUME NEW i \in 1..(n + 1)
               PROVE  s[i] \in {Head(s)} \cup SeqElems(Tail(s))
    BY <1>2 DEF SeqElems
  <2>1. CASE i = 1
    BY <2>1, <1>1
  <2>2. CASE i # 1
    <3>1. Tail(s)[i - 1] = s[i] /\ i - 1 \in 1..n
      BY <2>2, <1>1, <1>4
    <3> QED  BY <3>1, <1>2 DEF SeqElems
  <2> QED  BY <2>1, <2>2
<1>6. {Head(s)} \cup SeqElems(Tail(s)) \subseteq SeqElems(s)
  <2>1. 1 \in 1..(n + 1)
    BY <1>1
  <2>2. Head(s) \in SeqElems(s)
    BY <2>1, <1>1, <1>2 DEF SeqElems
  <2>3. ASSUME NEW i \in 1..n PROVE Tail(s)[i] \in SeqElems(s)
    BY <1>1, <1>2, <1>3 DEF SeqElems
  <2> QED  BY <2>2, <2>3, <1>2 DEF SeqElems
<1>7. ASSUME NoRepeats(s) PROVE Head(s) \notin SeqElems(Tail(s))
  <2>1. ASSUME NEW i \in 1..n, Tail(s)[i] = Head(s) PROVE FALSE
    <3>1. s[i + 1] = s[1] /\ i + 1 \in DOMAIN s /\ 1 \in DOMAIN s /\ i + 1 # 1
      BY <2>1, <1>1, <1>2, <1>3
    <3> QED  BY <3>1, <1>7 DEF NoRepeats
  <2> QED  BY <2>1, <1>2 DEF SeqElems
<1>8. ASSUME NoRepeats(s) PROVE NoRepeats(Tail(s))
  <2> SUFFICES ASSUME NEW i \in 1..n, NEW j \in 1..n, Tail(s)[i] = Tail(s)[j]
               PROVE  i = j
    BY <1>2 DEF NoRepeats
  <2>1. s[i + 1] = s[j + 1] /\ i + 1 \in DOMAIN s /\ j + 1 \in DOMAIN s
    BY <1>1, <1>2, <1>3
  <2>2. i + 1 = j + 1
    BY <2>1, <1>8 DEF NoRepeats
  <2> QED  BY <2>2
<1> QED  BY <1>1, <1>5, <1>6, <1>7, <1>8

LEMMA EmptyElems == /\ SeqElems(<<>>) = {} /\ BatchElems(<<>>) = {}
                    /\ NoRepeats(<<>>) /\ NoRepeatsIn(<<>>)
  BY DEF SeqElems, BatchElems, NoRepeats, NoRepeatsIn

LEMMA AppendBatch ==
  ASSUME NEW S, NEW q \in Seq(Seq(S)), NEW s \in Seq(S)
  PROVE  /\ Append(q, s) \in Seq(Seq(S))
         /\ BatchElems(Append(q, s)) = BatchElems(q) \cup SeqElems(s)
         /\ NoRepeatsIn(q) /\ NoRepeats(s) /\ BatchElems(q) \cap SeqElems(s) = {}
            => NoRepeatsIn(Append(q, s))
<1> DEFINE n == Len(q)
           r == Append(q, s)
<1>1. /\ r \in Seq(Seq(S)) /\ n \in Nat
      /\ DOMAIN q = 1..n /\ DOMAIN r = 1..(n + 1)
      /\ \A i \in 1..n : r[i] = q[i]
      /\ r[n + 1] = s
  BY AppendProperties, LenProperties
<1>2. 1..(n + 1) = 1..n \cup {n + 1} /\ n + 1 \notin 1..n
  BY <1>1
<1> HIDE DEF n, r
<1>3. BatchElems(r) = BatchElems(q) \cup SeqElems(s)
  <2>1. {SeqElems(r[b]) : b \in DOMAIN r}
          = {SeqElems(q[b]) : b \in DOMAIN q} \cup {SeqElems(s)}
    BY <1>1, <1>2, Zenon
  <2> QED  BY <2>1 DEF BatchElems
<1>4. ASSUME NEW b \in DOMAIN q PROVE SeqElems(q[b]) \subseteq BatchElems(q)
  BY DEF BatchElems
<1>5. ASSUME NoRepeatsIn(q), NoRepeats(s), BatchElems(q) \cap SeqElems(s) = {}
      PROVE  NoRepeatsIn(r)
  <2>1. ASSUME NEW b \in DOMAIN r PROVE NoRepeats(r[b])
    BY <1>1, <1>2, <1>5 DEF NoRepeatsIn
  <2>2. ASSUME NEW a \in DOMAIN r, NEW b \in DOMAIN r, a # b
        PROVE  SeqElems(r[a]) \cap SeqElems(r[b]) = {}
    <3>1. CASE a \in 1..n /\ b \in 1..n
      BY <3>1, <2>2, <1>1, <1>5 DEF NoRepeatsIn
    <3>2. CASE a = n + 1 /\ b \in 1..n
      BY <3>2, <1>1, <1>4, <1>5
    <3>3. CASE a \in 1..n /\ b = n + 1
      BY <3>3, <1>1, <1>4, <1>5
    <3> QED  BY <3>1, <3>2, <3>3, <2>2, <1>1, <1>2
  <2> QED  BY <2>1, <2>2 DEF NoRepeatsIn
<1> QED  BY <1>1, <1>3, <1>5 DEF r

LEMMA TailBatch ==
  ASSUME NEW S, NEW q \in Seq(Seq(S)), q # <<>>
  PROVE  /\ Head(q) \in Seq(S) /\ Tail(q) \in Seq(Seq(S))
         /\ BatchElems(q) = SeqElems(Head(q)) \cup BatchElems(Tail(q))
         /\ NoRepeatsIn(q) => /\ NoRepeats(Head(q)) /\ NoRepeatsIn(Tail(q))
                              /\ SeqElems(Head(q)) \cap BatchElems(Tail(q)) = {}
<1> DEFINE n == Len(Tail(q))
           t == Tail(q)
<1>1. /\ Head(q) = q[1] /\ Head(q) \in Seq(S) /\ t \in Seq(Seq(S))
      /\ n \in Nat /\ DOMAIN q = 1..(n + 1) /\ DOMAIN t = 1..n
      /\ \A i \in 1..n : t[i] = q[i + 1]
  BY HeadTailProperties, EmptySeq, LenProperties
<1>2. /\ 1 \in 1..(n + 1)
      /\ \A i \in 1..n : i + 1 \in 1..(n + 1) /\ i + 1 # 1
      /\ \A i, j \in 1..n : i # j => i + 1 # j + 1
      /\ \A i \in 1..(n + 1) : i = 1 \/ (i - 1 \in 1..n /\ i = (i - 1) + 1)
  BY <1>1
<1> HIDE DEF n, t
<1>3. BatchElems(q) = SeqElems(Head(q)) \cup BatchElems(t)
  <2>1. ASSUME NEW b \in DOMAIN t PROVE t[b] = q[b + 1] /\ b + 1 \in DOMAIN q
    BY <1>1, <1>2
  <2>2. ASSUME NEW b \in DOMAIN q, b # 1 PROVE q[b] = t[b - 1] /\ b - 1 \in DOMAIN t
    BY <2>2, <1>1, <1>2
  <2>3. ASSUME NEW e \in BatchElems(q) PROVE e \in SeqElems(Head(q)) \cup BatchElems(t)
    BY <2>2, <1>1 DEF BatchElems
  <2>4. ASSUME NEW e \in BatchElems(t) PROVE e \in BatchElems(q)
    BY <2>1 DEF BatchElems
  <2>5. SeqElems(Head(q)) \subseteq BatchElems(q)
    BY <1>1, <1>2 DEF BatchElems
  <2> QED  BY <2>3, <2>4, <2>5
<1>4. ASSUME NoRepeatsIn(q)
      PROVE  NoRepeats(Head(q)) /\ NoRepeatsIn(t) /\ SeqElems(Head(q)) \cap BatchElems(t) = {}
  <2>1. NoRepeats(Head(q))
    BY <1>1, <1>2, <1>4 DEF NoRepeatsIn
  <2>2. NoRepeatsIn(t)
    <3>1. ASSUME NEW b \in DOMAIN t PROVE NoRepeats(t[b])
      BY <1>1, <1>2, <1>4 DEF NoRepeatsIn
    <3>2. ASSUME NEW a \in DOMAIN t, NEW b \in DOMAIN t, a # b
          PROVE  SeqElems(t[a]) \cap SeqElems(t[b]) = {}
      <4>1. /\ t[a] = q[a + 1] /\ t[b] = q[b + 1]
            /\ a + 1 \in DOMAIN q /\ b + 1 \in DOMAIN q /\ a + 1 # b + 1
        BY <3>2, <1>1, <1>2
      <4> QED  BY <4>1, <1>4 DEF NoRepeatsIn
    <3> QED  BY <3>1, <3>2 DEF NoRepeatsIn
  <2>3. ASSUME NEW b \in DOMAIN t PROVE SeqElems(Head(q)) \cap SeqElems(t[b]) = {}
    <3>1. t[b] = q[b + 1] /\ b + 1 \in DOMAIN q /\ 1 \in DOMAIN q /\ b + 1 # 1
      BY <1>1, <1>2
    <3> QED  BY <3>1, <1>1, <1>4 DEF NoRepeatsIn
  <2>4. SeqElems(Head(q)) \cap BatchElems(t) = {}
    BY <2>3 DEF BatchElems
  <2> QED  BY <2>1, <2>2, <2>4
<1> QED  BY <1>1, <1>3, <1>4 DEF t

-----------------------------------------------------------------------------
LEMMA InitInv == Init => IInv
<1> SUFFICES ASSUME Init PROVE IInv
  OBVIOUS
<1>1. <<>> \in Seq(Errors) /\ <<>> \in Seq(Seq(Errors))
  BY EmptySeq
<1>2. TypeOK
  BY <1>1 DEF Init, TypeOK
<1>3. SeqElems(guardedErrors) = {} /\ SeqElems(emitting) = {} /\ Batched = {}
  BY EmptyElems DEF Init, Batched
<1>4. NothingLost /\ HeldOnce
  BY <1>3, EmptyElems DEF Init, NothingLost, HeldOnce, Held
<1>5. UnguardedHoldsNothing /\ GuardAttached /\ TimerCoversStored
  BY DEF Init, UnguardedHoldsNothing, GuardAttached, TimerCoversStored
<1> QED  BY <1>2, <1>4, <1>5 DEF IInv

(* emit('error', e) for an error that is held nowhere any more, from a state   *)
(* in which every other error is in its one place (the conclusion is about the *)
(* place e goes to, the other places being those of the caller).               *)
LEMMA EmitPlaces ==
  ASSUME IInv, NEW e \in Errors, e \notin SeqElems(guardedErrors), Emit(e), guarded' = guarded
  PROVE  /\ listeners' \subseteq Listeners \cup {Guard}
         /\ counted' \subseteq listeners' \ {Guard} /\ GuardAttached'
         /\ guardedErrors' \in Seq(Errors) /\ crashed' \in BOOLEAN
         /\ guardedTimeout' \in {"unset", "running", "fired"} /\ timerError' \subseteq Errors
         /\ TimerCoversStored'
         /\ \/ /\ guarded /\ crashed' = crashed /\ handed' = handed
               /\ SeqElems(guardedErrors') = SeqElems(guardedErrors) \cup {e}
               /\ NoRepeats(guardedErrors')
            \/ /\ crashed' = crashed /\ handed' = handed \cup {e}
               /\ guardedErrors' = guardedErrors /\ guardedTimeout' = guardedTimeout
            \/ /\ ~guarded /\ crashed' = TRUE /\ handed' = handed
               /\ guardedErrors' = guardedErrors /\ guardedTimeout' = guardedTimeout
<1> USE DEF IInv, TypeOK
<1>0. /\ listeners' \subseteq Listeners \cup {Guard}
      /\ counted' \subseteq listeners' \ {Guard} /\ GuardAttached'
  BY OnceAssumption, GuardAssumption DEF Emit, GuardAttached
<1> USE <1>0
<1>1. CASE Guard \in listeners /\ counted = {} /\ Store(e) /\ UNCHANGED crashed
  BY <1>1, AppendElems DEF Emit, Store, GuardAttached, TimerCoversStored, HeldOnce
<1>2. CASE counted # {} /\ handed' = handed \cup {e} /\ UNCHANGED <<guardVars, crashed>>
  BY <1>2 DEF Emit, guardVars, TimerCoversStored
<1>3. CASE listeners = {} /\ crashed' = TRUE /\ UNCHANGED <<guardVars, handed>>
  BY <1>3 DEF Emit, GuardAttached, guardVars, TimerCoversStored
<1> QED  BY <1>1, <1>2, <1>3 DEF Emit

(* The newListener hook moves the stored errors into a batch of their own.     *)
LEMMA CaptureKeepsInv ==
  ASSUME IInv, EmitStoredErrors,
         listeners' \subseteq Listeners \cup {Guard}, counted' \subseteq listeners' \ {Guard},
         GuardAttached',
         UNCHANGED <<guarded, emitting, raised, handed, logged, crashed>>
  PROVE  IInv'
<1> USE DEF IInv, TypeOK
<1>1. CASE ~guarded
  BY <1>1 DEF EmitStoredErrors, guardVars, UnguardedHoldsNothing, NothingLost, HeldOnce,
              TimerCoversStored, Held, Batched
<1>2. CASE guarded /\ guardedErrors = <<>>
  BY <1>2 DEF EmitStoredErrors, UnguardedHoldsNothing, NothingLost, HeldOnce,
              TimerCoversStored, Held, Batched
<1>3. CASE guarded /\ guardedErrors # <<>>
  <2>1. /\ immediates' \in Seq(Seq(Errors))
        /\ Batched' = Batched \cup SeqElems(guardedErrors)
        /\ NoRepeatsIn(immediates')
    <3>1. immediates' = Append(immediates, guardedErrors)
      BY <1>3 DEF EmitStoredErrors
    <3>2. /\ NoRepeatsIn(immediates) /\ NoRepeats(guardedErrors)
          /\ BatchElems(immediates) \cap SeqElems(guardedErrors) = {}
      BY DEF HeldOnce, Batched
    <3> QED  BY <3>1, <3>2, AppendBatch DEF Batched
  <2>2. guardedErrors' = <<>> /\ guardedTimeout' = "unset" /\ timerError' = {}
    BY <1>3 DEF EmitStoredErrors
  <2>3. TypeOK' /\ UnguardedHoldsNothing' /\ TimerCoversStored'
    BY <1>3, <2>1, <2>2 DEF UnguardedHoldsNothing, TimerCoversStored
  <2>4. Held' = Held
    BY <2>1, <2>2, EmptyElems DEF Held
  <2>5. NothingLost' /\ HeldOnce'
    BY <2>1, <2>2, <2>4, EmptyElems DEF NothingLost, HeldOnce
  <2> QED  BY <2>3, <2>5
<1> QED  BY <1>1, <1>2, <1>3

LEMMA NextInv == IInv /\ [Next]_vars => IInv'
<1> SUFFICES ASSUME IInv, [Next]_vars PROVE IInv'
  OBVIOUS
<1> USE DEF IInv, TypeOK
<1>1. ASSUME NEW e \in Errors, RaiseError(e) PROVE IInv'
  <2>1. e \notin handed \cup Held /\ ~crashed /\ emitting = <<>>
    BY <1>1 DEF RaiseError, Idle, NothingLost
  <2>2. Batched' = Batched /\ emitting' = emitting /\ guarded' = guarded
        /\ immediates' = immediates /\ raised' = raised \cup {e} /\ logged' = logged
    BY <1>1 DEF RaiseError, Batched
  <2>3. Emit(e) /\ e \notin SeqElems(guardedErrors)
    BY <1>1, <2>1 DEF RaiseError, Held
  <2>4. TypeOK' /\ GuardAttached' /\ TimerCoversStored'
    BY <2>2, <2>3, EmitPlaces
  <2>5. NothingLost' /\ UnguardedHoldsNothing'
    BY <2>1, <2>2, <2>3, EmitPlaces DEF Held, NothingLost, UnguardedHoldsNothing
  <2>6. HeldOnce'
    <3>1. /\ NoRepeats(emitting') /\ NoRepeatsIn(immediates')
          /\ SeqElems(emitting') = SeqElems(emitting)
      BY <2>2 DEF HeldOnce
    <3>2. \/ /\ SeqElems(guardedErrors') = SeqElems(guardedErrors) \cup {e}
             /\ NoRepeats(guardedErrors') /\ handed' = handed
          \/ guardedErrors' = guardedErrors /\ handed' = handed \cup {e}
          \/ guardedErrors' = guardedErrors /\ handed' = handed
      BY <2>2, <2>3, EmitPlaces
    <3> QED  BY <2>1, <2>2, <3>1, <3>2 DEF Held, HeldOnce
  <2> QED  BY <2>4, <2>5, <2>6
<1>2. ASSUME NEW l \in Listeners, AddListener(l) PROVE IInv'
  <2>1. /\ listeners' \subseteq Listeners \cup {Guard}
        /\ counted' \subseteq listeners' \ {Guard} /\ GuardAttached'
    BY <1>2, GuardAssumption DEF AddListener, GuardAttached
  <2> QED  BY <1>2, <2>1, CaptureKeepsInv DEF AddListener
<1>3. ASSUME NEW l \in Listeners, PrependListener(l) PROVE IInv'
  <2>1. /\ listeners' \subseteq Listeners \cup {Guard}
        /\ counted' \subseteq listeners' \ {Guard} /\ GuardAttached'
    BY <1>3, GuardAssumption DEF PrependListener, GuardAttached
  <2> QED  BY <1>3, <2>1, CaptureKeepsInv DEF PrependListener
<1>4. ASSUME NEW l \in Listeners, RemoveListener(l) PROVE IInv'
  BY <1>4, GuardAssumption
     DEF RemoveListener, guardVars, UnguardedHoldsNothing, GuardAttached, NothingLost, HeldOnce,
              TimerCoversStored, Held, Batched
<1>5. CASE GuardStream
  BY <1>5 DEF GuardStream, Idle, UnguardedHoldsNothing, GuardAttached, NothingLost, HeldOnce,
              TimerCoversStored, Held, Batched
<1>6. CASE ReGuardStream
  BY <1>6 DEF ReGuardStream, guardVars, UnguardedHoldsNothing, GuardAttached, NothingLost, HeldOnce,
              TimerCoversStored, Held, Batched
<1>7. CASE TimerFires
  BY <1>7 DEF TimerFires, UnguardedHoldsNothing, GuardAttached, NothingLost, HeldOnce,
              TimerCoversStored, Held, Batched
<1>8. CASE RunImmediate
  <2>1. /\ emitting = <<>> /\ immediates # <<>>
        /\ emitting' = Head(immediates) /\ immediates' = Tail(immediates)
        /\ UNCHANGED <<guarded, listeners, counted, guardedErrors, guardedTimeout, timerError,
                       raised, handed, logged, crashed>>
    BY <1>8 DEF RunImmediate, Idle, guardVars
  <2>2. /\ emitting' \in Seq(Errors) /\ immediates' \in Seq(Seq(Errors))
        /\ Batched = SeqElems(emitting') \cup Batched'
        /\ SeqElems(emitting') \cap Batched' = {}
        /\ NoRepeats(emitting') /\ NoRepeatsIn(immediates')
    BY <2>1, TailBatch DEF HeldOnce, Batched
  <2>3. guarded
    BY <2>1 DEF UnguardedHoldsNothing
  <2>4. Held' = Held
    BY <2>1, <2>2, EmptyElems DEF Held
  <2>5. /\ TypeOK' /\ UnguardedHoldsNothing' /\ GuardAttached'
        /\ NothingLost' /\ TimerCoversStored'
    BY <2>1, <2>2, <2>3, <2>4
       DEF UnguardedHoldsNothing, GuardAttached, NothingLost, TimerCoversStored
  <2>6. HeldOnce'
    BY <2>1, <2>2, <2>4 DEF HeldOnce
  <2> QED  BY <2>5, <2>6
<1>9. CASE ReEmit
  <2> DEFINE e == Head(emitting)
  <2>1. /\ ~crashed /\ emitting # <<>> /\ Emit(e) /\ emitting' = Tail(emitting)
        /\ guarded' = guarded /\ immediates' = immediates /\ raised' = raised
        /\ logged' = logged /\ Batched' = Batched
    BY <1>9 DEF ReEmit, Batched
  <2>2. guarded
    BY <2>1 DEF UnguardedHoldsNothing
  <2>3. /\ e \in Errors /\ emitting' \in Seq(Errors)
        /\ SeqElems(emitting) = {e} \cup SeqElems(emitting')
        /\ e \notin SeqElems(emitting') /\ NoRepeats(emitting')
    BY <2>1, TailElems DEF HeldOnce
  <2>4. e \notin SeqElems(guardedErrors) /\ e \notin Batched /\ e \notin handed
    BY <2>3 DEF HeldOnce, Held
  <2> HIDE DEF e, IInv
  <2> QED  BY <2>1, <2>2, <2>3, <2>4, EmitPlaces
           DEF IInv, Held, NothingLost, HeldOnce, UnguardedHoldsNothing
<1>10. CASE UNCHANGED vars
  BY <1>10 DEF vars, UnguardedHoldsNothing, GuardAttached, NothingLost, HeldOnce, TimerCoversStored,
               Held, Batched
<1> QED  BY <1>1, <1>2, <1>3, <1>4, <1>5, <1>6, <1>7, <1>8, <1>9, <1>10 DEF Next

(* The inductive invariant holds in every reachable state.                     *)
THEOREM Invariance == Spec => []IInv
  BY InitInv, NextInv, PTL DEF Spec

(* The variables of a guarded stream keep their types.                         *)
THEOREM TypeCorrect == Spec => []TypeOK
  BY Invariance, PTL DEF IInv

(* No error that a stream's source raises is ever lost by the guard.           *)
THEOREM NoErrorLost == Spec => []NothingLost
  BY Invariance, PTL DEF IInv

(* No error is in two places at once, nor held after it was handed over.       *)
THEOREM NoErrorCopied == Spec => []HeldOnce
  BY Invariance, PTL DEF IInv

(* Errors are stored only while unheard, and always with a timer.              *)
THEOREM StoredErrorsTimed == Spec => []TimerCoversStored
  BY Invariance, PTL DEF IInv

(* A guarded stream does not turn an unheard error into an exception: the       *)
(* Guard is never missing from its listeners.                                   *)
THEOREM GuardHolds == Spec => GuardedNeverCrashes
<1>1. IInv /\ [Next]_vars => [guarded => ~crashed']_vars
  <2> SUFFICES ASSUME IInv, Next, guarded PROVE ~crashed'
    BY DEF vars
  <2>1. IInv' /\ guarded' = TRUE
    <3>1. IInv'
      BY NextInv
    <3>2. guarded'
      BY DEF Next, RaiseError, AddListener, PrependListener, RemoveListener, GuardStream,
             ReGuardStream, TimerFires, RunImmediate, ReEmit, guardVars
    <3> QED  BY <3>1, <3>2 DEF IInv, TypeOK
  <2> QED  BY <2>1 DEF IInv, UnguardedHoldsNothing
<1> QED  BY <1>1, Invariance, PTL DEF Spec, GuardedNeverCrashes

-----------------------------------------------------------------------------
(* The refinement: a held error of ErrorDelivery is one in any of the three    *)
(* places, or the error whose emission brought the process down.               *)
LEMMA DeliveryInit == Init => Delivery!Init
  BY EmptyElems DEF Init, Delivery!Init, Unhanded, Held, Batched

LEMMA DeliveryStep == IInv /\ [Next]_vars => [Delivery!Next]_(Delivery!vars)
<1> SUFFICES ASSUME IInv, [Next]_vars PROVE [Delivery!Next]_(Delivery!vars)
  OBVIOUS
<1>0. IInv'
  BY NextInv
<1>1. ASSUME NEW e \in Errors, RaiseError(e) PROVE Delivery!Raise(e)
  <2>1. /\ e \notin raised /\ ~crashed /\ raised' = raised \cup {e}
        /\ (handed' = handed \/ handed' = handed \cup {e})
    BY <1>1 DEF RaiseError, Idle, Emit, Store
  <2>2. Unhanded = raised \ handed
    BY <2>1 DEF IInv, NothingLost, HeldOnce, Unhanded
  <2>3. Unhanded' = raised' \ handed'
    BY <1>0 DEF IInv, NothingLost, HeldOnce, Unhanded
  <2>4. handed \subseteq raised
    BY <2>1 DEF IInv, NothingLost
  <2> QED  BY <2>1, <2>2, <2>3, <2>4 DEF Delivery!Raise
<1>2. ASSUME ReEmit PROVE Delivery!HandOver(Head(emitting)) \/ UNCHANGED Delivery!vars
  <2> DEFINE e == Head(emitting)
  <2>1. /\ ~crashed /\ raised' = raised
        /\ (handed' = handed \/ handed' = handed \cup {e})
    BY <1>2 DEF ReEmit, Emit, Store
  <2>2. Unhanded = raised \ handed
    BY <2>1 DEF IInv, NothingLost, HeldOnce, Unhanded
  <2>3. Unhanded' = raised' \ handed'
    BY <1>0 DEF IInv, NothingLost, HeldOnce, Unhanded
  <2>4. e \in raised \ handed
    <3>1. e \in SeqElems(emitting)
      BY <1>2, TailElems DEF ReEmit, IInv, TypeOK
    <3> QED  BY <3>1, <2>1 DEF IInv, NothingLost, HeldOnce, Held
  <2> QED  BY <2>1, <2>2, <2>3, <2>4 DEF Delivery!HandOver, Delivery!vars
<1>3. ASSUME raised' = raised, handed' = handed, crashed' = crashed
      PROVE  UNCHANGED Delivery!vars
  <2>1. Unhanded = raised \ handed
    BY DEF IInv, NothingLost, HeldOnce, Unhanded
  <2>2. Unhanded' = raised' \ handed'
    BY <1>0 DEF IInv, NothingLost, HeldOnce, Unhanded
  <2> QED  BY <1>3, <2>1, <2>2 DEF Delivery!vars
<1>4. CASE \E e \in Errors : RaiseError(e)
  BY <1>1, <1>4 DEF Delivery!Next
<1>5. CASE ReEmit
  <2>1. Head(emitting) \in Errors
    BY <1>5, TailElems DEF ReEmit, IInv, TypeOK
  <2> QED  BY <1>2, <1>5, <2>1 DEF Delivery!Next
<1>6. CASE \/ \E l \in Listeners : AddListener(l) \/ PrependListener(l) \/ RemoveListener(l)
           \/ GuardStream \/ ReGuardStream \/ TimerFires \/ RunImmediate \/ UNCHANGED vars
  <2>1. raised' = raised /\ handed' = handed /\ crashed' = crashed
    BY <1>6 DEF AddListener, PrependListener, RemoveListener, GuardStream, ReGuardStream,
                TimerFires, RunImmediate, vars
  <2> QED  BY <2>1, <1>3
<1> QED  BY <1>4, <1>5, <1>6 DEF Next

(* A guarded stream implements the promise of ErrorDelivery: every error is    *)
(* raised once, held while unheard, and handed over at most once.              *)
THEOREM ImplementsDelivery == Spec => DeliverySpec
  BY DeliveryInit, DeliveryStep, Invariance, PTL DEF Spec, DeliverySpec, Delivery!Spec
=============================================================================
