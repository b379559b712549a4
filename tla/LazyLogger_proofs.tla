-------------------------- MODULE LazyLogger_proofs --------------------------
(* Proofs about LazyLogger: the log is complete and in order, whatever the     *)
(* classes, the factories and the size of the buffer are.                     *)
EXTENDS LazyLogger, TLAPS

(* Until a factory is set the buffer holds the first messages and, in its last *)
(* place, the warning.                                                        *)
BeforeSwitch ==
  factory = Temporary =>
    /\ output = <<>>
    /\ \A c \in Classes : loggers[c] \in {Temporary, NoLogger}
    /\ Len(buffer) + bufferSpaces = bufferSize
    /\ \A i \in DOMAIN buffer : buffer[i].text = i /\ (buffer[i].from = Warner <=> i = bufferSize)
    /\ Len(buffer) <= logged /\ (bufferSpaces > 0 => Len(buffer) = logged)

(* What the properties say of a sequence of entries, and that it is no later   *)
(* than what was logged.                                                      *)
LogOK(s) ==
  /\ \A i \in DOMAIN s : s[i].from # Warner => s[i].text <= logged
  /\ \A i, j \in DOMAIN s :
       i < j /\ s[i].from # Warner /\ s[j].from # Warner => s[i].text < s[j].text
  /\ \A i \in DOMAIN s : s[i].from = Warner => i = bufferSize /\ s[i].text = bufferSize
  /\ bufferSize # 0 /\ (\A i \in DOMAIN s : s[i].from # Warner) =>
       \A n \in 1..logged : \E i \in DOMAIN s : s[i].text = n

(* Then the buffer is empty and every logger writes through a real one.        *)
AfterSwitch ==
  factory # Temporary =>
    /\ buffer = <<>>
    /\ \A c \in Classes : loggers[c] # Temporary
    /\ LogOK(output)

IInv == TypeOK /\ BeforeSwitch /\ AfterSwitch

-----------------------------------------------------------------------------
(* It holds before any class asks for a logger.                               *)
LEMMA InitIInv == Init => IInv
BY LazyLoggerAssumption DEF Init, IInv, TypeOK, BeforeSwitch, AfterSwitch, Entries

(* TemporaryLoggerFactory.bufferLogEntry fills one place of the buffer.        *)
LEMMA BufferGrows ==
  ASSUME TypeOK, NEW c \in Classes, bufferSpaces > 0, BufferEntry(Entry(c, logged + 1))
  PROVE  /\ buffer' \in Seq(Entries) /\ Len(buffer') = Len(buffer) + 1
         /\ \A i \in 1..Len(buffer) : buffer'[i] = buffer[i]
         /\ buffer'[Len(buffer) + 1] =
              IF bufferSpaces = 1 THEN Entry(Warner, Len(buffer) + 1) ELSE Entry(c, logged + 1)
<1>1. buffer \in Seq(Entries) /\ logged \in Nat
  BY LazyLoggerAssumption DEF TypeOK
<1>2. Entry(Warner, Len(buffer) + 1) \in Entries /\ Entry(c, logged + 1) \in Entries
  BY <1>1 DEF Entry, Entries
<1>3. QED BY <1>1, <1>2 DEF BufferEntry

(* What the buffer holds when a factory is set is in order and complete up to  *)
(* the warning.                                                               *)
LEMMA BufferIsLog == TypeOK /\ BeforeSwitch /\ factory = Temporary => LogOK(buffer)
<1> SUFFICES ASSUME TypeOK, BeforeSwitch, factory = Temporary PROVE LogOK(buffer)
  OBVIOUS
<1>1. /\ buffer \in Seq(Entries) /\ DOMAIN buffer = 1..Len(buffer) /\ Len(buffer) \in Nat
      /\ bufferSize \in Nat /\ bufferSpaces \in Nat /\ logged \in Nat
  BY LazyLoggerAssumption DEF TypeOK
<1>2. bufferSize # 0 /\ (\A i \in DOMAIN buffer : buffer[i].from # Warner) =>
        \A n \in 1..logged : n \in DOMAIN buffer /\ buffer[n].text = n
  <2> SUFFICES ASSUME bufferSize # 0, \A i \in DOMAIN buffer : buffer[i].from # Warner,
                      NEW n \in 1..logged
               PROVE  n \in DOMAIN buffer /\ buffer[n].text = n
    OBVIOUS
  <2>1. bufferSize \notin 1..Len(buffer) BY <1>1 DEF BeforeSwitch
  <2>2. Len(buffer) + bufferSpaces = bufferSize BY DEF BeforeSwitch
  <2> DEFINE used == Len(buffer)
  <2>3. used \in Nat /\ used + bufferSpaces = bufferSize /\ bufferSize \notin 1..used
    BY <1>1, <2>1, <2>2
  <2> HIDE DEF used
  <2>4. bufferSpaces > 0 BY <1>1, <2>3
  <2>5. QED BY <1>1, <2>4 DEF BeforeSwitch
<1>3. QED BY <1>1, <1>2 DEF LogOK, BeforeSwitch

(* Logging, asking for a logger and setting a factory keep it.                *)
LEMMA Step == IInv /\ [Next]_vars => IInv'
<1> SUFFICES ASSUME IInv, [Next]_vars PROVE IInv'
  OBVIOUS
<1>a. TypeOK /\ BeforeSwitch /\ AfterSwitch BY DEF IInv
<1>b. /\ buffer \in Seq(Entries) /\ output \in Seq(Entries)
      /\ bufferSize \in Nat /\ bufferSpaces \in Nat /\ logged \in Nat /\ MaxMessages \in Nat
      /\ loggers \in [Classes -> Factories \cup {Temporary, NoLogger}]
      /\ factory \in Factories \cup {Temporary}
  BY LazyLoggerAssumption DEF IInv, TypeOK
<1>1. CASE UNCHANGED vars
  BY <1>a, <1>1 DEF vars, IInv, TypeOK, BeforeSwitch, AfterSwitch, LogOK
<1>2. ASSUME NEW c \in Classes, GetLoggerFor(c) PROVE IInv'
  <2>1. TypeOK' BY <1>a, <1>2 DEF GetLoggerFor, TypeOK
  <2>2. BeforeSwitch' BY <1>a, <1>b, <1>2 DEF GetLoggerFor, BeforeSwitch
  <2>3. AfterSwitch' BY <1>a, <1>b, <1>2 DEF GetLoggerFor, AfterSwitch, LogOK
  <2>4. QED BY <2>1, <2>2, <2>3 DEF IInv
<1>3. ASSUME NEW c \in Classes, Log(c) PROVE IInv'
  <2> DEFINE e == Entry(c, logged + 1)
  <2>a. /\ e \in Entries /\ e.from = c /\ e.text = logged + 1 /\ c # Warner
        /\ Entry(Warner, Len(buffer) + 1).from = Warner
        /\ Entry(Warner, Len(buffer) + 1).text = Len(buffer) + 1
    BY <1>b, LazyLoggerAssumption DEF Entry, Entries
  <2>b. /\ loggers[c] # NoLogger /\ logged' = logged + 1 /\ logged < MaxMessages
        /\ UNCHANGED <<factory, loggers, bufferSize>>
    BY <1>3 DEF Log
  <2> HIDE DEF e
  <2>1. CASE loggers[c] = Temporary /\ bufferSpaces > 0
    <3>1. BufferEntry(e) /\ bufferSpaces' = bufferSpaces - 1 /\ output' = output
      BY <1>3, <2>1, LazyLoggerAssumption DEF Log, e
    <3>2. /\ buffer' \in Seq(Entries) /\ Len(buffer') = Len(buffer) + 1
          /\ DOMAIN buffer' = 1..(Len(buffer) + 1)
          /\ \A i \in 1..Len(buffer) : buffer'[i] = buffer[i]
          /\ buffer'[Len(buffer) + 1] =
               IF bufferSpaces = 1 THEN Entry(Warner, Len(buffer) + 1) ELSE e
      BY <1>a, <1>b, <2>1, <3>1, BufferGrows DEF e
    <3>3. factory = Temporary BY <1>a, <2>1 DEF AfterSwitch
    <3>4. TypeOK' BY <1>a, <1>b, <2>b, <2>1, <3>1, <3>2 DEF TypeOK
    <3>5. BeforeSwitch'
      <4>1. Len(buffer) = logged /\ Len(buffer) + bufferSpaces = bufferSize
        BY <1>a, <1>b, <2>1, <3>3 DEF BeforeSwitch
      <4>2. \A i \in DOMAIN buffer' :
              buffer'[i].text = i /\ (buffer'[i].from = Warner <=> i = bufferSize)
        BY <1>a, <1>b, <2>a, <2>1, <3>2, <3>3, <4>1 DEF BeforeSwitch
      <4>3. QED BY <1>a, <1>b, <2>b, <3>1, <3>2, <3>3, <4>1, <4>2 DEF BeforeSwitch
    <3>6. AfterSwitch' BY <2>b, <3>3 DEF AfterSwitch
    <3>7. QED BY <3>4, <3>5, <3>6 DEF IInv
  <2>2. CASE loggers[c] = Temporary /\ bufferSpaces = 0
    <3>1. UNCHANGED <<bufferSpaces, buffer, output>>
      BY <1>b, <1>3, <2>2, LazyLoggerAssumption DEF Log
    <3>2. factory = Temporary BY <1>a, <2>2 DEF AfterSwitch
    <3>3. TypeOK' BY <1>a, <1>b, <2>b, <3>1 DEF TypeOK
    <3>4. BeforeSwitch' BY <1>a, <1>b, <2>b, <2>2, <3>1, <3>2 DEF BeforeSwitch
    <3>5. AfterSwitch' BY <2>b, <3>2 DEF AfterSwitch
    <3>6. QED BY <3>3, <3>4, <3>5 DEF IInv
  <2>3. CASE loggers[c] \in Factories
    <3>1. output' = Append(output, e) /\ UNCHANGED <<bufferSpaces, buffer>>
      BY <1>3, <2>3, LazyLoggerAssumption DEF Log, e
    <3>2. /\ output' \in Seq(Entries)
          /\ DOMAIN output = 1..Len(output) /\ DOMAIN output' = 1..(Len(output) + 1)
          /\ \A i \in DOMAIN output : output'[i] = output[i]
          /\ output'[Len(output) + 1] = e
          /\ Len(output) \in Nat
      BY <1>b, <2>a, <3>1
    <3>3. factory # Temporary BY <1>a, <2>3, LazyLoggerAssumption DEF BeforeSwitch
    <3>4. TypeOK' BY <1>a, <1>b, <2>b, <3>1, <3>2 DEF TypeOK
    <3>5. LogOK(output)'
      <4>0. LogOK(output) BY <1>a, <3>3 DEF AfterSwitch
      <4>a. /\ \A i \in DOMAIN output : output[i] \in Entries /\ output[i].text \in Nat
            /\ \A i \in DOMAIN output' : i \in DOMAIN output \/ i = Len(output) + 1
        <5>1. \A i \in 1..Len(output) : output[i] \in Entries BY <1>b
        <5>2. \A i \in DOMAIN output : output[i] \in Entries BY <3>2, <5>1
        <5>3. \A x \in Entries : x.text \in Nat BY DEF Entries
        <5>4. \A i \in DOMAIN output' : i \in DOMAIN output \/ i = Len(output) + 1 BY <3>2
        <5>5. QED BY <5>2, <5>3, <5>4
      <4>b. \A i \in DOMAIN output :
              /\ output'[i].from = output[i].from /\ output'[i].text = output[i].text
              /\ output[i].from # Warner => output[i].text < logged + 1
        BY <1>b, <3>2, <4>0, <4>a DEF LogOK
      <4>1. \A i \in DOMAIN output' : output'[i].from # Warner => output'[i].text <= logged'
        BY <1>b, <2>a, <2>b, <3>2, <4>a, <4>b
      <4>2. ASSUME NEW i \in DOMAIN output', NEW j \in DOMAIN output', i < j,
                   output'[i].from # Warner, output'[j].from # Warner
            PROVE  output'[i].text < output'[j].text
        <5>1. i \in DOMAIN output BY <3>2, <4>2, <4>a
        <5>2. CASE j \in DOMAIN output BY <4>0, <4>2, <4>b, <5>1, <5>2 DEF LogOK
        <5>3. CASE j = Len(output) + 1 BY <2>a, <3>2, <4>2, <4>b, <5>1, <5>3
        <5>4. QED BY <4>a, <5>2, <5>3
      <4>3. \A i \in DOMAIN output' :
              output'[i].from = Warner => i = bufferSize' /\ output'[i].text = bufferSize'
        BY <2>a, <2>b, <3>2, <4>0 DEF LogOK
      <4>4. ASSUME bufferSize' # 0, \A i \in DOMAIN output' : output'[i].from # Warner,
                   NEW n \in 1..logged'
            PROVE  \E i \in DOMAIN output' : output'[i].text = n
        <5>1. CASE n = logged + 1 BY <1>b, <2>a, <3>2, <5>1
        <5>2. CASE n # logged + 1
          <6>1. n \in 1..logged BY <1>b, <2>b, <5>2
          <6>2. PICK i \in DOMAIN output : output[i].text = n
            BY <2>b, <3>2, <4>0, <4>4, <6>1 DEF LogOK
          <6>3. QED BY <3>2, <6>2
        <5>3. QED BY <5>1, <5>2
      <4>5. QED BY <4>1, <4>2, <4>3, <4>4 DEF LogOK
    <3>6. AfterSwitch' BY <1>a, <2>b, <3>1, <3>3, <3>5 DEF AfterSwitch
    <3>7. BeforeSwitch' BY <2>b, <3>3 DEF BeforeSwitch
    <3>8. QED BY <3>4, <3>6, <3>7 DEF IInv
  <2>4. QED BY <1>b, <2>b, <2>1, <2>2, <2>3
<1>4. ASSUME NEW f \in Factories, SetFactory(f) PROVE IInv'
  <2>a. /\ factory' = f /\ f # Temporary /\ f # NoLogger
        /\ UNCHANGED <<bufferSize, bufferSpaces, logged>>
    BY <1>4, LazyLoggerAssumption DEF SetFactory
  <2>1. CASE factory = Temporary
    <3>1. /\ output' = output \o buffer /\ buffer' = <<>>
          /\ loggers' = [c \in Classes |-> IF loggers[c] = Temporary THEN f ELSE loggers[c]]
      BY <1>4, <2>1 DEF SetFactory, Switch
    <3>2. output' = buffer BY <1>a, <1>b, <2>1, <3>1 DEF BeforeSwitch
    <3>3. TypeOK' BY <1>a, <1>b, <2>a, <3>1, <3>2 DEF TypeOK
    <3>4. LogOK(output)' BY <1>a, <2>a, <2>1, <3>2, BufferIsLog DEF LogOK
    <3>5. QED BY <2>a, <3>1, <3>3, <3>4 DEF IInv, BeforeSwitch, AfterSwitch
  <2>2. CASE factory # Temporary
    <3>1. UNCHANGED <<loggers, output, buffer>> BY <1>4, <2>2 DEF SetFactory
    <3>2. TypeOK' BY <1>a, <2>a, <3>1 DEF TypeOK
    <3>3. QED BY <1>a, <2>a, <2>2, <3>1, <3>2 DEF IInv, BeforeSwitch, AfterSwitch, LogOK
  <2>3. QED BY <2>1, <2>2
<1>5. QED BY <1>1, <1>2, <1>3, <1>4 DEF Next

(* The inductive invariant.                                                   *)
THEOREM Invariant == Spec => []IInv
BY InitIInv, Step, PTL DEF Spec

(* Every variable keeps its type.                                             *)
THEOREM TypeCorrect == Spec => []TypeOK
<1>1. IInv => TypeOK BY DEF IInv
<1>2. QED BY <1>1, Invariant, PTL

(* What is kept is the buffer before the switch and the output behind it.      *)
LEMMA KeptIsLog == IInv => LogOK(Kept) /\ Kept \in Seq(Entries)
<1> SUFFICES ASSUME IInv PROVE LogOK(Kept) /\ Kept \in Seq(Entries)
  OBVIOUS
<1>1. buffer \in Seq(Entries) /\ output \in Seq(Entries) BY DEF IInv, TypeOK
<1>2. CASE factory = Temporary
  <2>1. Kept = buffer BY <1>1, <1>2 DEF Kept, IInv, BeforeSwitch
  <2>2. QED BY <1>1, <1>2, <2>1, BufferIsLog DEF IInv
<1>3. CASE factory # Temporary
  <2>1. Kept = output BY <1>1, <1>3 DEF Kept, IInv, AfterSwitch
  <2>2. QED BY <1>1, <1>3, <2>1 DEF IInv, AfterSwitch
<1>4. QED BY <1>2, <1>3

(* The buffer and the switch keep the order in which was logged                *)
(* (LazyLoggerFactory.ts).                                                    *)
THEOREM LogInOrder == Spec => []EmittedInOrder
<1>1. IInv => EmittedInOrder BY KeptIsLog DEF EmittedInOrder, Messages, LogOK
<1>2. QED BY <1>1, Invariant, PTL

(* No message is lost without a warning, but from a buffer without space.      *)
THEOREM LossIsAnnounced == Spec => []DropsAreAnnounced
<1>1. ASSUME IInv PROVE DropsAreAnnounced
  <2> SUFFICES ASSUME NEW n \in 1..logged, \A i \in Messages(Kept) : Kept[i].text # n,
                      Warnings(Kept) = {}, bufferSize # 0
               PROVE  FALSE
    BY DEF DropsAreAnnounced
  <2>1. \A i \in DOMAIN Kept : Kept[i].from # Warner BY DEF Warnings
  <2>2. PICK i \in DOMAIN Kept : Kept[i].text = n BY <1>1, <2>1, KeptIsLog DEF LogOK
  <2>3. QED BY <2>1, <2>2 DEF Messages
<1>2. QED BY <1>1, Invariant, PTL

(* The warning is the last entry of a full buffer.                             *)
THEOREM WarningEndsBuffer == Spec => []WarningIsLast
<1>1. ASSUME IInv PROVE WarningIsLast
  <2>1. \A i \in Warnings(Kept) : i = bufferSize /\ Kept[i].text = bufferSize
    BY <1>1, KeptIsLog DEF Warnings, LogOK
  <2>2. Len(buffer) + bufferSpaces <= bufferSize
    BY <1>1, LazyLoggerAssumption DEF IInv, TypeOK, BeforeSwitch, AfterSwitch
  <2>3. QED BY <2>1, <2>2 DEF WarningIsLast
<1>2. QED BY <1>1, Invariant, PTL

(* Behind the switch every message is written when it is logged.               *)
THEOREM NothingLostBehind == Spec => NoDropAfterSwitch
<1>1. ASSUME IInv, [Next]_vars, factory # Temporary, logged' # logged
      PROVE  Len(output') = Len(output) + 1 /\ output'[Len(output')].text = logged'
  <2>1. PICK c \in Classes : Log(c)
    BY <1>1 DEF Next, vars, GetLoggerFor, SetFactory
  <2>2. loggers[c] # Temporary BY <1>1 DEF IInv, AfterSwitch
  <2>3. output' = Append(output, Entry(c, logged + 1)) /\ logged' = logged + 1
    BY <2>1, <2>2 DEF Log
  <2>4. output \in Seq(Entries) BY <1>1 DEF IInv, TypeOK
  <2>5. QED BY <2>3, <2>4 DEF Entry
<1>2. QED BY <1>1, Invariant, PTL DEF Spec, NoDropAfterSwitch
=============================================================================
