------------------------------ MODULE LazyLogger ------------------------------
(* Logging before and after the LoggerInitializer: getLoggerFor, the lazy      *)
(* factory with its bounded buffer, and setGlobalLoggerFactory.  Messages are  *)
(* numbered in the order in which they are logged.                            *)
EXTENDS Naturals, Sequences

CONSTANTS
  Classes,      \* classes and names that ask for a logger
  Factories,    \* LoggerFactories that may be set
  BufferSizes,  \* values of the bufferSize option
  Temporary,    \* the TemporaryLoggerFactory
  NoLogger,
  Warner,       \* the logger of the buffer's own warning
  MaxMessages   \* bound: messages logged in a behaviour

ASSUME LazyLoggerAssumption ==
  /\ {Temporary, NoLogger} \cap Factories = {} /\ Temporary # NoLogger
  /\ Warner \notin Classes
  /\ BufferSizes \subseteq Nat /\ MaxMessages \in Nat

VARIABLES
  factory,       \* LazyLoggerFactory.factory
  loggers,       \* the factory behind the logger of each class
  bufferSize, bufferSpaces,
  buffer,        \* entries of the TemporaryLoggerFactory
  logged,        \* number of messages logged
  output         \* entries in the order in which real loggers received them

vars == <<factory, loggers, bufferSize, bufferSpaces, buffer, logged, output>>

Entry(c, n) == [from |-> c, text |-> n]
Entries == [from : Classes \cup {Warner}, text : Nat]

TypeOK ==
  /\ factory \in Factories \cup {Temporary}
  /\ loggers \in [Classes -> Factories \cup {Temporary, NoLogger}]
  /\ bufferSize \in BufferSizes /\ bufferSpaces \in 0..bufferSize
  /\ buffer \in Seq(Entries) /\ output \in Seq(Entries) /\ logged \in 0..MaxMessages

Init ==
  /\ factory = Temporary /\ loggers = [c \in Classes |-> NoLogger]
  /\ bufferSize \in BufferSizes /\ bufferSpaces = bufferSize
  /\ buffer = <<>> /\ logged = 0 /\ output = <<>>

(* getLoggerFor: a class gets one logger and keeps it.                         *)
GetLoggerFor(c) ==
  /\ loggers[c] = NoLogger
  /\ loggers' = [loggers EXCEPT ![c] = factory]
  /\ UNCHANGED <<factory, bufferSize, bufferSpaces, buffer, logged, output>>

\* Mutants: the warning comes behind the last message; it is left out; the label
\* is pushed in place of an entry.
BufferAndWarn(e) ==
  buffer' = IF bufferSpaces = 1 THEN buffer \o <<e, Entry(Warner, Len(buffer) + 1)>>
                                ELSE Append(buffer, e)
BufferSilently(e) == buffer' = IF bufferSpaces = 1 THEN buffer ELSE Append(buffer, e)
BufferLabel(e) == buffer' = Append(buffer, IF bufferSpaces = 1 THEN Warner ELSE e)

(* bufferLogEntry with space left: the last space is kept for a warning that   *)
(* replaces the message.                                                      *)
BufferEntry(e) ==
  buffer' = Append(buffer, IF bufferSpaces = 1 THEN Entry(Warner, Len(buffer) + 1) ELSE e)

Log(c) ==
  /\ loggers[c] # NoLogger /\ logged < MaxMessages
  /\ logged' = logged + 1
  /\ \/ /\ loggers[c] = Temporary /\ bufferSpaces > 0
        /\ BufferEntry(Entry(c, logged + 1)) /\ bufferSpaces' = bufferSpaces - 1
        /\ UNCHANGED output
     \/ /\ loggers[c] = Temporary /\ bufferSpaces = 0
        /\ UNCHANGED <<bufferSpaces, buffer, output>>
     \/ /\ loggers[c] \in Factories
        /\ output' = Append(output, Entry(c, logged + 1))
        /\ UNCHANGED <<bufferSpaces, buffer>>
  /\ UNCHANGED <<factory, loggers, bufferSize>>

\* Mutants: the buffer is emitted from its end; the wrappers keep the temporary
\* factory's logger.
SwitchReversed(f) ==
  /\ loggers' = [c \in Classes |-> IF loggers[c] = Temporary THEN f ELSE loggers[c]]
  /\ output' = output \o [i \in DOMAIN buffer |-> buffer[Len(buffer) + 1 - i]]
  /\ buffer' = <<>>
SwitchBufferOnly(f) == output' = output \o buffer /\ buffer' = <<>> /\ UNCHANGED loggers

(* TemporaryLoggerFactory.switch                                              *)
Switch(f) ==
  /\ loggers' = [c \in Classes |-> IF loggers[c] = Temporary THEN f ELSE loggers[c]]
  /\ output' = output \o buffer
  /\ buffer' = <<>>

(* setGlobalLoggerFactory; a second call reaches new loggers only.             *)
SetFactory(f) ==
  /\ factory' = f
  /\ IF factory = Temporary THEN Switch(f) ELSE UNCHANGED <<loggers, output, buffer>>
  /\ UNCHANGED <<bufferSize, bufferSpaces, logged>>

Next ==
  \/ \E c \in Classes : GetLoggerFor(c) \/ Log(c)
  \/ \E f \in Factories : SetFactory(f)

Spec == Init /\ [][Next]_vars

-----------------------------------------------------------------------------
(* What has been or will be emitted, in order.                                *)
Kept == output \o buffer
Messages(s) == {i \in DOMAIN s : s[i].from # Warner}
Warnings(s) == {i \in DOMAIN s : s[i].from = Warner}

(* The switch neither reorders nor repeats messages, nor lets one logged after *)
(* it overtake one that was buffered.                                         *)
EmittedInOrder ==
  \A i, j \in Messages(Kept) : i < j => Kept[i].text < Kept[j].text

(* A message is dropped only behind a warning in the log, unless the buffer    *)
(* has no space at all.                                                       *)
DropsAreAnnounced ==
  \A n \in 1..logged :
    (\A i \in Messages(Kept) : Kept[i].text # n) => Warnings(Kept) # {} \/ bufferSize = 0

(* The warning takes the last space and tells the size of the buffer; the      *)
(* buffer never holds more.                                                   *)
WarningIsLast ==
  /\ \A i \in Warnings(Kept) : i = bufferSize /\ Kept[i].text = bufferSize
  /\ Len(buffer) + bufferSpaces <= bufferSize

(* Once a factory is set no message is lost, whenever its logger was made.     *)
NoDropAfterSwitch ==
  [][factory # Temporary /\ logged' # logged =>
       Len(output') = Len(output) + 1 /\ output'[Len(output')].text = logged']_vars
=============================================================================
