---------------------------- MODULE GuardedStream ----------------------------
(* A Node stream under src/util/GuardedStream.ts.  JavaScript runs one        *)
(* callback at a time, so every action is one callback or synchronous call;   *)
(* a setImmediate callback that re-emits several errors is a run of ReEmit     *)
(* steps during which emitting is not empty and nothing else may happen.       *)
(*                                                                            *)
(* The code asks one question of the listener array: is the guarding listener *)
(* the last one?  Of the array's order only that is kept: the set of attached *)
(* listeners, the guarding one among them, and those that come behind it and  *)
(* therefore count.  A crash is Node's doing: an 'error' that finds the array *)
(* empty is thrown.                                                           *)
EXTENDS Sequences

CONSTANTS
  Errors,        \* errors the source may emit, each at most once
  Listeners,     \* error listeners that users of the stream may attach
  Once,          \* those attached with once(): Node removes them when called
  Guard          \* guardingErrorListener

ASSUME OnceAssumption == Once \subseteq Listeners
ASSUME GuardAssumption == Guard \notin Listeners

VARIABLES
  guarded,         \* isGuarded(stream): this[guardedErrors] is there
  listeners,       \* the attached error listeners, with or without the Guard
  counted,         \* those behind the Guard; all of them when it is not attached
  guardedErrors,   \* this[guardedErrors]
  guardedTimeout,  \* "unset", "running", or "fired": fired but never reset
  timerError,      \* the errors whose message the timer's callback logs
  immediates,      \* batches captured by setImmediate, in order
  emitting,        \* rest of the batch whose immediate is running
  raised, handed,  \* history: emitted by the source; reached a counted listener
  logged,          \* history: errors logged by the timer
  crashed          \* an 'error' event without listeners: uncaught exception

vars == <<guarded, listeners, counted, guardedErrors, guardedTimeout, timerError,
          immediates, emitting, raised, handed, logged, crashed>>
guardVars == <<guardedErrors, guardedTimeout, timerError>>

SeqElems(s) == {s[i] : i \in DOMAIN s}
BatchElems(q) == UNION {SeqElems(q[b]) : b \in DOMAIN q}
Batched == BatchElems(immediates)
Held == SeqElems(guardedErrors) \cup Batched \cup SeqElems(emitting)

TypeOK ==
  /\ guarded \in BOOLEAN /\ crashed \in BOOLEAN
  /\ listeners \subseteq Listeners \cup {Guard}
  /\ counted \subseteq listeners \ {Guard}
  /\ guardedErrors \in Seq(Errors) /\ emitting \in Seq(Errors)
  /\ immediates \in Seq(Seq(Errors))
  /\ guardedTimeout \in {"unset", "running", "fired"}
  /\ timerError \subseteq Errors
  /\ raised \subseteq Errors /\ handed \subseteq Errors /\ logged \subseteq Errors

Init ==
  /\ guarded = FALSE /\ listeners = {} /\ counted = {}
  /\ guardedErrors = <<>> /\ guardedTimeout = "unset" /\ timerError = {}
  /\ immediates = <<>> /\ emitting = <<>>
  /\ raised = {} /\ handed = {} /\ logged = {} /\ crashed = FALSE

Idle == ~crashed /\ emitting = <<>>

(* guardingErrorListener when it finds itself last: store and start the timer *)
(* unless a timer is set already, even one that has fired.                    *)
Store(e) ==
  /\ guardedErrors' = Append(guardedErrors, e)
  /\ guardedTimeout' = IF guardedTimeout = "unset" THEN "running" ELSE guardedTimeout
  /\ timerError' = IF guardedTimeout = "unset" THEN {e} ELSE timerError
  /\ UNCHANGED handed

\* Mutant: the guarding listener does not look whether it is the last one.
EmitAlwaysStore(e) ==
  /\ listeners' = listeners \ Once
  /\ counted' = counted \ Once
  /\ guardedErrors' = IF Guard \in listeners THEN Append(guardedErrors, e) ELSE guardedErrors
  /\ handed' = IF counted # {} THEN handed \cup {e} ELSE handed
  /\ crashed' = (listeners = {})
  /\ UNCHANGED <<guardedTimeout, timerError>>

(* stream.emit('error', e): every listener in the array is called, once()     *)
(* listeners leave it; the guarding listener stores e if it is the last one.  *)
(* With no listener at all Node throws e.                                     *)
Emit(e) ==
  /\ listeners' = listeners \ Once
  /\ counted' = counted \ Once
  /\ \/ Guard \in listeners /\ counted = {} /\ Store(e) /\ UNCHANGED crashed
     \/ counted # {} /\ handed' = handed \cup {e} /\ UNCHANGED <<guardVars, crashed>>
     \/ listeners = {} /\ crashed' = TRUE /\ UNCHANGED <<guardVars, handed>>

\* Mutants: only the first stored error is captured; the stored errors are not
\* cleared; the timer is not cancelled; errors are queued instead of batches.
CaptureStored(errors, batch, timeout) ==
  IF guarded
  THEN /\ guardedTimeout' = timeout
       /\ timerError' = IF timeout = "unset" THEN {} ELSE timerError
       /\ guardedErrors' = errors
       /\ immediates' = IF guardedErrors # <<>> THEN immediates \o batch ELSE immediates
  ELSE UNCHANGED <<guardVars, immediates>>
EmitFirstStored ==
  CaptureStored(<<>>, IF guardedErrors # <<>> THEN <<<<Head(guardedErrors)>>>> ELSE <<>>, "unset")
EmitStoredKept == CaptureStored(guardedErrors, <<guardedErrors>>, "unset")
EmitStoredTimerKept == CaptureStored(<<>>, <<guardedErrors>>, guardedTimeout)
EmitStoredFlat == CaptureStored(<<>>, guardedErrors, "unset")

(* The newListener hook, for every listener but the guarding one.             *)
EmitStoredErrors ==
  IF guarded
  THEN /\ guardedTimeout' = "unset" /\ timerError' = {}
       /\ guardedErrors' = <<>>
       /\ immediates' = IF guardedErrors # <<>>
                        THEN Append(immediates, guardedErrors) ELSE immediates
  ELSE UNCHANGED <<guardVars, immediates>>

-----------------------------------------------------------------------------
(* The stream's source emits an error.                                        *)
RaiseError(e) ==
  /\ Idle /\ e \notin raised
  /\ raised' = raised \cup {e}
  /\ Emit(e)
  /\ UNCHANGED <<guarded, immediates, emitting, logged>>

(* stream.on / stream.once: the listener goes to the end of the array.        *)
AddListener(l) ==
  /\ Idle /\ l \notin listeners
  /\ listeners' = listeners \cup {l}
  /\ counted' = counted \cup {l}
  /\ EmitStoredErrors
  /\ UNCHANGED <<guarded, emitting, raised, handed, logged, crashed>>

(* Node's pipe() puts its error listener at the front of the destination's    *)
(* array (pipeSafely on a destination that is guarded already): the hook runs, *)
(* but behind the guarding listener nothing is added.                         *)
PrependListener(l) ==
  /\ Idle /\ l \notin listeners
  /\ listeners' = listeners \cup {l}
  /\ counted' = IF Guard \in listeners THEN counted ELSE counted \cup {l}
  /\ EmitStoredErrors
  /\ UNCHANGED <<guarded, emitting, raised, handed, logged, crashed>>

RemoveListener(l) ==
  /\ Idle /\ l \in listeners
  /\ listeners' = listeners \ {l}
  /\ counted' = counted \ {l}
  /\ UNCHANGED <<guarded, guardVars, immediates, emitting, raised, handed, logged, crashed>>

(* guardStream on a stream without a guard: the guarding listener goes to the *)
(* end of the array, so that those already attached do not count.             *)
GuardStream ==
  /\ Idle /\ ~guarded
  /\ guarded' = TRUE
  /\ guardedErrors' = <<>>
  /\ listeners' = listeners \cup {Guard}
  /\ counted' = {}
  /\ UNCHANGED <<guardedTimeout, timerError, immediates, emitting, raised, handed,
                 logged, crashed>>

\* Mutant: guardStream called again only removes the guarding listener.
ReGuardDetached ==
  /\ Idle /\ guarded
  /\ listeners' = listeners \ {Guard}
  /\ counted' = listeners \ {Guard}
  /\ UNCHANGED <<guarded, guardVars, immediates, emitting, raised, handed, logged, crashed>>

(* guardStream again: the guarding listener is removed and attached again, at *)
(* the end of the array; its own 'newListener' event captures nothing.        *)
ReGuardStream ==
  /\ Idle /\ guarded
  /\ listeners' = (listeners \ {Guard}) \cup {Guard}
  /\ counted' = {}
  /\ UNCHANGED <<guarded, guardVars, immediates, emitting, raised, handed, logged, crashed>>

(* The timer's callback logs the message of the error that started it; the    *)
(* handle in guardedTimeout stays set.                                        *)
TimerFires ==
  /\ Idle /\ guardedTimeout = "running"
  /\ logged' = logged \cup timerError
  /\ guardedTimeout' = "fired"
  /\ UNCHANGED <<guarded, listeners, counted, guardedErrors, timerError, immediates,
                 emitting, raised, handed, crashed>>

\* Mutant: the captured errors wait until somebody listens.
RunImmediateWhenHeard ==
  /\ Idle /\ immediates # <<>> /\ counted # {}
  /\ emitting' = Head(immediates)
  /\ immediates' = Tail(immediates)
  /\ UNCHANGED <<guarded, listeners, counted, guardVars, raised, handed, logged, crashed>>

(* The event loop starts the oldest setImmediate callback ...                 *)
RunImmediate ==
  /\ Idle /\ immediates # <<>>
  /\ emitting' = Head(immediates)
  /\ immediates' = Tail(immediates)
  /\ UNCHANGED <<guarded, listeners, counted, guardVars, raised, handed, logged, crashed>>

(* ... which emits the batch it captured, one error after the other.          *)
ReEmit ==
  /\ ~crashed /\ emitting # <<>>
  /\ Emit(Head(emitting))
  /\ emitting' = Tail(emitting)
  /\ UNCHANGED <<guarded, immediates, raised, logged>>

Next ==
  \/ \E e \in Errors : RaiseError(e)
  \/ \E l \in Listeners : AddListener(l) \/ PrependListener(l) \/ RemoveListener(l)
  \/ GuardStream \/ ReGuardStream
  \/ TimerFires \/ RunImmediate \/ ReEmit

Spec == Init /\ [][Next]_vars

(* Node runs every immediate and every timer that is due; nobody is obliged   *)
(* to attach a listener or to raise an error.                                 *)
Fairness == WF_vars(RunImmediate) /\ WF_vars(ReEmit) /\ WF_vars(TimerFires)
FairSpec == Spec /\ Fairness

-----------------------------------------------------------------------------
(* No error disappears: whatever interleaving of attaching, removing,         *)
(* re-guarding and setImmediate, an error the source raised has reached a     *)
(* counted listener, is stored, or waits in an immediate.                     *)
NothingLost == ~crashed => raised = handed \cup Held

NoRepeats(s) == \A i, j \in DOMAIN s : s[i] = s[j] => i = j
NoRepeatsIn(q) ==
  /\ \A b \in DOMAIN q : NoRepeats(q[b])
  /\ \A a, b \in DOMAIN q : a # b => SeqElems(q[a]) \cap SeqElems(q[b]) = {}

(* No error is copied: each one is in one place only, so a counted listener   *)
(* never sees an error that will be emitted again.                            *)
HeldOnce ==
  /\ handed \cap Held = {}
  /\ NoRepeats(guardedErrors) /\ NoRepeats(emitting) /\ NoRepeatsIn(immediates)
  /\ SeqElems(guardedErrors) \cap SeqElems(emitting) = {}
  /\ Batched \cap (SeqElems(guardedErrors) \cup SeqElems(emitting)) = {}

(* Errors are stored only while nobody who counts listens, and a stored error *)
(* always has a timer behind it that runs or has run; no timer runs for       *)
(* nothing.                                                                   *)
TimerCoversStored ==
  /\ guardedErrors # <<>> => counted = {} /\ guardedTimeout # "unset"
  /\ guardedTimeout # "unset" => guardedErrors # <<>> /\ timerError # {}

(* The point of the guard: once a stream has been guarded, no error of its    *)
(* source and no error emitted again finds the listener array empty, whoever   *)
(* attached, left after one call or was removed, and however often the stream  *)
(* was guarded again.                                                         *)
GuardedNeverCrashes == [][guarded => ~crashed']_vars

(* The stream implements the promise.                                         *)
Unhanded == IF crashed THEN raised \ handed ELSE Held
Delivery == INSTANCE ErrorDelivery WITH held <- Unhanded
DeliverySpec == Delivery!Spec

(* A captured error is re-emitted: it reaches a counted listener or is stored *)
(* again if the listener left before the immediate ran.                       *)
CapturedSettles ==
  \A e \in Errors : e \in Batched ~> e \in handed \cup SeqElems(guardedErrors)

(* GuardedStream.ts:79: "only error listeners attached after the stream is    *)
(* guarded will prevent an error from being logged": an error nobody listened *)
(* to has been logged when the timer has fired.                               *)
UnheardErrorsAreLogged == guardedTimeout = "fired" => SeqElems(guardedErrors) \subseteq logged
=============================================================================
