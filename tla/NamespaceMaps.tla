--------------------------- MODULE NamespaceMaps ---------------------------
(***************************************************************************)
(* What the namespaces of a key-value storage promise: every namespace is  *)
(* a map of its own.  A reply names a key of the namespace with the value  *)
(* the map holds for it; a walk over a namespace ends only when it has     *)
(* yielded each entry that was there from its start to its end.            *)
(***************************************************************************)
CONSTANTS Stores, Users, Namespaces, Keys, Values, NoValue, NoReply, NoNamespace

VARIABLES
    maps,       \* [store, namespace, key -> value or NoValue]
    walking,    \* the namespace each user walks over, or NoNamespace
    waiting,    \* the keys a walk has to yield if they stay
    reply       \* what the last step returned

vars == <<maps, walking, waiting, reply>>

Empty == [n \in Namespaces |-> [k \in Keys |-> NoValue]]

Init ==
    /\ maps = [s \in Stores |-> Empty]
    /\ walking = [u \in Users |-> NoNamespace]
    /\ waiting = [u \in Users |-> {}]
    /\ reply = NoReply

Answer(n, k, v) == [namespace |-> n, key |-> k, value |-> v]

Present(s, n) == {k \in Keys : maps[s][n][k] # NoValue}

\* One key of one namespace is set or deleted.
Change(s, n, k) ==
    /\ reply' = NoReply
    /\ UNCHANGED <<walking, waiting>>
    /\ maps'[s][n][k] \in Values \cup {NoValue}
    /\ maps' = [maps EXCEPT ![s][n][k] = maps'[s][n][k]]

Get(s, n, k) ==
    /\ reply' = Answer(n, k, maps[s][n][k])
    /\ UNCHANGED <<maps, walking, waiting>>

Begin(u, s, n) ==
    /\ walking' = [walking EXCEPT ![u] = n]
    /\ waiting' = [waiting EXCEPT ![u] = Present(s, n)]
    /\ reply' = NoReply
    /\ UNCHANGED maps

Yield(u, s, k) ==
    /\ walking[u] # NoNamespace
    /\ k \in Present(s, walking[u])
    /\ reply' = Answer(walking[u], k, maps[s][walking[u]][k])
    /\ waiting' = [waiting EXCEPT ![u] = @ \ {k}]
    /\ UNCHANGED <<maps, walking>>

End(u, s) ==
    /\ walking[u] # NoNamespace
    /\ waiting[u] \cap Present(s, walking[u]) = {}
    /\ walking' = [walking EXCEPT ![u] = NoNamespace]
    /\ waiting' = [waiting EXCEPT ![u] = {}]
    /\ reply' = NoReply
    /\ UNCHANGED maps

\* A user is gone, and with it the store it kept in memory, if it had one.
Leave(u, s) ==
    /\ walking' = [walking EXCEPT ![u] = NoNamespace]
    /\ waiting' = [waiting EXCEPT ![u] = {}]
    /\ reply' = NoReply
    /\ \/ UNCHANGED maps
       \/ maps' = [maps EXCEPT ![s] = Empty]

\* Nothing of what the namespaces promise changes.
Other == reply' = NoReply /\ UNCHANGED <<maps, walking, waiting>>

Next ==
    \/ Other
    \/ \E s \in Stores :
          \/ \E n \in Namespaces, k \in Keys :
                Get(s, n, k) \/ Change(s, n, k)
          \/ \E u \in Users :
                \/ \E n \in Namespaces : Begin(u, s, n)
                \/ \E k \in Keys : Yield(u, s, k)
                \/ End(u, s)
                \/ Leave(u, s)

Spec == Init /\ [][Next]_vars
============================================================================
