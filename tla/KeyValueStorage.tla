-------------------------- MODULE KeyValueStorage --------------------------
(***************************************************************************)
(* The key-value storages: the maps behind MemoryMapStorage, and the       *)
(* EncodingNamespaceStorage that keeps one namespace of keys in such a map.*)
(*                                                                         *)
(* A key of the map is the text namespace:base64 of a key; here the pair   *)
(* of the namespace and the encoded key.                                   *)
(***************************************************************************)
CONSTANTS
    Stores,         \* the maps
    Namespaces,
    Keys, Values,
    NoValue,
    base64,         \* the encoding of each key, which holds no delimiter
    Longer,         \* the texts of namespaces that start with each namespace
    Garbled         \* what the rest of a key of another namespace decodes to

ASSUME ValueAssumption == NoValue \notin Values

\* Base64 can be decoded.
ASSUME EncodingAssumption ==
    \A k, l \in Keys : base64[k] = base64[l] => k = l

ASSUME GarbledAssumption == Garbled \notin Keys

\* No configured namespace is the beginning of another one, as the delimiter
\* is not part of what entries() compares.
ASSUME NamespaceAssumption ==
    \A n \in Namespaces : Longer[n] \cap Namespaces = {n}

VARIABLE data       \* what each map holds for each of its keys

NamespacedKeys == Namespaces \X {base64[k] : k \in Keys}

Nothing == [k \in NamespacedKeys |-> NoValue]

DataOK == data \in [Stores -> [NamespacedKeys -> Values \cup {NoValue}]]

Present(s) == {k \in NamespacedKeys : data[s][k] # NoValue}

---------------------------------------------------------------------------
(* EncodingNamespaceStorage.                                               *)

addNamespaceToKey(namespace, key) == <<namespace, base64[key]>>

\* The text behind the namespace and one more character is decoded.
removeNamespaceFromKey(namespace, namespacedKey) ==
    IF namespacedKey[1] = namespace
    THEN CHOOSE k \in Keys : base64[k] = namespacedKey[2]
    ELSE Garbled

\* Mutant: every entry of the map is relevant.
EveryEntry(namespace, namespacedKey) == TRUE

\* namespacedKey.startsWith(namespace)
StartsWith(namespace, namespacedKey) == namespacedKey[1] \in Longer[namespace]

Get(s, namespace, key) == data[s][addNamespaceToKey(namespace, key)]

SetKey(s, namespacedKey, value) == data' = [data EXCEPT ![s][namespacedKey] = value]

Set(s, namespace, key, value) == SetKey(s, addNamespaceToKey(namespace, key), value)

Delete(s, namespace, key) == SetKey(s, addNamespaceToKey(namespace, key), NoValue)
============================================================================
