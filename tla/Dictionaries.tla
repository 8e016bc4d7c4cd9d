---------------------------- MODULE Dictionaries ----------------------------
(***************************************************************************)
(* What a program may rely on: tables and objects are finite maps.  A key  *)
(* is set, deleted or looked up without an effect on any other, a frozen   *)
(* object stays as it is, a copy holds what the original holds.            *)
(***************************************************************************)
EXTENDS Functions

CONSTANTS Containers,  \* the tables and objects
          Keys,        \* what may be a key, equal keys being one
          Values

VARIABLES map,         \* of each container, its keys with their values
          frozen       \* the objects that are frozen

mapVars == <<map, frozen>>

Set(m, c, k, v) ==
  [m EXCEPT ![c] = [j \in DOMAIN @ \cup {k} |-> IF j = k THEN v ELSE @[j]]]

Delete(m, c, k) == [m EXCEPT ![c] = Restrict(@, DOMAIN @ \ {k})]

Copy(m, c, d) == [m EXCEPT ![d] = m[c]]

(* What m may become in a step. *)
Changed(m) ==
  {Set(m, c, k, v) : c \in Containers \ frozen, k \in Keys, v \in Values}
  \cup {Delete(m, c, k) : c \in Containers \ frozen, k \in Keys}
  \cup {Copy(m, c, d) : c \in Containers, d \in Containers \ frozen}

Init == map = [c \in Containers |-> << >>] /\ frozen = {}

Next ==
  \/ map' \in Changed(map) /\ UNCHANGED frozen
  \/ \E c \in Containers : frozen' = frozen \cup {c} /\ UNCHANGED map

Spec == Init /\ [][Next]_mapVars
=============================================================================
