------------------------------ MODULE MCTables ------------------------------
(* Two kinds of programs: one fills a table with five keys, so that it grows *)
(* from four buckets to eight and shrinks again; the others use few keys     *)
(* with a table, its copy and an object.  The hashes put two keys into one   *)
(* bucket of four that are apart in one of eight.                            *)
EXTENDS Tables

CONSTANTS t, u, o

MCKeys == {"a", "b", "c", "d", "e"}

MCHashOf == [k \in MCKeys |->
  CASE k = "a" -> 1 [] k = "b" -> 5 [] k = "c" -> 2 [] k = "d" -> 10 [] k = "e" -> 7]

MCEqualTo == [k \in MCKeys |-> k]

MCUses ==
  LET keys(ts, us, os) == t :> ts @@ u :> us @@ o :> os
  IN {[keys |-> keys(MCKeys, {}, {}), values |-> {1}],
      [keys |-> keys({"a", "b"}, {"a", "b"}, {}), values |-> {1}],
      [keys |-> keys({"a"}, {}, {"a", "b"}), values |-> {1, 2}]}
=============================================================================
