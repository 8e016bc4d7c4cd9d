------------------------------- MODULE Values -------------------------------
(***************************************************************************)
(* The values the data formats read and write.  Arrays and tables have an  *)
(* identity: what is written is a reference into a heap of them, and may   *)
(* hold itself.  What is read is a tree.                                   *)
(***************************************************************************)
EXTENDS Integers, SequencesExt, FiniteSetsExt

CONSTANT RecurseLimit

VNull == [k |-> "null"]
VBool(b) == [k |-> "bool", b |-> b]
VInt(i) == [k |-> "int", i |-> i]
VStr(s) == [k |-> "str", s |-> s]
VBlob(s) == [k |-> "blob", s |-> s]
VFloat(m, e) == [k |-> "float", m |-> m, e |-> e]  \* m * 10^e
VTag(t, v) == [k |-> "tag", tag |-> t, data |-> v]
VArr(items) == [k |-> "arr", items |-> items]
VTable(pairs) == [k |-> "table", pairs |-> pairs]  \* a set of pairs

Ref(r) == [k |-> "ref", r |-> r]

(* Whether v leads to one of the containers in path, or to itself.           *)
Kids(heap, r) ==
  IF heap[r].k = "arr" THEN ToSet(heap[r].items)
  ELSE UNION {{p[1], p[2]} : p \in ToSet(heap[r].items)}

RECURSIVE Loops(_, _, _)
Loops(heap, v, path) ==
  v.k = "ref" /\ (v.r \in path \/ \E w \in Kids(heap, v.r) : Loops(heap, w, path \cup {v.r}))

(* The tree of a value that does not loop. *)
RECURSIVE TreeOf(_, _)
TreeOf(heap, v) ==
  IF v.k # "ref" THEN v
  ELSE IF heap[v.r].k = "arr"
    THEN VArr([i \in DOMAIN heap[v.r].items |-> TreeOf(heap, heap[v.r].items[i])])
  ELSE VTable({<<p[1], TreeOf(heap, p[2])>> : p \in ToSet(heap[v.r].items)})

(* What a step of reading or writing gives. *)
Ok(v, p) == [ok |-> TRUE, v |-> v, p |-> p]
Err == [ok |-> FALSE, v |-> VNull, p |-> 0]

Wrote(out) == [ok |-> TRUE, out |-> out]
Failed == [ok |-> FALSE, out |-> <<>>]
Then(a, b) == IF a.ok /\ b.ok THEN Wrote(a.out \o b.out) ELSE Failed
InTurn(parts) == FoldLeft(Then, Wrote(<<>>), parts)

(* A table with a key set. *)
Entered(items, key, v) == {p \in items : p[1] # key} \cup {<<key, v>>}
=============================================================================
