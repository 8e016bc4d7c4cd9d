------------------------------- MODULE Lists -------------------------------
(***************************************************************************)
(* What docs/Array.md and docs/Blob.md say of arrays and blobs: a list of  *)
(* items, counted from 0, or backwards from its end if an index is         *)
(* negative; a call that fails leaves the list as it was.  The list holds  *)
(* one reference to each of its items, and no lock between two calls.      *)
(***************************************************************************)
EXTENDS Integers, SequencesExt, FiniteSetsExt

CONSTANTS Bad,    \* a value that is no byte
          Counted \* items that are counted

VARIABLES list, refs, locks, call, result, at

listVars == <<list, refs, locks, call, result, at>>

Error == <<"error">>
None == <<>>

From(s, i) == IF i < 0 THEN i + Len(s) ELSE i
Opt(s, i, default) == IF i = <<>> THEN default ELSE From(s, i[1])
IsPart(s, k, v) == SubSeq(s, k + 1, k + Len(v)) = v
Where(s, v, p(_)) == {k \in 0..(Len(s) - Len(v)) : p(k) /\ IsPart(s, k, v)}
FirstOf(places) == IF places = {} THEN <<-1>> ELSE <<Min(places)>>
LastOf(places) == IF places = {} THEN <<-1>> ELSE <<Max(places)>>
Section(s, i, j) == SubSeq(s, i + 1, j)
Repeated(s, n) == FlattenSeq([k \in 1..n |-> s])
Same(s, r) == [list |-> s, result |-> r]
Becomes(s) == [list |-> s, result |-> None]

(* The list and the result after call c on list s.  begin and end are the    *)
(* indices of a section.                                                     *)
Told(c, s) ==
  LET n == Len(s)
      i == Opt(s, c.i, 0)
      end == LET e == Opt(s, c.j, n) IN IF e > n THEN n ELSE e
      cnt == IF c.j = <<>> THEN 1 ELSE c.j[1]
      inside == i \in 0..(n - 1)
      bad == \E k \in DOMAIN c.v : c.v[k] = Bad
  IN CASE c.op = "get" -> Same(s, IF inside THEN <<s[i + 1]>> ELSE Error)
     [] c.op = "set" -> IF inside /\ ~ bad THEN Becomes([s EXCEPT ![i + 1] = c.v[1]])
                        ELSE Same(s, Error)
     [] c.op \in {"push", "pushall"} -> IF bad THEN Same(s, Error) ELSE Becomes(s \o c.v)
     [] c.op = "pop" -> IF n = 0 THEN Same(s, Error)
                        ELSE [list |-> SubSeq(s, 1, n - 1), result |-> <<s[n]>>]
     [] c.op \in {"insert", "insertall"} ->
          IF i \notin 0..n \/ bad THEN Same(s, Error)
          ELSE Becomes(SubSeq(s, 1, i) \o c.v \o SubSeq(s, i + 1, n))
     [] c.op = "remove" -> IF i \notin 0..n \/ cnt < 0 THEN Same(s, Error)
                           ELSE Becomes(SubSeq(s, 1, i) \o SubSeq(s, i + cnt + 1, n))
     [] c.op = "clear" -> Becomes(<<>>)
     [] c.op = "reverse" -> Becomes(Reverse(s))
     [] c.op = "copy" -> Same(s, s)
     [] c.op = "length" -> Same(s, <<n>>)
     [] c.op = "repeat" -> Same(s, IF cnt < 0 THEN Error ELSE Repeated(s, cnt))
     [] c.op = "sub" -> Same(s, IF i \in 0..n /\ i < end THEN Section(s, i, end) ELSE <<>>)
     [] c.op = "find" -> Same(s, FirstOf(Where(s, c.v, LAMBDA k : k >= i /\ i >= 0)))
     [] c.op = "findlast" ->
          Same(s, LastOf(Where(s, c.v, LAMBDA k : k <= Opt(s, c.i, n))))
     [] c.op = "fill" ->
          IF bad THEN Same(s, Error)
          ELSE Becomes([k \in 1..n |-> IF i >= 0 /\ k \in (i + 1)..end THEN c.v[1] ELSE s[k]])
     [] c.op = "resize" ->
          IF cnt < 0 THEN Same(s, Error)
          ELSE Becomes([k \in 1..cnt |-> IF k <= n THEN s[k] ELSE 0])
     [] c.op = "next" -> Same(s, IF at < n THEN <<s[at + 1]>> ELSE None)

NoCall == [op |-> "none"]

Held(s) == [x \in Counted |-> Cardinality({k \in DOMAIN s : s[k] = x})]

Init ==
  /\ list = <<>> /\ refs = Held(<<>>) /\ locks = 0
  /\ call = NoCall /\ result = None /\ at = 0

Call(c) ==
  /\ call = NoCall /\ c # NoCall
  /\ call' = c
  /\ list' = Told(c, list).list
  /\ refs' = Held(list') /\ UNCHANGED locks
  /\ result' = Told(c, list).result
  /\ at' = IF c.op = "next" /\ at < Len(list) THEN at + 1 ELSE at

Taken ==
  call # NoCall /\ call' = NoCall /\ result' = None /\ UNCHANGED <<list, refs, locks, at>>

Spec == Init /\ [][Call(call') \/ Taken]_listVars
=============================================================================
