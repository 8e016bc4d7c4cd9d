------------------------------ MODULE Meaning ------------------------------
(***************************************************************************)
(* What expressions of Uncil mean and how they are written (docs/Grammar.md *)
(* and docs/Operators.md), the reference for the code that the parser      *)
(* makes of them.  A tree is a tuple of its kind and its parts.            *)
(***************************************************************************)
EXTENDS Operators, SequencesExt

-----------------------------------------------------------------------------
(* The functions that programs call: a sequence of results, or an error as   *)
(* the only one.                                                             *)
Results(f, args) ==
  CASE f = "twice" -> args \o args
    [] f = "none"  -> <<>>
    [] f = "count" -> <<Integer(Len(args))>>
    [] f = "both"  -> <<Integer(1), Integer(2)>>
    [] f = "fail"  -> <<Error("called")>>

One(vs) == IF vs = <<>> THEN Null ELSE vs[1]

Called(f, args) ==
  IF f[1] = "function" THEN Results(f[2], args) ELSE <<Error("not a function")>>

(* What a spread gives (dolspr), of an array. *)
Elements(v) == IF v[1] = "array" THEN v[2] ELSE <<Error("not iterable")>>

(* unc0_vgetindx, of an array *)
ElementAt(a, i) ==
  IF a[1] # "array" THEN Error("not indexable")
  ELSE IF i[1] # "int" THEN Error("not an integer")
  ELSE LET n == IF i[2] < 0 THEN i[2] + Len(a[2]) ELSE i[2]
       IN IF n \in 0..(Len(a[2]) - 1) THEN a[2][n + 1] ELSE Error("out of bounds")

-----------------------------------------------------------------------------
(* Evaluation: the values of an expression, and the calls made so far. *)

Failed(vs) == vs # <<>> /\ IsError(vs[1])
Result(v, log) == [vs |-> <<v>>, log |-> log]

Related(op, a, b) ==
  LET v == CASE op \in {"ceq", "cne"} -> Equal(a, b)
             [] op \in {"clt", "cge"} -> Less(a, b)
             [] op \in {"cgt", "cle"} -> Less(b, a)
  IN IF IsError(v) THEN v ELSE Boolean((op \in {"cne", "cge", "cle"}) # v[2])

RECURSIVE Evaluate(_, _, _), EvaluateAll(_, _, _), Chain(_, _, _, _, _, _)

(* The values of several expressions, one after the other. *)
EvaluateAll(ts, pubs, log) ==
  IF ts = <<>> THEN [vs |-> <<>>, log |-> log]
  ELSE LET first == Evaluate(Head(ts), pubs, log)
           rest == EvaluateAll(Tail(ts), pubs, first.log)
       IN IF Failed(first.vs) THEN first
          ELSE IF Failed(rest.vs) THEN rest
          ELSE [vs |-> first.vs \o rest.vs, log |-> rest.log]

(* One value of each, instead. *)
Pair(l, r, pubs, log) ==
  LET a == Evaluate(l, pubs, log)
      b == Evaluate(r, pubs, a.log)
  IN IF Failed(a.vs) THEN a ELSE IF Failed(b.vs) THEN b
     ELSE [vs |-> <<One(a.vs), One(b.vs)>>, log |-> b.log]

(* A chain of comparisons evaluates each operand once, and all of them. *)
Chain(ops, left, ts, sofar, pubs, log) ==
  LET r == Evaluate(Head(ts), pubs, log)
      v == Related(Head(ops), left, One(r.vs))
      both == Boolean(sofar[2] /\ v[2])
  IN IF ops = <<>> THEN Result(sofar, log)
     ELSE IF Failed(r.vs) THEN r
     ELSE IF IsError(v) THEN Result(v, r.log)
     ELSE Chain(Tail(ops), One(r.vs), Tail(ts), both, pubs, r.log)

Evaluate(t, pubs, log) ==
  CASE t[1] = "value" -> Result(t[2], log)
    [] t[1] = "name"  -> Result(pubs[t[2]], log)
    [] t[1] = "call"  ->
         LET args == EvaluateAll(t[3], pubs, log)
             f == pubs[t[2]]
         IN IF Failed(args.vs) THEN args
            ELSE [vs |-> Called(f, args.vs),
                  log |-> IF f[1] = "function" THEN Append(args.log, <<f[2], args.vs>>)
                          ELSE args.log]
    [] t[1] = "list"  ->
         LET es == EvaluateAll(t[2], pubs, log)
         IN IF Failed(es.vs) THEN es ELSE Result(<<"array", es.vs>>, es.log)
    [] t[1] = "spread" ->
         LET a == Evaluate(t[2], pubs, log)
         IN IF Failed(a.vs) THEN a ELSE [a EXCEPT !.vs = Elements(One(a.vs))]
    [] t[1] = "index" ->
         LET p == Pair(t[2], t[3], pubs, log)
         IN IF Failed(p.vs) THEN p ELSE Result(ElementAt(p.vs[1], p.vs[2]), p.log)
    [] t[1] = "unary" ->
         LET a == Evaluate(t[3], pubs, log)
         IN IF Failed(a.vs) THEN a
            ELSE Result(IF t[2] = "lnot" THEN Boolean(~ Truth(One(a.vs)))
                        ELSE Unary(t[2], One(a.vs)), a.log)
    [] t[1] = "binary" ->
         LET p == Pair(t[3], t[4], pubs, log)
         IN IF Failed(p.vs) THEN p ELSE Result(Binary(t[2], p.vs[1], p.vs[2]), p.log)
    [] t[1] = "logic" ->
         LET a == Evaluate(t[3], pubs, log)
             b == Evaluate(t[4], pubs, a.log)
         IN IF Failed(a.vs) THEN a
            ELSE IF Truth(One(a.vs)) = (t[2] = "or") THEN Result(One(a.vs), a.log)
            ELSE IF Failed(b.vs) THEN b ELSE Result(One(b.vs), b.log)
    [] t[1] = "compare" ->
         LET a == Evaluate(t[3][1], pubs, log)
         IN IF Failed(a.vs) THEN a
            ELSE Chain(t[2], One(a.vs), Tail(t[3]), Boolean(TRUE), pubs, a.log)
    [] t[1] = "if" ->
         LET c == Evaluate(t[2], pubs, log)
             v == Evaluate(IF Truth(One(c.vs)) THEN t[3] ELSE t[4], pubs, c.log)
         IN IF Failed(c.vs) THEN c ELSE IF Failed(v.vs) THEN v ELSE Result(One(v.vs), v.log)

-----------------------------------------------------------------------------
(* What the statement s gives to the variables it assigns to, where "pubs"   *)
(* has the values of all variables, or the error it ends in.  One name takes *)
(* null if there is no value; the name with an ellipsis takes what the       *)
(* others leave.                                                             *)

Sharing(names, rest, vs) ==
  LET n == Len(names)
  IN IF n = 1 /\ rest = 0 THEN <<One(vs)>>
     ELSE [i \in 1..n |->
             IF i = rest THEN <<"array", SubSeq(vs, i, Len(vs) - (n - i))>>
             ELSE IF rest # 0 /\ i > rest THEN vs[Len(vs) - (n - i)] ELSE vs[i]]

Required(s) ==
  IF Len(s.names) < 2 /\ s.rest = 0 THEN 0
  ELSE IF s.rest = 0 THEN Len(s.names) ELSE Len(s.names) - 1

Assigned(s, pubs) ==
  LET all == EvaluateAll(s.values, pubs, <<>>)
      got == Sharing(s.names, s.rest, all.vs)
      done == IF s.op = "none" THEN got
              ELSE [i \in DOMAIN got |-> Binary(s.op, pubs[s.names[i]], got[i])]
      wrong == SelectSeq(done, IsError)
  IN CASE Failed(all.vs) -> all
       [] ~ Failed(all.vs) /\ Len(all.vs) < Required(s) -> Result(Error("too few"), all.log)
       [] OTHER -> [all EXCEPT !.vs = IF wrong = <<>> THEN done ELSE <<wrong[1]>>]

-----------------------------------------------------------------------------
(* The tokens of a tree, with parentheses where precedence needs them. *)

Binds(t) ==
  CASE t[1] \in {"if", "spread"}  -> 0
    [] t[1] = "logic"             -> IF t[2] = "or" THEN 1 ELSE 2
    [] t[1] = "compare"           -> 6
    [] t[1] = "unary"             -> 10
    [] t[1] = "binary" ->
         (CASE t[2] = "bor" -> 3 [] t[2] = "bxor" -> 4 [] t[2] = "band" -> 5
            [] t[2] \in {"shl", "shr"} -> 7
            [] t[2] \in {"add", "sub", "cat"} -> 8
            [] t[2] \in {"mul", "div", "idiv", "mod"} -> 9)
    [] OTHER -> 11

Mark(k) == <<<<k, 0>>>>
Operator(op) == <<<<"operator", op>>>>

RECURSIVE Tokens(_), Listed(_)
Above(t, prec) == IF Binds(t) > prec THEN Tokens(t) ELSE Mark("(") \o Tokens(t) \o Mark(")")

Listed(ts) ==
  CASE Len(ts) = 0 -> <<>>
    [] Len(ts) = 1 -> Tokens(ts[1])
    [] OTHER -> Tokens(ts[1]) \o Mark(",") \o Listed(Tail(ts))

Tokens(t) ==
  CASE t[1] = "value"  -> <<t[2]>>
    [] t[1] = "name"   -> <<t>>
    [] t[1] = "call"   -> <<<<"name", t[2]>>>> \o Mark("(") \o Listed(t[3]) \o Mark(")")
    [] t[1] = "list"   -> Mark("[") \o Listed(t[2]) \o Mark("]")
    [] t[1] = "spread" -> Mark("...") \o Above(t[2], 10)
    [] t[1] = "index"  -> Above(t[2], 10) \o Mark("[") \o Tokens(t[3]) \o Mark("]")
    [] t[1] = "unary"  -> Operator(t[2]) \o Above(t[3], 9)
    [] t[1] \in {"binary", "logic"} ->
         Above(t[3], Binds(t) - 1) \o Operator(t[2]) \o Above(t[4], Binds(t))
    [] t[1] = "compare" ->
         FoldLeft(LAMBDA s, i : s \o Operator(t[2][i]) \o Above(t[3][i + 1], 6),
                  Above(t[3][1], 6), [i \in DOMAIN t[2] |-> i])
    [] t[1] = "if" -> Mark("if") \o Above(t[2], 0) \o Mark("then") \o Tokens(t[3])
                      \o Mark("else") \o Tokens(t[4]) \o Mark("end")
=============================================================================
