------------------------------- MODULE Parser -------------------------------
(***************************************************************************)
(* The expressions of the parser (uparse.c): each operator takes the       *)
(* context with the tokens that are left and gives it back behind the      *)
(* expression.  A program is one assignment or expression list.  Programs  *)
(* are without syntax errors, so no such error is modelled.                *)
(***************************************************************************)
EXTENDS Expressions

Relations == {"ceq", "cne", "clt", "cle", "cgt", "cge"}

(* op_precs *)
Precedence ==
  [o \in {"and", "or"} \cup BinaryOps \cup Relations \cup {"cat"} |->
     CASE o = "or"                           -> 1
       [] o = "and"                          -> 2
       [] o = "bor"                          -> 3
       [] o = "bxor"                         -> 4
       [] o = "band"                         -> 5
       [] o \in Relations                    -> 6
       [] o \in {"shl", "shr"}               -> 7
       [] o \in {"add", "sub", "cat"}        -> 8
       [] o \in {"mul", "div", "idiv", "mod"} -> 9]

(* An operator that binds no looser than prec comes next. *)
OperatorNext(c, prec) ==
  /\ Peek(c)[1] = "operator" /\ Peek(c)[2] \in DOMAIN Precedence
  /\ Precedence[Peek(c)[2]] >= prec

ContinuesAtom(c) == Peek(c)[1] \in {"(", "["}

RECURSIVE EatExpr(_, _), EatElist(_, _), Operators(_, _, _), EatCexpr(_, _, _, _),
          EatRexpr(_, _, _, _, _), Continue(_, _, _, _)

-----------------------------------------------------------------------------
(* Atoms: eatatomx, when it reads *)

EatParen(c) ==
  LET inner == EatExpr(Consume(c), 0)
      held == inner.val = "stack"
  IN HoldEnd(WrapMov(Consume(HoldVal(inner))), held)

EatArray(c) ==
  LET tr == Tmp(c.tmp)
      start == StartStack(Consume(TmpAlloc(c)), TRUE)
      list == IF Peek(start)[1] = "]" THEN start ELSE ToStack(EatElist(start, TRUE))
  IN [EndStack(Emit1(Consume(list), "mlist", tr)) EXCEPT !.op = tr]

(* A call: the region for its arguments goes away again when their number    *)
(* is known, and the call waits in "next" for where its results go.          *)
EatCall(c, f) ==
  LET start == StartStack(Consume(c), TRUE)
      region == Len(start.cd)
      callee == WrapTReg(start, f.op, f.tr)
      args == IF Peek(callee)[1] = ")" THEN [callee EXCEPT !.count = 0]
              ELSE LET l == EatElist(callee, TRUE) IN [ToStack(l) EXCEPT !.count = l.count]
      end == EndStack(Consume(args))
  IN IF args.count >= 0
     THEN [Next3(end, "dcall", callee.op, Count(args.count))
             EXCEPT !.cd[region].op = "delete"]
     ELSE Next2(end, "fcall", callee.op)

(* What follows an atom.  o is the operand so far: a value, or a call that   *)
(* waits; tr and tr2 are the registers for objects and indices, 0 until they *)
(* are needed.                                                               *)
Continue(c, o, tr, tr2) ==
  LET d == IF tr = 0 THEN TmpAlloc(c) ELSE c
      r == IF tr = 0 THEN c.tmp ELSE tr
      held == IF o[1] = "funcstack" THEN [EmitRe(d, Tmp(r)) EXCEPT !.op = Tmp(r)]
              ELSE WrapReg(d, o, Tmp(r))
      call == EatCall(held, [op |-> held.op, tr |-> Tmp(r)])
      i == IF tr2 = 0 THEN TmpAlloc(Consume(held)) ELSE Consume(held)
      r2 == IF tr2 = 0 THEN held.tmp ELSE tr2
      index == Consume(Capture(EatExpr(i, 0), Tmp(r2)))
      get == Emit3(index, "gindx", Tmp(r), held.op, Tmp(r2))
  IN CASE ~ ContinuesAtom(c)   -> [c EXCEPT !.op = o]
       [] Peek(c)[1] = "("     -> Continue(call, <<"funcstack", 0>>, r, tr2)
       [] Peek(c)[1] = "["     -> Continue(get, Tmp(r), r, r2)

EatAtom(c) ==
  LET k == Peek(c)[1]
      x == Peek(c)[2]
      next == Consume(c)
  IN CASE k = "("    -> LET p == EatParen(c) IN Continue(p, p.op, 0, 0)
       [] k = "["    -> LET a == EatArray(c) IN Continue(a, a.op, 0, 0)
       [] k = "name" -> Continue(next, c.book[x], 0, 0)
       [] k \in {"int", "float"} -> [next EXCEPT !.op = Peek(c)]
       [] k \in {"bool", "null", "string"} -> Continue(next, Peek(c), 0, 0)

-----------------------------------------------------------------------------
(* Operators *)

(* eatunary: from the operator next to the atom outward.  o is the register  *)
(* for what cannot be folded, <<>> until the first of it.                    *)
RECURSIVE EatUnary(_, _, _)
EatUnary(c, ops, o) ==
  LET u == IF o = <<>> THEN Tmp(c.tmp) ELSE o
      emitted == [EmitRe(IF o = <<>> THEN TmpAlloc(c) ELSE c, u) EXCEPT !.op = u]
  IN IF ops = <<>> THEN c
     ELSE IF c.next.op = "mov" THEN EatUnary(UFold([c EXCEPT !.next.op = Last(ops)]), Front(ops), o)
     ELSE EatUnary(Next2(emitted, Last(ops), u), Front(ops), u)

(* The right operand of a binary operator, and the left one with it. *)
Operands(c, left, plain) ==
  LET u == Tmp(c.tmp)
      o == CASE c.val # "stack" /\ c.next.op = "mov" /\ plain -> c.next.o1
             [] OTHER -> u
      d == CASE c.val = "stack" -> Capture(TmpAlloc(c), u)
             [] c.val # "stack" /\ c.next.op = "mov" /\ plain -> c
             [] OTHER -> EmitRe(TmpAlloc(c), u)
  IN [d EXCEPT !.next.o1 = left, !.next.o2 = o]

EatBinary(c, opc) ==
  LET l == WrapMov(Consume(c))
      r == Operands(EatExpr(l, Precedence[opc] + 1), l.op, TRUE)
  IN [BFold([r EXCEPT !.next.op = opc]) EXCEPT !.op = l.op]

(* eatcexpr: "and" and "or" have one label and one register for all of       *)
(* their operands.                                                           *)
EatCexpr(c, prec, t, l) ==
  LET held == c.val = "stack"
      left == HoldEnd(EmitRe(c, t), held)
      jump == Emit2(Consume(left), IF Peek(c)[2] = "and" THEN "iff" ELSE "ift", t, Label(l))
      right == HoldVal(EatExpr(jump, Precedence[Peek(c)[2]] + 1))
  IN IF OperatorNext(c, prec) THEN EatCexpr(right, prec, t, l)
     ELSE [Next2(SetLabel(left, l), "mov", t) EXCEPT !.fence = TRUE, !.val = "hold"]

(* eatrexpr: a chain of comparisons; q counts those before, up to two.  The  *)
(* result of one is in "next" or, negated, on its way through register 0.    *)
Negated(c) == Next2(EmitRe(c, Tmp(0)), "lnot", Tmp(0))
Swapped(c) == [c EXCEPT !.next.o1 = c.next.o2, !.next.o2 = c.next.o1]

Compared(c, opc) ==
  LET e == [c EXCEPT !.next.op = IF opc \in {"ceq", "cne"} THEN "ceq" ELSE "clt"]
      s == IF opc \in {"cgt", "cle"} THEN Swapped(e) ELSE e
  IN IF opc \in {"cne", "cge", "cle"} THEN Negated(s) ELSE s

EatRexpr(c, prec, left, q, t) ==
  LET opc == Peek(c)[2]
      n == Consume(c)
      t1 == IF q = 1 THEN Tmp(n.tmp) ELSE t
      l == CASE q = 0 /\ IsIntern(left)   -> [n EXCEPT !.op = left]
             [] q = 0 /\ ~ IsIntern(left) -> WrapReg(n, left, Tmp(0))
             [] q = 1 -> [EmitRe(TmpAlloc(n), t1) EXCEPT !.op = left]
             [] q = 2 -> [EmitRe(n, t1) EXCEPT !.op = left]
      r == EatExpr(l, Precedence[opc] + 1)
      o == Operands(r, l.op, IsIntern(r.next.o1))
      cmp == Compared(o, opc)
      both == IF q = 0 THEN cmp
              ELSE Next3(EmitRe(cmp, Tmp(0)), "band", t1, Tmp(0))
  IN IF ~ OperatorNext(c, prec) THEN [c EXCEPT !.val = "hold"]
     ELSE EatRexpr(both, prec, o.next.o2, IF q = 0 THEN 1 ELSE 2, t1)

(* The left operand of a comparison: the operand read last on the left, if   *)
(* "next" is a move, be it one that constant folding made of it and another. *)
LeftOperand(c) == IF c.next.op = "mov" THEN c ELSE WrapMov(c)

Operators(c, prec, op) ==
  LET opc == Peek(c)[2]
      l == LeftOperand([c EXCEPT !.op = op])
      b == EatBinary(c, opc)
      label == Len(c.lb) + 1
  IN IF ~ OperatorNext(c, prec) THEN [c EXCEPT !.val = "hold"]
     ELSE IF opc \in {"and", "or"}
     THEN Operators(EatCexpr(TmpAlloc(LblAlloc([c EXCEPT !.val = "hold"])), Precedence[opc],
                             Tmp(c.tmp), label), prec, op)
     ELSE IF opc \in Relations
     THEN Operators(EatRexpr(l, Precedence[opc], l.op, 0, None), prec, op)
     ELSE Operators(b, prec, b.op)

-----------------------------------------------------------------------------
(* eatifblk as an expression: the region it opens is not closed.  Every      *)
(* branch leaves its value in one register; the end has one label, made when *)
(* the first "else" is seen.                                                 *)
RECURSIVE EatBranch(_, _, _, _)
EatBranch(c, tr, jelse, jend) ==
  LET test == Emit2(EmitRe(HoldVal(EatExpr(Consume(c), 1)), tr), "iff", tr, Label(jelse))
      then == Consume(Capture(EatExpr(Consume([test EXCEPT !.val = "none"]), 0), tr))
      d == IF jend = 0 THEN LblAlloc(then) ELSE then
      end == IF jend = 0 THEN Len(d.lb) ELSE jend
      else == SetLabel(Emit2(d, "jmp", None, Label(end)), jelse)
      last == Capture(EatExpr(else, 0), tr)
  IN IF Peek(else)[1] = "if" THEN EatBranch(LblAlloc(else), tr, Len(else.lb) + 1, end)
     ELSE SetLabel(Consume(last), end)

EatIf(c) ==
  LET start == StartStack(LblAlloc(c), FALSE)
      branches == EatBranch(TmpAlloc(start), Tmp(start.tmp), Len(start.lb), 0)
  IN [Next2(branches, "mov", Tmp(start.tmp)) EXCEPT !.fence = TRUE, !.val = "hold"]

EatSpread(c) ==
  LET a == EatAtom(Consume(c))
      s == IF a.op[1] = "funcstack" THEN [Capture(a, Tmp(0)) EXCEPT !.op = Tmp(0)]
           ELSE WrapReg(a, a.op, Tmp(0))
  IN [Next2(s, "spread", s.op) EXCEPT !.val = "fstack"]

EatExpr(c, prec) ==
  LET past == SelectInSeq(c.in, LAMBDA t : t[1] # "operator")
      ops == [i \in 1..(past - 1) |-> c.in[i][2]]
      atom == EatAtom([c EXCEPT !.in = SubSeq(@, past, Len(@))])
      called == atom.op[1] = "funcstack"
      u == Tmp(atom.tmp)
      alone == called /\ ops = <<>> /\ ~ OperatorNext(atom, 0)
      value == IF called THEN [Capture([TmpAlloc(atom) EXCEPT !.val = "fstack"], u)
                                 EXCEPT !.op = u]
               ELSE atom
      unary == EatUnary(Next2(value, "mov", value.op), ops, <<>>)
  IN CASE prec = 0 /\ Peek(c)[1] = "if"  -> EatIf(c)
       [] prec = 0 /\ Peek(c)[1] = "..." -> EatSpread(c)
       [] alone -> [atom EXCEPT !.val = "fstack"]
       [] OTHER -> Operators(unary, prec, unary.op)

(* eatelist: registers are free again after each value. *)
EatElist(c, stack) ==
  LET tr == c.tmp
      e == EatExpr(IF stack THEN StartStack(c, FALSE) ELSE c, 0)
      many == e.val \in {"stack", "fstack"}
      v == [IF stack THEN ToStack(e) ELSE KillValue(e) EXCEPT !.tmp = tr]
      rest == EatElist(Consume(v), stack)
      more == Peek(v)[1] = ","
      count == CASE more /\ rest.count >= 0 /\ ~ many -> rest.count + 1
                 [] ~ more /\ ~ many -> 1
                 [] OTHER -> -1
  IN [IF more THEN rest ELSE v EXCEPT !.count = count]

-----------------------------------------------------------------------------
(* Assignments.  A statement has the names it assigns to, of which the one   *)
(* with the number "rest" has an ellipsis, and the operation of a compound   *)
(* assignment or "none"; without names it is a list of expressions.          *)

IsMov(op) == op \in {"mov", "gpub", "gbind", "mlist", "ndict"}

(* unwrapwr, and unwrapmov in a compound assignment: the instruction that    *)
(* has set o is left out again, to be emitted for another operand.           *)
Unwrap(c, o, op) ==
  IF /\ c.cd # <<>> /\ o[1] = "tmp" /\ Last(c.cd).o0 = o
     /\ IF op = "none" THEN WritesFirst(Last(c.cd).op) ELSE IsMov(Last(c.cd).op)
  THEN [c EXCEPT !.next = Last(c.cd), !.cd = Front(@)] ELSE c

(* One target: the first value goes to x, by the operation op; those after   *)
(* it go to register 0.                                                      *)
RECURSIVE AssignOne(_, _, _, _)
AssignOne(c, x, op, compound) ==
  LET e == EatExpr(c, 0)
      held == e.val = "stack"
      w == WrapMov(HoldVal(e))
      u == Unwrap(w, w.op, compound)
      set == IF op = "none" THEN EmitRe(u, x) ELSE Emit3(u, op, x, x, w.op)
      end == HoldEnd(set, held)
  IN IF Peek(end)[1] = "," THEN AssignOne(Consume(end), Tmp(0), "none", compound) ELSE end

(* Several targets: all values go to the stack first.  How many there are    *)
(* behind the ellipsis is filled in when all targets have been read.         *)
AssignMany(c, targets, rest, op) ==
  LET n == Len(targets)
      list == ToStack(EatElist(StartStack(c, TRUE), TRUE))
      check == Emit2(list, "stkge", None, Count(IF rest = 0 THEN n ELSE n - 1))
      assign(d, i) ==
        LET t == targets[i]
            value == IF rest # 0 /\ i > rest THEN <<"stackneg", n - i + 1>> ELSE <<"stack", i - 1>>
        IN CASE i = rest                  -> Emit3(d, "mlistp", t, Count(i - 1), Count(n - i))
             [] i # rest /\ op = "none"   -> Emit2(d, "mov", t, value)
             [] i # rest /\ op # "none"   -> Emit3(d, op, t, t, value)
  IN KillValue([FoldLeft(assign, check, [i \in 1..n |-> i]) EXCEPT !.val = "stack"])

(* eateqlist, eatcompoundeqlist *)
EatStatement(c, s) ==
  LET targets == [i \in DOMAIN s.names |-> c.book[s.names[i]]]
  IN CASE targets = <<>>                    -> EatElist(c, FALSE)
       [] Len(targets) = 1 /\ s.rest = 0    -> AssignOne(c, targets[1], s.op, s.op)
       [] Len(targets) > 1 \/ s.rest = 1    -> AssignMany(c, targets, s.rest, s.op)

(* patchjumps *)
PatchJumps(c) ==
  [i \in 1..Len(c.cd) |->
     IF c.cd[i].o1[1] = "jump" THEN [c.cd[i] EXCEPT !.o1 = Label(c.lb[@[2]])] ELSE c.cd[i]]

Parse(in, book, s) == PatchJumps(EatStatement(Start(in, book), s))
=============================================================================
