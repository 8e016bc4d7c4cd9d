------------------------------ MODULE Codegen ------------------------------
(***************************************************************************)
(* The code generator for statements (uparse.c) and what the optimiser     *)
(* (uoptim.c) does to its code before it is assembled (ucomp.c).           *)
(*                                                                         *)
(* A body is a sequence of statements, records with the field "s".  Of an  *)
(* expression only what matters to the stacks of the VM is kept: a value   *)
(* "v" that leads to no call, or a call "f".  An instruction names where   *)
(* its result goes (dst), a count (arg) and a target (to); registers and   *)
(* operands are left out.  The field "at" is not the compiler's: it is the *)
(* lexical scope the instruction belongs to, that is the try blocks and    *)
(* with blocks around it, and whether it is amid an expression.            *)
(***************************************************************************)
EXTENDS Integers, Sequences, FiniteSets, SequencesExt

NoScope == [tries |-> <<>>, withs |-> <<>>, mid |-> FALSE]

(* struct Unc_ParserContext, as far as control flow needs it.                *)
Context == [cd |-> <<>>, lb |-> <<>>, plb |-> <<>>, withbs |-> 0,
            withbanchor |-> 0, xfence |-> FALSE, at |-> NoScope]

Here(c) == Len(c.cd) + 1
(* pushins, by way of emit0 to emit3 *)
Emit(c, op, dst, arg, to) ==
  [c EXCEPT !.cd = Append(@, [op |-> op, dst |-> dst, arg |-> arg, to |-> to,
                              at |-> c.at]),
            !.xfence = FALSE]
Op(c, op) == Emit(c, op, "none", 0, 0)
Jump(c, op, label) == Emit(c, op, "none", 0, label)
Eval(c) == Op(c, "eval")

(* lblalloc: the first of n new labels is Fresh(c). *)
Fresh(c) == Len(c.lb) + 1
Labels(c, n) == [c EXCEPT !.lb = @ \o [i \in 1..n |-> 0]]
SetLabel(c, l) == [c EXCEPT !.lb[l] = Here(c)]
Mid(c, m) == [c EXCEPT !.at.mid = m]

-----------------------------------------------------------------------------
(* Expressions.  A region (PUSHF) is set up before it is known whether it    *)
(* is needed, and deleted when the number of values is known.                *)

(* The arguments of the calls there are: f(), f(x), and f(f()).              *)
Args == [f |-> <<>>, fx |-> <<"v">>, ff |-> <<"f">>]
Known(vs) == \A i \in 1..Len(vs) : vs[i] = "v"

(* The call in eatatomr. *)
Call0(c, dst) == Emit(Op(c, "delete"), "dcall", dst, 0, 0)
Arg(c, v) == IF v = "v" THEN Op(c, "push") ELSE Call0(c, "stack")
EatCall(c, args, dst) ==
  LET known == Known(args)
      list == FoldLeft(Arg, Op(c, IF known THEN "delete" ELSE "pushf"), args)
  IN  IF known THEN Emit(list, "dcall", dst, Len(args), 0)
      ELSE Emit(list, "fcall", dst, 0, 0)

(* eatelist, onto the stack *)
Value(c, v) == IF v = "v" THEN Op(c, "push") ELSE EatCall(c, Args[v], "stack")
EatElist(c, vs) == FoldLeft(Value, c, vs)

(* Mutant: several values are returned without a region of their own. *)
EatReturnBare(c, vs) ==
  IF vs = <<>> THEN Op(c, "exit0")
  ELSE Mid(Op(EatElist(Op(Mid(c, TRUE), "delete"), vs),
              IF vs = <<"v">> THEN "exit1" ELSE "end"), FALSE)

(* The return statement in eatblock. *)
EatReturn(c, vs) ==
  LET one  == vs = <<"v">>
      list == EatElist(Op(Mid(c, TRUE), IF one THEN "delete" ELSE "pushf"), vs)
  IN  IF vs = <<>> THEN Op(c, "exit0")
      ELSE IF one THEN [Mid(list, FALSE) EXCEPT
                          !.cd[Len(list.cd)].op = "exit1"]
      ELSE Mid(Op(list, "end"), FALSE)

-----------------------------------------------------------------------------
(* Statements *)

(* break and continue: the with blocks inside the loop are left one by one.  *)
RECURSIVE LeaveWiths(_, _)
LeaveWiths(c, n) ==
  IF n = 0 THEN c
  ELSE LeaveWiths([Op(c, "wpop") EXCEPT !.at.withs = Front(@)], n - 1)

EatBreak(c, off) ==
  [Jump(LeaveWiths(c, c.withbs - c.withbanchor), "jmp", Last(c.plb) + off)
     EXCEPT !.at = c.at]

(* Mutant: a loop does not remember the with blocks it is inside of. *)
EnterLoopKeepAnchor(c, l) == [c EXCEPT !.plb = Append(@, l)]

(* enterloop, leaveloop *)
EnterLoop(c, l) ==
  [c EXCEPT !.plb = Append(@, l), !.withbanchor = c.withbs]
LeaveLoop(c, outer) ==
  [c EXCEPT !.plb = Front(@), !.withbanchor = outer.withbanchor]

(* Mutant: a jump to the end of the code is not thought of. *)
EndFunctionUnfenced(c) ==
  IF c.cd # <<>> /\ Last(c.cd).op \in {"end", "exit0", "exit1"}
  THEN c ELSE Op(c, "exit0")

(* BLOCK_KIND_FUNCTION: an exit is added unless the code ends in one. *)
EndFunction(c) ==
  IF /\ c.cd # <<>> /\ Last(c.cd).op \in {"end", "exit0", "exit1"}
     /\ ~ c.xfence
  THEN c ELSE Op(c, "exit0")

RECURSIVE EatBlock(_, _)

EatIf(c, s) ==
  LET l == Fresh(c)
      then == EatBlock(Jump(Eval(Labels(c, 2)), "iff", l), s.body)
      else == EatBlock(SetLabel(Jump(then, "jmp", l + 1), l), s.else)
      end == IF s.else = <<>> THEN SetLabel(then, l) ELSE SetLabel(else, l + 1)
  IN  [end EXCEPT !.xfence = TRUE]

(* Mutant: the try region is not popped behind the body. *)
EatTryNoPop(c, s) ==
  LET l == Fresh(c)
      push == Emit(Labels(c, 2), "expush", "none", l, l)
      body == EatBlock([push EXCEPT !.at.tries = Append(@, l)], s.body)
      out == Jump([body EXCEPT !.at.tries = c.at.tries], "jmp", l + 1)
  IN  SetLabel(EatBlock(Op(SetLabel(out, l), "mov"), s.catch), l + 1)
EatTry(c, s) ==
  LET l == Fresh(c)
      push == Emit(Labels(c, 2), "expush", "none", l, l)
      body == EatBlock([push EXCEPT !.at.tries = Append(@, l)], s.body)
      pop == [Op(body, "expop") EXCEPT !.at.tries = c.at.tries]
      catch == Op(SetLabel(Jump(pop, "jmp", l + 1), l), "mov")
  IN  SetLabel(EatBlock(catch, s.catch), l + 1)

EatWhile(c, s) ==
  LET l == Fresh(c)
      test == Eval(SetLabel(EnterLoop(Labels(c, 2), l), l))
      body == EatBlock(Jump(test, "iff", l + 1), s.body)
  IN  LeaveLoop(SetLabel(Jump(body, "jmp", l), l + 1), c)

(* for i = start, OP end, step do *)
EatForCount(c, s) ==
  LET l == Fresh(c)
      head == Eval(Eval(EnterLoop(Labels(c, 4), l)))
      body == EatBlock(SetLabel(Jump(head, "jmp", l + 3), l + 2), s.body)
      test == Eval(SetLabel(Eval(SetLabel(body, l)), l + 3))
  IN  LeaveLoop(SetLabel(Jump(test, "ift", l + 2), l + 1), c)

(* for x << iterable do *)
EatForEach(c, s) ==
  LET l == Fresh(c)
      head == SetLabel(Eval(EnterLoop(Labels(c, 4), l)), l)
      body == EatBlock(Emit(head, "inext", "tmp", 0, l + 1), s.body)
  IN  LeaveLoop(SetLabel(Jump(body, "jmp", l), l + 1), c)

(* for x, y << iterable do *)
EatForMany(c, s) ==
  LET l == Fresh(c)
      head == Op(SetLabel(Eval(EnterLoop(Labels(c, 4), l)), l), "pushf")
      next == Emit(Mid(head, TRUE), "inexts", "stack", 0, l + 1)
      names == Op(Op(Emit(next, "stkge", "none", 2, 0), "mov"), "mov")
      body == EatBlock(Mid(Op(names, "popf"), FALSE), s.body)
      end == Mid(SetLabel(Jump(body, "jmp", l), l + 1), TRUE)
  IN  LeaveLoop(Mid(Op(end, "popf"), FALSE), c)

(* with x, ... = values do *)
WithName(c, i) == [Op(Op(c, "mov"), "pushw") EXCEPT
                     !.at.withs[Len(c.at.withs)] = @ + 1]
EatWith(c, s) ==
  LET push == [Op(c, "wpush") EXCEPT !.at.withs = Append(@, 0)]
      list == EatElist(Mid(Op(push, "pushf"), TRUE), s.vals)
      names == FoldLeft(WithName, Emit(list, "stkge", "none", Len(s.vals), 0),
                        s.vals)
      head == Mid(Op(names, "popf"), FALSE)
      body == EatBlock([head EXCEPT !.withbs = @ + 1], s.body)
  IN  [Op(body, "wpop") EXCEPT !.withbs = c.withbs, !.at = c.at]

EatStatement(c, s) ==
  CASE s.s = "call"     -> Mid(EatCall(Mid(c, TRUE), Args[s.f], "tmp"), FALSE)
    [] s.s = "return"   -> EatReturn(c, s.vals)
    [] s.s = "break"    -> EatBreak(c, 1)
    [] s.s = "continue" -> EatBreak(c, 0)
    [] s.s = "if"       -> EatIf(c, s)
    [] s.s = "try"      -> EatTry(c, s)
    [] s.s = "while"    -> EatWhile(c, s)
    [] s.s = "count"    -> EatForCount(c, s)
    [] s.s = "each"     -> EatForEach(c, s)
    [] s.s = "many"     -> EatForMany(c, s)
    [] s.s = "with"     -> EatWith(c, s)

EatBlock(c, b) ==
  IF b = <<>> THEN c ELSE EatBlock(EatStatement(c, Head(b)), Tail(b))

-----------------------------------------------------------------------------
(* From the parser's code to that of the VM *)

Jumps == {"jmp", "iff", "ift", "expush"}
Targets == Jumps \cup {"inext", "inexts"}

PatchJumps(c) ==
  [i \in 1..Len(c.cd) |-> IF c.cd[i].op \in Targets
                          THEN [c.cd[i] EXCEPT !.to = c.lb[@]] ELSE c.cd[i]]

(* A call whose results go to the stack, and then are returned.              *)
TailCalls(cd) ==
  LET tail(i) == /\ i < Len(cd) /\ cd[i].op \in {"dcall", "fcall"}
                 /\ cd[i].dst = "stack" /\ cd[i + 1].op = "end"
  IN  [i \in 1..Len(cd) |->
         IF i > 1 /\ tail(i - 1) THEN [cd[i] EXCEPT !.op = "delete"]
         ELSE IF ~ tail(i) THEN cd[i]
         ELSE [cd[i] EXCEPT !.op = IF @ = "dcall" THEN "dtail" ELSE "ftail"]]

RECURSIVE Chase(_, _, _)
Chase(cd, i, fuel) ==
  IF i <= Len(cd) /\ fuel > 0 /\ cd[i].op = "jmp"
  THEN Chase(cd, cd[i].to, fuel - 1) ELSE i
MergeJumps(cd) ==
  [i \in 1..Len(cd) |-> IF cd[i].op \in Jumps
                        THEN [cd[i] EXCEPT !.to = Chase(cd, @, Len(cd))]
                        ELSE cd[i]]

(* nodeadcode_i: what follows a jump back counts as reached, what only an    *)
(* INEXT leads to does not.                                                  *)
Reached(cd, i) ==
  CASE cd[i].op \in {"end", "exit0", "exit1"}  -> {}
    [] cd[i].op = "jmp" /\ cd[i].to > i        -> {cd[i].to}
    [] cd[i].op \in Jumps \ {"jmp"}            -> {i + 1, cd[i].to}
    [] OTHER                                   -> {i + 1}
RECURSIVE Live(_, _)
Live(cd, is) ==
  LET more == (is \cup UNION {Reached(cd, i) : i \in is}) \cap 1..Len(cd)
  IN  IF more = is THEN is ELSE Live(cd, more)
NoDeadCode(cd) ==
  LET live == Live(cd, {1})
  IN  [i \in 1..Len(cd) |-> IF i \in live THEN cd[i]
                            ELSE [cd[i] EXCEPT !.op = "delete"]]

(* compilefunc: deleted instructions leave no bytes; a target past the end   *)
(* is not among the labels it can resolve, and becomes 0 here.               *)
Assemble(cd) ==
  LET kept(i) == cd[i].op # "delete"
      at(i) == IF \A j \in i..Len(cd) : ~ kept(j) THEN 0
               ELSE 1 + Cardinality({j \in 1..(i - 1) : kept(j)})
      fixed == [i \in 1..Len(cd) |-> IF cd[i].op \in Targets
                                     THEN [cd[i] EXCEPT !.to = at(@)]
                                     ELSE cd[i]]
  IN  SelectSeq(fixed, LAMBDA q : q.op # "delete")

(* unc0_optqcode between unc0_parsec1 and unc0_parsec2.  The MOV that        *)
(* reducetmp may merge has no part here.                                     *)
Compile(body) ==
  Assemble(NoDeadCode(MergeJumps(TailCalls(PatchJumps(
    EndFunction(EatBlock(Context, body)))))))
=============================================================================
