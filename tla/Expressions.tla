---------------------------- MODULE Expressions ----------------------------
(***************************************************************************)
(* How the parser turns an expression into instructions (uparse.c), and    *)
(* how the optimiser renumbers the registers of the code (uoptim.c).       *)
(*                                                                         *)
(* A token and an operand are pairs of a kind and what it holds; an        *)
(* instruction has an operation, the operand it writes (or reads, for some *)
(* operations) and two that it reads.  "next" is the instruction being put *)
(* together; it is emitted when it is known where its result goes.         *)
(***************************************************************************)
EXTENDS Operators, SequencesExt

CONSTANT Literal   \* the integers that fit into an instruction

None == <<"none", 0>>
Tmp(n) == <<"tmp", n>>
Stack == <<"stack", 0>>
Label(l) == <<"jump", l>>
Count(n) == <<"unsigned", n>>   \* -1 when it is not known

Quad(op, o0, o1, o2) == [op |-> op, o0 |-> o0, o1 |-> o1, o2 |-> o2]
Blank == Quad("delete", None, None, None)

BinaryOps == {"add", "sub", "mul", "div", "idiv", "mod", "shl", "shr", "band", "bxor",
              "bor", "ceq", "clt"}
UnaryOps == {"posit", "negate", "invert"}

(* unc0_qcode_isread0op, unc0_qcode_iswrite0op, isfstackop *)
ReadsFirst(op) == op \in {"sattr", "sindx", "spub", "sbind", "iff", "ift", "exit1"}
WritesFirst(op) ==
  ~ ReadsFirst(op) /\ op \notin {"delete", "expush", "expop", "pushf", "popf"}
FillsStack(op) == op \in {"fcall", "dcall", "spread", "inexts"}

IsReg(o) == o[1] \in {"tmp", "local"}
IsIntern(o) == o[1] \in {"tmp", "local", "int", "float", "null", "string"}
Fits(o) == IsReg(o) \/ (o[1] = "int" /\ o[2] \in Literal)

(* struct Unc_ParserContext.  "op" and "count" are what an eat function      *)
(* returns besides.                                                          *)
Start(in, book) ==
  [in |-> in, book |-> book, cd |-> <<>>, next |-> Blank, fence |-> FALSE, tmp |-> 1,
   lb |-> <<>>, pushfs |-> 0, val |-> "none", op |-> None, count |-> 0]

Peek(c) == Head(c.in)
Consume(c) == [c EXCEPT !.in = Tail(@)]

TmpAlloc(c) == [c EXCEPT !.tmp = @ + 1]   \* the register is Tmp(c.tmp)
LblAlloc(c) == [c EXCEPT !.lb = Append(@, 0)]
SetLabel(c, l) == [c EXCEPT !.lb[l] = Len(c.cd) + 1]

Next2(c, op, o1) == [c EXCEPT !.next = Quad(op, None, o1, None)]
Next3(c, op, o1, o2) == [c EXCEPT !.next = Quad(op, None, o1, o2)]

-----------------------------------------------------------------------------
(* Emission *)

PushIns(c, q) == [c EXCEPT !.cd = Append(@, q), !.fence = FALSE]

LoadOp(o) ==
  CASE o[1] = "public" -> "gpub" [] o[1] \in {"exhale", "inhale"} -> "gbind" [] OTHER -> "mov"

(* wraptreg: what is not in a temporary register is put into one. *)
WrapTReg(c, o, t) ==
  IF o[1] = "tmp" THEN [c EXCEPT !.op = o]
  ELSE [PushIns(c, Quad(LoadOp(o), t, o, None)) EXCEPT !.op = t]

WrapReg(c, o, t) == IF IsReg(o) THEN [c EXCEPT !.op = o] ELSE WrapTReg(c, o, t)

WrapFirst(c) ==
  LET w == WrapReg(TmpAlloc(c), c.next.o1, Tmp(c.tmp)) IN [w EXCEPT !.next.o1 = w.op]
WrapSecond(c) ==
  LET w == WrapReg(TmpAlloc(c), c.next.o2, Tmp(c.tmp)) IN [w EXCEPT !.next.o2 = w.op]

(* Mutant: a jump may lead to between the two instructions. *)
BeforeUnfenced(c) == IF c.cd = <<>> THEN Blank ELSE Last(c.cd)

(* The last instruction, where it may be changed. *)
Before(c) == IF c.fence \/ c.cd = <<>> THEN Blank ELSE Last(c.cd)

(* push: three pairs of instructions become one. *)
MergesMov(c) ==
  /\ c.next.op = "mov" /\ c.next.o0[1] = "tmp" /\ c.next.o1[1] = "tmp"
  /\ WritesFirst(Before(c).op) /\ Before(c).o0 = c.next.o1
MergesPush(c) ==
  /\ c.next.op = "push" /\ Before(c).op = "mov"
  /\ Before(c).o0 = c.next.o1 /\ IsReg(Before(c).o1)
MergesNot(c) ==
  /\ c.next.op \in {"ift", "iff"} /\ c.next.o0[1] = "tmp"
  /\ Before(c).op = "lnot" /\ Before(c).o0 = c.next.o0 /\ IsReg(Before(c).o1)

Emitted(c) == PushIns(c, c.next)

Push(c) ==
  LET n == c.next
      a == IF ~ Fits(n.o1) THEN WrapFirst(c) ELSE c
      b == IF n.op \in BinaryOps /\ ~ Fits(n.o2) THEN WrapSecond(a) ELSE a
      r == IF ~ IsReg(n.o1) THEN WrapFirst(c) ELSE c
      s == IF n.op = "cat" /\ ~ IsReg(n.o2) THEN WrapSecond(r) ELSE r
  IN CASE n.op = "mov" /\ LoadOp(n.o1) # "mov" -> Emitted([c EXCEPT !.next.op = LoadOp(n.o1)])
       [] MergesMov(c) -> [c EXCEPT !.cd[Len(c.cd)].o0 = n.o0]
       [] n.op = "mov" /\ LoadOp(n.o1) = "mov" /\ ~ MergesMov(c) ->
            Emitted(IF IsReg(n.o0) THEN c ELSE r)
       [] MergesPush(c) ->
            Emitted([c EXCEPT !.next.o1 = Before(c).o1, !.cd = Front(@)])
       [] MergesNot(c) ->
            Emitted([c EXCEPT !.next.o0 = Before(c).o1, !.cd = Front(@),
                              !.next.op = IF @ = "iff" THEN "ift" ELSE "iff"])
       [] n.op \in BinaryOps \cup UnaryOps -> Emitted(b)
       [] n.op \in {"cat", "lnot", "gindx", "sindx"} -> Emitted(s)
       [] OTHER -> Emitted(c)

RECURSIVE EmitRe(_, _)

(* retarget: a name that is not in a register is set by an instruction of    *)
(* its own, and so is a value pushed, unless it comes from the stack.        *)
Retarget(c, t) ==
  LET n == c.next
      u == Tmp(c.tmp)
      named == t[1] \in {"public", "exhale", "inhale"}
      set == IF t[1] = "public" THEN "spub" ELSE "sbind"
      kept == Push([TmpAlloc(c) EXCEPT !.next.o0 = u])
  IN CASE t = Stack /\ n.op = "mov" /\ IsReg(n.o0) ->
            [c EXCEPT !.next.op = "push", !.next.o0 = Stack]
       [] t = Stack /\ ~ (n.op = "mov" /\ IsReg(n.o0)) /\ ~ FillsStack(n.op) ->
            LET e == EmitRe(TmpAlloc(c), u)
            IN [e EXCEPT !.next = Quad("push", Stack, e.next.o0, None)]
       [] named /\ n.op = "mov" /\ IsReg(n.o1) ->
            [c EXCEPT !.next = Quad(set, n.o1, t, None)]
       [] named /\ ~ (n.op = "mov" /\ IsReg(n.o1)) ->
            [kept EXCEPT !.next = Quad(set, u, t, None)]
       [] OTHER -> [c EXCEPT !.next.o0 = t]

EmitRe(c, t) == Push(Retarget(c, t))
Emit1(c, op, t) == EmitRe(Next2(c, op, None), t)
Emit2(c, op, t, o1) == EmitRe(Next2(c, op, o1), t)
Emit3(c, op, t, o1, o2) == EmitRe(Next3(c, op, o1, o2), t)

-----------------------------------------------------------------------------
(* Where the value of an expression is: nowhere, on the stack, in "next", or *)
(* in "next" as any number of values.                                        *)

StartStack(c, always) ==
  IF always \/ c.pushfs = 0
  THEN [PushIns(c, Quad("pushf", None, None, None)) EXCEPT !.pushfs = @ + 1] ELSE c
EndStack(c) == [c EXCEPT !.pushfs = @ - 1]
DoKillStack(c) == Emit1(EndStack(c), "popf", None)

ToStack(c) ==
  LET d == IF c.val = "stack" THEN c ELSE StartStack(c, FALSE)
  IN [IF c.val \in {"hold", "fstack"} THEN EmitRe(d, Stack) ELSE d EXCEPT !.val = "stack"]

HoldVal(c) ==
  IF c.val = "stack" THEN Next2(Emit2(c, "stkge", None, Count(1)), "mov", Stack) ELSE c
HoldEnd(c, held) == IF held THEN DoKillStack(c) ELSE c

Capture(c, t) ==
  CASE c.val = "none"  -> c
    [] c.val = "stack" -> DoKillStack(Emit2(Emit2(c, "stkge", None, Count(1)), "mov", t, Stack))
    [] OTHER           -> EmitRe(c, t)

KillValue(c) ==
  [CASE c.val = "stack" -> DoKillStack(c)
     [] \/ c.val = "fstack"
        \/ c.val = "hold" /\ c.next.op \notin {"mov", "gpub", "gbind", "mlist", "ndict"} ->
          EmitRe(c, Tmp(0))
     [] OTHER -> c
   EXCEPT !.val = "none"]

(* Mutant: what is in "next" is not emitted. *)
WrapMovUnemitted(c) ==
  IF ~ c.fence /\ c.next.op = "mov" THEN [c EXCEPT !.op = c.next.o1]
  ELSE [TmpAlloc(c) EXCEPT !.op = Tmp(c.tmp)]

(* wrapmov: the operand that "next" stands for. *)
WrapMov(c) ==
  IF ~ c.fence /\ c.next.op = "mov" THEN [c EXCEPT !.op = c.next.o1]
  ELSE [EmitRe(TmpAlloc(c), Tmp(c.tmp)) EXCEPT !.op = Tmp(c.tmp)]

-----------------------------------------------------------------------------
(* Constant folding *)

Folded(c, v) == Next2(c, "mov", v)

(* ufold: "not" of an integer other than zero gives true. *)
UFold(c) ==
  LET n == c.next
      v == n.o1
  IN CASE n.op = "posit"  /\ IsNumber(v)      -> Folded(c, v)
       [] n.op = "negate" /\ v[1] = "float"   -> Folded(c, Unary("negate", v))
       [] n.op = "negate" /\ v[1] = "int" /\ ~ Negovf(v[2]) -> Folded(c, Integer(-v[2]))
       [] n.op = "invert" /\ v[1] = "int"     -> Folded(c, Unary("invert", v))
       [] n.op = "lnot"   /\ v[1] = "int"     -> Folded(c, Boolean(v[2] # 0))
       [] n.op = "lnot"   /\ v[1] \in {"null", "bool"} -> Folded(c, Boolean(~ Truth(v)))
       [] OTHER -> c

(* bfold *)
BFold(c) ==
  LET n == c.next
      ints == n.o1[1] = "int" /\ n.o2[1] = "int"
      numbers == IsNumber(n.o1) /\ IsNumber(n.o2)
      wrapped == CASE n.op = "add" -> n.o1[2] + n.o2[2]
                   [] n.op = "sub" -> n.o1[2] - n.o2[2]
                   [] n.op = "mul" -> n.o1[2] * n.o2[2]
      overflow == CASE n.op = "add" -> Addovf(n.o1[2], n.o2[2])
                    [] n.op = "sub" -> Subovf(n.o1[2], n.o2[2])
                    [] n.op = "mul" -> Mulovf(n.o1[2], n.o2[2])
  IN CASE n.op \in {"add", "sub", "mul"} /\ ints ->
            IF overflow THEN c ELSE Folded(c, Integer(Wrap(wrapped)))
       [] n.op \in {"add", "sub", "mul"} /\ numbers /\ ~ ints ->
            Folded(c, Floats2(n.op, AsFloat(n.o1), AsFloat(n.o2)))
       [] n.op \in {"shl", "shr", "band", "bxor", "bor"} /\ ints ->
            Folded(c, Integers2(n.op, n.o1[2], n.o2[2]))
       [] OTHER -> c
=============================================================================
