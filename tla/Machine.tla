------------------------------ MODULE Machine ------------------------------
(***************************************************************************)
(* An assignment or a list of expressions, parsed, optimised (uoptim.c)    *)
(* and executed by the VM (uvm.c), one instruction at a time.   *)
(* The functions it calls are those of the environment and answer at once: *)
(* frames are the subject of VM.                                           *)
(***************************************************************************)
EXTENDS Parser, Meaning

CONSTANTS
  Programs,  (* what Program makes of statements, with or without the       *)
             (* optimiser                                                   *)
  Book,      (* the operand that each name stands for                       *)
  Pubs,      (* the public variables there are, and their values            *)
  Locals     (* the registers of local variables, and their values          *)

VARIABLES
  program,   (* the program that runs                                       *)
  pc,        (* the instruction to execute                                  *)
  regs,      (* registers, temporary and local                              *)
  pubs,      (* public variables                                            *)
  sval, region,  (* the value stack, and where the regions on it begin      *)
  log,       (* history: the calls made, with their arguments               *)
  error      (* the error that has ended the execution, or Null             *)

stack == <<sval, region>>
vars == <<program, pc, regs, pubs, stack, log, error>>

-----------------------------------------------------------------------------
(* reducetmp: every write of a temporary register gives it a new number, the *)
(* lowest whose life is over; its own life ends at the last read before the  *)
(* next write.                                                               *)

Reads(q, r) == (ReadsFirst(q.op) /\ q.o0 = r) \/ q.o1 = r \/ q.o2 = r
Writes(q, r) == WritesFirst(q.op) /\ q.o0 = r

JumpsBack(q, at, from) == q.o1[1] = "jump" /\ q.o1[2] < at /\ q.o1[2] >= from

(* reducetmp_mapreg: where the life of what is written at i ends. *)
LifeEnd(cd, i) ==
  LET r == cd[i].o0
      writes == {j \in (i + 1)..Len(cd) : Writes(cd[j], r)}
      end == IF writes = {} THEN Len(cd) ELSE Min(writes)
  IN Max({i} \cup {j \in (i + 1)..end : Reads(cd[j], r) \/ JumpsBack(cd[j], j, i)})

Renamed(o, name) == IF o[1] = "tmp" /\ o[2] > 0 THEN Tmp(name[o[2]]) ELSE o

(* s has the code, the name of each register and the life of each name. *)
Rename(s, i) ==
  LET q == s.cd[i]
      d == q.o0[2]
      written == WritesFirst(q.op) /\ q.o0[1] = "tmp" /\ d > 0
      free == {n \in DOMAIN s.life : i > s.life[n]}
      n == IF q.o0 \in {q.o1, q.o2} THEN s.name[d]
           ELSE IF free = {} THEN Len(s.life) + 1 ELSE Min(free)
      name == IF written THEN [s.name EXCEPT ![d] = n] ELSE s.name
      life == CASE ~ written -> s.life
                [] written /\ n > Len(s.life)  -> Append(s.life, LifeEnd(s.cd, i))
                [] written /\ n <= Len(s.life) -> [s.life EXCEPT ![n] = LifeEnd(s.cd, i)]
  IN [cd   |-> [s.cd EXCEPT ![i] = [q EXCEPT !.o0 = Renamed(@, name), !.o1 = Renamed(@, name),
                                             !.o2 = Renamed(@, name)]],
      name |-> name, life |-> life]

ReduceTmp(cd) ==
  FoldLeft(Rename, [cd |-> cd, name |-> [r \in 1..(3 * Len(cd)) |-> 0], life |-> <<>>],
           [i \in 1..Len(cd) |-> i]).cd

-----------------------------------------------------------------------------
(* Execution *)

(* The values of all variables by their names *)
Known == [z \in DOMAIN Book |-> IF Book[z][1] = "public" THEN Pubs[Book[z][2]]
                                ELSE Locals[Book[z]]]

(* A statement as it is compiled, and what it means. *)
Program(s, optimised) ==
  LET cd == Parse(Append(Listed(s.values), <<"end", 0>>), Book, s)
  IN [variables |-> [i \in DOMAIN s.names |-> Book[s.names[i]]], op |-> s.op,
      code |-> IF optimised THEN ReduceTmp(cd) ELSE cd,
      wanted |-> Assigned(s, Known)]

Init ==
  /\ program \in Programs
  /\ pc = 1
  /\ regs = Locals /\ pubs = Pubs /\ sval = <<>> /\ region = <<>> /\ log = <<>>
  /\ error = Null

code == program.code
Running == pc <= Len(code) /\ ~ IsError(error)
Now == code[pc]
On(ops) == Running /\ Now.op \in ops

Read(o) ==
  CASE IsReg(o)           -> IF o \in DOMAIN regs THEN regs[o] ELSE Null
    [] o[1] = "public"    -> pubs[o[2]]
    [] o[1] = "stack"     -> sval[Last(region) + o[2] + 1]
    [] o[1] = "stackneg"  -> sval[Len(sval) - o[2] + 1]
    [] OTHER              -> o

Set(f, x, v) == [y \in DOMAIN f \cup {x} |-> IF y = x THEN v ELSE f[y]]

(* An error is thrown: what the instruction has changed so far stays. *)
Throw(e) == error' = e /\ UNCHANGED <<program, pc, regs, pubs>>
Next1 == pc' = pc + 1 /\ UNCHANGED <<program, error>>

(* The result of an instruction goes to a register, unless it is an error. *)
Write(v) ==
  \/ /\ IsError(v) /\ Throw(v)
  \/ /\ ~ IsError(v) /\ Next1
     /\ regs' = Set(regs, Now.o0, v)
     /\ UNCHANGED pubs

(* Those of a call or a spread: all to the stack, or the first of them to a  *)
(* register; kept is what is left of the stack below them.                   *)
Deliver(vs, kept) ==
  IF vs # <<>> /\ IsError(vs[1]) THEN Throw(vs[1]) /\ sval' = kept
  ELSE IF Now.o0 = Stack
  THEN Next1 /\ sval' = kept \o vs /\ UNCHANGED <<regs, pubs>>
  ELSE Write(One(vs)) /\ sval' = kept

(* MOV, LDPUB and the loads of constants; LDSTK and LDSTKN read a value of   *)
(* the region, counted from its beginning or from its end.                   *)
Load == On({"mov", "gpub"}) /\ Write(Read(Now.o1)) /\ UNCHANGED <<stack, log>>

StorePublic ==
  /\ On({"spub"}) /\ Next1
  /\ pubs' = Set(pubs, Now.o1[2], Read(Now.o0))
  /\ UNCHANGED <<regs, stack, log>>

PushValue ==
  /\ On({"push"}) /\ Next1
  /\ sval' = Append(sval, Read(Now.o1))
  /\ UNCHANGED <<regs, pubs, region, log>>

PushRegion ==
  /\ On({"pushf"}) /\ Next1
  /\ region' = Append(region, Len(sval))
  /\ UNCHANGED <<regs, pubs, sval, log>>

PopRegion ==
  /\ On({"popf"}) /\ Next1
  /\ sval' = SubSeq(sval, 1, Last(region)) /\ region' = Front(region)
  /\ UNCHANGED <<regs, pubs, log>>

Height == Len(sval) - Last(region)

(* CSTKG: checkstackge *)
CheckStack ==
  /\ On({"stkge"})
  /\ IF Height < Now.o1[2] THEN Throw(Error("too few"))
     ELSE Next1 /\ UNCHANGED <<regs, pubs>>
  /\ UNCHANGED <<stack, log>>

(* MLIST: domlist *)
MakeList ==
  /\ On({"mlist"})
  /\ Write(<<"array", SubSeq(sval, Last(region) + 1, Len(sval))>>)
  /\ sval' = SubSeq(sval, 1, Last(region)) /\ region' = Front(region)
  /\ UNCHANGED log

(* MLISTP: the values of the region but those that others take stay there.   *)
MakePart ==
  /\ On({"mlistp"})
  /\ Write(<<"array", SubSeq(sval, Last(region) + Now.o1[2] + 1, Len(sval) - Now.o2[2])>>)
  /\ UNCHANGED <<stack, log>>

(* DCALL and FCALL, with S or not, and dofcall: the arguments are the last   *)
(* values of the stack, as many as the instruction says or as are in the     *)
(* region, which goes away before anything else happens.                     *)
CallFunction ==
  /\ On({"dcall", "fcall"})
  /\ LET n == IF Now.op = "dcall" THEN Now.o2[2] ELSE Height
         args == SubSeq(sval, Len(sval) - n + 1, Len(sval))
         f == Read(Now.o1)
     IN /\ Deliver(Called(f, args), SubSeq(sval, 1, Len(sval) - n))
        /\ log' = IF f[1] = "function" THEN Append(log, <<f[2], args>>) ELSE log
  /\ region' = IF Now.op = "dcall" THEN region ELSE Front(region)

(* LSPR and LSPRS: dolspr *)
Spread == On({"spread"}) /\ Deliver(Elements(Read(Now.o1)), sval) /\ UNCHANGED <<region, log>>

Index ==
  On({"gindx"}) /\ Write(ElementAt(Read(Now.o1), Read(Now.o2))) /\ UNCHANGED <<stack, log>>

Operate ==
  /\ On(BinaryOps \cup UnaryOps \cup {"cat", "lnot"})
  /\ LET a == Read(Now.o1)
         b == Read(Now.o2)
     IN Write(CASE Now.op = "ceq"    -> Equal(a, b)
                [] Now.op = "clt"    -> Less(a, b)
                [] Now.op = "lnot"   -> Boolean(~ Truth(a))
                [] Now.op \in UnaryOps -> Unary(Now.op, a)
                [] OTHER             -> Binary(Now.op, a, b))
  /\ UNCHANGED <<stack, log>>

(* IFF, IFT and JMP *)
Jump ==
  /\ On({"iff", "ift", "jmp"})
  /\ pc' = IF Now.op = "jmp" \/ Truth(Read(Now.o0)) = (Now.op = "ift")
           THEN Now.o1[2] ELSE pc + 1
  /\ UNCHANGED <<program, regs, pubs, stack, log, error>>

(* A deleted instruction leaves no bytes. *)
Nothing == On({"delete"}) /\ Next1 /\ UNCHANGED <<regs, pubs, stack, log>>

Next ==
  \/ Load \/ StorePublic \/ PushValue \/ PushRegion \/ PopRegion \/ CheckStack
  \/ MakeList \/ MakePart \/ CallFunction \/ Spread \/ Index \/ Operate \/ Jump
  \/ Nothing

Spec == Init /\ [][Next]_vars

-----------------------------------------------------------------------------
Value(o) == IF o[1] = "public" THEN pubs[o[2]] ELSE regs[o]

Touched == {Book[z] : z \in {z \in DOMAIN Book : Value(Book[z]) # Known[z]}}

(* Code does what the statement it was made of means: the variables get      *)
(* their values or the same error is thrown, no other variable changes and   *)
(* none does that misses its value, and the functions called on the way are  *)
(* the same, in the same order and with the same arguments                   *)
(* (docs/Operators.md, docs/Grammar.md and docs/Syntax.md; eateqlist to      *)
(* reducetmp and the VM).                                                    *)
Agrees ==
  LET given == [i \in DOMAIN program.variables |-> Value(program.variables[i])]
  IN ~ Running =>
       /\ (IF IsError(error) THEN <<error>> ELSE given) = program.wanted.vs
       /\ log = program.wanted.log
       /\ Touched \subseteq Range(program.variables)
       /\ IsError(error) /\ program.op = "none" => Touched = {}

(* A temporary register is written before it is read, and the value stack    *)
(* has a value where an instruction takes one: nothing is left over from     *)
(* another path or from before.                                              *)
Defined ==
  Running =>
    /\ \A o \in {Now.o1, Now.o2} : o[1] = "tmp" => o \in DOMAIN regs
    /\ ReadsFirst(Now.op) /\ Now.o0[1] = "tmp" => Now.o0 \in DOMAIN regs
    /\ \A o \in {Now.o1, Now.o2} :
         o[1] \in {"stack", "stackneg"} => Height >= IF o[1] = "stack" THEN o[2] + 1 ELSE o[2]
=============================================================================
