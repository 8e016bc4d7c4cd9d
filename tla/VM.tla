--------------------------------- MODULE VM ---------------------------------
(***************************************************************************)
(* The stacks of a view while it executes (uvm.c, ustack.c): frames, value *)
(* stack, regions, values of with blocks, and the count of nested calls.   *)
(* One action per instruction; C functions run between their call and      *)
(* their return, and may call back into the VM; an error takes one step    *)
(* per frame that it unwinds.                                              *)
(*                                                                         *)
(* What is called is chosen when it is called: the program itself (every   *)
(* function has the same body), a C function, or something that cannot be  *)
(* called.  A value is named after the depth of the call that made it.     *)
(***************************************************************************)
EXTENDS Integers, Sequences, FiniteSets, SequencesExt

CONSTANTS
  Programs,  (* what may be run: sequences of instructions, see Codegen     *)
  Limit,     (* recurselimit                                                *)
  Returns,   (* how many values C functions return                          *)
  Features   (* "chandler": __open and __close may be C functions;          *)
             (* "tailfail": tail calls of a main function may fail;         *)
             (* "tailnext": iterators may end with a tail call to C;        *)
             (* "quiet": nothing in a catch has to clear e                  *)

ASSUME VMAssumption ==
  /\ Limit \in Nat \ {0}
  /\ Returns \subseteq Nat
  /\ Features \subseteq {"chandler", "tailfail", "tailnext", "quiet"}
  /\ \A p \in Programs : Len(p) > 0

VARIABLES
  prog,      (* the program                                                 *)
  pc,        (* the instruction to execute                                  *)
  frames, sval, region, rwith,  (* the stacks; regions and with blocks are  *)
             (* the depths of sval and swith at which they begin            *)
  swith,     (* depth of the stack of values to close                       *)
  recurse,   (* nested calls                                                *)
  e,         (* of each unc0_run there is: whether its variable e still has  *)
             (* an error that was caught                                    *)
  mode,      (* "native": the host or a C function executes; "results": it  *)
             (* has called back and reads the results; "run"; "error";      *)
             (* "maintail": vmerrormainctail                                *)
  calls,     (* history: the calls that have not returned, what their       *)
             (* callers want and from where                                 *)
  blame,     (* history: the instruction that raised the error              *)
  ret        (* history: the return that was just made                      *)

stacks == <<frames, sval, region, rwith, swith, recurse>>
history == <<calls, blame, ret>>
vars == <<prog, pc, stacks, e, mode, history>>

NoRet == [given |-> <<>>, got |-> <<>>, call |-> [kind |-> "", base |-> 0,
          pc |-> 0, out |-> 0, owed |-> <<>>], pc |-> 0]
Init ==
  /\ prog \in Programs
  /\ pc = 0
  /\ frames = <<>> /\ sval = <<>> /\ region = <<>> /\ rwith = <<>>
  /\ swith = 0 /\ recurse = 0 /\ e = <<>>
  /\ mode = "native"
  /\ calls = <<>> /\ blame = 0 /\ ret = NoRet

At(i) == prog[i]
Op == At(pc).op
On(op) == mode = "run" /\ pc # 0 /\ Op = op
Top(s) == s[Len(s)]
Cut(s, n) == SubSeq(s, 1, IF n < Len(s) THEN n ELSE Len(s))
(* unc0_stackpullrug *)
PullRug(s, to, from) == Cut(s, to) \o SubSeq(s, from + 1, Len(s))

-----------------------------------------------------------------------------
(* Frames *)

Uncil == {"Main", "Call", "CallSpew", "Next", "NextSpew"}
Spews == {"Main", "CallSpew", "NextSpew", "CallCSpew"}
Nexts == {"Next", "NextSpew"}

(* unc0_saveframe, with the regions given.  The fields "to" and "try" are    *)
(* those of a try, "args" and those after it those of a C function: where    *)
(* its arguments begin, and what unc0_run knows about the call in progress.  *)
SaveFrame(type, back, rs) ==
  [type |-> type, pc |-> back, pc2 |-> 0, sval |-> Len(sval),
   region |-> Len(rs), swith |-> swith, rwith |-> Len(rwith), to |-> 0,
   try |-> 0, args |-> 0, cont |-> "", out |-> 0, tail |-> "", from |-> 0]

(* The frame of the function that executes: tries may lie above it.          *)
Own == CHOOSE i \in 1..Len(frames) :
         /\ frames[i].type # "Try"
         /\ \A j \in (i + 1)..Len(frames) : frames[j].type = "Try"

(* unc0_unwindtotry: the regions and values that are left once all tries of  *)
(* the function are left.                                                    *)
NoTries(s, n) == IF Own = Len(frames) THEN s ELSE Cut(s, n)
RegionHere == NoTries(region, frames[Own + 1].region)
SvalHere == NoTries(sval, frames[Own + 1].sval)

(* unc0_stackwunwind: the values above a depth are closed by nested runs.    *)
(* The nested run of an Uncil function leaves nothing behind; for a C        *)
(* function unc0_vdowout and unc0_vdowith keep the pile they made, and what  *)
(* was returned in it.  (Handlers are taken not to hit the recursion limit.) *)
Piles(n, depth) ==
  {[region |-> <<>>, sval |-> <<>>]} \cup
  (IF n > 0 /\ "chandler" \in Features
   THEN {[region |-> <<depth>>, sval |-> v] : v \in {<<>>, <<0>>}}
   ELSE {})

Unchanged == UNCHANGED <<prog, e, calls, blame>>
Next1 == pc' = pc + 1 /\ mode' = "run" /\ ret' = NoRet

(* THROWERR: what the instruction changed before it failed stays.            *)
Throw == mode' = "error" /\ blame' = pc /\ ret' = NoRet /\ UNCHANGED <<pc, e, calls>>

(* MUST(x), if x succeeds.  Few instructions have one.                       *)
Must == [e EXCEPT ![Len(e)] = FALSE]

-----------------------------------------------------------------------------
(* Instructions that stay within a function *)

(* Any instruction that evaluates, and may run into an error. *)
Eval ==
  /\ On("eval")
  /\ \/ Next1 /\ e' \in {e, Must} /\ UNCHANGED <<calls, blame>>
     \/ Throw
  /\ UNCHANGED <<prog, stacks>>

Mov == On("mov") /\ Next1 /\ Unchanged /\ UNCHANGED stacks

Jmp ==
  /\ On("jmp")
  /\ pc' = At(pc).to /\ mode' = "run" /\ ret' = NoRet
  /\ Unchanged /\ UNCHANGED stacks

(* IFF and IFT; the conversion to a boolean may be overloaded. *)
Branch ==
  /\ On("iff") \/ On("ift")
  /\ \/ /\ pc' \in {pc + 1, At(pc).to} /\ mode' = "run" /\ ret' = NoRet
        /\ UNCHANGED <<e, calls, blame>>
     \/ Throw
  /\ UNCHANGED <<prog, stacks>>

Push ==
  /\ On("push")
  /\ sval' = Append(sval, recurse)
  /\ Next1 /\ e' = Must
  /\ UNCHANGED <<prog, calls, blame, frames, region, rwith, swith, recurse>>

Rpush ==
  /\ On("pushf")
  /\ region' = Append(region, Len(sval))
  /\ Next1 /\ Unchanged
  /\ UNCHANGED <<frames, sval, rwith, swith, recurse>>

Rpop ==
  /\ On("popf")
  /\ region' = Front(region) /\ sval' = Cut(sval, Top(region))
  /\ Next1 /\ Unchanged
  /\ UNCHANGED <<frames, rwith, swith, recurse>>

(* checkstackge *)
Stkge ==
  /\ On("stkge")
  /\ IF Len(sval) - Top(region) < At(pc).arg THEN Throw
     ELSE Next1 /\ UNCHANGED <<e, calls, blame>>
  /\ UNCHANGED <<prog, stacks>>

Xpush ==
  /\ On("expush")
  /\ frames' = Append(frames, [SaveFrame("Try", pc, region) EXCEPT
                                 !.to = At(pc).to, !.try = At(pc).arg])
  /\ Next1 /\ Unchanged
  /\ UNCHANGED <<sval, region, rwith, swith, recurse>>

(* unc0_doxpop *)
Xpop ==
  /\ On("expop")
  /\ LET f == Top(frames) IN
     /\ swith' = f.swith /\ rwith' = Cut(rwith, f.rwith)
     /\ region' = Cut(region, f.region) /\ sval' = Cut(sval, f.sval)
  /\ frames' = Front(frames)
  /\ Next1 /\ Unchanged /\ UNCHANGED recurse

Wpush ==
  /\ On("wpush")
  /\ rwith' = Append(rwith, swith)
  /\ Next1 /\ Unchanged
  /\ UNCHANGED <<frames, sval, region, swith, recurse>>

(* STWITH: the value is on the stack before __open is called. *)
Stwith ==
  /\ On("pushw")
  /\ swith' = swith + 1
  /\ \E l \in Piles(1, Len(sval)) : region' = region \o l.region /\ sval' = sval \o l.sval
  /\ \/ Next1 /\ e' = Must /\ UNCHANGED <<calls, blame>>
     \/ Throw
  /\ UNCHANGED <<prog, frames, rwith, recurse>>

Wpop ==
  /\ On("wpop")
  /\ \E l \in Piles(swith - Top(rwith), Len(sval)) :
       region' = region \o l.region /\ sval' = sval \o l.sval
  /\ swith' = Top(rwith) /\ rwith' = Front(rwith)
  /\ Next1 /\ Unchanged /\ UNCHANGED <<frames, recurse>>

-----------------------------------------------------------------------------
(* Calls *)

Callee == {"uncil", "c", "none"}
Argc(q) == IF q.op \in {"fcall", "ftail"} THEN Len(sval) - Top(region)
           ELSE q.arg
(* unc0_diffregion takes the region of the arguments away. *)
Regions(q) == IF q.op \in {"fcall", "ftail"} THEN Front(region) ELSE region

Enter == pc' = 1 /\ mode' = "run" /\ ret' = NoRet
Wanted(type, base, out) ==
  [kind |-> type, base |-> base, pc |-> pc, out |-> out, owed |-> <<>>]

(* unc0_vmfcall for an Uncil function: the arguments move to its registers.  *)
CallUncil(f, base) ==
  /\ frames' = Append(frames, [f EXCEPT !.sval = base])
  /\ sval' = Cut(sval, base)
  /\ recurse' = recurse + 1
  /\ calls' = Append(calls, Wanted(f.type, base, f.pc2))
  /\ Enter /\ UNCHANGED <<e, blame, rwith, swith>>

(* and for a C function: its frame stays while it executes. *)
CallC(f, base) ==
  /\ frames' = Append(frames, [f EXCEPT !.args = base, !.from = pc])
  /\ mode' = "native" /\ ret' = NoRet
  /\ UNCHANGED <<pc, sval, recurse, e, calls, blame, rwith, swith>>

(* Mutant: the limit is noticed one call too late. *)
TooDeepLate == recurse > Limit

(* unc0_enterfunc: more calls than the limit are refused. *)
TooDeep == recurse >= Limit
Fails == Throw /\ UNCHANGED <<frames, sval, recurse, rwith, swith>>

(* DCALL, DCALLS, FCALL, FCALLS *)
Call ==
  /\ On("dcall") \/ On("fcall")
  /\ LET q == At(pc)
         base == Len(sval) - Argc(q)
         spew == q.dst = "stack"
         f(c) == SaveFrame(IF c THEN IF spew THEN "CallCSpew" ELSE "CallC"
                           ELSE IF spew THEN "CallSpew" ELSE "Call",
                           pc + 1, Regions(q))
     IN /\ region' = Regions(q)
        /\ \E callee \in Callee :
             IF callee = "none" \/ TooDeep THEN Fails
             ELSE IF callee = "uncil" THEN CallUncil(f(FALSE), base)
             ELSE CallC([f(TRUE) EXCEPT !.cont = "call"], base)
  /\ UNCHANGED prog

(* INEXT and INEXTS: iterators spew, even those that fill one register.      *)
Inext ==
  /\ On("inext") \/ On("inexts")
  /\ LET one == Op = "inext"
         f(c) == [SaveFrame(IF c THEN "CallCSpew"
                            ELSE IF one THEN "Next" ELSE "NextSpew",
                            pc + 1, region) EXCEPT !.pc2 = At(pc).to]
     IN \E callee \in Callee :
          IF callee = "none" \/ TooDeep THEN Fails
          ELSE IF callee = "uncil" THEN CallUncil(f(FALSE), Len(sval))
          ELSE CallC([f(TRUE) EXCEPT !.cont = IF one THEN "inext" ELSE "inexts",
                                     !.out = At(pc).to], Len(sval))
  /\ UNCHANGED <<prog, region>>

(* The values a tail call leaves behind of those that were to be returned.   *)
Pending(q) == IF Regions(q) = <<>> THEN <<>>
              ELSE SubSeq(sval, Top(Regions(q)) + 1, Len(sval) - Argc(q))
Owing(vs) == [calls EXCEPT ![Len(calls)].owed = @ \o vs]

(* DTAIL and FTAIL: all tries are left, the frame of the function goes away  *)
(* (unc0_dotailpre), and the frame of an Uncil function takes over what it   *)
(* was to return to (unc0_dotailpost).  If the function is the main one of   *)
(* this unc0_run, an error that is raised by the call is handled on its own. *)
TailCall ==
  /\ On("dtail") \/ On("ftail")
  /\ LET q == At(pc)
         f == frames[Own]
         down == Cut(frames, Own - 1)
         \* as a C function finds it
         cframe(depth) == [f EXCEPT
           !.type = IF @ \in Spews THEN "CallCSpew" ELSE "CallC",
           !.sval = depth, !.args = depth - Argc(q), !.cont = "tail",
           !.tail = f.type, !.from = pc]
     IN /\ swith' = f.swith /\ rwith' = Cut(rwith, f.rwith)
        /\ region' = Cut(RegionHere, f.region)
        /\ e' = IF f.type = "Main" THEN Must ELSE e
        /\ \E l \in Piles(swith - f.swith, Len(SvalHere)), callee \in Callee :
             LET s == SvalHere \o l.sval IN
             CASE callee = "uncil" ->
                    /\ frames' = Cut(frames, Own)
                    /\ sval' = Cut(s, f.sval)
                    /\ calls' = Owing(Pending(q))
                    /\ Enter /\ UNCHANGED <<recurse, blame>>
               [] callee = "c" ->
                    /\ frames' = Append(down, cframe(Len(s)))
                    /\ sval' = s /\ recurse' = recurse - 1
                    /\ calls' = Owing(Pending(q))
                    /\ mode' = "native" /\ ret' = NoRet
                    /\ UNCHANGED <<pc, blame>>
               [] callee = "none" /\ f.type # "Main" ->
                    /\ frames' = down /\ sval' = s /\ recurse' = recurse - 1
                    /\ mode' = "error" /\ ret' = NoRet
                    /\ blame' = Last(calls).pc /\ calls' = Front(calls)
                    /\ UNCHANGED pc
               [] callee = "none" /\ f.type = "Main" ->
                    /\ Own = 1 \/ "tailfail" \in Features
                    \* unc0_unrecover, if this is the first frame there is
                    /\ frames' = IF Own = 1 THEN <<f>> ELSE down
                    /\ recurse' = IF Own = 1 THEN recurse ELSE recurse - 1
                    /\ sval' = s /\ mode' = "maintail" /\ ret' = NoRet
                    /\ UNCHANGED <<pc, calls, blame>>
  /\ UNCHANGED prog

-----------------------------------------------------------------------------
(* Returns *)

Pile(fs) == IF fs = <<>> THEN 0 ELSE Last(fs).region

(* Mutant: the values are discarded, their region is not. *)
DiscardValues(fs, rs, ss) ==
  region' = rs /\ sval' = IF Len(rs) = Pile(fs) + 1 THEN Cut(ss, Top(rs)) ELSE ss

(* unc_discard of the pile that was made for a call from C, r regions deep.  *)
Discard(fs, rs, ss) ==
  IF Len(rs) = Pile(fs) + 1
  THEN region' = Front(rs) /\ sval' = Cut(ss, Top(rs))
  ELSE region' = rs /\ sval' = ss

Returned(given, one) ==
  LET c == Last(calls) IN
  ret' = [given |-> c.owed \o given, call |-> c, pc |-> pc',
          got |-> IF c.kind \in Spews THEN SubSeq(sval', c.base + 1, Len(sval'))
                  ELSE one]

Unknown == -1   (* whatever the first register holds *)
Failed == -2    (* an error instead of values *)
First(vs) == Cut(vs, 1)

(* unc0_exitframe, unc0_exitframe0 and unc0_exitframe1.  Those of the        *)
(* function's regions that its with blocks' handlers left are still there.   *)
Exit ==
  /\ On("end") \/ On("exit0") \/ On("exit1")
  /\ LET f == frames[Own]
         given == IF Op = "exit0" THEN <<>>
                  ELSE IF Op = "exit1" THEN <<recurse>>
                  ELSE SubSeq(sval, Top(region) + 1, Len(sval))
     IN \E l \in Piles(swith - f.swith, Len(SvalHere)) :
          LET rs == RegionHere \o l.region
              ss == SvalHere \o l.sval
              bare == Op = "end" /\ Len(rs) = f.region
              vs == IF Op # "end" THEN given
                    ELSE IF bare THEN <<Unknown>>
                    ELSE SubSeq(ss, Top(rs) + 1, Len(ss))
              over == f.type \in Nexts /\ Op # "exit1" /\ (vs = <<>> \/ bare)
              main == f.type = "Main"
              left == Cut(ss, f.sval) \o IF f.type \in Spews THEN vs ELSE <<>>
          IN /\ frames' = Cut(frames, Own - 1)
             /\ swith' = f.swith /\ rwith' = Cut(rwith, f.rwith)
             /\ recurse' = recurse - 1
             /\ pc' = IF over THEN f.pc2 ELSE f.pc
             /\ e' = IF main THEN Front(e) ELSE e
             /\ IF main /\ Last(e)
                THEN \* unc0_run returns e: unc_call discards what there is
                     /\ Discard(frames', Cut(rs, f.region), left)
                     /\ mode' = "native"
                     /\ ret' = [given |-> given, got |-> <<Failed>>,
                                call |-> Last(calls), pc |-> pc']
                ELSE /\ region' = Cut(rs, f.region) /\ sval' = left
                     /\ mode' = IF main THEN "results" ELSE "run"
                     /\ Returned(given, First(vs))
             /\ calls' = Front(calls)
  /\ UNCHANGED <<prog, blame>>

-----------------------------------------------------------------------------
(* The host and C functions *)

Native == mode = "native"
InC == Native /\ frames # <<>>

(* unc_call of an Uncil function, and the host's call of the program.  What *)
(* a C function does that was called last, recurse does not count: Limit     *)
(* bounds the calls as well.                                                 *)
CallBack ==
  /\ Native /\ ~ TooDeep /\ Len(calls) < Limit
  /\ region' = Append(region, Len(sval))
  /\ frames' = Append(frames, SaveFrame("Main", 0, region'))
  /\ recurse' = recurse + 1
  /\ calls' = Append(calls, [Wanted("Main", Len(sval), 0) EXCEPT !.pc = 0])
  /\ e' = Append(e, FALSE)
  /\ Enter /\ UNCHANGED <<prog, sval, rwith, swith, blame>>

Results ==
  /\ mode = "results" /\ mode' = "native"
  /\ Discard(frames, region, sval) /\ ret' = NoRet
  /\ UNCHANGED <<prog, pc, frames, rwith, swith, recurse, e, calls, blame>>

(* unc0_exitccall and what the call goes on to do. *)
CReturn ==
  /\ InC
  /\ \E k \in Returns :
       LET f == Last(frames)
           vs == [i \in 1..k |-> 0]
           none == k = 0 /\ f.cont \in {"inext", "inexts"}
           main == f.cont = "tail" /\ f.tail = "Main"
       IN /\ f.tail \in Nexts => k > 0 \/ "tailnext" \in Features
          /\ frames' = Front(frames)
          /\ region' = Cut(region, f.region)
          /\ sval' = IF f.type = "CallC" \/ f.cont = "inext"
                     THEN Cut(sval, f.args)
                     ELSE PullRug(sval \o vs, f.args, f.sval)
          /\ pc' = IF none THEN f.out ELSE f.pc
          /\ mode' = IF main THEN "results" ELSE "run"
          /\ e' = IF main THEN Front(e) ELSE e
          /\ IF f.cont = "tail" THEN Returned(vs, First(vs)) /\ calls' = Front(calls)
             ELSE ret' = NoRet /\ UNCHANGED calls
  /\ UNCHANGED <<prog, rwith, swith, recurse, blame>>

CFail ==
  /\ InC
  /\ LET f == Last(frames)
         main == f.cont = "tail" /\ f.tail = "Main"
         first == main /\ Len(frames) = 1
     IN /\ main => "tailfail" \in Features
        \* unc0_unrecover brings back the frame of the C function
        /\ frames' = IF first THEN frames ELSE Front(frames)
        /\ recurse' = IF first THEN recurse + 1 ELSE recurse
        /\ region' = Cut(region, f.region) /\ sval' = Cut(sval, f.args)
        /\ mode' = IF main THEN "maintail" ELSE "error"
        /\ IF f.cont = "tail" /\ ~ main
           THEN blame' = Last(calls).pc /\ calls' = Front(calls)
           ELSE blame' = f.from /\ UNCHANGED calls
  /\ ret' = NoRet
  /\ UNCHANGED <<prog, pc, rwith, swith, e>>

-----------------------------------------------------------------------------
(* Errors *)

(* Mutant: a try region counts as a call. *)
ClearedTryToo(f) ==
  /\ frames' = Front(frames)
  /\ swith' = f.swith /\ rwith' = Cut(rwith, f.rwith)
  /\ recurse' = recurse - 1

(* unc0_unwindframeerr *)
Cleared(f) ==
  /\ frames' = Front(frames)
  /\ swith' = f.swith /\ rwith' = Cut(rwith, f.rwith)
  /\ recurse' = IF f.type \in Uncil THEN recurse - 1 ELSE recurse
Depth(f) == IF f.type \in {"CallC", "CallCSpew"} THEN f.args ELSE f.sval

(* The loop at vmerror. *)
Unwind ==
  /\ mode = "error"
  /\ LET f == Last(frames) IN
     /\ Cleared(f)
     /\ IF f.type = "Main"
        THEN Discard(frames', Cut(region, f.region), Cut(sval, f.sval))
        ELSE region' = Cut(region, f.region) /\ sval' = Cut(sval, Depth(f))
     /\ CASE f.type = "Try"  -> mode' = "run" /\ pc' = f.to
          [] f.type = "Main" -> mode' = "native" /\ pc' = 0
          [] OTHER           -> mode' = "error" /\ pc' = f.pc
     \* e keeps the error that a try has caught
     /\ e' = CASE f.type = "Try"  -> [e EXCEPT ![Len(e)] = "quiet" \in Features]
               [] f.type = "Main" -> Front(e)
               [] OTHER           -> e
     /\ IF f.type = "Try" THEN UNCHANGED <<calls, blame>>
        ELSE blame' = Last(calls).pc /\ calls' = Front(calls)
  /\ ret' = NoRet /\ UNCHANGED prog

(* vmerrormainctail *)
MainTail ==
  /\ mode = "maintail" /\ mode' = "native"
  /\ LET f == Last(frames) IN
     /\ Cleared(f)
     /\ Discard(frames', Cut(region, f.region), Cut(sval, Depth(f)))
  /\ calls' = Front(calls) /\ e' = Front(e)
  /\ ret' = NoRet /\ UNCHANGED <<prog, pc, blame>>

-----------------------------------------------------------------------------
Next ==
  \/ Eval \/ Mov \/ Jmp \/ Branch \/ Push \/ Rpush \/ Rpop \/ Stkge
  \/ Xpush \/ Xpop \/ Wpush \/ Stwith \/ Wpop
  \/ Call \/ Inext \/ TailCall \/ Exit
  \/ CallBack \/ Results \/ CReturn \/ CFail
  \/ Unwind \/ MainTail

Spec == Init /\ [][Next]_vars

-----------------------------------------------------------------------------
(* Properties *)

(* The variables have their types.                                           *)
TypeOK ==
  /\ mode \in {"native", "results", "run", "error", "maintail"}
  /\ mode = "run" => pc \in Nat /\ frames # <<>>
  /\ recurse \in 0..Limit /\ swith \in Nat
  /\ \A i \in 1..Len(region) : region[i] \in Nat
  /\ \A i \in 1..Len(rwith) : rwith[i] \in Nat
  /\ \A i \in 1..Len(frames) :
       frames[i].type \in Uncil \cup {"Try", "CallC", "CallCSpew"}

(* A view executes inside the code of its function, and wherever that is,    *)
(* the tries it can be caught by and the with blocks and values it has to    *)
(* close are those around the statement in the source; between expressions   *)
(* it has neither regions nor values on the stack.                           *)
ScopeMatches ==
  mode = "run" =>
    LET at == At(pc).at
        base == frames[Own]
        withs == SubSeq(rwith, base.rwith + 1, Len(rwith))
        bound(i) == IF i > Len(withs) THEN swith ELSE withs[i]
    IN /\ pc \in 1..Len(prog)
       /\ Len(frames) - Own = Len(at.tries)
       /\ \A i \in 1..Len(at.tries) : frames[Own + i].try = at.tries[i]
       /\ Len(withs) = Len(at.withs)
       /\ bound(1) = base.swith
       /\ \A i \in 1..Len(withs) : bound(i + 1) - bound(i) = at.withs[i]
       /\ ~ at.mid => Len(region) = base.region /\ Len(sval) = base.sval

(* Whoever called gets what the function returned, all of it or the first    *)
(* value, and goes on where it should: behind the call, or, if an iterator   *)
(* returned nothing, behind the loop.                                        *)
ReturnsOwn ==
  ret # NoRet =>
    LET c == ret.call IN
    /\ ret.got = IF c.kind \in Spews THEN ret.given ELSE First(ret.given)
    /\ c.kind # "Main" =>
         ret.pc = IF c.kind \in Nexts /\ ret.given = <<>> THEN c.out
                  ELSE c.pc + 1

(* An error is caught by the innermost try around the statement that raised  *)
(* it or made the call that did, and by no other.                            *)
CaughtInside ==
  mode = "error" =>
    LET tries == At(blame).at.tries
        f == Last(frames)
    IN IF f.type = "Try" THEN tries # <<>> /\ Last(tries) = f.try
       ELSE tries = <<>>

(* A C function that called back, and the host, find their stacks as they    *)
(* left them, whether the call succeeded or not.                             *)
NativeSees ==
  mode = "native" =>
    IF frames = <<>>
    THEN sval = <<>> /\ region = <<>> /\ rwith = <<>> /\ swith = 0 /\ recurse = 0
    ELSE LET f == Last(frames) IN
         /\ f.type \in {"CallC", "CallCSpew"}
         /\ Len(sval) = f.sval /\ Len(region) = f.region
         /\ swith = f.swith /\ Len(rwith) = f.rwith

(* The recursion count is the number of Uncil functions that have not        *)
(* returned, and their frames say what their callers want.                   *)
RecurseCounts ==
  mode # "maintail" =>
    LET own == {i \in 1..Len(frames) : frames[i].type \in Uncil \/ frames[i].cont = "tail"}
        call(i) == calls[Cardinality(own \cap 1..i)]
    IN /\ recurse = Cardinality({i \in own : frames[i].type \in Uncil})
       /\ Len(calls) = Cardinality(own)
       /\ \A i \in own : frames[i].type \in Uncil =>
            frames[i].type = call(i).kind /\ frames[i].sval = call(i).base

-----------------------------------------------------------------------------
(* What has to be true of code for the VM to keep its stacks in order, seen  *)
(* from each instruction alone.  A level is what a function has on the value *)
(* stack, below its first region or in one that it has open: n values, or n  *)
(* and perhaps more.                                                         *)

Levels == [n : Nat, is : {"exactly", "atleast"}]
Exactly(n) == [n |-> n, is |-> "exactly"]
Clear == <<Exactly(0)>>

Fewer(s, k) == [s EXCEPT ![Len(s)].n = @ - k]
Spread(s) == [s EXCEPT ![Len(s)].is = "atleast"]
Spreads(q) == q.op = "inexts" \/ (q.op \in {"dcall", "fcall"} /\ q.dst = "stack")

(* The levels when the arguments of an instruction have been taken, and when *)
(* it is done.                                                               *)
Taken(s, q) ==
  CASE q.op = "fcall" -> Front(s)
    [] q.op = "dcall" -> Fewer(s, q.arg)
    [] OTHER          -> s
After(s, q) ==
  CASE q.op = "push"  -> Fewer(s, -1)
    [] q.op = "pushf" -> Append(s, Exactly(0))
    [] q.op = "popf"  -> Front(s)
    [] OTHER          -> IF Spreads(q) THEN Spread(Taken(s, q)) ELSE Taken(s, q)

(* The tries and with blocks around the instruction that follows.            *)
TriesAfter(q) == CASE q.op = "expush" -> Append(q.at.tries, q.arg)
                   [] q.op = "expop"  -> Front(q.at.tries)
                   [] OTHER           -> q.at.tries
WithsAfter(q) ==
  LET ws == q.at.withs
  IN  CASE q.op = "wpush" -> Append(ws, 0)
        [] q.op = "pushw" -> [ws EXCEPT ![Len(ws)] = @ + 1]
        [] q.op = "wpop"  -> Front(ws)
        [] OTHER          -> ws

Ops == {"eval", "mov", "jmp", "iff", "ift", "push", "pushf", "popf", "stkge",
        "expush", "expop", "wpush", "pushw", "wpop", "inext", "inexts",
        "dcall", "fcall", "dtail", "ftail", "end", "exit0", "exit1"}
Instructions ==
  [op : Ops, dst : {"none", "tmp", "stack"}, arg : Nat, to : Nat,
   at : [tries : Seq(Nat), withs : Seq(Nat), mid : BOOLEAN]]
Goes(q) ==
  IF q.op \in {"jmp", "iff", "ift", "expush", "inext", "inexts"} THEN {q.to} ELSE {}
Follows(q, i) ==
  IF q.op \in {"jmp", "end", "exit0", "exit1", "dtail", "ftail"} THEN {} ELSE {i + 1}

(* The levels at each instruction, as the first that leads to it leaves them.*)
Found(p) ==
  LET before(i) == {j \in 1..(i - 1) : i \in Goes(p[j]) \cup Follows(p[j], j)}
      found[i \in 1..Len(p)] ==
        IF before(i) = {} THEN Clear
        ELSE After(found[Min(before(i))], p[Min(before(i))])
  IN  found

(* An instruction finds what it takes.  It is no tail call and no return of  *)
(* a list in a try, or with other values than these.                         *)
Finds(q, s) ==
  /\ q.op = "dcall" => s[Len(s)].n >= q.arg /\ (q.dst = "stack" => Len(s) > 1)
  /\ q.op = "fcall" => Len(s) > IF q.dst = "stack" THEN 2 ELSE 1
  /\ q.op \in {"inexts", "popf", "stkge"} => Len(s) > 1
  /\ q.op \in {"expush", "expop"} => s = Clear
  /\ q.op = "expop" => q.at.tries # <<>>
  /\ q.op \in {"pushw", "wpop"} => q.at.withs # <<>>
  /\ q.op \in {"end", "dtail", "ftail"} => q.at.tries = <<>>
  /\ q.op = "end" => Len(s) = 2
  /\ q.op = "dtail" => s = <<Exactly(0), Exactly(q.arg)>>
  /\ q.op = "ftail" => Len(s) = 3 /\ s[1] = Exactly(0) /\ s[2] = Exactly(0)

Admits(h, s) ==
  /\ Len(h) = Len(s)
  /\ \A k \in 1..Len(h) : IF h[k].is = "atleast" THEN h[k].n <= s[k].n ELSE h[k] = s[k]
Leads(p, h, j, s, tries, withs) ==
  /\ j \in 1..Len(p) /\ Admits(h[j], s)
  /\ p[j].at.tries = tries /\ p[j].at.withs = withs

(* A try ends among the with blocks it began with, and in it they are not    *)
(* left.                                                                     *)
Nests(q, p) ==
  \A j \in 1..Len(p) :
    p[j].op = "expush" /\ q.at.tries # <<>> /\ p[j].arg = Last(q.at.tries) =>
      /\ p[j].at.tries = Front(q.at.tries)
      /\ Len(p[j].at.withs) <= Len(q.at.withs)
      /\ q.op = "expop" => p[j].at.withs = q.at.withs

Sound(p, h, i) ==
  /\ h[i] \in Seq(Levels) /\ h[i] # <<>> /\ h[i][1].is = "exactly"
  /\ ~ p[i].at.mid => h[i] = Clear
  /\ Finds(p[i], h[i]) /\ Nests(p[i], p)
  /\ \A j \in Goes(p[i]) : Leads(p, h, j, h[i], p[i].at.tries, p[i].at.withs)
  /\ \A j \in Follows(p[i], i) :
       Leads(p, h, j, After(h[i], p[i]), TriesAfter(p[i]), WithsAfter(p[i]))

Fits(p) ==
  /\ p \in Seq(Instructions)
  /\ Leads(p, Found(p), 1, Clear, <<>>, <<>>)
  /\ \A i \in 1..Len(p) : Sound(p, Found(p), i)

(* The compiler makes only such code: every jump, call, region and try of    *)
(* every program agrees with what each way of getting there leaves on the    *)
(* stacks (ucomp.c, uoptim.c and uparse.c together).                         *)
CodeFits == pc = 0 => Fits(prog)
=============================================================================
