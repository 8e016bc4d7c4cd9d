------------------------------ MODULE Coroutine ------------------------------
(***************************************************************************)
(* Coroutines (ulibcoro.c, and vmboing and vmexit of uvm.c).  A coroutine  *)
(* is a view of its own that a thread enters and leaves in the middle of   *)
(* unc0_run: resume leaves the view to go to in trampoline and fails with  *)
(* UNCIL_ERR_TRAMPOLINE; yield and the end of the coroutine go back to     *)
(* returnto.  Threads share coroutines.                                    *)
(*                                                                         *)
(* A coroutine and its view have one name, and so have a thread and the    *)
(* view it was started with.  Of the code of a view there is left what     *)
(* matters to its switches: which functions were called from C, and which  *)
(* C functions have called back.                                           *)
(***************************************************************************)
EXTENDS Naturals, Sequences, FiniteSets, SequencesExt

CONSTANTS
  Threads, Coros, NoOne,
  Values, Lengths, (* what may be passed to a coroutine and back, and how   *)
                   (* many values at a time                                 *)
  MaxCalls,  (* bound: calls and errors, of all threads                     *)
  MaxRuns,   (* bound: unc0_run within unc0_run                             *)
  Features   (* "one": the results of resume and yield are put into a       *)
             (* variable;                                                   *)
             (* "tail": yield is called in a return, or by what a return    *)
             (* has resumed, or such a resume fails to switch;              *)
             (* "callyield": C functions call back what yields;             *)
             (* "register": the compiler keeps w of unc0_run in a register; *)
             (* "bare": a coroutine that has yielded without its runlock is *)
             (* resumed before its thread has left it                       *)

ASSUME CoroutineAssumption ==
  /\ NoOne \notin Threads \cup Coros /\ Threads \cap Coros = {}
  /\ IsFiniteSet(Coros)
  /\ Lengths \subseteq Nat /\ MaxCalls \in Nat /\ MaxRuns \in Nat \ {0}
  /\ Features \subseteq {"one", "tail", "callyield", "register", "bare"}

Views == Threads \cup Coros
Lists == UNION {[1..n -> Values] : n \in Lengths}

VARIABLES
  status, returnto,    (* of struct unc_coroutine; "none" before new        *)
  lock,                (* who holds the lock of the opaque object           *)
  trampoline, corotail, runlock, sval,
                       (* of a view; a runlock is as often in the sequence  *)
                       (* as it is held; sval: what was passed to the view  *)
  frames,              (* of a view: "main", "native" (a C function that    *)
                       (* has called back)                                  *)
  runs,                (* of a thread: the unc0_run it is in, each with its *)
                       (* origw and w                                       *)
  at, err, arg, how,   (* where a thread is, the error it has, the view it  *)
                       (* is to go to or its resume is about, and how that  *)
                       (* or yield was called                               *)
  want,                (* of a view: how it left, "args" before it starts   *)
  calls,               (* the calls that were made                          *)
  due, heard,          (* history: what was passed to a view; what the last *)
                       (* resume or yield returned and what it should have  *)
  lost, bare           (* history: the coroutines that could not be         *)
                       (* entered, and the views that go on unlocked        *)

object == <<status, returnto, lock>>
view == <<trampoline, corotail, runlock, sval, frames, want>>
thread == <<runs, at, err, arg, how, calls>>
marks == <<lost, bare>>
vars == <<object, view, thread, due, heard, marks>>

Quiet == [got |-> <<>>, due |-> <<>>]
Run(v) == [orig |-> v, cur |-> v]

Init ==
  /\ status = [c \in Coros |-> "none"] /\ returnto = [c \in Coros |-> NoOne]
  /\ lock = [c \in Coros |-> NoOne]
  /\ trampoline = [v \in Views |-> NoOne] /\ corotail = [v \in Views |-> FALSE]
  /\ runlock = [v \in Views |-> IF v \in Threads THEN <<v>> ELSE <<>>]
  /\ sval = [v \in Views |-> <<>>]
  /\ frames = [v \in Views |-> IF v \in Threads THEN <<"main">> ELSE <<>>]
  /\ want = [v \in Views |-> "args"]
  /\ runs = [t \in Threads |-> <<Run(t)>>]
  /\ at = [t \in Threads |-> "code"] /\ err = [t \in Threads |-> FALSE]
  /\ arg = [t \in Threads |-> NoOne] /\ how = [t \in Threads |-> "list"]
  /\ calls = 0
  /\ due = [v \in Views |-> <<>>] /\ heard = [t \in Threads |-> Quiet]
  /\ lost = {} /\ bare = {}

Orig(t) == Last(runs[t]).orig
Cur(t) == Last(runs[t]).cur
Into(t, v) == [runs EXCEPT ![t][Len(runs[t])].cur = v]

Goto(t, l) == at' = [at EXCEPT ![t] = l]
Hush(t) == heard' = [heard EXCEPT ![t] = Quiet]

(* A recursive mutex: whoever holds it may lock it again; unlocking what     *)
(* another thread or nobody holds does nothing.                              *)
Lockable(v, t) == \A i \in 1..Len(runlock[v]) : runlock[v][i] = t
Locked(v, t) == [runlock EXCEPT ![v] = Append(@, t)]
Unlocked(v, t) ==
  [runlock EXCEPT ![v] = IF @ # <<>> /\ Last(@) = t THEN Front(@) ELSE @]

(* A call made by the code of a view: a C function is about to be executed.  *)
Calling(t) ==
  /\ at[t] = "code" /\ calls < MaxCalls
  /\ calls' = calls + 1
  /\ Hush(t)

(* longjmp to the setjmp of unc0_run.  A w in a register then has the value  *)
(* it had when setjmp was called.  (A tail call has a setjmp of its own.)    *)
Landed(t, h) ==
  IF "register" \in Features /\ h # "tail" THEN Into(t, Orig(t)) ELSE runs

(* A C function fails.  Errors of a tail call go to vmerrormainctail.        *)
Fail(t, h) ==
  /\ Goto(t, IF h = "tail" THEN "exit" ELSE "error")
  /\ err' = [err EXCEPT ![t] = TRUE]
  /\ runs' = Landed(t, h)

-----------------------------------------------------------------------------
(* The library *)

(* coroutine.new *)
New(t, c) ==
  /\ at[t] = "code" /\ Hush(t)
  /\ status[c] = "none"
  /\ status' = [status EXCEPT ![c] = "init"]
  /\ UNCHANGED <<returnto, lock, view, thread, due, marks>>

(* canresume and hasfinished, while they look at the coroutine. *)
Query(t, c) ==
  /\ Calling(t)
  /\ status[c] # "none" /\ lock[c] = NoOne
  /\ lock' = [lock EXCEPT ![c] = t]
  /\ arg' = [arg EXCEPT ![t] = c]
  /\ Goto(t, "query")
  /\ UNCHANGED <<status, returnto, view, runs, err, how, due, marks>>

Answer(t) ==
  /\ at[t] = "query"
  /\ lock' = [lock EXCEPT ![arg[t]] = NoOne]
  /\ arg' = [arg EXCEPT ![t] = NoOne]
  /\ Goto(t, "code")
  /\ UNCHANGED <<status, returnto, view, runs, err, how, calls, due, heard,
                 marks>>

Kinds == {"list", "tail"} \cup ({"one"} \cap Features)

(* unc0_dotailpre: the function that makes a tail call has no frame left.    *)
Leave(w, h) ==
  frames' = IF h = "tail" THEN [frames EXCEPT ![w] = Front(@)] ELSE frames

(* The beginning of resume: the opaque object is locked, or not.             *)
Resume(t, c, h) ==
  /\ Calling(t)
  /\ status[c] # "none"
  /\ h = "tail" => "tail" \in Features \/ runlock[c] = <<>>
  /\ c \in bare /\ status[c] = "yield" => "bare" \in Features
  /\ Leave(Cur(t), h)
  /\ how' = [how EXCEPT ![t] = h]
  /\ IF lock[c] = NoOne
     THEN /\ lock' = [lock EXCEPT ![c] = t]
          /\ arg' = [arg EXCEPT ![t] = c]
          /\ Goto(t, "resume")
          /\ UNCHANGED <<runs, err>>
     ELSE Fail(t, h) /\ UNCHANGED <<lock, arg>>
  /\ UNCHANGED <<status, returnto, trampoline, corotail, runlock, sval, want,
                 due, marks>>

(* Mutant: the object stays locked if the coroutine cannot be resumed. *)
RefuseLocked(t) ==
  /\ Fail(t, how[t])
  /\ arg' = [arg EXCEPT ![t] = NoOne]
  /\ UNCHANGED <<object, view, due>>

Refuse(t) ==
  /\ lock' = [lock EXCEPT ![arg[t]] = NoOne]
  /\ Fail(t, how[t])
  /\ arg' = [arg EXCEPT ![t] = NoOne]
  /\ UNCHANGED <<status, returnto, view, due>>

(* Mutant: the coroutine goes back to who resumed it first. *)
BeginAsBefore(t, c, w, values) ==
  /\ status' = [status EXCEPT ![c] = "run"]
  /\ returnto' = [returnto EXCEPT ![c] = IF @ = NoOne THEN w ELSE @]
  /\ lock' = [lock EXCEPT ![c] = NoOne]
  /\ trampoline' = [trampoline EXCEPT ![w] = c]
  /\ due' = [due EXCEPT ![c] = values]
  /\ IF status[c] = "init"
     THEN frames' = [frames EXCEPT ![c] = <<"main">>] /\ UNCHANGED sval
     ELSE sval' = [sval EXCEPT ![c] = @ \o values] /\ UNCHANGED frames

(* What resume does to the coroutine: the values go onto the stack of its    *)
(* view; if it has not begun, its function is called and takes them.         *)
Begin(t, c, w, values) ==
  /\ status' = [status EXCEPT ![c] = "run"]
  /\ returnto' = [returnto EXCEPT ![c] = w]
  /\ lock' = [lock EXCEPT ![c] = NoOne]
  /\ trampoline' = [trampoline EXCEPT ![w] = c]
  /\ due' = [due EXCEPT ![c] = values]
  /\ IF status[c] = "init"
     THEN frames' = [frames EXCEPT ![c] = <<"main">>] /\ UNCHANGED sval
     ELSE sval' = [sval EXCEPT ![c] = @ \o values] /\ UNCHANGED frames

(* The rest of resume.  The call of the function may fail: it may be a C     *)
(* function, or not take that many arguments.                                *)
Resuming(t) ==
  /\ at[t] = "resume"
  /\ LET c == arg[t]
         w == Cur(t)
     IN \/ status[c] \notin {"init", "yield"} /\ Refuse(t)
        \/ status[c] = "init" /\ Refuse(t)
        \/ /\ status[c] \in {"init", "yield"}
           /\ \E values \in Lists : Begin(t, c, w, values)
           /\ want' = [want EXCEPT ![w] = how[t]]
           /\ runs' = Landed(t, how[t])
           /\ arg' = [arg EXCEPT ![t] = NoOne]
           /\ Goto(t, "boing")
           /\ UNCHANGED <<corotail, runlock, err>>
  /\ UNCHANGED <<how, calls, heard, marks>>

(* coroutine.yield, up to the lock of the coroutine. *)
Yield(t, h) ==
  /\ Calling(t)
  /\ LET w == Cur(t) IN
     /\ Leave(w, h)
     /\ IF w \in Threads
        THEN Fail(t, h)
        ELSE /\ Len(frames[w]) = 1 \/ "callyield" \in Features
             /\ h = "tail" \/ corotail[returnto[w]] => "tail" \in Features
             /\ Goto(t, "yield")
             /\ UNCHANGED <<runs, err>>
  /\ how' = [how EXCEPT ![t] = h]
  /\ UNCHANGED <<object, trampoline, corotail, runlock, sval, want, arg, due,
                 marks>>

(* unc0_coroyield without finish. *)
Yielding(t) ==
  /\ at[t] = "yield"
  /\ LET w == Cur(t)
         cw == returnto[w]
     IN /\ lock[w] = NoOne
        /\ \E values \in Lists :
             /\ sval' = [sval EXCEPT ![cw] = @ \o values]
             /\ due' = [due EXCEPT ![cw] = values]
        /\ status' = [status EXCEPT ![w] = "yield"]
        /\ trampoline' = [trampoline EXCEPT ![w] = cw]
        /\ want' = [want EXCEPT ![w] = how[t]]
  /\ runs' = Landed(t, how[t])
  /\ Goto(t, "boing")
  /\ UNCHANGED <<returnto, lock, corotail, runlock, frames, err, arg, how,
                 calls, heard, marks>>

-----------------------------------------------------------------------------
(* Switches *)

(* Mutant: the view that is left stays locked. *)
BoingLocked(t) ==
  /\ at[t] = "boing"
  /\ LET w == Cur(t) IN
     /\ trampoline[w] # NoOne
     /\ corotail' = [corotail EXCEPT ![w] = how[t] = "tail"]
     /\ arg' = [arg EXCEPT ![t] = trampoline[w]]
     /\ trampoline' = [trampoline EXCEPT ![w] = NoOne]
  /\ Goto(t, "switch")
  /\ UNCHANGED <<object, runlock, sval, frames, want, runs, err, how, calls,
                 due, heard, marks>>

(* An unlocked view that is left is as it should be, unless a C function in  *)
(* it has called back and still counts on its runlock.                       *)
Covered(t, w) ==
  bare' = IF \E i \in 1..(Len(runs[t]) - 1) : runs[t][i].cur = w THEN bare
          ELSE bare \ {w}

(* vmerror, DTAIL or FTAIL, to vmboing.  Its ASSERT stops what has no        *)
(* trampoline.                                                               *)
Boing(t) ==
  /\ at[t] = "boing"
  /\ LET w == Cur(t) IN
     /\ trampoline[w] # NoOne
     /\ corotail' = [corotail EXCEPT ![w] = how[t] = "tail"]
     /\ arg' = [arg EXCEPT ![t] = trampoline[w]]
     /\ trampoline' = [trampoline EXCEPT ![w] = NoOne]
     /\ runlock' = Unlocked(w, t)
     /\ Covered(t, w)
  /\ Goto(t, "switch")
  /\ UNCHANGED <<object, sval, frames, want, runs, err, how, calls, due, heard,
                 lost>>

(* Mutant: what was received stays on the stack. *)
ReceiveKeep(v) ==
  IF want[v] = "args" THEN [got |-> due[v], left |-> sval[v]]
  ELSE IF want[v] = "one" THEN [got |-> <<>>, left |-> sval[v]]
  ELSE [got |-> sval[v], left |-> sval[v]]

(* What a view receives when it goes on, and what is left on its stack.      *)
(* unc0_exitccall has already been through: it has put null into a variable  *)
(* that was to get the first value, while the values of a list were still to *)
(* come.                                                                     *)
Receive(v) ==
  IF want[v] = "args" THEN [got |-> due[v], left |-> sval[v]]
  ELSE IF want[v] = "one" THEN [got |-> <<>>, left |-> sval[v]]
  ELSE [got |-> sval[v], left |-> <<>>]

Asked(v) ==
  IF want[v] = "one" /\ due[v] # <<>> THEN <<Head(due[v])>> ELSE due[v]

GoOn(t, v) ==
  /\ Goto(t, "code")
  /\ sval' = [sval EXCEPT ![v] = Receive(v).left]
  /\ heard' = [heard EXCEPT ![t] = [got |-> Receive(v).got, due |-> Asked(v)]]

(* The other view's runlock is only tried.  If that fails, w goes on to an   *)
(* error, unlocked.                                                          *)
Switch(t) ==
  /\ at[t] = "switch"
  /\ LET v == arg[t]
         w == Cur(t)
     IN IF Lockable(v, t)
        THEN /\ runlock' = Locked(v, t)
             /\ runs' = Into(t, v)
             /\ GoOn(t, v) /\ UNCHANGED <<err, marks>>
        ELSE /\ lost' = lost \cup {v} /\ bare' = bare \cup {w}
             /\ Goto(t, "error") /\ err' = [err EXCEPT ![t] = TRUE]
             /\ UNCHANGED <<runlock, runs, sval, heard>>
  /\ arg' = [arg EXCEPT ![t] = NoOne]
  /\ UNCHANGED <<object, trampoline, corotail, frames, want, how, calls, due>>

-----------------------------------------------------------------------------
(* The code of a view *)

(* A C function calls back; unc0_run locks the view once more. *)
CallBack(t) ==
  /\ Calling(t)
  /\ Len(runs[t]) < MaxRuns
  /\ LET w == Cur(t) IN
     /\ Lockable(w, t)
     /\ frames' = [frames EXCEPT ![w] = @ \o <<"native", "main">>]
     /\ runlock' = Locked(w, t)
     /\ runs' = [runs EXCEPT ![t] = Append(@, Run(w))]
  /\ UNCHANGED <<object, trampoline, corotail, sval, want, at, err, arg, how,
                 due, marks>>

Raise(t) ==
  /\ Calling(t)
  /\ Fail(t, "list")
  /\ UNCHANGED <<object, view, arg, how, due, marks>>

(* vmerror: a try catches the error, or the function called from C ends. *)
Unwind(t) ==
  /\ at[t] = "error"
  /\ \/ Goto(t, "code") /\ err' = [err EXCEPT ![t] = FALSE] /\ UNCHANGED frames
     \/ /\ Goto(t, "exit") /\ UNCHANGED err
        /\ frames' = [frames EXCEPT ![Cur(t)] = Front(@)]
  /\ UNCHANGED <<object, trampoline, corotail, runlock, sval, want, runs, arg,
                 how, calls, due, heard, marks>>

(* EXIT, EXIT0 and EXIT1 of a function called from C: what it returns is all *)
(* that is on the stack.                                                     *)
Return(t) ==
  /\ at[t] = "code"
  /\ \E values \in Lists :
       /\ sval' = [sval EXCEPT ![Cur(t)] = values]
       /\ due' = [due EXCEPT ![Cur(t)] = values]
  /\ frames' = [frames EXCEPT ![Cur(t)] = Front(@)]
  /\ Goto(t, "exit") /\ Hush(t)
  /\ UNCHANGED <<object, trampoline, corotail, runlock, want, runs, err, arg,
                 how, calls, marks>>

(* vmexit *)
Exit(t) ==
  /\ at[t] = "exit"
  /\ LET w == Cur(t) IN
     /\ runlock' = Unlocked(w, t)
     /\ Covered(t, w)
     /\ IF w \in Coros /\ w # Orig(t)
        THEN Goto(t, "finish") /\ UNCHANGED <<runs, sval>>
        ELSE /\ runs' = [runs EXCEPT ![t] = Front(@)]
             /\ sval' = [sval EXCEPT ![w] = <<>>]
             /\ Goto(t, IF Len(runs[t]) = 1 THEN "over" ELSE "native")
  /\ UNCHANGED <<object, trampoline, corotail, frames, want, err, arg, how,
                 calls, due, heard, lost>>

(* unc0_corofinish *)
Finish(t) ==
  /\ at[t] = "finish"
  /\ LET w == Cur(t)
         cw == returnto[w]
     IN /\ lock[w] = NoOne
        /\ IF err[t]
           THEN /\ status' = [status EXCEPT ![w] = "error"]
                /\ UNCHANGED <<sval, due>>
           ELSE /\ status' = [status EXCEPT ![w] = "done"]
                /\ sval' = [sval EXCEPT ![cw] = @ \o sval[w]]
                /\ due' = [due EXCEPT ![cw] = due[w]]
        /\ runs' = Into(t, cw)
  /\ Goto(t, "relock")
  /\ UNCHANGED <<returnto, lock, trampoline, corotail, runlock, frames, want,
                 err, arg, how, calls, heard, marks>>

(* Mutant: the view that resumed the coroutine in a return goes on. *)
RelockGoOn(t) ==
  /\ at[t] = "relock"
  /\ LET w == Cur(t) IN
     /\ Lockable(w, t)
     /\ runlock' = Locked(w, t)
     /\ IF err[t]
        THEN Goto(t, "error") /\ UNCHANGED <<sval, heard>>
        ELSE GoOn(t, w)
  /\ UNCHANGED <<object, trampoline, corotail, frames, want, runs, err, arg,
                 how, calls, due, marks>>

(* and the rest of vmexit: the runlock is waited for. *)
Relock(t) ==
  /\ at[t] = "relock"
  /\ LET w == Cur(t) IN
     /\ Lockable(w, t)
     /\ runlock' = Locked(w, t)
     /\ IF corotail[w] \/ err[t]
        THEN /\ Goto(t, IF corotail[w] THEN "exit" ELSE "error")
             /\ UNCHANGED <<sval, heard>>
        ELSE GoOn(t, w)
  /\ UNCHANGED <<object, trampoline, corotail, frames, want, runs, err, arg,
                 how, calls, due, marks>>

(* The C function that has called back returns; it may pass an error on.     *)
Native(t) ==
  /\ at[t] = "native"
  /\ frames' = [frames EXCEPT ![Cur(t)] = Front(@)]
  /\ \/ Goto(t, "code") /\ err' = [err EXCEPT ![t] = FALSE] /\ UNCHANGED runs
     \/ err[t] /\ Fail(t, "list")
  /\ UNCHANGED <<object, trampoline, corotail, runlock, sval, want, arg, how,
                 calls, due, heard, marks>>

-----------------------------------------------------------------------------
Step(t) ==
  \/ \E c \in Coros : New(t, c) \/ Query(t, c)
  \/ \E c \in Coros, h \in Kinds : Resume(t, c, h)
  \/ \E h \in Kinds : Yield(t, h)
  \/ Answer(t) \/ Resuming(t) \/ Yielding(t) \/ Boing(t) \/ Switch(t)
  \/ CallBack(t) \/ Raise(t) \/ Unwind(t) \/ Return(t)
  \/ Exit(t) \/ Finish(t) \/ Relock(t) \/ Native(t)

Over == \A t \in Threads : at[t] = "over"
Next == (\E t \in Threads : Step(t)) \/ (Over /\ UNCHANGED vars)

Spec == Init /\ [][Next]_vars
FairSpec == Spec /\ \A t \in Threads : WF_vars(Step(t))

-----------------------------------------------------------------------------
(* Properties *)

Ended == {"done", "error"}

(* The variables have their types; a coroutine is locked only by who asks    *)
(* for it or resumes it, and a view has a trampoline only when it leaves.    *)
TypeOK ==
  /\ status \in [Coros -> {"none", "init", "run", "yield"} \cup Ended]
  /\ returnto \in [Coros -> Views \cup {NoOne}]
  /\ \A c \in Coros : lock[c] # NoOne => lock[c] \in Threads /\ arg[lock[c]] = c
  /\ corotail \in [Views -> BOOLEAN] /\ err \in [Threads -> BOOLEAN]
  /\ want \in [Views -> {"args", "list", "one", "tail"}]
  /\ arg \in [Threads -> Views \cup {NoOne}]
  /\ at \in [Threads -> {"code", "query", "resume", "yield", "boing", "switch",
                         "error", "exit", "finish", "relock", "native", "over"}]
  /\ \A v \in Views :
       trampoline[v] # NoOne <=> \E t \in Threads : at[t] = "boing" /\ Cur(t) = v

(* A runlock is held once for every unc0_run that is in the view, and by     *)
(* their thread; a coroutine that waits to be resumed is not locked.  Only   *)
(* the view whose switch failed goes on without (docs/GC.md:19: a view that  *)
(* executes unlocked is not stopped by a collection).                        *)
HeldByRuns ==
  \A v \in Views \ bare :
    LET unlocked(t, i) == i = Len(runs[t]) /\ at[t] \in {"switch", "finish", "relock"}
        inside(t) == {i \in 1..Len(runs[t]) : runs[t][i].cur = v /\ ~ unlocked(t, i)}
    IN /\ Len(runlock[v]) = Cardinality({r \in Threads \X (1..MaxRuns) :
                                           r[2] \in inside(r[1])})
       /\ \A i \in 1..Len(runlock[v]) : inside(runlock[v][i]) # {}

(* Where an unc0_run goes back to, step by step: the view it is in, who      *)
(* resumed that, and so on until the view it began with.                     *)
Way(v) ==
  LET back[n \in 0..Cardinality(Coros)] ==
        IF n = 0 THEN v
        ELSE IF back[n - 1] \in Coros THEN returnto[back[n - 1]] ELSE back[n - 1]
  IN  back
Goal(t, i) ==
  IF i # Len(runs[t]) \/ at[t] \notin {"boing", "switch"} THEN runs[t][i].cur
  ELSE IF at[t] = "boing" THEN trampoline[Cur(t)] ELSE arg[t]
Comes(t, i, n) == Way(Goal(t, i))[n] = runs[t][i].orig
Resumed(t, i) ==
  LET above == {n \in 0..Cardinality(Coros) : \A k \in 0..n : ~ Comes(t, i, k)}
  IN  {Way(Goal(t, i))[n] : n \in above}

(* Whoever resumed a coroutine waits for it: a coroutine that runs is        *)
(* executed, or waits for another, in exactly one unc0_run, from which       *)
(* returnto leads back to the view the unc0_run began with (docs/            *)
(* Coroutine.md:7-9, "only one coroutine can be running at a time on a       *)
(* thread"), or was lost when its thread failed to enter it.                 *)
Awaited ==
  /\ \A t \in Threads, i \in 1..MaxRuns : i <= Len(runs[t]) =>
       /\ \E n \in 0..Cardinality(Coros) : Comes(t, i, n)
       /\ \A c \in Resumed(t, i) : status[c] = "run" /\ c \notin lost
  /\ \A c \in Coros : status[c] = "run" /\ c \notin lost =>
       Cardinality({r \in Threads \X (1..MaxRuns) :
                      r[2] <= Len(runs[r[1]]) /\ c \in Resumed(r[1], r[2])}) = 1

(* Code is executed, and errors are raised, by a function that has a frame;  *)
(* a C function that is returned to has one too; and a coroutine that has    *)
(* finished has none and is not entered again.                               *)
FramesMatch ==
  /\ \A t \in Threads :
       /\ at[t] \in {"code", "error"} =>
            frames[Cur(t)] # <<>> /\ Last(frames[Cur(t)]) = "main"
       /\ at[t] = "native" =>
            frames[Cur(t)] # <<>> /\ Last(frames[Cur(t)]) = "native"
  /\ \A c \in Coros : status[c] \in Ended => 
       /\ frames[c] = <<>>
       /\ \A t \in Threads : runs[t] # <<>> /\ Cur(t) = c => at[t] = "switch"

(* What is passed to resume is what yield returns, or what the function of   *)
(* the coroutine is called with; what is passed to yield, or returned by     *)
(* that function, is what resume returns (docs/Coroutine.md:38-41, :63-74).     *)
Delivered == \A t \in Threads : heard[t].got = heard[t].due

(* Programs that make finitely many calls end, however threads compete for   *)
(* coroutines.                                                               *)
Ends == <>Over
=============================================================================
