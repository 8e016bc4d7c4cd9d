-------------------------------- MODULE Pause --------------------------------
(***************************************************************************)
(* How the views of one Uncil world run, are paused for the collector or   *)
(* an EXCLUSIVE C function, and are halted: umt.c, the entry and exit      *)
(* paths of uvm.c, and unc_yield, unc_yieldfull, unc_vmpause, unc_vmresume *)
(* and unc_halt of uimpl.c.                                                *)
(*                                                                         *)
(* A view is driven by one thread, so a thread is named by its view.       *)
(* Mutexes are recursive (umt.c:86): an owner and a count.  Coroutines,    *)
(* by which a thread moves to another view, are in module Coroutine;       *)
(* views that are created or freed are in module ViewList.  A C function   *)
(* that calls back into the VM is not followed below the first CHECKPAUSE  *)
(* of unc0_run (action Callback): its bytecode is part of "cfn".           *)
(***************************************************************************)
EXTENDS Naturals, FiniteSets, TLC

CONSTANTS
  Views,      (* the views of the world                                     *)
  NoView,     (* the owner of a free mutex, the target of no probe          *)
  Runners,    (* the views some thread calls into; the others stay idle     *)
  Features    (* what the program does beyond running bytecode and          *)
              (* collecting, a subset of AllFeatures                        *)

AllFeatures ==
  { "cfunction",    (* C functions are called, from bytecode and by unc_call *)
    "block",        (* C functions block between unc_vmpause and _vmresume   *)
    "exclusive",    (* UNC_CFUNC_EXCLUSIVE functions are called              *)
    "callback",     (* C functions call Uncil functions                      *)
    "halt",         (* unc_halt is called                                    *)
    "hostcollect",  (* API calls outside the VM allocate, and collect        *)
    "spread" }      (* f(x...) with an x whose iterator is a C function      *)

ASSUME PauseAssumption ==
  /\ IsFiniteSet(Views)
  /\ NoView \notin Views
  /\ Runners \subseteq Views
  /\ Features \subseteq AllFeatures

VARIABLES
  pc,       (* where the view's thread is                                    *)
  flow,     (* Unc_View.flow                                                 *)
  runlock,  (* Unc_View.runlock: its owner and how often it holds it         *)
  viewlist, (* owner of Unc_World.viewlist_lock                              *)
  cflock,   (* Unc_FunctionC.lock of the one UNC_CFUNC_DEFAULT function      *)
  cfunc,    (* flags of the C function the view runs, or "none"              *)
  err,      (* the error being unwound                                       *)
  back,     (* where unc0_vmcheckpause returns to                            *)
  cTo,      (* where the C function returns to                               *)
  gcTo,     (* where unc0_gccollect returns to; "none" when not collecting   *)
  todo,     (* the views the loop of a pause or a resume has not visited     *)
  probing   (* the view whose runlock unc0_mtpause holds                     *)

vars == <<pc, flow, runlock, viewlist, cflock, cfunc, err, back, cTo, gcTo,
          todo, probing>>
control == <<cfunc, err, back, cTo, gcTo, todo, probing>>
locks   == <<runlock, viewlist, cflock>>

Free == [owner |-> NoView, count |-> 0]
Flows == {"run", "pause", "halt"}
CFuncs == {"none", "default", "concurrent", "exclusive"}
Places == { "idle",      (* outside the VM                                   *)
            "refused",   (* UNCIL_ERR_LOGIC_CANNOTLOCK returned              *)
            "enter",     (* unc0_fcall from C, runlock held                  *)
            "called",    (* between unc0_fcall and unc0_run                  *)
            "exec",      (* bytecode                                         *)
            "error", "unwind",      (* vmerror, before and after the check   *)
            "check", "checked",     (* the loop and last read of checkpause  *)
            "lockfn", "cfn",        (* locking, running a C function         *)
            "relock", "blocked",    (* unc_yieldfull; between vmpause/resume *)
            "request", "flag", "probe",                 (* unc0_mtpause      *)
            "stw",                  (* between UNC_PAUSE and UNC_RESUME      *)
            "unrequest", "unflag" } (* unc0_pthread_resume                   *)

Init ==
  /\ pc       = [v \in Views |-> "idle"]
  /\ flow     = [v \in Views |-> "run"]
  /\ runlock  = [v \in Views |-> Free]
  /\ viewlist = NoView
  /\ cflock   = Free
  /\ cfunc    = [v \in Views |-> "none"]
  /\ err      = [v \in Views |-> "none"]
  /\ back     = [v \in Views |-> "none"]
  /\ cTo      = [v \in Views |-> "none"]
  /\ gcTo     = [v \in Views |-> "none"]
  /\ todo     = [v \in Views |-> {}]
  /\ probing  = [v \in Views |-> NoView]

-----------------------------------------------------------------------------
(* Recursive mutexes.  Unlocking one that another thread holds, or nobody,  *)
(* fails with EPERM and changes nothing.                                    *)

Lockable(m, v) == m.owner \in {NoView, v}
Held(m, v)     == m.owner = v
Locked(m, v)   == [owner |-> v, count |-> m.count + 1]
(* Mutant: the owner is not looked at. *)
UnlockedByAnyone(m, v) ==
  [owner |-> IF m.count = 1 THEN NoView ELSE m.owner, count |-> m.count - 1]

Unlocked(m, v) == IF m.owner # v THEN m
                  ELSE IF m.count = 1 THEN Free
                  ELSE [owner |-> v, count |-> m.count - 1]

LockRun(v)   == runlock' = [runlock EXCEPT ![v] = Locked(@, v)]
UnlockRun(v) == runlock' = [runlock EXCEPT ![v] = Unlocked(@, v)]

Goto(v, from, to) == pc[v] = from /\ pc' = [pc EXCEPT ![v] = to]

(* unc0_vmcheckpause is called from place `from` and returns to `to`.        *)
CheckPause(v, from, to) ==
  /\ Goto(v, from, "check")
  /\ back' = [back EXCEPT ![v] = to]

-----------------------------------------------------------------------------
(* Entering the VM from C: unc_callex is unc0_fcall, then unc0_run.          *)

Call(v) ==
  /\ v \in Runners
  /\ Lockable(runlock[v], v)
  /\ Goto(v, "idle", "enter")
  /\ LockRun(v)
  /\ UNCHANGED <<flow, viewlist, cflock, control>>

CallRefused(v) ==
  /\ v \in Runners
  /\ ~Lockable(runlock[v], v)
  /\ Goto(v, "idle", "refused")
  /\ UNCHANGED <<flow, locks, control>>

(* An Uncil function: the frame is pushed, unc0_fcall unlocks and returns.   *)
EnterUncil(v) ==
  /\ Goto(v, "enter", "called")
  /\ UnlockRun(v)
  /\ UNCHANGED <<flow, viewlist, cflock, control>>

(* Mutant: unc0_run does not look at flow before its first instruction. *)
RunUnchecked(v) ==
  /\ Lockable(runlock[v], v)
  /\ LockRun(v)
  /\ Goto(v, "called", "exec")
  /\ UNCHANGED <<flow, viewlist, cflock, control>>

Run(v) ==
  /\ Lockable(runlock[v], v)
  /\ LockRun(v)
  /\ IF flow[v] = "run" THEN /\ Goto(v, "called", "exec")
                             /\ UNCHANGED back
                        ELSE CheckPause(v, "called", "exec")
  /\ UNCHANGED <<flow, viewlist, cflock, cfunc, err, cTo, gcTo, todo, probing>>

RunRefused(v) ==
  /\ ~Lockable(runlock[v], v)
  /\ Goto(v, "called", "refused")
  /\ UNCHANGED <<flow, locks, control>>

ReportRefused(v) ==
  /\ Goto(v, "refused", "idle")
  /\ UNCHANGED <<flow, locks, control>>

-----------------------------------------------------------------------------
(* unc0_vmcheckpause: spin while flow is PAUSE, then read flow once more.    *)

SpinEnd(v) ==
  /\ flow[v] # "pause"
  /\ Goto(v, "check", "checked")
  /\ UNCHANGED <<flow, locks, control>>

(* unc0_vmpaused turns HALT into a jump to vmerror; C callers go on.         *)
CheckReturn(v) ==
  /\ IF flow[v] = "halt" /\ back[v] \in {"exec", "unwind"}
     THEN /\ Goto(v, "checked", "error")
          /\ err' = [err EXCEPT ![v] = "halt"]
     ELSE /\ Goto(v, "checked", back[v])
          /\ UNCHANGED err
  /\ back' = [back EXCEPT ![v] = "none"]
  /\ UNCHANGED <<flow, locks, cfunc, cTo, gcTo, todo, probing>>

(* The CHECKPAUSE of an instruction; where flow is RUN it does nothing.      *)
Poll(v) ==
  /\ flow[v] # "run"
  /\ CheckPause(v, "exec", "exec")
  /\ UNCHANGED <<flow, locks, cfunc, err, cTo, gcTo, todo, probing>>

-----------------------------------------------------------------------------
(* Leaving the VM.                                                           *)

Finish(v) ==
  /\ Goto(v, "exec", "idle")
  /\ UnlockRun(v)
  /\ UNCHANGED <<flow, viewlist, cflock, control>>

Throw(v) ==
  /\ Goto(v, "exec", "error")
  /\ err' = [err EXCEPT ![v] = "throw"]
  /\ UNCHANGED <<flow, locks, cfunc, back, cTo, gcTo, todo, probing>>

ErrorCheck(v) ==
  /\ IF flow[v] = "run" THEN /\ Goto(v, "error", "unwind")
                             /\ UNCHANGED back
                        ELSE CheckPause(v, "error", "unwind")
  /\ UNCHANGED <<flow, locks, cfunc, err, cTo, gcTo, todo, probing>>

(* An exception may be caught by a try block; a halt never is.               *)
Caught(v) ==
  /\ err[v] = "throw"
  /\ Goto(v, "unwind", "exec")
  /\ err' = [err EXCEPT ![v] = "none"]
  /\ UNCHANGED <<flow, locks, cfunc, back, cTo, gcTo, todo, probing>>

Unwound(v) ==
  /\ Goto(v, "unwind", "idle")
  /\ UnlockRun(v)
  /\ err' = [err EXCEPT ![v] = "none"]
  /\ UNCHANGED <<flow, viewlist, cflock, cfunc, back, cTo, gcTo, todo, probing>>

(* dolspr calls the iterator through unc0_fcall with fromc = 0, which        *)
(* unlocks a runlock it did not lock.                                        *)
Spread(v) ==
  /\ "spread" \in Features
  /\ Goto(v, "exec", "exec")
  /\ UnlockRun(v)
  /\ UNCHANGED <<flow, viewlist, cflock, control>>

-----------------------------------------------------------------------------
(* C functions (unc0_vmfcall), called from bytecode or, without any check of *)
(* flow, from unc0_fcall.                                                    *)

CallC(v) ==
  /\ "cfunction" \in Features
  /\ \E from \in {"enter", "exec"}, flags \in CFuncs \ {"none"} :
       /\ cTo' = [cTo EXCEPT ![v] = IF from = "enter" THEN "idle" ELSE "exec"]
       /\ cfunc' = [cfunc EXCEPT ![v] = flags]
       /\ \/ /\ flags = "exclusive"
             /\ "exclusive" \in Features
             /\ Goto(v, from, "request")
          \/ /\ flags = "default"
             /\ Goto(v, from, "lockfn")
          \/ /\ flags = "concurrent"
             /\ Goto(v, from, "cfn")
  /\ UNCHANGED <<flow, locks, err, back, gcTo, todo, probing>>

(* UNC_LOCKFP on the function's lock; a halt is ignored by the loop.         *)
LockFn(v) ==
  /\ Lockable(cflock, v)
  /\ Goto(v, "lockfn", "cfn")
  /\ cflock' = Locked(cflock, v)
  /\ UNCHANGED <<flow, runlock, viewlist, control>>

LockFnBusy(v) ==
  /\ ~Lockable(cflock, v)
  /\ flow[v] # "run"
  /\ CheckPause(v, "lockfn", "lockfn")
  /\ UNCHANGED <<flow, locks, cfunc, err, cTo, gcTo, todo, probing>>

(* unc_yield; in an EXCLUSIVE function it returns 0 at once.                 *)
Yield(v) ==
  /\ cfunc[v] # "exclusive"
  /\ flow[v] # "run"
  /\ CheckPause(v, "cfn", "cfn")
  /\ UNCHANGED <<flow, locks, cfunc, err, cTo, gcTo, todo, probing>>

(* unc_yieldfull; only CONCURRENT functions keep their lock.                 *)
YieldFull(v) ==
  /\ cfunc[v] # "concurrent"
  /\ CheckPause(v, "cfn", "relock")
  /\ cflock' = Unlocked(cflock, v)
  /\ UNCHANGED <<flow, runlock, viewlist, cfunc, err, cTo, gcTo, todo, probing>>

Relock(v) ==
  /\ Lockable(cflock, v)
  /\ Goto(v, "relock", "cfn")
  /\ cflock' = Locked(cflock, v)
  /\ UNCHANGED <<flow, runlock, viewlist, control>>

(* unc_vmpause only sets Unc_View.paused, which nothing reads.               *)
VmPause(v) ==
  /\ "block" \in Features
  /\ Goto(v, "cfn", "blocked")
  /\ UNCHANGED <<flow, locks, control>>

VmResume(v) ==
  /\ CheckPause(v, "blocked", "cfn")
  /\ UNCHANGED <<flow, locks, cfunc, err, cTo, gcTo, todo, probing>>

(* A C function calls an Uncil function: the CHECKPAUSE of unc0_run.         *)
Callback(v) ==
  /\ "callback" \in Features
  /\ flow[v] # "run"
  /\ CheckPause(v, "cfn", "cfn")
  /\ UNCHANGED <<flow, locks, cfunc, err, cTo, gcTo, todo, probing>>

(* The C function is done: unlock it, then go back to bytecode, to vmerror   *)
(* with its error, or out of unc0_fcall.  The caller releases what it held.  *)
LeaveC(v, from) ==
  /\ cfunc' = [cfunc EXCEPT ![v] = "none"]
  /\ cTo' = [cTo EXCEPT ![v] = "none"]
  /\ \/ /\ cTo[v] = "exec"
        /\ Goto(v, from, "exec")
        /\ UNCHANGED <<err, runlock>>
     \/ /\ cTo[v] = "exec"
        /\ Goto(v, from, "error")
        /\ err' = [err EXCEPT ![v] = "throw"]
        /\ UNCHANGED runlock
     \/ /\ cTo[v] = "idle"
        /\ Goto(v, from, "idle")
        /\ UnlockRun(v)
        /\ UNCHANGED err

ReturnC(v) ==
  /\ cfunc[v] # "exclusive"
  /\ LeaveC(v, "cfn")
  /\ cflock' = IF cfunc[v] = "default" THEN Unlocked(cflock, v) ELSE cflock
  /\ UNCHANGED <<flow, viewlist, back, gcTo, todo, probing>>

ReturnExclusive(v) ==
  /\ cfunc[v] = "exclusive"
  /\ Goto(v, "cfn", "unrequest")
  /\ UNCHANGED <<flow, locks, control>>

-----------------------------------------------------------------------------
(* unc0_gccollect: UNC_PAUSE, collect, UNC_RESUME.  It is called by an       *)
(* allocation of bytecode or of a C function, by gc.collect, and by an       *)
(* allocation of an API call of a host that is not in the VM.                *)

Collect(v) ==
  /\ \E from \in {"enter", "exec", "cfn", "idle"} :
       /\ from = "idle" => "hostcollect" \in Features /\ v \in Runners
       /\ Goto(v, from, "request")
       /\ gcTo' = [gcTo EXCEPT ![v] = from]
  /\ UNCHANGED <<flow, locks, cfunc, err, back, cTo, todo, probing>>

(* Mutant: the runlocks are probed without the views being flagged. *)
RequestUnflagged(v) ==
  /\ viewlist = NoView
  /\ Goto(v, "request", "probe")
  /\ viewlist' = v
  /\ todo' = [todo EXCEPT ![v] = Views]
  /\ UNCHANGED <<flow, runlock, cflock, cfunc, err, back, cTo, gcTo, probing>>

(* UNC_LOCKFP(view, viewlist_lock) *)
RequestLock(v) ==
  /\ viewlist = NoView
  /\ Goto(v, "request", "flag")
  /\ viewlist' = v
  /\ todo' = [todo EXCEPT ![v] = Views]
  /\ UNCHANGED <<flow, runlock, cflock, cfunc, err, back, cTo, gcTo, probing>>

RequestBusy(v) ==
  /\ viewlist # NoView
  /\ flow[v] # "run"
  /\ CheckPause(v, "request", "request")
  /\ UNCHANGED <<flow, locks, cfunc, err, cTo, gcTo, todo, probing>>

(* The first loop of unc0_mtpause flags every view, itself included.         *)
Flag(v) ==
  /\ \E w \in todo[v] :
       /\ flow' = [flow EXCEPT ![w] = "pause"]
       /\ IF todo[v] = {w}
          THEN /\ Goto(v, "flag", "probe")
               /\ todo' = [todo EXCEPT ![v] = Views]
          ELSE /\ Goto(v, "flag", "flag")
               /\ todo' = [todo EXCEPT ![v] = @ \ {w}]
  /\ UNCHANGED <<locks, cfunc, err, back, cTo, gcTo, probing>>

(* The second loop locks and unlocks every view's runlock.                   *)
Probe(v) ==
  /\ probing[v] = NoView
  /\ \E w \in todo[v] :
       /\ Lockable(runlock[w], v)
       /\ runlock' = [runlock EXCEPT ![w] = Locked(@, v)]
       /\ probing' = [probing EXCEPT ![v] = w]
       /\ todo' = [todo EXCEPT ![v] = @ \ {w}]
  /\ Goto(v, "probe", "probe")
  /\ UNCHANGED <<flow, viewlist, cflock, cfunc, err, back, cTo, gcTo>>

Probed(v) ==
  /\ probing[v] # NoView
  /\ Goto(v, "probe", "probe")
  /\ runlock' = [runlock EXCEPT ![probing[v]] = Unlocked(@, v)]
  /\ probing' = [probing EXCEPT ![v] = NoView]
  /\ UNCHANGED <<flow, viewlist, cflock, cfunc, err, back, cTo, gcTo, todo>>

(* Mutant: the view does not wait for the runlocks it has not got yet. *)
PausedTooEarly(v) ==
  /\ probing[v] = NoView
  /\ Goto(v, "probe", IF gcTo[v] # "none" THEN "stw" ELSE "cfn")
  /\ todo' = [todo EXCEPT ![v] = {}]
  /\ viewlist' = NoView
  /\ UNCHANGED <<flow, runlock, cflock, cfunc, err, back, cTo, gcTo, probing>>

Paused(v) ==
  /\ probing[v] = NoView
  /\ todo[v] = {}
  /\ Goto(v, "probe", IF gcTo[v] # "none" THEN "stw" ELSE "cfn")
  /\ viewlist' = NoView
  /\ UNCHANGED <<flow, runlock, cflock, control>>

(* The marking and the sweeping happen at "stw" (module Heap).               *)
Collected(v) ==
  /\ Goto(v, "stw", "unrequest")
  /\ UNCHANGED <<flow, locks, control>>

(* unc0_pthread_resume *)
ResumeLock(v) ==
  /\ viewlist = NoView
  /\ Goto(v, "unrequest", "unflag")
  /\ viewlist' = v
  /\ todo' = [todo EXCEPT ![v] = Views]
  /\ UNCHANGED <<flow, runlock, cflock, cfunc, err, back, cTo, gcTo, probing>>

(* Mutant: the view that resumes the others forgets itself. *)
UnflagOthers(v) ==
  /\ \E w \in todo[v] :
       /\ flow' = [flow EXCEPT ![w] = IF w = v THEN @ ELSE "run"]
       /\ todo' = [todo EXCEPT ![v] = @ \ {w}]
  /\ Goto(v, "unflag", "unflag")
  /\ UNCHANGED <<locks, cfunc, err, back, cTo, gcTo, probing>>

Unflag(v) ==
  /\ \E w \in todo[v] :
       /\ flow' = [flow EXCEPT ![w] = "run"]
       /\ todo' = [todo EXCEPT ![v] = @ \ {w}]
  /\ Goto(v, "unflag", "unflag")
  /\ UNCHANGED <<locks, cfunc, err, back, cTo, gcTo, probing>>

ResumedCollector(v) ==
  /\ todo[v] = {}
  /\ gcTo[v] # "none"
  /\ Goto(v, "unflag", gcTo[v])
  /\ viewlist' = NoView
  /\ gcTo' = [gcTo EXCEPT ![v] = "none"]
  /\ UNCHANGED <<flow, runlock, cflock, cfunc, err, back, cTo, todo, probing>>

ResumedExclusive(v) ==
  /\ todo[v] = {}
  /\ gcTo[v] = "none"
  /\ LeaveC(v, "unflag")
  /\ viewlist' = NoView
  /\ UNCHANGED <<flow, cflock, back, gcTo, todo, probing>>

-----------------------------------------------------------------------------
(* unc_halt(v), by any other thread that is not itself stopped.              *)

Halt(v) ==
  /\ "halt" \in Features
  /\ \E w \in Views \ {v} : pc[w] \in {"idle", "cfn"}
  /\ flow' = [flow EXCEPT ![v] = "halt"]
  /\ UNCHANGED <<pc, locks, control>>

-----------------------------------------------------------------------------

Enter(v)  == Call(v) \/ CallRefused(v) \/ EnterUncil(v) \/ Run(v)
                \/ RunRefused(v) \/ ReportRefused(v)
Check(v)  == SpinEnd(v) \/ CheckReturn(v) \/ Poll(v) \/ ErrorCheck(v)
Leave(v)  == Finish(v) \/ Throw(v) \/ Caught(v) \/ Unwound(v)
CStep(v)  == CallC(v) \/ LockFn(v) \/ LockFnBusy(v) \/ Yield(v)
                \/ YieldFull(v) \/ Relock(v) \/ VmPause(v) \/ VmResume(v)
                \/ Callback(v) \/ ReturnC(v) \/ ReturnExclusive(v)
Pausing(v) == Collect(v) \/ RequestLock(v) \/ RequestBusy(v) \/ Flag(v)
                \/ Probe(v) \/ Probed(v) \/ Paused(v) \/ Collected(v)
Resuming(v) == ResumeLock(v) \/ Unflag(v) \/ ResumedCollector(v)
                \/ ResumedExclusive(v)

Next == \E v \in Views :
          \/ Enter(v) \/ Check(v) \/ Leave(v) \/ Spread(v)
          \/ CStep(v) \/ Pausing(v) \/ Resuming(v) \/ Halt(v)

Spec == Init /\ [][Next]_vars

(* The scheduler runs every thread that can take a step.  Starting a call,   *)
(* collecting, blocking and halting are the program's choice; so is how long *)
(* a blocking call lasts.  Bytecode reaches its end or a check.              *)
Progress(v) ==
  \/ EnterUncil(v) \/ Run(v) \/ RunRefused(v) \/ ReportRefused(v)
  \/ Check(v) \/ Finish(v) \/ Caught(v) \/ Unwound(v)
  \/ LockFn(v) \/ LockFnBusy(v) \/ Relock(v) \/ ReturnC(v)
  \/ ReturnExclusive(v)
  \/ RequestLock(v) \/ RequestBusy(v) \/ Flag(v) \/ Probe(v) \/ Probed(v)
  \/ Paused(v) \/ Collected(v) \/ Resuming(v)

FairSpec == Spec /\ \A v \in Views : WF_vars(Progress(v))

-----------------------------------------------------------------------------
(* Properties.                                                               *)

(* The variables stay in their types.                                        *)
TypeOK ==
  /\ pc \in [Views -> Places]
  /\ flow \in [Views -> Flows]
  /\ runlock \in [Views -> [owner : Views \cup {NoView}, count : Nat]]
  /\ viewlist \in Views \cup {NoView}
  /\ cflock \in [owner : Views \cup {NoView}, count : Nat]
  /\ cfunc \in [Views -> CFuncs]
  /\ err \in [Views -> {"none", "throw", "halt"}]
  /\ back \in [Views -> {"none", "exec", "unwind", "lockfn", "cfn",
                         "relock", "request"}]
  /\ cTo \in [Views -> {"none", "idle", "exec"}]
  /\ gcTo \in [Views -> {"none", "idle", "enter", "exec", "cfn"}]
  /\ todo \in [Views -> SUBSET Views]
  /\ probing \in [Views -> Views \cup {NoView}]

(* A view owns the world from the end of its UNC_PAUSE to the end of its     *)
(* UNC_RESUME; an EXCLUSIVE function that collects pauses a second time.     *)
FirstPause(v) ==
  /\ gcTo[v] = "none"
  /\ pc[v] \in {"request", "flag", "probe"} \/ back[v] = "request"
Owning(v) ==
  \/ pc[v] \in {"stw", "unrequest", "unflag"}
  \/ cfunc[v] = "exclusive" /\ ~FirstPause(v)

(* Two views never own the world at once: the collector never runs twice at  *)
(* the same time, nor beside an EXCLUSIVE function (ugc.c:357, uvm.c:452).   *)
OneOwner == \A v, w \in Views : Owning(v) /\ Owning(w) => v = w

(* A view executes bytecode, or a C function called from it.                 *)
Executing(v) == pc[v] = "exec" \/ (pc[v] = "cfn" /\ cTo[v] = "exec")

(* While a view collects, no other view executes (docs/GC.md:19: the         *)
(* collector "will cause all other threads to be paused").                   *)
WorldStopped ==
  \A v, w \in Views : pc[v] = "stw" /\ v # w => ~Executing(w)

(* Executing and collecting are the two sides of the lock that WorldLock     *)
(* describes.                                                                *)
World == INSTANCE WorldLock WITH
           executing  <- {v \in Views : Executing(v)},
           collecting <- {v \in Views : pc[v] = "stw"}

(* The pausing protocol implements that lock: no step of it lets a view      *)
(* begin to execute beside a collection, or a collection beside a view       *)
(* (umt.c:53, uvm.c:91).                                                     *)
ImplementsWorldLock == World!Spec

(* A view is told to pause only while some view is pausing the others, owns  *)
(* the world or is giving it back: a pause that is over leaves nobody paused *)
(* for ever (umt.c:53, umt.c:124).                                           *)
InPause(v) ==
  \/ pc[v] \in {"flag", "probe", "stw", "unrequest", "unflag"}
  \/ cfunc[v] = "exclusive"
PauseHasOwner ==
  (\E v \in Views : flow[v] = "pause") => \E w \in Views : InPause(w)

(* A collection that has been asked for comes to its end: the view is back   *)
(* where it collected (docs/GC.md:20, "until the collection is finished").   *)
CollectionEnds ==
  \A v \in Views : gcTo[v] # "none" ~> gcTo[v] = "none"

-----------------------------------------------------------------------------
(* The inductive invariants behind OneOwner and WorldStopped.                *)

(* A mutex nobody holds is held zero times; the return registers of          *)
(* unc0_vmcheckpause and of the C function are set while they are in use.    *)
LockShape(m) == m.owner = NoView <=> m.count = 0
Registers ==
  /\ \A v \in Views : LockShape(runlock[v])
  /\ LockShape(cflock)
  /\ \A v \in Views : back[v] # "none" <=> pc[v] \in {"check", "checked"}

(* A view in the VM holds its runlock, once, and once more while it probes   *)
(* itself; the view list is held by the view in one of the three loops.      *)
Inside(v) == pc[v] \notin {"idle", "refused", "called"}
InList(v) == pc[v] \in {"flag", "probe", "unflag"}
Holding ==
  \A v \in Views :
    /\ Inside(v) => runlock[v] = [owner |-> v,
                                  count |-> IF probing[v] = v THEN 2 ELSE 1]
    /\ ~Inside(v) => runlock[v].owner # v
    /\ probing[v] # NoView => pc[v] = "probe"
    /\ InList(v) => viewlist = v
    /\ gcTo[v] # "idle"

(* Where the view is when a collection or an EXCLUSIVE function is pending.  *)
Pending ==
  \A v \in Views :
    /\ gcTo[v] # "none" =>
         \/ pc[v] \in {"request", "flag", "probe", "stw", "unrequest", "unflag"}
         \/ back[v] = "request"
    /\ pc[v] = "stw" => gcTo[v] # "none"
    /\ gcTo[v] \in {"idle", "enter", "exec"} => cfunc[v] # "exclusive"
    /\ cfunc[v] = "exclusive" =>
         pc[v] \notin {"idle", "refused", "enter", "called", "exec", "error",
                       "unwind", "lockfn"}
    /\ pc[v] \in {"unrequest", "unflag"} /\ gcTo[v] = "none" =>
         cfunc[v] = "exclusive"
    /\ back[v] \in {"exec", "unwind", "lockfn"} => cfunc[v] # "exclusive"

(* A view that owns the world is one whose runlock every other pauser still  *)
(* waits for.                                                                *)
Awaited ==
  \A v, w \in Views :
    Owning(v) /\ pc[w] = "probe" /\ v # w => v \in todo[w]

OwnerInv == TypeOK /\ Registers /\ Holding /\ Pending /\ Awaited /\ OneOwner

(* A view that reaches bytecode, or a C function called from it, without     *)
(* another look at flow.                                                     *)
Loose(v) ==
  \/ pc[v] \in {"exec", "unwind"}
  \/ pc[v] \in {"cfn", "lockfn", "relock"} /\ cTo[v] = "exec"
  \/ /\ pc[v] = "checked"
     /\ \/ back[v] \in {"exec", "unwind"}
        \/ back[v] \in {"cfn", "lockfn", "relock"} /\ cTo[v] = "exec"

(* Every view is flagged while one waits for the runlocks or collects, and   *)
(* a view whose runlock has been probed is not loose.                        *)
Flagged ==
  \A v, w \in Views :
    \/ pc[v] = "flag" /\ w \notin todo[v]
    \/ pc[v] \in {"probe", "stw"}
    => flow[w] = "pause"
NoneLoose ==
  \A v, w \in Views :
    /\ v # w
    /\ pc[v] = "stw" \/ (pc[v] = "probe" /\ w \notin todo[v])
    => ~Loose(w)

WorldInv == OwnerInv /\ Flagged /\ NoneLoose

-----------------------------------------------------------------------------
(* What the documentation says of CollectionEnds and of HaltEnds, the code   *)
(* does not do.                                                              *)

(* docs/API.md:246: unc_halt "halts a Unc_View": one that executes leaves    *)
(* the VM.                                                                   *)
HaltEnds ==
  \A v \in Views : flow[v] = "halt" /\ pc[v] = "exec" ~> pc[v] = "idle"

-----------------------------------------------------------------------------
(* For TLC: the views are interchangeable when all of them run.              *)
Symmetry == Permutations(Views)
=============================================================================
