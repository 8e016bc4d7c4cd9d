----------------------------- MODULE PauseProofs -----------------------------
(***************************************************************************)
(* Proofs about Pause, for any number of views: type correctness; that two *)
(* views never own the world at once; that the world is stopped while a    *)
(* view collects; that nobody is paused by nobody; and that the protocol   *)
(* implements WorldLock.                                                   *)
(***************************************************************************)
EXTENDS Pause, TLAPS

-----------------------------------------------------------------------------
(* Mutexes keep their shape.                                                 *)

Mutex == [owner : Views \cup {NoView}, count : Nat]

LEMMA MutexShape ==
  ASSUME NEW m \in Mutex, LockShape(m), NEW v \in Views
  PROVE  /\ Locked(m, v) \in Mutex
         /\ Unlocked(m, v) \in Mutex
         /\ Lockable(m, v) => LockShape(Locked(m, v))
         /\ LockShape(Unlocked(m, v))
<1>1. v # NoView
  BY PauseAssumption
<1>2. m.count \in Nat /\ m.owner \in Views \cup {NoView}
  BY DEF Mutex
<1>3. Locked(m, v) \in Mutex /\ LockShape(Locked(m, v))
  BY <1>1, <1>2 DEF Mutex, Locked, LockShape
<1>4. Unlocked(m, v) \in Mutex /\ LockShape(Unlocked(m, v))
  <2>1. CASE m.owner # v
    BY <2>1 DEF Unlocked
  <2>2. CASE m.owner = v /\ m.count = 1
    BY <2>2 DEF Unlocked, Free, Mutex, LockShape
  <2>3. CASE m.owner = v /\ m.count # 1
    BY <2>3, <1>1, <1>2 DEF Unlocked, Mutex, LockShape
  <2>4. QED
    BY <2>1, <2>2, <2>3
<1>5. QED
  BY <1>3, <1>4

-----------------------------------------------------------------------------
(* The types, with what the registers hold, whatever the program does.       *)

TypeInv == TypeOK /\ Registers

LEMMA TypeInit == Init => TypeInv
  BY PauseAssumption
  DEF Init, TypeInv, TypeOK, Registers, LockShape, Free, Places, Flows, CFuncs

(* A C function returns: what LeaveC does not touch is typed already.        *)
LEMMA LeaveType ==
  ASSUME TypeInv, NEW v \in Views, NEW from \in {"cfn", "unflag"},
         LeaveC(v, from),
         cflock' \in Mutex, LockShape(cflock)',
         viewlist' \in Views \cup {NoView},
         UNCHANGED <<flow, back, gcTo, todo, probing>>
  PROVE  TypeInv'
<1> USE DEF TypeInv, TypeOK, Registers, Places, Flows, CFuncs, Goto, UnlockRun,
            Mutex
<1>1. /\ cfunc' \in [Views -> CFuncs]
      /\ cTo' \in [Views -> {"none", "idle", "exec"}]
  BY DEF LeaveC
<1>2. ASSUME NEW to \in {"exec", "error"},
             Goto(v, from, to),
             err' \in [Views -> {"none", "throw", "halt"}],
             UNCHANGED runlock
      PROVE  TypeInv'
  BY <1>1, <1>2
<1>3. CASE Goto(v, from, "idle") /\ UnlockRun(v) /\ UNCHANGED err
  BY <1>1, <1>3, MutexShape
<1>4. \/ \E to \in {"exec", "error"} :
           /\ Goto(v, from, to)
           /\ err' \in [Views -> {"none", "throw", "halt"}]
           /\ UNCHANGED runlock
      \/ Goto(v, from, "idle") /\ UnlockRun(v) /\ UNCHANGED err
  BY DEF LeaveC
<1>5. QED
  BY <1>2, <1>3, <1>4

LEMMA TypeStep == TypeInv /\ [Next]_vars => TypeInv'
<1> SUFFICES ASSUME TypeInv, [Next]_vars
             PROVE  TypeInv'
  OBVIOUS
<1> USE DEF TypeInv, TypeOK, Registers, Places, Flows, CFuncs, Goto, locks,
            control, LockRun, UnlockRun, Mutex
<1>1. ASSUME NEW v \in Views, Enter(v)
      PROVE  TypeInv'
  <2>1. CASE Call(v)
    BY <2>1, MutexShape DEF Call
  <2>2. CASE CallRefused(v)
    BY <2>2, MutexShape DEF CallRefused
  <2>3. CASE EnterUncil(v)
    BY <2>3, MutexShape DEF EnterUncil
  <2>4. CASE Run(v)
    <3>1. /\ UNCHANGED <<flow, viewlist, cflock, cfunc, err, cTo, gcTo, todo,
                         probing>>
          /\ runlock' \in [Views -> Mutex]
          /\ \A w \in Views : LockShape(runlock'[w])
      BY <2>4, MutexShape DEF Run
    <3>2. CASE flow[v] = "run"
      <4>1. /\ pc[v] = "called" /\ pc' = [pc EXCEPT ![v] = "exec"]
            /\ UNCHANGED back
        BY <2>4, <3>2 DEF Run
      <4>2. QED
        BY <3>1, <4>1
    <3>3. CASE flow[v] # "run"
      <4>1. /\ pc[v] = "called" /\ pc' = [pc EXCEPT ![v] = "check"]
            /\ back' = [back EXCEPT ![v] = "exec"]
        BY <2>4, <3>3 DEF Run, CheckPause
      <4>2. QED
        BY <3>1, <4>1
    <3>4. QED
      BY <3>2, <3>3
  <2>5. CASE RunRefused(v)
    BY <2>5, MutexShape DEF RunRefused
  <2>6. CASE ReportRefused(v)
    BY <2>6, MutexShape DEF ReportRefused
  <2>7. QED
    BY <1>1, <2>1, <2>2, <2>3, <2>4, <2>5, <2>6 DEF Enter
<1>2. ASSUME NEW v \in Views, Check(v)
      PROVE  TypeInv'
  <2>1. CASE SpinEnd(v)
    BY <2>1, MutexShape DEF SpinEnd
  <2>2. CASE CheckReturn(v)
    <3>1. CASE flow[v] = "halt" /\ back[v] \in {"exec", "unwind"}
      <4>1. /\ pc[v] = "checked"
            /\ pc' = [pc EXCEPT ![v] = "error"]
            /\ err' = [err EXCEPT ![v] = "halt"]
            /\ back' = [back EXCEPT ![v] = "none"]
            /\ UNCHANGED <<flow, runlock, viewlist, cflock, cfunc, cTo, gcTo,
                           todo, probing>>
        BY <2>2, <3>1 DEF CheckReturn
      <4>2. QED
        BY <4>1
    <3>2. CASE ~(flow[v] = "halt" /\ back[v] \in {"exec", "unwind"})
      <4>1. /\ pc[v] = "checked" /\ back[v] # "none"
            /\ pc' = [pc EXCEPT ![v] = back[v]]
            /\ back' = [back EXCEPT ![v] = "none"]
            /\ UNCHANGED <<flow, runlock, viewlist, cflock, cfunc, err, cTo,
                           gcTo, todo, probing>>
        BY <2>2, <3>2 DEF CheckReturn
      <4>2. QED
        BY <4>1
    <3>3. QED
      BY <3>1, <3>2
  <2>3. CASE Poll(v)
    BY <2>3, MutexShape DEF Poll, CheckPause
  <2>4. CASE ErrorCheck(v)
    <3>1. UNCHANGED <<flow, runlock, viewlist, cflock, cfunc, err, cTo, gcTo,
                      todo, probing>>
      BY <2>4 DEF ErrorCheck
    <3>2. CASE flow[v] = "run"
      <4>1. /\ pc[v] = "error" /\ pc' = [pc EXCEPT ![v] = "unwind"]
            /\ UNCHANGED back
        BY <2>4, <3>2 DEF ErrorCheck
      <4>2. QED
        BY <3>1, <4>1
    <3>3. CASE flow[v] # "run"
      <4>1. /\ pc[v] = "error" /\ pc' = [pc EXCEPT ![v] = "check"]
            /\ back' = [back EXCEPT ![v] = "unwind"]
        BY <2>4, <3>3 DEF ErrorCheck, CheckPause
      <4>2. QED
        BY <3>1, <4>1
    <3>4. QED
      BY <3>2, <3>3
  <2>5. QED
    BY <1>2, <2>1, <2>2, <2>3, <2>4 DEF Check
<1>3. ASSUME NEW v \in Views, Leave(v)
      PROVE  TypeInv'
  <2>1. CASE Finish(v)
    BY <2>1, MutexShape DEF Finish
  <2>2. CASE Throw(v)
    BY <2>2, MutexShape DEF Throw
  <2>3. CASE Caught(v)
    BY <2>3, MutexShape DEF Caught
  <2>4. CASE Unwound(v)
    BY <2>4, MutexShape DEF Unwound
  <2>5. QED
    BY <1>3, <2>1, <2>2, <2>3, <2>4 DEF Leave
<1>4. ASSUME NEW v \in Views, Spread(v)
      PROVE  TypeInv'
  BY <1>4, MutexShape DEF Spread
<1>5. ASSUME NEW v \in Views, CStep(v)
      PROVE  TypeInv'
  <2>1. CASE CallC(v)
    <3>1. PICK from \in {"enter", "exec"},
               to \in {"request", "lockfn", "cfn"},
               flags \in CFuncs \ {"none"},
               ret \in {"idle", "exec"} :
            /\ pc[v] = from
            /\ pc' = [pc EXCEPT ![v] = to]
            /\ cTo' = [cTo EXCEPT ![v] = ret]
            /\ cfunc' = [cfunc EXCEPT ![v] = flags]
            /\ UNCHANGED <<flow, runlock, viewlist, cflock, err, back, gcTo,
                           todo, probing>>
      BY <2>1, Zenon DEF CallC
    <3>2. QED
      BY <3>1
  <2>2. CASE LockFn(v)
    BY <2>2, MutexShape DEF LockFn
  <2>3. CASE LockFnBusy(v)
    BY <2>3, MutexShape DEF LockFnBusy, CheckPause
  <2>4. CASE Yield(v)
    BY <2>4, MutexShape DEF Yield, CheckPause
  <2>5. CASE YieldFull(v)
    BY <2>5, MutexShape DEF YieldFull, CheckPause
  <2>6. CASE Relock(v)
    BY <2>6, MutexShape DEF Relock
  <2>7. CASE VmPause(v)
    BY <2>7, MutexShape DEF VmPause
  <2>8. CASE VmResume(v)
    BY <2>8, MutexShape DEF VmResume, CheckPause
  <2>9. CASE Callback(v)
    BY <2>9, MutexShape DEF Callback, CheckPause
  <2>10. CASE ReturnC(v)
    <3>1. /\ cflock' \in Mutex /\ LockShape(cflock)'
          /\ UNCHANGED <<flow, viewlist, back, gcTo, todo, probing>>
      BY <2>10, MutexShape DEF ReturnC
    <3>2. LeaveC(v, "cfn")
      BY <2>10 DEF ReturnC
    <3>3. QED
      BY <3>1, <3>2, LeaveType
  <2>11. CASE ReturnExclusive(v)
    BY <2>11, MutexShape DEF ReturnExclusive
  <2>12. QED
    BY <1>5, <2>1, <2>2, <2>3, <2>4, <2>5, <2>6, <2>7, <2>8, <2>9, <2>10, <2>11 DEF CStep
<1>6. ASSUME NEW v \in Views, Pausing(v)
      PROVE  TypeInv'
  <2>1. CASE Collect(v)
    BY <2>1, MutexShape DEF Collect
  <2>2. CASE RequestLock(v)
    BY <2>2, MutexShape DEF RequestLock
  <2>3. CASE RequestBusy(v)
    BY <2>3, MutexShape DEF RequestBusy, CheckPause
  <2>4. CASE Flag(v)
    <3>1. PICK w \in todo[v], to \in {"probe", "flag"}, rest \in SUBSET Views :
            /\ flow' = [flow EXCEPT ![w] = "pause"]
            /\ pc[v] = "flag"
            /\ pc' = [pc EXCEPT ![v] = to]
            /\ todo' = [todo EXCEPT ![v] = rest]
            /\ UNCHANGED <<runlock, viewlist, cflock, cfunc, err, back, cTo,
                           gcTo, probing>>
      <4>1. PICK w \in todo[v] :
              /\ flow' = [flow EXCEPT ![w] = "pause"]
              /\ IF todo[v] = {w}
                 THEN /\ Goto(v, "flag", "probe")
                      /\ todo' = [todo EXCEPT ![v] = Views]
                 ELSE /\ Goto(v, "flag", "flag")
                      /\ todo' = [todo EXCEPT ![v] = @ \ {w}]
        BY <2>4 DEF Flag
      <4>2. Views \in SUBSET Views /\ todo[v] \ {w} \in SUBSET Views
        OBVIOUS
      <4>3. CASE todo[v] = {w}
        BY <2>4, <4>1, <4>2, <4>3 DEF Flag
      <4>4. CASE todo[v] # {w}
        BY <2>4, <4>1, <4>2, <4>4 DEF Flag
      <4>5. QED
        BY <4>3, <4>4
    <3>2. QED
      BY <3>1
  <2>5. CASE Probe(v)
    BY <2>5, MutexShape DEF Probe
  <2>6. CASE Probed(v)
    BY <2>6, MutexShape DEF Probed
  <2>7. CASE Paused(v)
    BY <2>7, MutexShape DEF Paused
  <2>8. CASE Collected(v)
    BY <2>8, MutexShape DEF Collected
  <2>9. QED
    BY <1>6, <2>1, <2>2, <2>3, <2>4, <2>5, <2>6, <2>7, <2>8 DEF Pausing
<1>7. ASSUME NEW v \in Views, Resuming(v)
      PROVE  TypeInv'
  <2>1. CASE ResumeLock(v)
    BY <2>1, MutexShape DEF ResumeLock
  <2>2. CASE Unflag(v)
    BY <2>2, MutexShape DEF Unflag
  <2>3. CASE ResumedCollector(v)
    <3>1. /\ pc[v] = "unflag" /\ gcTo[v] \in {"idle", "enter", "exec", "cfn"}
          /\ pc' = [pc EXCEPT ![v] = gcTo[v]]
          /\ gcTo' = [gcTo EXCEPT ![v] = "none"]
          /\ viewlist' = NoView
          /\ UNCHANGED <<flow, runlock, cflock, cfunc, err, back, cTo, todo,
                         probing>>
      BY <2>3 DEF ResumedCollector
    <3>2. QED
      BY <3>1
  <2>4. CASE ResumedExclusive(v)
    <3>1. /\ viewlist' \in Views \cup {NoView}
          /\ UNCHANGED <<flow, cflock, back, gcTo, todo, probing>>
      BY <2>4 DEF ResumedExclusive
    <3>2. LeaveC(v, "unflag")
      BY <2>4 DEF ResumedExclusive
    <3>3. QED
      BY <3>1, <3>2, LeaveType
  <2>5. QED
    BY <1>7, <2>1, <2>2, <2>3, <2>4 DEF Resuming
<1>8. ASSUME NEW v \in Views, Halt(v)
      PROVE  TypeInv'
  BY <1>8, MutexShape DEF Halt
<1>9. CASE UNCHANGED vars
  BY <1>9 DEF vars
<1>10. QED
  BY <1>1, <1>2, <1>3, <1>4, <1>5, <1>6, <1>7, <1>8, <1>9 DEF Next

(* The variables stay in their types, for every set of views and features.  *)
THEOREM TypeCorrect == Spec => []TypeOK
<1>1. Spec => []TypeInv
  BY TypeInit, TypeStep, PTL DEF Spec
<1>2. TypeInv => TypeOK
  BY DEF TypeInv
<1>3. QED
  BY <1>1, <1>2, PTL

-----------------------------------------------------------------------------
(* A view inside the VM holds its runlock, and the view list is held by the  *)
(* view that loops over it.                                                  *)

LEMMA HoldingStep ==
  ASSUME TypeInv, Holding,
         "spread" \notin Features, "hostcollect" \notin Features, [Next]_vars
  PROVE  Holding'
<1> USE DEF Places, Flows, CFuncs, Goto, locks, control, Mutex, TypeInv, TypeOK, Registers, LockShape,
            Holding, Inside, InList, LockRun, UnlockRun, Lockable, Locked,
            Unlocked, Free
<1>1. ASSUME NEW v \in Views, Enter(v)
      PROVE  Holding'
  <2>1. CASE Call(v)
    BY <2>1, PauseAssumption DEF Call
  <2>2. CASE CallRefused(v)
    BY <2>2, PauseAssumption DEF CallRefused
  <2>3. CASE EnterUncil(v)
    BY <2>3, PauseAssumption DEF EnterUncil
  <2>4. CASE Run(v)
    BY <2>4, PauseAssumption DEF Run, CheckPause
  <2>5. CASE RunRefused(v)
    BY <2>5, PauseAssumption DEF RunRefused
  <2>6. CASE ReportRefused(v)
    BY <2>6, PauseAssumption DEF ReportRefused
  <2>7. QED
    BY <1>1, <2>1, <2>2, <2>3, <2>4, <2>5, <2>6 DEF Enter
<1>2. ASSUME NEW v \in Views, Check(v)
      PROVE  Holding'
  <2>1. CASE SpinEnd(v)
    BY <2>1, PauseAssumption DEF SpinEnd
  <2>2. CASE CheckReturn(v)
    <3>1. CASE flow[v] = "halt" /\ back[v] \in {"exec", "unwind"}
      <4>1. /\ pc[v] = "checked" /\ pc' = [pc EXCEPT ![v] = "error"]
            /\ back' = [back EXCEPT ![v] = "none"]
            /\ UNCHANGED <<runlock, viewlist, gcTo, probing>>
        BY <2>2, <3>1 DEF CheckReturn
      <4>2. QED
        BY <3>1, <4>1
    <3>2. CASE ~(flow[v] = "halt" /\ back[v] \in {"exec", "unwind"})
      <4>1. /\ pc[v] = "checked" /\ pc' = [pc EXCEPT ![v] = back[v]]
            /\ back' = [back EXCEPT ![v] = "none"]
            /\ UNCHANGED <<runlock, viewlist, gcTo, probing>>
        BY <2>2, <3>2 DEF CheckReturn
      <4>2. back[v] \in {"exec", "unwind", "lockfn", "cfn", "relock", "request"}
        BY <4>1
      <4>3. QED
        BY <4>1, <4>2
    <3>3. QED
      BY <3>1, <3>2
  <2>3. CASE Poll(v)
    BY <2>3, PauseAssumption DEF Poll, CheckPause
  <2>4. CASE ErrorCheck(v)
    BY <2>4, PauseAssumption DEF ErrorCheck, CheckPause
  <2>5. QED
    BY <1>2, <2>1, <2>2, <2>3, <2>4 DEF Check
<1>3. ASSUME NEW v \in Views, Leave(v)
      PROVE  Holding'
  <2>1. CASE Finish(v)
    BY <2>1, PauseAssumption DEF Finish
  <2>2. CASE Throw(v)
    BY <2>2, PauseAssumption DEF Throw
  <2>3. CASE Caught(v)
    BY <2>3, PauseAssumption DEF Caught
  <2>4. CASE Unwound(v)
    BY <2>4, PauseAssumption DEF Unwound
  <2>5. QED
    BY <1>3, <2>1, <2>2, <2>3, <2>4 DEF Leave
<1>4. ASSUME NEW v \in Views, Spread(v)
      PROVE  Holding'
  BY <1>4, PauseAssumption DEF Spread
<1>5. ASSUME NEW v \in Views, CStep(v)
      PROVE  Holding'
  <2>1. CASE CallC(v)
    BY <2>1, PauseAssumption DEF CallC
  <2>2. CASE LockFn(v)
    BY <2>2, PauseAssumption DEF LockFn
  <2>3. CASE LockFnBusy(v)
    BY <2>3, PauseAssumption DEF LockFnBusy, CheckPause
  <2>4. CASE Yield(v)
    BY <2>4, PauseAssumption DEF Yield, CheckPause
  <2>5. CASE YieldFull(v)
    BY <2>5, PauseAssumption DEF YieldFull, CheckPause
  <2>6. CASE Relock(v)
    BY <2>6, PauseAssumption DEF Relock
  <2>7. CASE VmPause(v)
    BY <2>7, PauseAssumption DEF VmPause
  <2>8. CASE VmResume(v)
    BY <2>8, PauseAssumption DEF VmResume, CheckPause
  <2>9. CASE Callback(v)
    BY <2>9, PauseAssumption DEF Callback, CheckPause
  <2>10. CASE ReturnC(v)
    BY <2>10, PauseAssumption DEF ReturnC, LeaveC
  <2>11. CASE ReturnExclusive(v)
    BY <2>11, PauseAssumption DEF ReturnExclusive
  <2>12. QED
    BY <1>5, <2>1, <2>2, <2>3, <2>4, <2>5, <2>6, <2>7, <2>8, <2>9, <2>10, <2>11 DEF CStep
<1>6. ASSUME NEW v \in Views, Pausing(v)
      PROVE  Holding'
  <2>1. CASE Collect(v)
    BY <2>1, PauseAssumption DEF Collect
  <2>2. CASE RequestLock(v)
    BY <2>2, PauseAssumption DEF RequestLock
  <2>3. CASE RequestBusy(v)
    BY <2>3, PauseAssumption DEF RequestBusy, CheckPause
  <2>4. CASE Flag(v)
    BY <2>4, PauseAssumption DEF Flag
  <2>5. CASE Probe(v)
    BY <2>5, PauseAssumption DEF Probe
  <2>6. CASE Probed(v)
    BY <2>6, PauseAssumption DEF Probed
  <2>7. CASE Paused(v)
    BY <2>7, PauseAssumption DEF Paused
  <2>8. CASE Collected(v)
    BY <2>8, PauseAssumption DEF Collected
  <2>9. QED
    BY <1>6, <2>1, <2>2, <2>3, <2>4, <2>5, <2>6, <2>7, <2>8 DEF Pausing
<1>7. ASSUME NEW v \in Views, Resuming(v)
      PROVE  Holding'
  <2>1. CASE ResumeLock(v)
    BY <2>1, PauseAssumption DEF ResumeLock
  <2>2. CASE Unflag(v)
    BY <2>2, PauseAssumption DEF Unflag
  <2>3. CASE ResumedCollector(v)
    BY <2>3, PauseAssumption DEF ResumedCollector
  <2>4. CASE ResumedExclusive(v)
    BY <2>4, PauseAssumption DEF ResumedExclusive, LeaveC
  <2>5. QED
    BY <1>7, <2>1, <2>2, <2>3, <2>4 DEF Resuming
<1>8. ASSUME NEW v \in Views, Halt(v)
      PROVE  Holding'
  BY <1>8, PauseAssumption DEF Halt
<1>9. CASE UNCHANGED vars
  BY <1>9 DEF vars
<1>10. QED
  BY <1>1, <1>2, <1>3, <1>4, <1>5, <1>6, <1>7, <1>8, <1>9 DEF Next

(* What Holding says about one view, without the count.                      *)
LEMMA HoldingFacts ==
  ASSUME Holding, NEW v \in Views
  PROVE  /\ Inside(v) => runlock[v].owner = v
         /\ InList(v) => viewlist = v
<1>1. Inside(v) => runlock[v] = [owner |-> v,
                                 count |-> IF probing[v] = v THEN 2 ELSE 1]
  BY DEF Holding
<1>2. InList(v) => viewlist = v
  BY DEF Holding
<1>3. QED
  BY <1>1, <1>2

(* Where a view may be while it collects or runs an EXCLUSIVE function.      *)

LEMMA PendingStep ==
  ASSUME TypeInv, Pending, [Next]_vars
  PROVE  Pending'
<1> USE DEF Goto, locks, control, Pending
<1>0. /\ pc \in [Views -> Places] /\ cfunc \in [Views -> CFuncs]
      /\ back \in [Views -> {"none", "exec", "unwind", "lockfn", "cfn",
                           "relock", "request"}]
      /\ gcTo \in [Views -> {"none", "idle", "enter", "exec", "cfn"}]
      /\ todo \in [Views -> SUBSET Views]
      /\ \A v \in Views :
           back[v] # "none" <=> pc[v] \in {"check", "checked"}
  BY DEF TypeInv, TypeOK, Registers
<1>1. ASSUME NEW v \in Views, Enter(v)
      PROVE  Pending'
  <2>1. CASE Call(v)
    BY <2>1, <1>0 DEF Call
  <2>2. CASE CallRefused(v)
    BY <2>2, <1>0 DEF CallRefused
  <2>3. CASE EnterUncil(v)
    BY <2>3, <1>0 DEF EnterUncil
  <2>4. CASE Run(v)
    BY <2>4, <1>0 DEF Run, CheckPause
  <2>5. CASE RunRefused(v)
    BY <2>5, <1>0 DEF RunRefused
  <2>6. CASE ReportRefused(v)
    BY <2>6, <1>0 DEF ReportRefused
  <2>7. QED
    BY <1>1, <2>1, <2>2, <2>3, <2>4, <2>5, <2>6 DEF Enter
<1>2. ASSUME NEW v \in Views, Check(v)
      PROVE  Pending'
  <2>1. CASE SpinEnd(v)
    BY <2>1, <1>0 DEF SpinEnd
  <2>2. CASE CheckReturn(v)
    <3>1. CASE flow[v] = "halt" /\ back[v] \in {"exec", "unwind"}
      <4>1. /\ pc[v] = "checked" /\ pc' = [pc EXCEPT ![v] = "error"]
            /\ back' = [back EXCEPT ![v] = "none"]
            /\ UNCHANGED <<cfunc, gcTo>>
        BY <2>2, <3>1 DEF CheckReturn
      <4>2. QED
        BY <3>1, <4>1, <1>0
    <3>2. CASE ~(flow[v] = "halt" /\ back[v] \in {"exec", "unwind"})
      <4>1. /\ pc[v] = "checked" /\ pc' = [pc EXCEPT ![v] = back[v]]
            /\ back' = [back EXCEPT ![v] = "none"]
            /\ UNCHANGED <<cfunc, gcTo>>
        BY <2>2, <3>2 DEF CheckReturn
      <4>2. back[v] \in {"exec", "unwind", "lockfn", "cfn", "relock", "request"}
        BY <4>1, <1>0
      <4>3. QED
        BY <4>1, <4>2, <1>0
    <3>3. QED
      BY <3>1, <3>2
  <2>3. CASE Poll(v)
    BY <2>3, <1>0 DEF Poll, CheckPause
  <2>4. CASE ErrorCheck(v)
    BY <2>4, <1>0 DEF ErrorCheck, CheckPause
  <2>5. QED
    BY <1>2, <2>1, <2>2, <2>3, <2>4 DEF Check
<1>3. ASSUME NEW v \in Views, Leave(v)
      PROVE  Pending'
  <2>1. CASE Finish(v)
    BY <2>1, <1>0 DEF Finish
  <2>2. CASE Throw(v)
    BY <2>2, <1>0 DEF Throw
  <2>3. CASE Caught(v)
    BY <2>3, <1>0 DEF Caught
  <2>4. CASE Unwound(v)
    BY <2>4, <1>0 DEF Unwound
  <2>5. QED
    BY <1>3, <2>1, <2>2, <2>3, <2>4 DEF Leave
<1>4. ASSUME NEW v \in Views, Spread(v)
      PROVE  Pending'
  BY <1>4, <1>0 DEF Spread
<1>5. ASSUME NEW v \in Views, CStep(v)
      PROVE  Pending'
  <2>1. CASE CallC(v)
    BY <2>1, <1>0 DEF CallC
  <2>2. CASE LockFn(v)
    BY <2>2, <1>0 DEF LockFn
  <2>3. CASE LockFnBusy(v)
    BY <2>3, <1>0 DEF LockFnBusy, CheckPause
  <2>4. CASE Yield(v)
    BY <2>4, <1>0 DEF Yield, CheckPause
  <2>5. CASE YieldFull(v)
    BY <2>5, <1>0 DEF YieldFull, CheckPause
  <2>6. CASE Relock(v)
    BY <2>6, <1>0 DEF Relock
  <2>7. CASE VmPause(v)
    BY <2>7, <1>0 DEF VmPause
  <2>8. CASE VmResume(v)
    BY <2>8, <1>0 DEF VmResume, CheckPause
  <2>9. CASE Callback(v)
    BY <2>9, <1>0 DEF Callback, CheckPause
  <2>10. CASE ReturnC(v)
    BY <2>10, <1>0 DEF ReturnC, LeaveC
  <2>11. CASE ReturnExclusive(v)
    BY <2>11, <1>0 DEF ReturnExclusive
  <2>12. QED
    BY <1>5, <2>1, <2>2, <2>3, <2>4, <2>5, <2>6, <2>7, <2>8, <2>9, <2>10, <2>11 DEF CStep
<1>6. ASSUME NEW v \in Views, Pausing(v)
      PROVE  Pending'
  <2>1. CASE Collect(v)
    BY <2>1, <1>0 DEF Collect
  <2>2. CASE RequestLock(v)
    BY <2>2, <1>0 DEF RequestLock
  <2>3. CASE RequestBusy(v)
    BY <2>3, <1>0 DEF RequestBusy, CheckPause
  <2>4. CASE Flag(v)
    BY <2>4, <1>0 DEF Flag
  <2>5. CASE Probe(v)
    BY <2>5, <1>0 DEF Probe
  <2>6. CASE Probed(v)
    BY <2>6, <1>0 DEF Probed
  <2>7. CASE Paused(v)
    BY <2>7, <1>0 DEF Paused
  <2>8. CASE Collected(v)
    BY <2>8, <1>0 DEF Collected
  <2>9. QED
    BY <1>6, <2>1, <2>2, <2>3, <2>4, <2>5, <2>6, <2>7, <2>8 DEF Pausing
<1>7. ASSUME NEW v \in Views, Resuming(v)
      PROVE  Pending'
  <2>1. CASE ResumeLock(v)
    BY <2>1, <1>0 DEF ResumeLock
  <2>2. CASE Unflag(v)
    BY <2>2, <1>0 DEF Unflag
  <2>3. CASE ResumedCollector(v)
    <3>1. /\ pc[v] = "unflag" /\ gcTo[v] # "none"
          /\ pc' = [pc EXCEPT ![v] = gcTo[v]]
          /\ gcTo' = [gcTo EXCEPT ![v] = "none"]
          /\ UNCHANGED <<cfunc, back>>
      BY <2>3 DEF ResumedCollector
    <3>2. gcTo[v] \in {"idle", "enter", "exec", "cfn"}
      BY <1>0, <3>1
    <3>3. QED
      BY <1>0, <3>1, <3>2
  <2>4. CASE ResumedExclusive(v)
    BY <2>4, <1>0 DEF ResumedExclusive, LeaveC
  <2>5. QED
    BY <1>7, <2>1, <2>2, <2>3, <2>4 DEF Resuming
<1>8. ASSUME NEW v \in Views, Halt(v)
      PROVE  Pending'
  BY <1>8, <1>0 DEF Halt
<1>9. CASE UNCHANGED vars
  BY <1>9 DEF vars
<1>10. QED
  BY <1>1, <1>2, <1>3, <1>4, <1>5, <1>6, <1>7, <1>8, <1>9 DEF Next

(* A view that owns the world is awaited by every other pauser, so no other  *)
(* pauser can come to own it.                                                *)

LEMMA OwnerStep ==
  ASSUME TypeInv, Holding, Pending, Awaited, OneOwner,
         "hostcollect" \notin Features, [Next]_vars
  PROVE  (Awaited /\ OneOwner)'
<1> USE DEF Goto, locks, control, Inside, InList, Pending, Awaited,
            OneOwner, Owning, FirstPause, Lockable
<1>0. /\ pc \in [Views -> Places] /\ cfunc \in [Views -> CFuncs]
      /\ back \in [Views -> {"none", "exec", "unwind", "lockfn", "cfn",
                           "relock", "request"}]
      /\ gcTo \in [Views -> {"none", "idle", "enter", "exec", "cfn"}]
      /\ todo \in [Views -> SUBSET Views]
      /\ \A v \in Views :
           back[v] # "none" <=> pc[v] \in {"check", "checked"}
  BY DEF TypeInv, TypeOK, Registers
<1>a. \A u \in Views : (Inside(u) => runlock[u].owner = u)
                  /\ (InList(u) => viewlist = u)
  BY HoldingFacts
<1>1. ASSUME NEW v \in Views, Enter(v)
      PROVE  (Awaited /\ OneOwner)'
  <2>1. CASE Call(v)
    BY <2>1, <1>0, PauseAssumption DEF Call
  <2>2. CASE CallRefused(v)
    BY <2>2, <1>0, PauseAssumption DEF CallRefused
  <2>3. CASE EnterUncil(v)
    BY <2>3, <1>0, PauseAssumption DEF EnterUncil
  <2>4. CASE Run(v)
    BY <2>4, <1>0, PauseAssumption DEF Run, CheckPause
  <2>5. CASE RunRefused(v)
    BY <2>5, <1>0, PauseAssumption DEF RunRefused
  <2>6. CASE ReportRefused(v)
    BY <2>6, <1>0, PauseAssumption DEF ReportRefused
  <2>7. QED
    BY <1>1, <2>1, <2>2, <2>3, <2>4, <2>5, <2>6 DEF Enter
<1>2. ASSUME NEW v \in Views, Check(v)
      PROVE  (Awaited /\ OneOwner)'
  <2>1. CASE SpinEnd(v)
    BY <2>1, <1>0, PauseAssumption DEF SpinEnd
  <2>2. CASE CheckReturn(v)
    <3>1. CASE flow[v] = "halt" /\ back[v] \in {"exec", "unwind"}
      <4>1. /\ pc[v] = "checked" /\ pc' = [pc EXCEPT ![v] = "error"]
            /\ back' = [back EXCEPT ![v] = "none"]
            /\ UNCHANGED <<cfunc, gcTo, todo>>
        BY <2>2, <3>1 DEF CheckReturn
      <4>2. QED
        BY <3>1, <4>1, <1>0
    <3>2. CASE ~(flow[v] = "halt" /\ back[v] \in {"exec", "unwind"})
      <4>1. /\ pc[v] = "checked" /\ pc' = [pc EXCEPT ![v] = back[v]]
            /\ back' = [back EXCEPT ![v] = "none"]
            /\ UNCHANGED <<cfunc, gcTo, todo>>
        BY <2>2, <3>2 DEF CheckReturn
      <4>2. back[v] \in {"exec", "unwind", "lockfn", "cfn", "relock", "request"}
        BY <4>1, <1>0
      <4>3. QED
        BY <4>1, <4>2, <1>0
    <3>3. QED
      BY <3>1, <3>2
  <2>3. CASE Poll(v)
    BY <2>3, <1>0, PauseAssumption DEF Poll, CheckPause
  <2>4. CASE ErrorCheck(v)
    BY <2>4, <1>0, PauseAssumption DEF ErrorCheck, CheckPause
  <2>5. QED
    BY <1>2, <2>1, <2>2, <2>3, <2>4 DEF Check
<1>3. ASSUME NEW v \in Views, Leave(v)
      PROVE  (Awaited /\ OneOwner)'
  <2>1. CASE Finish(v)
    BY <2>1, <1>0, PauseAssumption DEF Finish
  <2>2. CASE Throw(v)
    BY <2>2, <1>0, PauseAssumption DEF Throw
  <2>3. CASE Caught(v)
    BY <2>3, <1>0, PauseAssumption DEF Caught
  <2>4. CASE Unwound(v)
    BY <2>4, <1>0, PauseAssumption DEF Unwound
  <2>5. QED
    BY <1>3, <2>1, <2>2, <2>3, <2>4 DEF Leave
<1>4. ASSUME NEW v \in Views, Spread(v)
      PROVE  (Awaited /\ OneOwner)'
  BY <1>4, <1>0, PauseAssumption DEF Spread
<1>5. ASSUME NEW v \in Views, CStep(v)
      PROVE  (Awaited /\ OneOwner)'
  <2>1. CASE CallC(v)
    BY <2>1, <1>0, PauseAssumption DEF CallC
  <2>2. CASE LockFn(v)
    BY <2>2, <1>0, PauseAssumption DEF LockFn
  <2>3. CASE LockFnBusy(v)
    BY <2>3, <1>0, PauseAssumption DEF LockFnBusy, CheckPause
  <2>4. CASE Yield(v)
    BY <2>4, <1>0, PauseAssumption DEF Yield, CheckPause
  <2>5. CASE YieldFull(v)
    BY <2>5, <1>0, PauseAssumption DEF YieldFull, CheckPause
  <2>6. CASE Relock(v)
    BY <2>6, <1>0, PauseAssumption DEF Relock
  <2>7. CASE VmPause(v)
    BY <2>7, <1>0, PauseAssumption DEF VmPause
  <2>8. CASE VmResume(v)
    BY <2>8, <1>0, PauseAssumption DEF VmResume, CheckPause
  <2>9. CASE Callback(v)
    BY <2>9, <1>0, PauseAssumption DEF Callback, CheckPause
  <2>10. CASE ReturnC(v)
    BY <2>10, <1>0, PauseAssumption DEF ReturnC, LeaveC
  <2>11. CASE ReturnExclusive(v)
    BY <2>11, <1>0, PauseAssumption DEF ReturnExclusive
  <2>12. QED
    BY <1>5, <2>1, <2>2, <2>3, <2>4, <2>5, <2>6, <2>7, <2>8, <2>9, <2>10, <2>11 DEF CStep
<1>6. ASSUME NEW v \in Views, Pausing(v)
      PROVE  (Awaited /\ OneOwner)'
  <2>1. CASE Collect(v)
    BY <2>1, <1>0, PauseAssumption DEF Collect
  <2>2. CASE RequestLock(v)
    BY <2>2, <1>0, PauseAssumption DEF RequestLock
  <2>3. CASE RequestBusy(v)
    BY <2>3, <1>0, PauseAssumption DEF RequestBusy, CheckPause
  <2>4. CASE Flag(v)
    BY <2>4, <1>0, PauseAssumption DEF Flag
  <2>5. CASE Probe(v)
    <3>1. PICK w \in todo[v] :
            /\ Lockable(runlock[w], v)
            /\ todo' = [todo EXCEPT ![v] = @ \ {w}]
      BY <2>5 DEF Probe
    <3>2. pc[v] = "probe" /\ UNCHANGED <<pc, cfunc, gcTo, back>>
      BY <2>5, <1>0 DEF Probe
    <3>3. \A u \in Views : Owning(u)' <=> Owning(u)
      BY <3>2
    <3>4. ~Owning(w) \/ w = v
      <4>1. runlock[w].owner \in {NoView, v}
        BY <3>1
      <4>2. Owning(w) => pc[w] \notin {"idle", "refused", "called"}
        BY <1>0
      <4>3. w \in Views
        BY <1>0
      <4>4. pc[w] \notin {"idle", "refused", "called"} => runlock[w].owner = w
        BY <1>a, <4>3
      <4>5. QED
        BY <4>1, <4>2, <4>3, <4>4, PauseAssumption
    <3>5. QED
      BY <1>0, <3>1, <3>2, <3>3, <3>4
  <2>6. CASE Probed(v)
    BY <2>6, <1>0, PauseAssumption DEF Probed
  <2>7. CASE Paused(v)
    <3>1. /\ pc[v] = "probe" /\ todo[v] = {}
          /\ pc' = [pc EXCEPT ![v] = IF gcTo[v] # "none" THEN "stw" ELSE "cfn"]
          /\ UNCHANGED <<cfunc, gcTo, back, todo>>
      BY <2>7 DEF Paused
    <3>2. ASSUME NEW u \in Views \ {v}
          PROVE  ~Owning(u) /\ pc[u] # "probe"
      <4>1. ~Owning(u)
        BY <1>0, <3>1
      <4>2. pc[u] # "probe"
        BY <1>a, <3>1
      <4>3. QED
        BY <4>1, <4>2
    <3>3. \A u \in Views \ {v} : ~Owning(u)' /\ pc'[u] # "probe"
      BY <1>0, <3>1, <3>2
    <3>4. pc'[v] # "probe"
      BY <1>0, <3>1
    <3>5. QED
      BY <3>3, <3>4
  <2>8. CASE Collected(v)
    BY <2>8, <1>0, PauseAssumption DEF Collected
  <2>9. QED
    BY <1>6, <2>1, <2>2, <2>3, <2>4, <2>5, <2>6, <2>7, <2>8 DEF Pausing
<1>7. ASSUME NEW v \in Views, Resuming(v)
      PROVE  (Awaited /\ OneOwner)'
  <2>1. CASE ResumeLock(v)
    BY <2>1, <1>0, PauseAssumption DEF ResumeLock
  <2>2. CASE Unflag(v)
    BY <2>2, <1>0, PauseAssumption DEF Unflag
  <2>3. CASE ResumedCollector(v)
    BY <2>3, <1>0, PauseAssumption DEF ResumedCollector
  <2>4. CASE ResumedExclusive(v)
    BY <2>4, <1>0, PauseAssumption DEF ResumedExclusive, LeaveC
  <2>5. QED
    BY <1>7, <2>1, <2>2, <2>3, <2>4 DEF Resuming
<1>8. ASSUME NEW v \in Views, Halt(v)
      PROVE  (Awaited /\ OneOwner)'
  BY <1>8, <1>0, PauseAssumption DEF Halt
<1>9. CASE UNCHANGED vars
  BY <1>9 DEF vars
<1>10. QED
  BY <1>1, <1>2, <1>3, <1>4, <1>5, <1>6, <1>7, <1>8, <1>9 DEF Next

OwnerProof == TypeInv /\ Holding /\ Pending /\ Awaited /\ OneOwner

(* Two views never own the world at once, whatever the number of views, as   *)
(* long as no host allocates outside the VM and no f(x...) runs a C          *)
(* iterator (the runs pause_host and pause_spread show why).                 *)
THEOREM OneOwnerHolds ==
  ASSUME "spread" \notin Features, "hostcollect" \notin Features
  PROVE  Spec => []OneOwner
<1>1. Init => OwnerProof
  <2>1. Init => Holding
    BY PauseAssumption DEF Init, Holding, Inside, InList, Free
  <2>2. Init => Pending /\ Awaited /\ OneOwner
    BY DEF Init, Pending, Awaited, OneOwner, Owning, FirstPause
  <2>3. QED
    BY <2>1, <2>2, TypeInit DEF OwnerProof
<1>2. OwnerProof /\ [Next]_vars => OwnerProof'
  BY TypeStep, HoldingStep, PendingStep, OwnerStep DEF OwnerProof
<1>3. OwnerProof => OneOwner
  BY DEF OwnerProof
<1>4. QED
  BY <1>1, <1>2, <1>3, PTL DEF Spec

-----------------------------------------------------------------------------
(* While a view waits for the runlocks the others stay flagged, and one      *)
(* whose runlock it has got cannot come back to bytecode.                    *)

LEMMA WorldStep ==
  ASSUME TypeInv, Holding, Awaited, OneOwner, Flagged, NoneLoose,
         "halt" \notin Features, [Next]_vars
  PROVE  (Flagged /\ NoneLoose)'
<1> USE DEF Goto, locks, control, Inside, InList, Flagged, NoneLoose, Loose,
            Lockable
<1>0. /\ pc \in [Views -> Places] /\ cfunc \in [Views -> CFuncs]
      /\ flow \in [Views -> Flows]
      /\ back \in [Views -> {"none", "exec", "unwind", "lockfn", "cfn",
                           "relock", "request"}]
      /\ cTo \in [Views -> {"none", "idle", "exec"}]
      /\ gcTo \in [Views -> {"none", "idle", "enter", "exec", "cfn"}]
      /\ todo \in [Views -> SUBSET Views]
      /\ \A v \in Views :
           back[v] # "none" <=> pc[v] \in {"check", "checked"}
  BY DEF TypeInv, TypeOK, Registers
<1>a. \A u \in Views : (Inside(u) => runlock[u].owner = u)
                  /\ (InList(u) => viewlist = u)
  BY HoldingFacts
<1>b. \A u, w \in Views : pc[u] \in {"stw", "unrequest", "unflag"}
                        /\ pc[w] \in {"stw", "unrequest", "unflag"} => u = w
  BY DEF OneOwner, Owning
<1>c. \A u, w \in Views : pc[u] = "stw" /\ pc[w] = "probe" => u \in todo[w]
  BY DEF Awaited, Owning
<1>1. ASSUME NEW v \in Views, Enter(v)
      PROVE  (Flagged /\ NoneLoose)'
  <2>1. CASE Call(v)
    BY <2>1, <1>0, <1>a, <1>b DEF Call
  <2>2. CASE CallRefused(v)
    BY <2>2, <1>0, <1>a, <1>b DEF CallRefused
  <2>3. CASE EnterUncil(v)
    BY <2>3, <1>0, <1>a, <1>b DEF EnterUncil
  <2>4. CASE Run(v)
    BY <2>4, <1>0, <1>a, <1>b DEF Run, CheckPause
  <2>5. CASE RunRefused(v)
    BY <2>5, <1>0, <1>a, <1>b DEF RunRefused
  <2>6. CASE ReportRefused(v)
    BY <2>6, <1>0, <1>a, <1>b DEF ReportRefused
  <2>7. QED
    BY <1>1, <2>1, <2>2, <2>3, <2>4, <2>5, <2>6 DEF Enter
<1>2. ASSUME NEW v \in Views, Check(v)
      PROVE  (Flagged /\ NoneLoose)'
  <2>1. CASE SpinEnd(v)
    BY <2>1, <1>0, <1>a, <1>b DEF SpinEnd
  <2>2. CASE CheckReturn(v)
    BY <2>2, <1>0, <1>a, <1>b DEF CheckReturn
  <2>3. CASE Poll(v)
    BY <2>3, <1>0, <1>a, <1>b DEF Poll, CheckPause
  <2>4. CASE ErrorCheck(v)
    BY <2>4, <1>0, <1>a, <1>b DEF ErrorCheck, CheckPause
  <2>5. QED
    BY <1>2, <2>1, <2>2, <2>3, <2>4 DEF Check
<1>3. ASSUME NEW v \in Views, Leave(v)
      PROVE  (Flagged /\ NoneLoose)'
  <2>1. CASE Finish(v)
    BY <2>1, <1>0, <1>a, <1>b DEF Finish
  <2>2. CASE Throw(v)
    BY <2>2, <1>0, <1>a, <1>b DEF Throw
  <2>3. CASE Caught(v)
    BY <2>3, <1>0, <1>a, <1>b DEF Caught
  <2>4. CASE Unwound(v)
    BY <2>4, <1>0, <1>a, <1>b DEF Unwound
  <2>5. QED
    BY <1>3, <2>1, <2>2, <2>3, <2>4 DEF Leave
<1>4. ASSUME NEW v \in Views, Spread(v)
      PROVE  (Flagged /\ NoneLoose)'
  BY <1>4, <1>0, <1>a, <1>b DEF Spread
<1>5. ASSUME NEW v \in Views, CStep(v)
      PROVE  (Flagged /\ NoneLoose)'
  <2>1. CASE CallC(v)
    BY <2>1, <1>0, <1>a, <1>b DEF CallC
  <2>2. CASE LockFn(v)
    BY <2>2, <1>0, <1>a, <1>b DEF LockFn
  <2>3. CASE LockFnBusy(v)
    BY <2>3, <1>0, <1>a, <1>b DEF LockFnBusy, CheckPause
  <2>4. CASE Yield(v)
    BY <2>4, <1>0, <1>a, <1>b DEF Yield, CheckPause
  <2>5. CASE YieldFull(v)
    BY <2>5, <1>0, <1>a, <1>b DEF YieldFull, CheckPause
  <2>6. CASE Relock(v)
    BY <2>6, <1>0, <1>a, <1>b DEF Relock
  <2>7. CASE VmPause(v)
    BY <2>7, <1>0, <1>a, <1>b DEF VmPause
  <2>8. CASE VmResume(v)
    BY <2>8, <1>0, <1>a, <1>b DEF VmResume, CheckPause
  <2>9. CASE Callback(v)
    BY <2>9, <1>0, <1>a, <1>b DEF Callback, CheckPause
  <2>10. CASE ReturnC(v)
    BY <2>10, <1>0, <1>a, <1>b DEF ReturnC, LeaveC
  <2>11. CASE ReturnExclusive(v)
    BY <2>11, <1>0, <1>a, <1>b DEF ReturnExclusive
  <2>12. QED
    BY <1>5, <2>1, <2>2, <2>3, <2>4, <2>5, <2>6, <2>7, <2>8, <2>9, <2>10, <2>11 DEF CStep
<1>6. ASSUME NEW v \in Views, Pausing(v)
      PROVE  (Flagged /\ NoneLoose)'
  <2>1. CASE Collect(v)
    BY <2>1, <1>0, <1>a, <1>b DEF Collect
  <2>2. CASE RequestLock(v)
    BY <2>2, <1>0, <1>a, <1>b DEF RequestLock
  <2>3. CASE RequestBusy(v)
    BY <2>3, <1>0, <1>a, <1>b DEF RequestBusy, CheckPause
  <2>4. CASE Flag(v)
    BY <2>4, <1>0, <1>a, <1>b DEF Flag
  <2>5. CASE Probe(v)
    <3>1. PICK w \in todo[v] :
            /\ Lockable(runlock[w], v)
            /\ todo' = [todo EXCEPT ![v] = @ \ {w}]
      BY <2>5 DEF Probe
    <3>2. pc[v] = "probe" /\ UNCHANGED <<pc, flow, cTo, back>>
      BY <2>5, <1>0 DEF Probe
    <3>3. w \in Views
      BY <1>0
    <3>4. w # v => ~Loose(w)
      <4>1. runlock[w].owner \in {NoView, v}
        BY <3>1
      <4>2. w # v => pc[w] \in {"idle", "refused", "called"}
        BY <1>a, <3>3, <4>1, PauseAssumption
      <4>3. QED
        BY <4>2
    <3>5. Flagged'
      BY <1>0, <3>1, <3>2
    <3>6. NoneLoose'
      BY <1>0, <3>1, <3>2, <3>3, <3>4
    <3>7. QED
      BY <3>5, <3>6
  <2>6. CASE Probed(v)
    BY <2>6, <1>0, <1>a, <1>b DEF Probed
  <2>7. CASE Paused(v)
    <3>1. /\ pc[v] = "probe" /\ todo[v] = {}
          /\ pc' = [pc EXCEPT ![v] = IF gcTo[v] # "none" THEN "stw" ELSE "cfn"]
          /\ UNCHANGED <<flow, cTo, back, todo>>
      BY <2>7 DEF Paused
    <3>2. \A w \in Views \ {v} : ~Loose(w) /\ ~Loose(w)'
      BY <1>0, <3>1
    <3>3. \A w \in Views : flow[w] = "pause"
      BY <1>0, <3>1
    <3>4. pc'[v] \in {"stw", "cfn"} /\ \A u \in Views \ {v} : pc'[u] = pc[u]
      BY <1>0, <3>1
    <3>5. \A u \in Views \ {v} : pc[u] \notin {"probe", "flag", "stw"}
      BY <1>a, <1>c, <3>1
    <3>6. QED
      BY <1>0, <3>1, <3>2, <3>3, <3>4, <3>5
  <2>8. CASE Collected(v)
    BY <2>8, <1>0, <1>a, <1>b DEF Collected
  <2>9. QED
    BY <1>6, <2>1, <2>2, <2>3, <2>4, <2>5, <2>6, <2>7, <2>8 DEF Pausing
<1>7. ASSUME NEW v \in Views, Resuming(v)
      PROVE  (Flagged /\ NoneLoose)'
  <2>1. CASE ResumeLock(v)
    BY <2>1, <1>0, <1>a, <1>b DEF ResumeLock
  <2>2. CASE Unflag(v)
    BY <2>2, <1>0, <1>a, <1>b DEF Unflag
  <2>3. CASE ResumedCollector(v)
    BY <2>3, <1>0, <1>a, <1>b DEF ResumedCollector
  <2>4. CASE ResumedExclusive(v)
    BY <2>4, <1>0, <1>a, <1>b DEF ResumedExclusive, LeaveC
  <2>5. QED
    BY <1>7, <2>1, <2>2, <2>3, <2>4 DEF Resuming
<1>8. ASSUME NEW v \in Views, Halt(v)
      PROVE  (Flagged /\ NoneLoose)'
  BY <1>8, <1>0, <1>a, <1>b DEF Halt
<1>9. CASE UNCHANGED vars
  BY <1>9 DEF vars
<1>10. QED
  BY <1>1, <1>2, <1>3, <1>4, <1>5, <1>6, <1>7, <1>8, <1>9 DEF Next

WorldProof == OwnerProof /\ Flagged /\ NoneLoose

LEMMA WorldInit == Init => WorldProof
<1>1. Init => Holding
  BY PauseAssumption DEF Init, Holding, Inside, InList, Free
<1>2. Init => Pending /\ Awaited /\ OneOwner
  BY DEF Init, Pending, Awaited, OneOwner, Owning, FirstPause
<1>3. Init => Flagged /\ NoneLoose
  BY DEF Init, Flagged, NoneLoose, Loose
<1>4. QED
  BY <1>1, <1>2, <1>3, TypeInit DEF WorldProof, OwnerProof

LEMMA WorldProofStep ==
  ASSUME "spread" \notin Features, "hostcollect" \notin Features,
         "halt" \notin Features
  PROVE  WorldProof /\ [Next]_vars => WorldProof'
<1>1. OwnerProof /\ [Next]_vars => OwnerProof'
  BY TypeStep, HoldingStep, PendingStep, OwnerStep DEF OwnerProof
<1>2. WorldProof /\ [Next]_vars => (Flagged /\ NoneLoose)'
  BY WorldStep DEF WorldProof, OwnerProof
<1>3. QED
  BY <1>1, <1>2 DEF WorldProof

LEMMA NoneLooseStops == NoneLoose => WorldStopped
  BY DEF NoneLoose, Loose, WorldStopped, Executing

(* While a view collects no other view executes, for every number of views:  *)
(* what lets ugc.c read every view's stacks.  A halt breaks it (the run      *)
(* halt_wakes), as a pending flow = HALT is taken back by the next resume.   *)
THEOREM WorldStoppedHolds ==
  ASSUME "spread" \notin Features, "hostcollect" \notin Features,
         "halt" \notin Features
  PROVE  Spec => []WorldStopped
<1>1. WorldProof => WorldStopped
  BY NoneLooseStops DEF WorldProof
<1>2. QED
  BY <1>1, WorldInit, WorldProofStep, PTL DEF Spec

(* The invariant that WorldStopped rests on, and that OneOwner is a part of, *)
(* holds itself: the return registers, the runlocks and the view list are as *)
(* umt.c and the entry and exit paths of uvm.c need them.                    *)
THEOREM WorldInvHolds ==
  ASSUME "spread" \notin Features, "hostcollect" \notin Features,
         "halt" \notin Features
  PROVE  Spec => []WorldInv
<1>1. WorldProof => WorldInv
  BY DEF WorldProof, OwnerProof, TypeInv, WorldInv, OwnerInv
<1>2. QED
  BY <1>1, WorldInit, WorldProofStep, PTL DEF Spec

-----------------------------------------------------------------------------
(* Nobody is left paused.  The loops of a pause and of a resume have the     *)
(* view list to themselves; while a view resumes the others, a view that is  *)
(* still told to pause is one it has not come to yet, or one that a third    *)
(* view pauses.  A pause that no collection asked for is that of an          *)
(* EXCLUSIVE function.                                                       *)

Listed == \A v \in Views : InList(v) => viewlist = v
ForExclusive == \A v \in Views : FirstPause(v) => cfunc[v] = "exclusive"
Unpausing ==
  \A v, w \in Views :
    pc[v] = "unflag" /\ flow[w] = "pause" =>
      w \in todo[v] \/ \E u \in Views \ {v} : InPause(u)
PauseProof ==
  TypeInv /\ Pending /\ Listed /\ ForExclusive /\ PauseHasOwner /\ Unpausing

(* What every step does that is not one of the three loops: it tells nobody  *)
(* to pause, and neither takes the view list nor gives it up.                *)
Quiet(v) ==
  /\ \A u \in Views \ {v} : /\ pc'[u] = pc[u] /\ cfunc'[u] = cfunc[u]
                            /\ back'[u] = back[u] /\ gcTo'[u] = gcTo[u]
  /\ FirstPause(v)' => FirstPause(v) \/ cfunc'[v] = "exclusive"
  /\ FirstPause(v) /\ cfunc[v] = "exclusive" => cfunc'[v] = "exclusive"
  /\ InPause(v) => InPause(v)'
  /\ InList(v)' => InList(v)
  /\ pc'[v] = "unflag" => pc[v] = "unflag"
  /\ \A w \in Views : flow'[w] = "pause" => flow[w] = "pause"
  /\ UNCHANGED <<viewlist, todo>>

LEMMA QuietKeeps ==
  ASSUME Listed, ForExclusive, PauseHasOwner, Unpausing, NEW v \in Views, Quiet(v)
  PROVE  (Listed /\ ForExclusive /\ PauseHasOwner /\ Unpausing)'
<1>1. \A u \in Views : InPause(u) => InPause(u)'
  BY DEF Quiet, InPause
<1>2. \A u \in Views : InList(u)' => InList(u)
  BY DEF Quiet, InList
<1>3. Listed'
  BY <1>2 DEF Listed, Quiet
<1>4. PauseHasOwner'
  BY <1>1 DEF PauseHasOwner, Quiet
<1>5. ASSUME NEW x \in Views, NEW w \in Views,
             pc'[x] = "unflag", flow'[w] = "pause"
      PROVE  w \in todo'[x] \/ \E u \in Views \ {x} : InPause(u)'
  <2>1. pc[x] = "unflag" /\ flow[w] = "pause" /\ todo'[x] = todo[x]
    BY <1>5 DEF Quiet
  <2>2. w \in todo[x] \/ \E u \in Views \ {x} : InPause(u)
    BY <2>1 DEF Unpausing
  <2>3. QED
    BY <1>1, <2>1, <2>2
<1>6. ForExclusive'
  BY DEF ForExclusive, FirstPause, Quiet
<1>7. QED
  BY <1>3, <1>4, <1>5, <1>6 DEF Unpausing

LEMMA PausersStep ==
  ASSUME TypeInv, Pending, Listed, ForExclusive, PauseHasOwner, Unpausing, [Next]_vars
  PROVE  (Listed /\ ForExclusive /\ PauseHasOwner /\ Unpausing)'
<1> USE DEF Goto, locks, control
<1>0. /\ pc \in [Views -> Places] /\ cfunc \in [Views -> CFuncs]
      /\ flow \in [Views -> Flows]
      /\ back \in [Views -> {"none", "exec", "unwind", "lockfn", "cfn",
                           "relock", "request"}]
      /\ gcTo \in [Views -> {"none", "idle", "enter", "exec", "cfn"}]
      /\ todo \in [Views -> SUBSET Views]
      /\ \A v \in Views :
           back[v] # "none" <=> pc[v] \in {"check", "checked"}
  BY DEF TypeInv, TypeOK, Registers
<1>1. ASSUME NEW v \in Views, Enter(v)
      PROVE  Quiet(v)
  <2> USE DEF Quiet, InPause, InList, FirstPause
  <2>1. CASE Call(v)
    BY <2>1, <1>0 DEF Call
  <2>2. CASE CallRefused(v)
    BY <2>2, <1>0 DEF CallRefused
  <2>3. CASE EnterUncil(v)
    BY <2>3, <1>0 DEF EnterUncil
  <2>4. CASE Run(v)
    BY <2>4, <1>0 DEF Run, CheckPause
  <2>5. CASE RunRefused(v)
    BY <2>5, <1>0 DEF RunRefused
  <2>6. CASE ReportRefused(v)
    BY <2>6, <1>0 DEF ReportRefused
  <2>7. QED
    BY <1>1, <2>1, <2>2, <2>3, <2>4, <2>5, <2>6 DEF Enter
<1>2. ASSUME NEW v \in Views, Check(v)
      PROVE  Quiet(v)
  <2> USE DEF Quiet, InPause, InList, FirstPause
  <2>1. CASE SpinEnd(v)
    BY <2>1, <1>0 DEF SpinEnd
  <2>2. CASE CheckReturn(v)
    <3>1. /\ pc[v] = "checked"
          /\ pc' = [pc EXCEPT ![v] = "error"] \/ pc' = [pc EXCEPT ![v] = back[v]]
          /\ back' = [back EXCEPT ![v] = "none"]
          /\ UNCHANGED <<cfunc, flow, viewlist, todo, gcTo>>
      BY <2>2 DEF CheckReturn
    <3>2. back[v] \in {"exec", "unwind", "lockfn", "cfn", "relock", "request"}
      BY <3>1, <1>0
    <3>3. QED
      BY <3>1, <3>2, <1>0
  <2>3. CASE Poll(v)
    BY <2>3, <1>0 DEF Poll, CheckPause
  <2>4. CASE ErrorCheck(v)
    BY <2>4, <1>0 DEF ErrorCheck, CheckPause
  <2>5. QED
    BY <1>2, <2>1, <2>2, <2>3, <2>4 DEF Check
<1>3. ASSUME NEW v \in Views, Leave(v) \/ Spread(v)
      PROVE  Quiet(v)
  <2> USE DEF Quiet, InPause, InList, FirstPause
  <2>1. CASE Finish(v)
    BY <2>1, <1>0 DEF Finish
  <2>2. CASE Throw(v)
    BY <2>2, <1>0 DEF Throw
  <2>3. CASE Caught(v)
    BY <2>3, <1>0 DEF Caught
  <2>4. CASE Unwound(v)
    BY <2>4, <1>0 DEF Unwound
  <2>5. CASE Spread(v)
    BY <2>5, <1>0 DEF Spread
  <2>6. QED
    BY <1>3, <2>1, <2>2, <2>3, <2>4, <2>5 DEF Leave
<1>4. ASSUME NEW v \in Views, CStep(v)
      PROVE  Quiet(v)
  <2> USE DEF Quiet, InPause, InList, FirstPause
  <2>1. CASE CallC(v)
    BY <2>1, <1>0 DEF CallC, Pending
  <2>2. CASE LockFn(v)
    BY <2>2, <1>0 DEF LockFn
  <2>3. CASE LockFnBusy(v)
    BY <2>3, <1>0 DEF LockFnBusy, CheckPause
  <2>4. CASE Yield(v)
    BY <2>4, <1>0 DEF Yield, CheckPause
  <2>5. CASE YieldFull(v)
    BY <2>5, <1>0 DEF YieldFull, CheckPause
  <2>6. CASE Relock(v)
    BY <2>6, <1>0 DEF Relock
  <2>7. CASE VmPause(v)
    BY <2>7, <1>0 DEF VmPause
  <2>8. CASE VmResume(v)
    BY <2>8, <1>0 DEF VmResume, CheckPause
  <2>9. CASE Callback(v)
    BY <2>9, <1>0 DEF Callback, CheckPause
  <2>10. CASE ReturnC(v)
    BY <2>10, <1>0 DEF ReturnC, LeaveC
  <2>11. CASE ReturnExclusive(v)
    BY <2>11, <1>0 DEF ReturnExclusive
  <2>12. QED
    BY <1>4, <2>1, <2>2, <2>3, <2>4, <2>5, <2>6, <2>7, <2>8, <2>9, <2>10, <2>11
       DEF CStep
<1>5. ASSUME NEW v \in Views, Pausing(v)
      PROVE  (Listed /\ ForExclusive /\ PauseHasOwner /\ Unpausing)'
  <2>1. CASE Collect(v)
    BY <2>1, <1>0, QuietKeeps DEF Collect, Quiet, InPause, InList, FirstPause
  <2>2. CASE RequestLock(v)
    <3>1. \A u \in Views : ~InList(u)
      BY <2>2, PauseAssumption DEF RequestLock, Listed
    <3>2. /\ pc[v] = "request" /\ pc' = [pc EXCEPT ![v] = "flag"]
          /\ viewlist' = v /\ UNCHANGED <<cfunc, flow, back, gcTo>>
      BY <2>2 DEF RequestLock
    <3>3. QED
      BY <3>1, <3>2, <1>0
      DEF Listed, ForExclusive, FirstPause, PauseHasOwner, Unpausing, InPause,
          InList
  <2>3. CASE RequestBusy(v)
    BY <2>3, <1>0, QuietKeeps
    DEF RequestBusy, CheckPause, Quiet, InPause, InList, FirstPause
  <2>4. CASE Flag(v)
    BY <2>4, <1>0
    DEF Flag, Listed, ForExclusive, FirstPause, PauseHasOwner, Unpausing, InPause,
        InList
  <2>5. CASE Probe(v)
    BY <2>5, <1>0
    DEF Probe, Listed, ForExclusive, FirstPause, PauseHasOwner, Unpausing, InPause,
        InList
  <2>6. CASE Probed(v)
    BY <2>6, <1>0, QuietKeeps DEF Probed, Quiet, InPause, InList, FirstPause
  <2>7. CASE Paused(v)
    <3>1. /\ pc[v] = "probe" /\ viewlist' = NoView
          /\ \/ pc' = [pc EXCEPT ![v] = "stw"]
             \/ pc' = [pc EXCEPT ![v] = "cfn"] /\ gcTo[v] = "none"
          /\ UNCHANGED <<cfunc, flow, todo, back, gcTo>>
      BY <2>7 DEF Paused
    <3>2. viewlist = v /\ \A u \in Views \ {v} : ~InList(u)
      BY <3>1 DEF Listed, InList
    <3>3. CASE pc' = [pc EXCEPT ![v] = "stw"]
      BY <3>1, <3>2, <3>3, <1>0
      DEF Listed, ForExclusive, FirstPause, PauseHasOwner, Unpausing, InPause,
          InList
    <3>4. CASE pc' = [pc EXCEPT ![v] = "cfn"] /\ gcTo[v] = "none"
      BY <3>1, <3>2, <3>4, <1>0
      DEF Listed, ForExclusive, FirstPause, PauseHasOwner, Unpausing, InPause,
          InList
    <3>5. QED
      BY <3>1, <3>3, <3>4
  <2>8. CASE Collected(v)
    BY <2>8, <1>0, QuietKeeps DEF Collected, Quiet, InPause, InList, FirstPause
  <2>9. QED
    BY <1>5, <2>1, <2>2, <2>3, <2>4, <2>5, <2>6, <2>7, <2>8 DEF Pausing
<1>6. ASSUME NEW v \in Views, Resuming(v)
      PROVE  (Listed /\ ForExclusive /\ PauseHasOwner /\ Unpausing)'
  <2>1. CASE ResumeLock(v)
    <3>1. \A u \in Views : ~InList(u)
      BY <2>1, PauseAssumption DEF ResumeLock, Listed
    <3>2. /\ pc[v] = "unrequest" /\ pc' = [pc EXCEPT ![v] = "unflag"]
          /\ viewlist' = v /\ todo' = [todo EXCEPT ![v] = Views]
          /\ UNCHANGED <<cfunc, flow, back, gcTo>>
      BY <2>1 DEF ResumeLock
    <3>3. QED
      BY <3>1, <3>2, <1>0
      DEF Listed, ForExclusive, FirstPause, PauseHasOwner, Unpausing, InPause,
          InList
  <2>2. CASE Unflag(v)
    BY <2>2, <1>0
    DEF Unflag, Listed, ForExclusive, FirstPause, PauseHasOwner, Unpausing, InPause,
        InList
  <2>3. CASE ResumedCollector(v)
    <3>1. /\ pc[v] = "unflag" /\ pc' = [pc EXCEPT ![v] = gcTo[v]]
          /\ viewlist' = NoView /\ todo[v] = {} /\ gcTo[v] # "none"
          /\ gcTo' = [gcTo EXCEPT ![v] = "none"]
          /\ UNCHANGED <<cfunc, flow, todo, back>>
      BY <2>3 DEF ResumedCollector
    <3>2. \A u \in Views \ {v} : ~InList(u)
      BY <3>1 DEF Listed, InList
    <3>3. \A w \in Views : flow[w] = "pause" =>
            \E u \in Views \ {v} : InPause(u)
      BY <3>1 DEF Unpausing
    <3>4. gcTo[v] \in {"idle", "enter", "exec", "cfn"}
      BY <3>1, <1>0
    <3>5. QED
      BY <3>1, <3>2, <3>3, <3>4, <1>0
      DEF Listed, ForExclusive, FirstPause, PauseHasOwner, Unpausing, InPause,
          InList
  <2>4. CASE ResumedExclusive(v)
    BY <2>4, <1>0
    DEF ResumedExclusive, LeaveC, Listed, ForExclusive, FirstPause,
        PauseHasOwner, Unpausing, InPause, InList
  <2>5. QED
    BY <1>6, <2>1, <2>2, <2>3, <2>4 DEF Resuming
<1>7. ASSUME NEW v \in Views, Halt(v)
      PROVE  Quiet(v)
  BY <1>7, <1>0 DEF Halt, Quiet, InPause, InList, FirstPause
<1>8. CASE UNCHANGED vars
  BY <1>8
  DEF vars, Listed, ForExclusive, FirstPause, PauseHasOwner, Unpausing,
      InPause, InList
<1>9. QED
  BY <1>1, <1>2, <1>3, <1>4, <1>5, <1>6, <1>7, <1>8, QuietKeeps DEF Next

(* A view is told to pause only while some view is in a pause, for every     *)
(* number of views and whatever else the program does, halts, allocations of *)
(* hosts and spread calls included: no resume forgets a view (umt.c:124).    *)
THEOREM PauseHasOwnerHolds == Spec => []PauseHasOwner
<1>1. Init => PauseProof
  BY TypeInit DEF Init, PauseProof, Pending, Listed, ForExclusive, PauseHasOwner,
                  Unpausing, InList, FirstPause
<1>2. PauseProof /\ [Next]_vars => PauseProof'
  BY TypeStep, PendingStep, PausersStep DEF PauseProof
<1>3. PauseProof => PauseHasOwner
  BY DEF PauseProof
<1>4. QED
  BY <1>1, <1>2, <1>3, PTL DEF Spec

-----------------------------------------------------------------------------
(* A step moves one view at a time, and into and out of "stw" only at the    *)
(* ends of a collection.                                                     *)

Moves ==
  \/ UNCHANGED <<pc, cTo>>
  \/ \E v \in Views :
       /\ \A u \in Views \ {v} : pc'[u] = pc[u] /\ cTo'[u] = cTo[u]
       /\ pc'[v] = "stw" => pc[v] \in {"stw", "probe"}
       /\ pc[v] = "stw" => pc'[v] \in {"stw", "unrequest"}

LEMMA StepMoves ==
  ASSUME TypeInv, [Next]_vars
  PROVE  Moves
<1> USE DEF Goto, locks, control, Moves
<1>0. /\ pc \in [Views -> Places]
      /\ back \in [Views -> {"none", "exec", "unwind", "lockfn", "cfn",
                           "relock", "request"}]
      /\ cTo \in [Views -> {"none", "idle", "exec"}]
      /\ gcTo \in [Views -> {"none", "idle", "enter", "exec", "cfn"}]
  BY DEF TypeInv, TypeOK
<1>1. ASSUME NEW v \in Views, Enter(v)
      PROVE  Moves
  <2>1. CASE Call(v)
    BY <2>1, <1>0 DEF Call
  <2>2. CASE CallRefused(v)
    BY <2>2, <1>0 DEF CallRefused
  <2>3. CASE EnterUncil(v)
    BY <2>3, <1>0 DEF EnterUncil
  <2>4. CASE Run(v)
    BY <2>4, <1>0 DEF Run, CheckPause
  <2>5. CASE RunRefused(v)
    BY <2>5, <1>0 DEF RunRefused
  <2>6. CASE ReportRefused(v)
    BY <2>6, <1>0 DEF ReportRefused
  <2>7. QED
    BY <1>1, <2>1, <2>2, <2>3, <2>4, <2>5, <2>6 DEF Enter
<1>2. ASSUME NEW v \in Views, Check(v)
      PROVE  Moves
  <2>1. CASE SpinEnd(v)
    BY <2>1, <1>0 DEF SpinEnd
  <2>2. CASE CheckReturn(v)
    BY <2>2, <1>0 DEF CheckReturn
  <2>3. CASE Poll(v)
    BY <2>3, <1>0 DEF Poll, CheckPause
  <2>4. CASE ErrorCheck(v)
    BY <2>4, <1>0 DEF ErrorCheck, CheckPause
  <2>5. QED
    BY <1>2, <2>1, <2>2, <2>3, <2>4 DEF Check
<1>3. ASSUME NEW v \in Views, Leave(v)
      PROVE  Moves
  <2>1. CASE Finish(v)
    BY <2>1, <1>0 DEF Finish
  <2>2. CASE Throw(v)
    BY <2>2, <1>0 DEF Throw
  <2>3. CASE Caught(v)
    BY <2>3, <1>0 DEF Caught
  <2>4. CASE Unwound(v)
    BY <2>4, <1>0 DEF Unwound
  <2>5. QED
    BY <1>3, <2>1, <2>2, <2>3, <2>4 DEF Leave
<1>4. ASSUME NEW v \in Views, Spread(v)
      PROVE  Moves
  BY <1>4, <1>0 DEF Spread
<1>5. ASSUME NEW v \in Views, CStep(v)
      PROVE  Moves
  <2>1. CASE CallC(v)
    BY <2>1, <1>0 DEF CallC
  <2>2. CASE LockFn(v)
    BY <2>2, <1>0 DEF LockFn
  <2>3. CASE LockFnBusy(v)
    BY <2>3, <1>0 DEF LockFnBusy, CheckPause
  <2>4. CASE Yield(v)
    BY <2>4, <1>0 DEF Yield, CheckPause
  <2>5. CASE YieldFull(v)
    BY <2>5, <1>0 DEF YieldFull, CheckPause
  <2>6. CASE Relock(v)
    BY <2>6, <1>0 DEF Relock
  <2>7. CASE VmPause(v)
    BY <2>7, <1>0 DEF VmPause
  <2>8. CASE VmResume(v)
    BY <2>8, <1>0 DEF VmResume, CheckPause
  <2>9. CASE Callback(v)
    BY <2>9, <1>0 DEF Callback, CheckPause
  <2>10. CASE ReturnC(v)
    BY <2>10, <1>0 DEF ReturnC, LeaveC
  <2>11. CASE ReturnExclusive(v)
    BY <2>11, <1>0 DEF ReturnExclusive
  <2>12. QED
    BY <1>5, <2>1, <2>2, <2>3, <2>4, <2>5, <2>6, <2>7, <2>8, <2>9, <2>10, <2>11 DEF CStep
<1>6. ASSUME NEW v \in Views, Pausing(v)
      PROVE  Moves
  <2>1. CASE Collect(v)
    BY <2>1, <1>0 DEF Collect
  <2>2. CASE RequestLock(v)
    BY <2>2, <1>0 DEF RequestLock
  <2>3. CASE RequestBusy(v)
    BY <2>3, <1>0 DEF RequestBusy, CheckPause
  <2>4. CASE Flag(v)
    BY <2>4, <1>0 DEF Flag
  <2>5. CASE Probe(v)
    BY <2>5, <1>0 DEF Probe
  <2>6. CASE Probed(v)
    BY <2>6, <1>0 DEF Probed
  <2>7. CASE Paused(v)
    BY <2>7, <1>0 DEF Paused
  <2>8. CASE Collected(v)
    BY <2>8, <1>0 DEF Collected
  <2>9. QED
    BY <1>6, <2>1, <2>2, <2>3, <2>4, <2>5, <2>6, <2>7, <2>8 DEF Pausing
<1>7. ASSUME NEW v \in Views, Resuming(v)
      PROVE  Moves
  <2>1. CASE ResumeLock(v)
    BY <2>1, <1>0 DEF ResumeLock
  <2>2. CASE Unflag(v)
    BY <2>2, <1>0 DEF Unflag
  <2>3. CASE ResumedCollector(v)
    BY <2>3, <1>0 DEF ResumedCollector
  <2>4. CASE ResumedExclusive(v)
    BY <2>4, <1>0 DEF ResumedExclusive, LeaveC
  <2>5. QED
    BY <1>7, <2>1, <2>2, <2>3, <2>4 DEF Resuming
<1>8. ASSUME NEW v \in Views, Halt(v)
      PROVE  Moves
  BY <1>8, <1>0 DEF Halt
<1>9. CASE UNCHANGED vars
  BY <1>9 DEF vars
<1>10. QED
  BY <1>1, <1>2, <1>3, <1>4, <1>5, <1>6, <1>7, <1>8, <1>9 DEF Next

(* A step between two states where the world is stopped while it is          *)
(* collected is a step of the abstract lock, or changes nothing it sees.     *)
LEMMA RefinementStep ==
  ASSUME TypeInv, Moves, WorldStopped, WorldStopped', OneOwner', OneOwner
  PROVE  World!Next \/ UNCHANGED <<{v \in Views : Executing(v)},
                                   {v \in Views : pc[v] = "stw"}>>
<1> DEFINE executing == {v \in Views : Executing(v)}
           collecting == {v \in Views : pc[v] = "stw"}
<1>1. CASE UNCHANGED <<pc, cTo>>
  BY <1>1 DEF Executing
<1>2. ASSUME NEW v \in Views,
             \A u \in Views \ {v} : pc'[u] = pc[u] /\ cTo'[u] = cTo[u],
             pc'[v] = "stw" => pc[v] \in {"stw", "probe"},
             pc[v] = "stw" => pc'[v] \in {"stw", "unrequest"}
      PROVE  World!Next \/ UNCHANGED <<executing, collecting>>
  <2>1. \A u \in Views \ {v} : Executing(u)' <=> Executing(u)
    BY <1>2 DEF Executing
  <2>2. ASSUME Executing(v), ~Executing(v)'
        PROVE  World!Stop(v)
    <3>1. pc[v] # "stw" /\ pc[v] # "probe"
      BY <2>2 DEF Executing
    <3>2. executing' = executing \ {v}
      BY <2>1, <2>2
    <3>3. collecting' = collecting
      BY <1>2, <3>1
    <3>4. QED
      BY <3>2, <3>3 DEF World!Stop
  <2>3. ASSUME ~Executing(v), Executing(v)'
        PROVE  World!Execute(v)
    <3>1. pc'[v] \in {"exec", "cfn"}
      BY <2>3 DEF Executing
    <3>2. pc[v] # "stw"
      BY <1>2, <3>1
    <3>3. collecting' = collecting
      BY <1>2, <3>1, <3>2
    <3>4. collecting' = {}
      BY <2>3, <3>1 DEF WorldStopped
    <3>5. executing' = executing \cup {v}
      BY <2>1, <2>3
    <3>6. QED
      BY <3>3, <3>4, <3>5 DEF World!Execute
  <2>4. ASSUME Executing(v)' <=> Executing(v)
        PROVE  World!Collect(v) \/ World!Release(v)
                 \/ UNCHANGED <<executing, collecting>>
    <3>1. executing' = executing
      BY <2>1, <2>4
    <3>2. CASE pc[v] # "stw" /\ pc'[v] = "stw"
      <4>1. \A u \in Views \ {v} : pc'[u] # "stw"
        BY <3>2 DEF OneOwner, Owning
      <4>2. collecting = {} /\ collecting' = {v}
        BY <1>2, <3>2, <4>1
      <4>3. executing' = {}
        BY <3>2 DEF WorldStopped, Executing
      <4>4. QED
        BY <3>1, <4>2, <4>3 DEF World!Collect
    <3>3. CASE pc[v] = "stw" /\ pc'[v] # "stw"
      <4>1. collecting' = collecting \ {v}
        BY <1>2, <3>3
      <4>2. QED
        BY <3>1, <4>1 DEF World!Release
    <3>4. CASE pc[v] = "stw" <=> pc'[v] = "stw"
      <4>1. collecting' = collecting
        BY <1>2, <3>4
      <4>2. QED
        BY <3>1, <4>1
    <3>5. QED
      BY <3>2, <3>3, <3>4
  <2>5. QED
    BY <2>2, <2>3, <2>4 DEF World!Next
<1>3. QED
  BY <1>1, <1>2 DEF Moves

(* The pausing protocol implements the readers and collector lock WorldLock, *)
(* for every number of views (umt.c:53, uvm.c:91).                           *)
THEOREM Refinement ==
  ASSUME "spread" \notin Features, "hostcollect" \notin Features,
         "halt" \notin Features
  PROVE  Spec => ImplementsWorldLock
<1>1. Init => World!Init
  BY DEF Init, World!Init, Executing
<1>2. WorldProof /\ WorldProof' /\ [Next]_vars
        => [World!Next]_<<{v \in Views : Executing(v)},
                          {v \in Views : pc[v] = "stw"}>>
  <2>1. WorldProof => WorldStopped /\ OneOwner /\ TypeInv
    BY NoneLooseStops DEF WorldProof, OwnerProof
  <2>2. WorldProof' => WorldStopped' /\ OneOwner'
    BY <2>1, PTL
  <2>3. QED
    BY <2>1, <2>2, StepMoves, RefinementStep
<1>3. QED
  BY <1>1, <1>2, WorldInit, WorldProofStep, PTL
  DEF Spec, ImplementsWorldLock, World!Spec
=============================================================================
