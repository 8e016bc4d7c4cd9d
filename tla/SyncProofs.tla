----------------------------- MODULE SyncProofs -----------------------------
(***************************************************************************)
(* Proofs about Sync, for any number of threads and objects: type          *)
(* correctness; that a thread in no call has locked what it has acquired   *)
(* and nothing else; and that no permit of a semaphore is lost or made up. *)
(***************************************************************************)
EXTENDS Sync, FiniteSetTheorems, WellFoundedInduction, TLAPS

-----------------------------------------------------------------------------
(* Objects are of one kind, and the mutex of a monitor is that of a lock.    *)

LEMMA ObjectKinds ==
  /\ Semaphores \cap (Locks \cup RLocks \cup Monitors \cup Joined) = {}
  /\ Joined \cap (Locks \cup RLocks \cup Monitors \cup Semaphores) = {}
  /\ Monitors \cap (Locks \cup RLocks) = {}
<1>1. /\ Kinds[1] \cap Kinds[3] = {} /\ Kinds[1] \cap Kinds[4] = {}
      /\ Kinds[1] \cap Kinds[5] = {} /\ Kinds[2] \cap Kinds[3] = {}
      /\ Kinds[2] \cap Kinds[4] = {} /\ Kinds[2] \cap Kinds[5] = {}
      /\ Kinds[3] \cap Kinds[4] = {} /\ Kinds[3] \cap Kinds[5] = {}
      /\ Kinds[4] \cap Kinds[5] = {}
  BY SyncAssumption
<1>2. QED
  BY <1>1 DEF Kinds

LEMMA PmFacts ==
  ASSUME NEW o \in Objects
  PROVE  /\ Pm(o) \in Objects
         /\ o \notin Monitors => Pm(o) = o
         /\ Pm(o) \in Semaphores <=> o \in Semaphores
         /\ Pm(o) \in Joined <=> o \in Joined
BY ObjectKinds, SyncAssumption DEF Pm, Objects

-----------------------------------------------------------------------------
(* The types; that the count of a mutex is bounded follows from what the     *)
(* threads hold.                                                             *)

Mutex == [owner : Threads \cup {None}, count : Int]

TypeInv ==
  /\ opaque \in [Objects -> Threads \cup {None}]
  /\ mutex \in [Objects -> Mutex]
  /\ counter \in [Semaphores -> Nat]
  /\ waiting \in [Objects -> SUBSET Threads]
  /\ done \in [Joined -> {"running", "done", "told"}]
  /\ made \subseteq Monitors
  /\ pc \in [Threads -> Places]
  /\ call \in [Threads -> Calls]
  /\ held \in [Threads -> [Objects -> Int]]
  /\ left \in [Threads -> 0..MaxCalls]

LEMMA TypeInit == Init => TypeInv
BY SyncAssumption DEF Init, TypeInv, Mutex, Free, NoCall, Calls, Ops, Places, Objects

LEMMA TakeType ==
  ASSUME mutex \in [Objects -> Mutex], NEW t \in Threads, NEW m \in Objects,
         Take(t, m)
  PROVE  mutex' \in [Objects -> Mutex]
<1>1. [owner |-> t, count |-> mutex[m].count + 1] \in Mutex
  BY DEF Mutex
<1>2. QED
  BY <1>1 DEF Take

LEMMA GiveType ==
  ASSUME mutex \in [Objects -> Mutex], NEW m \in Objects, Give(m)
  PROVE  mutex' \in [Objects -> Mutex]
<1>1. /\ Free \in Mutex
      /\ [owner |-> mutex[m].owner, count |-> mutex[m].count - 1] \in Mutex
  BY DEF Mutex, Free
<1>2. QED
  BY <1>1 DEF Give

LEMMA OutcomeType ==
  ASSUME call \in [Threads -> Calls], NEW t \in Threads, NEW ok \in BOOLEAN,
         Outcome(t, ok)
  PROVE  call' \in [Threads -> Calls]
<1>1. [call[t] EXCEPT !.ok = ok] \in Calls
  BY DEF Calls
<1>2. QED
  BY <1>1 DEF Outcome

LEMMA WaitType ==
  ASSUME mutex \in [Objects -> Mutex], pc \in [Threads -> Places],
         waiting \in [Objects -> SUBSET Threads], NEW t \in Threads, NEW from,
         Pm(Obj(t)) \in Objects, Wait(t, from)
  PROVE  /\ mutex' \in [Objects -> Mutex]
         /\ pc' \in [Threads -> Places]
         /\ waiting' \in [Objects -> SUBSET Threads]
<1>1. mutex' \in [Objects -> Mutex]
  BY GiveType DEF Wait
<1>2. QED
  BY <1>1 DEF Wait, Goto, Places

LEMMA TypeStep ==
  ASSUME TypeInv, InCall, [Next]_vars
  PROVE  TypeInv'
<1> USE DEF TypeInv, Goto, Places, objects
<1>0. \A t \in Threads : pc[t] # "run" =>
        Obj(t) \in Objects /\ Pm(Obj(t)) \in Objects
  BY PmFacts DEF InCall, Shaped
<1>00. \A t \in Threads :
         /\ call[t].n \in 1..2
         /\ pc[t] = "permits" => Obj(t) \in Semaphores
  BY DEF InCall, Shaped, Stages, Calls, Ops, Op
<1>1. ASSUME NEW t \in Threads, Call(t)
      PROVE  TypeInv'
  <2>1. PICK op \in Ops, o \in Objects, timed \in BOOLEAN, n \in 1..2 :
          /\ call' = [call EXCEPT ![t] = [op |-> op, obj |-> o, n |-> n,
                                          timed |-> timed, ok |-> TRUE]]
          /\ held' = IF op \in {"release", "wait"}
                     THEN [held EXCEPT ![t][Pm(o)] = @ - n] ELSE held
    BY <1>1 DEF Call
  <2>2. call' \in [Threads -> Calls]
    BY <2>1 DEF Calls
  <2>3. held' \in [Threads -> [Objects -> Int]]
    <3>1. Pm(o) \in Objects /\ held[t][Pm(o)] - n \in Int
      BY PmFacts
    <3>2. QED
      BY <2>1, <3>1
  <2>4. left' \in [Threads -> 0..MaxCalls]
    BY <1>1, SyncAssumption DEF Call
  <2>5. QED
    BY <1>1, <2>2, <2>3, <2>4 DEF Call
<1>2. ASSUME NEW t \in Threads, Step(t)
      PROVE  TypeInv'
  <2>1. CASE Verify(t)
    BY <2>1 DEF Verify, First
  <2>2. CASE Return(t)
    <3>1. held' \in [Threads -> [Objects -> Int]]
      <4>1. held[t][Pm(Obj(t))] + call[t].n \in Int
        BY <2>2, <1>0, <1>00 DEF Return
      <4>2. QED
        BY <2>2, <4>1 DEF Return
    <3>2. opaque' \in [Objects -> Threads \cup {None}]
      BY <2>2 DEF Return
    <3>3. call' \in [Threads -> Calls]
      BY <2>2 DEF Return, NoCall, Calls, Ops
    <3>4. made' \subseteq Monitors
      BY <2>2 DEF Return, InCall, Shaped
    <3>5. QED
      BY <2>2, <3>1, <3>2, <3>3, <3>4 DEF Return
  <2>3. CASE Lock(t)
    BY <2>3, <1>0, TakeType DEF Lock, Inside
  <2>4. CASE Unlock(t)
    BY <2>4, <1>0, GiveType DEF Unlock
  <2>5. CASE Suspend(t)
    BY <2>5, <1>0, WaitType DEF Suspend, Wait
  <2>6. CASE Signal(t)
    BY <2>6 DEF Signal
  <2>7. CASE AcquirePermits(t)
    <3>1. CASE counter[Obj(t)] < call[t].n
      BY <2>7, <3>1, <1>0, WaitType DEF AcquirePermits
    <3>2. CASE ~(counter[Obj(t)] < call[t].n)
      <4>1. counter' \in [Semaphores -> Nat]
        BY <2>7, <3>2, <1>00 DEF AcquirePermits
      <4>2. QED
        BY <2>7, <3>2, <4>1 DEF AcquirePermits
    <3>3. QED
      BY <3>1, <3>2
  <2>8. CASE ReleasePermits(t)
    <3>1. counter' \in [Semaphores -> Nat]
      BY <2>8, <1>00 DEF ReleasePermits
    <3>2. QED
      BY <2>8, <3>1 DEF ReleasePermits
  <2>9. CASE Look(t)
    <3>1. CASE done[Obj(t)] = "running"
      BY <2>9, <3>1, <1>0, WaitType DEF Look
    <3>2. CASE done[Obj(t)] # "running"
      BY <2>9, <3>2 DEF Look
    <3>3. QED
      BY <3>1, <3>2
  <2>10. QED
    BY <1>2, <2>1, <2>2, <2>3, <2>4, <2>5, <2>6, <2>7, <2>8, <2>9 DEF Step
<1>3. ASSUME NEW t \in Threads, Woken(t)
      PROVE  TypeInv'
  <2>1. CASE Wake(t)
    BY <2>1, <1>0, TakeType DEF Wake, Resumes, Inside
  <2>2. CASE WaitTimedOut(t)
    BY <2>2, <1>0, TakeType, OutcomeType DEF WaitTimedOut, Resumes
  <2>3. CASE GiveUp(t)
    BY <2>3, OutcomeType DEF GiveUp
  <2>4. CASE LockTimedOut(t)
    BY <2>4, OutcomeType DEF LockTimedOut
  <2>5. QED
    BY <1>3, <2>1, <2>2, <2>3, <2>4 DEF Woken
<1>4. ASSUME NEW o \in Joined, Ends(o) \/ Tells(o)
      PROVE  TypeInv'
  BY <1>4 DEF Ends, Tells
<1>5. CASE UNCHANGED vars
  BY <1>5 DEF vars
<1>6. QED
  BY <1>1, <1>2, <1>3, <1>4, <1>5 DEF Next

-----------------------------------------------------------------------------
(* A thread's step leaves where the others are, their calls and what they    *)
(* hold alone.                                                               *)

LEMMA OneThread ==
  ASSUME TypeInv, NEW t \in Threads, Call(t) \/ Step(t) \/ Woken(t),
         NEW u \in Threads \ {t}
  PROVE  pc'[u] = pc[u] /\ call'[u] = call[u] /\ held'[u] = held[u]
<1> USE DEF Goto, Outcome, Wait
<1>0. /\ pc \in [Threads -> Places] /\ call \in [Threads -> Calls]
      /\ held \in [Threads -> [Objects -> Int]]
  BY DEF TypeInv
<1>1. CASE Call(t)
  BY <1>1, <1>0 DEF Call
<1>2. CASE Step(t)
  BY <1>2, <1>0 DEF Step, Verify, Return, Lock, Unlock, Suspend, Signal,
     AcquirePermits, ReleasePermits, Look
<1>3. CASE Woken(t)
  BY <1>3, <1>0 DEF Woken, Wake, WaitTimedOut, GiveUp, LockTimedOut
<1>4. QED
  BY <1>1, <1>2, <1>3

-----------------------------------------------------------------------------
(* Calls go through the stages of their kind.                                *)

LEMMA InCallStep ==
  ASSUME TypeInv, InCall, [Next]_vars
  PROVE  InCall'
<1> USE DEF Goto, objects
<1>0. /\ pc \in [Threads -> Places] /\ call \in [Threads -> Calls]
      /\ \A t \in Threads : Shaped(t)
      /\ \A o \in Semaphores : o \notin Monitors /\ o \notin Joined
      /\ \A o \in Monitors : o \notin Joined
  BY ObjectKinds DEF TypeInv, InCall
<1>1. ASSUME NEW t \in Threads, Call(t)
      PROVE  Shaped(t)'
  <2>1. PICK op \in Ops, o \in Objects, timed \in BOOLEAN, n \in 1..2 :
          /\ Allowed(t, op, o, n)
          /\ timed => op \in {"acquire", "wait", "jointimed"}
          /\ call' = [call EXCEPT ![t] = [op |-> op, obj |-> o, n |-> n,
                                          timed |-> timed, ok |-> TRUE]]
    BY <1>1 DEF Call
  <2>2. pc'[t] = "verify" /\ call'[t] = [op |-> op, obj |-> o, n |-> n,
                                         timed |-> timed, ok |-> TRUE]
    BY <1>1, <1>0, <2>1 DEF Call
  <2>3. /\ op \in {"wait", "notify", "notifyall", "new"} => o \in Monitors
        /\ op = "jointimed" <=> o \in Joined
        /\ n # 1 => o \in Semaphores
    BY <2>1, <1>0 DEF Allowed, Acquires, Releases, Ops
  <2>4. "verify" \in Stages(op, o)
    BY DEF Stages
  <2>5. QED
    BY <2>1, <2>2, <2>3, <2>4 DEF Shaped, Op, Obj
<1>2. ASSUME NEW t \in Threads, Step(t)
      PROVE  Shaped(t)'
  <2> USE DEF Shaped, Op, Obj, Stages
  <2>1. CASE Verify(t)
    BY <2>1, <1>0 DEF Verify, First, Calls, Ops
  <2>2. CASE Return(t)
    BY <2>2, <1>0 DEF Return
  <2>3. CASE Lock(t)
    BY <2>3, <1>0 DEF Lock, Inside
  <2>4. CASE Unlock(t)
    BY <2>4, <1>0 DEF Unlock
  <2>5. CASE Suspend(t)
    BY <2>5, <1>0 DEF Suspend, Wait
  <2>6. CASE Signal(t)
    BY <2>6, <1>0 DEF Signal
  <2>7. CASE AcquirePermits(t)
    BY <2>7, <1>0 DEF AcquirePermits, Wait
  <2>8. CASE ReleasePermits(t)
    BY <2>8, <1>0 DEF ReleasePermits
  <2>9. CASE Look(t)
    BY <2>9, <1>0 DEF Look, Wait
  <2>10. QED
    BY <1>2, <2>1, <2>2, <2>3, <2>4, <2>5, <2>6, <2>7, <2>8, <2>9 DEF Step
<1>3. ASSUME NEW t \in Threads, Woken(t)
      PROVE  Shaped(t)'
  <2> USE DEF Shaped, Op, Obj, Stages, Outcome
  <2>1. CASE Wake(t)
    BY <2>1, <1>0 DEF Wake, Inside
  <2>2. CASE WaitTimedOut(t)
    BY <2>2, <1>0 DEF WaitTimedOut, Calls
  <2>3. CASE GiveUp(t)
    BY <2>3, <1>0 DEF GiveUp, Calls
  <2>4. CASE LockTimedOut(t)
    BY <2>4, <1>0 DEF LockTimedOut, Calls
  <2>5. QED
    BY <1>3, <2>1, <2>2, <2>3, <2>4 DEF Woken
<1>4. ASSUME NEW t \in Threads, Call(t) \/ Step(t) \/ Woken(t),
             NEW u \in Threads \ {t}
      PROVE  Shaped(u)'
  <2>1. pc'[u] = pc[u] /\ call'[u] = call[u]
    BY <1>4, OneThread
  <2>2. QED
    BY <2>1, <1>0 DEF Shaped, Op, Obj, Stages
<1>5. ASSUME NEW o \in Joined, Ends(o) \/ Tells(o)
      PROVE  InCall'
  BY <1>5, <1>0 DEF Ends, Tells, InCall, Shaped, Op, Obj, Stages
<1>6. CASE UNCHANGED vars
  BY <1>6, <1>0 DEF vars, InCall, Shaped, Op, Obj, Stages
<1>7. QED
  BY <1>1, <1>2, <1>3, <1>4, <1>5, <1>6 DEF Next, InCall

-----------------------------------------------------------------------------
(* What a step does to the mutexes: nothing, or the thread takes the mutex   *)
(* its call is about, or gives it back; and it owes what it has locked.      *)

Keeps(t) ==
  UNCHANGED mutex /\ \A m \in Objects : Owed(t, m)' = Owed(t, m)
Takes(t) ==
  /\ pc[t] # "run" /\ Lockable(t, Pm(Obj(t))) /\ Take(t, Pm(Obj(t)))
  /\ \A m \in Objects :
       Owed(t, m)' = Owed(t, m) + (IF m = Pm(Obj(t)) THEN 1 ELSE 0)
  /\ Owed(t, Pm(Obj(t))) < MaxCount
Gives(t) ==
  /\ pc[t] # "run" /\ Give(Pm(Obj(t)))
  /\ \A m \in Objects :
       Owed(t, m)' = Owed(t, m) - (IF m = Pm(Obj(t)) THEN 1 ELSE 0)
  /\ Owed(t, Pm(Obj(t))) > 0

LEMMA OwedType ==
  ASSUME TypeInv, HeldBounded, NEW t \in Threads, NEW m \in Objects
  PROVE  Owed(t, m) \in Nat
BY DEF TypeInv, HeldBounded, Bounded, Owed, Inner

(* Inside a call the debt changes with the stage only.                       *)
LEMMA OwedInside ==
  ASSUME TypeInv, NEW t \in Threads, NEW d \in Int,
         pc[t] # "run", pc'[t] # "run", held'[t] = held[t],
         call'[t].obj = call[t].obj, Inner(t)' = Inner(t) + d
  PROVE  \A m \in Objects :
           Owed(t, m)' = Owed(t, m) + (IF m = Pm(Obj(t)) THEN d ELSE 0)
<1> SUFFICES ASSUME NEW m \in Objects
             PROVE  Owed(t, m)' = Owed(t, m) + (IF m = Pm(Obj(t)) THEN d ELSE 0)
  OBVIOUS
<1>1. held[t][m] \in Int /\ Inner(t) \in Int
  BY DEF TypeInv, Inner
<1>2. Obj(t)' = Obj(t) /\ Pm(Obj(t))' = Pm(Obj(t))
  BY DEF Obj, Pm
<1>3. /\ Owed(t, m) = (IF m \in Semaphores THEN 0 ELSE held[t][m]) +
                      (IF m = Pm(Obj(t)) THEN Inner(t) ELSE 0)
      /\ Owed(t, m)' = (IF m \in Semaphores THEN 0 ELSE held[t][m]) +
                       (IF m = Pm(Obj(t)) THEN Inner(t) + d ELSE 0)
  BY <1>2 DEF Owed
<1> HIDE DEF Inner
<1>4. QED
  BY <1>1, <1>3

LEMMA CallEffect ==
  ASSUME TypeInv, HeldBounded, NEW t \in Threads, Call(t)
  PROVE  Keeps(t)
<1>0. /\ pc \in [Threads -> Places] /\ call \in [Threads -> Calls]
      /\ held \in [Threads -> [Objects -> Int]]
  BY DEF TypeInv
<1>1. PICK op \in Ops, o \in Objects, timed \in BOOLEAN, n \in 1..2 :
        /\ Allowed(t, op, o, n)
        /\ call' = [call EXCEPT ![t] = [op |-> op, obj |-> o, n |-> n,
                                        timed |-> timed, ok |-> TRUE]]
        /\ held' = IF op \in {"release", "wait"}
                   THEN [held EXCEPT ![t][Pm(o)] = @ - n] ELSE held
  BY DEF Call
<1>2. /\ pc[t] = "run" /\ pc'[t] = "verify" /\ mutex' = mutex
      /\ Obj(t)' = o /\ Op(t)' = op /\ Pm(Obj(t))' = Pm(o)
  BY <1>0, <1>1 DEF Call, Goto, objects, Obj, Op, Pm
<1>3. Inner(t)' = IF op \in {"release", "wait"} /\ o \notin Semaphores THEN 1 ELSE 0
  BY <1>2 DEF Inner
<1>4. Pm(o) \in Objects /\ (Pm(o) \in Semaphores <=> o \in Semaphores)
  BY PmFacts
<1>5. op \in {"release", "wait"} /\ o \notin Semaphores => n = 1
  BY <1>1 DEF Allowed, Releases
<1>6. ASSUME NEW m \in Objects
      PROVE  Owed(t, m)' = Owed(t, m)
  <2>1. /\ Owed(t, m) = (IF m \in Semaphores THEN 0 ELSE held[t][m]) + 0
        /\ Owed(t, m)' = (IF m \in Semaphores THEN 0 ELSE held'[t][m]) +
                         (IF m = Pm(o) THEN Inner(t)' ELSE 0)
    BY <1>2 DEF Owed
  <2>2. held[t][m] \in Int /\ held[t] \in [Objects -> Int]
    BY <1>0
  <2>3. held'[t][m] = IF op \in {"release", "wait"} /\ m = Pm(o)
                      THEN held[t][m] - n ELSE held[t][m]
    BY <1>0, <1>1, <1>4
  <2>4. CASE m \in Semaphores
    BY <2>1, <2>4, <1>3, <1>4
  <2>5. CASE m \notin Semaphores
    BY <2>1, <2>2, <2>3, <2>5, <1>3, <1>4, <1>5
  <2>6. QED
    BY <2>4, <2>5
<1>7. QED
  BY <1>2, <1>6 DEF Keeps

LEMMA ReturnEffect ==
  ASSUME TypeInv, InCall, HeldBounded, NEW t \in Threads, Return(t)
  PROVE  Keeps(t)
<1>0. /\ pc \in [Threads -> Places] /\ held \in [Threads -> [Objects -> Int]]
      /\ Shaped(t) /\ call[t].n \in 1..2
  BY DEF TypeInv, InCall, Calls
<1> DEFINE o == Obj(t)
<1>1. /\ pc[t] = "return" /\ pc'[t] = "run" /\ mutex' = mutex
      /\ held' = IF Gets(t) THEN [held EXCEPT ![t][Pm(o)] = @ + call[t].n]
                 ELSE held
  BY <1>0 DEF Return, Goto
<1>2. o \in Objects /\ (o \notin Semaphores => call[t].n = 1)
  BY <1>0, <1>1 DEF Shaped
<1>3. Inner(t) = IF Gets(t) /\ o \notin Semaphores THEN 1 ELSE 0
  BY <1>1 DEF Inner
<1>4. Pm(o) \in Objects /\ (Pm(o) \in Semaphores <=> o \in Semaphores)
  BY <1>2, PmFacts
<1>5. ASSUME NEW m \in Objects
      PROVE  Owed(t, m)' = Owed(t, m)
  <2>1. /\ Owed(t, m) = (IF m \in Semaphores THEN 0 ELSE held[t][m]) +
                        (IF m = Pm(o) THEN Inner(t) ELSE 0)
        /\ Owed(t, m)' = (IF m \in Semaphores THEN 0 ELSE held'[t][m]) + 0
    BY <1>1 DEF Owed
  <2>2. held[t][m] \in Int /\ held[t] \in [Objects -> Int]
    BY <1>0
  <2>3. held'[t][m] = IF Gets(t) /\ m = Pm(o)
                      THEN held[t][m] + call[t].n ELSE held[t][m]
    BY <1>0, <1>1, <1>4
  <2>4. CASE m \in Semaphores
    BY <2>1, <2>4, <1>3, <1>4
  <2>5. CASE m \notin Semaphores
    BY <2>1, <2>2, <2>3, <2>5, <1>2, <1>3, <1>4
  <2>6. QED
    BY <2>4, <2>5
<1>6. QED
  BY <1>1, <1>5 DEF Keeps

(* Where a call that waits for its mutex may take it without holding too     *)
(* much.                                                                     *)
LEMMA MayTake ==
  ASSUME TypeInv, InCall, HeldBounded, NEW t \in Threads,
         pc[t] \in {"lock", "waiting"}
  PROVE  Inner(t) = 0 /\ Owed(t, Pm(Obj(t))) < MaxCount
<1>0. /\ Shaped(t) /\ Bounded(t) /\ MaxCount \in Nat \ {0} /\ call[t] \in Calls
  BY SyncAssumption DEF TypeInv, InCall, HeldBounded
<1> DEFINE o == Obj(t)
<1>1. o \in Objects /\ Inner(t) = 0
  BY <1>0 DEF Shaped, Inner
<1>2. Owed(t, Pm(o)) = IF Pm(o) \in Semaphores THEN 0 ELSE held[t][Pm(o)]
  <2>1. Pm(o) \in Objects /\ (Pm(o) \notin Semaphores => held[t][Pm(o)] \in Nat)
    BY <1>0, <1>1, PmFacts DEF Bounded
  <2>2. QED
    BY <1>1, <2>1 DEF Owed
<1>3. CASE o \in Semaphores \cup Joined
  BY <1>0, <1>1, <1>2, <1>3, PmFacts DEF Bounded
<1>4. CASE o \notin Semaphores \cup Joined
  <2>1. Op(t) = "wait" \/ (Op(t) = "acquire" /\ pc[t] = "lock")
    BY <1>0, <1>4 DEF Shaped, Stages, Calls, Ops, Op
  <2>2. held[t][Pm(o)] < MaxCount
    BY <1>0, <1>4, <2>1 DEF Bounded
  <2>3. QED
    BY <1>0, <1>1, <1>2, <2>2
<1>5. QED
  BY <1>1, <1>3, <1>4

LEMMA StepEffect ==
  ASSUME TypeInv, InCall, HeldBounded, NEW t \in Threads,
         Call(t) \/ Step(t) \/ Woken(t)
  PROVE  Keeps(t) \/ Takes(t) \/ Gives(t)
<1> USE DEF Goto, Outcome, objects
<1>0. /\ pc \in [Threads -> Places] /\ call \in [Threads -> Calls]
      /\ Shaped(t) /\ call[t] \in Calls
  BY DEF TypeInv, InCall
<1>1. ASSUME pc[t] # "run", pc'[t] # "run", held' = held,
             call'[t].obj = call[t].obj, Inner(t)' = Inner(t), mutex' = mutex
      PROVE  Keeps(t)
  <2>1. \A m \in Objects : Owed(t, m) \in Nat
    BY OwedType
  <2>2. \A m \in Objects : Owed(t, m)' = Owed(t, m) + (IF m = Pm(Obj(t)) THEN 0 ELSE 0)
    <3>1. Inner(t)' = Inner(t) + 0
      BY <1>1 DEF Inner
    <3>2. QED
      BY <1>1, <3>1, OwedInside
  <2>3. QED
    BY <1>1, <2>1, <2>2 DEF Keeps
<1>2. ASSUME pc[t] \in {"lock", "waiting"}, pc'[t] # "run", held' = held,
             call'[t].obj = call[t].obj, Inner(t)' = 1,
             Lockable(t, Pm(Obj(t))), Take(t, Pm(Obj(t)))
      PROVE  Takes(t)
  <2>1. Inner(t) = 0 /\ Owed(t, Pm(Obj(t))) < MaxCount
    BY <1>2, MayTake
  <2>2. QED
    BY <1>2, <2>1, OwedInside DEF Takes
<1>3. ASSUME pc[t] # "run", pc'[t] # "run", held' = held,
             call'[t].obj = call[t].obj, Inner(t) = 1, Inner(t)' = 0,
             Give(Pm(Obj(t)))
      PROVE  Gives(t)
  <2> DEFINE d == -1
  <2>1. \A m \in Objects : Owed(t, m)' = Owed(t, m) + (IF m = Pm(Obj(t)) THEN d ELSE 0)
    <3>1. d \in Int /\ Inner(t)' = Inner(t) + d
      BY <1>3
    <3> HIDE DEF d
    <3>2. QED
      BY <1>3, <3>1, OwedInside
  <2>2. \A m \in Objects : Owed(t, m) \in Nat /\ Owed(t, m)' \in Int
    BY <2>1, OwedType
  <2>3. Pm(Obj(t)) \in Objects /\ Owed(t, Pm(Obj(t))) > 0
    <3>1. Pm(Obj(t)) \in Objects
      BY <1>0, <1>3, PmFacts DEF Shaped
    <3>2. Owed(t, Pm(Obj(t))) =
            (IF Pm(Obj(t)) \in Semaphores THEN 0 ELSE held[t][Pm(Obj(t))]) + 1
      BY <1>3 DEF Owed
    <3>3. Pm(Obj(t)) \notin Semaphores => held[t][Pm(Obj(t))] \in Nat
      BY <3>1 DEF HeldBounded, Bounded
    <3>4. QED
      BY <3>1, <3>2, <3>3
  <2>4. QED
    BY <1>3, <2>1, <2>2, <2>3 DEF Gives
<1>4. CASE Call(t)
  BY <1>4, CallEffect
<1>5. CASE Step(t)
  <2> USE DEF Shaped, Stages, Inner, Gets, Op, Obj
  <2>1. CASE Verify(t)
    <3>1. /\ pc[t] = "verify" /\ pc'[t] = First(t) /\ call' = call
          /\ Op(t) \in Ops
      BY <2>1, <1>0 DEF Verify, Calls
    <3> HIDE DEF Op, Obj
    <3>2. Op(t)' = Op(t) /\ Obj(t)' = Obj(t)
      BY <3>1 DEF Op, Obj
    <3>3. Inner(t)' = Inner(t)
      <4>1. CASE Op(t) = "wait"
        BY <3>1, <3>2, <4>1, <1>0, ObjectKinds DEF First
      <4>2. CASE Op(t) = "release"
        BY <3>1, <3>2, <4>2 DEF First
      <4>3. CASE Op(t) \notin {"wait", "release"}
        BY <3>1, <3>2, <4>3, <1>0 DEF First, Ops
      <4>4. QED
        BY <4>1, <4>2, <4>3
    <3>4. call'[t].obj = call[t].obj /\ pc'[t] # "run"
      BY <3>1 DEF First, Ops
    <3>5. QED
      BY <2>1, <3>1, <3>3, <3>4, <1>1 DEF Verify
  <2>2. CASE Return(t)
    BY <2>2, ReturnEffect
  <2>3. CASE Lock(t)
    BY <2>3, <1>0, <1>2 DEF Lock, Inside
  <2>4. CASE Unlock(t)
    BY <2>4, <1>0, <1>3 DEF Unlock
  <2>5. CASE Suspend(t)
    BY <2>5, <1>0, <1>3 DEF Suspend, Wait
  <2>6. CASE Signal(t)
    BY <2>6, <1>0, <1>1 DEF Signal
  <2>7. CASE AcquirePermits(t)
    BY <2>7, <1>0, <1>1, <1>3 DEF AcquirePermits, Wait
  <2>8. CASE ReleasePermits(t)
    BY <2>8, <1>0, <1>1 DEF ReleasePermits
  <2>9. CASE Look(t)
    BY <2>9, <1>0, <1>1, <1>3 DEF Look, Wait
  <2>10. QED
    BY <1>5, <2>1, <2>2, <2>3, <2>4, <2>5, <2>6, <2>7, <2>8, <2>9 DEF Step
<1>6. CASE Woken(t)
  <2> USE DEF Shaped, Stages, Inner, Gets, Op, Obj
  <2>1. CASE Wake(t)
    BY <2>1, <1>0, <1>2 DEF Wake, Resumes, Inside, Lockable
  <2>2. CASE WaitTimedOut(t)
    <3>1. /\ pc[t] = "waiting" /\ Obj(t)' = Obj(t) /\ Op(t)' = Op(t)
          /\ pc'[t] = IF Obj(t) \in Monitors THEN "return" ELSE "unlock"
      BY <2>2, <1>0 DEF WaitTimedOut
    <3>2. Obj(t) \in Monitors => Op(t) = "wait" /\ Obj(t) \notin Semaphores
      BY <3>1, <1>0, ObjectKinds DEF Calls, Ops
    <3>3. Inner(t)' = 1
      BY <3>1, <3>2
    <3>4. Lockable(t, Pm(Obj(t))) /\ Take(t, Pm(Obj(t)))
      BY <2>2 DEF WaitTimedOut, Resumes, Lockable
    <3> HIDE DEF Inner
    <3>5. QED
      BY <2>2, <3>1, <3>3, <3>4, <1>2 DEF WaitTimedOut
  <2>3. CASE GiveUp(t)
    BY <2>3, <1>0, <1>1 DEF GiveUp
  <2>4. CASE LockTimedOut(t)
    BY <2>4, <1>0, <1>1 DEF LockTimedOut
  <2>5. QED
    BY <1>6, <2>1, <2>2, <2>3, <2>4 DEF Woken
<1>7. QED
  BY <1>4, <1>5, <1>6

LEMMA OthersOwe ==
  ASSUME TypeInv, NEW t \in Threads, Call(t) \/ Step(t) \/ Woken(t),
         NEW u \in Threads \ {t}
  PROVE  \A m \in Objects : Owed(u, m)' = Owed(u, m)
<1>1. pc'[u] = pc[u] /\ call'[u] = call[u] /\ held'[u] = held[u]
  BY OneThread
<1>2. Inner(u)' = Inner(u) /\ Obj(u)' = Obj(u) /\ Pm(Obj(u))' = Pm(Obj(u))
  BY <1>1 DEF Inner, Obj, Op, Gets, Pm
<1> HIDE DEF Inner
<1>3. QED
  BY <1>1, <1>2 DEF Owed

(* The invariant about the mutexes follows from what steps do to them.       *)
LEMMA MutexStep ==
  ASSUME TypeInv, InCall, HeldBounded, MutexesMatch, NEW t \in Threads,
         Call(t) \/ Step(t) \/ Woken(t)
  PROVE  MutexesMatch'
<1>0. /\ mutex \in [Objects -> Mutex] /\ None \notin Threads
      /\ \A m \in Objects, u \in Threads : Owed(u, m) \in Nat
  BY OwedType, SyncAssumption DEF TypeInv
<1>00. \A m \in Objects :
         /\ mutex[m].owner = None => mutex[m].count = 0
         /\ \A u \in Threads :
              IF Owed(u, m) = 0 THEN mutex[m].owner # u
              ELSE mutex[m] = [owner |-> u, count |-> Owed(u, m)]
  BY DEF MutexesMatch
<1>1. \A u \in Threads \ {t}, m \in Objects : Owed(u, m)' = Owed(u, m)
  BY OthersOwe
<1>2. ASSUME Keeps(t)
      PROVE  MutexesMatch'
  BY <1>1, <1>2 DEF Keeps, MutexesMatch
<1>3. pc[t] # "run" => Pm(Obj(t)) \in Objects
  BY PmFacts DEF InCall, Shaped
<1>4. ASSUME Takes(t), NEW p \in Objects, p = Pm(Obj(t))
      PROVE  MutexesMatch'
  <2>1. /\ mutex[p].owner \in {None, t}
        /\ mutex' = [mutex EXCEPT ![p] = [owner |-> t, count |-> @.count + 1]]
    BY <1>4 DEF Takes, Take, Lockable
  <2>5. \A m \in Objects :
          Owed(t, m)' = Owed(t, m) + (IF m = p THEN 1 ELSE 0)
    BY <1>4 DEF Takes
  <2>2. mutex[p].count = Owed(t, p)
    BY <2>1, <1>0, <1>00
  <2>3. mutex'[p] = [owner |-> t, count |-> Owed(t, p)'] /\ Owed(t, p)' # 0
    BY <2>1, <2>2, <2>5, <1>0
  <2>4. \A u \in Threads \ {t} : Owed(u, p)' = 0
    BY <2>1, <1>0, <1>1, <1>00
  <2>50. \A m \in Objects \ {p} : mutex'[m] = mutex[m] /\ Owed(t, m)' = Owed(t, m)
    BY <2>1, <2>5, <1>0
  <2>6. ASSUME NEW m \in Objects
        PROVE  /\ mutex'[m].owner = None => mutex'[m].count = 0
               /\ \A u \in Threads :
                    IF Owed(u, m)' = 0 THEN mutex'[m].owner # u
                    ELSE mutex'[m] = [owner |-> u, count |-> Owed(u, m)']
    <3>1. CASE m = p
      BY <3>1, <2>3, <2>4, <1>0
    <3>2. CASE m # p
      BY <3>2, <2>50, <1>1, <1>00
    <3>3. QED
      BY <3>1, <3>2
  <2>7. QED
    BY <2>6 DEF MutexesMatch
<1>5. ASSUME Gives(t), NEW p \in Objects, p = Pm(Obj(t))
      PROVE  MutexesMatch'
  <2>1. /\ Owed(t, p) > 0
        /\ mutex' = [mutex EXCEPT ![p] =
                       IF @.count = 1 THEN Free
                       ELSE [owner |-> @.owner, count |-> @.count - 1]]
    BY <1>5 DEF Gives, Give
  <2>5. \A m \in Objects :
          Owed(t, m)' = Owed(t, m) - (IF m = p THEN 1 ELSE 0)
    BY <1>5 DEF Gives
  <2>2. mutex[p] = [owner |-> t, count |-> Owed(t, p)]
    BY <2>1, <1>0, <1>00
  <2>3. /\ Owed(t, p)' = Owed(t, p) - 1 /\ Owed(t, p) \in Nat
        /\ mutex'[p] = IF Owed(t, p)' = 0 THEN [owner |-> None, count |-> 0]
                       ELSE [owner |-> t, count |-> Owed(t, p)']
    BY <2>1, <2>2, <2>5, <1>0 DEF Free
  <2>4. \A u \in Threads \ {t} : Owed(u, p)' = 0
    BY <2>1, <2>2, <1>0, <1>1, <1>00
  <2>50. \A m \in Objects \ {p} : mutex'[m] = mutex[m] /\ Owed(t, m)' = Owed(t, m)
    BY <2>1, <2>5, <1>0
  <2>6. ASSUME NEW m \in Objects
        PROVE  /\ mutex'[m].owner = None => mutex'[m].count = 0
               /\ \A u \in Threads :
                    IF Owed(u, m)' = 0 THEN mutex'[m].owner # u
                    ELSE mutex'[m] = [owner |-> u, count |-> Owed(u, m)']
    <3>1. CASE m = p
      BY <3>1, <2>3, <2>4, <1>0
    <3>2. CASE m # p
      BY <3>2, <2>50, <1>1, <1>00
    <3>3. QED
      BY <3>1, <3>2
  <2>7. QED
    BY <2>6 DEF MutexesMatch
<1>6. QED
  BY <1>2, <1>3, <1>4, <1>5, StepEffect DEF Takes, Gives

LEMMA HeldStep ==
  ASSUME TypeInv, InCall, HeldBounded, NEW t \in Threads,
         Call(t) \/ Step(t) \/ Woken(t)
  PROVE  HeldBounded'
<1> USE DEF Goto, Outcome, objects
<1>0. /\ pc \in [Threads -> Places] /\ call \in [Threads -> Calls]
      /\ held \in [Threads -> [Objects -> Int]]
      /\ Shaped(t) /\ Bounded(t) /\ call[t] \in Calls
      /\ MaxCount \in Nat \ {0}
  BY SyncAssumption DEF TypeInv, InCall, HeldBounded
<1>1. ASSUME NEW u \in Threads \ {t}
      PROVE  Bounded(u)'
  <2>1. pc'[u] = pc[u] /\ call'[u] = call[u] /\ held'[u] = held[u]
    BY OneThread
  <2>2. \A m \in Objects : Owed(u, m)' = Owed(u, m)
    BY OthersOwe
  <2>3. Obj(u)' = Obj(u) /\ Op(u)' = Op(u) /\ Pm(Obj(u))' = Pm(Obj(u))
    BY <2>1 DEF Obj, Op, Pm
  <2>4. QED
    BY <2>1, <2>2, <2>3 DEF HeldBounded, Bounded
<1>2. \A m \in Objects : Owed(t, m)' <= MaxCount
  <2>1. \A m \in Objects : Owed(t, m) \in Nat /\ Owed(t, m) <= MaxCount
    BY <1>0, OwedType DEF Bounded
  <2>2. QED
    BY <2>1, <1>0, StepEffect DEF Keeps, Takes, Gives
<1>3. CASE Call(t)
  <2>1. PICK op \in Ops, o \in Objects, timed \in BOOLEAN, n \in 1..2 :
          /\ Allowed(t, op, o, n)
          /\ call' = [call EXCEPT ![t] = [op |-> op, obj |-> o, n |-> n,
                                          timed |-> timed, ok |-> TRUE]]
          /\ held' = IF op \in {"release", "wait"}
                     THEN [held EXCEPT ![t][Pm(o)] = @ - n] ELSE held
    BY <1>3 DEF Call
  <2>2. /\ pc'[t] = "verify" /\ Obj(t)' = o /\ Op(t)' = op
        /\ Pm(Obj(t))' = Pm(o)
    BY <1>0, <1>3, <2>1 DEF Call, Obj, Op, Pm
  <2>3. /\ Pm(o) \in Objects /\ (Pm(o) \in Semaphores <=> o \in Semaphores)
        /\ Pm(o) \in Joined <=> o \in Joined
        /\ o \in Semaphores => o \notin Joined
        /\ o \in Monitors => o \notin Semaphores /\ o \notin Joined
    BY PmFacts, ObjectKinds
  <2>4. /\ op \in {"release", "wait"} => o \notin Joined
        /\ op \in {"release", "wait"} /\ o \notin Semaphores =>
             n = 1 /\ held[t][Pm(o)] > 0
        /\ op = "wait" => held[t][Pm(o)] = 1 /\ n = 1
        /\ op = "acquire" /\ o \notin Semaphores => held[t][Pm(o)] < MaxCount
    <3>1. held[t][Pm(o)] \in Int
      BY <1>0, <2>3
    <3>2. CASE op = "acquire"
      <4>1. Acquires(t, o)
        BY <2>1, <3>2 DEF Allowed
      <4>2. o \notin Semaphores => held[t][Pm(o)] < MaxCount
        BY <4>1, <3>1, <1>0 DEF Acquires
      <4>3. QED
        BY <3>2, <4>2
    <3>3. CASE op = "release"
      BY <2>1, <2>3, <3>1, <3>3 DEF Allowed, Releases
    <3>4. CASE op = "wait"
      BY <2>1, <2>3, <3>4 DEF Allowed
    <3>5. QED
      BY <3>2, <3>3, <3>4
  <2>5. \A m \in Objects :
          held'[t][m] = IF op \in {"release", "wait"} /\ m = Pm(o)
                        THEN held[t][m] - n ELSE held[t][m]
    BY <1>0, <2>1, <2>3
  <2>6. \A m \in Objects \ Semaphores : held'[t][m] \in Nat
    BY <2>3, <2>4, <2>5, <1>0 DEF Bounded
  <2>7. \A m \in Joined : held'[t][m] = 0
    BY <2>3, <2>4, <2>5, <1>0 DEF Bounded, Objects
  <2>8. o \notin Semaphores =>
          /\ op = "wait" => held'[t][Pm(o)] = 0
          /\ op = "acquire" => held'[t][Pm(o)] < MaxCount
    BY <2>3, <2>4, <2>5
  <2>9. Bounded(t)'
    BY <1>2, <2>2, <2>6, <2>7, <2>8 DEF Bounded
  <2>10. QED
    BY <1>1, <2>9 DEF HeldBounded
<1>4. CASE Return(t)
  <2>1. /\ pc[t] = "return" /\ pc'[t] = "run"
        /\ held' = IF Gets(t) THEN [held EXCEPT ![t][Pm(Obj(t))] = @ + call[t].n]
                   ELSE held
    BY <1>0, <1>4 DEF Return
  <2>2. Pm(Obj(t)) \in Objects /\ (Gets(t) => Pm(Obj(t)) \notin Joined)
    BY <1>0, <2>1, PmFacts, ObjectKinds DEF Shaped, Gets
  <2>3. \A m \in Objects :
          held'[t][m] = IF Gets(t) /\ m = Pm(Obj(t))
                        THEN held[t][m] + call[t].n ELSE held[t][m]
    BY <1>0, <2>1, <2>2
  <2>4. \A m \in Objects \ Semaphores : held'[t][m] \in Nat
    BY <2>3, <1>0 DEF Bounded, Calls
  <2>5. \A m \in Joined : held'[t][m] = 0
    BY <2>2, <2>3, <1>0 DEF Bounded, Objects
  <2>6. Bounded(t)'
    BY <1>2, <2>1, <2>4, <2>5 DEF Bounded
  <2>7. QED
    BY <1>1, <2>6 DEF HeldBounded
<1>5. CASE ~Call(t) /\ ~Return(t)
  <2>1. /\ held' = held /\ pc[t] # "run"
        /\ call'[t].obj = call[t].obj /\ call'[t].op = call[t].op
        /\ pc'[t] \in {"verify", "lock"} => pc[t] = "verify"
    <3>1. CASE Verify(t) \/ Lock(t) \/ Unlock(t) \/ Suspend(t) \/ Signal(t)
      BY <3>1, <1>0 DEF Verify, Lock, Unlock, Suspend, Signal, Wait, Inside
    <3>2. CASE AcquirePermits(t)
      BY <3>2, <1>0 DEF AcquirePermits, Wait
    <3>3. CASE ReleasePermits(t) \/ Look(t)
      BY <3>3, <1>0 DEF ReleasePermits, Look, Wait
    <3>4. CASE Woken(t)
      BY <3>4, <1>0 DEF Woken, Wake, WaitTimedOut, GiveUp, LockTimedOut,
         Resumes, Inside, Calls
    <3>5. QED
      BY <1>5, <3>1, <3>2, <3>3, <3>4 DEF Step
  <2>2. Obj(t)' = Obj(t) /\ Op(t)' = Op(t) /\ Pm(Obj(t))' = Pm(Obj(t))
    BY <2>1 DEF Obj, Op, Pm
  <2>3. Bounded(t)'
    BY <1>0, <1>2, <2>1, <2>2 DEF Bounded
  <2>4. QED
    BY <1>1, <2>3 DEF HeldBounded
<1>6. QED
  BY <1>3, <1>4, <1>5

-----------------------------------------------------------------------------
(* What the threads hold, the mutexes and the calls are inductive together.  *)

MutexInv == TypeInv /\ InCall /\ HeldBounded /\ MutexesMatch

LEMMA MutexInvInit == Init => MutexInv
<1> SUFFICES ASSUME Init
             PROVE  MutexInv
  OBVIOUS
<1>1. TypeInv
  BY TypeInit
<1>2. /\ \A t \in Threads : pc[t] = "run"
      /\ \A t \in Threads, m \in Objects : held[t][m] = 0
      /\ \A m \in Objects : mutex[m] = Free
      /\ Joined \subseteq Objects
  BY DEF Init, Objects
<1>3. \A t \in Threads, m \in Objects : Owed(t, m) = 0
  BY <1>2 DEF Owed
<1>4. InCall
  BY <1>2 DEF InCall, Shaped
<1>5. HeldBounded
  <2>1. MaxCount \in Nat \ {0}
    BY SyncAssumption
  <2>2. ASSUME NEW t \in Threads
        PROVE  Bounded(t)
    BY <1>2, <1>3, <2>1 DEF Bounded
  <2>3. QED
    BY <2>2 DEF HeldBounded
<1>6. MutexesMatch
  BY <1>2, <1>3, SyncAssumption DEF MutexesMatch, Free
<1>7. QED
  BY <1>1, <1>4, <1>5, <1>6 DEF MutexInv

LEMMA MutexInvStep == MutexInv /\ [Next]_vars => MutexInv'
<1> SUFFICES ASSUME MutexInv, [Next]_vars
             PROVE  MutexInv'
  OBVIOUS
<1>1. TypeInv /\ InCall /\ HeldBounded /\ MutexesMatch
  BY DEF MutexInv
<1>2. TypeInv' /\ InCall'
  BY <1>1, TypeStep, InCallStep
<1>3. ASSUME NEW t \in Threads, Call(t) \/ Step(t) \/ Woken(t)
      PROVE  HeldBounded' /\ MutexesMatch'
  BY <1>1, <1>3, HeldStep, MutexStep
<1>4. ASSUME UNCHANGED <<mutex, pc, call, held>>
      PROVE  HeldBounded' /\ MutexesMatch'
  <2>1. \A t \in Threads, m \in Objects : Owed(t, m)' = Owed(t, m)
    BY <1>4 DEF Owed, Pm, Obj, Inner, Gets, Op
  <2>2. HeldBounded'
    BY <1>1, <1>4, <2>1 DEF HeldBounded, Bounded, Pm, Obj, Op
  <2>3. MutexesMatch'
    BY <1>1, <1>4, <2>1 DEF MutexesMatch
  <2>4. QED
    BY <2>2, <2>3
<1>5. ASSUME NEW o \in Joined, Ends(o) \/ Tells(o)
      PROVE  UNCHANGED <<mutex, pc, call, held>>
  BY <1>5 DEF Ends, Tells
<1>6. HeldBounded' /\ MutexesMatch'
  <2>1. CASE UNCHANGED vars
    BY <2>1, <1>4 DEF vars, objects
  <2>2. CASE \E o \in Joined : Ends(o) \/ Tells(o)
    BY <2>2, <1>4, <1>5
  <2>3. QED
    BY <2>1, <2>2, <1>3 DEF Next
<1>7. QED
  BY <1>2, <1>6 DEF MutexInv

LEMMA MutexInvHolds == Spec => []MutexInv
<1>1. Init => MutexInv
  BY MutexInvInit
<1>2. MutexInv /\ [Next]_vars => MutexInv'
  BY MutexInvStep
<1>3. QED
  BY <1>1, <1>2, PTL DEF Spec

(* Type correctness, for any numbers of threads, objects and calls: every    *)
(* thread is at a place of the call it is in, every mutex has an owner or    *)
(* none, and no re-entrant lock is counted beyond its bound.                 *)
THEOREM SyncTypeCorrect == Spec => []TypeOK
<1>1. ASSUME MutexInv
      PROVE  TypeOK
  <2>1. TypeInv /\ HeldBounded /\ MutexesMatch /\ MaxCount \in Nat
    BY <1>1, SyncAssumption DEF MutexInv
  <2>2. ASSUME NEW m \in Objects
        PROVE  mutex[m] \in [owner : Threads \cup {None}, count : 0..MaxCount]
    <3>1. mutex[m] \in [owner : Threads \cup {None}, count : Int]
      BY <2>1 DEF TypeInv, Mutex
    <3>2. mutex[m].count \in 0..MaxCount
      <4>1. CASE mutex[m].owner = None
        BY <2>1, <4>1 DEF MutexesMatch
      <4>2. ASSUME NEW t \in Threads, mutex[m].owner = t
            PROVE  mutex[m].count \in 0..MaxCount
        <5>1. mutex[m] = [owner |-> t, count |-> Owed(t, m)]
          BY <2>1, <4>2 DEF MutexesMatch
        <5>2. Owed(t, m) \in Nat /\ Owed(t, m) <= MaxCount
          BY <2>1, OwedType DEF HeldBounded, Bounded
        <5>3. QED
          BY <2>1, <5>1, <5>2
      <4>3. QED
        BY <3>1, <4>1, <4>2
    <3>3. QED
      BY <3>1, <3>2
  <2>3. mutex \in [Objects -> [owner : Threads \cup {None}, count : 0..MaxCount]]
    BY <2>1, <2>2 DEF TypeInv
  <2>4. QED
    BY <2>1, <2>3 DEF TypeInv, TypeOK
<1>2. QED
  BY <1>1, MutexInvHolds, PTL

-----------------------------------------------------------------------------
(* The objects themselves, when no monitor is made over a lock.              *)

NothingMade == \A t \in Threads : pc[t] # "run" => Op(t) # "new"
OpaqueInv == OpaqueMatches /\ NothingMade

LEMMA NothingMadeStep ==
  ASSUME "new" \notin Features, TypeInv, NothingMade, [Next]_vars
  PROVE  NothingMade'
<1>0. pc \in [Threads -> Places] /\ call \in [Threads -> Calls]
  BY DEF TypeInv
<1>1. ASSUME NEW t \in Threads, Call(t)
      PROVE  Op(t)' # "new"
  BY <1>0, <1>1 DEF Call, Allowed, Op, Goto
<1>2. ASSUME NEW t \in Threads, Step(t) \/ Woken(t)
      PROVE  pc'[t] # "run" => pc[t] # "run" /\ Op(t)' = Op(t)
  <2> USE DEF Goto, Op, Outcome, Wait
  <2>1. CASE Step(t)
    BY <1>0, <2>1 DEF Step, Verify, Return, Lock, Unlock, Suspend, Signal,
       AcquirePermits, ReleasePermits, Look
  <2>2. CASE Woken(t)
    BY <1>0, <2>2 DEF Woken, Wake, WaitTimedOut, GiveUp, LockTimedOut, Calls
  <2>3. QED
    BY <1>2, <2>1, <2>2
<1>3. ASSUME NEW t \in Threads, Call(t) \/ Step(t) \/ Woken(t)
      PROVE  NothingMade'
  <2>1. \A u \in Threads \ {t} : pc'[u] = pc[u] /\ Op(u)' = Op(u)
    BY <1>3, OneThread DEF Op
  <2>2. QED
    BY <1>1, <1>2, <1>3, <2>1 DEF NothingMade
<1>4. ASSUME UNCHANGED <<pc, call>>
      PROVE  NothingMade'
  BY <1>4 DEF NothingMade, Op
<1>5. QED
  BY <1>3, <1>4 DEF Next, Ends, Tells, vars

(* Verifying and returning lock and unlock the object of the call; no other  *)
(* step does.                                                                *)
LEMMA OpaqueStep ==
  ASSUME TypeInv, InCall, NothingMade, OpaqueMatches, [Next]_vars
  PROVE  OpaqueMatches'
<1>0. /\ opaque \in [Objects -> Threads \cup {None}]
      /\ pc \in [Threads -> Places] /\ call \in [Threads -> Calls]
      /\ None \notin Threads
      /\ \A t \in Threads, o \in Objects :
           opaque[o] = t <=> pc[t] \notin {"run", "verify"} /\ Obj(t) = o
  BY SyncAssumption DEF TypeInv, OpaqueMatches
<1> DEFINE In(t) == pc[t] \notin {"run", "verify"}
<1>1. ASSUME NEW t \in Threads, Call(t) \/ Step(t) \/ Woken(t),
             \A o \in Objects : opaque'[o] = t <=> In(t)' /\ Obj(t)' = o,
             \A u \in Threads \ {t}, o \in Objects :
               opaque'[o] = u <=> opaque[o] = u
      PROVE  OpaqueMatches'
  <2>1. \A u \in Threads \ {t} : pc'[u] = pc[u] /\ Obj(u)' = Obj(u)
    BY <1>1, OneThread DEF Obj
  <2>2. QED
    BY <1>0, <1>1, <2>1 DEF OpaqueMatches
<1>2. ASSUME NEW t \in Threads, Call(t) \/ Step(t) \/ Woken(t),
             opaque' = opaque, In(t)' <=> In(t), In(t) => Obj(t)' = Obj(t)
      PROVE  OpaqueMatches'
  BY <1>0, <1>1, <1>2
<1> HIDE DEF In
<1>3. ASSUME NEW t \in Threads, Call(t)
      PROVE  OpaqueMatches'
  BY <1>0, <1>2, <1>3 DEF Call, Goto, objects, In
<1>4. ASSUME NEW t \in Threads, Step(t)
      PROVE  OpaqueMatches'
  <2>1. CASE Verify(t)
    <3>1. /\ Obj(t) \in Objects /\ Op(t) # "new" /\ call[t] \in Calls
          /\ Shaped(t)
      BY <2>1, <1>0 DEF Verify, Goto, InCall, Shaped, NothingMade
    <3>2. /\ opaque[Obj(t)] = None /\ opaque' = [opaque EXCEPT ![Obj(t)] = t]
          /\ pc[t] = "verify" /\ pc'[t] = First(t) /\ Obj(t)' = Obj(t)
      BY <2>1, <3>1, <1>0 DEF Verify, Verified, Goto, Obj
    <3>3. In(t)'
      BY <3>2 DEF In, First
    <3>4. \A o \in Objects : opaque'[o] = t <=> Obj(t) = o
      BY <3>1, <3>2, <1>0
    <3>5. \A u \in Threads \ {t}, o \in Objects : opaque'[o] = u <=> opaque[o] = u
      BY <3>1, <3>2, <1>0
    <3>6. QED
      BY <1>1, <1>4, <3>2, <3>3, <3>4, <3>5
  <2>2. CASE Return(t)
    <3>1. /\ Obj(t) \in Objects /\ Op(t) # "new"
          /\ pc[t] = "return" /\ pc'[t] = "run"
          /\ opaque' = [opaque EXCEPT ![Obj(t)] = None]
      BY <2>2, <1>0 DEF Return, Goto, InCall, Shaped, NothingMade
    <3>2. opaque[Obj(t)] = t
      BY <3>1, <1>0
    <3>3. \A o \in Objects : opaque'[o] # t
      BY <3>1, <3>2, <1>0
    <3>4. \A u \in Threads \ {t}, o \in Objects : opaque'[o] = u <=> opaque[o] = u
      BY <3>1, <3>2, <1>0
    <3>5. ~In(t)'
      BY <3>1 DEF In
    <3>6. QED
      BY <1>1, <1>4, <3>3, <3>4, <3>5
  <2>3. CASE Lock(t) \/ Unlock(t) \/ Suspend(t) \/ Signal(t)
    BY <2>3, <1>0, <1>2, <1>4 DEF Lock, Unlock, Suspend, Signal, Wait, Goto,
       Inside, In, Obj
  <2>4. CASE AcquirePermits(t)
    BY <2>4, <1>0, <1>2, <1>4 DEF AcquirePermits, Wait, Goto, In, Obj
  <2>5. CASE ReleasePermits(t) \/ Look(t)
    BY <2>5, <1>0, <1>2, <1>4 DEF ReleasePermits, Look, Wait, Goto, In, Obj
  <2>6. QED
    BY <1>4, <2>1, <2>2, <2>3, <2>4, <2>5 DEF Step
<1>5. ASSUME NEW t \in Threads, Woken(t)
      PROVE  OpaqueMatches'
  BY <1>0, <1>2, <1>5 DEF Woken, Wake, WaitTimedOut, GiveUp, LockTimedOut,
     Goto, Outcome, Inside, In, Obj, Calls
<1>6. ASSUME UNCHANGED <<opaque, pc, call>>
      PROVE  OpaqueMatches'
  BY <1>0, <1>6 DEF OpaqueMatches, Obj
<1>7. QED
  BY <1>3, <1>4, <1>5, <1>6 DEF Next, Ends, Tells, vars, objects

LEMMA OpaqueInvHolds ==
  ASSUME "new" \notin Features
  PROVE  Spec => []OpaqueInv
<1>1. Init => OpaqueInv
  BY SyncAssumption DEF Init, OpaqueInv, OpaqueMatches, NothingMade
<1>2. MutexInv /\ OpaqueInv /\ [Next]_vars => OpaqueInv'
  BY NothingMadeStep, OpaqueStep DEF MutexInv, OpaqueInv
<1>3. QED
  BY <1>1, <1>2, MutexInvHolds, PTL DEF Spec

-----------------------------------------------------------------------------
(* What a thread in no call has locked.                                      *)

(* A thread that is in no call has locked the mutexes of what it has         *)
(* acquired, as often as it has acquired them, and no other: whatever calls  *)
(* fail, time out, wait or are made over the locks of monitors, and by any   *)
(* number of threads.                                                        *)
LocksExactly ==
  \A t \in Threads : pc[t] = "run" =>
    \A o \in Objects \ Semaphores :
      IF held[t][o] = 0 THEN mutex[o].owner # t
      ELSE mutex[o] = [owner |-> t, count |-> held[t][o]]

LEMMA LocksExactlyFollows == MutexInv => LocksExactly
<1> SUFFICES ASSUME MutexInv, NEW t \in Threads, pc[t] = "run",
                    NEW o \in Objects \ Semaphores
             PROVE  IF held[t][o] = 0 THEN mutex[o].owner # t
                    ELSE mutex[o] = [owner |-> t, count |-> held[t][o]]
  BY DEF LocksExactly
<1>1. held[t][o] \in Int
  BY DEF MutexInv, TypeInv
<1>2. Owed(t, o) = held[t][o]
  BY <1>1 DEF Owed
<1>3. QED
  BY <1>2 DEF MutexInv, MutexesMatch

(* The mutexes of what a thread has acquired are the mutexes it has locked   *)
(* whenever it is in no call, whatever the programs do (ulibthrd.c).         *)
THEOREM LocksExactlyHolds == Spec => []LocksExactly
BY LocksExactlyFollows, MutexInvHolds, PTL

(* Where no program makes a monitor over a lock it has already, a thread in  *)
(* no call has locked neither an object nor a mutex but those of what it has *)
(* acquired (docs/Thread.md:135).  The assumption is needed: monitor.new     *)
(* leaves the lock's object locked (ulibthrd.c:1449).                        *)
THEOREM HoldsExactlyHolds ==
  ASSUME "new" \notin Features
  PROVE  Spec => []HoldsExactly
<1>1. LocksExactly /\ OpaqueInv => HoldsExactly
  BY DEF LocksExactly, OpaqueInv, OpaqueMatches, HoldsExactly
<1>2. QED
  BY <1>1, LocksExactlyHolds, OpaqueInvHolds, PTL

-----------------------------------------------------------------------------
(* Sums over finite sets, of which the library says nothing that can be      *)
(* instantiated here.  The sum is the one the library's definition chooses:  *)
(* it exists, and two that satisfy the recursion agree, by induction over    *)
(* the sizes of the sets.                                                    *)

(* A set of naturals that is not empty has a smallest element.               *)
LEMMA SmallestElement ==
  ASSUME NEW A \in SUBSET Nat, A # {}
  PROVE  \E n \in A : \A k \in A : ~(k < n)
<1>1. \E n \in A : \A k \in A : <<k, n>> \notin OpToRel(<, Nat)
  BY NatLessThanWellFounded, WFMin
<1>2. QED
  BY <1>1 DEF OpToRel

(* Induction over a set: the library's theorems have an operator for a       *)
(* parameter.                                                                *)
LEMMA SetOfAllNat ==
  ASSUME NEW A, 0 \in A, \A n \in Nat : n \in A => n + 1 \in A
  PROVE  Nat \subseteq A
<1>1. SUFFICES ASSUME Nat \ A # {}
               PROVE  FALSE
  OBVIOUS
<1>2. PICK n \in Nat \ A : \A k \in Nat \ A : ~(k < n)
  BY <1>1, SmallestElement
<1>3. n - 1 \in Nat /\ n - 1 \in A
  BY <1>2
<1>4. QED
  BY <1>2, <1>3

Chosen(s) == CHOOSE x \in s : TRUE
Summed(g, f, s) == IF s = {} THEN 0 ELSE f[Chosen(s)] + g[s \ {Chosen(s)}]
IsSum(g, f, S) == g = [s \in SUBSET S |-> Summed(g, f, s)]

LEMMA SumIsChosen ==
  ASSUME NEW f, NEW S
  PROVE  SumFunctionOnSet(f, S) = (CHOOSE g : IsSum(g, f, S))[S]
BY DEF SumFunctionOnSet, FoldFunctionOnSet, MapThenFoldSet, IsSum, Summed, Chosen

LEMMA SmallerSet ==
  ASSUME NEW S, IsFiniteSet(S), NEW s \in SUBSET S, s # {}
  PROVE  /\ Chosen(s) \in s
         /\ s \ {Chosen(s)} \in SUBSET S
         /\ Cardinality(s) \in Nat
         /\ Cardinality(s \ {Chosen(s)}) = Cardinality(s) - 1
<1>1. Chosen(s) \in s
  BY DEF Chosen
<1>2. IsFiniteSet(s)
  BY FS_Subset
<1>3. QED
  BY <1>1, <1>2, FS_RemoveElement, FS_CardinalityType

LEMMA SumExists ==
  ASSUME NEW S, IsFiniteSet(S), NEW f \in [S -> Int]
  PROVE  \E g \in [SUBSET S -> Int] : IsSum(g, f, S)
<1> DEFINE Upto(n) == {s \in SUBSET S : Cardinality(s) <= n}
           Begun(n) == \E g \in [Upto(n) -> Int] :
                         \A s \in Upto(n) : g[s] = Summed(g, f, s)
           A == {n \in Nat : Begun(n)}
<1>0. \A s \in SUBSET S : IsFiniteSet(s) /\ Cardinality(s) \in Nat
  BY FS_Subset, FS_CardinalityType
<1>1. 0 \in A
  <2>1. \A s \in Upto(0) : s = {}
    BY <1>0, FS_EmptySet
  <2> DEFINE g == [s \in Upto(0) |-> 0]
  <2>2. g \in [Upto(0) -> Int] /\ \A s \in Upto(0) : g[s] = Summed(g, f, s)
    BY <2>1 DEF Summed
  <2>3. QED
    BY <2>2
<1>2. ASSUME NEW n \in Nat, n \in A
      PROVE  n + 1 \in A
  <2>1. PICK g \in [Upto(n) -> Int] : \A s \in Upto(n) : g[s] = Summed(g, f, s)
    BY <1>2
  <2> DEFINE h == [s \in Upto(n + 1) |-> Summed(g, f, s)]
  <2>2. \A s \in Upto(n + 1) : s # {} =>
          Chosen(s) \in S /\ s \ {Chosen(s)} \in Upto(n)
    BY <1>0, SmallerSet
  <2>3. ASSUME NEW s \in Upto(n + 1)
        PROVE  Summed(g, f, s) \in Int
    BY <2>2 DEF Summed
  <2>4. h \in [Upto(n + 1) -> Int]
    BY <2>3
  <2>5. \A s \in Upto(n) : s \in Upto(n + 1) /\ h[s] = g[s]
    BY <1>0, <2>1
  <2>6. \A s \in Upto(n + 1) : h[s] = Summed(h, f, s)
    BY <2>2, <2>5 DEF Summed
  <2>7. Begun(n + 1)
    <3> HIDE DEF h
    <3> QED
      BY <2>4, <2>6
  <2>8. QED
    <3> HIDE DEF Begun
    <3> QED
      BY <2>7
<1>3. Cardinality(S) \in A
  <2> HIDE DEF A
  <2>1. Cardinality(S) \in Nat
    BY FS_CardinalityType
  <2>2. QED
    BY <1>1, <1>2, <2>1, SetOfAllNat
<1>4. Upto(Cardinality(S)) = SUBSET S
  BY FS_Subset
<1>5. QED
  BY <1>3, <1>4 DEF IsSum

(* Sums of functions that differ at most at one place.                       *)
LEMMA SumsDiffer ==
  ASSUME NEW S, IsFiniteSet(S), NEW f1 \in [S -> Int], NEW f2 \in [S -> Int],
         NEW a \in S, \A x \in S \ {a} : f1[x] = f2[x],
         NEW g1, IsSum(g1, f1, S), NEW g2, IsSum(g2, f2, S),
         NEW s \in SUBSET S
  PROVE  /\ g1[s] \in Int /\ g2[s] \in Int
         /\ g2[s] = g1[s] + (IF a \in s THEN f2[a] - f1[a] ELSE 0)
<1> DEFINE Goal(r) == /\ g1[r] \in Int /\ g2[r] \in Int
                      /\ g2[r] = g1[r] + (IF a \in r THEN f2[a] - f1[a] ELSE 0)
           A == {n \in Nat : \A r \in SUBSET S : Cardinality(r) <= n => Goal(r)}
<1>0. \A r \in SUBSET S : IsFiniteSet(r) /\ Cardinality(r) \in Nat
  BY FS_Subset, FS_CardinalityType
<1>1. \A r \in SUBSET S : g1[r] = Summed(g1, f1, r) /\ g2[r] = Summed(g2, f2, r)
  BY DEF IsSum
<1>2. 0 \in A
  <2>1. ASSUME NEW r \in SUBSET S, Cardinality(r) <= 0
        PROVE  Goal(r)
    <3>1. r = {}
      BY <1>0, <2>1, FS_EmptySet
    <3>2. g1[r] = 0 /\ g2[r] = 0
      BY <1>1, <3>1 DEF Summed
    <3>3. QED
      BY <3>1, <3>2
  <2>2. QED
    BY <2>1
<1>3. ASSUME NEW n \in Nat, n \in A
      PROVE  n + 1 \in A
  <2>1. ASSUME NEW r \in SUBSET S, Cardinality(r) <= n + 1
        PROVE  Goal(r)
    <3>1. CASE r = {}
      <4>1. g1[r] = 0 /\ g2[r] = 0
        BY <1>1, <3>1 DEF Summed
      <4>2. QED
        BY <3>1, <4>1
    <3>2. CASE r # {}
      <4> DEFINE c == Chosen(r)
      <4>1. c \in r /\ r \ {c} \in SUBSET S /\ Cardinality(r \ {c}) <= n
        BY <1>0, <2>1, <3>2, SmallerSet
      <4>2. Goal(r \ {c})
        BY <1>3, <4>1
      <4>3. g1[r] = f1[c] + g1[r \ {c}] /\ g2[r] = f2[c] + g2[r \ {c}]
        BY <1>1, <3>2 DEF Summed
      <4>4. f1[c] \in Int /\ f2[c] \in Int /\ f1[a] \in Int /\ f2[a] \in Int
        BY <4>1
      <4>5. c # a => f1[c] = f2[c]
        BY <4>1
      <4> HIDE DEF c
      <4>6. QED
        BY <4>1, <4>2, <4>3, <4>4, <4>5
    <3>3. QED
      BY <3>1, <3>2
  <2>2. QED
    BY <2>1
<1>4. Cardinality(s) \in A
  <2> HIDE DEF A
  <2>1. QED
    BY <1>0, <1>2, <1>3, SetOfAllNat
<1>5. QED
  BY <1>4

LEMMA SumIsSum ==
  ASSUME NEW S, IsFiniteSet(S), NEW f \in [S -> Int]
  PROVE  \E g : IsSum(g, f, S) /\ g[S] = SumFunctionOnSet(f, S)
<1> DEFINE g == CHOOSE g : IsSum(g, f, S)
<1>1. IsSum(g, f, S)
  BY SumExists
<1>2. g[S] = SumFunctionOnSet(f, S)
  BY SumIsChosen
<1>3. QED
  BY <1>1, <1>2

(* A sum changes by what one of its terms changes by.                        *)
THEOREM SumChange ==
  ASSUME NEW S, IsFiniteSet(S), NEW f1 \in [S -> Int], NEW f2 \in [S -> Int],
         NEW a \in S, \A x \in S \ {a} : f1[x] = f2[x]
  PROVE  /\ SumFunction(f1) \in Int
         /\ SumFunction(f2) = SumFunction(f1) + f2[a] - f1[a]
<1>1. PICK g1 : IsSum(g1, f1, S) /\ g1[S] = SumFunctionOnSet(f1, S)
  BY SumIsSum
<1>2. PICK g2 : IsSum(g2, f2, S) /\ g2[S] = SumFunctionOnSet(f2, S)
  BY SumIsSum
<1>3. /\ g1[S] \in Int /\ g2[S] \in Int
      /\ g2[S] = g1[S] + (f2[a] - f1[a])
  BY <1>1, <1>2, SumsDiffer
<1>4. f1[a] \in Int /\ f2[a] \in Int /\ DOMAIN f1 = S /\ DOMAIN f2 = S
  OBVIOUS
<1>5. QED
  BY <1>1, <1>2, <1>3, <1>4 DEF SumFunction

(* A sum of zeroes is zero.                                                  *)
THEOREM SumZero ==
  ASSUME NEW S, IsFiniteSet(S), NEW f \in [S -> Int], \A x \in S : f[x] = 0
  PROVE  SumFunction(f) = 0
<1>1. PICK g : IsSum(g, f, S) /\ g[S] = SumFunctionOnSet(f, S)
  BY SumIsSum
<1> DEFINE A == {n \in Nat : \A r \in SUBSET S : Cardinality(r) <= n => g[r] = 0}
<1>2. \A r \in SUBSET S : IsFiniteSet(r) /\ Cardinality(r) \in Nat
  BY FS_Subset, FS_CardinalityType
<1>3. \A r \in SUBSET S : g[r] = Summed(g, f, r)
  BY <1>1 DEF IsSum
<1>4. 0 \in A
  BY <1>2, <1>3, FS_EmptySet DEF Summed
<1>5. ASSUME NEW n \in Nat, n \in A
      PROVE  n + 1 \in A
  <2>1. ASSUME NEW r \in SUBSET S, Cardinality(r) <= n + 1
        PROVE  g[r] = 0
    <3>1. CASE r = {}
      BY <1>3, <3>1 DEF Summed
    <3>2. CASE r # {}
      <4>1. /\ Chosen(r) \in r /\ r \ {Chosen(r)} \in SUBSET S
            /\ Cardinality(r \ {Chosen(r)}) <= n
        BY <1>2, <2>1, <3>2, SmallerSet
      <4>2. g[r \ {Chosen(r)}] = 0
        BY <1>5, <4>1
      <4>3. QED
        BY <1>3, <3>2, <4>1, <4>2 DEF Summed
    <3>3. QED
      BY <3>1, <3>2
  <2>2. QED
    BY <2>1
<1>6. Cardinality(S) \in A
  <2> HIDE DEF A
  <2>1. QED
    BY <1>2, <1>4, <1>5, SetOfAllNat
<1>7. QED
  BY <1>1, <1>6 DEF SumFunction

-----------------------------------------------------------------------------
(* Permits.  What a thread has of a semaphore: the permits it holds, and     *)
(* those its call has acquired or is about to release.                       *)

Share(t, s) == held[t][s] + Got(t, s)

SharesTyped == \A t \in Threads, s \in Semaphores : Share(t, s) \in Int

LEMMA ShareType == TypeInv => SharesTyped
<1> SUFFICES ASSUME TypeInv, NEW t \in Threads, NEW s \in Semaphores
             PROVE  Share(t, s) \in Int
  BY DEF SharesTyped
<1>1. held[t][s] \in Int /\ call[t].n \in Int
  BY DEF TypeInv, Calls, Objects
<1>2. QED
  BY <1>1 DEF Share, Got

(* What a semaphore loses a thread gets, and the other way round.            *)
LEMMA ShareStep ==
  ASSUME TypeInv, InCall, NEW t \in Threads, Call(t) \/ Step(t) \/ Woken(t),
         NEW s \in Semaphores
  PROVE  Share(t, s)' = Share(t, s) + counter[s] - counter'[s]
<1>0. /\ pc \in [Threads -> Places] /\ call \in [Threads -> Calls]
      /\ held \in [Threads -> [Objects -> Int]]
      /\ counter \in [Semaphores -> Nat]
      /\ Shaped(t) /\ call[t] \in Calls
      /\ held[t][s] \in Int /\ counter[s] \in Int /\ call[t].n \in 1..2
      /\ s \notin Monitors /\ s \notin Joined /\ s \in Objects
  BY ObjectKinds DEF TypeInv, InCall, Calls, Objects
<1>00. ASSUME NEW o \in Objects
       PROVE  Pm(o) \in Objects /\ (Pm(o) = s <=> o = s)
  <2>1. /\ Pm(o) \in Objects /\ (o \notin Monitors => Pm(o) = o)
        /\ Pm(o) \in Semaphores <=> o \in Semaphores
    BY PmFacts
  <2>2. QED
    BY <1>0, <2>1, ObjectKinds
<1>1. ASSUME held' = held, counter' = counter, Got(t, s)' = Got(t, s)
      PROVE  Share(t, s)' = Share(t, s) + counter[s] - counter'[s]
  BY <1>0, <1>1, ShareType DEF Share, SharesTyped
<1> USE DEF Goto, Outcome, Op, Obj
<1>2. CASE Call(t)
  <2>1. PICK op \in Ops, o \in Objects, timed \in BOOLEAN, n \in 1..2 :
          /\ Allowed(t, op, o, n)
          /\ call' = [call EXCEPT ![t] = [op |-> op, obj |-> o, n |-> n,
                                          timed |-> timed, ok |-> TRUE]]
          /\ held' = IF op \in {"release", "wait"}
                     THEN [held EXCEPT ![t][Pm(o)] = @ - n] ELSE held
    BY <1>2 DEF Call
  <2>2. pc[t] = "run" /\ pc'[t] = "verify" /\ counter' = counter
    BY <1>0, <1>2 DEF Call, objects
  <2>3. Got(t, s) = 0 /\ Got(t, s)' = IF op = "release" /\ o = s THEN n ELSE 0
    BY <1>0, <2>1, <2>2 DEF Got
  <2>4. op = "wait" => o \in Monitors
    BY <2>1 DEF Allowed
  <2>5. /\ Pm(o) \in Objects /\ (Pm(o) = s <=> o = s)
        /\ o \in Monitors => Pm(o) # s
    BY <1>0, <1>00
  <2>6. held'[t][s] = IF op = "release" /\ o = s THEN held[t][s] - n
                      ELSE held[t][s]
    BY <1>0, <2>1, <2>4, <2>5
  <2>7. QED
    BY <1>0, <2>2, <2>3, <2>6 DEF Share
<1>3. CASE Return(t)
  <2>1. /\ pc[t] = "return" /\ pc'[t] = "run" /\ counter' = counter
        /\ held' = IF Gets(t) THEN [held EXCEPT ![t][Pm(Obj(t))] = @ + call[t].n]
                   ELSE held
    BY <1>0, <1>3 DEF Return
  <2>2. /\ Got(t, s)' = 0
        /\ Got(t, s) = IF Gets(t) /\ Obj(t) = s THEN call[t].n ELSE 0
    BY <1>0, <2>1 DEF Got, Gets, Shaped
  <2>3. Pm(Obj(t)) \in Objects /\ (Pm(Obj(t)) = s <=> Obj(t) = s)
    BY <1>0, <1>00, <2>1 DEF Shaped
  <2>4. held'[t][s] = IF Gets(t) /\ Obj(t) = s THEN held[t][s] + call[t].n
                      ELSE held[t][s]
    BY <1>0, <2>1, <2>3
  <2>5. QED
    BY <1>0, <2>1, <2>2, <2>4 DEF Share
<1>4. CASE Verify(t)
  BY <1>0, <1>1, <1>4 DEF Verify, First, Got, Shaped
<1>5. CASE Lock(t)
  BY <1>0, <1>1, <1>5 DEF Lock, Inside, Got, Shaped
<1>6. CASE Unlock(t) \/ Suspend(t) \/ Signal(t) \/ Look(t)
  BY <1>0, <1>1, <1>6 DEF Unlock, Suspend, Signal, Look, Wait, Got, Shaped, Stages
<1>7. CASE AcquirePermits(t)
  <2>0. pc[t] = "permits" /\ call[t].op = "acquire" /\ call[t].ok = TRUE
    BY <1>0, <1>7 DEF AcquirePermits, Shaped, Calls
  <2>1. CASE counter[Obj(t)] < call[t].n
    BY <1>0, <1>1, <1>7, <2>0, <2>1 DEF AcquirePermits, Wait, Got
  <2>2. CASE ~(counter[Obj(t)] < call[t].n)
    <3>1. /\ pc'[t] = "unlock" /\ held' = held /\ call' = call
          /\ counter' = [counter EXCEPT ![Obj(t)] = @ - call[t].n]
      BY <1>0, <1>7, <2>2 DEF AcquirePermits
    <3>2. /\ Got(t, s) = 0
          /\ Got(t, s)' = IF Obj(t) = s THEN call[t].n ELSE 0
      BY <2>0, <3>1 DEF Got
    <3>3. counter'[s] = IF Obj(t) = s THEN counter[s] - call[t].n ELSE counter[s]
      BY <1>0, <3>1
    <3>4. QED
      BY <1>0, <3>1, <3>2, <3>3 DEF Share
  <2>3. QED
    BY <2>1, <2>2
<1>8. CASE ReleasePermits(t)
  <2>1. /\ pc[t] = "permits" /\ call[t].op = "release" /\ pc'[t] = "unlock"
        /\ held' = held /\ call' = call
        /\ counter' = [counter EXCEPT ![Obj(t)] = @ + call[t].n]
    BY <1>0, <1>8 DEF ReleasePermits
  <2>2. Got(t, s) = (IF Obj(t) = s THEN call[t].n ELSE 0) /\ Got(t, s)' = 0
    BY <2>1 DEF Got
  <2>3. counter'[s] = IF Obj(t) = s THEN counter[s] + call[t].n ELSE counter[s]
    BY <1>0, <2>1
  <2>4. QED
    BY <1>0, <2>1, <2>2, <2>3 DEF Share
<1>9. CASE Woken(t)
  <2>1. CASE Wake(t)
    BY <1>0, <1>1, <2>1 DEF Wake, Inside, Got, Shaped, Stages
  <2>2. CASE WaitTimedOut(t) \/ GiveUp(t) \/ LockTimedOut(t)
    BY <1>0, <1>1, <2>2 DEF WaitTimedOut, GiveUp, LockTimedOut, Got, Shaped,
       Stages, Calls
  <2>3. QED
    BY <1>9, <2>1, <2>2 DEF Woken
<1>10. QED
  BY <1>2, <1>3, <1>4, <1>5, <1>6, <1>7, <1>8, <1>9 DEF Step

LEMMA PermitsStep ==
  ASSUME TypeInv, InCall, PermitsConserved, [Next]_vars
  PROVE  PermitsConserved'
<1> SUFFICES ASSUME NEW s \in Semaphores
             PROVE  counter'[s] = Permits - SumFunction([t \in Threads |-> Share(t, s)'])
  BY DEF PermitsConserved, Share
<1> DEFINE f == [t \in Threads |-> Share(t, s)]
           g == [t \in Threads |-> Share(t, s)']
<1>0. /\ counter[s] = Permits - SumFunction(f)
      /\ counter[s] \in Int /\ counter'[s] \in Int /\ Permits \in Int
      /\ IsFiniteSet(Threads)
  <2>1. TypeInv'
    BY TypeStep
  <2>2. QED
    BY <2>1, SyncAssumption DEF PermitsConserved, Share, TypeInv
<1>1. f \in [Threads -> Int]
  BY ShareType DEF SharesTyped
<1>2. ASSUME NEW t \in Threads, Call(t) \/ Step(t) \/ Woken(t)
      PROVE  counter'[s] = Permits - SumFunction(g)
  <2>1. g[t] = f[t] + counter[s] - counter'[s]
    BY <1>2, ShareStep
  <2>2. \A u \in Threads \ {t} : g[u] = f[u]
    <3>1. \A u \in Threads \ {t} : Share(u, s)' = Share(u, s)
      BY <1>2, OneThread DEF Share, Got, Op, Obj
    <3>2. QED
      BY <3>1
  <2>3. g \in [Threads -> Int]
    <3>1. TypeInv'
      BY TypeStep
    <3>2. SharesTyped'
      BY <3>1, ShareType, PTL
    <3>3. QED
      BY <3>2 DEF SharesTyped
  <2> HIDE DEF f, g
  <2>4. SumFunction(f) \in Int /\ SumFunction(g) = SumFunction(f) + g[t] - f[t]
    <3>1. SumFunction(g) \in Int /\ SumFunction(f) \in Int
      BY <1>0, <1>1, <2>2, <2>3, SumChange
    <3>2. QED
      BY <1>0, <1>1, <2>2, <2>3, <3>1, SumChange
  <2>5. f[t] \in Int /\ g[t] \in Int
    BY <1>1, <2>3
  <2>6. QED
    BY <1>0, <2>1, <2>4, <2>5
<1>3. ASSUME UNCHANGED <<counter, pc, call, held>>
      PROVE  counter'[s] = Permits - SumFunction(g)
  <2>1. g = f
    BY <1>3 DEF Share, Got, Op, Obj
  <2>2. QED
    BY <1>0, <1>3, <2>1
<1> HIDE DEF g
<1>4. counter'[s] = Permits - SumFunction(g)
  BY <1>2, <1>3 DEF Next, Ends, Tells, vars, objects
<1>5. QED
  BY <1>4 DEF g

(* The permits of a semaphore are those that are free, those that threads    *)
(* hold, and those that a call has acquired or is about to give back, for    *)
(* any number of threads and semaphores: no time-out takes some of the       *)
(* permits it asked for, and none is taken twice (docs/Thread.md:208).       *)
THEOREM PermitsConservedHolds == Spec => []PermitsConserved
<1>1. Init => PermitsConserved
  <2> SUFFICES ASSUME Init, NEW s \in Semaphores
               PROVE  counter[s] = Permits - SumFunction([t \in Threads |-> Share(t, s)])
    BY DEF PermitsConserved, Share
  <2> DEFINE f == [t \in Threads |-> Share(t, s)]
  <2>1. f \in [Threads -> Int] /\ \A t \in Threads : f[t] = 0
    BY DEF Init, Share, Got, Objects
  <2> HIDE DEF f
  <2>2. SumFunction(f) = 0
    BY <2>1, SumZero, SyncAssumption
  <2>3. QED
    BY <2>2, SyncAssumption DEF f, Init
<1>2. MutexInv /\ PermitsConserved /\ [Next]_vars => PermitsConserved'
  BY PermitsStep DEF MutexInv
<1>3. QED
  BY <1>1, <1>2, MutexInvHolds, PTL DEF Spec

=============================================================================
