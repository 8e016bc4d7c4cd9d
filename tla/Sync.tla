-------------------------------- MODULE Sync --------------------------------
(***************************************************************************)
(* The synchronisation objects of the thread library: locks, re-entrant    *)
(* locks, semaphores, monitors, and the wait of jointimed for a thread     *)
(* (ulibthrd.c, POSIX threads).  Every call locks the opaque object it is  *)
(* about (unc_verifyopaque) and unlocks it when it returns; what it does   *)
(* in between may wait for a mutex or on a condition.                      *)
(*                                                                         *)
(* Programs are those that keep to docs/Thread.md: who releases a lock or  *)
(* waits on a monitor has acquired it.                                     *)
(***************************************************************************)
EXTENDS Integers, FiniteSets, FiniteSetsExt

CONSTANTS
  Threads,   (* who calls                                                    *)
  Locks, RLocks, Semaphores, Monitors, Joined,  (* the objects; Joined are   *)
             (* thread objects that others wait for                          *)
  Over,      (* the lock of a monitor; the monitor itself when it was made   *)
             (* without one                                                  *)
  Permits,   (* what semaphores begin with                                   *)
  MaxCount,  (* of permits and of re-entrant locks                           *)
  MaxCalls,  (* how many calls a thread makes                                *)
  None,      (* no thread                                                    *)
  Features   (* "untimed": calls may wait without a limit; "new": programs   *)
             (* make monitors over locks                                     *)

Objects == Locks \cup RLocks \cup Semaphores \cup Monitors \cup Joined
Ops == {"acquire", "release", "wait", "notify", "notifyall", "jointimed", "new"}

(* An object is of one kind: unc_verifyopaque looks at its prototype.        *)
Kinds == <<Locks, RLocks, Semaphores, Monitors, Joined>>

ASSUME SyncAssumption ==
  /\ \A i, j \in 1..5 : i # j => Kinds[i] \cap Kinds[j] = {}
  /\ Over \in [Monitors -> Locks \cup RLocks \cup Monitors]
  /\ \A m \in Monitors : Over[m] \in Monitors => Over[m] = m
  /\ Permits \in Nat /\ MaxCount \in Nat \ {0} /\ MaxCalls \in Nat
  /\ IsFiniteSet(Threads) /\ None \notin Threads
  /\ Features \subseteq {"untimed", "new"}

VARIABLES
  opaque,    (* who has locked the object itself                             *)
  mutex,     (* owner and count of the mutex of every object                 *)
  counter,   (* of semaphores                                                *)
  waiting,   (* who waits on the condition and has not been notified         *)
  done,      (* how far the end of a thread object's thread is               *)
  made,      (* the monitors there are                                       *)
  pc, call,  (* where the thread is, and in which call                       *)
  held,      (* what the program has acquired and not released               *)
  left       (* how many calls the thread may still make                     *)

objects == <<opaque, mutex, counter, waiting, done, made>>
vars == <<objects, pc, call, held, left>>

(* The mutex that a call on an object is about.                              *)
Pm(o) == IF o \in Monitors THEN Over[o] ELSE o
Free == [owner |-> None, count |-> 0]
NoCall == [op |-> "notify", obj |-> None, n |-> 1, timed |-> FALSE,
           ok |-> TRUE]

Init ==
  /\ opaque = [o \in Objects |-> None]
  /\ mutex = [o \in Objects |-> Free]
  /\ counter = [s \in Semaphores |-> Permits]
  /\ waiting = [o \in Objects |-> {}]
  /\ done = [o \in Joined |-> "running"]
  /\ made = {m \in Monitors : Over[m] = m}
  /\ pc = [t \in Threads |-> "run"]
  /\ call = [t \in Threads |-> NoCall]
  /\ held = [t \in Threads |-> [o \in Objects |-> 0]]
  /\ left = [t \in Threads |-> MaxCalls]

Op(t) == call[t].op
Obj(t) == call[t].obj
Goto(t, from, to) == pc[t] = from /\ pc' = [pc EXCEPT ![t] = to]
Outcome(t, ok) == call' = [call EXCEPT ![t].ok = ok]

(* pthread_mutex_lock and _unlock: only that of a re-entrant lock is         *)
(* recursive.                                                                *)
Lockable(t, m) == mutex[m].owner \in {None} \cup (IF m \in RLocks THEN {t} ELSE {})
Take(t, m) ==
  mutex' = [mutex EXCEPT ![m] = [owner |-> t, count |-> @.count + 1]]
Give(m) ==
  mutex' = [mutex EXCEPT ![m] = IF @.count = 1 THEN Free
                                ELSE [owner |-> @.owner, count |-> @.count - 1]]

-----------------------------------------------------------------------------
(* The calls of programs.  What is to be released is not held any more.      *)

Acquires(t, o) ==
  \/ o \in Semaphores
  \/ o \notin Joined /\ held[t][Pm(o)] < (IF o \in RLocks THEN MaxCount ELSE 1)
Releases(t, o, n) ==
  IF o \in Semaphores THEN counter[o] + n <= MaxCount
  ELSE n = 1 /\ o \notin Joined /\ held[t][Pm(o)] > 0
Allowed(t, op, o, n) ==
  CASE op = "new"       -> /\ "new" \in Features /\ n = 1
                           /\ o \in Monitors \ made
    [] o \in Monitors \ made -> FALSE
    [] op = "acquire"   -> Acquires(t, o) /\ (n > 1 => o \in Semaphores)
    [] op = "release"   -> Releases(t, o, n)
    [] op = "wait"      -> o \in Monitors /\ held[t][Pm(o)] = 1 /\ n = 1
    [] op = "jointimed" -> o \in Joined /\ n = 1
    [] OTHER            -> o \in Monitors /\ n = 1

Call(t) ==
  /\ left[t] > 0
  /\ Goto(t, "run", "verify")
  /\ \E op \in Ops, o \in Objects, timed \in BOOLEAN, n \in 1..2 :
       /\ Allowed(t, op, o, n)
       /\ op \in {"acquire", "wait"} /\ ~timed => "untimed" \in Features
       /\ op = "jointimed" => timed
       /\ timed => op \in {"acquire", "wait", "jointimed"}
       /\ call' = [call EXCEPT ![t] = [op |-> op, obj |-> o, n |-> n,
                                       timed |-> timed, ok |-> TRUE]]
       /\ held' = IF op \in {"release", "wait"}
                  THEN [held EXCEPT ![t][Pm(o)] = @ - n] ELSE held
  /\ left' = [left EXCEPT ![t] = @ - 1]
  /\ UNCHANGED objects

(* unc_verifyopaque locks the object: that of the lock when a monitor is     *)
(* made over it.                                                             *)
Verified(t) == IF Op(t) = "new" THEN Over[Obj(t)] ELSE Obj(t)
First(t) ==
  CASE Op(t) = "new"       -> "return"
    [] Op(t) = "acquire"   -> "lock"
    [] Op(t) = "release"   -> IF Obj(t) \in Semaphores THEN "lock" ELSE "unlock"
    [] Op(t) = "wait"      -> "suspend"
    [] Op(t) = "jointimed" -> IF done[Obj(t)] = "running" THEN "lock"
                              ELSE "return"
    [] OTHER               -> "signal"

Verify(t) ==
  /\ Goto(t, "verify", First(t))
  /\ opaque[Verified(t)] = None
  /\ opaque' = [opaque EXCEPT ![Verified(t)] = t]
  /\ UNCHANGED <<mutex, counter, waiting, done, made, call, held, left>>

Gets(t) == Op(t) = "wait" \/ (Op(t) = "acquire" /\ call[t].ok)

(* Mutant: a call that has failed does not unlock the object. *)
ReturnLocked(t) ==
  /\ Goto(t, "return", "run")
  /\ opaque' = IF call[t].ok THEN [opaque EXCEPT ![Obj(t)] = None] ELSE opaque
  /\ UNCHANGED made
  /\ held' = IF Gets(t)
             THEN [held EXCEPT ![t][Pm(Obj(t))] = @ + call[t].n] ELSE held
  /\ call' = [call EXCEPT ![t] = NoCall]
  /\ UNCHANGED <<mutex, counter, waiting, done, left>>

(* unc_unlock; a failed call throws, so the program knows what it holds.     *)
(* After wait the lock is held, notified or not.  monitor.new unlocks only   *)
(* the new monitor (ulibthrd.c:1449), and the lock stays as it is.           *)
Return(t) ==
  /\ Goto(t, "return", "run")
  /\ opaque' = IF Op(t) = "new" THEN opaque
               ELSE [opaque EXCEPT ![Obj(t)] = None]
  /\ made' = IF Op(t) = "new" THEN made \cup {Obj(t)} ELSE made
  /\ held' = IF Gets(t)
             THEN [held EXCEPT ![t][Pm(Obj(t))] = @ + call[t].n] ELSE held
  /\ call' = [call EXCEPT ![t] = NoCall]
  /\ UNCHANGED <<mutex, counter, waiting, done, left>>

-----------------------------------------------------------------------------
(* Mutexes.                                                                  *)

(* What a call goes on with when it has the mutex.                           *)
Inside(t) == IF Obj(t) \in Semaphores THEN "permits"
             ELSE IF Obj(t) \in Joined THEN "look" ELSE "return"

Lock(t) ==
  /\ Goto(t, "lock", Inside(t))
  /\ Lockable(t, Pm(Obj(t)))
  /\ Take(t, Pm(Obj(t)))
  /\ UNCHANGED <<opaque, counter, waiting, done, made, call, held, left>>

LockTimedOut(t) ==
  /\ Goto(t, "lock", "return")
  /\ call[t].timed
  /\ ~Lockable(t, Pm(Obj(t)))
  /\ Outcome(t, FALSE)
  /\ UNCHANGED <<opaque, mutex, counter, waiting, done, made, held, left>>

Unlock(t) ==
  /\ Goto(t, "unlock", "return")
  /\ Give(Pm(Obj(t)))
  /\ UNCHANGED <<opaque, counter, waiting, done, made, call, held, left>>

-----------------------------------------------------------------------------
(* Conditions.  pthread_cond_wait gives the mutex up and takes it again; it  *)
(* may return without a notification.                                        *)

Wait(t, from) ==
  /\ Goto(t, from, "waiting")
  /\ waiting' = [waiting EXCEPT ![Obj(t)] = @ \cup {t}]
  /\ Give(Pm(Obj(t)))

Suspend(t) ==
  /\ Wait(t, "suspend")
  /\ UNCHANGED <<opaque, counter, done, made, call, held, left>>

Resumes(t) ==
  /\ mutex[Pm(Obj(t))].owner = None
  /\ Take(t, Pm(Obj(t)))
  /\ waiting' = [waiting EXCEPT ![Obj(t)] = @ \ {t}]

Wake(t) ==
  /\ Goto(t, "waiting", Inside(t))
  /\ Resumes(t)
  /\ UNCHANGED <<opaque, counter, done, made, call, held, left>>

(* Mutant: a call that timed out leaves the mutex locked. *)
WaitTimedOutLocked(t) ==
  /\ call[t].timed
  /\ Goto(t, "waiting", "return")
  /\ Resumes(t)
  /\ Outcome(t, FALSE)
  /\ UNCHANGED <<opaque, counter, done, made, held, left>>

WaitTimedOut(t) ==
  /\ Goto(t, "waiting", IF Obj(t) \in Monitors THEN "return" ELSE "unlock")
  /\ call[t].timed
  /\ Resumes(t)
  /\ Outcome(t, FALSE)
  /\ UNCHANGED <<opaque, counter, done, made, held, left>>

(* notify wakes one thread, whatever its argument, notifyall all of them.    *)
Signal(t) ==
  /\ Goto(t, "signal", "return")
  /\ \/ Op(t) = "notifyall" /\ waiting' = [waiting EXCEPT ![Obj(t)] = {}]
     \/ /\ Op(t) = "notify"
        /\ \E u \in waiting[Obj(t)] :
             waiting' = [waiting EXCEPT ![Obj(t)] = @ \ {u}]
     \/ waiting[Obj(t)] = {} /\ UNCHANGED waiting
  /\ UNCHANGED <<opaque, mutex, counter, done, made, call, held, left>>

-----------------------------------------------------------------------------
(* Semaphores, with the mutex locked.                                        *)

(* Mutant: what there is is taken before the rest is waited for. *)
AcquirePermitsGreedy(t) ==
  LET s == Obj(t)
      n == Min({call[t].n, counter[s]})
  IN  /\ pc[t] = "permits"
      /\ Op(t) = "acquire"
      /\ counter' = [counter EXCEPT ![s] = @ - n]
      /\ IF n < call[t].n THEN Wait(t, "permits")
         ELSE Goto(t, "permits", "unlock") /\ UNCHANGED <<mutex, waiting>>
      /\ UNCHANGED <<opaque, done, made, call, held, left>>

(* Mutant: permits are taken without waiting for them. *)
AcquirePermitsAnyway(t) ==
  /\ Goto(t, "permits", "unlock")
  /\ Op(t) = "acquire"
  /\ counter' = [counter EXCEPT ![Obj(t)] = @ - call[t].n]
  /\ UNCHANGED <<opaque, mutex, waiting, done, made, call, held, left>>

AcquirePermits(t) ==
  /\ pc[t] = "permits"
  /\ Op(t) = "acquire"
  /\ IF counter[Obj(t)] < call[t].n
     THEN Wait(t, "permits") /\ UNCHANGED counter
     ELSE /\ Goto(t, "permits", "unlock")
          /\ counter' = [counter EXCEPT ![Obj(t)] = @ - call[t].n]
          /\ UNCHANGED <<mutex, waiting>>
  /\ UNCHANGED <<opaque, done, made, call, held, left>>

(* Woken, and the time is over.                                              *)
GiveUp(t) ==
  /\ \/ pc[t] = "permits" /\ Op(t) = "acquire" /\ counter[Obj(t)] < call[t].n
     \/ pc[t] = "look" /\ done[Obj(t)] = "running"
  /\ call[t].timed
  /\ Goto(t, pc[t], "unlock")
  /\ Outcome(t, FALSE)
  /\ UNCHANGED <<opaque, mutex, counter, waiting, done, made, held, left>>

ReleasePermits(t) ==
  /\ Goto(t, "permits", "unlock")
  /\ Op(t) = "release"
  /\ counter' = [counter EXCEPT ![Obj(t)] = @ + call[t].n]
  /\ waiting' = [waiting EXCEPT ![Obj(t)] = {}]
  /\ UNCHANGED <<opaque, mutex, done, made, call, held, left>>

-----------------------------------------------------------------------------
(* jointimed waits on the condition of the thread object; the thread that    *)
(* ends notifies without the mutex.                                          *)

Look(t) ==
  /\ pc[t] = "look"
  /\ IF done[Obj(t)] = "running" THEN Wait(t, "look")
     ELSE Goto(t, "look", "unlock") /\ UNCHANGED <<mutex, waiting>>
  /\ UNCHANGED <<opaque, counter, done, made, call, held, left>>

Ends(o) ==
  /\ done[o] = "running"
  /\ done' = [done EXCEPT ![o] = "done"]
  /\ UNCHANGED <<opaque, mutex, counter, waiting, made, pc, call, held, left>>

Tells(o) ==
  /\ done[o] = "done"
  /\ done' = [done EXCEPT ![o] = "told"]
  /\ waiting' = [waiting EXCEPT ![o] = {}]
  /\ UNCHANGED <<opaque, mutex, counter, made, pc, call, held, left>>

-----------------------------------------------------------------------------

Step(t) ==
  \/ Verify(t) \/ Return(t) \/ Lock(t) \/ Unlock(t) \/ Suspend(t)
  \/ Signal(t) \/ AcquirePermits(t) \/ ReleasePermits(t) \/ Look(t)
Woken(t) == Wake(t) \/ WaitTimedOut(t) \/ GiveUp(t) \/ LockTimedOut(t)

Next == \/ \E t \in Threads : Call(t) \/ Step(t) \/ Woken(t)
        \/ \E o \in Joined : Ends(o) \/ Tells(o)

Spec == Init /\ [][Next]_vars

(* Threads are scheduled, and times run out.                                 *)
FairSpec ==
  /\ Spec
  /\ \A t \in Threads :
       WF_vars(Step(t)) /\ WF_vars(WaitTimedOut(t) \/ GiveUp(t) \/ LockTimedOut(t))
  /\ \A o \in Joined : WF_vars(Tells(o))

-----------------------------------------------------------------------------
(* Properties.                                                               *)

Places == {"run", "verify", "lock", "unlock", "suspend", "waiting", "signal",
           "permits", "look", "return"}

Calls == [op : Ops, obj : Objects \cup {None}, n : 1..2, timed : BOOLEAN,
          ok : BOOLEAN]

TypeOK ==
  /\ opaque \in [Objects -> Threads \cup {None}]
  /\ mutex \in [Objects -> [owner : Threads \cup {None}, count : 0..MaxCount]]
  /\ counter \in [Semaphores -> Nat]
  /\ waiting \in [Objects -> SUBSET Threads]
  /\ done \in [Joined -> {"running", "done", "told"}]
  /\ made \subseteq Monitors
  /\ pc \in [Threads -> Places]
  /\ call \in [Threads -> Calls]
  /\ held \in [Threads -> [Objects -> Int]]
  /\ left \in [Threads -> 0..MaxCalls]

(* A thread that is in no call has locked the mutexes of what it has         *)
(* acquired, as often as it has acquired them, and nothing else: no path out *)
(* of a call forgets to unlock, and no exception leaves a lock behind        *)
(* (docs/Thread.md:135).                                                     *)
HoldsExactly ==
  \A t \in Threads : pc[t] = "run" =>
    /\ \A o \in Objects : opaque[o] # t
    /\ \A o \in Objects \ Semaphores :
         IF held[t][o] = 0 THEN mutex[o].owner # t
         ELSE mutex[o] = [owner |-> t, count |-> held[t][o]]

(* All of the permits a call asks for are acquired or none, and none is lost *)
(* or made up, timeouts included (docs/Thread.md:208).                       *)
Got(t, s) == IF Op(t) = "acquire" /\ Obj(t) = s /\ call[t].ok
                /\ pc[t] \in {"unlock", "return"} THEN call[t].n
             ELSE IF Op(t) = "release" /\ Obj(t) = s
                     /\ pc[t] \in {"verify", "lock", "permits"} THEN call[t].n
             ELSE 0
PermitsConserved ==
  \A s \in Semaphores :
    counter[s] = Permits - SumFunction([t \in Threads |-> held[t][s] + Got(t, s)])

(* Calls return, unless somebody waits without a limit, or has to have the   *)
(* lock of a monitor back: a call whose waits are limited gives back all     *)
(* that others wait for (ulibthrd.c:764).                                    *)
Unlimited(u) ==
  \/ /\ pc[u] \in {"lock", "waiting"}
     /\ Op(u) \in {"acquire", "wait"}
     /\ ~call[u].timed
  \/ /\ pc[u] = "waiting" /\ Op(u) = "wait"
     /\ mutex[Pm(Obj(u))].owner # None
CallsEnd ==
  \A t \in Threads :
    pc[t] # "run" ~> pc[t] = "run" \/ \E u \in Threads : Unlimited(u)

(* docs/Thread.md:146: release unlocks the lock, so it has no reason to      *)
(* wait for ever.                                                            *)
ReleaseReturns ==
  \A t \in Threads : (pc[t] # "run" /\ Op(t) = "release") ~> pc[t] = "run"

-----------------------------------------------------------------------------
(* The inductive invariant behind HoldsExactly and PermitsConserved.         *)

(* What calls go through.                                                    *)
Stages(op, o) ==
  CASE op = "new"       -> {"verify", "return"}
    [] op = "acquire"   -> IF o \in Semaphores
                           THEN {"verify", "lock", "permits", "waiting",
                                 "unlock", "return"}
                           ELSE {"verify", "lock", "return"}
    [] op = "release"   -> IF o \in Semaphores
                           THEN {"verify", "lock", "permits", "unlock", "return"}
                           ELSE {"verify", "unlock", "return"}
    [] op = "wait"      -> {"verify", "suspend", "waiting", "return"}
    [] op = "jointimed" -> {"verify", "lock", "look", "waiting", "unlock",
                            "return"}
    [] OTHER            -> {"verify", "signal", "return"}

(* A call fails only where it may time out, and then only unlocks.           *)
Shaped(t) ==
  pc[t] # "run" =>
    /\ Obj(t) \in Objects
    /\ pc[t] \in Stages(Op(t), Obj(t))
    /\ Op(t) \in {"wait", "notify", "notifyall", "new"} => Obj(t) \in Monitors
    /\ Op(t) = "jointimed" <=> Obj(t) \in Joined
    /\ call[t].n # 1 => Obj(t) \in Semaphores
    /\ Op(t) = "release" => ~call[t].timed
    /\ call[t].ok \/ (pc[t] \in {"unlock", "return"} /\ call[t].timed)
InCall == \A t \in Threads : Shaped(t)

(* How often a thread has locked a mutex: what it holds, and what its call   *)
(* has locked besides or has not unlocked yet.                               *)
Inner(t) ==
  IF \/ pc[t] \in {"permits", "look", "suspend", "unlock"}
     \/ pc[t] = "verify" /\ Op(t) \in {"release", "wait"} /\ Obj(t) \notin Semaphores
     \/ pc[t] = "return" /\ Gets(t) /\ Obj(t) \notin Semaphores
  THEN 1 ELSE 0
Owed(t, m) ==
  (IF m \in Semaphores THEN 0 ELSE held[t][m]) +
  (IF pc[t] # "run" /\ m = Pm(Obj(t)) THEN Inner(t) ELSE 0)

MutexesMatch ==
  \A m \in Objects :
    /\ mutex[m].owner = None => mutex[m].count = 0
    /\ \A t \in Threads :
         IF Owed(t, m) = 0 THEN mutex[m].owner # t
         ELSE mutex[m] = [owner |-> t, count |-> Owed(t, m)]

(* What a thread may hold.                                                   *)
Bounded(t) ==
  /\ \A m \in Objects \ Semaphores : held[t][m] \in Nat
  /\ \A m \in Joined : held[t][m] = 0
  /\ \A m \in Objects : Owed(t, m) <= MaxCount
  /\ pc[t] # "run" /\ Obj(t) \notin Semaphores =>
       /\ Op(t) = "wait" => held[t][Pm(Obj(t))] = 0
       /\ pc[t] \in {"verify", "lock"} /\ Op(t) = "acquire" =>
            held[t][Pm(Obj(t))] < MaxCount
HeldBounded == \A t \in Threads : Bounded(t)

(* Nobody but the caller unlocks an object, and only monitor.new leaves one  *)
(* locked.                                                                   *)
OpaqueMatches ==
  \A t \in Threads, o \in Objects :
    opaque[o] = t <=> pc[t] \notin {"run", "verify"} /\ Obj(t) = o

SyncInv == TypeOK /\ InCall /\ HeldBounded /\ MutexesMatch /\ PermitsConserved
=============================================================================
