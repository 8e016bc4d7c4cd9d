------------------------------ MODULE ViewList ------------------------------
(***************************************************************************)
(* The views of one Uncil world and the threads that drive them: how views *)
(* get their IDs and enter the list, how threads start, end and are        *)
(* joined, and how the world ends (uview.c; unc_dup and unc_destroy of     *)
(* uimpl.c; the thread objects of ulibthrd.c).                             *)
(*                                                                         *)
(* A thread is named by the view it drives; a view made by unc_dup is      *)
(* driven by nobody and destroyed by any thread that runs.  A view, and    *)
(* the thread object that belongs to it, is used once: memory that is      *)
(* given out again is the matter of Heap.  Pausing is that of Pause.       *)
(***************************************************************************)
EXTENDS Integers, SequencesExt

CONSTANTS
  Views,    (* the views that may be made                                    *)
  Threads,  (* those that belong to a thread object                          *)
  Main,     (* the first view                                                *)
  None,     (* no view                                                       *)
  MaxHeld,  (* how deep viewlist_lock stays locked, and how many references  *)
            (* to the world are left, after views that could not be made     *)
  Features  (* what programs do, a subset of AllFeatures                     *)

AllFeatures ==
  { "daemon",   (* threads may be daemons                                    *)
    "drop" }    (* programs forget thread objects                            *)

ASSUME ViewListAssumption ==
  /\ IsFiniteSet(Views)
  /\ Threads \subseteq Views
  /\ Main \in Views \ Threads
  /\ None \notin Views
  /\ MaxHeld \in Nat
  /\ Features \subseteq AllFeatures

VARIABLES
  list,   (* the chain from Unc_World.view                                   *)
  world,  (* vnid, viewc, refs and finalize of Unc_World; freed              *)
  lock,   (* viewlist_lock, a recursive mutex                                *)
  view,   (* vid and vtype of every view                                     *)
  obj,    (* the thread object of every view                                 *)
  pc,     (* where the thread is                                             *)
  arg     (* what it works on: target, the views left, a value it has read   *)

vars == <<list, world, lock, view, obj, pc, arg>>

Free == [owner |-> None, count |-> 0]
Idle == [target |-> None, left |-> <<>>, read |-> 0]

(* run and done are f_run and f_done; me: the view refers to the object;     *)
(* held: the program does; owner: of the object's lock; joined: the thread's *)
(* ID has been given up by a pthread_join.                                   *)
NoObject == [run |-> FALSE, done |-> FALSE, detach |-> FALSE, me |-> FALSE,
             held |-> FALSE, owner |-> None, joined |-> FALSE]

Init ==
  /\ list  = <<Main>>
  /\ world = [vnid |-> 1, viewc |-> 1, refs |-> 1, finalize |-> 0,
              freed |-> FALSE]
  /\ lock  = Free
  /\ view  = [v \in Views |-> [vid |-> 0, vtype |-> "normal"]]
  /\ obj   = [v \in Views |-> NoObject]
  /\ pc    = [v \in Views |-> IF v = Main THEN "run" ELSE "none"]
  /\ arg   = [v \in Views |-> Idle]

Lockable(a) == lock.owner \in {None, a}
Locked(a) == [owner |-> a, count |-> lock.count + 1]
Unlocked(a) == IF lock.owner # a THEN lock
               ELSE IF lock.count = 1 THEN Free
               ELSE [owner |-> a, count |-> lock.count - 1]

Goto(a, from, to) == pc[a] = from /\ pc' = [pc EXCEPT ![a] = to]
Target(a) == arg[a].target
Aim(a, v) == arg' = [arg EXCEPT ![a].target = v]

-----------------------------------------------------------------------------
(* unc0_newview, called with viewlist_lock held.                             *)

Vid(v) == view[v].vid
Referred(type) == IF type = "normal" THEN 1 ELSE 0
(* The loop over the list from its last view: the first view above a gap.    *)
AboveGap == {i \in 1..Len(list) : Vid(list[i]) # Len(list) - i}

(* Mutant: a gap is looked for from the first view. *)
InsertFirst(v, type) ==
  LET i == CHOOSE i \in AboveGap : \A j \in AboveGap : j >= i
  IN  /\ AboveGap # {}
      /\ list' = InsertAt(list, i + 1, v)
      /\ view' = [view EXCEPT ![v] = [vid |-> Len(list) - i, vtype |-> type]]
      /\ world' = [world EXCEPT !.viewc = @ + 1,
                                !.refs = @ + Referred(type)]

(* An ID is reused when there are fewer views than IDs.                      *)
Insert(v, type) ==
  LET i == CHOOSE i \in AboveGap : \A j \in AboveGap : j <= i
  IN  /\ AboveGap # {}
      /\ list' = InsertAt(list, i + 1, v)
      /\ view' = [view EXCEPT ![v] = [vid |-> Len(list) - i, vtype |-> type]]
      /\ world' = [world EXCEPT !.viewc = @ + 1,
                                !.refs = @ + Referred(type)]

(* Mutant: only the first main view holds a reference to the world. *)
PrependUnreferred(v, type) ==
  /\ list' = <<v>> \o list
  /\ view' = [view EXCEPT ![v] = [vid |-> world.vnid, vtype |-> type]]
  /\ world' = [world EXCEPT !.viewc = @ + 1, !.vnid = @ + 1]

(* The next ID, at the head of the list.                                     *)
Prepend(v, type) ==
  /\ list' = <<v>> \o list
  /\ view' = [view EXCEPT ![v] = [vid |-> world.vnid, vtype |-> type]]
  /\ world' = [world EXCEPT !.viewc = @ + 1, !.vnid = @ + 1,
                                !.refs = @ + Referred(type)]

(* Thread objects are made with their view; unc_dup makes just a view.  The  *)
(* caller locks the list as well, and unlocks it once.                       *)
NewView(a) ==
  /\ pc[a] = "run"
  /\ Lockable(a)
  /\ world.finalize = 0
  /\ \E v \in Views, type \in {"normal", "sub", "daemon"} :
       /\ pc[v] = "none"
       /\ type = "normal" <=> v \notin Threads
       /\ type = "daemon" => "daemon" \in Features
       /\ IF world.vnid = world.viewc THEN Prepend(v, type) /\ UNCHANGED lock
          ELSE IF AboveGap # {} THEN Insert(v, type) /\ UNCHANGED lock
          ELSE /\ lock.count < MaxHeld /\ world.refs < MaxHeld
               /\ lock' = Locked(a)        (* fail5, which does not unlock   *)
               /\ UNCHANGED <<list, view>>
               /\ world' = [world EXCEPT !.refs = @ + Referred(type)]
       /\ IF list' # list
          THEN /\ pc' = [pc EXCEPT ![v] = "made"]
               /\ obj' = [obj EXCEPT ![v].held = v \in Threads]
          ELSE UNCHANGED <<pc, obj>>
  /\ UNCHANGED arg

-----------------------------------------------------------------------------
(* Threads.                                                                  *)

ObjFree(v) == obj[v].owner = None

(* uncl_thread_thread_start, with the object locked: the thread begins, and  *)
(* only then does its view refer to the object.                              *)
Start(a) ==
  /\ \E v \in Views :
       /\ pc[v] = "made"
       /\ v \in Threads
       /\ obj[v].held
       /\ ObjFree(v)
       /\ obj' = [obj EXCEPT ![v].owner = a, ![v].run = TRUE]
       /\ Aim(a, v)
       /\ pc[a] = "run"
       /\ pc' = [pc EXCEPT ![a] = "starting", ![v] = "begin"]
  /\ UNCHANGED <<list, world, lock, view>>

Started(a) ==
  /\ Goto(a, "starting", "run")
  /\ obj' = [obj EXCEPT ![Target(a)].me = TRUE, ![Target(a)].owner = None]
  /\ Aim(a, None)
  /\ UNCHANGED <<list, world, lock, view>>

(* unc0_subthread waits for the object's lock; a world that finishes turns   *)
(* the call into an error.                                                   *)
Begin(v) ==
  /\ ObjFree(v)
  /\ Goto(v, "begin", IF world.finalize = 0 THEN "run" ELSE "ended")
  /\ UNCHANGED <<list, world, lock, view, obj, arg>>

(* The call returns; only threads do that here, the main view exits.         *)
End(v) ==
  /\ v \in Threads
  /\ Goto(v, "run", "ended")
  /\ UNCHANGED <<list, world, lock, view, obj, arg>>

Done(v) ==
  /\ Goto(v, "ended", "finished")
  /\ obj' = [obj EXCEPT ![v].done = TRUE]
  /\ UNCHANGED <<list, world, lock, view, arg>>

(* The object is locked while the view is destroyed.                         *)
Finished(v) ==
  /\ ObjFree(v)
  /\ Goto(v, "finished", "destroy")
  /\ obj' = [obj EXCEPT ![v].owner = v]
  /\ Aim(v, v)
  /\ UNCHANGED <<list, world, lock, view>>

Released(v) ==
  /\ Goto(v, "release", "dead")
  /\ obj' = [obj EXCEPT ![v].owner = None]
  /\ UNCHANGED <<list, world, lock, view, arg>>

(* uncl_thread_thread_join: no wait for a thread that is done.               *)
Join(a) ==
  /\ \E v \in Views \ {a} :
       /\ obj[v].held /\ obj[v].run /\ ~obj[v].done
       /\ ObjFree(v)
       /\ Goto(a, "run", "joining")
       /\ Aim(a, v)
  /\ UNCHANGED <<list, world, lock, view, obj>>

Joined(a) ==
  /\ Goto(a, "joining", "run")
  /\ pc[Target(a)] = "dead"
  /\ obj' = [obj EXCEPT ![Target(a)].joined = TRUE]
  /\ Aim(a, None)
  /\ UNCHANGED <<list, world, lock, view>>

(* The last reference of the program to a thread object.  The object of a    *)
(* thread that never started takes the view with it.                         *)
Drop(a) ==
  /\ "drop" \in Features
  /\ \E v \in Views \ {a} :
       /\ obj[v].held
       /\ obj' = [obj EXCEPT ![v].held = FALSE, ![v].detach = ~obj[v].me]
       /\ \/ /\ obj[v].me
             /\ pc[a] = "run"
             /\ UNCHANGED <<pc, arg>>
          \/ /\ pc[v] = "made"
             /\ Goto(a, "run", "destroy")
             /\ Aim(a, v)
  /\ UNCHANGED <<list, world, lock, view>>

-----------------------------------------------------------------------------
(* unc_destroy and unc0_freeview.                                            *)

(* The main view exits, or a view made by unc_dup is given up.               *)
Exit(a) ==
  /\ \/ a = Main /\ Goto(a, "run", "destroy") /\ Aim(a, a)
     \/ \E v \in Views :
          /\ v \notin Threads /\ pc[v] = "made"
          /\ pc[a] = "run"
          /\ pc' = [pc EXCEPT ![a] = "destroy", ![v] = "given up"]
          /\ Aim(a, v)
  /\ UNCHANGED <<list, world, lock, view, obj>>

(* Where unc_destroy returns to.                                             *)
Home(a) == IF Target(a) # a THEN "run" ELSE IF a = Main THEN "dead"
           ELSE "release"

Destroy(a) ==
  /\ IF world.finalize = 1
     THEN /\ Goto(a, "destroy", Home(a))
          /\ view' = [view EXCEPT ![Target(a)].vtype = "finalized"]
     ELSE /\ Goto(a, "destroy", "free")
          /\ UNCHANGED view
  /\ UNCHANGED <<list, world, lock, obj, arg>>

(* Mutant: the list is not locked. *)
FreeUnlocked(a) ==
  /\ Goto(a, "free", "unlist")
  /\ UNCHANGED <<list, world, lock, view, obj, arg>>

FreeLock(a) ==
  /\ Lockable(a)
  /\ Goto(a, "free", "unlist")
  /\ lock' = Locked(a)
  /\ UNCHANGED <<list, world, view, obj, arg>>

(* The view's reference to its object may be the last one: the destructor    *)
(* locks the object.                                                         *)
Unthread(o, v) == [o EXCEPT ![v].me = FALSE, ![v].detach = @ \/ ~obj[v].held]
MayUnthread(v) == obj[v].me /\ ~obj[v].held => ObjFree(v)

(* Its neighbours in the list are linked to each other.                      *)
Without(v) == RemoveAt(list, CHOOSE i \in 1..Len(list) : list[i] = v)

Unlist(a) ==
  LET v == Target(a)
      refs == world.refs - Referred(view[v].vtype)
      last == view[v].vtype = "normal" /\ refs = 0
  IN  /\ Goto(a, "unlist", IF last /\ world.finalize = 0 THEN "wait"
                           ELSE "count")
      /\ MayUnthread(v)
      /\ obj' = Unthread(obj, v)
      /\ list' = Without(v)
      /\ world' = [world EXCEPT !.refs = refs,
                                !.finalize = IF last /\ @ = 0 THEN 1 ELSE @]
      /\ arg' = [arg EXCEPT ![a].left = list']
      /\ UNCHANGED <<lock, view>>

(* unc0_waitsubviews, first loop: the thread of a subview is joined when the *)
(* view refers to it; else the loop spins until the view is finalized.       *)
Waiting(a) == pc[a] = "wait" /\ arg[a].left # <<>>
Next1(a) == arg' = [arg EXCEPT ![a].left = Tail(@)]

WaitOther(a) ==
  /\ Waiting(a)
  /\ view[Head(arg[a].left)].vtype # "sub"
  /\ Next1(a)
  /\ UNCHANGED <<list, world, lock, view, obj, pc>>

(* Mutant: a thread is waited for only if it has begun to run. *)
WaitLookRunning(a) ==
  LET v == Head(arg[a].left)
  IN  /\ Waiting(a)
      /\ view[v].vtype = "sub"
      /\ IF obj[v].me
         THEN Goto(a, "wait", "waitjoin") /\ UNCHANGED arg
         ELSE Next1(a) /\ UNCHANGED pc
      /\ UNCHANGED <<list, world, lock, view, obj>>

WaitLook(a) ==
  LET v == Head(arg[a].left)
  IN  /\ Waiting(a)
      /\ view[v].vtype = "sub"
      /\ Goto(a, "wait", IF obj[v].me THEN "waitjoin" ELSE "spin")
      /\ UNCHANGED <<list, world, lock, view, obj, arg>>

(* A thread that has been joined already cannot be joined; it is tried again *)
(* for ever.                                                                 *)
WaitJoin(a) ==
  LET v == Head(arg[a].left)
  IN  /\ Goto(a, "waitjoin", "wait")
      /\ pc[v] = "dead"
      /\ ~obj[v].joined
      /\ obj' = [obj EXCEPT ![v].joined = TRUE]
      /\ Next1(a)
      /\ UNCHANGED <<list, world, lock, view>>

WaitSpin(a) ==
  /\ Goto(a, "spin", "wait")
  /\ view[Head(arg[a].left)].vtype = "finalized"
  /\ Next1(a)
  /\ UNCHANGED <<list, world, lock, view, obj>>

WaitEnd(a) ==
  /\ arg[a].left = <<>>
  /\ Goto(a, "wait", "halt")
  /\ world' = [world EXCEPT !.finalize = 2]
  /\ arg' = [arg EXCEPT ![a].left = list]
  /\ UNCHANGED <<list, lock, view, obj>>

(* The second loop halts the views that are left and frees the finalized.    *)
HaltOrFree(a) ==
  LET v == Head(arg[a].left)
  IN  /\ pc[a] = "halt"
      /\ arg[a].left # <<>>
      /\ IF view[v].vtype # "finalized"
         THEN UNCHANGED <<list, world, obj>>
         ELSE /\ MayUnthread(v)
              /\ obj' = Unthread(obj, v)
              /\ list' = Without(v)
              /\ world' = [world EXCEPT !.viewc = @ - 1]
      /\ Next1(a)
      /\ UNCHANGED <<lock, view, pc>>

(* It unlocks the list that unc0_freeview goes on to use.                    *)
HaltEnd(a) ==
  /\ arg[a].left = <<>>
  /\ Goto(a, "halt", "count")
  /\ lock' = Unlocked(a)
  /\ UNCHANGED <<list, world, view, obj, arg>>

(* --viewc, not one step where the list is not locked any more.              *)
Count(a) ==
  /\ Goto(a, "count", "store")
  /\ arg' = [arg EXCEPT ![a].read = world.viewc - 1, ![a].left = <<>>]
  /\ UNCHANGED <<list, world, lock, view, obj>>

CountStore(a) ==
  /\ Goto(a, "store", "unlock")
  /\ world' = [world EXCEPT !.viewc = arg[a].read]
  /\ UNCHANGED <<list, lock, view, obj, arg>>

FreeUnlock(a) ==
  /\ Goto(a, "unlock", IF arg[a].read > 0 THEN Home(a) ELSE "scuttle")
  /\ lock' = Unlocked(a)
  /\ arg' = [arg EXCEPT ![a].read = 0]
  /\ UNCHANGED <<list, world, view, obj>>

(* unc0_scuttle: the last view is gone, the world is freed.                  *)
Scuttle(a) ==
  /\ Goto(a, "scuttle", Home(a))
  /\ world' = [world EXCEPT !.freed = TRUE]
  /\ UNCHANGED <<list, lock, view, obj, arg>>

-----------------------------------------------------------------------------

Program(a) == NewView(a) \/ Start(a) \/ Join(a) \/ Drop(a) \/ Exit(a)
Thread(a)  == Started(a) \/ Begin(a) \/ Done(a) \/ Finished(a) \/ Released(a)
                \/ Joined(a)
Freeing(a) == Destroy(a) \/ FreeLock(a) \/ Unlist(a) \/ Count(a)
                \/ CountStore(a) \/ FreeUnlock(a) \/ Scuttle(a)
Waits(a)   == WaitOther(a) \/ WaitLook(a) \/ WaitJoin(a) \/ WaitSpin(a)
                \/ WaitEnd(a) \/ HaltOrFree(a) \/ HaltEnd(a)

Next == \E a \in Views :
          Program(a) \/ End(a) \/ Thread(a) \/ Freeing(a) \/ Waits(a)

Spec == Init /\ [][Next]_vars

(* Threads are scheduled, and what they call returns.                        *)
FairSpec ==
  Spec /\ \A a \in Views : WF_vars(End(a) \/ Thread(a) \/ Freeing(a) \/ Waits(a))

-----------------------------------------------------------------------------
(* Properties.                                                               *)

Places == {"none", "made", "given up", "begin", "run", "starting", "joining",
           "ended", "finished", "destroy", "free", "unlist", "wait",
           "waitjoin", "spin", "halt", "count", "store", "unlock", "scuttle",
           "release", "dead"}

TypeOK ==
  /\ list \in Seq(Views)
  /\ world \in [vnid : Nat, viewc : Nat, refs : Nat, finalize : 0..2,
                freed : BOOLEAN]
  /\ lock \in [owner : Views \cup {None}, count : Nat]
  /\ view \in [Views -> [vid : Nat,
                         vtype : {"normal", "sub", "daemon", "finalized"}]]
  /\ pc \in [Views -> Places]
  /\ \A v \in Views : /\ obj[v].owner \in Views \cup {None}
                       /\ arg[v].left \in Seq(Views)
                       /\ Target(v) \in Views \cup {None}

(* The list is sorted by ID, so no two views have the same: the collector    *)
(* tells by the ID whose C function has made a value (uview.c:198, uval.c:205). *)
IdsSorted ==
  \A i, j \in 1..Len(list) :
    /\ Vid(list[i]) < world.vnid
    /\ i < j => Vid(list[i]) > Vid(list[j])

(* viewc counts the views of the list, and those that have left it and have  *)
(* not been subtracted yet, as long as the list is locked for both           *)
(* (uview.c:304).                                                            *)
Leaving == {a \in Views : pc[a] \in {"wait", "waitjoin", "spin", "halt", "count",
                                     "store"}}
CountsViews ==
  world.finalize < 2 => world.viewc = Len(list) + Cardinality(Leaving)

(* The world is freed once, and not before the last view has left the list   *)
(* (uview.c:306, uview.c:319).                                               *)
FreedLast ==
  LET last == {a \in Views : pc[a] = "scuttle"}
  IN  /\ last # {} \/ world.freed => list = <<>>
      /\ Cardinality(last) <= (IF world.freed THEN 0 ELSE 1)

(* When the last main view has stopped waiting, no thread that is not a      *)
(* daemon executes Uncil code (docs/Thread.md:80).                           *)
WaitedFor ==
  world.finalize = 2 =>
    \A v \in Views : view[v].vtype = "sub" =>
      pc[v] \notin {"begin", "run", "starting", "joining"}

(* Without daemons, nobody uses the world after it has been freed            *)
(* (uview.c:305, uview.c:312).                                               *)
WorldUsed ==
  world.freed /\ (\A v \in Views : view[v].vtype # "daemon") =>
    \A a \in Views : pc[a] \in {"none", "made", "given up", "release", "dead"}

(* uview.c:217, NEVER_(): where there are fewer views than IDs, one that is  *)
(* free is found.                                                            *)
IdFound ==
  world.finalize = 0 /\ lock = Free /\ world.vnid # world.viewc => AboveGap # {}

(* docs/Thread.md:90: unc_destroy of the last main view waits for the        *)
(* threads that are not daemons, and returns when they have finished.        *)
ExitEnds == pc[Main] = "destroy" ~> pc[Main] = "dead"

(* For TLC: threads are interchangeable.                                     *)
Symmetry == Permutations(Threads)
=============================================================================
