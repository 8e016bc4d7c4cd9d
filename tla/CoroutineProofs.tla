--------------------------- MODULE CoroutineProofs ---------------------------
(***************************************************************************)
(* Proofs about Coroutine, for any number of threads and coroutines, of    *)
(* calls and of unc0_run within unc0_run, and for programs without the     *)
(* hazards that Features switches on: a runlock is held by the runs that   *)
(* are in the view; a coroutine that runs is waited for along one chain of *)
(* returnto; frames match what is executed; and, when the results of       *)
(* resume and yield are a list, what is passed is what is received.        *)
(***************************************************************************)
EXTENDS Coroutine, FiniteSetTheorems, SequenceTheorems, WellFoundedInduction,
        TLAPS

(* Programs with none of the hazards.                                        *)
Plain == Features \subseteq {"one"}

Entry == [orig : Views, cur : Views]
Frames == {"main", "native"}
Places == {"code", "query", "resume", "yield", "boing", "switch", "error",
           "exit", "finish", "relock", "native", "over"}

Typed ==
  /\ status \in [Coros -> {"none", "init", "run", "yield"} \cup Ended]
  /\ returnto \in [Coros -> Views \cup {NoOne}]
  /\ lock \in [Coros -> Threads \cup {NoOne}]
  /\ trampoline \in [Views -> Views \cup {NoOne}]
  /\ corotail \in [Views -> BOOLEAN]
  /\ runlock \in [Views -> Seq(Threads)]
  /\ sval \in [Views -> Seq(Values)]
  /\ frames \in [Views -> Seq(Frames)]
  /\ want \in [Views -> {"args", "list", "one", "tail"}]
  /\ runs \in [Threads -> Seq(Entry)]
  /\ at \in [Threads -> Places]
  /\ err \in [Threads -> BOOLEAN]
  /\ arg \in [Threads -> Views \cup {NoOne}]
  /\ how \in [Threads -> {"list", "one", "tail"}]
  /\ calls \in Nat
  /\ due \in [Views -> Seq(Values)]
  /\ heard \in [Threads -> [got : Seq(Values), due : Seq(Values)]]
  /\ lost \subseteq Coros /\ bare \subseteq Views

-----------------------------------------------------------------------------
(* The inductive invariant.                                                  *)

(* The view a thread executes or is on its way to.                           *)
Target(t) ==
  IF at[t] = "boing" THEN trampoline[Cur(t)]
  ELSE IF at[t] = "switch" THEN arg[t] ELSE Cur(t)

(* Where a thread executes C functions that have called back, and the view   *)
(* its last unc0_run is in, unless it has left that.                         *)
Earlier(t, v) == {i \in 1..(Len(runs[t]) - 1) : runs[t][i].cur = v}
Here(t, v) ==
  /\ at[t] \notin {"switch", "finish", "relock", "over"}
  /\ Cur(t) = v
Before(t, v) == Cardinality(Earlier(t, v))
Count(t, v) == Before(t, v) + (IF Here(t, v) THEN 1 ELSE 0)

(* The opaque object of a coroutine is locked by who looks at it.            *)
LocksHeld ==
  /\ \A c \in Coros : lock[c] # NoOne =>
       at[lock[c]] \in {"query", "resume"} /\ arg[lock[c]] = c
  /\ \A t \in Threads : at[t] \in {"query", "resume"} =>
       arg[t] \in Coros /\ lock[arg[t]] = t /\ status[arg[t]] # "none"

(* An unc0_run begins in the view the one around it is in.                   *)
RunsLinked ==
  \A t \in Threads :
    /\ runs[t] = <<>> <=> at[t] = "over"
    /\ Len(runs[t]) <= MaxRuns
    /\ runs[t] # <<>> => runs[t][1].orig = t
    /\ \A i \in 1..(Len(runs[t]) - 1) : runs[t][i].cur = runs[t][i + 1].orig

Trampolines ==
  \A v \in Views :
    trampoline[v] # NoOne <=> \E t \in Threads : at[t] = "boing" /\ Cur(t) = v

Errors ==
  \A t \in Threads :
    /\ at[t] = "error" => err[t]
    /\ at[t] \in {"code", "query", "resume", "yield", "boing", "switch"} => ~ err[t]

(* A view has one thread in it, which holds its runlock as often as it is    *)
(* in the view, or less if a switch has failed.                              *)
Alone(v) ==
  \A t, u \in Threads : Count(t, v) > 0 /\ Count(u, v) > 0 => t = u
LockCounts(v, t) ==
  /\ Lockable(v, t)
  /\ IF v \in bare THEN Len(runlock[v]) < Count(t, v)
     ELSE Len(runlock[v]) = Count(t, v)
RunlockedAt(v) ==
  /\ Alone(v)
  /\ \A t \in Threads : Count(t, v) > 0 => LockCounts(v, t)
  /\ (\A t \in Threads : Count(t, v) = 0) => runlock[v] = <<>> /\ v \notin bare
Runlocked == \A v \in Views : RunlockedAt(v)

(* The views that wait for a thread or are executed by it are owned by it,   *)
(* and have a depth: a thread's own view is at the bottom, and a coroutine   *)
(* is one above the view that has resumed it.  A coroutine is owned as long  *)
(* as it runs, or until it is lost.                                          *)
Mapped(own, depth) ==
  own \in [Views -> Threads \cup {NoOne}] /\ depth \in [Views -> Nat]
Owned(own) ==
  /\ \A t \in Threads : own[t] = t
  /\ \A c \in Coros : own[c] # NoOne <=> status[c] = "run" /\ c \notin lost
  /\ \A c \in lost : status[c] = "run"
Chained(own, depth) ==
  /\ \A t \in Threads : depth[t] = 0
  /\ \A c \in Coros : own[c] # NoOne =>
       /\ returnto[c] \in Views /\ own[returnto[c]] = own[c]
       /\ depth[c] = depth[returnto[c]] + 1
  /\ \A u, v \in Views :
       own[u] = own[v] /\ own[u] # NoOne /\ depth[u] = depth[v] => u = v

(* What a thread executes or goes to is on top.                              *)
Topmost(own, depth) ==
  \A t \in Threads :
    IF at[t] = "over" THEN \A c \in Coros : own[c] # t
    ELSE /\ Target(t) \in Views /\ own[Target(t)] = t
         /\ \A v \in Views : own[v] = t => depth[v] <= depth[Target(t)]

(* Every unc0_run began in a view of the chain, each above the last.         *)
Begun(own, depth) ==
  \A t \in Threads : \A i \in 1..Len(runs[t]) :
    /\ own[runs[t][i].orig] = t
    /\ depth[runs[t][i].orig] <= depth[Target(t)]
    /\ \A j \in 1..i : depth[runs[t][j].orig] <= depth[runs[t][i].orig]

(* A thread on its way goes up to what it has resumed, or has yielded: then  *)
(* it has no part in the view it leaves any more, which another thread may   *)
(* have resumed already.                                                     *)
Up(t) ==
  /\ Target(t) \in Coros \ bare /\ returnto[Target(t)] = Cur(t)
  /\ Earlier(t, Target(t)) = {}
  /\ how[t] = "tail" => runlock[Target(t)] = <<>>
  /\ at[t] = "switch" => corotail[Cur(t)] = (how[t] = "tail")
Entering(own, u, v) ==
  at[u] \in {"boing", "switch"} /\ Target(u) = v /\ own[Cur(u)] = u
Down(own, t) ==
  /\ Cur(t) \in Coros /\ how[t] # "tail" /\ ~ corotail[Target(t)]
  /\ at[t] = "boing" =>
       /\ status[Cur(t)] \in {"yield", "run"}
       /\ own[Cur(t)] # NoOne => Entering(own, own[Cur(t)], Cur(t))
Switching(own) ==
  \A t \in Threads : at[t] \in {"boing", "switch"} =>
    IF own[Cur(t)] = t THEN Up(t) ELSE Down(own, t)

(* A coroutine is left by the only unc0_run that is in it.                   *)
Leaving ==
  \A t \in Threads :
    /\ at[t] \in {"yield", "finish"} => Cur(t) \in Coros /\ Earlier(t, Cur(t)) = {}
    /\ at[t] = "yield" => how[t] # "tail" /\ ~ corotail[returnto[Cur(t)]]

(* A coroutine that can be resumed is locked, or can be entered.             *)
Resumable ==
  \A t \in Threads : at[t] = "resume" =>
    /\ status[arg[t]] = "yield" => arg[t] \notin bare
    /\ how[t] = "tail" /\ status[arg[t]] \in {"init", "yield"} => runlock[arg[t]] = <<>>

(* The frames of a view: one for every function called from C that it        *)
(* executes, with the C function that has called back before each but the    *)
(* first.  A tail call leaves none for the function that makes it.           *)
Alt(n) == [j \in 1..n |-> IF j % 2 = 1 THEN "main" ELSE "native"]
IsTail(b) == IF b THEN 1 ELSE 0
Cut(t, v) ==
  IF v = Cur(t)
  THEN IF at[t] \in {"exit", "finish"} THEN 1
       ELSE IF at[t] \in {"resume", "boing", "switch"} THEN IsTail(how[t] = "tail")
       ELSE IF at[t] = "relock" THEN IsTail(corotail[v])
       ELSE 0
  ELSE IF v = Target(t) THEN 0 ELSE IsTail(corotail[v])
Height(t, v) ==
  IF v = Cur(t) /\ at[t] = "native" THEN 2 * Before(t, v) + 2
  ELSE 2 * Before(t, v) + 1 - Cut(t, v)
Framed(own) ==
  /\ \A t \in Threads, v \in Views :
       own[v] = t /\ at[t] # "over" => frames[v] = Alt(Height(t, v))
  /\ \A c \in Coros :
       /\ status[c] = "yield" => frames[c] = Alt(1)
       /\ status[c] \in {"none", "init"} \cup Ended => frames[c] = <<>>

(* What is on the stack of a view: what it was passed when it is about to    *)
(* receive it, what it returns when it ends, and nothing otherwise.          *)
Arriving(t) == at[t] \in {"boing", "switch"} \/ (at[t] = "relock" /\ ~ err[t])
Ending(t) == at[t] \in {"exit", "finish"}
Stacked(t, v) ==
  /\ v = Target(t) /\ Arriving(t) =>
       IF want[v] = "args" THEN sval[v] = <<>> ELSE sval[v] = due[v]
  /\ v = Cur(t) /\ Ending(t) /\ ~ err[t] => sval[v] = due[v]
  /\ v = Target(t) /\ ~ Arriving(t) /\ ~ Ending(t) => sval[v] = <<>>
  /\ v = Cur(t) /\ at[t] = "relock" => want[v] # "args"
  /\ v # Target(t) => sval[v] = <<>> /\ want[v] # "args"
Valued(own) ==
  /\ \A v \in Views : want[v] # "one"
  /\ \A t \in Threads : how[t] # "one"
  /\ \A t \in Threads : heard[t].got = heard[t].due
  /\ \A c \in Coros :
       /\ status[c] = "yield" => sval[c] = <<>> /\ want[c] # "args"
       /\ status[c] \in {"none", "init"} => sval[c] = <<>> /\ want[c] = "args"
  /\ \A t \in Threads, v \in Views :
       own[v] = t /\ at[t] # "over" => Stacked(t, v)

State == Typed /\ LocksHeld /\ RunsLinked
Chain(own, depth) ==
  /\ Mapped(own, depth) /\ Owned(own) /\ Chained(own, depth)
  /\ Topmost(own, depth) /\ Begun(own, depth)
Paths(own, depth) ==
  /\ Chain(own, depth) /\ Switching(own) /\ Leaving /\ Resumable /\ Runlocked
Inv(own, depth) ==
  /\ Paths(own, depth) /\ Framed(own)
  /\ Features = {} => Errors /\ Valued(own)
IInv == State /\ Trampolines /\ \E own, depth : Inv(own, depth)

-----------------------------------------------------------------------------
(* What a step does to the sequence of unc0_run of a thread.                 *)

LEMMA ViewKinds ==
  /\ Threads \subseteq Views /\ Coros \subseteq Views
  /\ Threads \cap Coros = {} /\ NoOne \notin Views
  /\ \A v \in Views : v \in Threads \/ v \in Coros
BY CoroutineAssumption DEF Views

LEMMA InRuns ==
  ASSUME State, NEW t \in Threads, at[t] # "over"
  PROVE  /\ runs[t] \in Seq(Entry) /\ Len(runs[t]) \in Nat /\ Len(runs[t]) >= 1
         /\ runs[t] # <<>> /\ Cur(t) = runs[t][Len(runs[t])].cur
         /\ Orig(t) = runs[t][Len(runs[t])].orig
         /\ Cur(t) \in Views /\ Orig(t) \in Views /\ runs[t][1].orig = t
         /\ \A i \in 1..Len(runs[t]) :
              /\ runs[t][i] \in Entry
              /\ runs[t][i].orig \in Views /\ runs[t][i].cur \in Views
<1>1. runs[t] \in Seq(Entry) /\ runs[t] # <<>> /\ runs[t][1].orig = t
  BY DEF State, Typed, RunsLinked
<1>2. Len(runs[t]) \in Nat /\ Len(runs[t]) >= 1
  BY <1>1, EmptySeq
<1>3. \A i \in 1..Len(runs[t]) : runs[t][i] \in Entry
  BY <1>1
<1>4. Len(runs[t]) \in 1..Len(runs[t])
  BY <1>2
<1>5. QED
  BY <1>1, <1>2, <1>3, <1>4 DEF Cur, Orig, Last, Entry

LEMMA EarlierFinite ==
  ASSUME Typed, NEW t \in Threads, NEW v
  PROVE  /\ Len(runs[t]) \in Nat
         /\ IsFiniteSet(Earlier(t, v)) /\ Before(t, v) \in Nat
         /\ Before(t, v) = 0 <=> Earlier(t, v) = {}
         /\ Count(t, v) \in Nat
         /\ Count(t, v) > 0 <=> Earlier(t, v) # {} \/ Here(t, v)
<1>1. runs[t] \in Seq(Entry)
  BY DEF Typed
<1>2. Len(runs[t]) \in Nat /\ Len(runs[t]) - 1 \in Int
  BY <1>1
<1>3. IsFiniteSet(1..(Len(runs[t]) - 1))
  BY <1>2, FS_Interval
<1>4. Earlier(t, v) \subseteq 1..(Len(runs[t]) - 1)
  BY DEF Earlier
<1>5. IsFiniteSet(Earlier(t, v))
  BY <1>3, <1>4, FS_Subset
<1>6. Before(t, v) \in Nat
  BY <1>5, FS_CardinalityType DEF Before
<1>7. Before(t, v) = 0 <=> Earlier(t, v) = {}
  BY <1>5, FS_EmptySet DEF Before
<1>8. QED
  BY <1>2, <1>5, <1>6, <1>7 DEF Count

LEMMA Previous ==
  ASSUME NEW n \in Nat, n >= 1, n # 1
  PROVE  n - 1 \in 1..(n - 1) /\ 1 \in 1..(n - 1)
OBVIOUS

LEMMA SameRuns ==
  ASSUME NEW t \in Threads, runs'[t] = runs[t]
  PROVE  /\ Cur(t)' = Cur(t) /\ Orig(t)' = Orig(t)
         /\ \A v : Earlier(t, v)' = Earlier(t, v) /\ Before(t, v)' = Before(t, v)
<1>1. Cur(t)' = Cur(t) /\ Orig(t)' = Orig(t)
  BY DEF Cur, Orig
<1>2. \A v : Earlier(t, v)' = Earlier(t, v)
  BY DEF Earlier
<1>3. QED
  BY <1>1, <1>2 DEF Before

LEMMA IntoRuns ==
  ASSUME State, NEW t \in Threads, at[t] # "over", NEW v \in Views,
         runs' = Into(t, v)
  PROVE  /\ runs' \in [Threads -> Seq(Entry)]
         /\ \A u \in Threads \ {t} : runs'[u] = runs[u]
         /\ Len(runs'[t]) = Len(runs[t]) /\ runs'[t] # <<>>
         /\ Cur(t)' = v /\ Orig(t)' = Orig(t)
         /\ \A i \in 1..Len(runs[t]) : runs'[t][i].orig = runs[t][i].orig
         /\ \A i \in 1..(Len(runs[t]) - 1) : runs'[t][i] = runs[t][i]
         /\ \A x : Earlier(t, x)' = Earlier(t, x) /\ Before(t, x)' = Before(t, x)
<1> DEFINE n == Len(runs[t])
           s == [runs[t] EXCEPT ![n].cur = v]
<1>1. /\ runs[t] \in Seq(Entry) /\ n \in Nat /\ n >= 1 /\ runs[t][n] \in Entry
      /\ Orig(t) = runs[t][n].orig
  BY InRuns
<1>2. [runs[t][n] EXCEPT !.cur = v] \in Entry
  BY <1>1 DEF Entry
<1>3. /\ s \in Seq(Entry) /\ Len(s) = n
      /\ \A i \in 1..n : i # n => s[i] = runs[t][i]
      /\ s[n] = [runs[t][n] EXCEPT !.cur = v]
  BY <1>1, <1>2
<1>4. runs \in [Threads -> Seq(Entry)]
  BY DEF State, Typed
<1>5. runs' = [runs EXCEPT ![t] = s]
  BY DEF Into
<1>6. s[n].cur = v /\ s[n].orig = runs[t][n].orig
  BY <1>1, <1>3 DEF Entry
<1> HIDE DEF s
<1>7. runs'[t] = s /\ \A u \in Threads \ {t} : runs'[u] = runs[u]
  BY <1>4, <1>5
<1>8. s # <<>>
  BY <1>1, <1>3
<1>9. Cur(t)' = v /\ Orig(t)' = Orig(t)
  BY <1>1, <1>3, <1>6, <1>7 DEF Cur, Orig, Last
<1>10. ASSUME NEW x
       PROVE  Earlier(t, x)' = Earlier(t, x)
  <2>1. \A i \in 1..(n - 1) : s[i] = runs[t][i]
    BY <1>1, <1>3
  <2>2. QED
    BY <1>3, <1>7, <2>1 DEF Earlier
<1>11. \A i \in 1..n : s[i].orig = runs[t][i].orig
  BY <1>3, <1>6
<1>12. QED
  BY <1>1, <1>3, <1>4, <1>5, <1>7, <1>8, <1>9, <1>10, <1>11 DEF Before

(* unc0_run within unc0_run.                                                 *)
Deeper(t, w) == [runs EXCEPT ![t] = Append(@, Run(w))]
Shorter(t) == [runs EXCEPT ![t] = Front(@)]

LEMMA DeeperRuns ==
  ASSUME State, NEW t \in Threads, at[t] # "over", NEW w, w = Cur(t),
         runs' = Deeper(t, w)
  PROVE  /\ runs' \in [Threads -> Seq(Entry)]
         /\ \A u \in Threads \ {t} : runs'[u] = runs[u]
         /\ Len(runs'[t]) = Len(runs[t]) + 1 /\ runs'[t] # <<>>
         /\ Cur(t)' = w /\ Orig(t)' = w
         /\ \A i \in 1..Len(runs[t]) : runs'[t][i] = runs[t][i]
         /\ runs'[t][Len(runs[t]) + 1] = Run(w)
         /\ Before(t, w)' = Before(t, w) + 1
         /\ \A x : x # w =>
              Earlier(t, x)' = Earlier(t, x) /\ Before(t, x)' = Before(t, x)
<1> DEFINE n == Len(runs[t])
           s == Append(runs[t], Run(w))
<1>1. /\ runs[t] \in Seq(Entry) /\ n \in Nat /\ n >= 1
      /\ w = runs[t][n].cur /\ w \in Views
  BY InRuns
<1>2. Run(w) \in Entry
  BY <1>1 DEF Run, Entry
<1>3. /\ s \in Seq(Entry) /\ Len(s) = n + 1 /\ s[n + 1] = Run(w)
      /\ \A i \in 1..n : s[i] = runs[t][i]
  BY <1>1, <1>2, AppendProperties
<1>4. runs \in [Threads -> Seq(Entry)]
  BY DEF State, Typed
<1> HIDE DEF s
<1>5. runs'[t] = s /\ \A u \in Threads \ {t} : runs'[u] = runs[u]
  BY <1>4 DEF s, Deeper
<1>6. s # <<>>
  BY <1>1, <1>3
<1>7. Cur(t)' = w /\ Orig(t)' = w
  BY <1>3, <1>5 DEF Cur, Orig, Last, Run
<1>8. \A x : Earlier(t, x)' = Earlier(t, x) \cup (IF x = w THEN {n} ELSE {})
  <2>1. n = (n + 1) - 1 /\ 1..n = (1..(n - 1)) \cup {n}
    BY <1>1
  <2>2. QED
    BY <1>1, <1>3, <1>5, <2>1 DEF Earlier
<1>9. n \notin Earlier(t, w)
  BY <1>1 DEF Earlier
<1>10. Before(t, w)' = Before(t, w) + 1
  <2>1. IsFiniteSet(Earlier(t, w))
    BY EarlierFinite DEF State
  <2>2. Cardinality(Earlier(t, w) \cup {n}) = Cardinality(Earlier(t, w)) + 1
    BY <1>9, <2>1, FS_AddElement
  <2>3. QED
    BY <1>8, <2>2 DEF Before
<1>11. runs' \in [Threads -> Seq(Entry)]
  BY <1>3, <1>4 DEF s, Deeper
<1>12. \A x : x # w => Earlier(t, x)' = Earlier(t, x)
  BY <1>8
<1>13. QED
  BY <1>3, <1>5, <1>6, <1>7, <1>10, <1>11, <1>12 DEF Before

(* An unc0_run ends in the view it began with.                               *)
LEMMA ShorterRuns ==
  ASSUME State, NEW t \in Threads, at[t] # "over", NEW w, w = Cur(t),
         w = Orig(t),
         runs' = Shorter(t)
  PROVE  /\ runs' \in [Threads -> Seq(Entry)]
         /\ \A u \in Threads \ {t} : runs'[u] = runs[u]
         /\ Len(runs'[t]) = Len(runs[t]) - 1
         /\ \A i \in 1..(Len(runs[t]) - 1) : runs'[t][i] = runs[t][i]
         /\ Len(runs[t]) = 1 => runs'[t] = <<>>
         /\ Len(runs[t]) # 1 =>
              /\ runs'[t] # <<>> /\ Cur(t)' = w
              /\ Before(t, w) = Before(t, w)' + 1
         /\ Len(runs[t]) = 1 => \A x : Earlier(t, x) = {}
         /\ \A x : x # w \/ Len(runs[t]) = 1 =>
              Earlier(t, x)' = Earlier(t, x) /\ Before(t, x)' = Before(t, x)
<1> DEFINE n == Len(runs[t])
           s == Front(runs[t])
<1>1. /\ runs[t] \in Seq(Entry) /\ n \in Nat /\ n >= 1
      /\ Orig(t) = runs[t][n].orig
  BY InRuns
<1>2. /\ s \in Seq(Entry) /\ Len(s) = n - 1
      /\ \A i \in 1..(n - 1) : s[i] = runs[t][i]
  <2>1. s = SubSeq(runs[t], 1, n - 1)
    BY DEF Front
  <2>2. QED
    BY <1>1, <2>1, SubSeqProperties
<1>3. runs \in [Threads -> Seq(Entry)]
  BY DEF State, Typed
<1> HIDE DEF s
<1>4. runs'[t] = s /\ \A u \in Threads \ {t} : runs'[u] = runs[u]
  BY <1>3 DEF s, Shorter
<1>5. runs' \in [Threads -> Seq(Entry)]
  BY <1>2, <1>3 DEF s, Shorter
<1>6. n = 1 => s = <<>>
  BY <1>2, EmptySeq
<1>7. n # 1 => s # <<>> /\ n - 1 \in 1..(n - 1)
  <2>1. s = <<>> => Len(s) = 0
    BY <1>2, EmptySeq
  <2>2. n # 1 => n - 1 \in 1..(n - 1)
    BY <1>1, Previous
  <2>3. QED
    BY <1>1, <1>2, <2>1, <2>2
<1>8. n # 1 => runs[t][n - 1].cur = w
  <2>1. n # 1 => runs[t][n - 1].cur = runs[t][(n - 1) + 1].orig
    BY <1>7 DEF State, RunsLinked
  <2>2. QED
    BY <1>1, <2>1
<1>9. n # 1 => Cur(t)' = w
  BY <1>2, <1>4, <1>7, <1>8 DEF Cur, Last
<1>10. Earlier(t, w)' = Earlier(t, w) \ {n - 1}
  <2>1. Earlier(t, w)' = {i \in 1..((n - 1) - 1) : s[i].cur = w}
    BY <1>2, <1>4 DEF Earlier
  <2>2. 1..((n - 1) - 1) = (1..(n - 1)) \ {n - 1}
    BY <1>1
  <2>3. Earlier(t, w)' = {i \in 1..(n - 1) : s[i].cur = w} \ {n - 1}
    BY <2>1, <2>2
  <2>4. {i \in 1..(n - 1) : s[i].cur = w} = {i \in 1..(n - 1) : runs[t][i].cur = w}
    BY <1>2
  <2>5. QED
    BY <2>3, <2>4 DEF Earlier
<1>11. n # 1 => n - 1 \in Earlier(t, w)
  BY <1>7, <1>8 DEF Earlier
<1>12. n # 1 => Before(t, w) = Before(t, w)' + 1
  <2> SUFFICES ASSUME n # 1
               PROVE  Before(t, w) = Before(t, w)' + 1
    OBVIOUS
  <2>1. IsFiniteSet(Earlier(t, w)) /\ Before(t, w) \in Nat
    BY EarlierFinite DEF State
  <2>2. Cardinality(Earlier(t, w) \ {n - 1}) = Cardinality(Earlier(t, w)) - 1
    BY <1>11, <2>1, FS_RemoveElement
  <2>3. Before(t, w)' = Before(t, w) - 1
    BY <1>10, <2>2 DEF Before
  <2>4. QED
    BY <2>1, <2>3
<1>13. \A x : x # w \/ n = 1 => Earlier(t, x)' = Earlier(t, x)
  <2> SUFFICES ASSUME NEW x, x # w \/ n = 1
               PROVE  Earlier(t, x)' = Earlier(t, x)
    OBVIOUS
  <2>1. Earlier(t, x)' = Earlier(t, x) \ {n - 1}
    BY <1>1, <1>2, <1>4 DEF Earlier
  <2>2. n - 1 \notin Earlier(t, x)
    BY <1>1, <1>8 DEF Earlier
  <2>3. QED
    BY <2>1, <2>2
<1>14. n = 1 => \A x : Earlier(t, x) = {}
  BY DEF Earlier
<1>15. QED
  BY <1>1, <1>2, <1>4, <1>5, <1>6, <1>7, <1>9, <1>12, <1>13, <1>14 DEF Before

-----------------------------------------------------------------------------
(* What a step leaves to the other threads.                                  *)

LEMMA PlainFacts ==
  ASSUME Plain
  PROVE  /\ "tail" \notin Features /\ "callyield" \notin Features
         /\ "bare" \notin Features
         /\ \A t, h : Landed(t, h) = runs
         /\ Kinds \subseteq {"list", "one", "tail"}
         /\ Features = {} => Kinds = {"list", "tail"}
BY DEF Plain, Landed, Kinds

LEMMA Failing ==
  ASSUME Plain, Typed, NEW t \in Threads, NEW h, Fail(t, h)
  PROVE  /\ at' = [at EXCEPT ![t] = IF h = "tail" THEN "exit" ELSE "error"]
         /\ err' = [err EXCEPT ![t] = TRUE]
         /\ runs' = runs
<1>1. Landed(t, h) = runs
  BY PlainFacts
<1>2. QED
  BY <1>1 DEF Fail, Goto

LEMMA Others ==
  ASSUME Plain, Typed, NEW t \in Threads, Step(t),
         NEW u \in Threads, u # t
  PROVE  /\ at'[u] = at[u] /\ runs'[u] = runs[u] /\ arg'[u] = arg[u]
         /\ how'[u] = how[u] /\ err'[u] = err[u] /\ heard'[u] = heard[u]
<1> DEFINE Same == /\ at'[u] = at[u] /\ runs'[u] = runs[u] /\ arg'[u] = arg[u]
                   /\ how'[u] = how[u] /\ err'[u] = err[u] /\ heard'[u] = heard[u]
<1> USE DEF Typed
<1>1. \A l : Goto(t, l) => at'[u] = at[u]
  BY DEF Goto
<1>2. Hush(t) => heard'[u] = heard[u]
  BY DEF Hush
<1>3. \A h : Fail(t, h) => at'[u] = at[u] /\ err'[u] = err[u] /\ runs'[u] = runs[u]
  BY Failing
<1>4. \A v : Into(t, v)[u] = runs[u]
  BY DEF Into
<1>5. \A h : Landed(t, h) = runs
  BY PlainFacts
<1>6. ASSUME NEW c \in Coros, New(t, c) \/ Query(t, c)
      PROVE  Same
  BY <1>1, <1>2, <1>6 DEF New, Query, Calling, thread, view
<1>7. ASSUME NEW c \in Coros, NEW h \in Kinds, Resume(t, c, h)
      PROVE  Same
  BY <1>1, <1>2, <1>3, <1>7 DEF Resume, Calling
<1>8. ASSUME NEW h \in Kinds, Yield(t, h)
      PROVE  Same
  BY <1>1, <1>2, <1>3, <1>8 DEF Yield, Calling
<1>9. CASE Answer(t)
  BY <1>1, <1>9 DEF Answer
<1>10. CASE Resuming(t)
  <2>1. CASE Refuse(t)
    BY <1>3, <1>10, <2>1 DEF Resuming, Refuse
  <2>2. QED
    BY <1>1, <1>5, <1>10, <2>1 DEF Resuming
<1>11. CASE Yielding(t) \/ Boing(t)
  BY <1>1, <1>5, <1>11 DEF Yielding, Boing
<1>12. CASE Switch(t)
  <2>1. \A v : GoOn(t, v) => at'[u] = at[u] /\ heard'[u] = heard[u]
    BY <1>1 DEF GoOn
  <2>2. QED
    BY <1>1, <1>4, <1>12, <2>1 DEF Switch
<1>13. CASE CallBack(t)
  BY <1>2, <1>13 DEF CallBack, Calling
<1>14. CASE Raise(t) \/ Unwind(t) \/ Return(t)
  BY <1>1, <1>2, <1>3, <1>14 DEF Raise, Unwind, Return, Calling
<1>15. CASE Exit(t)
  BY <1>1, <1>15 DEF Exit
<1>16. CASE Finish(t)
  BY <1>1, <1>4, <1>16 DEF Finish
<1>17. CASE Relock(t)
  <2>1. \A v : GoOn(t, v) => at'[u] = at[u] /\ heard'[u] = heard[u]
    BY <1>1 DEF GoOn
  <2>2. QED
    BY <1>1, <1>17, <2>1 DEF Relock
<1>18. CASE Native(t)
  BY <1>1, <1>3, <1>18 DEF Native
<1>19. QED
  BY <1>6, <1>7, <1>8, <1>9, <1>10, <1>11, <1>12, <1>13, <1>14, <1>15, <1>16,
     <1>17, <1>18 DEF Step

LEMMA OthersRuns ==
  ASSUME Plain, Typed, NEW t \in Threads, Step(t),
         NEW u \in Threads, u # t
  PROVE  /\ at'[u] = at[u] /\ how'[u] = how[u]
         /\ runs'[u] = runs[u] /\ Cur(u)' = Cur(u) /\ Orig(u)' = Orig(u)
         /\ \A v : /\ Earlier(u, v)' = Earlier(u, v)
                   /\ Before(u, v)' = Before(u, v) /\ Count(u, v)' = Count(u, v)
<1>1. at'[u] = at[u] /\ how'[u] = how[u] /\ runs'[u] = runs[u]
  BY Others
<1>2. /\ Cur(u)' = Cur(u) /\ Orig(u)' = Orig(u)
      /\ \A v : Earlier(u, v)' = Earlier(u, v) /\ Before(u, v)' = Before(u, v)
  BY <1>1, SameRuns
<1>3. \A v : Count(u, v)' = Count(u, v)
  BY <1>1, <1>2 DEF Count, Here
<1>4. QED
  BY <1>1, <1>2, <1>3

(* A trampoline changes only when its view is left, by the thread in it.     *)
LEMMA TrampolineOf ==
  ASSUME Typed, NEW t \in Threads, Step(t),
         NEW v \in Views, trampoline'[v] # trampoline[v]
  PROVE  v = Cur(t) /\ at[t] \in {"resume", "yield", "boing"}
<1> USE DEF Typed
<1>1. ASSUME NEW c \in Coros, New(t, c) \/ Query(t, c)
      PROVE  FALSE
  BY <1>1 DEF New, Query, view
<1>2. ASSUME NEW c \in Coros, NEW h \in Kinds, Resume(t, c, h) \/ Yield(t, h)
      PROVE  FALSE
  BY <1>2 DEF Resume, Yield
<1>3. CASE Resuming(t)
  <2>1. CASE Refuse(t)
    BY <1>3, <2>1 DEF Resuming, Refuse, view
  <2>2. QED
    BY <1>3, <2>1 DEF Resuming, Begin
<1>4. CASE Yielding(t)
  BY <1>4 DEF Yielding
<1>5. CASE Boing(t)
  BY <1>5 DEF Boing
<1>6. CASE Answer(t) \/ Switch(t) \/ CallBack(t) \/ Raise(t) \/ Unwind(t)
  BY <1>6 DEF Answer, Switch, CallBack, Raise, Unwind, view
<1>7. CASE Return(t) \/ Exit(t) \/ Finish(t) \/ Relock(t) \/ Native(t)
  BY <1>7 DEF Return, Exit, Finish, Relock, Native
<1>8. ASSUME NEW h \in Kinds, Yield(t, h)
      PROVE  FALSE
  BY <1>8 DEF Yield
<1>9. QED
  BY <1>1, <1>2, <1>3, <1>4, <1>5, <1>6, <1>7, <1>8 DEF Step

LEMMA OthersTarget ==
  ASSUME Plain, State, Runlocked, NEW t \in Threads, Step(t),
         NEW u \in Threads, u # t
  PROVE  Target(u)' = Target(u)
<1>1. /\ at'[u] = at[u] /\ arg'[u] = arg[u] /\ Cur(u)' = Cur(u)
  BY Others, OthersRuns DEF State
<1>2. CASE at[u] = "boing"
  <2>1. Cur(u) \in Views
    BY <1>2, InRuns
  <2>2. CASE Cur(u) = Cur(t) /\ at[t] \in {"resume", "yield", "boing"}
    <3>1. Here(t, Cur(u)) /\ Here(u, Cur(u))
      BY <1>2, <2>2 DEF Here
    <3>2. Count(t, Cur(u)) > 0 /\ Count(u, Cur(u)) > 0
      BY <3>1, EarlierFinite DEF State
    <3>3. QED
      BY <2>1, <3>2 DEF Runlocked, RunlockedAt, Alone
  <2>3. CASE ~(Cur(u) = Cur(t) /\ at[t] \in {"resume", "yield", "boing"})
    <3>1. trampoline'[Cur(u)] = trampoline[Cur(u)]
      BY <2>1, <2>3, TrampolineOf DEF State
    <3>2. QED
      BY <1>1, <1>2, <3>1 DEF Target
  <2>4. QED
    BY <2>2, <2>3
<1>3. CASE at[u] # "boing"
  BY <1>1, <1>3 DEF Target
<1>4. QED
  BY <1>2, <1>3

-----------------------------------------------------------------------------
(* Who is in a view.                                                         *)

LEMMA NotBegun ==
  ASSUME State, NEW t \in Threads, NEW v \in Coros, Earlier(t, v) = {}
  PROVE  \A i \in 1..Len(runs[t]) : runs[t][i].orig # v
<1> SUFFICES ASSUME NEW i \in 1..Len(runs[t]), runs[t][i].orig = v
             PROVE  FALSE
  OBVIOUS
<1>1. Len(runs[t]) \in Nat
  BY EarlierFinite DEF State
<1>2. runs[t] # <<>>
  BY <1>1
<1>3. CASE i = 1
  BY <1>2, <1>3, ViewKinds DEF State, RunsLinked
<1>4. CASE i # 1
  <2>1. i - 1 \in 1..(Len(runs[t]) - 1) /\ (i - 1) + 1 = i
    BY <1>1, <1>4
  <2>2. runs[t][i - 1].cur = v
    BY <2>1 DEF State, RunsLinked
  <2>3. QED
    BY <2>1, <2>2 DEF Earlier
<1>5. QED
  BY <1>3, <1>4

LEMMA NotOver ==
  ASSUME State, NEW t \in Threads, NEW v, Count(t, v) > 0
  PROVE  at[t] # "over"
<1>1. Earlier(t, v) # {} \/ Here(t, v)
  BY EarlierFinite DEF State
<1>2. CASE Earlier(t, v) # {}
  <2>1. PICK i \in 1..(Len(runs[t]) - 1) : TRUE
    BY <1>2 DEF Earlier
  <2>2. runs[t] # <<>>
    BY <2>1
  <2>3. QED
    BY <2>2 DEF State, RunsLinked
<1>3. QED
  BY <1>1, <1>2 DEF Here

LEMMA EarlierOwned ==
  ASSUME State, NEW own, NEW depth, Chain(own, depth),
         NEW t \in Threads, NEW v \in Views, Earlier(t, v) # {}
  PROVE  /\ own[v] = t /\ at[t] # "over"
         /\ \E i \in 1..Len(runs[t]) : runs[t][i].orig = v
<1>1. PICK i \in 1..(Len(runs[t]) - 1) : runs[t][i].cur = v
  BY DEF Earlier
<1>2. Len(runs[t]) \in Nat
  BY EarlierFinite DEF State
<1>3. i + 1 \in 1..Len(runs[t]) /\ runs[t][i + 1].orig = v
  BY <1>1, <1>2 DEF State, RunsLinked
<1>4. own[v] = t
  BY <1>3 DEF Chain, Begun
<1>5. runs[t] # <<>>
  BY <1>2, <1>3
<1>6. at[t] # "over"
  BY <1>5 DEF State, RunsLinked
<1>7. QED
  BY <1>3, <1>4, <1>6

LEMMA Insider ==
  ASSUME State, NEW own, NEW depth, Chain(own, depth),
         NEW t \in Threads, NEW v \in Views, Count(t, v) > 0
  PROVE  at[t] # "over" /\ (own[v] = t \/ (at[t] = "boing" /\ Cur(t) = v))
<1>1. Earlier(t, v) # {} \/ Here(t, v)
  BY EarlierFinite DEF State
<1>2. CASE Earlier(t, v) # {}
  BY <1>2, EarlierOwned
<1>3. CASE Here(t, v)
  <2>1. at[t] # "over" /\ at[t] # "switch" /\ Cur(t) = v
    BY <1>3 DEF Here
  <2>2. CASE at[t] = "boing"
    BY <2>1, <2>2
  <2>3. CASE at[t] # "boing"
    BY <2>1, <2>3 DEF Chain, Topmost, Target
  <2>4. QED
    BY <2>1, <2>2, <2>3
<1>4. QED
  BY <1>1, <1>2, <1>3

(* Nobody else is in a view that its owner executes, or has to come back to. *)
LEMMA OnlyOwner ==
  ASSUME State, NEW own, NEW depth, Chain(own, depth), Switching(own),
         NEW t \in Threads, NEW v \in Views, own[v] = t,
         ~ Entering(own, t, v),
         NEW u \in Threads, Count(u, v) > 0
  PROVE  u = t
<1> SUFFICES ASSUME u # t
             PROVE  FALSE
  OBVIOUS
<1>1. at[u] = "boing" /\ Cur(u) = v /\ own[v] # u
  BY Insider
<1>2. t # NoOne
  BY ViewKinds
<1>3. Down(own, u)
  BY <1>1 DEF Switching
<1>4. QED
  BY <1>1, <1>2, <1>3 DEF Down

-----------------------------------------------------------------------------
(* How the runlock of a view follows its threads.                            *)

LEMMA LockedOnce ==
  ASSUME Typed, NEW v \in Views, RunlockedAt(v), v \notin bare,
         NEW t \in Threads, Lockable(v, t), NEW u \in Threads, Count(u, v) > 0
  PROVE  u = t
<1>1. Len(runlock[v]) = Count(u, v) /\ Lockable(v, u)
  BY DEF RunlockedAt, LockCounts
<1>2. runlock[v] \in Seq(Threads)
  BY DEF Typed
<1>3. Count(u, v) \in Nat
  BY EarlierFinite
<1>4. 1 \in 1..Len(runlock[v])
  BY <1>1, <1>3
<1>5. QED
  BY <1>1, <1>4 DEF Lockable

LEMMA LockKept ==
  ASSUME NEW v \in Views, RunlockedAt(v),
         \A u \in Threads : Count(u, v)' = Count(u, v),
         runlock'[v] = runlock[v], v \in bare' <=> v \in bare
  PROVE  RunlockedAt(v)'
BY DEF RunlockedAt, Alone, LockCounts, Lockable

LEMMA LockEntered ==
  ASSUME Typed, NEW v \in Views, RunlockedAt(v), NEW t \in Threads,
         \A u \in Threads \ {t} : Count(u, v)' = Count(u, v),
         Count(t, v)' = Count(t, v) + 1,
         runlock'[v] = Append(runlock[v], t), v \in bare' <=> v \in bare,
         Lockable(v, t),
         v \notin bare \/ \A u \in Threads : Count(u, v) > 0 => u = t
  PROVE  RunlockedAt(v)'
<1>1. \A u \in Threads : Count(u, v) \in Nat
  BY EarlierFinite
<1>2. \A u \in Threads : Count(u, v) > 0 => u = t
  BY LockedOnce
<1>3. \A u \in Threads : Count(u, v)' > 0 => u = t
  BY <1>2
<1>4. Count(t, v)' > 0
  BY <1>1
<1>5. runlock[v] \in Seq(Threads) /\ Len(runlock[v]) \in Nat
  BY DEF Typed
<1>6. /\ Len(runlock'[v]) = Len(runlock[v]) + 1
      /\ \A i \in 1..Len(runlock[v]) : runlock'[v][i] = runlock[v][i]
      /\ runlock'[v][Len(runlock[v]) + 1] = t
  BY <1>5, AppendProperties
<1>7. Lockable(v, t)'
  BY <1>5, <1>6 DEF Lockable
<1>8. IF v \in bare THEN Len(runlock[v]) < Count(t, v)
      ELSE Len(runlock[v]) = Count(t, v)
  <2>1. CASE Count(t, v) > 0
    BY <2>1 DEF RunlockedAt, LockCounts
  <2>2. CASE ~(Count(t, v) > 0)
    <3>1. Count(t, v) = 0 /\ \A u \in Threads : Count(u, v) = 0
      BY <1>1, <1>2, <2>2
    <3>2. runlock[v] = <<>> /\ v \notin bare
      BY <3>1 DEF RunlockedAt
    <3>3. QED
      BY <3>1, <3>2
  <2>3. QED
    BY <2>1, <2>2
<1>9. LockCounts(v, t)'
  BY <1>1, <1>5, <1>6, <1>7, <1>8 DEF LockCounts
<1>10. QED
  BY <1>3, <1>4, <1>9 DEF RunlockedAt, Alone

LEMMA LockLeft ==
  ASSUME Typed, NEW v \in Views, RunlockedAt(v), NEW t \in Threads,
         \A u \in Threads \ {t} : Count(u, v)' = Count(u, v),
         Count(t, v) = Count(t, v)' + 1, Count(t, v)' \in Nat,
         runlock'[v] = IF runlock[v] # <<>> /\ Last(runlock[v]) = t
                       THEN Front(runlock[v]) ELSE runlock[v],
         v \in bare' <=> v \in bare /\ Count(t, v)' > 0
  PROVE  RunlockedAt(v)'
<1>1. \A u \in Threads : Count(u, v) \in Nat
  BY EarlierFinite
<1>2. Count(t, v) > 0
  OBVIOUS
<1>3. LockCounts(v, t)
  BY <1>2 DEF RunlockedAt
<1>4. \A u \in Threads : u # t => Count(u, v) = 0
  BY <1>1, <1>2 DEF RunlockedAt, Alone
<1>5. \A u \in Threads : u # t => Count(u, v)' = 0
  BY <1>4
<1>6. runlock[v] \in Seq(Threads) /\ Len(runlock[v]) \in Nat
  BY DEF Typed
<1>7. CASE runlock[v] = <<>>
  <2>1. Len(runlock[v]) = 0 /\ runlock'[v] = <<>>
    BY <1>7
  <2>2. v \in bare /\ 0 < Count(t, v)
    BY <1>2, <1>3, <2>1 DEF LockCounts
  <2>3. Count(t, v)' > 0 => LockCounts(v, t)'
    BY <2>1, <2>2 DEF LockCounts, Lockable
  <2>4. QED
    BY <1>5, <2>1, <2>2, <2>3 DEF RunlockedAt, Alone
<1>8. CASE runlock[v] # <<>>
  <2> DEFINE n == Len(runlock[v])
  <2>1. n \in Nat /\ n >= 1 /\ n \in 1..n
    <3>1. n \in Nat \ {0}
      BY <1>6, <1>8, EmptySeq
    <3>2. QED
      BY <3>1
  <2>2. Last(runlock[v]) = t
    BY <1>3, <2>1 DEF Last, LockCounts, Lockable
  <2>3. runlock'[v] = SubSeq(runlock[v], 1, n - 1)
    BY <1>8, <2>2 DEF Front
  <2>4. /\ runlock'[v] \in Seq(Threads) /\ Len(runlock'[v]) = n - 1
        /\ \A i \in 1..(n - 1) : runlock'[v][i] = runlock[v][i]
    <3>1. runlock[v] \in Seq(Threads)
      BY <1>6
    <3> HIDE DEF n
    <3>2. /\ SubSeq(runlock[v], 1, n - 1) \in Seq(Threads)
          /\ Len(SubSeq(runlock[v], 1, n - 1)) = n - 1
          /\ \A i \in 1..(n - 1) : SubSeq(runlock[v], 1, n - 1)[i] = runlock[v][i]
      BY <2>1, <3>1, SubSeqProperties DEF n
    <3>3. QED
      BY <2>3, <3>2
  <2>5. Lockable(v, t)'
    <3>1. \A i \in 1..(n - 1) : i \in 1..n
      BY <2>1
    <3>2. QED
      BY <1>3, <2>4, <3>1 DEF LockCounts, Lockable
  <2>6. Count(t, v)' > 0 => LockCounts(v, t)'
    BY <1>3, <1>6, <2>4, <2>5 DEF LockCounts
  <2>7. (Count(t, v)' = 0) => v \notin bare' /\ runlock'[v] = <<>>
    <3> SUFFICES ASSUME Count(t, v)' = 0
                 PROVE  v \notin bare' /\ runlock'[v] = <<>>
      OBVIOUS
    <3>1. Count(t, v) = 1
      OBVIOUS
    <3>2. n = 1
      BY <1>3, <2>1, <3>1 DEF LockCounts
    <3>3. runlock'[v] = <<>>
      BY <2>4, <3>2, EmptySeq
    <3>4. QED
      BY <3>3
  <2>8. QED
    BY <1>5, <2>6, <2>7 DEF RunlockedAt, Alone
<1>9. QED
  BY <1>7, <1>8

(* A view that goes on without its runlock.                                  *)
LEMMA LockBared ==
  ASSUME Typed, NEW v \in Views, RunlockedAt(v), NEW t \in Threads,
         \A u \in Threads \ {t} : Count(u, v)' = Count(u, v),
         Count(t, v)' = Count(t, v) + 1,
         runlock'[v] = runlock[v], v \in bare',
         \A u \in Threads : Count(u, v) > 0 => u = t
  PROVE  RunlockedAt(v)'
<1>1. \A u \in Threads : Count(u, v) \in Nat
  BY EarlierFinite
<1>2. runlock[v] \in Seq(Threads) /\ Len(runlock[v]) \in Nat
  BY DEF Typed
<1>3. \A u \in Threads : Count(u, v)' > 0 => u = t
  BY <1>1
<1>4. Count(t, v)' > 0
  BY <1>1
<1>5. Lockable(v, t) /\ Len(runlock[v]) <= Count(t, v)
  <2>1. CASE Count(t, v) > 0
    BY <1>1, <1>2, <2>1 DEF RunlockedAt, LockCounts
  <2>2. CASE ~(Count(t, v) > 0)
    <3>1. \A u \in Threads : Count(u, v) = 0
      BY <1>1, <2>2
    <3>2. runlock[v] = <<>>
      BY <3>1 DEF RunlockedAt
    <3>3. QED
      BY <1>1, <3>2 DEF Lockable
  <2>3. QED
    BY <2>1, <2>2
<1>6. LockCounts(v, t)'
  BY <1>1, <1>2, <1>5 DEF LockCounts, Lockable
<1>7. QED
  BY <1>3, <1>4, <1>6 DEF RunlockedAt, Alone

-----------------------------------------------------------------------------
(* What a thread executes, and what it leaves alone.                         *)

Inner == {"code", "query", "resume", "yield", "error", "exit", "native"}
Elsewhere == {"boing", "switch", "over"}

LEMMA Executing ==
  ASSUME State, NEW own, NEW depth, Chain(own, depth),
         NEW t \in Threads, at[t] \notin Elsewhere
  PROVE  /\ Target(t) = Cur(t) /\ own[Cur(t)] = t /\ Cur(t) \in Views
         /\ \A v \in Views : own[v] = t => depth[v] <= depth[Cur(t)]
<1>1. Target(t) = Cur(t)
  BY DEF Elsewhere, Target
<1>2. QED
  BY <1>1 DEF Elsewhere, Chain, Topmost

(* The resumer of a coroutine that is owned has the same owner, and is not   *)
(* the coroutine.                                                            *)
LEMMA Resumer ==
  ASSUME NEW own, NEW depth, Chain(own, depth),
         NEW c \in Coros, own[c] # NoOne
  PROVE  /\ returnto[c] \in Views /\ own[returnto[c]] = own[c]
         /\ returnto[c] # c /\ depth[c] = depth[returnto[c]] + 1
         /\ depth[c] \in Nat /\ depth[returnto[c]] \in Nat
         /\ own[c] \in Threads /\ status[c] = "run" /\ c \notin lost
<1>1. /\ returnto[c] \in Views /\ own[returnto[c]] = own[c]
      /\ depth[c] = depth[returnto[c]] + 1
  BY DEF Chain, Chained
<1>2. depth[c] \in Nat /\ depth[returnto[c]] \in Nat /\ own[c] \in Threads
  BY <1>1, ViewKinds DEF Chain, Mapped
<1>3. status[c] = "run" /\ c \notin lost
  BY DEF Chain, Owned
<1>4. QED
  BY <1>1, <1>2, <1>3

LEMMA Unowned ==
  ASSUME NEW own, NEW depth, Chain(own, depth), NEW c \in Coros,
         status[c] # "run"
  PROVE  own[c] = NoOne /\ c \notin lost
BY DEF Chain, Owned

(* A switch can only fail on the way up, and not out of a return.            *)
LEMMA FailedSwitch ==
  ASSUME State, NEW own, NEW depth, Paths(own, depth),
         NEW t \in Threads, at[t] = "switch", ~ Lockable(arg[t], t)
  PROVE  /\ own[Cur(t)] = t /\ Up(t) /\ how[t] # "tail" /\ ~ corotail[Cur(t)]
         /\ Target(t) = arg[t] /\ own[arg[t]] = t
         /\ arg[t] \in Coros /\ arg[t] # Cur(t) /\ returnto[arg[t]] = Cur(t)
<1>1. Target(t) = arg[t]
  BY DEF Target
<1>2. arg[t] \in Views /\ own[arg[t]] = t
  BY <1>1 DEF Paths, Chain, Topmost
<1>3. own[Cur(t)] = t
  <2> SUFFICES ASSUME own[Cur(t)] # t
               PROVE  Lockable(arg[t], t)
    OBVIOUS
  <2>1. ~ Entering(own, t, arg[t])
    BY DEF Entering
  <2>2. \A u \in Threads : Count(u, arg[t]) > 0 => u = t
    BY <1>2, <2>1, OnlyOwner DEF Paths
  <2>3. CASE Count(t, arg[t]) > 0
    BY <1>2, <2>3 DEF Paths, Runlocked, RunlockedAt, LockCounts
  <2>4. CASE ~(Count(t, arg[t]) > 0)
    <3>1. \A u \in Threads : Count(u, arg[t]) = 0
      BY <2>2, <2>4, EarlierFinite DEF State
    <3>2. runlock[arg[t]] = <<>>
      BY <1>2, <3>1 DEF Paths, Runlocked, RunlockedAt
    <3>3. QED
      BY <3>2 DEF Lockable
  <2>5. QED
    BY <2>3, <2>4
<1>4. Up(t)
  BY <1>3 DEF Paths, Switching
<1>5. runlock[arg[t]] # <<>>
  BY DEF Lockable
<1>6. how[t] # "tail"
  BY <1>1, <1>4, <1>5 DEF Up
<1>7. ~ corotail[Cur(t)]
  BY <1>4, <1>6 DEF Up
<1>8. arg[t] \in Coros /\ returnto[arg[t]] = Cur(t)
  BY <1>1, <1>4 DEF Up
<1>9. arg[t] # Cur(t)
  BY <1>2, <1>8, Resumer, ViewKinds DEF Paths
<1>10. QED
  BY <1>1, <1>2, <1>3, <1>4, <1>6, <1>7, <1>8, <1>9

(* On the way down, the view is left as it is by who has resumed it already. *)
LEMMA LeftBehind ==
  ASSUME State, NEW own, NEW depth, Paths(own, depth),
         NEW t \in Threads, at[t] = "boing", own[Cur(t)] # t
  PROVE  /\ Down(own, t) /\ Cur(t) \in Coros
         /\ \A u \in Threads : own[Cur(t)] = u =>
              Entering(own, u, Cur(t)) /\ Cur(u) # Cur(t)
<1>1. Down(own, t)
  BY DEF Paths, Switching
<1>2. Cur(t) \in Coros
  BY <1>1 DEF Down
<1>3. ASSUME NEW u \in Threads, own[Cur(t)] = u
      PROVE  Entering(own, u, Cur(t)) /\ Cur(u) # Cur(t)
  <2>1. Entering(own, u, Cur(t))
    BY <1>1, <1>3, ViewKinds DEF Down
  <2>2. Up(u) /\ Target(u) = Cur(t)
    BY <2>1 DEF Entering, Paths, Switching
  <2>3. returnto[Cur(t)] = Cur(u)
    BY <2>2 DEF Up
  <2>4. Cur(u) # Cur(t)
    BY <1>2, <1>3, <2>3, Resumer, ViewKinds DEF Paths
  <2>5. QED
    BY <2>1, <2>4
<1>4. QED
  BY <1>1, <1>2, <1>3

Respects(own, u, v) ==
  /\ v \in Coros => status'[v] = status[v] /\ returnto'[v] = returnto[v] /\ v \notin lost'
  /\ v \in bare' => v \in bare
  /\ runlock[v] = <<>> => runlock'[v] = <<>>
  /\ corotail'[v] = corotail[v] \/ (~ corotail'[v] /\ Entering(own, u, v) /\ Cur(u) # v)
  /\ frames'[v] = frames[v] /\ sval'[v] = sval[v]
  /\ want'[v] = want[v] /\ due'[v] = due[v]

LEMMA Respect ==
  ASSUME Plain, State, NEW own, NEW depth, Paths(own, depth),
         NEW t \in Threads, Step(t),
         NEW u \in Threads, u # t, NEW v \in Views, own[v] = u
  PROVE  Respects(own, u, v)
<1> DEFINE Same == Respects(own, u, v)
<1> USE DEF Respects
<1>1. /\ status \in [Coros -> {"none", "init", "run", "yield"} \cup Ended]
      /\ returnto \in [Coros -> Views \cup {NoOne}]
      /\ corotail \in [Views -> BOOLEAN] /\ runlock \in [Views -> Seq(Threads)]
      /\ frames \in [Views -> Seq(Frames)] /\ sval \in [Views -> Seq(Values)]
      /\ want \in [Views -> {"args", "list", "one", "tail"}]
      /\ due \in [Views -> Seq(Values)]
  BY DEF State, Typed
<1>2. at[t] \notin Elsewhere => v # Cur(t)
  BY Executing DEF Paths
<1>3. v \in Coros => status[v] = "run" /\ v \notin lost
  BY ViewKinds DEF Paths, Chain, Owned
<1>4. at[t] \in {"code", "query", "resume", "yield", "error", "exit", "finish",
                 "relock", "native"} => at[t] \notin Elsewhere
  BY DEF Elsewhere
<1>5. ASSUME NEW c \in Coros, New(t, c)
      PROVE  Same
  BY <1>1, <1>3, <1>5 DEF New, view, marks
<1>6. ASSUME NEW c \in Coros, Query(t, c)
      PROVE  Same
  BY <1>3, <1>6 DEF Query, view, marks
<1>7. ASSUME NEW c \in Coros, NEW h \in Kinds, Resume(t, c, h)
      PROVE  Same
  BY <1>1, <1>2, <1>3, <1>4, <1>7 DEF Resume, Calling, Leave, marks
<1>8. ASSUME NEW h \in Kinds, Yield(t, h)
      PROVE  Same
  BY <1>1, <1>2, <1>3, <1>4, <1>8 DEF Yield, Calling, Leave, object, marks
<1>9. CASE Answer(t)
  BY <1>3, <1>9 DEF Answer, view, marks
<1>10. CASE Resuming(t)
  <2>1. CASE Refuse(t)
    BY <1>3, <1>10, <2>1 DEF Resuming, Refuse, view, marks
  <2>2. CASE ~ Refuse(t)
    <3>1. /\ at[t] = "resume" /\ status[arg[t]] \in {"init", "yield"}
          /\ \E values \in Lists : Begin(t, arg[t], Cur(t), values)
          /\ want' = [want EXCEPT ![Cur(t)] = how[t]]
          /\ UNCHANGED <<corotail, runlock>> /\ UNCHANGED marks
      BY <1>10, <2>2 DEF Resuming
    <3>2. v # arg[t]
      BY <1>3, <3>1, ViewKinds DEF State, LocksHeld
    <3>3. v # Cur(t)
      BY <1>2, <1>4, <3>1
    <3>4. QED
      BY <1>1, <1>3, <3>1, <3>2, <3>3 DEF Begin, marks
  <2>3. QED
    BY <2>1, <2>2
<1>11. CASE Yielding(t)
  <2>1. at[t] = "yield" /\ Cur(t) \in Coros
    BY <1>11 DEF Yielding, Paths, Leaving
  <2>2. own[Cur(t)] = t /\ v # Cur(t)
    BY <1>2, <1>4, <2>1, Executing DEF Paths
  <2>3. own[returnto[Cur(t)]] = t
    BY <2>1, <2>2, Resumer, ViewKinds DEF Paths
  <2>4. v # returnto[Cur(t)]
    BY <2>3
  <2>5. QED
    BY <1>1, <1>3, <1>11, <2>2, <2>4 DEF Yielding, marks
<1>12. CASE Boing(t)
  <2>1. /\ at[t] = "boing" /\ corotail' = [corotail EXCEPT ![Cur(t)] = (how[t] = "tail")]
        /\ runlock' = Unlocked(Cur(t), t) /\ Covered(t, Cur(t))
        /\ UNCHANGED <<status, returnto, lost, sval, frames, want, due>>
    BY <1>12 DEF Boing, object
  <2>2. bare' \subseteq bare
    BY <2>1 DEF Covered
  <2>3. runlock[v] = <<>> => runlock'[v] = <<>>
    BY <1>1, <2>1 DEF Unlocked
  <2>4. CASE v # Cur(t)
    BY <1>1, <1>3, <2>1, <2>2, <2>3, <2>4
  <2>5. CASE v = Cur(t)
    <3>1. Entering(own, u, v) /\ Cur(u) # v /\ how[t] # "tail"
      BY <2>1, <2>5, LeftBehind DEF Down
    <3>2. ~ corotail'[v]
      BY <1>1, <2>1, <2>5, <3>1
    <3>3. QED
      BY <1>3, <2>1, <2>2, <2>3, <3>1, <3>2
  <2>6. QED
    BY <2>4, <2>5
<1>13. CASE Switch(t)
  <2>1. at[t] = "switch" /\ Target(t) = arg[t]
    BY <1>13 DEF Switch, Target
  <2>2. own[arg[t]] = t
    BY <2>1 DEF Paths, Chain, Topmost
  <2>3. CASE Lockable(arg[t], t)
    BY <1>1, <1>3, <1>13, <2>2, <2>3 DEF Switch, GoOn, Locked, object, marks
  <2>4. CASE ~ Lockable(arg[t], t)
    <3>1. own[Cur(t)] = t
      BY <2>1, <2>4, FailedSwitch
    <3>2. QED
      BY <1>3, <1>13, <2>2, <2>4, <3>1 DEF Switch, object
  <2>5. QED
    BY <2>3, <2>4
<1>14. CASE CallBack(t)
  BY <1>1, <1>2, <1>3, <1>4, <1>14 DEF CallBack, Calling, Locked, object, marks
<1>15. CASE Raise(t) \/ Unwind(t)
  BY <1>1, <1>2, <1>3, <1>4, <1>15 DEF Raise, Unwind, object, view, marks
<1>16. CASE Return(t)
  BY <1>1, <1>2, <1>3, <1>4, <1>16 DEF Return, object, marks
<1>17. CASE Exit(t)
  <2>1. bare' \subseteq bare
    BY <1>17 DEF Exit, Covered
  <2>2. v # Cur(t)
    BY <1>2, <1>4, <1>17 DEF Exit
  <2>3. runlock'[v] = runlock[v]
    BY <1>1, <1>17, <2>2 DEF Exit, Unlocked
  <2>4. QED
    BY <1>1, <1>3, <1>17, <2>1, <2>2, <2>3 DEF Exit, object
<1>18. CASE Finish(t)
  <2>1. at[t] = "finish" /\ Cur(t) \in Coros
    BY <1>18 DEF Finish, Paths, Leaving
  <2>2. own[Cur(t)] = t /\ v # Cur(t)
    BY <1>2, <1>4, <2>1, Executing DEF Paths
  <2>3. own[returnto[Cur(t)]] = t
    BY <2>1, <2>2, Resumer, ViewKinds DEF Paths
  <2>4. v # returnto[Cur(t)]
    BY <2>3
  <2>5. QED
    BY <1>1, <1>3, <1>18, <2>2, <2>4 DEF Finish, marks
<1>19. CASE Relock(t)
  BY <1>1, <1>2, <1>3, <1>4, <1>19 DEF Relock, GoOn, Locked, object, marks
<1>20. CASE Native(t)
  BY <1>1, <1>2, <1>3, <1>4, <1>20 DEF Native, object, marks
<1>21. QED
  BY <1>5, <1>6, <1>7, <1>8, <1>9, <1>10, <1>11, <1>12, <1>13, <1>14, <1>15,
     <1>16, <1>17, <1>18, <1>19, <1>20 DEF Step

(* A coroutine that no thread executes or waits for is left alone, unless it *)
(* is resumed.                                                               *)
Frees(c) ==
  /\ c \in bare' => c \in bare
  /\ runlock[c] = <<>> => runlock'[c] = <<>>
  /\ frames'[c] = frames[c] /\ sval'[c] = sval[c]
  /\ want'[c] = want[c] /\ due'[c] = due[c]

LEMMA Free ==
  ASSUME Plain, State, NEW own, NEW depth, Paths(own, depth),
         NEW t \in Threads, Step(t),
         NEW c \in Coros, own[c] = NoOne,
         at[t] = "resume" /\ status[arg[t]] \in {"init", "yield"} => arg[t] # c
  PROVE  Frees(c)
<1> DEFINE Same == Frees(c)
<1> USE DEF Frees
<1>1. /\ corotail \in [Views -> BOOLEAN] /\ runlock \in [Views -> Seq(Threads)]
      /\ frames \in [Views -> Seq(Frames)] /\ sval \in [Views -> Seq(Values)]
      /\ want \in [Views -> {"args", "list", "one", "tail"}]
      /\ due \in [Views -> Seq(Values)] /\ c \in Views
  BY ViewKinds DEF State, Typed
<1>2. at[t] \notin Elsewhere => c # Cur(t)
  BY Executing, ViewKinds DEF Paths
<1>3. at[t] \in {"code", "query", "resume", "yield", "error", "exit", "finish",
                 "relock", "native"} => at[t] \notin Elsewhere
  BY DEF Elsewhere
<1>4. ASSUME NEW d \in Coros, New(t, d) \/ Query(t, d)
      PROVE  Same
  BY <1>4 DEF New, Query, view, marks
<1>5. ASSUME NEW d \in Coros, NEW h \in Kinds, Resume(t, d, h)
      PROVE  Same
  BY <1>1, <1>2, <1>3, <1>5 DEF Resume, Calling, Leave, marks
<1>6. ASSUME NEW h \in Kinds, Yield(t, h)
      PROVE  Same
  BY <1>1, <1>2, <1>3, <1>6 DEF Yield, Calling, Leave, object, marks
<1>7. CASE Answer(t)
  BY <1>7 DEF Answer, view, marks
<1>8. CASE Resuming(t)
  <2>1. CASE Refuse(t)
    BY <1>8, <2>1 DEF Resuming, Refuse, view, marks
  <2>2. CASE ~ Refuse(t)
    <3>1. /\ at[t] = "resume" /\ status[arg[t]] \in {"init", "yield"}
          /\ \E values \in Lists : Begin(t, arg[t], Cur(t), values)
          /\ want' = [want EXCEPT ![Cur(t)] = how[t]]
          /\ UNCHANGED <<corotail, runlock>> /\ UNCHANGED marks
      BY <1>8, <2>2 DEF Resuming
    <3>2. c # arg[t]
      BY <3>1
    <3>3. c # Cur(t)
      BY <1>2, <1>3, <3>1
    <3>4. QED
      BY <1>1, <3>1, <3>2, <3>3 DEF Begin, marks
  <2>3. QED
    BY <2>1, <2>2
<1>9. CASE Yielding(t)
  <2>1. at[t] = "yield" /\ Cur(t) \in Coros
    BY <1>9 DEF Yielding, Paths, Leaving
  <2>2. own[Cur(t)] = t /\ c # Cur(t)
    BY <1>2, <1>3, <2>1, Executing DEF Paths
  <2>3. own[returnto[Cur(t)]] = t
    BY <2>1, <2>2, Resumer, ViewKinds DEF Paths
  <2>4. c # returnto[Cur(t)]
    BY <2>3, ViewKinds
  <2>5. QED
    BY <1>1, <1>9, <2>2, <2>4 DEF Yielding, marks
<1>10. CASE Boing(t)
  <2>1. /\ runlock' = Unlocked(Cur(t), t) /\ Covered(t, Cur(t))
        /\ UNCHANGED <<sval, frames, want, due>>
    BY <1>10 DEF Boing
  <2>2. bare' \subseteq bare
    BY <2>1 DEF Covered
  <2>3. runlock[c] = <<>> => runlock'[c] = <<>>
    BY <1>1, <2>1 DEF Unlocked
  <2>4. QED
    BY <2>1, <2>2, <2>3
<1>11. CASE Switch(t)
  <2>1. at[t] = "switch" /\ Target(t) = arg[t]
    BY <1>11 DEF Switch, Target
  <2>2. own[arg[t]] = t /\ c # arg[t]
    BY <2>1, ViewKinds DEF Paths, Chain, Topmost
  <2>3. CASE Lockable(arg[t], t)
    BY <1>1, <1>11, <2>2, <2>3 DEF Switch, GoOn, Locked, object, marks
  <2>4. CASE ~ Lockable(arg[t], t)
    <3>1. own[Cur(t)] = t /\ c # Cur(t)
      BY <2>1, <2>4, FailedSwitch, ViewKinds
    <3>2. QED
      BY <1>11, <2>2, <2>4, <3>1 DEF Switch, object
  <2>5. QED
    BY <2>3, <2>4
<1>12. CASE CallBack(t)
  BY <1>1, <1>2, <1>3, <1>12 DEF CallBack, Calling, Locked, object, marks
<1>13. CASE Raise(t) \/ Unwind(t)
  BY <1>1, <1>2, <1>3, <1>13 DEF Raise, Unwind, object, view, marks
<1>14. CASE Return(t)
  BY <1>1, <1>2, <1>3, <1>14 DEF Return, object, marks
<1>15. CASE Exit(t)
  <2>1. bare' \subseteq bare
    BY <1>15 DEF Exit, Covered
  <2>2. c # Cur(t)
    BY <1>2, <1>3, <1>15 DEF Exit
  <2>3. runlock'[c] = runlock[c]
    BY <1>1, <1>15, <2>2 DEF Exit, Unlocked
  <2>4. QED
    BY <1>1, <1>15, <2>1, <2>2, <2>3 DEF Exit, object
<1>16. CASE Finish(t)
  <2>1. at[t] = "finish" /\ Cur(t) \in Coros
    BY <1>16 DEF Finish, Paths, Leaving
  <2>2. own[Cur(t)] = t /\ c # Cur(t)
    BY <1>2, <1>3, <2>1, Executing DEF Paths
  <2>3. own[returnto[Cur(t)]] = t
    BY <2>1, <2>2, Resumer, ViewKinds DEF Paths
  <2>4. c # returnto[Cur(t)]
    BY <2>3, ViewKinds
  <2>5. QED
    BY <1>1, <1>16, <2>2, <2>4 DEF Finish, marks
<1>17. CASE Relock(t)
  BY <1>1, <1>2, <1>3, <1>17 DEF Relock, GoOn, Locked, object, marks
<1>18. CASE Native(t)
  BY <1>1, <1>2, <1>3, <1>18 DEF Native, object, marks
<1>19. QED
  BY <1>4, <1>5, <1>6, <1>7, <1>8, <1>9, <1>10, <1>11, <1>12, <1>13, <1>14,
     <1>15, <1>16, <1>17, <1>18 DEF Step

(* The status of a coroutine.                                                *)
LEMMA StatusMoves ==
  ASSUME Plain, State, NEW t \in Threads, Step(t),
         NEW c \in Coros, status'[c] # status[c]
  PROVE  \/ status[c] = "none" /\ status'[c] = "init"
         \/ /\ at[t] = "resume" /\ arg[t] = c /\ status[c] \in {"init", "yield"}
            /\ status'[c] = "run"
         \/ /\ Cur(t) = c /\ lock[c] = NoOne
            /\ \/ at[t] = "yield" /\ status'[c] = "yield"
               \/ at[t] = "finish" /\ status'[c] \in Ended
<1>1. status \in [Coros -> {"none", "init", "run", "yield"} \cup Ended]
  BY DEF State, Typed
<1>2. ASSUME NEW d \in Coros, New(t, d) \/ Query(t, d)
      PROVE  status[c] = "none" /\ status'[c] = "init"
  BY <1>1, <1>2 DEF New, Query
<1>3. ASSUME NEW d \in Coros, NEW h \in Kinds, Resume(t, d, h)
      PROVE  FALSE
  BY <1>3 DEF Resume
<1>4. ASSUME NEW h \in Kinds, Yield(t, h)
      PROVE  FALSE
  BY <1>4 DEF Yield, object
<1>5. CASE Resuming(t)
  <2>1. ~ Refuse(t)
    BY DEF Refuse
  <2>2. PICK values \in Lists : Begin(t, arg[t], Cur(t), values)
    BY <1>5, <2>1 DEF Resuming
  <2>3. at[t] = "resume" /\ status[arg[t]] \in {"init", "yield"}
    BY <1>5, <2>1 DEF Resuming
  <2>4. QED
    BY <1>1, <2>2, <2>3 DEF Begin
<1>6. CASE Yielding(t)
  BY <1>1, <1>6 DEF Yielding
<1>7. CASE Finish(t)
  BY <1>1, <1>7 DEF Finish, Ended
<1>8. CASE Answer(t) \/ Boing(t) \/ Switch(t) \/ CallBack(t) \/ Raise(t)
  BY <1>8 DEF Answer, Boing, Switch, CallBack, Raise, object
<1>9. CASE Unwind(t) \/ Return(t) \/ Exit(t) \/ Relock(t) \/ Native(t)
  BY <1>9 DEF Unwind, Return, Exit, Relock, Native, object
<1>10. QED
  BY <1>2, <1>3, <1>4, <1>5, <1>6, <1>7, <1>8, <1>9 DEF Step

-----------------------------------------------------------------------------
(* How the chains follow a step of one thread.                               *)

BegunAt(own, depth, t) ==
  \A i \in 1..Len(runs[t]) :
    /\ own[runs[t][i].orig] = t
    /\ depth[runs[t][i].orig] <= depth[Target(t)]
    /\ \A j \in 1..i : depth[runs[t][j].orig] <= depth[runs[t][i].orig]
TopmostAt(own, depth, t) ==
  IF at[t] = "over" THEN \A c \in Coros : own[c] # t
  ELSE /\ Target(t) \in Views /\ own[Target(t)] = t
       /\ \A v \in Views : own[v] = t => depth[v] <= depth[Target(t)]

LEMMA BegunOthers ==
  ASSUME Plain, State, Runlocked, NEW own, NEW depth, Begun(own, depth),
         NEW t \in Threads, Step(t), NEW own2, NEW depth2,
         \A u \in Threads \ {t}, v \in Views : own[v] = u => own2[v] = u /\ depth2[v] = depth[v],
         NEW u \in Threads, u # t,
         at[u] # "over" => Target(u) \in Views /\ own[Target(u)] = u
  PROVE  BegunAt(own2, depth2, u)'
<1>1. runs'[u] = runs[u] /\ Target(u)' = Target(u)
  BY OthersRuns, OthersTarget DEF State
<1>2. ASSUME NEW i \in 1..Len(runs[u])
      PROVE  /\ own2[runs[u][i].orig] = u
             /\ depth2[runs[u][i].orig] <= depth2[Target(u)]
             /\ \A j \in 1..i : depth2[runs[u][j].orig] <= depth2[runs[u][i].orig]
  <2>1. Len(runs[u]) \in Nat
    BY EarlierFinite DEF State
  <2>2. \A j \in 1..i : j \in 1..Len(runs[u])
    BY <2>1
  <2>3. \A j \in 1..Len(runs[u]) :
          runs[u][j].orig \in Views /\ own[runs[u][j].orig] = u
    <3>1. at[u] # "over"
      BY <2>1 DEF State, RunsLinked
    <3>2. QED
      BY <3>1, InRuns DEF Begun
  <2>4. \A j \in 1..Len(runs[u]) :
          own2[runs[u][j].orig] = u /\ depth2[runs[u][j].orig] = depth[runs[u][j].orig]
    BY <2>3
  <2>5. runs[u] # <<>>
    BY <2>1
  <2>6. Target(u) \in Views /\ own[Target(u)] = u
    BY <2>5 DEF State, RunsLinked
  <2>7. depth2[Target(u)] = depth[Target(u)]
    BY <2>6
  <2>8. /\ depth[runs[u][i].orig] <= depth[Target(u)]
        /\ \A j \in 1..i : depth[runs[u][j].orig] <= depth[runs[u][i].orig]
    BY DEF Begun
  <2>9. QED
    BY <2>2, <2>4, <2>7, <2>8
<1>3. QED
  BY <1>1, <1>2 DEF BegunAt

LEMMA BegunSame ==
  ASSUME Typed, NEW own, NEW depth, Begun(own, depth), NEW t \in Threads,
         Len(runs'[t]) \in Nat, Len(runs'[t]) <= Len(runs[t]),
         \A i \in 1..Len(runs'[t]) : runs'[t][i].orig = runs[t][i].orig,
         Target(t)' = Target(t)
  PROVE  BegunAt(own, depth, t)'
<1>1. Len(runs[t]) \in Nat
  BY EarlierFinite
<1>2. ASSUME NEW i \in 1..Len(runs'[t])
      PROVE  /\ own[runs'[t][i].orig] = t
             /\ depth[runs'[t][i].orig] <= depth[Target(t)]
             /\ \A j \in 1..i : depth[runs'[t][j].orig] <= depth[runs'[t][i].orig]
  <2>1. i \in 1..Len(runs[t]) /\ \A j \in 1..i : j \in 1..Len(runs'[t])
    BY <1>1
  <2>2. QED
    BY <2>1 DEF Begun
<1>3. QED
  BY <1>2 DEF BegunAt

LEMMA TopmostOthers ==
  ASSUME Plain, State, Runlocked, NEW own, NEW depth, Mapped(own, depth),
         Topmost(own, depth), NEW t \in Threads, Step(t), NEW own2, NEW depth2,
         Mapped(own2, depth2),
         \A u \in Threads \ {t}, v \in Views : own[v] = u => own2[v] = u /\ depth2[v] = depth[v],
         \A u \in Threads \ {t}, v \in Views : own2[v] = u => own[v] = u,
         NEW u \in Threads, u # t
  PROVE  TopmostAt(own2, depth2, u)'
<1>1. at'[u] = at[u] /\ Target(u)' = Target(u)
  BY OthersRuns, OthersTarget DEF State
<1>2. CASE at[u] = "over"
  <2>1. \A c \in Coros : own[c] # u
    BY <1>2 DEF Topmost
  <2>2. \A c \in Coros : own2[c] # u
    BY <2>1, ViewKinds
  <2>3. QED
    BY <1>1, <1>2, <2>2 DEF TopmostAt
<1>3. CASE at[u] # "over"
  <2>1. /\ Target(u) \in Views /\ own[Target(u)] = u
        /\ \A v \in Views : own[v] = u => depth[v] <= depth[Target(u)]
    BY <1>3 DEF Topmost
  <2>2. \A v \in Views : own2[v] = u => depth2[v] <= depth2[Target(u)]
    BY <2>1
  <2>3. own2[Target(u)] = u
    BY <2>1
  <2>4. QED
    BY <1>1, <1>3, <2>1, <2>2, <2>3 DEF TopmostAt
<1>4. QED
  BY <1>2, <1>3

(* A step that goes neither up nor down.                                     *)
LEMMA ChainKept ==
  ASSUME Plain, State, NEW own, NEW depth, Paths(own, depth),
         NEW t \in Threads, Step(t),
         \A c \in Coros : status'[c] = "run" <=> status[c] = "run",
         lost' = lost, returnto' = returnto,
         TopmostAt(own, depth, t)', BegunAt(own, depth, t)'
  PROVE  Chain(own, depth)'
<1>1. /\ Mapped(own, depth) /\ Owned(own) /\ Chained(own, depth)
      /\ Topmost(own, depth) /\ Begun(own, depth) /\ Runlocked
  BY DEF Paths, Chain
<1>2. Owned(own)'
  BY <1>1, ViewKinds DEF Owned, State, Typed
<1>3. Chained(own, depth)'
  BY <1>1 DEF Chained
<1>4. \A u \in Threads : TopmostAt(own, depth, u)'
  BY <1>1, TopmostOthers
<1>5. \A u \in Threads : BegunAt(own, depth, u)'
  <2>1. \A u \in Threads : at[u] # "over" =>
          Target(u) \in Views /\ own[Target(u)] = u
    BY <1>1 DEF Topmost
  <2>2. QED
    BY <1>1, <2>1, BegunOthers
<1>6. Topmost(own, depth)'
  BY <1>4 DEF Topmost, TopmostAt
<1>7. Begun(own, depth)'
  BY <1>5 DEF Begun, BegunAt
<1>8. QED
  BY <1>1, <1>2, <1>3, <1>6, <1>7 DEF Chain, Mapped

(* A coroutine is resumed.                                                   *)
LEMMA ChainUp ==
  ASSUME Plain, State, NEW own, NEW depth, Paths(own, depth),
         NEW t \in Threads, Step(t), at[t] \notin Elsewhere,
         NEW c \in Coros, status[c] \in {"init", "yield"},
         status'[c] = "run", returnto'[c] = Cur(t),
         \A d \in Coros : d # c => status'[d] = status[d] /\ returnto'[d] = returnto[d],
         lost' = lost, runs' = runs, at'[t] = "boing", Target(t)' = c,
         NEW own2, NEW depth2, Mapped(own2, depth2),
         own2[c] = t, depth2[c] = depth[Cur(t)] + 1,
         \A v \in Views : v # c => own2[v] = own[v] /\ depth2[v] = depth[v]
  PROVE  Chain(own2, depth2)'
<1>1. /\ Mapped(own, depth) /\ Owned(own) /\ Chained(own, depth)
      /\ Topmost(own, depth) /\ Begun(own, depth) /\ Runlocked
  BY DEF Paths, Chain
<1>2. own[c] = NoOne /\ c \notin lost /\ c \in Views /\ c \notin Threads
  BY Unowned, ViewKinds DEF Paths
<1>3. /\ Cur(t) \in Views /\ own[Cur(t)] = t /\ Cur(t) # c
      /\ \A v \in Views : own[v] = t => depth[v] <= depth[Cur(t)]
  BY <1>2, Executing, ViewKinds DEF Paths
<1>4. /\ own \in [Views -> Threads \cup {NoOne}] /\ depth \in [Views -> Nat]
      /\ depth[Cur(t)] \in Nat
  BY <1>1, <1>3 DEF Mapped
<1>5. /\ own2[c] = t /\ depth2[c] = depth[Cur(t)] + 1
      /\ \A v \in Views : v # c => own2[v] = own[v] /\ depth2[v] = depth[v]
  BY <1>2, <1>4
<1>6. Mapped(own2, depth2)
  OBVIOUS
<1>7. Owned(own2)'
  <2>1. \A d \in Coros : d # c => status'[d] = status[d] /\ own2[d] = own[d]
    BY <1>5, ViewKinds
  <2>2. status'[c] = "run"
    OBVIOUS
  <2>3. \A u \in Threads : own2[u] = u
    BY <1>1, <1>2, <1>5, ViewKinds DEF Owned
  <2>4. \A d \in Coros : own2[d] # NoOne <=> status'[d] = "run" /\ d \notin lost
    BY <1>1, <1>2, <1>5, <2>1, <2>2, ViewKinds DEF Owned
  <2>5. \A d \in lost : status'[d] = "run"
    BY <1>1, <1>2, <2>1 DEF Owned, State, Typed
  <2>6. QED
    BY <2>3, <2>4, <2>5 DEF Owned
<1>8. Chained(own2, depth2)'
  <2>1. \A u \in Threads : depth2[u] = 0
    BY <1>1, <1>2, <1>5, ViewKinds DEF Chained
  <2>2. returnto'[c] = Cur(t) /\ \A d \in Coros : d # c => returnto'[d] = returnto[d]
    OBVIOUS
  <2>3. ASSUME NEW d \in Coros, own2[d] # NoOne
        PROVE  /\ returnto'[d] \in Views /\ own2[returnto'[d]] = own2[d]
               /\ depth2[d] = depth2[returnto'[d]] + 1
    <3>1. CASE d = c
      BY <1>3, <1>5, <2>2, <3>1
    <3>2. CASE d # c
      <4>1. own2[d] = own[d] /\ depth2[d] = depth[d] /\ returnto'[d] = returnto[d]
        BY <1>5, <2>2, <3>2, ViewKinds
      <4>2. /\ returnto[d] \in Views /\ own[returnto[d]] = own[d]
            /\ depth[d] = depth[returnto[d]] + 1
        BY <1>1, <2>3, <4>1 DEF Chained
      <4>3. returnto[d] # c
        BY <1>2, <2>3, <4>1, <4>2
      <4>4. QED
        BY <1>5, <4>1, <4>2, <4>3
    <3>3. QED
      BY <3>1, <3>2
  <2>4. \A v \in Views : own2[v] = t /\ v # c => depth2[v] < depth2[c]
    BY <1>3, <1>4, <1>5
  <2>5. ASSUME NEW u \in Views, NEW v \in Views,
               own2[u] = own2[v], own2[u] # NoOne, depth2[u] = depth2[v]
        PROVE  u = v
    <3>1. CASE u = c
      <4>1. v # c => depth2[v] < depth2[c]
        BY <1>5, <2>4, <2>5, <3>1
      <4>2. QED
        BY <1>4, <1>5, <2>5, <3>1, <4>1
    <3>2. CASE v = c
      <4>1. u # c => depth2[u] < depth2[c]
        BY <1>5, <2>4, <2>5, <3>2
      <4>2. QED
        BY <1>4, <1>5, <2>5, <3>2, <4>1
    <3>3. CASE u # c /\ v # c
      BY <1>1, <1>5, <2>5, <3>3 DEF Chained
    <3>4. QED
      BY <3>1, <3>2, <3>3
  <2>6. QED
    BY <2>1, <2>3, <2>5 DEF Chained
<1>9. /\ \A u \in Threads \ {t}, v \in Views : own[v] = u => own2[v] = u /\ depth2[v] = depth[v]
      /\ \A u \in Threads \ {t}, v \in Views : own2[v] = u => own[v] = u
  BY <1>2, <1>5, ViewKinds
<1>10. \A u \in Threads \ {t} : TopmostAt(own2, depth2, u)'
  BY <1>1, <1>6, <1>9, TopmostOthers
<1>11. \A u \in Threads \ {t} : BegunAt(own2, depth2, u)'
  <2>1. \A u \in Threads : at[u] # "over" =>
          Target(u) \in Views /\ own[Target(u)] = u
    BY <1>1 DEF Topmost
  <2>2. QED
    BY <1>1, <1>9, <2>1, BegunOthers
<1>12. TopmostAt(own2, depth2, t)'
  <2>1. \A v \in Views : own2[v] = t => depth2[v] <= depth2[c]
    BY <1>3, <1>4, <1>5
  <2>2. QED
    BY <1>2, <1>5, <2>1 DEF TopmostAt
<1>13. BegunAt(own2, depth2, t)'
  <2>1. at[t] # "over" /\ Target(t) = Cur(t)
    BY Executing DEF Elsewhere, Paths
  <2>2. \A i \in 1..Len(runs[t]) : runs[t][i].orig \in Views
    BY <2>1, InRuns
  <2>3. Len(runs[t]) \in Nat
    BY <2>1, InRuns
  <2>4. \A i \in 1..Len(runs[t]) :
          /\ own[runs[t][i].orig] = t /\ depth[runs[t][i].orig] <= depth[Cur(t)]
          /\ \A j \in 1..i : depth[runs[t][j].orig] <= depth[runs[t][i].orig]
    BY <1>1, <2>1 DEF Begun
  <2>5. \A i \in 1..Len(runs[t]) : runs[t][i].orig # c
    BY <1>2, <2>4, ViewKinds
  <2>6. \A i \in 1..Len(runs[t]) :
          /\ own2[runs[t][i].orig] = t
          /\ depth2[runs[t][i].orig] = depth[runs[t][i].orig]
    BY <1>5, <2>2, <2>4, <2>5
  <2>7. \A i \in 1..Len(runs[t]) : depth2[runs[t][i].orig] <= depth2[c]
    BY <1>4, <1>5, <2>2, <2>4, <2>6
  <2>8. \A i \in 1..Len(runs[t]) : \A j \in 1..i : j \in 1..Len(runs[t])
    BY <2>3
  <2>9. QED
    BY <2>4, <2>6, <2>7, <2>8 DEF BegunAt
<1>14. Topmost(own2, depth2)'
  BY <1>10, <1>12 DEF Topmost, TopmostAt
<1>15. Begun(own2, depth2)'
  BY <1>11, <1>13 DEF Begun, BegunAt
<1>16. QED
  BY <1>6, <1>7, <1>8, <1>14, <1>15 DEF Chain, Mapped

(* The view that a thread executes, or was to go to, is left for the view    *)
(* that has resumed it.                                                      *)
LEMMA ChainDown ==
  ASSUME Plain, State, NEW own, NEW depth, Paths(own, depth),
         NEW t \in Threads, Step(t), at[t] # "over",
         NEW w \in Coros, w = Target(t), Earlier(t, w) = {},
         returnto' = returnto, lost' \subseteq Coros,
         \A c \in Coros : c # w =>
           (status'[c] = status[c]) /\ (c \in lost' <=> c \in lost),
         IF w \in lost' THEN status'[w] = "run" ELSE status'[w] # "run",
         at'[t] # "over", Target(t)' = returnto[w],
         Len(runs'[t]) = Len(runs[t]),
         \A i \in 1..Len(runs[t]) : runs'[t][i].orig = runs[t][i].orig,
         NEW own2, Mapped(own2, depth), own2[w] = NoOne,
         \A v \in Views : v # w => own2[v] = own[v]
  PROVE  Chain(own2, depth)'
<1>1. /\ Mapped(own, depth) /\ Owned(own) /\ Chained(own, depth)
      /\ Topmost(own, depth) /\ Begun(own, depth) /\ Runlocked
  BY DEF Paths, Chain
<1>2. w \in Views /\ w \notin Threads /\ own[w] = t
  BY <1>1, ViewKinds DEF Topmost
<1>3. \A v \in Views : own[v] = t => depth[v] <= depth[w]
  BY <1>1 DEF Topmost
<1>4. /\ returnto[w] \in Views /\ own[returnto[w]] = t /\ returnto[w] # w
      /\ depth[w] = depth[returnto[w]] + 1
      /\ depth[w] \in Nat /\ depth[returnto[w]] \in Nat
  BY <1>2, Resumer, ViewKinds DEF Paths
<1>5. \A v \in Views : depth[v] \in Nat
  BY <1>1 DEF Mapped
<1>6. \A v \in Views : own[v] = t /\ v # w => depth[v] <= depth[returnto[w]]
  <2> SUFFICES ASSUME NEW v \in Views, own[v] = t, v # w
               PROVE  depth[v] <= depth[returnto[w]]
    OBVIOUS
  <2>1. depth[v] # depth[w]
    BY <1>1, <1>2, ViewKinds DEF Chained
  <2>2. QED
    BY <1>3, <1>4, <1>5, <2>1
<1>7. Owned(own2)'
  <2>1. \A u \in Threads : own2[u] = u
    BY <1>1, <1>2, ViewKinds DEF Owned
  <2>2. \A c \in Coros : own2[c] # NoOne <=> status'[c] = "run" /\ c \notin lost'
    <3>1. \A c \in Coros : c # w =>
            (own2[c] # NoOne <=> status'[c] = "run" /\ c \notin lost')
      BY <1>1, ViewKinds DEF Owned
    <3>2. QED
      BY <3>1
  <2>3. \A c \in lost' : status'[c] = "run"
    BY <1>1 DEF Owned
  <2>4. QED
    BY <2>1, <2>2, <2>3 DEF Owned
<1>8. Chained(own2, depth)'
  <2>1. \A u \in Threads : depth[u] = 0
    BY <1>1 DEF Chained
  <2>2. ASSUME NEW c \in Coros, own2[c] # NoOne
        PROVE  /\ returnto[c] \in Views /\ own2[returnto[c]] = own2[c]
               /\ depth[c] = depth[returnto[c]] + 1
    <3>1. c # w /\ own2[c] = own[c] /\ c \in Views
      BY <2>2, ViewKinds
    <3>2. /\ returnto[c] \in Views /\ own[returnto[c]] = own[c]
          /\ depth[c] = depth[returnto[c]] + 1
      BY <1>1, <2>2, <3>1 DEF Chained
    <3>3. returnto[c] # w
      <4>1. returnto[c] = w => own[c] = t /\ depth[c] = depth[w] + 1
        BY <1>2, <3>2
      <4>2. own[c] = t => depth[c] <= depth[w]
        BY <1>3, <3>1
      <4>3. QED
        BY <1>4, <4>1, <4>2
    <3>4. QED
      BY <3>1, <3>2, <3>3
  <2>3. \A u, v \in Views :
          own2[u] = own2[v] /\ own2[u] # NoOne /\ depth[u] = depth[v] => u = v
    BY <1>1 DEF Chained
  <2>4. QED
    BY <2>1, <2>2, <2>3 DEF Chained
<1>9. /\ \A u \in Threads \ {t}, v \in Views :
           own[v] = u => own2[v] = u /\ depth[v] = depth[v]
      /\ \A u \in Threads \ {t}, v \in Views : own2[v] = u => own[v] = u
  BY <1>2, ViewKinds
<1>10. \A u \in Threads \ {t} : TopmostAt(own2, depth, u)'
  BY <1>1, <1>9, TopmostOthers
<1>11. \A u \in Threads \ {t} : BegunAt(own2, depth, u)'
  <2>1. \A u \in Threads : at[u] # "over" =>
          Target(u) \in Views /\ own[Target(u)] = u
    BY <1>1 DEF Topmost
  <2>2. QED
    BY <1>1, <1>9, <2>1, BegunOthers
<1>12. TopmostAt(own2, depth, t)'
  <2>1. \A v \in Views : own2[v] = t => depth[v] <= depth[returnto[w]]
    BY <1>6, ViewKinds
  <2>2. QED
    BY <1>4, <2>1 DEF TopmostAt
<1>13. BegunAt(own2, depth, t)'
  <2>1. \A i \in 1..Len(runs[t]) : runs[t][i].orig \in Views
    BY InRuns
  <2>2. Len(runs[t]) \in Nat
    BY InRuns
  <2>3. \A i \in 1..Len(runs[t]) : runs[t][i].orig # w
    BY NotBegun
  <2>4. \A i \in 1..Len(runs[t]) :
          /\ own[runs[t][i].orig] = t
          /\ \A j \in 1..i : depth[runs[t][j].orig] <= depth[runs[t][i].orig]
    BY <1>1 DEF Begun
  <2>5. \A i \in 1..Len(runs[t]) :
          /\ own2[runs[t][i].orig] = t
          /\ depth[runs[t][i].orig] <= depth[returnto[w]]
    BY <1>6, <2>1, <2>3, <2>4
  <2>6. \A i \in 1..Len(runs[t]) : \A j \in 1..i : j \in 1..Len(runs[t])
    BY <2>2
  <2>7. QED
    BY <2>4, <2>5, <2>6 DEF BegunAt
<1>14. Topmost(own2, depth)'
  BY <1>10, <1>12 DEF Topmost, TopmostAt
<1>15. Begun(own2, depth)'
  BY <1>11, <1>13 DEF Begun, BegunAt
<1>16. QED
  BY <1>7, <1>8, <1>14, <1>15 DEF Chain, Mapped

-----------------------------------------------------------------------------
(* The other threads on their way, about to leave, or about to resume.       *)

SwitchingAt(own, t) ==
  at[t] \in {"boing", "switch"} =>
    IF own[Cur(t)] = t THEN Up(t) ELSE Down(own, t)
LeavingAt(t) ==
  /\ at[t] \in {"yield", "finish"} => Cur(t) \in Coros /\ Earlier(t, Cur(t)) = {}
  /\ at[t] = "yield" => how[t] # "tail" /\ ~ corotail[returnto[Cur(t)]]
ResumableAt(t) ==
  at[t] = "resume" =>
    /\ status[arg[t]] = "yield" => arg[t] \notin bare
    /\ how[t] = "tail" /\ status[arg[t]] \in {"init", "yield"} => runlock[arg[t]] = <<>>

(* What a step of t does to the owners: nothing to what others own.          *)
OwnsMove(own, own2, t) ==
  \A v \in Views : own2[v] = own[v] \/ {own[v], own2[v]} = {t, NoOne}

LEMMA SwitchingOthers ==
  ASSUME Plain, State, NEW own, NEW depth, Paths(own, depth),
         NEW t \in Threads, Step(t), NEW own2, OwnsMove(own, own2, t),
         NEW u \in Threads, u # t,
         (* t still enters what u has left *)
         /\ Count(u, Cur(u)) > 0 /\ own2[Cur(u)] = t
         /\ own[Cur(u)] = t => Entering(own, t, Cur(u))
         => Entering(own2, t, Cur(u))'
  PROVE  SwitchingAt(own2, u)'
<1> SUFFICES ASSUME at[u] \in {"boing", "switch"}
             PROVE  SwitchingAt(own2, u)'
  BY OthersRuns DEF SwitchingAt, State
<1>1. /\ at'[u] = at[u] /\ how'[u] = how[u] /\ Cur(u)' = Cur(u)
      /\ \A v : Earlier(u, v)' = Earlier(u, v)
  BY OthersRuns DEF State
<1>2. Runlocked /\ Chain(own, depth) /\ Target(u)' = Target(u)
  BY OthersTarget DEF Paths
<1>3. /\ Target(u) \in Views /\ own[Target(u)] = u
      /\ Cur(u) \in Views
  BY <1>2, InRuns DEF Chain, Topmost
<1>4. Respects(own, u, Target(u))
  BY <1>3, Respect
<1>5. own2[Cur(u)] = u <=> own[Cur(u)] = u
  BY <1>3, ViewKinds DEF OwnsMove
<1>6. CASE own[Cur(u)] = u
  <2>1. Up(u)
    BY <1>6 DEF Paths, Switching
  <2>2. Respects(own, u, Cur(u))
    BY <1>3, <1>6, Respect
  <2>3. corotail'[Cur(u)] = corotail[Cur(u)]
    BY <2>2 DEF Respects
  <2>4. Up(u)'
    BY <1>1, <1>2, <1>4, <2>1, <2>3 DEF Up, Respects
  <2>5. QED
    BY <1>1, <1>5, <1>6, <2>4 DEF SwitchingAt
<1>7. CASE own[Cur(u)] # u
  <2>1. Down(own, u)
    BY <1>7 DEF Paths, Switching
  <2>2. ~ corotail'[Target(u)]
    BY <1>4, <2>1 DEF Down, Respects
  <2>3. Cur(u) \in Coros /\ how[u] # "tail"
    BY <2>1 DEF Down
  <2>4. ASSUME at[u] = "boing"
        PROVE  /\ status'[Cur(u)] \in {"yield", "run"}
               /\ own2[Cur(u)] # NoOne => Entering(own2, own2[Cur(u)], Cur(u))'
    <3>1. /\ status[Cur(u)] \in {"yield", "run"}
          /\ own[Cur(u)] # NoOne => Entering(own, own[Cur(u)], Cur(u))
      BY <2>1, <2>4 DEF Down
    <3>2. status'[Cur(u)] \in {"yield", "run"}
      <4>1. CASE at[t] = "finish" /\ Cur(t) = Cur(u)
        <5>1. own[Cur(u)] = t
          BY <1>2, <4>1, Executing DEF Elsewhere
        <5>2. Entering(own, t, Cur(u))
          BY <3>1, <5>1, ViewKinds
        <5>3. QED
          BY <4>1, <5>2 DEF Entering
      <4>2. CASE ~(at[t] = "finish" /\ Cur(t) = Cur(u))
        BY <2>3, <3>1, <4>2, StatusMoves
      <4>3. QED
        BY <4>1, <4>2
    <3>3. ASSUME own2[Cur(u)] # NoOne
          PROVE  Entering(own2, own2[Cur(u)], Cur(u))'
      <4>1. Here(u, Cur(u))
        BY <2>4 DEF Here
      <4>2. Count(u, Cur(u)) > 0
        BY <4>1, EarlierFinite DEF State
      <4>3. CASE own2[Cur(u)] = t
        BY <3>1, <4>2, <4>3, ViewKinds, <1>1
      <4>4. CASE own2[Cur(u)] # t
        <5>1. own2[Cur(u)] = own[Cur(u)] /\ own[Cur(u)] \in Threads
          <6>1. own[Cur(u)] \in Threads \cup {NoOne}
            BY <1>2, <1>3 DEF Chain, Mapped
          <6>2. own2[Cur(u)] = own[Cur(u)]
            BY <1>3, <3>3, <4>4 DEF OwnsMove
          <6>3. QED
            BY <3>3, <6>1, <6>2, <1>1
        <5>2. PICK x \in Threads : x = own[Cur(u)] /\ x # t /\ x # NoOne
          BY <4>4, <5>1, <1>1, ViewKinds
        <5>3. /\ at[x] \in {"boing", "switch"} /\ Target(x) = Cur(u)
              /\ own[Cur(x)] = x
          BY <3>1, <5>2 DEF Entering
        <5>4. /\ at'[x] = at[x] /\ Target(x)' = Target(x) /\ Cur(x)' = Cur(x)
          BY <1>2, <5>2, OthersRuns, OthersTarget DEF State
        <5>5. Cur(x) \in Views
          BY <5>2, <5>3, InRuns
        <5>6. own2[Cur(x)] = x
          BY <5>2, <5>3, <5>5, ViewKinds DEF OwnsMove
        <5>7. Entering(own2, x, Cur(u))'
          BY <1>1, <5>3, <5>4, <5>6 DEF Entering
        <5>8. QED
          BY <1>1, <5>1, <5>2, <5>7 DEF Entering
      <4>5. QED
        BY <4>3, <4>4
    <3>4. QED
      BY <3>2, <3>3
  <2>5. Down(own2, u)'
    BY <1>1, <1>2, <2>2, <2>3, <2>4 DEF Down
  <2>6. QED
    BY <1>1, <1>5, <1>7, <2>5 DEF SwitchingAt
<1>8. QED
  BY <1>6, <1>7

LEMMA LeavingOthers ==
  ASSUME Plain, State, NEW own, NEW depth, Paths(own, depth),
         NEW t \in Threads, Step(t), NEW u \in Threads, u # t
  PROVE  LeavingAt(u)'
<1>1. /\ at'[u] = at[u] /\ how'[u] = how[u] /\ Cur(u)' = Cur(u)
      /\ \A v : Earlier(u, v)' = Earlier(u, v)
  BY OthersRuns DEF State
<1>2. /\ at[u] \in {"yield", "finish"} => Cur(u) \in Coros /\ Earlier(u, Cur(u)) = {}
      /\ at[u] = "yield" => how[u] # "tail" /\ ~ corotail[returnto[Cur(u)]]
  BY DEF Paths, Leaving
<1>3. ASSUME at[u] = "yield"
      PROVE  ~ corotail'[returnto'[Cur(u)]]
  <2>1. own[Cur(u)] = u /\ Cur(u) \in Views /\ Cur(u) \in Coros
    BY <1>2, <1>3, Executing DEF Elsewhere, Paths
  <2>2. returnto[Cur(u)] \in Views /\ own[returnto[Cur(u)]] = u
    BY <2>1, Resumer, ViewKinds DEF Paths
  <2>3. Respects(own, u, Cur(u)) /\ Respects(own, u, returnto[Cur(u)])
    BY <2>1, <2>2, Respect
  <2>4. QED
    BY <1>2, <1>3, <2>1, <2>3 DEF Respects
<1>4. QED
  BY <1>1, <1>2, <1>3 DEF LeavingAt

LEMMA ResumableOthers ==
  ASSUME Plain, State, NEW own, NEW depth, Paths(own, depth),
         NEW t \in Threads, Step(t), NEW u \in Threads, u # t
  PROVE  ResumableAt(u)'
<1> SUFFICES ASSUME at[u] = "resume"
             PROVE  ResumableAt(u)'
  BY OthersRuns DEF ResumableAt, State
<1>1. at'[u] = at[u] /\ how'[u] = how[u] /\ arg'[u] = arg[u]
  BY Others DEF State
<1>2. arg[u] \in Coros /\ lock[arg[u]] = u /\ status[arg[u]] # "none"
  BY DEF State, LocksHeld
<1>3. at[t] = "resume" => arg[t] # arg[u]
  BY <1>2 DEF State, LocksHeld
<1>4. lock[arg[u]] # NoOne
  BY <1>2, ViewKinds
<1>5. status'[arg[u]] \in {"init", "yield"} => status[arg[u]] = status'[arg[u]]
  BY <1>2, <1>3, <1>4, StatusMoves DEF Ended
<1>6. status[arg[u]] \in {"init", "yield"} => own[arg[u]] = NoOne
  BY <1>2, Unowned DEF Paths
<1>7. status[arg[u]] \in {"init", "yield"} => Frees(arg[u])
  BY <1>2, <1>3, <1>6, Free
<1>8. /\ status[arg[u]] = "yield" => arg[u] \notin bare
      /\ how[u] = "tail" /\ status[arg[u]] \in {"init", "yield"} => runlock[arg[u]] = <<>>
  BY DEF Paths, Resumable
<1>9. QED
  BY <1>1, <1>5, <1>7, <1>8 DEF ResumableAt, Frees

(* The rest of Paths follows from the thread that takes the step.            *)
LEMMA PathsStep ==
  ASSUME Plain, State, NEW own, NEW depth, Paths(own, depth),
         NEW t \in Threads, Step(t), NEW own2, NEW depth2,
         OwnsMove(own, own2, t), Chain(own2, depth2)', Runlocked',
         \A u \in Threads : Count(u, Cur(u)) > 0 /\ own2[Cur(u)] = t /\ u # t =>
           \/ own[Cur(u)] = t /\ ~ Entering(own, t, Cur(u))
           \/ Entering(own2, t, Cur(u))',
         SwitchingAt(own2, t)', LeavingAt(t)', ResumableAt(t)'
  PROVE  Paths(own2, depth2)'
<1>1. \A u \in Threads : SwitchingAt(own2, u)'
  <2>1. \A u \in Threads \ {t} : Cur(u)' = Cur(u)
    BY OthersRuns DEF State
  <2>2. QED
    BY <2>1, SwitchingOthers
<1>2. \A u \in Threads : LeavingAt(u)' /\ ResumableAt(u)'
  BY LeavingOthers, ResumableOthers
<1>3. Switching(own2)'
  BY <1>1 DEF Switching, SwitchingAt
<1>4. Leaving' /\ Resumable'
  BY <1>2 DEF Leaving, Resumable, LeavingAt, ResumableAt
<1>5. QED
  BY <1>3, <1>4 DEF Paths

-----------------------------------------------------------------------------
(* How the runlocks follow a step.                                           *)

LEMMA RunlockedKept ==
  ASSUME Plain, State, Runlocked, NEW t \in Threads, Step(t),
         \A v \in Views : Count(t, v)' = Count(t, v),
         runlock' = runlock, bare' = bare
  PROVE  Runlocked'
<1> SUFFICES ASSUME NEW v \in Views
             PROVE  RunlockedAt(v)'
  BY DEF Runlocked
<1>1. RunlockedAt(v)
  BY DEF Runlocked
<1>2. \A u \in Threads : Count(u, v)' = Count(u, v)
  BY OthersRuns DEF State
<1>3. QED
  BY <1>1, <1>2, LockKept

LEMMA RunlockedEntered ==
  ASSUME Plain, State, Runlocked, NEW t \in Threads, Step(t), NEW w \in Views,
         Count(t, w)' = Count(t, w) + 1,
         \A v \in Views \ {w} : Count(t, v)' = Count(t, v),
         Lockable(w, t), runlock' = Locked(w, t), bare' = bare,
         w \notin bare \/ \A u \in Threads : Count(u, w) > 0 => u = t
  PROVE  Runlocked'
<1> SUFFICES ASSUME NEW v \in Views
             PROVE  RunlockedAt(v)'
  BY DEF Runlocked
<1>1. RunlockedAt(v) /\ RunlockedAt(w)
  BY DEF Runlocked
<1>2. \A u \in Threads \ {t} : Count(u, v)' = Count(u, v)
  BY OthersRuns DEF State
<1>3. Typed /\ runlock \in [Views -> Seq(Threads)]
  BY DEF State, Typed
<1>4. CASE v = w
  <2>1. runlock'[w] = Append(runlock[w], t)
    BY <1>3 DEF Locked
  <2>2. RunlockedAt(w)'
    BY <1>1, <1>2, <1>3, <1>4, <2>1, LockEntered
  <2>3. QED
    BY <1>4, <2>2
<1>5. CASE v # w
  <2>1. runlock'[v] = runlock[v]
    BY <1>3, <1>5 DEF Locked
  <2>2. \A u \in Threads : Count(u, v)' = Count(u, v)
    BY <1>2, <1>5
  <2>3. QED
    BY <1>1, <2>1, <2>2, LockKept
<1>6. QED
  BY <1>4, <1>5

LEMMA RunlockedLeft ==
  ASSUME Plain, State, Runlocked, NEW t \in Threads, Step(t), NEW w \in Views,
         Count(t, w) = Count(t, w)' + 1,
         Count(t, w)' \in Nat, Count(t, w)' > 0 <=> Earlier(t, w) # {},
         \A v \in Views \ {w} : Count(t, v)' = Count(t, v),
         runlock' = Unlocked(w, t), Covered(t, w)
  PROVE  Runlocked'
<1> SUFFICES ASSUME NEW v \in Views
             PROVE  RunlockedAt(v)'
  BY DEF Runlocked
<1>1. RunlockedAt(v) /\ RunlockedAt(w)
  BY DEF Runlocked
<1>2. \A u \in Threads \ {t} : Count(u, v)' = Count(u, v)
  BY OthersRuns DEF State
<1>3. Typed /\ runlock \in [Views -> Seq(Threads)]
  BY DEF State, Typed
<1>4. bare' = IF Earlier(t, w) # {} THEN bare ELSE bare \ {w}
  BY DEF Covered, Earlier
<1>5. CASE v = w
  <2>1. runlock'[w] = IF runlock[w] # <<>> /\ Last(runlock[w]) = t
                      THEN Front(runlock[w]) ELSE runlock[w]
    BY <1>3 DEF Unlocked
  <2>2. w \in bare' <=> w \in bare /\ Count(t, w)' > 0
    BY <1>4
  <2>3. RunlockedAt(w)'
    BY <1>1, <1>2, <1>3, <1>5, <2>1, <2>2, LockLeft
  <2>4. QED
    BY <1>5, <2>3
<1>6. CASE v # w
  <2>1. runlock'[v] = runlock[v]
    BY <1>3, <1>6 DEF Unlocked
  <2>2. \A u \in Threads : Count(u, v)' = Count(u, v)
    BY <1>2, <1>6
  <2>3. v \in bare' <=> v \in bare
    BY <1>4, <1>6
  <2>4. QED
    BY <1>1, <2>1, <2>2, <2>3, LockKept
<1>7. QED
  BY <1>5, <1>6

LEMMA RunlockedBared ==
  ASSUME Plain, State, Runlocked, NEW t \in Threads, Step(t), NEW w \in Views,
         Count(t, w)' = Count(t, w) + 1,
         \A v \in Views \ {w} : Count(t, v)' = Count(t, v),
         runlock' = runlock, bare' = bare \cup {w},
         \A u \in Threads : Count(u, w) > 0 => u = t
  PROVE  Runlocked'
<1> SUFFICES ASSUME NEW v \in Views
             PROVE  RunlockedAt(v)'
  BY DEF Runlocked
<1>1. RunlockedAt(v) /\ RunlockedAt(w)
  BY DEF Runlocked
<1>2. \A u \in Threads \ {t} : Count(u, v)' = Count(u, v)
  BY OthersRuns DEF State
<1>3. CASE v = w
  <2>1. w \in bare' /\ Typed
    BY DEF State
  <2>2. RunlockedAt(w)'
    BY <1>1, <1>2, <1>3, <2>1, LockBared
  <2>3. QED
    BY <1>3, <2>2
<1>4. CASE v # w
  <2>1. \A u \in Threads : Count(u, v)' = Count(u, v)
    BY <1>2, <1>4
  <2>2. v \in bare' <=> v \in bare
    BY <1>4
  <2>3. QED
    BY <1>1, <2>1, <2>2, LockKept
<1>5. QED
  BY <1>3, <1>4

(* A thread that enters, leaves, or stays where it is in its last unc0_run.  *)
LEMMA CountMoves ==
  ASSUME NEW t \in Threads, NEW v, Before(t, v)' = Before(t, v)
  PROVE  /\ Here(t, v)' <=> Here(t, v) => Count(t, v)' = Count(t, v)
         /\ Before(t, v) \in Nat /\ Here(t, v)' /\ ~ Here(t, v) =>
              Count(t, v)' = Count(t, v) + 1
         /\ Before(t, v) \in Nat /\ ~ Here(t, v)' /\ Here(t, v) =>
              Count(t, v) = Count(t, v)' + 1 /\ Count(t, v)' = Before(t, v)
<1>1. Count(t, v)' = Before(t, v) + IF Here(t, v)' THEN 1 ELSE 0
  BY DEF Count
<1>2. QED
  BY <1>1 DEF Count

-----------------------------------------------------------------------------
(* Steps within a view.                                                      *)

Local(t) ==
  /\ at[t] \in Inner /\ at'[t] \in Inner
  /\ UNCHANGED <<returnto, trampoline, corotail, runlock, runs, marks>>
  /\ \A c \in Coros : status'[c] = "run" <=> status[c] = "run"

LEMMA LocalPaths ==
  ASSUME Plain, State, NEW own, NEW depth, Paths(own, depth),
         NEW t \in Threads, Step(t), Local(t), LeavingAt(t)', ResumableAt(t)'
  PROVE  /\ Paths(own, depth)'
         /\ Cur(t)' = Cur(t) /\ \A v : Before(t, v)' = Before(t, v)
         /\ Target(t)' = Cur(t)
<1>1. /\ at[t] \in Inner /\ at'[t] \in Inner
      /\ at[t] \notin Elsewhere /\ at'[t] \notin Elsewhere
      /\ at[t] # "over" /\ at'[t] # "over"
  BY DEF Local, Inner, Elsewhere
<1>2. /\ returnto' = returnto /\ runlock' = runlock /\ runs' = runs
      /\ lost' = lost /\ bare' = bare
      /\ \A c \in Coros : status'[c] = "run" <=> status[c] = "run"
  BY DEF Local, marks
<1>3. /\ Cur(t)' = Cur(t)
      /\ \A v : Earlier(t, v)' = Earlier(t, v) /\ Before(t, v)' = Before(t, v)
  BY <1>2, SameRuns
<1>4. Target(t) = Cur(t) /\ Target(t)' = Cur(t)
  BY <1>1, <1>3 DEF Target, Elsewhere
<1>5. Chain(own, depth) /\ Runlocked /\ Begun(own, depth) /\ Topmost(own, depth)
  BY DEF Paths, Chain
<1>6. TopmostAt(own, depth, t)'
  BY <1>1, <1>4, <1>5 DEF TopmostAt, Topmost
<1>7. BegunAt(own, depth, t)'
  BY <1>1, <1>2, <1>4, <1>5, BegunSame, InRuns DEF State
<1>8. Chain(own, depth)'
  BY <1>2, <1>6, <1>7, ChainKept
<1>9. Runlocked'
  <2>1. \A v : Here(t, v)' <=> Here(t, v)
    BY <1>1, <1>3 DEF Here, Inner
  <2>2. \A v : Count(t, v)' = Count(t, v)
    BY <1>3, <2>1, CountMoves
  <2>3. QED
    BY <1>2, <1>5, <2>2, RunlockedKept
<1>10. SwitchingAt(own, t)'
  BY <1>1 DEF SwitchingAt, Inner
<1>11. OwnsMove(own, own, t)
  BY DEF OwnsMove
<1>12. \A v : ~ Entering(own, t, v)
  BY <1>1 DEF Entering, Inner
<1>13. Paths(own, depth)'
  BY <1>8, <1>9, <1>10, <1>11, <1>12, PathsStep
<1>14. QED
  BY <1>3, <1>4, <1>13

-----------------------------------------------------------------------------
(* Steps from view to view.                                                  *)

LEMMA Resumes ==
  ASSUME Plain, State, NEW t \in Threads, Resuming(t), ~ Refuse(t)
  PROVE  /\ at[t] = "resume" /\ at' = [at EXCEPT ![t] = "boing"]
         /\ status[arg[t]] \in {"init", "yield"} /\ arg[t] \in Coros
         /\ \E values \in Lists : Begin(t, arg[t], Cur(t), values)
         /\ want' = [want EXCEPT ![Cur(t)] = how[t]]
         /\ arg' = [arg EXCEPT ![t] = NoOne]
         /\ UNCHANGED <<runs, corotail, runlock, err, how, calls, heard, marks>>
         /\ status' = [status EXCEPT ![arg[t]] = "run"]
         /\ returnto' = [returnto EXCEPT ![arg[t]] = Cur(t)]
         /\ trampoline' = [trampoline EXCEPT ![Cur(t)] = arg[t]]
         /\ lock' = [lock EXCEPT ![arg[t]] = NoOne]
<1>1. Landed(t, how[t]) = runs
  BY PlainFacts
<1>2. /\ at[t] = "resume" /\ at' = [at EXCEPT ![t] = "boing"]
      /\ status[arg[t]] \in {"init", "yield"}
      /\ \E values \in Lists : Begin(t, arg[t], Cur(t), values)
      /\ want' = [want EXCEPT ![Cur(t)] = how[t]]
      /\ arg' = [arg EXCEPT ![t] = NoOne]
      /\ UNCHANGED <<runs, corotail, runlock, err, how, calls, heard, marks>>
  BY <1>1 DEF Resuming, Goto
<1>3. arg[t] \in Coros
  BY <1>2 DEF State, LocksHeld
<1>4. QED
  BY <1>2, <1>3 DEF Begin

LEMMA ResumesPaths ==
  ASSUME Plain, State, NEW own, NEW depth, Paths(own, depth),
         NEW t \in Threads, Step(t), Resuming(t), ~ Refuse(t),
         NEW own2, NEW depth2, Mapped(own2, depth2), NEW c, c = arg[t],
         own2[c] = t, depth2[c] = depth[Cur(t)] + 1,
         \A v \in Views : v # c => own2[v] = own[v] /\ depth2[v] = depth[v]
  PROVE  /\ Paths(own2, depth2)' /\ own[c] = NoOne /\ Cur(t) # c
         /\ Cur(t)' = Cur(t) /\ Target(t)' = c /\ Earlier(t, c) = {}
<1>1. /\ at[t] = "resume" /\ at'[t] = "boing" /\ c \in Coros
      /\ status[c] \in {"init", "yield"} /\ how'[t] = how[t]
      /\ status' = [status EXCEPT ![c] = "run"]
      /\ returnto' = [returnto EXCEPT ![c] = Cur(t)]
      /\ trampoline' = [trampoline EXCEPT ![Cur(t)] = c]
      /\ runs' = runs /\ corotail' = corotail /\ runlock' = runlock
      /\ lost' = lost /\ bare' = bare
  BY Resumes DEF marks, State, Typed
<1>2. at[t] \notin Elsewhere /\ at[t] # "over"
  BY <1>1 DEF Elsewhere
<1>3. /\ Chain(own, depth) /\ Runlocked /\ Resumable
      /\ Mapped(own, depth)
  BY DEF Paths, Chain
<1>4. Target(t) = Cur(t) /\ own[Cur(t)] = t /\ Cur(t) \in Views
  BY <1>2, <1>3, Executing
<1>5. own[c] = NoOne /\ c \in Views /\ Cur(t) # c
  BY <1>1, <1>3, <1>4, Unowned, ViewKinds
<1>6. Cur(t)' = Cur(t) /\ \A v : Earlier(t, v)' = Earlier(t, v) /\ Before(t, v)' = Before(t, v)
  BY <1>1, SameRuns
<1>7. trampoline'[Cur(t)] = c
  BY <1>1, <1>4 DEF State, Typed
<1>8. Target(t)' = c
  BY <1>1, <1>6, <1>7 DEF Target
<1>9. Chain(own2, depth2)'
  <2>1. /\ status'[c] = "run" /\ returnto'[c] = Cur(t)
        /\ \A d \in Coros : d # c => status'[d] = status[d] /\ returnto'[d] = returnto[d]
    BY <1>1 DEF State, Typed
  <2>2. /\ c \in Coros /\ status[c] \in {"init", "yield"} /\ at'[t] = "boing"
        /\ runs' = runs /\ lost' = lost
    BY <1>1
  <2>3. QED
    BY <1>2, <1>8, <2>1, <2>2, ChainUp
<1>10. Runlocked'
  <2>1. \A v : Here(t, v)' <=> Here(t, v)
    BY <1>1, <1>6 DEF Here
  <2>2. \A v : Count(t, v)' = Count(t, v)
    BY <1>6, <2>1, CountMoves
  <2>3. QED
    BY <1>1, <1>3, <2>2, RunlockedKept
<1>11. c \notin bare
  <2>1. CASE status[c] = "yield"
    BY <1>1, <1>3, <2>1 DEF Resumable
  <2>2. CASE status[c] = "init"
    <3> SUFFICES ASSUME c \in bare
                 PROVE  FALSE
      OBVIOUS
    <3>1. PICK u \in Threads : Count(u, c) # 0
      BY <1>3, <1>5 DEF Runlocked, RunlockedAt
    <3>2. Count(u, c) > 0
      BY <3>1, EarlierFinite DEF State
    <3>3. at[u] = "boing" /\ Cur(u) = c /\ own[c] # u
      BY <1>3, <1>5, <3>2, Insider, ViewKinds
    <3>4. Down(own, u)
      BY <3>3 DEF Paths, Switching
    <3>5. QED
      BY <2>2, <3>3, <3>4 DEF Down
  <2>3. QED
    BY <1>1, <2>1, <2>2
<1>12. Earlier(t, c) = {}
  BY <1>3, <1>5, EarlierOwned, ViewKinds
<1>13. Up(t)'
  <2>1. returnto'[c] = Cur(t)
    BY <1>1 DEF State, Typed
  <2>2. how[t] = "tail" => runlock[c] = <<>>
    BY <1>1, <1>3 DEF Resumable
  <2>3. QED
    BY <1>1, <1>6, <1>8, <1>11, <1>12, <2>1, <2>2 DEF Up
<1>14. own2[Cur(t)] = t
  BY <1>4, <1>5
<1>15. SwitchingAt(own2, t)' /\ LeavingAt(t)' /\ ResumableAt(t)'
  BY <1>1, <1>6, <1>13, <1>14 DEF SwitchingAt, LeavingAt, ResumableAt
<1>16. OwnsMove(own, own2, t)
  BY <1>5 DEF OwnsMove
<1>17. ASSUME NEW u \in Threads, Count(u, Cur(u)) > 0, own2[Cur(u)] = t, u # t
       PROVE  \/ own[Cur(u)] = t /\ ~ Entering(own, t, Cur(u))
              \/ Entering(own2, t, Cur(u))'
  <2>1. ~ Entering(own, t, Cur(u))
    BY <1>1 DEF Entering
  <2>2. CASE Cur(u) = c
    <3>1. Cur(u)' = Cur(u)
      BY <1>17, OthersRuns DEF State
    <3>2. Entering(own2, t, c)'
      BY <1>1, <1>6, <1>8, <1>14 DEF Entering
    <3>3. QED
      BY <2>2, <3>1, <3>2 DEF Entering
  <2>3. CASE Cur(u) # c
    <3>1. at[u] # "over"
      BY <1>17, NotOver
    <3>2. Cur(u) \in Views
      BY <3>1, InRuns
    <3>3. QED
      BY <1>17, <2>1, <2>3, <3>2
  <2>4. QED
    BY <2>2, <2>3
<1>18. Paths(own2, depth2)'
  BY <1>9, <1>10, <1>15, <1>16, <1>17, PathsStep
<1>19. QED
  BY <1>5, <1>6, <1>8, <1>12, <1>18

LEMMA Yields ==
  ASSUME Plain, Typed, NEW t \in Threads, Yielding(t)
  PROVE  /\ at[t] = "yield" /\ at' = [at EXCEPT ![t] = "boing"]
         /\ lock[Cur(t)] = NoOne
         /\ \E values \in Lists :
              /\ sval' = [sval EXCEPT ![returnto[Cur(t)]] = @ \o values]
              /\ due' = [due EXCEPT ![returnto[Cur(t)]] = values]
         /\ status' = [status EXCEPT ![Cur(t)] = "yield"]
         /\ trampoline' = [trampoline EXCEPT ![Cur(t)] = returnto[Cur(t)]]
         /\ want' = [want EXCEPT ![Cur(t)] = how[t]]
         /\ UNCHANGED <<runs, returnto, lock, corotail, runlock, frames, err, arg,
                        how, calls, heard, marks>>
<1>1. Landed(t, how[t]) = runs
  BY PlainFacts
<1>2. QED
  BY <1>1 DEF Yielding, Goto

(* A step that takes a thread off a coroutine it alone is in.                *)
LEMMA YieldingPaths ==
  ASSUME Plain, State, NEW own, NEW depth, Paths(own, depth),
         NEW t \in Threads, Step(t), Yielding(t),
         NEW w, w = Cur(t), NEW own2, Mapped(own2, depth), own2[w] = NoOne,
         \A v \in Views : v # w => own2[v] = own[v]
  PROVE  /\ Paths(own2, depth)'
         /\ w \in Coros /\ own[w] = t /\ Earlier(t, w) = {}
         /\ returnto[w] \in Views /\ own[returnto[w]] = t /\ returnto[w] # w
         /\ Target(t) = w /\ Cur(t)' = w /\ Target(t)' = returnto[w]
         /\ \A v : Before(t, v)' = Before(t, v)
         /\ how[t] # "tail" /\ ~ corotail[returnto[w]]
<1>1. /\ at[t] = "yield" /\ at'[t] = "boing" /\ how'[t] = how[t]
      /\ status' = [status EXCEPT ![w] = "yield"] /\ returnto' = returnto
      /\ trampoline' = [trampoline EXCEPT ![w] = returnto[w]]
      /\ runs' = runs /\ corotail' = corotail /\ runlock' = runlock
      /\ lost' = lost /\ bare' = bare
  BY Yields DEF marks, State, Typed
<1>2. at[t] \notin Elsewhere /\ at[t] # "over"
  BY <1>1 DEF Elsewhere
<1>3. Chain(own, depth) /\ Runlocked /\ Leaving
  BY DEF Paths
<1>4. /\ w \in Coros /\ Earlier(t, w) = {}
      /\ how[t] # "tail" /\ ~ corotail[returnto[w]]
  BY <1>1, <1>3 DEF Leaving
<1>5. Target(t) = w /\ own[w] = t /\ w \in Views
  BY <1>2, <1>3, Executing
<1>6. returnto[w] \in Views /\ own[returnto[w]] = t /\ returnto[w] # w
  BY <1>3, <1>4, <1>5, Resumer, ViewKinds
<1>7. /\ Cur(t)' = w
      /\ \A v : Earlier(t, v)' = Earlier(t, v) /\ Before(t, v)' = Before(t, v)
  BY <1>1, SameRuns
<1>8. trampoline'[w] = returnto[w]
  BY <1>1, <1>5 DEF State, Typed
<1>9. Target(t)' = returnto[w]
  BY <1>1, <1>7, <1>8 DEF Target
<1>10. /\ status'[w] = "yield" /\ w \notin lost
       /\ \A c \in Coros : c # w => status'[c] = status[c]
  BY <1>1, <1>3, <1>4, <1>5, Resumer, ViewKinds DEF State, Typed
<1>11. Chain(own2, depth)'
  <2>1. lost' \subseteq Coros /\ \A c \in Coros : c \in lost' <=> c \in lost
    BY <1>1 DEF State, Typed
  <2>2. /\ Len(runs'[t]) = Len(runs[t])
        /\ \A i \in 1..Len(runs[t]) : runs'[t][i].orig = runs[t][i].orig
    BY <1>1
  <2>3. at'[t] # "over" /\ w \notin lost' /\ status'[w] # "run"
    BY <1>1, <1>10
  <2>4. QED
    BY <1>1, <1>2, <1>4, <1>5, <1>9, <1>10, <2>1, <2>2, <2>3, ChainDown
<1>12. Runlocked'
  <2>1. \A v : Here(t, v)' <=> Here(t, v)
    BY <1>1, <1>7 DEF Here
  <2>2. \A v : Count(t, v)' = Count(t, v)
    BY <1>7, <2>1, CountMoves
  <2>3. QED
    BY <1>1, <1>3, <2>2, RunlockedKept
<1>13. own2[w] # t
  BY ViewKinds
<1>14. Down(own2, t)'
  BY <1>1, <1>4, <1>7, <1>9, <1>10 DEF Down
<1>15. SwitchingAt(own2, t)' /\ LeavingAt(t)' /\ ResumableAt(t)'
  BY <1>1, <1>7, <1>13, <1>14 DEF SwitchingAt, LeavingAt, ResumableAt
<1>16. OwnsMove(own, own2, t)
  BY <1>5 DEF OwnsMove
<1>17. ASSUME NEW u \in Threads, Count(u, Cur(u)) > 0, own2[Cur(u)] = t
       PROVE  own[Cur(u)] = t /\ ~ Entering(own, t, Cur(u))
  <2>1. at[u] # "over"
    BY <1>17, NotOver
  <2>2. Cur(u) \in Views
    BY <2>1, InRuns
  <2>3. QED
    BY <1>1, <1>13, <1>17, <2>2 DEF Entering
<1>18. Paths(own2, depth)'
  BY <1>11, <1>12, <1>15, <1>16, <1>17, PathsStep
<1>19. QED
  BY <1>4, <1>5, <1>6, <1>7, <1>9, <1>18

LEMMA BoingPaths ==
  ASSUME Plain, State, NEW own, NEW depth, Paths(own, depth),
         NEW t \in Threads, Step(t), Boing(t), NEW w, w = Cur(t)
  PROVE  /\ Paths(own, depth)' /\ Cur(t)' = w /\ Target(t)' = Target(t)
         /\ \A v : Before(t, v)' = Before(t, v)
<1>1. /\ at[t] = "boing" /\ at'[t] = "switch" /\ how'[t] = how[t]
      /\ corotail' = [corotail EXCEPT ![w] = (how[t] = "tail")]
      /\ arg'[t] = trampoline[w] /\ runlock' = Unlocked(w, t) /\ Covered(t, w)
      /\ status' = status /\ returnto' = returnto /\ runs' = runs /\ lost' = lost
  BY DEF Boing, Goto, object, State, Typed
<1>2. at[t] # "over" /\ w \in Views
  BY <1>1, InRuns
<1>3. Chain(own, depth) /\ Runlocked /\ Switching(own) /\ Begun(own, depth) /\ Topmost(own, depth)
  BY DEF Paths, Chain
<1>4. /\ Cur(t)' = w
      /\ \A v : Earlier(t, v)' = Earlier(t, v) /\ Before(t, v)' = Before(t, v)
  BY <1>1, SameRuns
<1>5. Target(t) = trampoline[w] /\ Target(t)' = Target(t)
  BY <1>1 DEF Target
<1>6. Chain(own, depth)'
  <2>1. TopmostAt(own, depth, t)'
    BY <1>1, <1>3, <1>5 DEF TopmostAt, Topmost
  <2>2. BegunAt(own, depth, t)'
    BY <1>1, <1>2, <1>3, <1>5, BegunSame, InRuns DEF State
  <2>3. QED
    BY <1>1, <2>1, <2>2, ChainKept
<1>7. Runlocked'
  <2>1. Here(t, w) /\ ~ Here(t, w)'
    BY <1>1 DEF Here
  <2>2. Before(t, w) \in Nat /\ (Before(t, w) = 0 <=> Earlier(t, w) = {})
    BY EarlierFinite DEF State
  <2>3. Count(t, w) = Count(t, w)' + 1 /\ Count(t, w)' = Before(t, w)
    BY <1>4, <2>1, <2>2, CountMoves
  <2>4. Count(t, w)' \in Nat /\ (Count(t, w)' > 0 <=> Earlier(t, w) # {})
    BY <2>2, <2>3
  <2>5. ASSUME NEW v \in Views \ {w}
        PROVE  Count(t, v)' = Count(t, v)
    <3>1. ~ Here(t, v) /\ ~ Here(t, v)'
      BY <1>1 DEF Here
    <3>2. QED
      BY <1>4, <3>1, CountMoves
  <2>6. QED
    BY <1>1, <1>2, <1>3, <2>3, <2>4, <2>5, RunlockedLeft
<1>8. bare' \subseteq bare
  BY <1>1 DEF Covered
<1>9. corotail'[w] = (how[t] = "tail") /\ \A v \in Views : v # w => corotail'[v] = corotail[v]
  BY <1>1, <1>2 DEF State, Typed
<1>10. SwitchingAt(own, t)'
  <2>1. CASE own[w] = t
    <3>1. Up(t)
      BY <1>1, <1>3, <2>1 DEF Switching
    <3>2. runlock[Target(t)] = <<>> => runlock'[Target(t)] = <<>>
      BY <1>1 DEF Unlocked, State, Typed
    <3>3. Up(t)'
      BY <1>1, <1>4, <1>5, <1>8, <1>9, <3>1, <3>2 DEF Up
    <3>4. QED
      BY <1>4, <2>1, <3>3 DEF SwitchingAt
  <2>2. CASE own[w] # t
    <3>1. Down(own, t)
      BY <1>1, <1>3, <2>2 DEF Switching
    <3>2. Target(t) \in Views
      BY <1>1, <1>3 DEF Topmost
    <3>3. Down(own, t)'
      BY <1>1, <1>4, <1>5, <1>9, <3>1, <3>2 DEF Down
    <3>4. QED
      BY <1>4, <2>2, <3>3 DEF SwitchingAt
  <2>3. QED
    BY <2>1, <2>2
<1>11. LeavingAt(t)' /\ ResumableAt(t)'
  BY <1>1 DEF LeavingAt, ResumableAt
<1>12. OwnsMove(own, own, t)
  BY DEF OwnsMove
<1>13. ASSUME NEW v, Entering(own, t, v)
       PROVE  Entering(own, t, v)'
  BY <1>1, <1>4, <1>5, <1>13 DEF Entering
<1>14. ASSUME NEW u \in Threads, Entering(own, t, Cur(u)), u # t
       PROVE  Entering(own, t, Cur(u))'
  <2>1. Cur(u)' = Cur(u)
    BY <1>14, OthersRuns DEF State
  <2>2. QED
    BY <1>13, <1>14, <2>1 DEF Entering
<1>15. Paths(own, depth)'
  BY <1>6, <1>7, <1>10, <1>11, <1>12, <1>14, PathsStep
<1>16. QED
  BY <1>4, <1>5, <1>15

(* The other view is entered.                                                *)
LEMMA SwitchPaths ==
  ASSUME Plain, State, NEW own, NEW depth, Paths(own, depth),
         NEW t \in Threads, Step(t), Switch(t), NEW v, v = arg[t], Lockable(v, t)
  PROVE  /\ Paths(own, depth)' /\ v \in Views /\ own[v] = t
         /\ Target(t) = v /\ Cur(t)' = v /\ Target(t)' = v
         /\ \A x : Before(t, x)' = Before(t, x)
<1>1. /\ at[t] = "switch" /\ at'[t] = "code" /\ runlock' = Locked(v, t)
      /\ runs' = Into(t, v) /\ lost' = lost /\ bare' = bare
      /\ status' = status /\ returnto' = returnto
  BY DEF Switch, GoOn, Goto, object, marks, State, Typed
<1>2. at[t] # "over" /\ at'[t] # "over"
  BY <1>1
<1>3. /\ Chain(own, depth) /\ Runlocked /\ Switching(own) /\ Begun(own, depth)
      /\ Topmost(own, depth)
  BY DEF Paths, Chain
<1>4. Target(t) = v /\ v \in Views /\ own[v] = t
  BY <1>1, <1>3 DEF Topmost, Target
<1>5. /\ Len(runs'[t]) = Len(runs[t]) /\ Cur(t)' = v
      /\ \A i \in 1..Len(runs[t]) : runs'[t][i].orig = runs[t][i].orig
      /\ \A x : Earlier(t, x)' = Earlier(t, x) /\ Before(t, x)' = Before(t, x)
  BY <1>1, <1>2, <1>4, IntoRuns
<1>6. Target(t)' = v
  BY <1>1, <1>5 DEF Target
<1>7. Chain(own, depth)'
  <2>1. TopmostAt(own, depth, t)'
    BY <1>2, <1>3, <1>4, <1>6 DEF TopmostAt, Topmost
  <2>2. Len(runs[t]) \in Nat /\ Typed
    BY <1>2, InRuns DEF State
  <2>3. BegunAt(own, depth, t)'
    BY <1>3, <1>4, <1>5, <1>6, <2>2, BegunSame
  <2>4. QED
    BY <1>1, <2>1, <2>3, ChainKept
<1>8. ~ Here(t, v) /\ Here(t, v)'
  BY <1>1, <1>5 DEF Here
<1>9. Count(t, v)' = Count(t, v) + 1
  BY <1>5, <1>8, CountMoves, EarlierFinite DEF State
<1>10. own[Cur(t)] = t => v \notin bare
  BY <1>1, <1>3, <1>4 DEF Switching, Up
<1>11. own[Cur(t)] # t => \A u \in Threads : Count(u, v) > 0 => u = t
  <2>1. own[Cur(t)] # t => ~ Entering(own, t, v)
    BY DEF Entering
  <2>2. QED
    BY <1>3, <1>4, <2>1, OnlyOwner
<1>12. Runlocked'
  <2>1. ASSUME NEW x \in Views \ {v}
        PROVE  Count(t, x)' = Count(t, x)
    <3>1. ~ Here(t, x) /\ ~ Here(t, x)'
      BY <1>1, <1>5 DEF Here
    <3>2. QED
      BY <1>5, <3>1, CountMoves
  <2>2. v \notin bare \/ \A u \in Threads : Count(u, v) > 0 => u = t
    BY <1>10, <1>11
  <2>3. QED
    BY <1>1, <1>3, <1>4, <1>9, <2>1, <2>2, RunlockedEntered
<1>13. SwitchingAt(own, t)' /\ LeavingAt(t)' /\ ResumableAt(t)'
  BY <1>1 DEF SwitchingAt, LeavingAt, ResumableAt
<1>14. OwnsMove(own, own, t)
  BY DEF OwnsMove
<1>15. ASSUME NEW u \in Threads, Count(u, Cur(u)) > 0, u # t
       PROVE  ~ Entering(own, t, Cur(u))
  <2> SUFFICES ASSUME Entering(own, t, Cur(u))
               PROVE  FALSE
    OBVIOUS
  <2>1. Cur(u) = v /\ own[Cur(t)] = t
    BY <1>4 DEF Entering
  <2>2. RunlockedAt(v) /\ v \notin bare /\ Typed
    BY <1>3, <1>4, <1>10, <2>1 DEF Runlocked, State
  <2>3. u = t
    BY <1>4, <1>15, <2>1, <2>2, LockedOnce
  <2>4. QED
    BY <1>15, <2>3
<1>16. Paths(own, depth)'
  BY <1>7, <1>12, <1>13, <1>14, <1>15, PathsStep
<1>17. QED
  BY <1>4, <1>5, <1>6, <1>16

(* The other view is locked, and lost.                                       *)
LEMMA LosingPaths ==
  ASSUME Plain, State, NEW own, NEW depth, Paths(own, depth),
         NEW t \in Threads, Step(t), Switch(t), NEW c, c = arg[t], ~ Lockable(c, t),
         NEW own2, Mapped(own2, depth), own2[c] = NoOne,
         \A v \in Views : v # c => own2[v] = own[v]
  PROVE  /\ Paths(own2, depth)' /\ c \in Coros /\ own[c] = t
         /\ Target(t) = c /\ Cur(t) # c /\ how[t] # "tail"
         /\ Cur(t)' = Cur(t) /\ Target(t)' = Cur(t)
         /\ \A x : Before(t, x)' = Before(t, x)
<1>1. /\ at[t] = "switch" /\ at'[t] = "error" /\ runlock' = runlock
      /\ runs' = runs /\ lost' = lost \cup {c} /\ bare' = bare \cup {Cur(t)}
      /\ status' = status /\ returnto' = returnto
  BY DEF Switch, Goto, object, State, Typed
<1>2. at[t] # "over" /\ at'[t] # "over" /\ Cur(t) \in Views
  BY <1>1, InRuns
<1>3. Chain(own, depth) /\ Runlocked
  BY DEF Paths
<1>4. /\ own[Cur(t)] = t /\ Up(t) /\ how[t] # "tail"
      /\ Target(t) = c /\ own[c] = t
      /\ c \in Coros /\ c # Cur(t) /\ returnto[c] = Cur(t)
  BY <1>1, FailedSwitch
<1>5. Earlier(t, c) = {}
  BY <1>4 DEF Up
<1>6. /\ Cur(t)' = Cur(t)
      /\ \A v : Earlier(t, v)' = Earlier(t, v) /\ Before(t, v)' = Before(t, v)
  BY <1>1, SameRuns
<1>7. Target(t)' = Cur(t)
  BY <1>1, <1>6 DEF Target
<1>8. Chain(own2, depth)'
  <2>1. lost' \subseteq Coros /\ c \in lost'
    BY <1>1, <1>4 DEF State, Typed
  <2>2. \A d \in Coros : d # c => status'[d] = status[d] /\ (d \in lost' <=> d \in lost)
    BY <1>1
  <2>3. status'[c] = "run"
    BY <1>1, <1>3, <1>4, Resumer, ViewKinds
  <2>4. Target(t)' = returnto[c]
    BY <1>4, <1>7
  <2>5. /\ Len(runs'[t]) = Len(runs[t])
        /\ \A i \in 1..Len(runs[t]) : runs'[t][i].orig = runs[t][i].orig
    BY <1>1
  <2>6. IF c \in lost' THEN status'[c] = "run" ELSE status'[c] # "run"
    BY <2>1, <2>3
  <2>7. QED
    BY <1>1, <1>2, <1>4, <1>5, <2>1, <2>2, <2>4, <2>5, <2>6, ChainDown
<1>9. ASSUME NEW v, v # c
      PROVE  ~ Entering(own, t, v)
  BY <1>4, <1>9 DEF Entering
<1>10. Runlocked'
  <2>1. \A u \in Threads : Count(u, Cur(t)) > 0 => u = t
    BY <1>2, <1>3, <1>4, <1>9, OnlyOwner DEF Paths
  <2> DEFINE Grown(v) == Count(t, v)' = Count(t, v) + 1
             Same(v) == Count(t, v)' = Count(t, v)
  <2>2. ASSUME NEW v \in Views
        PROVE  IF v = Cur(t) THEN Grown(v) ELSE Same(v)
    <3>1. ~ Here(t, v) /\ (Here(t, v)' <=> v = Cur(t))
      BY <1>1, <1>6 DEF Here
    <3>2. QED
      BY <1>6, <3>1, CountMoves, EarlierFinite DEF State
  <2>3. PICK w \in Views : w = Cur(t)
    BY <1>2
  <2>4. Grown(w) /\ \A v \in Views \ {w} : Same(v)
    BY <2>2, <2>3
  <2>5. bare' = bare \cup {w} /\ \A u \in Threads : Count(u, w) > 0 => u = t
    BY <1>1, <2>1, <2>3
  <2>6. QED
    BY <1>1, <1>3, <2>4, <2>5, RunlockedBared
<1>11. SwitchingAt(own2, t)' /\ LeavingAt(t)' /\ ResumableAt(t)'
  BY <1>1 DEF SwitchingAt, LeavingAt, ResumableAt
<1>12. OwnsMove(own, own2, t)
  BY <1>4 DEF OwnsMove
<1>13. ASSUME NEW u \in Threads, Count(u, Cur(u)) > 0, own2[Cur(u)] = t
       PROVE  own[Cur(u)] = t /\ ~ Entering(own, t, Cur(u))
  <2>1. at[u] # "over"
    BY <1>13, NotOver
  <2>2. Cur(u) \in Views /\ t # NoOne
    BY <2>1, InRuns, ViewKinds
  <2>3. Cur(u) # c
    BY <1>13, <2>2
  <2>4. QED
    BY <1>9, <1>13, <2>2, <2>3
<1>14. Paths(own2, depth)'
  BY <1>8, <1>10, <1>11, <1>12, <1>13, PathsStep
<1>15. QED
  BY <1>4, <1>6, <1>7, <1>14

LEMMA CallBackPaths ==
  ASSUME Plain, State, NEW own, NEW depth, Paths(own, depth),
         NEW t \in Threads, Step(t), CallBack(t), NEW w, w = Cur(t)
  PROVE  /\ Paths(own, depth)' /\ w \in Views /\ own[w] = t
         /\ Target(t) = w /\ Cur(t)' = w /\ Target(t)' = w
         /\ Before(t, w)' = Before(t, w) + 1
         /\ \A x : x # w => Before(t, x)' = Before(t, x)
<1>1. /\ at[t] = "code" /\ at' = at /\ Lockable(w, t) /\ runlock' = Locked(w, t)
      /\ runs' = Deeper(t, w)
      /\ lost' = lost /\ bare' = bare /\ status' = status /\ returnto' = returnto
  BY DEF CallBack, Calling, object, marks, Deeper
<1>2. at[t] \notin Elsewhere /\ at[t] # "over" /\ at'[t] = "code"
  BY <1>1 DEF Elsewhere
<1>3. /\ Chain(own, depth) /\ Runlocked /\ Switching(own) /\ Begun(own, depth)
      /\ Topmost(own, depth)
  BY DEF Paths, Chain
<1>4. /\ Target(t) = w /\ w \in Views /\ own[w] = t
      /\ \A v \in Views : own[v] = t => depth[v] <= depth[w]
  BY <1>2, <1>3, Executing
<1>5. /\ Len(runs'[t]) = Len(runs[t]) + 1 /\ Cur(t)' = w
      /\ \A i \in 1..Len(runs[t]) : runs'[t][i] = runs[t][i]
      /\ runs'[t][Len(runs[t]) + 1] = Run(w)
      /\ Before(t, w)' = Before(t, w) + 1
      /\ \A x : x # w =>
           Earlier(t, x)' = Earlier(t, x) /\ Before(t, x)' = Before(t, x)
  BY <1>1, <1>2, DeeperRuns
<1>6. Target(t)' = w
  BY <1>2, <1>5 DEF Target
<1>7. BegunAt(own, depth, t)'
  <2>1. Len(runs[t]) \in Nat
    BY <1>2, InRuns
  <2>2. /\ \A i \in 1..Len(runs[t]) : runs'[t][i].orig = runs[t][i].orig
        /\ runs'[t][Len(runs[t]) + 1].orig = w
    BY <1>5 DEF Run
  <2>3. \A i \in 1..Len(runs[t]) :
          /\ own[runs[t][i].orig] = t
          /\ depth[runs[t][i].orig] <= depth[w]
          /\ \A j \in 1..i : depth[runs[t][j].orig] <= depth[runs[t][i].orig]
    BY <1>3, <1>4 DEF Begun
  <2>4. depth[w] <= depth[w]
    BY <1>4
  <2>5. ASSUME NEW i \in 1..(Len(runs[t]) + 1)
        PROVE  /\ own[runs'[t][i].orig] = t
               /\ depth[runs'[t][i].orig] <= depth[w]
               /\ \A j \in 1..i : depth[runs'[t][j].orig] <= depth[runs'[t][i].orig]
    <3>1. CASE i \in 1..Len(runs[t])
      <4>1. \A j \in 1..i : j \in 1..Len(runs[t])
        BY <2>1, <3>1
      <4>2. QED
        BY <2>2, <2>3, <3>1, <4>1
    <3>2. CASE i = Len(runs[t]) + 1
      <4>1. \A j \in 1..i : j \in 1..Len(runs[t]) \/ j = i
        BY <2>1, <3>2
      <4>2. QED
        BY <1>4, <2>2, <2>3, <2>4, <3>2, <4>1
    <3>3. QED
      BY <2>1, <3>1, <3>2
  <2>6. QED
    BY <1>5, <1>6, <2>5 DEF BegunAt
<1>8. Chain(own, depth)'
  <2>1. TopmostAt(own, depth, t)'
    BY <1>2, <1>4, <1>6 DEF TopmostAt
  <2>2. QED
    BY <1>1, <1>7, <2>1, ChainKept
<1>9. Runlocked'
  <2>1. ~ Entering(own, t, w)
    BY <1>1 DEF Entering
  <2>2. \A u \in Threads : Count(u, w) > 0 => u = t
    BY <1>3, <1>4, <2>1, OnlyOwner
  <2>3. \A v : Here(t, v)' <=> Here(t, v)
    BY <1>1, <1>2, <1>5 DEF Here
  <2>4. Before(t, w) \in Nat
    BY EarlierFinite DEF State
  <2>5. Count(t, w)' = Count(t, w) + 1
    BY <1>5, <2>3, <2>4 DEF Count
  <2>6. \A v \in Views \ {w} : Count(t, v)' = Count(t, v)
    BY <1>5, <2>3, CountMoves
  <2>7. QED
    BY <1>1, <1>3, <1>4, <2>2, <2>5, <2>6, RunlockedEntered
<1>10. SwitchingAt(own, t)' /\ LeavingAt(t)' /\ ResumableAt(t)'
  BY <1>2 DEF SwitchingAt, LeavingAt, ResumableAt
<1>11. OwnsMove(own, own, t)
  BY DEF OwnsMove
<1>12. \A v : ~ Entering(own, t, v)
  BY <1>1 DEF Entering
<1>13. Paths(own, depth)'
  BY <1>8, <1>9, <1>10, <1>11, <1>12, PathsStep
<1>14. QED
  BY <1>4, <1>5, <1>6, <1>13

(* The last unc0_run of a thread begins below what it executes, or there.    *)
LEMMA AboveOrig ==
  ASSUME State, NEW own, NEW depth, Chain(own, depth),
         NEW t \in Threads, at[t] \notin Elsewhere, NEW w, w = Cur(t)
  PROVE  /\ w \in Views /\ own[w] = t
         /\ w \in Threads => w = Orig(t)
         /\ w # Orig(t) => Earlier(t, w) = {}
<1>1. at[t] # "over"
  BY DEF Elsewhere
<1>2. /\ Target(t) = w /\ w \in Views /\ own[w] = t
      /\ \A v \in Views : own[v] = t => depth[v] <= depth[w]
  BY Executing
<1>3. /\ Len(runs[t]) \in Nat /\ Len(runs[t]) >= 1 /\ Orig(t) \in Views
      /\ Orig(t) = runs[t][Len(runs[t])].orig
  BY <1>1, InRuns
<1>4. Len(runs[t]) \in 1..Len(runs[t])
  BY <1>3
<1>5. /\ own[Orig(t)] = t /\ depth[Orig(t)] <= depth[w]
      /\ \A j \in 1..Len(runs[t]) : depth[runs[t][j].orig] <= depth[Orig(t)]
  BY <1>2, <1>3, <1>4 DEF Chain, Begun
<1>6. \A v \in Views : depth[v] \in Nat
  BY DEF Chain, Mapped
<1>7. t # NoOne
  BY ViewKinds
<1>8. \A v \in Views : own[v] = t /\ depth[v] = depth[Orig(t)] => v = Orig(t)
  BY <1>3, <1>5, <1>7 DEF Chain, Chained
<1>9. ASSUME w \in Threads
      PROVE  w = Orig(t)
  <2>1. depth[w] = 0
    BY <1>9 DEF Chain, Chained
  <2>2. depth[Orig(t)] = 0
    BY <1>3, <1>5, <1>6, <2>1
  <2>3. QED
    BY <1>2, <1>8, <2>1, <2>2
<1>10. ASSUME w # Orig(t)
       PROVE  Earlier(t, w) = {}
  <2> SUFFICES ASSUME NEW i \in 1..(Len(runs[t]) - 1), runs[t][i].cur = w
               PROVE  FALSE
    BY DEF Earlier
  <2>1. i + 1 \in 1..Len(runs[t]) /\ runs[t][i + 1].orig = w
    BY <1>3 DEF State, RunsLinked
  <2>2. depth[w] <= depth[Orig(t)]
    BY <1>5, <2>1
  <2>3. depth[w] = depth[Orig(t)]
    BY <1>2, <1>3, <1>5, <1>6, <2>2
  <2>4. QED
    BY <1>2, <1>8, <1>10, <2>3
<1>11. QED
  BY <1>2, <1>9, <1>10

(* A coroutine ends.                                                         *)
LEMMA EndingPaths ==
  ASSUME Plain, State, NEW own, NEW depth, Paths(own, depth),
         NEW t \in Threads, Step(t), Exit(t), NEW w, w = Cur(t),
         w \in Coros, w # Orig(t)
  PROVE  /\ Paths(own, depth)' /\ own[w] = t /\ Earlier(t, w) = {}
         /\ Target(t) = w /\ Cur(t)' = w /\ Target(t)' = w
         /\ \A x : Before(t, x)' = Before(t, x)
<1>1. /\ at[t] = "exit" /\ at'[t] = "finish"
      /\ runlock' = Unlocked(w, t) /\ Covered(t, w)
      /\ status' = status /\ returnto' = returnto /\ runs' = runs /\ lost' = lost
  BY DEF Exit, Goto, object, State, Typed
<1>2. at[t] \notin Elsewhere /\ at[t] # "over" /\ at'[t] # "over"
  BY <1>1 DEF Elsewhere
<1>3. /\ Chain(own, depth) /\ Runlocked /\ Begun(own, depth) /\ Topmost(own, depth)
  BY DEF Paths, Chain
<1>4. w \in Views /\ own[w] = t /\ Earlier(t, w) = {} /\ Target(t) = w
  BY <1>2, <1>3, AboveOrig, Executing
<1>5. /\ Cur(t)' = w
      /\ \A v : Earlier(t, v)' = Earlier(t, v) /\ Before(t, v)' = Before(t, v)
  BY <1>1, SameRuns
<1>6. Target(t)' = w
  BY <1>1, <1>5 DEF Target
<1>7. Chain(own, depth)'
  <2>1. TopmostAt(own, depth, t)'
    BY <1>2, <1>3, <1>4, <1>6 DEF TopmostAt, Topmost
  <2>2. BegunAt(own, depth, t)'
    BY <1>1, <1>2, <1>3, <1>4, <1>6, BegunSame, InRuns DEF State
  <2>3. QED
    BY <1>1, <2>1, <2>2, ChainKept
<1>8. Runlocked'
  <2>1. Here(t, w) /\ ~ Here(t, w)'
    BY <1>1 DEF Here
  <2>2. Before(t, w) \in Nat /\ Before(t, w) = 0
    BY <1>4, EarlierFinite DEF State
  <2>3. Count(t, w) = Count(t, w)' + 1 /\ Count(t, w)' = Before(t, w)
    BY <1>5, <2>1, <2>2, CountMoves
  <2>4. Count(t, w)' \in Nat /\ (Count(t, w)' > 0 <=> Earlier(t, w) # {})
    BY <1>4, <2>2, <2>3
  <2>5. ASSUME NEW v \in Views \ {w}
        PROVE  Count(t, v)' = Count(t, v)
    <3>1. ~ Here(t, v) /\ ~ Here(t, v)'
      BY <1>1 DEF Here
    <3>2. QED
      BY <1>5, <3>1, CountMoves
  <2>6. QED
    BY <1>1, <1>3, <1>4, <2>3, <2>4, <2>5, RunlockedLeft
<1>9. SwitchingAt(own, t)' /\ LeavingAt(t)' /\ ResumableAt(t)'
  BY <1>1, <1>4, <1>5 DEF SwitchingAt, LeavingAt, ResumableAt
<1>10. OwnsMove(own, own, t)
  BY DEF OwnsMove
<1>11. \A v : ~ Entering(own, t, v)
  BY <1>1 DEF Entering
<1>12. Paths(own, depth)'
  BY <1>7, <1>8, <1>9, <1>10, <1>11, PathsStep
<1>13. QED
  BY <1>4, <1>5, <1>6, <1>12

(* An unc0_run ends; it may have been the last of its thread.                *)
LEMMA ReturningPaths ==
  ASSUME Plain, State, NEW own, NEW depth, Paths(own, depth),
         NEW t \in Threads, Step(t), Exit(t), NEW w, w = Cur(t),
         ~(w \in Coros /\ w # Orig(t))
  PROVE  /\ Paths(own, depth)' /\ own[w] = t /\ w = Orig(t) /\ Target(t) = w
         /\ Len(runs[t]) # 1 =>
              Cur(t)' = w /\ Target(t)' = w /\ Before(t, w) = Before(t, w)' + 1
         /\ \A x : x # w => Before(t, x)' = Before(t, x)
<1>1. /\ at[t] = "exit"
      /\ at'[t] = IF Len(runs[t]) = 1 THEN "over" ELSE "native"
      /\ runlock' = Unlocked(w, t) /\ Covered(t, w)
      /\ status' = status /\ returnto' = returnto /\ lost' = lost
      /\ runs' = Shorter(t)
  BY DEF Exit, Goto, object, State, Typed, Shorter
<1>2. at[t] \notin Elsewhere /\ at[t] # "over"
  BY <1>1 DEF Elsewhere
<1>3. /\ Chain(own, depth) /\ Runlocked /\ Begun(own, depth) /\ Topmost(own, depth)
  BY DEF Paths, Chain
<1>4. /\ w \in Views /\ own[w] = t /\ w = Orig(t) /\ Target(t) = w
      /\ \A v \in Views : own[v] = t => depth[v] <= depth[w]
  BY <1>2, <1>3, AboveOrig, Executing, ViewKinds
<1>5. /\ Len(runs'[t]) = Len(runs[t]) - 1
      /\ \A i \in 1..(Len(runs[t]) - 1) : runs'[t][i] = runs[t][i]
      /\ Len(runs[t]) = 1 => runs'[t] = <<>>
      /\ Len(runs[t]) # 1 =>
           /\ runs'[t] # <<>> /\ Cur(t)' = w
           /\ Before(t, w) = Before(t, w)' + 1
      /\ Len(runs[t]) = 1 => \A x : Earlier(t, x) = {}
      /\ \A x : x # w \/ Len(runs[t]) = 1 =>
           Earlier(t, x)' = Earlier(t, x) /\ Before(t, x)' = Before(t, x)
  BY <1>1, <1>2, <1>4, ShorterRuns
<1>6. Len(runs[t]) # 1 => Target(t)' = w
  BY <1>1, <1>5 DEF Target
<1>7. Len(runs[t]) \in Nat /\ Len(runs[t]) >= 1 /\ Typed
  BY <1>2, InRuns DEF State
<1>8. BegunAt(own, depth, t)'
  <2>1. CASE Len(runs[t]) = 1
    BY <1>5, <1>7, <2>1 DEF BegunAt
  <2>2. CASE Len(runs[t]) # 1
    <3>1. /\ Len(runs'[t]) \in Nat /\ Len(runs'[t]) <= Len(runs[t])
          /\ \A i \in 1..Len(runs'[t]) : runs'[t][i].orig = runs[t][i].orig
      BY <1>5, <1>7
    <3>2. QED
      BY <1>3, <1>4, <1>6, <1>7, <2>2, <3>1, BegunSame
  <2>3. QED
    BY <2>1, <2>2
<1>9. TopmostAt(own, depth, t)'
  <2>1. CASE Len(runs[t]) = 1
    <3>1. w = t
      BY <1>2, <1>4, <2>1, InRuns
    <3>2. depth[w] = 0 /\ t # NoOne
      BY <1>3, <3>1, ViewKinds DEF Chain, Chained
    <3>3. ASSUME NEW c \in Coros, own[c] = t
          PROVE  FALSE
      <4>1. depth[c] = depth[returnto[c]] + 1 /\ depth[returnto[c]] \in Nat
        BY <1>3, <3>2, <3>3, Resumer
      <4>2. depth[c] <= 0
        BY <1>4, <3>2, <3>3, ViewKinds
      <4>3. QED
        BY <4>1, <4>2
    <3>4. QED
      BY <1>1, <2>1, <3>3 DEF TopmostAt
  <2>2. CASE Len(runs[t]) # 1
    BY <1>1, <1>4, <1>6, <2>2 DEF TopmostAt
  <2>3. QED
    BY <2>1, <2>2
<1>10. Chain(own, depth)'
  BY <1>1, <1>8, <1>9, ChainKept
<1>11. Before(t, w) \in Nat /\ (Before(t, w) = 0 <=> Earlier(t, w) = {})
  BY EarlierFinite DEF State
<1>12. Runlocked'
  <2>1. Here(t, w)
    BY <1>1 DEF Here
  <2>2. Count(t, w) = Before(t, w) + 1
    BY <2>1 DEF Count
  <2>3. CASE Len(runs[t]) = 1
    <3>1. ~ Here(t, w)' /\ Earlier(t, w) = {} /\ Before(t, w)' = Before(t, w)
      BY <1>1, <1>5, <2>3 DEF Here
    <3>2. Count(t, w)' = 0
      BY <1>11, <3>1 DEF Count
    <3>3. ASSUME NEW v \in Views \ {w}
          PROVE  Count(t, v)' = Count(t, v)
      <4>1. ~ Here(t, v) /\ ~ Here(t, v)' /\ Before(t, v)' = Before(t, v)
        BY <1>1, <1>5, <2>3 DEF Here
      <4>2. QED
        BY <4>1, CountMoves
    <3>4. /\ Count(t, w) = Count(t, w)' + 1 /\ Count(t, w)' \in Nat
          /\ Count(t, w)' > 0 <=> Earlier(t, w) # {}
      BY <1>11, <2>2, <3>1, <3>2
    <3>5. QED
      BY <1>1, <1>3, <1>4, <3>3, <3>4, RunlockedLeft
  <2>4. CASE Len(runs[t]) # 1
    <3>1. /\ Here(t, w)' /\ Before(t, w) = Before(t, w)' + 1
          /\ Before(t, w)' = Cardinality(Earlier(t, w)')
      BY <1>1, <1>5, <2>4 DEF Here, Before
    <3>2. Count(t, w)' = Before(t, w)' + 1
      BY <3>1 DEF Count
    <3>3. Before(t, w)' \in Nat
      <4>1. runs' \in [Threads -> Seq(Entry)]
        BY <1>1, <1>2, <1>4, ShorterRuns
      <4>2. Len(runs'[t]) - 1 \in Int
        BY <1>5, <1>7
      <4>3. IsFiniteSet(1..(Len(runs'[t]) - 1))
        BY <4>2, FS_Interval
      <4>4. Earlier(t, w)' \subseteq 1..(Len(runs'[t]) - 1)
        BY DEF Earlier
      <4>5. IsFiniteSet(Earlier(t, w)')
        BY <4>3, <4>4, FS_Subset
      <4>6. QED
        BY <3>1, <4>5, FS_CardinalityType
    <3>4. /\ Count(t, w) = Count(t, w)' + 1 /\ Count(t, w)' \in Nat
          /\ Count(t, w)' > 0 <=> Earlier(t, w) # {}
      BY <1>11, <2>2, <3>1, <3>2, <3>3
    <3>5. ASSUME NEW v \in Views \ {w}
          PROVE  Count(t, v)' = Count(t, v)
      <4>1. ~ Here(t, v) /\ ~ Here(t, v)' /\ Before(t, v)' = Before(t, v)
        BY <1>5, <2>4 DEF Here
      <4>2. QED
        BY <4>1, CountMoves
    <3>6. QED
      BY <1>1, <1>3, <1>4, <3>4, <3>5, RunlockedLeft
  <2>5. QED
    BY <2>3, <2>4
<1>13. SwitchingAt(own, t)' /\ LeavingAt(t)' /\ ResumableAt(t)'
  BY <1>1 DEF SwitchingAt, LeavingAt, ResumableAt
<1>14. OwnsMove(own, own, t)
  BY DEF OwnsMove
<1>15. \A v : ~ Entering(own, t, v)
  BY <1>1 DEF Entering
<1>16. Paths(own, depth)'
  BY <1>10, <1>12, <1>13, <1>14, <1>15, PathsStep
<1>17. QED
  BY <1>4, <1>5, <1>6, <1>16

LEMMA FinishingPaths ==
  ASSUME Plain, State, NEW own, NEW depth, Paths(own, depth),
         NEW t \in Threads, Step(t), Finish(t), NEW w, w = Cur(t),
         NEW own2, Mapped(own2, depth), own2[w] = NoOne,
         \A v \in Views : v # w => own2[v] = own[v]
  PROVE  /\ Paths(own2, depth)'
         /\ w \in Coros /\ own[w] = t /\ Target(t) = w
         /\ returnto[w] \in Views /\ own[returnto[w]] = t /\ returnto[w] # w
         /\ Cur(t)' = returnto[w] /\ Target(t)' = returnto[w]
         /\ \A v : Before(t, v)' = Before(t, v)
<1>1. /\ at[t] = "finish" /\ at'[t] = "relock" /\ runs' = Into(t, returnto[w])
      /\ status'[w] \in Ended
      /\ \A c \in Coros : c # w => status'[c] = status[c]
      /\ returnto' = returnto /\ runlock' = runlock
      /\ lost' = lost /\ bare' = bare
  <2>1. w \in Coros
    BY DEF Finish, Paths, Leaving
  <2>2. status' = [status EXCEPT ![w] = "error"] \/ status' = [status EXCEPT ![w] = "done"]
    BY DEF Finish
  <2>3. QED
    BY <2>1, <2>2 DEF Finish, Goto, marks, State, Typed, Ended
<1>2. at[t] \notin Elsewhere /\ at[t] # "over"
  BY <1>1 DEF Elsewhere
<1>3. Chain(own, depth) /\ Runlocked
  BY DEF Paths
<1>4. w \in Coros /\ Earlier(t, w) = {}
  BY <1>1 DEF Paths, Leaving
<1>5. Target(t) = w /\ own[w] = t
  BY <1>2, <1>3, Executing
<1>6. returnto[w] \in Views /\ own[returnto[w]] = t /\ returnto[w] # w /\ w \notin lost
  BY <1>3, <1>4, <1>5, Resumer, ViewKinds
<1>7. /\ Len(runs'[t]) = Len(runs[t]) /\ Cur(t)' = returnto[w]
      /\ \A i \in 1..Len(runs[t]) : runs'[t][i].orig = runs[t][i].orig
      /\ \A x : Earlier(t, x)' = Earlier(t, x) /\ Before(t, x)' = Before(t, x)
  BY <1>1, <1>2, <1>6, IntoRuns
<1>8. Target(t)' = returnto[w]
  BY <1>1, <1>7 DEF Target
<1>9. Chain(own2, depth)'
  <2>1. lost' \subseteq Coros /\ \A c \in Coros : c \in lost' <=> c \in lost
    BY <1>1 DEF State, Typed
  <2>2. at'[t] # "over" /\ w \notin lost' /\ status'[w] # "run"
    BY <1>1, <1>6 DEF Ended
  <2>3. QED
    BY <1>1, <1>2, <1>4, <1>5, <1>7, <1>8, <2>1, <2>2, ChainDown
<1>10. Runlocked'
  <2>1. \A v : ~ Here(t, v) /\ ~ Here(t, v)'
    BY <1>1 DEF Here
  <2>2. \A v : Count(t, v)' = Count(t, v)
    BY <1>7, <2>1, CountMoves
  <2>3. QED
    BY <1>1, <1>3, <2>2, RunlockedKept
<1>11. SwitchingAt(own2, t)' /\ LeavingAt(t)' /\ ResumableAt(t)'
  BY <1>1 DEF SwitchingAt, LeavingAt, ResumableAt
<1>12. OwnsMove(own, own2, t)
  BY <1>5 DEF OwnsMove
<1>13. ASSUME NEW u \in Threads, Count(u, Cur(u)) > 0, own2[Cur(u)] = t
       PROVE  own[Cur(u)] = t /\ ~ Entering(own, t, Cur(u))
  <2>1. at[u] # "over"
    BY <1>13, NotOver
  <2>2. Cur(u) \in Views /\ t # NoOne
    BY <2>1, InRuns, ViewKinds
  <2>3. QED
    BY <1>1, <1>13, <2>2 DEF Entering
<1>14. Paths(own2, depth)'
  BY <1>9, <1>10, <1>11, <1>12, <1>13, PathsStep
<1>15. QED
  BY <1>4, <1>5, <1>6, <1>7, <1>8, <1>14

LEMMA RelockPaths ==
  ASSUME Plain, State, NEW own, NEW depth, Paths(own, depth),
         NEW t \in Threads, Step(t), Relock(t), NEW w, w = Cur(t)
  PROVE  /\ Paths(own, depth)' /\ w \in Views /\ own[w] = t
         /\ Target(t) = w /\ Cur(t)' = w /\ Target(t)' = w
         /\ \A v : Before(t, v)' = Before(t, v)
<1>1. /\ at[t] = "relock" /\ at'[t] \in {"exit", "error", "code"}
      /\ Lockable(w, t) /\ runlock' = Locked(w, t)
      /\ runs' = runs /\ lost' = lost /\ bare' = bare
      /\ status' = status /\ returnto' = returnto
  BY DEF Relock, GoOn, Goto, object, marks, State, Typed
<1>2. /\ at[t] \notin Elsewhere /\ at[t] # "over" /\ at'[t] # "over"
      /\ at'[t] \notin Elsewhere
  BY <1>1 DEF Elsewhere
<1>3. /\ Chain(own, depth) /\ Runlocked /\ Switching(own) /\ Begun(own, depth)
      /\ Topmost(own, depth)
  BY DEF Paths, Chain
<1>4. Target(t) = w /\ w \in Views /\ own[w] = t
  BY <1>2, <1>3, Executing
<1>5. /\ Cur(t)' = w
      /\ \A v : Earlier(t, v)' = Earlier(t, v) /\ Before(t, v)' = Before(t, v)
  BY <1>1, SameRuns
<1>6. Target(t)' = w
  BY <1>2, <1>5 DEF Target, Elsewhere
<1>7. Chain(own, depth)'
  <2>1. TopmostAt(own, depth, t)'
    BY <1>2, <1>3, <1>4, <1>6 DEF TopmostAt, Topmost
  <2>2. BegunAt(own, depth, t)'
    BY <1>1, <1>2, <1>3, <1>4, <1>6, BegunSame, InRuns DEF State
  <2>3. QED
    BY <1>1, <2>1, <2>2, ChainKept
<1>8. \A v : ~ Entering(own, t, v)
  BY <1>1 DEF Entering
<1>9. Runlocked'
  <2>1. \A u \in Threads : Count(u, w) > 0 => u = t
    BY <1>3, <1>4, <1>8, OnlyOwner
  <2>2. \A v : ~ Here(t, v) /\ (Here(t, v)' <=> v = w)
    BY <1>1, <1>5 DEF Here
  <2>3. Count(t, w)' = Count(t, w) + 1
    BY <1>5, <2>2, CountMoves, EarlierFinite DEF State
  <2>4. \A v \in Views \ {w} : Count(t, v)' = Count(t, v)
    BY <1>5, <2>2, CountMoves
  <2>5. QED
    BY <1>1, <1>3, <1>4, <2>1, <2>3, <2>4, RunlockedEntered
<1>10. SwitchingAt(own, t)' /\ LeavingAt(t)' /\ ResumableAt(t)'
  BY <1>1 DEF SwitchingAt, LeavingAt, ResumableAt
<1>11. OwnsMove(own, own, t)
  BY DEF OwnsMove
<1>12. Paths(own, depth)'
  BY <1>7, <1>8, <1>9, <1>10, <1>11, PathsStep
<1>13. QED
  BY <1>4, <1>5, <1>6, <1>12

(* Which steps are within a view.                                            *)
Inside(t) ==
  \/ \E c \in Coros : New(t, c) \/ Query(t, c)
  \/ \E c \in Coros, h \in Kinds : Resume(t, c, h)
  \/ \E h \in Kinds : Yield(t, h)
  \/ Answer(t) \/ (Resuming(t) /\ Refuse(t))
  \/ Raise(t) \/ Unwind(t) \/ Return(t) \/ Native(t)

LEMMA AltLength ==
  ASSUME NEW n \in Nat
  PROVE  Alt(n) \in Seq(Frames) /\ Len(Alt(n)) = n
BY DEF Alt, Frames

LEMMA InsideLocal ==
  ASSUME Plain, State, NEW own, NEW depth, Paths(own, depth), Framed(own),
         NEW t \in Threads, Inside(t)
  PROVE  Local(t) /\ LeavingAt(t)' /\ ResumableAt(t)'
<1> DEFINE Okay == Local(t) /\ LeavingAt(t)' /\ ResumableAt(t)'
<1>1. Typed /\ at \in [Threads -> Places] /\ how \in [Threads -> {"list", "one", "tail"}]
  BY DEF State, Typed
<1>2. ASSUME at'[t] \notin {"yield", "finish", "resume"}
      PROVE  LeavingAt(t)' /\ ResumableAt(t)'
  BY <1>2 DEF LeavingAt, ResumableAt
<1>3. ASSUME NEW h, Fail(t, h)
      PROVE  at'[t] \in {"exit", "error"} /\ runs' = runs
  BY <1>1, <1>3, Failing
<1>4. \A l \in Places : Goto(t, l) => at'[t] = l
  BY <1>1 DEF Goto
<1>5. ASSUME NEW c \in Coros, New(t, c)
      PROVE  Okay
  <2>1. at[t] = "code" /\ at' = at
    BY <1>5 DEF New, thread
  <2>2. \A d \in Coros : status'[d] = "run" <=> status[d] = "run"
    BY <1>5 DEF New, State, Typed
  <2>3. QED
    BY <1>2, <1>5, <2>1, <2>2 DEF New, Local, Inner, view, thread
<1>6. ASSUME NEW c \in Coros, Query(t, c)
      PROVE  Okay
  <2>1. at[t] = "code" /\ at'[t] = "query"
    BY <1>4, <1>6 DEF Query, Calling, Places
  <2>2. QED
    BY <1>2, <1>6, <2>1 DEF Query, Local, Inner, view
<1>7. ASSUME NEW c \in Coros, NEW h \in Kinds, Resume(t, c, h)
      PROVE  Okay
  <2>1. /\ at[t] = "code" /\ status' = status
        /\ UNCHANGED <<returnto, trampoline, corotail, runlock, marks>>
        /\ runs' = runs /\ at'[t] \in {"resume", "exit", "error"}
    BY <1>3, <1>4, <1>7 DEF Resume, Calling, Places
  <2>2. Local(t)
    BY <2>1 DEF Local, Inner
  <2>3. CASE at'[t] = "resume"
    <3>1. arg'[t] = c /\ how'[t] = h
      BY <1>1, <1>3, <1>7, <2>3 DEF Resume, State, Typed
    <3>2. /\ h = "tail" => runlock[c] = <<>>
          /\ ~(c \in bare /\ status[c] = "yield")
      BY <1>7, PlainFacts DEF Resume
    <3>3. ResumableAt(t)'
      BY <2>1, <3>1, <3>2 DEF ResumableAt, marks
    <3>4. LeavingAt(t)'
      BY <2>3 DEF LeavingAt
    <3>5. QED
      BY <2>2, <3>3, <3>4
  <2>4. QED
    BY <1>2, <2>1, <2>2, <2>3
<1>8. ASSUME NEW h \in Kinds, Yield(t, h)
      PROVE  Okay
  <2>1. /\ at[t] = "code" /\ status' = status
        /\ UNCHANGED <<returnto, trampoline, corotail, runlock, marks>>
        /\ runs' = runs /\ at'[t] \in {"yield", "exit", "error"}
    BY <1>3, <1>4, <1>8 DEF Yield, Calling, Places, object
  <2>2. Local(t)
    BY <2>1 DEF Local, Inner
  <2>3. CASE at'[t] = "yield"
    <3>1. /\ Cur(t) \notin Threads /\ Len(frames[Cur(t)]) = 1
          /\ h # "tail" /\ ~ corotail[returnto[Cur(t)]]
      BY <1>3, <1>8, <2>3, PlainFacts DEF Yield
    <3>2. how'[t] = h
      BY <1>1, <1>8 DEF Yield
    <3>3. at[t] \notin Elsewhere /\ at[t] # "over"
      BY <2>1 DEF Elsewhere
    <3>4. own[Cur(t)] = t /\ Cur(t) \in Views
      BY <3>3, Executing DEF Paths
    <3>5. frames[Cur(t)] = Alt(2 * Before(t, Cur(t)) + 1)
      <4>1. Before(t, Cur(t)) \in Nat
        BY <1>1, EarlierFinite
      <4>2. Height(t, Cur(t)) = 2 * Before(t, Cur(t)) + 1 - 0
        BY <2>1 DEF Height, Cut
      <4>3. QED
        BY <3>3, <3>4, <4>1, <4>2 DEF Framed
    <3>6. Earlier(t, Cur(t)) = {}
      <4>1. PICK b \in Nat : b = Before(t, Cur(t)) /\ (b = 0 <=> Earlier(t, Cur(t)) = {})
        BY <1>1, EarlierFinite
      <4>2. Len(Alt(2 * b + 1)) = 2 * b + 1
        BY AltLength
      <4>3. 2 * b + 1 = 1
        BY <3>1, <3>5, <4>1, <4>2
      <4>4. QED
        BY <4>1, <4>3
    <3>7. Cur(t)' = Cur(t) /\ \A v : Earlier(t, v)' = Earlier(t, v)
      BY <2>1, SameRuns
    <3>8. LeavingAt(t)' /\ ResumableAt(t)'
      BY <2>1, <2>3, <3>1, <3>2, <3>4, <3>6, <3>7, ViewKinds DEF LeavingAt, ResumableAt
    <3>9. QED
      BY <2>2, <3>8
  <2>4. QED
    BY <1>2, <2>1, <2>2, <2>3
<1>9. CASE Answer(t)
  <2>1. at[t] = "query" /\ at'[t] = "code"
    BY <1>4, <1>9 DEF Answer, Places
  <2>2. QED
    BY <1>2, <1>9, <2>1 DEF Answer, Local, Inner, view
<1>10. CASE Resuming(t) /\ Refuse(t)
  <2>1. at[t] = "resume" /\ at'[t] \in {"exit", "error"} /\ runs' = runs
    BY <1>3, <1>10 DEF Resuming, Refuse
  <2>2. QED
    BY <1>2, <1>10, <2>1 DEF Resuming, Refuse, Local, Inner, view
<1>11. CASE Raise(t)
  <2>1. at[t] = "code" /\ at'[t] \in {"exit", "error"} /\ runs' = runs
    BY <1>3, <1>11 DEF Raise, Calling
  <2>2. QED
    BY <1>2, <1>11, <2>1 DEF Raise, Local, Inner, view, object
<1>12. CASE Unwind(t)
  <2>1. at[t] = "error" /\ at'[t] \in {"exit", "code"}
    BY <1>4, <1>12 DEF Unwind, Places
  <2>2. QED
    BY <1>2, <1>12, <2>1 DEF Unwind, Local, Inner, object
<1>13. CASE Return(t)
  <2>1. at[t] = "code" /\ at'[t] = "exit"
    BY <1>4, <1>13 DEF Return, Places
  <2>2. QED
    BY <1>2, <1>13, <2>1 DEF Return, Local, Inner, object
<1>14. CASE Native(t)
  <2>1. at[t] = "native" /\ at'[t] \in {"exit", "error", "code"} /\ runs' = runs
    BY <1>3, <1>4, <1>14 DEF Native, Places
  <2>2. QED
    BY <1>2, <1>14, <2>1 DEF Native, Local, Inner, object
<1>15. QED
  BY <1>5, <1>6, <1>7, <1>8, <1>9, <1>10, <1>11, <1>12, <1>13, <1>14 DEF Inside

-----------------------------------------------------------------------------
(* Types.                                                                    *)

LEMMA ListValues ==
  ASSUME NEW values \in Lists
  PROVE  values \in Seq(Values)
<1>1. PICK n \in Lengths : values \in [1..n -> Values]
  BY DEF Lists
<1>2. n \in Nat
  BY CoroutineAssumption
<1>3. QED
  BY <1>1, <1>2

LEMMA FrontSeq ==
  ASSUME NEW S, NEW s \in Seq(S)
  PROVE  Front(s) \in Seq(S)
<1>1. Len(s) \in Nat
  OBVIOUS
<1>2. CASE Len(s) = 0
  <2>1. s = <<>>
    BY <1>1, <1>2, EmptySeq
  <2>2. Front(s) = <<>>
    BY <2>1 DEF Front
  <2>3. QED
    BY <2>2
<1>3. CASE Len(s) # 0
  <2>1. SubSeq(s, 1, Len(s) - 1) \in Seq(S)
    BY <1>1, <1>3, SubSeqProperties
  <2>2. QED
    BY <2>1 DEF Front
<1>4. QED
  BY <1>2, <1>3

LEMMA ConcatSeq ==
  ASSUME NEW S, NEW s \in Seq(S), NEW r \in Seq(S)
  PROVE  s \o r \in Seq(S)
OBVIOUS

LEMMA Receiving ==
  ASSUME Typed, NEW v \in Views
  PROVE  /\ Receive(v).got \in Seq(Values) /\ Receive(v).left \in Seq(Values)
         /\ Asked(v) \in Seq(Values)
<1>1. sval[v] \in Seq(Values) /\ due[v] \in Seq(Values)
  BY DEF Typed
<1>2. <<>> \in Seq(Values)
  OBVIOUS
<1>3. due[v] # <<>> => <<Head(due[v])>> \in Seq(Values)
  BY <1>1
<1>4. QED
  BY <1>1, <1>2, <1>3 DEF Receive, Asked

LEMMA GoneOn ==
  ASSUME Typed, NEW t \in Threads, NEW v \in Views, GoOn(t, v)
  PROVE  /\ at' \in [Threads -> Places] /\ sval' \in [Views -> Seq(Values)]
         /\ heard' \in [Threads -> [got : Seq(Values), due : Seq(Values)]]
<1>1. /\ at \in [Threads -> Places] /\ sval \in [Views -> Seq(Values)]
      /\ heard \in [Threads -> [got : Seq(Values), due : Seq(Values)]]
  BY DEF Typed
<1>2. /\ Receive(v).left \in Seq(Values)
      /\ [got |-> Receive(v).got, due |-> Asked(v)] \in [got : Seq(Values), due : Seq(Values)]
  BY Receiving
<1>3. QED
  BY <1>1, <1>2 DEF GoOn, Goto, Places

LEMMA Typing ==
  ASSUME Typed, NEW t \in Threads
  PROVE  /\ \A l \in Places : Goto(t, l) => at' \in [Threads -> Places]
         /\ Hush(t) => heard' \in [Threads -> [got : Seq(Values), due : Seq(Values)]]
         /\ Calling(t) => /\ calls' \in Nat
                          /\ heard' \in [Threads -> [got : Seq(Values), due : Seq(Values)]]
         /\ \A w, h : Leave(w, h) => frames' \in [Views -> Seq(Frames)]
         /\ \A w : [frames EXCEPT ![w] = Front(@)] \in [Views -> Seq(Frames)]
         /\ \A w : Locked(w, t) \in [Views -> Seq(Threads)]
         /\ \A w : Unlocked(w, t) \in [Views -> Seq(Threads)]
         /\ \A w \in Views : \A values \in Lists :
              [sval EXCEPT ![w] = @ \o values] \in [Views -> Seq(Values)]
<1>1. \A l \in Places : Goto(t, l) => at' \in [Threads -> Places]
  BY DEF Typed, Goto
<1>2. Quiet \in [got : Seq(Values), due : Seq(Values)]
  BY DEF Quiet
<1>3. Hush(t) => heard' \in [Threads -> [got : Seq(Values), due : Seq(Values)]]
  BY <1>2 DEF Typed, Hush
<1>4. Calling(t) => /\ calls' \in Nat
                    /\ heard' \in [Threads -> [got : Seq(Values), due : Seq(Values)]]
  BY <1>3 DEF Typed, Calling
<1>5. ASSUME NEW w
      PROVE  [frames EXCEPT ![w] = Front(@)] \in [Views -> Seq(Frames)]
  <2>1. frames \in [Views -> Seq(Frames)] /\ (w \in Views => Front(frames[w]) \in Seq(Frames))
    BY FrontSeq DEF Typed
  <2>2. QED
    BY <2>1
<1>6. \A w, h : Leave(w, h) => frames' \in [Views -> Seq(Frames)]
  BY <1>5 DEF Leave, Typed
<1>7. ASSUME NEW w
      PROVE  Locked(w, t) \in [Views -> Seq(Threads)]
  <2>1. runlock \in [Views -> Seq(Threads)]
        /\ (w \in Views => Append(runlock[w], t) \in Seq(Threads))
    BY AppendProperties DEF Typed
  <2>2. QED
    BY <2>1 DEF Locked
<1>8. ASSUME NEW w
      PROVE  Unlocked(w, t) \in [Views -> Seq(Threads)]
  <2>1. runlock \in [Views -> Seq(Threads)] /\ (w \in Views => Front(runlock[w]) \in Seq(Threads))
    BY FrontSeq DEF Typed
  <2>2. QED
    BY <2>1 DEF Unlocked
<1>9. ASSUME NEW w \in Views, NEW values \in Lists
      PROVE  [sval EXCEPT ![w] = @ \o values] \in [Views -> Seq(Values)]
  <2>1. sval[w] \o values \in Seq(Values)
    BY ListValues, ConcatSeq DEF Typed
  <2>2. QED
    BY <2>1 DEF Typed
<1>10. QED
  BY <1>1, <1>3, <1>4, <1>5, <1>6, <1>7, <1>8, <1>9

LEMMA FailTyped ==
  ASSUME Plain, Typed, NEW t \in Threads, NEW h, Fail(t, h)
  PROVE  /\ at' \in [Threads -> Places] /\ err' \in [Threads -> BOOLEAN]
         /\ runs' \in [Threads -> Seq(Entry)]
BY Failing DEF Typed, Places

LEMMA TypedStep ==
  ASSUME Plain, State, NEW own, NEW depth, Paths(own, depth),
         NEW t \in Threads, Step(t)
  PROVE  Typed'
<1>1. Typed /\ Chain(own, depth)
  BY DEF State, Paths
<1> USE DEF Typed
<1>2. \A l \in Places : Goto(t, l) => at' \in [Threads -> Places]
  BY <1>1, Typing
<1>3. \A h \in Kinds : h \in {"list", "one", "tail"}
  BY PlainFacts
<1>4. ASSUME NEW c \in Coros, New(t, c)
      PROVE  Typed'
  BY <1>1, <1>4, Typing DEF New, view, thread, marks
<1>5. ASSUME NEW c \in Coros, Query(t, c)
      PROVE  Typed'
  <2>1. /\ at' \in [Threads -> Places] /\ calls' \in Nat
        /\ heard' \in [Threads -> [got : Seq(Values), due : Seq(Values)]]
    BY <1>1, <1>2, <1>5, Typing DEF Query, Places
  <2>2. lock' \in [Coros -> Threads \cup {NoOne}] /\ arg' \in [Threads -> Views \cup {NoOne}]
    BY <1>1, <1>5, ViewKinds DEF Query
  <2>3. QED
    BY <1>1, <1>5, <2>1, <2>2 DEF Query, view, marks
<1>6. CASE Answer(t)
  <2>1. at' \in [Threads -> Places]
    BY <1>2, <1>6 DEF Answer, Places
  <2>2. lock' \in [Coros -> Threads \cup {NoOne}] /\ arg' \in [Threads -> Views \cup {NoOne}]
    BY <1>1, <1>6 DEF Answer
  <2>3. QED
    BY <1>1, <1>6, <2>1, <2>2 DEF Answer, view, marks
<1>7. ASSUME NEW c \in Coros, NEW h \in Kinds, Resume(t, c, h)
      PROVE  Typed'
  <2>1. /\ calls' \in Nat /\ frames' \in [Views -> Seq(Frames)]
        /\ heard' \in [Threads -> [got : Seq(Values), due : Seq(Values)]]
    BY <1>1, <1>7, Typing DEF Resume
  <2>2. how' \in [Threads -> {"list", "one", "tail"}]
    BY <1>1, <1>3, <1>7 DEF Resume
  <2>3. CASE lock[c] = NoOne
    <3>1. /\ lock' = [lock EXCEPT ![c] = t] /\ arg' = [arg EXCEPT ![t] = c]
          /\ Goto(t, "resume") /\ UNCHANGED <<runs, err>>
      BY <1>7, <2>3 DEF Resume
    <3>2. at' \in [Threads -> Places]
      BY <1>2, <3>1 DEF Places
    <3>3. lock' \in [Coros -> Threads \cup {NoOne}] /\ arg' \in [Threads -> Views \cup {NoOne}]
      BY <1>1, <3>1, ViewKinds
    <3>4. QED
      BY <1>1, <1>7, <2>1, <2>2, <3>1, <3>2, <3>3 DEF Resume, marks
  <2>4. CASE lock[c] # NoOne
    <3>1. Fail(t, h) /\ UNCHANGED <<lock, arg>>
      BY <1>7, <2>4 DEF Resume
    <3>2. QED
      BY <1>1, <1>7, <2>1, <2>2, <3>1, FailTyped DEF Resume, marks
  <2>5. QED
    BY <2>3, <2>4
<1>8. CASE Resuming(t)
  <2>1. CASE Refuse(t)
    <3>1. /\ lock' = [lock EXCEPT ![arg[t]] = NoOne] /\ Fail(t, how[t])
          /\ arg' = [arg EXCEPT ![t] = NoOne]
          /\ UNCHANGED <<status, returnto, view, due>>
          /\ UNCHANGED <<how, calls, heard, marks>>
      BY <1>8, <2>1 DEF Resuming, Refuse
    <3>2. lock' \in [Coros -> Threads \cup {NoOne}] /\ arg' \in [Threads -> Views \cup {NoOne}]
      BY <1>1, <3>1
    <3>3. QED
      BY <1>1, <3>1, <3>2, FailTyped DEF view, marks
  <2>2. CASE ~ Refuse(t)
    <3>1. /\ at' = [at EXCEPT ![t] = "boing"] /\ arg[t] \in Coros
          /\ want' = [want EXCEPT ![Cur(t)] = how[t]]
          /\ arg' = [arg EXCEPT ![t] = NoOne]
          /\ UNCHANGED <<runs, corotail, runlock, err, how, calls, heard, marks>>
          /\ status' = [status EXCEPT ![arg[t]] = "run"]
          /\ returnto' = [returnto EXCEPT ![arg[t]] = Cur(t)]
          /\ trampoline' = [trampoline EXCEPT ![Cur(t)] = arg[t]]
          /\ lock' = [lock EXCEPT ![arg[t]] = NoOne]
      BY <1>8, <2>2, Resumes
    <3>2. PICK values \in Lists : Begin(t, arg[t], Cur(t), values)
      BY <1>8, <2>2, Resumes
    <3>3. at[t] # "over"
      BY <1>8 DEF Resuming
    <3>4. Cur(t) \in Views /\ arg[t] \in Views
      BY <3>1, <3>3, InRuns, ViewKinds
    <3>5. /\ at' \in [Threads -> Places]
          /\ want' \in [Views -> {"args", "list", "one", "tail"}]
          /\ arg' \in [Threads -> Views \cup {NoOne}]
          /\ status' \in [Coros -> {"none", "init", "run", "yield"} \cup Ended]
          /\ returnto' \in [Coros -> Views \cup {NoOne}]
          /\ trampoline' \in [Views -> Views \cup {NoOne}]
          /\ lock' \in [Coros -> Threads \cup {NoOne}]
      BY <1>1, <3>1, <3>4 DEF Places
    <3>6. due' \in [Views -> Seq(Values)]
      BY <1>1, <3>2, ListValues DEF Begin
    <3>7. sval' \in [Views -> Seq(Values)]
      <4>1. \/ UNCHANGED sval
            \/ sval' = [sval EXCEPT ![arg[t]] = @ \o values]
        BY <3>2 DEF Begin
      <4>2. [sval EXCEPT ![arg[t]] = @ \o values] \in [Views -> Seq(Values)]
        BY <1>1, <3>4, Typing
      <4>3. QED
        BY <1>1, <4>1, <4>2
    <3>8. frames' \in [Views -> Seq(Frames)]
      <4>1. <<"main">> \in Seq(Frames)
        BY DEF Frames
      <4>2. QED
        BY <1>1, <3>2, <4>1 DEF Begin
    <3>9. QED
      BY <1>1, <3>1, <3>5, <3>6, <3>7, <3>8 DEF marks
  <2>3. QED
    BY <2>1, <2>2
<1>9. ASSUME NEW h \in Kinds, Yield(t, h)
      PROVE  Typed'
  <2>1. /\ calls' \in Nat /\ frames' \in [Views -> Seq(Frames)]
        /\ heard' \in [Threads -> [got : Seq(Values), due : Seq(Values)]]
    BY <1>1, <1>9, Typing DEF Yield
  <2>2. how' \in [Threads -> {"list", "one", "tail"}]
    BY <1>1, <1>3, <1>9 DEF Yield
  <2>3. Fail(t, h) \/ (Goto(t, "yield") /\ UNCHANGED <<runs, err>>)
    BY <1>9 DEF Yield
  <2>4. /\ at' \in [Threads -> Places] /\ err' \in [Threads -> BOOLEAN]
        /\ runs' \in [Threads -> Seq(Entry)]
    BY <1>1, <1>2, <2>3, FailTyped DEF Places
  <2>5. QED
    BY <1>1, <1>9, <2>1, <2>2, <2>4 DEF Yield, object, marks
<1>10. CASE Yielding(t)
  <2>1. /\ at' = [at EXCEPT ![t] = "boing"]
        /\ status' = [status EXCEPT ![Cur(t)] = "yield"]
        /\ trampoline' = [trampoline EXCEPT ![Cur(t)] = returnto[Cur(t)]]
        /\ want' = [want EXCEPT ![Cur(t)] = how[t]]
        /\ UNCHANGED <<runs, returnto, lock, corotail, runlock, frames, err, arg,
                       how, calls, heard, marks>>
    BY <1>1, <1>10, Yields
  <2>2. PICK values \in Lists :
              /\ sval' = [sval EXCEPT ![returnto[Cur(t)]] = @ \o values]
              /\ due' = [due EXCEPT ![returnto[Cur(t)]] = values]
    BY <1>1, <1>10, Yields
  <2>3. Cur(t) \in Coros /\ returnto[Cur(t)] \in Views
    <3>1. at[t] \notin Elsewhere /\ at[t] = "yield"
      BY <1>10 DEF Yielding, Elsewhere
    <3>2. Cur(t) \in Coros /\ own[Cur(t)] = t
      BY <1>1, <3>1, Executing DEF Paths, Leaving
    <3>3. QED
      BY <1>1, <3>2, Resumer, ViewKinds
  <2>4. /\ at' \in [Threads -> Places]
        /\ status' \in [Coros -> {"none", "init", "run", "yield"} \cup Ended]
        /\ trampoline' \in [Views -> Views \cup {NoOne}]
        /\ want' \in [Views -> {"args", "list", "one", "tail"}]
    BY <1>1, <2>1, <2>3 DEF Places
  <2>5. sval' \in [Views -> Seq(Values)]
    BY <1>1, <2>2, <2>3, Typing
  <2>6. due' \in [Views -> Seq(Values)]
    BY <1>1, <2>2, ListValues
  <2>7. QED
    BY <1>1, <2>1, <2>4, <2>5, <2>6 DEF marks
<1>11. CASE Boing(t)
  <2>1. at[t] # "over" /\ at' \in [Threads -> Places]
    BY <1>2, <1>11 DEF Boing, Places
  <2>2. Cur(t) \in Views
    BY <2>1, InRuns
  <2>3. /\ corotail' \in [Views -> BOOLEAN] /\ arg' \in [Threads -> Views \cup {NoOne}]
        /\ trampoline' \in [Views -> Views \cup {NoOne}]
    BY <1>1, <1>11, <2>2 DEF Boing
  <2>4. runlock' \in [Views -> Seq(Threads)]
    BY <1>1, <1>11, Typing DEF Boing
  <2>5. bare' \subseteq Views
    BY <1>1, <1>11 DEF Boing, Covered
  <2>6. QED
    BY <1>1, <1>11, <2>1, <2>3, <2>4, <2>5 DEF Boing, object
<1>12. CASE Switch(t)
  <2>1. at[t] = "switch" /\ at[t] # "over" /\ Target(t) = arg[t]
    BY <1>12 DEF Switch, Target
  <2>2. Cur(t) \in Views /\ arg[t] \in Views
    BY <1>1, <2>1, InRuns DEF Chain, Topmost
  <2>3. arg' \in [Threads -> Views \cup {NoOne}]
    BY <1>1, <1>12 DEF Switch
  <2>4. CASE Lockable(arg[t], t)
    <3>1. runlock' = Locked(arg[t], t) /\ runs' = Into(t, arg[t]) /\ GoOn(t, arg[t])
          /\ UNCHANGED <<err, marks>>
      BY <1>12, <2>4 DEF Switch
    <3>2. runlock' \in [Views -> Seq(Threads)]
      BY <1>1, <3>1, Typing
    <3>3. runs' \in [Threads -> Seq(Entry)]
      BY <2>1, <2>2, <3>1, IntoRuns
    <3>4. /\ at' \in [Threads -> Places] /\ sval' \in [Views -> Seq(Values)]
          /\ heard' \in [Threads -> [got : Seq(Values), due : Seq(Values)]]
      BY <1>1, <2>2, <3>1, GoneOn
    <3>5. QED
      BY <1>1, <1>12, <2>3, <3>1, <3>2, <3>3, <3>4 DEF Switch, object, marks
  <2>5. CASE ~ Lockable(arg[t], t)
    <3>1. arg[t] \in Coros
      BY <2>1, <2>5, FailedSwitch
    <3>2. /\ lost' = lost \cup {arg[t]} /\ bare' = bare \cup {Cur(t)}
          /\ Goto(t, "error") /\ err' = [err EXCEPT ![t] = TRUE]
          /\ UNCHANGED <<runlock, runs, sval, heard>>
      BY <1>12, <2>5 DEF Switch
    <3>3. at' \in [Threads -> Places] /\ err' \in [Threads -> BOOLEAN]
      BY <1>1, <1>2, <3>2 DEF Places
    <3>4. QED
      BY <1>1, <1>12, <2>2, <2>3, <3>1, <3>2, <3>3 DEF Switch, object
  <2>6. QED
    BY <2>4, <2>5
<1>13. CASE CallBack(t)
  <2>1. at[t] # "over" /\ runs' = Deeper(t, Cur(t))
    BY <1>13 DEF CallBack, Calling, Deeper
  <2>2. Cur(t) \in Views
    BY <2>1, InRuns
  <2>3. runs' \in [Threads -> Seq(Entry)]
    BY <2>1, DeeperRuns
  <2>4. frames' \in [Views -> Seq(Frames)]
    <3>1. <<"native", "main">> \in Seq(Frames)
      BY DEF Frames
    <3>2. \A w \in Views : frames[w] \o <<"native", "main">> \in Seq(Frames)
      BY <1>1, <3>1, ConcatSeq
    <3>3. QED
      BY <1>1, <1>13, <3>2 DEF CallBack
  <2>5. /\ runlock' \in [Views -> Seq(Threads)] /\ calls' \in Nat
        /\ heard' \in [Threads -> [got : Seq(Values), due : Seq(Values)]]
    BY <1>1, <1>13, Typing DEF CallBack
  <2>6. QED
    BY <1>1, <1>13, <2>3, <2>4, <2>5 DEF CallBack, object, marks
<1>14. CASE Raise(t)
  <2>1. /\ calls' \in Nat
        /\ heard' \in [Threads -> [got : Seq(Values), due : Seq(Values)]]
    BY <1>1, <1>14, Typing DEF Raise
  <2>2. QED
    BY <1>1, <1>14, <2>1, FailTyped DEF Raise, object, view, marks
<1>15. CASE Unwind(t)
  <2>1. /\ at' \in [Threads -> Places] /\ err' \in [Threads -> BOOLEAN]
        /\ frames' \in [Views -> Seq(Frames)]
    <3>1. \/ Goto(t, "code") /\ err' = [err EXCEPT ![t] = FALSE] /\ UNCHANGED frames
          \/ /\ Goto(t, "exit") /\ UNCHANGED err
             /\ frames' = [frames EXCEPT ![Cur(t)] = Front(@)]
      BY <1>15 DEF Unwind
    <3>2. [frames EXCEPT ![Cur(t)] = Front(@)] \in [Views -> Seq(Frames)]
      BY <1>1, Typing
    <3>3. at' \in [Threads -> Places]
      BY <1>2, <3>1 DEF Places
    <3>4. QED
      BY <1>1, <3>1, <3>2, <3>3
  <2>2. QED
    BY <1>1, <1>15, <2>1 DEF Unwind, object, marks
<1>16. CASE Return(t)
  <2>1. /\ at' \in [Threads -> Places] /\ frames' \in [Views -> Seq(Frames)]
        /\ heard' \in [Threads -> [got : Seq(Values), due : Seq(Values)]]
    BY <1>1, <1>2, <1>16, Typing DEF Return, Places
  <2>2. sval' \in [Views -> Seq(Values)] /\ due' \in [Views -> Seq(Values)]
    BY <1>1, <1>16, ListValues DEF Return
  <2>3. QED
    BY <1>1, <1>16, <2>1, <2>2 DEF Return, object, marks
<1>17. CASE Exit(t)
  <2>1. bare' \subseteq Views /\ runlock' \in [Views -> Seq(Threads)]
    BY <1>1, <1>17, Typing DEF Exit, Covered
  <2>2. at[t] \notin Elsewhere /\ at[t] # "over"
    BY <1>17 DEF Exit, Elsewhere
  <2>3. /\ at' \in [Threads -> Places] /\ runs' \in [Threads -> Seq(Entry)]
        /\ sval' \in [Views -> Seq(Values)]
    <3>1. CASE Cur(t) \in Coros /\ Cur(t) # Orig(t)
      BY <1>1, <1>2, <1>17, <3>1 DEF Exit, Places
    <3>2. CASE ~(Cur(t) \in Coros /\ Cur(t) # Orig(t))
      <4>1. Cur(t) = Orig(t)
        BY <1>1, <2>2, <3>2, AboveOrig, ViewKinds
      <4>2. runs' = Shorter(t)
        BY <1>17, <3>2 DEF Exit, Shorter
      <4>3. runs' \in [Threads -> Seq(Entry)]
        BY <2>2, <4>1, <4>2, ShorterRuns
      <4>4. Goto(t, "over") \/ Goto(t, "native")
        BY <1>17, <3>2 DEF Exit
      <4>5. at' \in [Threads -> Places]
        BY <1>2, <4>4 DEF Places
      <4>6. sval' \in [Views -> Seq(Values)]
        <5>1. sval' = [sval EXCEPT ![Cur(t)] = <<>>] /\ <<>> \in Seq(Values)
          BY <1>17, <3>2 DEF Exit
        <5>2. QED
          BY <1>1, <5>1
      <4>7. QED
        BY <4>3, <4>5, <4>6
    <3>3. QED
      BY <3>1, <3>2
  <2>4. QED
    BY <1>1, <1>17, <2>1, <2>3 DEF Exit, object
<1>18. CASE Finish(t)
  <2>1. at[t] = "finish" /\ at[t] # "over" /\ at[t] \notin Elsewhere
    BY <1>18 DEF Finish, Elsewhere
  <2>2. Cur(t) \in Coros /\ own[Cur(t)] = t
    BY <1>1, <2>1, Executing DEF Paths, Leaving
  <2>3. returnto[Cur(t)] \in Views /\ Cur(t) \in Views
    BY <1>1, <2>2, Resumer, ViewKinds
  <2>4. runs' = Into(t, returnto[Cur(t)]) /\ at' \in [Threads -> Places]
    BY <1>2, <1>18 DEF Finish, Places
  <2>5. runs' \in [Threads -> Seq(Entry)]
    BY <2>1, <2>3, <2>4, IntoRuns
  <2>6. /\ status' \in [Coros -> {"none", "init", "run", "yield"} \cup Ended]
        /\ sval' \in [Views -> Seq(Values)] /\ due' \in [Views -> Seq(Values)]
    <3>1. CASE err[t]
      <4>1. status' = [status EXCEPT ![Cur(t)] = "error"] /\ UNCHANGED <<sval, due>>
        BY <1>18, <3>1 DEF Finish
      <4>2. QED
        BY <1>1, <4>1 DEF Ended
    <3>2. CASE ~ err[t]
      <4>1. /\ status' = [status EXCEPT ![Cur(t)] = "done"]
            /\ sval' = [sval EXCEPT ![returnto[Cur(t)]] = @ \o sval[Cur(t)]]
            /\ due' = [due EXCEPT ![returnto[Cur(t)]] = due[Cur(t)]]
        BY <1>18, <3>2 DEF Finish
      <4>2. sval[returnto[Cur(t)]] \o sval[Cur(t)] \in Seq(Values) /\ due[Cur(t)] \in Seq(Values)
        BY <1>1, <2>3, ConcatSeq
      <4>3. QED
        BY <1>1, <4>1, <4>2 DEF Ended
    <3>3. QED
      BY <3>1, <3>2
  <2>7. QED
    BY <1>1, <1>18, <2>4, <2>5, <2>6 DEF Finish, marks
<1>19. CASE Relock(t)
  <2>1. at[t] # "over" /\ runlock' \in [Views -> Seq(Threads)]
    BY <1>1, <1>19, Typing DEF Relock
  <2>2. Cur(t) \in Views
    BY <2>1, InRuns
  <2>3. \/ GoOn(t, Cur(t))
        \/ (Goto(t, "exit") \/ Goto(t, "error")) /\ UNCHANGED <<sval, heard>>
    BY <1>19 DEF Relock
  <2>4. /\ at' \in [Threads -> Places] /\ sval' \in [Views -> Seq(Values)]
        /\ heard' \in [Threads -> [got : Seq(Values), due : Seq(Values)]]
    <3>1. CASE GoOn(t, Cur(t))
      BY <1>1, <2>2, <3>1, GoneOn
    <3>2. CASE ~ GoOn(t, Cur(t))
      BY <1>1, <1>2, <2>3, <3>2 DEF Places
    <3>3. QED
      BY <3>1, <3>2
  <2>5. QED
    BY <1>1, <1>19, <2>1, <2>4 DEF Relock, object, marks
<1>20. CASE Native(t)
  <2>1. frames' \in [Views -> Seq(Frames)]
    BY <1>1, <1>20, Typing DEF Native
  <2>2. /\ at' \in [Threads -> Places] /\ err' \in [Threads -> BOOLEAN]
        /\ runs' \in [Threads -> Seq(Entry)]
    <3>1. CASE Fail(t, "list")
      BY <1>1, <3>1, FailTyped
    <3>2. CASE ~ Fail(t, "list")
      BY <1>1, <1>2, <1>20, <3>2 DEF Native, Places
    <3>3. QED
      BY <3>1, <3>2
  <2>3. QED
    BY <1>1, <1>20, <2>1, <2>2 DEF Native, object, marks
<1>21. QED
  BY <1>4, <1>5, <1>6, <1>7, <1>8, <1>9, <1>10, <1>11, <1>12, <1>13, <1>14,
     <1>15, <1>16, <1>17, <1>18, <1>19, <1>20 DEF Step

-----------------------------------------------------------------------------
(* The locks of coroutines, the unc0_run of a thread, and trampolines.       *)

Asking == {"query", "resume"}

(* A thread locks the coroutine it asks for, and lets go of it.              *)
LEMMA LockMoves ==
  ASSUME Plain, State, NEW t \in Threads, Step(t)
  PROVE  \/ at[t] \notin Asking /\ at'[t] \notin Asking /\ lock' = lock
         \/ /\ at[t] \in Asking /\ at'[t] \notin Asking
            /\ lock' = [lock EXCEPT ![arg[t]] = NoOne]
         \/ /\ at[t] = "code" /\ at'[t] \in Asking
            /\ \E c \in Coros :
                 /\ status[c] # "none" /\ lock[c] = NoOne
                 /\ lock' = [lock EXCEPT ![c] = t] /\ arg'[t] = c
                 /\ status' = status
<1> DEFINE Same == at[t] \notin Asking /\ at'[t] \notin Asking /\ lock' = lock
           Freed == /\ at[t] \in Asking /\ at'[t] \notin Asking
                    /\ lock' = [lock EXCEPT ![arg[t]] = NoOne]
           Take == /\ at[t] = "code" /\ at'[t] \in Asking
                   /\ \E c \in Coros :
                        /\ status[c] # "none" /\ lock[c] = NoOne
                        /\ lock' = [lock EXCEPT ![c] = t] /\ arg'[t] = c
                        /\ status' = status
<1> USE DEF Asking
<1>1. Typed /\ at \in [Threads -> Places] /\ arg \in [Threads -> Views \cup {NoOne}]
  BY DEF State, Typed
<1>2. \A l : Goto(t, l) => at'[t] = l
  BY <1>1 DEF Goto
<1>3. ASSUME NEW h, Fail(t, h)
      PROVE  at'[t] \in {"exit", "error"}
  BY <1>1, <1>3, Failing
<1>4. ASSUME NEW c \in Coros, New(t, c)
      PROVE  Same
  BY <1>4 DEF New, thread
<1>5. ASSUME NEW c \in Coros, Query(t, c)
      PROVE  Take
  <2>1. at[t] = "code" /\ at'[t] = "query" /\ status' = status
    BY <1>2, <1>5 DEF Query, Calling
  <2>2. status[c] # "none" /\ lock[c] = NoOne /\ lock' = [lock EXCEPT ![c] = t] /\ arg'[t] = c
    BY <1>1, <1>5 DEF Query
  <2>3. QED
    BY <2>1, <2>2
<1>6. ASSUME NEW c \in Coros, NEW h \in Kinds, Resume(t, c, h)
      PROVE  Take \/ Same
  <2>1. at[t] = "code" /\ status' = status /\ status[c] # "none"
    BY <1>6 DEF Resume, Calling
  <2>2. CASE lock[c] = NoOne
    <3>1. lock' = [lock EXCEPT ![c] = t] /\ arg'[t] = c /\ at'[t] = "resume"
      BY <1>1, <1>2, <1>6, <2>2 DEF Resume
    <3>2. QED
      BY <2>1, <2>2, <3>1
  <2>3. CASE lock[c] # NoOne
    <3>1. lock' = lock /\ at'[t] \in {"exit", "error"}
      BY <1>3, <1>6, <2>3 DEF Resume
    <3>2. QED
      BY <2>1, <3>1
  <2>4. QED
    BY <2>2, <2>3
<1>7. ASSUME NEW h \in Kinds, Yield(t, h)
      PROVE  Same
  <2>1. at[t] = "code" /\ lock' = lock
    BY <1>7 DEF Yield, Calling, object
  <2>2. Fail(t, h) \/ Goto(t, "yield")
    BY <1>7 DEF Yield
  <2>3. QED
    BY <1>2, <1>3, <2>1, <2>2
<1>8. CASE Answer(t)
  <2>1. at[t] = "query" /\ at'[t] = "code" /\ lock' = [lock EXCEPT ![arg[t]] = NoOne]
    BY <1>2, <1>8 DEF Answer
  <2>2. QED
    BY <2>1
<1>9. CASE Resuming(t)
  <2>1. CASE Refuse(t)
    <3>1. at[t] = "resume" /\ at'[t] \in {"exit", "error"} /\ lock' = [lock EXCEPT ![arg[t]] = NoOne]
      BY <1>3, <1>9, <2>1 DEF Resuming, Refuse
    <3>2. QED
      BY <3>1
  <2>2. CASE ~ Refuse(t)
    <3>1. /\ at[t] = "resume" /\ at' = [at EXCEPT ![t] = "boing"]
          /\ lock' = [lock EXCEPT ![arg[t]] = NoOne]
      BY <1>9, <2>2, Resumes
    <3>2. QED
      BY <1>1, <3>1
  <2>3. QED
    BY <2>1, <2>2
<1>10. CASE Yielding(t) \/ Boing(t)
  BY <1>2, <1>10 DEF Yielding, Boing, object
<1>11. CASE Switch(t)
  <2>1. at'[t] \in {"code", "error"}
    BY <1>2, <1>11 DEF Switch, GoOn
  <2>2. QED
    BY <1>11, <2>1 DEF Switch, object
<1>12. CASE CallBack(t)
  BY <1>12 DEF CallBack, Calling, object
<1>13. CASE Raise(t)
  BY <1>3, <1>13 DEF Raise, Calling, object
<1>14. CASE Unwind(t) \/ Return(t)
  BY <1>2, <1>14 DEF Unwind, Return, object
<1>15. CASE Exit(t)
  <2>1. at'[t] \in {"finish", "over", "native"}
    BY <1>2, <1>15 DEF Exit
  <2>2. QED
    BY <1>15, <2>1 DEF Exit, object
<1>16. CASE Finish(t)
  BY <1>2, <1>16 DEF Finish
<1>17. CASE Relock(t)
  <2>1. at'[t] \in {"exit", "error", "code"}
    BY <1>2, <1>17 DEF Relock, GoOn
  <2>2. QED
    BY <1>17, <2>1 DEF Relock, object
<1>18. CASE Native(t)
  <2>1. at'[t] \in {"exit", "error", "code"}
    BY <1>2, <1>3, <1>18 DEF Native
  <2>2. QED
    BY <1>18, <2>1 DEF Native, object
<1>19. QED
  BY <1>4, <1>5, <1>6, <1>7, <1>8, <1>9, <1>10, <1>11, <1>12, <1>13, <1>14,
     <1>15, <1>16, <1>17, <1>18 DEF Step

LEMMA LocksHeldStep ==
  ASSUME Plain, State, NEW t \in Threads, Step(t)
  PROVE  LocksHeld'
<1>1. /\ \A c \in Coros : lock[c] # NoOne => at[lock[c]] \in Asking /\ arg[lock[c]] = c
      /\ \A u \in Threads : at[u] \in Asking =>
           arg[u] \in Coros /\ lock[arg[u]] = u /\ status[arg[u]] # "none"
  BY DEF State, LocksHeld, Asking
<1>2. \A u \in Threads \ {t} : at'[u] = at[u] /\ arg'[u] = arg[u]
  BY Others DEF State
<1>3. /\ lock \in [Coros -> Threads \cup {NoOne}] /\ NoOne \notin Threads
      /\ status \in [Coros -> {"none", "init", "run", "yield"} \cup Ended]
  BY ViewKinds DEF State, Typed
<1>4. \A c \in Coros : status[c] # "none" => status'[c] # "none"
  BY StatusMoves DEF Ended
<1>5. /\ \A c \in Coros : lock'[c] # NoOne => at'[lock'[c]] \in Asking /\ arg'[lock'[c]] = c
      /\ \A u \in Threads : at'[u] \in Asking =>
           arg'[u] \in Coros /\ lock'[arg'[u]] = u /\ status'[arg'[u]] # "none"
  <2>1. CASE at[t] \notin Asking /\ at'[t] \notin Asking /\ lock' = lock
    BY <1>1, <1>2, <1>3, <1>4, <2>1
  <2>2. CASE /\ at[t] \in Asking /\ at'[t] \notin Asking
             /\ lock' = [lock EXCEPT ![arg[t]] = NoOne]
    <3>1. \A c \in Coros : lock'[c] # NoOne => lock'[c] = lock[c] /\ lock[c] \in Threads \ {t}
      BY <1>1, <1>3, <2>2
    <3>2. \A u \in Threads \ {t} : at[u] \in Asking => arg[u] # arg[t]
      BY <1>1, <2>2
    <3>3. QED
      BY <1>1, <1>2, <1>3, <1>4, <2>2, <3>1, <3>2
  <2>3. CASE /\ at[t] = "code" /\ at'[t] \in Asking
             /\ \E c \in Coros :
                  /\ status[c] # "none" /\ lock[c] = NoOne
                  /\ lock' = [lock EXCEPT ![c] = t] /\ arg'[t] = c
                  /\ status' = status
    <3>1. PICK c \in Coros : /\ status[c] # "none" /\ lock[c] = NoOne
                             /\ lock'[c] = t /\ arg'[t] = c /\ status'[c] # "none"
                             /\ \A d \in Coros : d # c => lock'[d] = lock[d]
      BY <1>3, <2>3
    <3>2. \A u \in Threads \ {t} : at[u] \in Asking => arg[u] # c
      BY <1>1, <1>3, <3>1
    <3>3. at[t] \notin Asking
      BY <2>3 DEF Asking
    <3>4. \A d \in Coros : lock[d] # NoOne => lock[d] \in Threads \ {t}
      BY <1>1, <1>3, <3>3
    <3>5. QED
      BY <1>1, <1>2, <1>3, <1>4, <2>3, <3>1, <3>2, <3>4
  <2>4. QED
    BY <2>1, <2>2, <2>3, LockMoves
<1>6. QED
  BY <1>5 DEF LocksHeld, Asking

(* How an unc0_run begins, goes from view to view, and ends.                 *)
LEMMA RunsMove ==
  ASSUME Plain, State, NEW own, NEW depth, Paths(own, depth),
         NEW t \in Threads, Step(t)
  PROVE  /\ at[t] # "over"
         /\ \/ runs' = runs /\ at'[t] # "over"
            \/ (\E v \in Views : runs' = Into(t, v)) /\ at'[t] # "over"
            \/ runs' = Deeper(t, Cur(t)) /\ Len(runs[t]) < MaxRuns /\ at'[t] # "over"
            \/ /\ runs' = Shorter(t) /\ Cur(t) = Orig(t)
               /\ at'[t] = "over" <=> Len(runs[t]) = 1
<1> DEFINE Same == at[t] # "over" /\ runs' = runs /\ at'[t] # "over"
<1>1. Typed /\ at \in [Threads -> Places]
  BY DEF State, Typed
<1>2. \A l : Goto(t, l) => at'[t] = l
  BY <1>1 DEF Goto
<1>3. CASE Inside(t)
  <2>1. ASSUME NEW h, Fail(t, h)
        PROVE  runs' = runs /\ at'[t] # "over"
    BY <1>1, <2>1, Failing
  <2>2. ASSUME NEW c \in Coros, New(t, c)
        PROVE  Same
    BY <2>2 DEF New, thread
  <2>3. ASSUME NEW c \in Coros, Query(t, c)
        PROVE  Same
    BY <1>2, <2>3 DEF Query, Calling
  <2>4. ASSUME NEW c \in Coros, NEW h \in Kinds, Resume(t, c, h)
        PROVE  Same
    BY <1>2, <2>1, <2>4 DEF Resume, Calling
  <2>5. ASSUME NEW h \in Kinds, Yield(t, h)
        PROVE  Same
    BY <1>2, <2>1, <2>5 DEF Yield, Calling
  <2>6. CASE Answer(t) \/ Return(t) \/ Unwind(t)
    BY <1>2, <2>6 DEF Answer, Return, Unwind
  <2>7. CASE Resuming(t) /\ Refuse(t)
    BY <2>1, <2>7 DEF Resuming, Refuse
  <2>8. CASE Raise(t) \/ Native(t)
    BY <1>2, <2>1, <2>8 DEF Raise, Native, Calling
  <2>9. QED
    BY <1>3, <2>2, <2>3, <2>4, <2>5, <2>6, <2>7, <2>8 DEF Inside
<1>4. CASE Resuming(t) /\ ~ Refuse(t)
  BY <1>1, <1>4, Resumes
<1>5. CASE Yielding(t)
  BY <1>1, <1>5, Yields
<1>6. CASE Boing(t)
  BY <1>2, <1>6 DEF Boing
<1>7. CASE Switch(t)
  <2>1. at[t] = "switch" /\ Target(t) = arg[t] /\ at'[t] \in {"code", "error"}
    BY <1>2, <1>7 DEF Switch, GoOn, Target
  <2>2. arg[t] \in Views
    BY <2>1 DEF Paths, Chain, Topmost
  <2>3. runs' = Into(t, arg[t]) \/ runs' = runs
    BY <1>7 DEF Switch
  <2>4. QED
    BY <2>1, <2>2, <2>3
<1>8. CASE CallBack(t)
  BY <1>8 DEF CallBack, Calling, Deeper
<1>9. CASE Exit(t)
  <2>1. at[t] = "exit" /\ at[t] \notin Elsewhere
    BY <1>9 DEF Exit, Elsewhere
  <2>2. CASE Cur(t) \in Coros /\ Cur(t) # Orig(t)
    BY <1>2, <1>9, <2>1, <2>2 DEF Exit
  <2>3. CASE ~(Cur(t) \in Coros /\ Cur(t) # Orig(t))
    <3>1. Cur(t) = Orig(t)
      BY <2>1, <2>3, AboveOrig, ViewKinds DEF Paths
    <3>2. runs' = Shorter(t) /\ at'[t] = IF Len(runs[t]) = 1 THEN "over" ELSE "native"
      BY <1>2, <1>9, <2>3 DEF Exit, Shorter
    <3>3. QED
      BY <2>1, <3>1, <3>2
  <2>4. QED
    BY <2>2, <2>3
<1>10. CASE Finish(t)
  <2>1. at[t] = "finish" /\ at[t] \notin Elsewhere /\ at'[t] = "relock"
    BY <1>2, <1>10 DEF Finish, Elsewhere
  <2>2. Cur(t) \in Coros /\ own[Cur(t)] = t
    BY <2>1, Executing DEF Paths, Leaving
  <2>3. returnto[Cur(t)] \in Views
    BY <2>2, Resumer, ViewKinds DEF Paths
  <2>4. QED
    BY <1>10, <2>1, <2>3 DEF Finish
<1>11. CASE Relock(t)
  BY <1>2, <1>11 DEF Relock, GoOn
<1>12. QED
  BY <1>3, <1>4, <1>5, <1>6, <1>7, <1>8, <1>9, <1>10, <1>11 DEF Step, Inside

LEMMA RunsLinkedStep ==
  ASSUME Plain, State, NEW own, NEW depth, Paths(own, depth),
         NEW t \in Threads, Step(t)
  PROVE  RunsLinked'
<1> DEFINE Linked(u, s, l) ==
             /\ s = <<>> <=> l = "over"
             /\ Len(s) <= MaxRuns
             /\ s # <<>> => s[1].orig = u
             /\ \A i \in 1..(Len(s) - 1) : s[i].cur = s[i + 1].orig
<1>1. \A u \in Threads : Linked(u, runs[u], at[u])
  BY DEF State, RunsLinked
<1>2. \A u \in Threads \ {t} : at'[u] = at[u] /\ runs'[u] = runs[u]
  BY Others DEF State
<1>3. at[t] # "over"
  BY RunsMove
<1>4. /\ Len(runs[t]) \in Nat /\ Len(runs[t]) >= 1 /\ MaxRuns \in Nat
      /\ runs[t] # <<>> /\ Cur(t) = runs[t][Len(runs[t])].cur
  BY <1>3, InRuns, CoroutineAssumption
<1>5. Linked(t, runs'[t], at'[t])
  <2>1. CASE runs' = runs /\ at'[t] # "over"
    BY <1>1, <1>3, <2>1
  <2>2. ASSUME NEW v \in Views, runs' = Into(t, v), at'[t] # "over"
        PROVE  Linked(t, runs'[t], at'[t])
    <3>1. /\ Len(runs'[t]) = Len(runs[t]) /\ runs'[t] # <<>>
          /\ \A i \in 1..Len(runs[t]) : runs'[t][i].orig = runs[t][i].orig
          /\ \A i \in 1..(Len(runs[t]) - 1) : runs'[t][i] = runs[t][i]
      BY <1>3, <2>2, IntoRuns
    <3>2. \A i \in 1..(Len(runs[t]) - 1) : i + 1 \in 1..Len(runs[t])
      BY <1>4
    <3>3. 1 \in 1..Len(runs[t])
      BY <1>4
    <3>4. QED
      BY <1>1, <1>4, <2>2, <3>1, <3>2, <3>3
  <2>3. CASE runs' = Deeper(t, Cur(t)) /\ Len(runs[t]) < MaxRuns /\ at'[t] # "over"
    <3>1. PICK w \in Views : w = Cur(t)
      BY <1>3, InRuns
    <3>2. runs' = Deeper(t, w)
      BY <2>3, <3>1
    <3>3. /\ Len(runs'[t]) = Len(runs[t]) + 1 /\ runs'[t] # <<>>
          /\ \A i \in 1..Len(runs[t]) : runs'[t][i] = runs[t][i]
          /\ runs'[t][Len(runs[t]) + 1] = Run(w)
      BY <1>3, <3>1, <3>2, DeeperRuns
    <3>4. 1 \in 1..Len(runs[t]) /\ Run(w).orig = w
      BY <1>4 DEF Run
    <3>5. ASSUME NEW i \in 1..Len(runs[t])
          PROVE  runs'[t][i].cur = runs'[t][i + 1].orig
      <4>1. CASE i = Len(runs[t])
        BY <1>4, <3>1, <3>3, <3>4, <4>1
      <4>2. CASE i # Len(runs[t])
        <5>1. i \in 1..(Len(runs[t]) - 1) /\ i + 1 \in 1..Len(runs[t])
          BY <1>4, <4>2
        <5>2. QED
          BY <1>1, <3>3, <5>1
      <4>3. QED
        BY <4>1, <4>2
    <3>6. Len(runs'[t]) - 1 = Len(runs[t]) /\ Len(runs'[t]) <= MaxRuns
      BY <1>4, <2>3, <3>3
    <3>7. runs'[t][1].orig = t
      BY <1>1, <1>4, <3>3, <3>4
    <3>8. QED
      BY <2>3, <3>3, <3>5, <3>6, <3>7
  <2>4. CASE /\ runs' = Shorter(t) /\ Cur(t) = Orig(t)
             /\ at'[t] = "over" <=> Len(runs[t]) = 1
    <3>1. PICK w \in Views : w = Cur(t) /\ w = Orig(t)
      BY <1>3, <2>4, InRuns
    <3>2. /\ Len(runs'[t]) = Len(runs[t]) - 1
          /\ \A i \in 1..(Len(runs[t]) - 1) : runs'[t][i] = runs[t][i]
          /\ Len(runs[t]) = 1 => runs'[t] = <<>>
          /\ Len(runs[t]) # 1 => runs'[t] # <<>>
      BY <1>3, <2>4, <3>1, ShorterRuns
    <3>3. ASSUME NEW i \in 1..(Len(runs'[t]) - 1)
          PROVE  runs'[t][i].cur = runs'[t][i + 1].orig
      <4>1. i \in 1..(Len(runs[t]) - 1) /\ i + 1 \in 1..(Len(runs[t]) - 1)
        BY <1>4, <3>2
      <4>2. /\ runs'[t][i] = runs[t][i] /\ runs'[t][i + 1] = runs[t][i + 1]
            /\ runs[t][i].cur = runs[t][i + 1].orig
        BY <1>1, <3>2, <4>1
      <4>3. QED
        BY <4>2
    <3>4. Len(runs[t]) # 1 => 1 \in 1..(Len(runs[t]) - 1)
      BY <1>4, Previous
    <3>5. runs'[t] # <<>> => runs'[t][1].orig = t
      BY <1>1, <1>4, <3>2, <3>4
    <3>6. Len(runs'[t]) <= MaxRuns
      BY <1>1, <1>4, <3>2
    <3>7. QED
      BY <2>4, <3>2, <3>3, <3>5, <3>6
  <2>5. QED
    BY <2>1, <2>2, <2>3, <2>4, RunsMove
<1>6. \A u \in Threads : Linked(u, runs'[u], at'[u])
  BY <1>1, <1>2, <1>5
<1>7. QED
  BY <1>6 DEF RunsLinked

LEMMA StateStep ==
  ASSUME Plain, State, NEW own, NEW depth, Paths(own, depth),
         NEW t \in Threads, Step(t)
  PROVE  State'
BY TypedStep, LocksHeldStep, RunsLinkedStep DEF State

(* Which views have a trampoline.                                            *)
LEMMA TrampolinesMove ==
  ASSUME Plain, State, NEW own, NEW depth, Paths(own, depth),
         NEW t \in Threads, Step(t)
  PROVE  \/ at[t] # "boing" /\ at'[t] # "boing" /\ trampoline' = trampoline
         \/ /\ at[t] = "boing" /\ at'[t] # "boing" /\ Cur(t) \in Views
            /\ trampoline' = [trampoline EXCEPT ![Cur(t)] = NoOne]
         \/ /\ at[t] # "boing" /\ at'[t] = "boing" /\ Cur(t)' = Cur(t)
            /\ Cur(t) \in Views
            /\ \E v \in Views : trampoline' = [trampoline EXCEPT ![Cur(t)] = v]
<1>1. Typed /\ at \in [Threads -> Places]
  BY DEF State, Typed
<1>2. \A l : Goto(t, l) => at'[t] = l
  BY <1>1 DEF Goto
<1>3. at[t] # "over"
  BY RunsMove
<1>4. Cur(t) \in Views
  BY <1>3, InRuns
<1> DEFINE Same == at[t] # "boing" /\ at'[t] # "boing" /\ trampoline' = trampoline
<1>5. CASE Inside(t)
  <2>1. ASSUME NEW h, Fail(t, h)
        PROVE  at'[t] # "boing"
    BY <1>1, <2>1, Failing
  <2>2. ASSUME NEW c \in Coros, New(t, c)
        PROVE  Same
    BY <2>2 DEF New, thread, view
  <2>3. ASSUME NEW c \in Coros, Query(t, c)
        PROVE  Same
    BY <1>2, <2>3 DEF Query, Calling, view
  <2>4. ASSUME NEW c \in Coros, NEW h \in Kinds, Resume(t, c, h)
        PROVE  Same
    BY <1>2, <2>1, <2>4 DEF Resume, Calling
  <2>5. ASSUME NEW h \in Kinds, Yield(t, h)
        PROVE  Same
    BY <1>2, <2>1, <2>5 DEF Yield, Calling
  <2>6. CASE Answer(t) \/ Return(t) \/ Unwind(t)
    BY <1>2, <2>6 DEF Answer, Return, Unwind, view
  <2>7. CASE Resuming(t) /\ Refuse(t)
    BY <2>1, <2>7 DEF Resuming, Refuse, view
  <2>8. CASE Raise(t) \/ Native(t)
    BY <1>2, <2>1, <2>8 DEF Raise, Native, Calling, view
  <2>9. QED
    BY <1>5, <2>2, <2>3, <2>4, <2>5, <2>6, <2>7, <2>8 DEF Inside
<1>6. CASE Resuming(t) /\ ~ Refuse(t)
  <2>1. /\ at[t] = "resume" /\ at' = [at EXCEPT ![t] = "boing"] /\ arg[t] \in Coros
        /\ trampoline' = [trampoline EXCEPT ![Cur(t)] = arg[t]] /\ runs' = runs
    BY <1>6, Resumes
  <2>2. Cur(t)' = Cur(t) /\ arg[t] \in Views /\ at'[t] = "boing"
    BY <1>1, <2>1, SameRuns, ViewKinds
  <2>3. QED
    BY <1>4, <2>1, <2>2
<1>7. CASE Yielding(t)
  <2>1. /\ at[t] = "yield" /\ at' = [at EXCEPT ![t] = "boing"]
        /\ trampoline' = [trampoline EXCEPT ![Cur(t)] = returnto[Cur(t)]] /\ runs' = runs
    BY <1>1, <1>7, Yields
  <2>2. at[t] \notin Elsewhere
    BY <2>1 DEF Elsewhere
  <2>3. Cur(t) \in Coros /\ own[Cur(t)] = t
    BY <2>1, <2>2, Executing DEF Paths, Leaving
  <2>4. returnto[Cur(t)] \in Views
    BY <2>3, Resumer, ViewKinds DEF Paths
  <2>5. Cur(t)' = Cur(t) /\ at'[t] = "boing"
    BY <1>1, <2>1, SameRuns
  <2>6. QED
    BY <1>4, <2>1, <2>4, <2>5
<1>8. CASE Boing(t)
  BY <1>2, <1>4, <1>8 DEF Boing
<1>9. CASE Switch(t) \/ CallBack(t)
  BY <1>2, <1>9 DEF Switch, GoOn, CallBack, Calling
<1>10. CASE Exit(t) \/ Finish(t) \/ Relock(t)
  BY <1>2, <1>10 DEF Exit, Finish, Relock, GoOn
<1>11. QED
  BY <1>5, <1>6, <1>7, <1>8, <1>9, <1>10 DEF Step, Inside

LEMMA TrampolinesStep ==
  ASSUME Plain, State, Trampolines, NEW own, NEW depth, Paths(own, depth),
         NEW t \in Threads, Step(t)
  PROVE  Trampolines'
<1> SUFFICES ASSUME NEW v \in Views
             PROVE  trampoline'[v] # NoOne <=>
                      \E u \in Threads : at'[u] = "boing" /\ Cur(u)' = v
  BY DEF Trampolines
<1>1. trampoline[v] # NoOne <=> \E u \in Threads : at[u] = "boing" /\ Cur(u) = v
  BY DEF Trampolines
<1>2. \A u \in Threads : u # t => at'[u] = at[u] /\ Cur(u)' = Cur(u)
  BY OthersRuns DEF State
<1>3. trampoline \in [Views -> Views \cup {NoOne}] /\ NoOne \notin Views
  BY ViewKinds DEF State, Typed
<1>4. CASE at[t] # "boing" /\ at'[t] # "boing" /\ trampoline' = trampoline
  BY <1>1, <1>2, <1>4
<1>5. CASE /\ at[t] = "boing" /\ at'[t] # "boing" /\ Cur(t) \in Views
           /\ trampoline' = [trampoline EXCEPT ![Cur(t)] = NoOne]
  <2>1. CASE v = Cur(t)
    <3>1. ASSUME NEW u \in Threads, u # t, at[u] = "boing", Cur(u) = v
          PROVE  FALSE
      <4>1. Here(u, v) /\ Here(t, v)
        BY <1>5, <2>1, <3>1 DEF Here
      <4>2. Count(u, v) > 0 /\ Count(t, v) > 0
        BY <4>1, EarlierFinite DEF State
      <4>3. RunlockedAt(v)
        BY DEF Paths, Runlocked
      <4>4. QED
        BY <3>1, <4>2, <4>3 DEF RunlockedAt, Alone
    <3>2. trampoline'[v] = NoOne
      BY <1>3, <1>5, <2>1
    <3>3. ~ \E u \in Threads : at'[u] = "boing" /\ Cur(u)' = v
      BY <1>2, <1>5, <3>1
    <3>4. QED
      BY <3>2, <3>3
  <2>2. CASE v # Cur(t)
    <3>1. trampoline'[v] = trampoline[v]
      BY <1>3, <1>5, <2>2
    <3>2. QED
      BY <1>1, <1>2, <1>5, <2>2, <3>1
  <2>3. QED
    BY <2>1, <2>2
<1>6. CASE /\ at[t] # "boing" /\ at'[t] = "boing" /\ Cur(t)' = Cur(t)
           /\ Cur(t) \in Views
           /\ \E x \in Views : trampoline' = [trampoline EXCEPT ![Cur(t)] = x]
  <2>1. CASE v = Cur(t)
    <3>1. trampoline'[v] # NoOne
      BY <1>3, <1>6, <2>1
    <3>2. QED
      BY <1>6, <2>1, <3>1
  <2>2. CASE v # Cur(t)
    <3>1. trampoline'[v] = trampoline[v]
      BY <1>3, <1>6, <2>2
    <3>2. QED
      BY <1>1, <1>2, <1>6, <2>2, <3>1
  <2>3. QED
    BY <2>1, <2>2
<1>7. QED
  BY <1>4, <1>5, <1>6, TrampolinesMove

-----------------------------------------------------------------------------
(* The frames of a view.                                                     *)

FramedAt(own, t) ==
  \A v \in Views : own[v] = t /\ at[t] # "over" => frames[v] = Alt(Height(t, v))

LEMMA AltFacts ==
  /\ Alt(0) = <<>> /\ Alt(1) = <<"main">>
  /\ \A n \in Nat : /\ Alt(n) \in Seq(Frames) /\ Len(Alt(n)) = n
                    /\ n > 0 => Front(Alt(n)) = Alt(n - 1)
                    /\ Alt(2 * n + 1) \o <<"native", "main">> = Alt(2 * n + 3)
<1>1. Alt(0) = <<>>
  BY DEF Alt
<1>2. Alt(1) = <<"main">>
  BY DEF Alt
<1>3. ASSUME NEW n \in Nat, n > 0
      PROVE  Front(Alt(n)) = Alt(n - 1)
  <2>1. Len(Alt(n)) = n /\ Alt(n) \in Seq(Frames)
    BY AltLength
  <2>2. Front(Alt(n)) = [i \in 1..(n - 1) |-> Alt(n)[i]]
    BY <1>3, <2>1 DEF Front
  <2>3. \A i \in 1..(n - 1) : Alt(n)[i] = Alt(n - 1)[i]
    BY <1>3 DEF Alt
  <2>4. QED
    BY <1>3, <2>2, <2>3 DEF Alt
<1>4. ASSUME NEW n \in Nat
      PROVE  Alt(2 * n + 1) \o <<"native", "main">> = Alt(2 * n + 3)
  <2> DEFINE s == Alt(2 * n + 1)
             r == <<"native", "main">>
  <2>1. s \in Seq(Frames) /\ Len(s) = 2 * n + 1
    BY AltLength
  <2>2. r \in Seq(Frames) /\ Len(r) = 2 /\ r[1] = "native" /\ r[2] = "main"
    BY DEF Frames
  <2>3. Alt(2 * n + 3) \in Seq(Frames) /\ Len(Alt(2 * n + 3)) = 2 * n + 3
    BY AltLength
  <2>4. \A i \in 1..(2 * n + 1) : s[i] = Alt(2 * n + 3)[i]
    BY DEF Alt
  <2>5. (2 * n + 2) % 2 = 0 /\ (2 * n + 3) % 2 = 1
    OBVIOUS
  <2>6. Alt(2 * n + 3)[2 * n + 2] = "native" /\ Alt(2 * n + 3)[2 * n + 3] = "main"
    BY <2>5 DEF Alt
  <2> HIDE DEF s, r
  <2>7. /\ s \o r \in Seq(Frames) /\ Len(s \o r) = 2 * n + 3
        /\ \A i \in 1..(2 * n + 1) : (s \o r)[i] = s[i]
        /\ (s \o r)[2 * n + 2] = r[1] /\ (s \o r)[2 * n + 3] = r[2]
    <3>1. /\ s \o r \in Seq(Frames) /\ Len(s \o r) = (2 * n + 1) + 2
          /\ \A i \in 1..((2 * n + 1) + 2) :
               (s \o r)[i] = IF i <= 2 * n + 1 THEN s[i] ELSE r[i - (2 * n + 1)]
      <4>1. s \in Seq(Frames) /\ r \in Seq(Frames)
        BY <2>1, <2>2
      <4>2. /\ s \o r \in Seq(Frames) /\ Len(s \o r) = Len(s) + Len(r)
            /\ \A i \in 1..(Len(s) + Len(r)) :
                 (s \o r)[i] = IF i <= Len(s) THEN s[i] ELSE r[i - Len(s)]
        BY <4>1, ConcatProperties
      <4>3. QED
        BY <2>1, <2>2, <4>2
    <3>2. /\ (2 * n + 1) + 2 = 2 * n + 3
          /\ (2 * n + 2) - (2 * n + 1) = 1 /\ (2 * n + 3) - (2 * n + 1) = 2
          /\ 2 * n + 2 \in 1..(2 * n + 3) /\ 2 * n + 3 \in 1..(2 * n + 3)
          /\ ~(2 * n + 2 <= 2 * n + 1) /\ ~(2 * n + 3 <= 2 * n + 1)
          /\ \A i \in 1..(2 * n + 1) : i \in 1..(2 * n + 3) /\ i <= 2 * n + 1
      OBVIOUS
    <3>3. QED
      BY <3>1, <3>2
  <2>8. \A i \in 1..(2 * n + 3) : (s \o r)[i] = Alt(2 * n + 3)[i]
    <3>1. \A i \in 1..(2 * n + 3) :
            i \in 1..(2 * n + 1) \/ i = 2 * n + 2 \/ i = 2 * n + 3
      OBVIOUS
    <3>2. QED
      BY <2>2, <2>4, <2>6, <2>7, <3>1
  <2>9. s \o r = Alt(2 * n + 3)
    BY <2>3, <2>7, <2>8, SeqEqual
  <2>10. QED
    BY <2>9 DEF s, r
<1>5. QED
  BY <1>1, <1>2, <1>3, <1>4, AltLength

(* Frames and corotail decide how many frames a view has, where a thread is. *)
LEMMA HeightKept ==
  ASSUME NEW t \in Threads, NEW v, Before(t, v)' = Before(t, v),
         corotail'[v] = corotail[v], v # Cur(t), v # Cur(t)',
         v = Target(t)' <=> v = Target(t)
  PROVE  Height(t, v)' = Height(t, v)
<1>1. Height(t, v)' = 2 * Before(t, v)' + 1 - (IF v = Target(t)' THEN 0 ELSE IsTail(corotail'[v]))
  BY DEF Height, Cut, IsTail
<1>2. Height(t, v) = 2 * Before(t, v) + 1 - (IF v = Target(t) THEN 0 ELSE IsTail(corotail[v]))
  BY DEF Height, Cut, IsTail
<1>3. QED
  BY <1>1, <1>2

LEMMA FramedOthers ==
  ASSUME Plain, State, NEW own, NEW depth, Paths(own, depth), Framed(own),
         NEW t \in Threads, Step(t), NEW own2, OwnsMove(own, own2, t),
         NEW u \in Threads, u # t
  PROVE  FramedAt(own2, u)'
<1> SUFFICES ASSUME NEW v \in Views, own2[v] = u, at'[u] # "over"
             PROVE  frames'[v] = Alt(Height(u, v)')
  BY DEF FramedAt, Alt
<1>1. own[v] = u
  BY ViewKinds DEF OwnsMove
<1>2. Respects(own, u, v)
  BY <1>1, Respect
<1>3. /\ at'[u] = at[u] /\ how'[u] = how[u] /\ Cur(u)' = Cur(u)
      /\ Before(u, v)' = Before(u, v) /\ Target(u)' = Target(u)
  BY OthersRuns, OthersTarget DEF State, Paths
<1>4. frames[v] = Alt(Height(u, v)) /\ frames'[v] = frames[v]
  BY <1>1, <1>2, <1>3 DEF Framed, Respects
<1>5. Height(u, v)' = Height(u, v)
  <2>1. CASE corotail'[v] = corotail[v]
    <3>1. Cut(u, v)' = Cut(u, v)
      BY <1>3, <2>1 DEF Cut, IsTail
    <3>2. QED
      BY <1>3, <3>1 DEF Height
  <2>2. CASE corotail'[v] # corotail[v]
    <3>1. v = Target(u) /\ v # Cur(u)
      BY <1>2, <2>2 DEF Respects, Entering
    <3>2. Cut(u, v)' = 0 /\ Cut(u, v) = 0
      BY <1>3, <3>1 DEF Cut
    <3>3. QED
      BY <1>3, <3>1, <3>2 DEF Height
  <2>3. QED
    BY <2>1, <2>2
<1>6. QED
  BY <1>4, <1>5

LEMMA FramedCoros ==
  ASSUME Plain, State, NEW own, NEW depth, Paths(own, depth), Framed(own),
         NEW t \in Threads, Step(t), NEW c \in Coros
  PROVE  /\ status'[c] = "yield" => frames'[c] = Alt(1)
         /\ status'[c] \in {"none", "init"} \cup Ended => frames'[c] = <<>>
<1>1. /\ status[c] = "yield" => frames[c] = Alt(1)
      /\ status[c] \in {"none", "init"} \cup Ended => frames[c] = <<>>
  BY DEF Framed
<1>2. status \in [Coros -> {"none", "init", "run", "yield"} \cup Ended]
  BY DEF State, Typed
<1>3. status[c] # "run" => own[c] = NoOne
  BY Unowned DEF Paths
<1>4. ASSUME status[c] # "run",
             ~(at[t] = "resume" /\ status[arg[t]] \in {"init", "yield"} /\ arg[t] = c)
      PROVE  frames'[c] = frames[c]
  BY <1>3, <1>4, Free DEF Frees
<1>5. CASE status'[c] = status[c]
  <2>1. CASE status[c] = "run"
    BY <1>5, <2>1 DEF Ended
  <2>2. CASE status[c] # "run"
    <3>1. CASE at[t] = "resume" /\ status[arg[t]] \in {"init", "yield"} /\ arg[t] = c
      <4>1. Resuming(t)
        <5>1. at[t] \notin {"code", "query", "yield", "boing", "switch", "error", "exit", "finish", "relock", "native"}
          BY <3>1
        <5>2. QED
          BY <5>1 DEF Step, New, Query, Resume, Yield, Calling, Answer, Yielding, Boing,
                      Switch, CallBack, Raise, Unwind, Return, Exit, Finish, Relock, Native
      <4>2. CASE Refuse(t)
        BY <1>1, <1>5, <4>2 DEF Refuse, view
      <4>3. CASE ~ Refuse(t)
        <5>1. status'[c] = "run"
          BY <1>2, <3>1, <4>1, <4>3, Resumes
        <5>2. QED
          BY <1>5, <2>2, <5>1
      <4>4. QED
        BY <4>2, <4>3
    <3>2. CASE ~(at[t] = "resume" /\ status[arg[t]] \in {"init", "yield"} /\ arg[t] = c)
      BY <1>1, <1>4, <1>5, <2>2, <3>2
    <3>3. QED
      BY <3>1, <3>2
  <2>3. QED
    BY <2>1, <2>2
<1>6. CASE status'[c] # status[c]
  <2>1. CASE status[c] = "none" /\ status'[c] = "init"
    <3>1. frames'[c] = frames[c]
      BY <1>4, <2>1
    <3>2. QED
      BY <1>1, <2>1, <3>1 DEF Ended
  <2>2. CASE status'[c] = "run"
    BY <2>2 DEF Ended
  <2>3. CASE Cur(t) = c /\ at[t] = "yield" /\ status'[c] = "yield"
    <3>1. at[t] \notin Elsewhere /\ at[t] # "over"
      BY <2>3 DEF Elsewhere
    <3>2. own[c] = t /\ c \in Views /\ Earlier(t, c) = {}
      BY <2>3, <3>1, Executing DEF Paths, Leaving
    <3>3. Before(t, c) = 0
      BY <3>2, EarlierFinite DEF State
    <3>4. Height(t, c) = 1
      BY <2>3, <3>3 DEF Height, Cut
    <3>5. frames[c] = Alt(1)
      BY <3>1, <3>2, <3>4 DEF Framed
    <3>6. Yielding(t)
      BY <2>3 DEF Step, New, Query, Resume, Yield, Calling, Answer, Resuming, Boing,
                  Switch, CallBack, Raise, Unwind, Return, Exit, Finish, Relock, Native
    <3>7. frames' = frames
      BY <3>6 DEF Yielding
    <3>8. QED
      BY <2>3, <3>5, <3>7 DEF Ended
  <2>4. CASE Cur(t) = c /\ at[t] = "finish" /\ status'[c] \in Ended
    <3>1. at[t] \notin Elsewhere /\ at[t] # "over"
      BY <2>4 DEF Elsewhere
    <3>2. own[c] = t /\ c \in Views /\ Earlier(t, c) = {}
      BY <2>4, <3>1, Executing DEF Paths, Leaving
    <3>3. Before(t, c) = 0
      BY <3>2, EarlierFinite DEF State
    <3>4. Height(t, c) = 0
      BY <2>4, <3>3 DEF Height, Cut
    <3>5. frames[c] = Alt(0)
      BY <3>1, <3>2, <3>4 DEF Framed
    <3>6. Finish(t)
      BY <2>4 DEF Step, New, Query, Resume, Yield, Calling, Answer, Resuming, Boing,
                  Switch, CallBack, Raise, Unwind, Return, Exit, Yielding, Relock, Native
    <3>7. frames' = frames /\ Alt(0) = <<>>
      BY <3>6, AltFacts DEF Finish
    <3>8. QED
      BY <2>4, <3>5, <3>7 DEF Ended
  <2>5. QED
    BY <1>6, <2>1, <2>2, <2>3, <2>4, StatusMoves
<1>7. QED
  BY <1>5, <1>6

LEMMA FramedStep ==
  ASSUME Plain, State, NEW own, NEW depth, Paths(own, depth), Framed(own),
         NEW t \in Threads, Step(t), NEW own2, OwnsMove(own, own2, t),
         FramedAt(own2, t)'
  PROVE  Framed(own2)'
<1>1. \A u \in Threads : FramedAt(own2, u)'
  BY FramedOthers
<1>2. \A c \in Coros :
        /\ status'[c] = "yield" => frames'[c] = Alt(1)
        /\ status'[c] \in {"none", "init"} \cup Ended => frames'[c] = <<>>
  BY FramedCoros
<1>3. QED
  BY <1>1, <1>2 DEF Framed, FramedAt, Alt

(* Steps within a view.                                                      *)
LEMMA InsideFramed ==
  ASSUME Plain, State, NEW own, NEW depth, Paths(own, depth), Framed(own),
         NEW t \in Threads, Step(t), Inside(t), NEW w, w = Cur(t)
  PROVE  FramedAt(own, t)'
<1>1. Local(t) /\ LeavingAt(t)' /\ ResumableAt(t)'
  BY InsideLocal
<1>2. /\ Cur(t)' = w /\ Target(t)' = w
      /\ \A v : Before(t, v)' = Before(t, v)
  BY <1>1, LocalPaths
<1>3. at[t] \notin Elsewhere /\ at[t] # "over" /\ at[t] # "switch" /\ at[t] # "boing"
  BY <1>1 DEF Local, Inner, Elsewhere
<1>4. Target(t) = w /\ own[w] = t /\ w \in Views
  BY <1>3, Executing DEF Paths
<1>5. /\ corotail' = corotail /\ frames \in [Views -> Seq(Frames)] /\ Typed
      /\ at \in [Threads -> Places] /\ how \in [Threads -> {"list", "one", "tail"}]
  BY <1>1 DEF Local, State, Typed
<1>6. PICK b \in Nat : b = Before(t, w)
  BY <1>5, EarlierFinite
<1>7. /\ frames[w] = Alt(Height(t, w)) /\ w \in Views
  BY <1>3, <1>4 DEF Framed
<1>8. /\ at[t] = "native" => frames[w] = Alt(2 * b + 2)
      /\ at[t] = "resume" => frames[w] = Alt(IF how[t] = "tail" THEN 2 * b ELSE 2 * b + 1)
      /\ at[t] \in {"code", "query", "error"} => frames[w] = Alt(2 * b + 1)
  <2>1. /\ 2 * b + 1 - 0 = 2 * b + 1 /\ 2 * b + 1 - 1 = 2 * b
    BY <1>6
  <2>2. at[t] = "native" => Height(t, w) = 2 * b + 2
    BY <1>6 DEF Height
  <2>3. at[t] = "resume" => Height(t, w) = IF how[t] = "tail" THEN 2 * b ELSE 2 * b + 1
    BY <1>6, <2>1 DEF Height, Cut, IsTail
  <2>4. at[t] \in {"code", "query", "error"} => Height(t, w) = 2 * b + 1
    BY <1>6, <2>1 DEF Height, Cut
  <2>5. QED
    BY <1>7, <2>2, <2>3, <2>4
<1>9. Front(Alt(2 * b + 1)) = Alt(2 * b) /\ Front(Alt(2 * b + 2)) = Alt(2 * b + 1)
  <2>1. /\ 2 * b + 1 \in Nat /\ 2 * b + 1 > 0 /\ (2 * b + 1) - 1 = 2 * b
        /\ 2 * b + 2 \in Nat /\ 2 * b + 2 > 0 /\ (2 * b + 2) - 1 = 2 * b + 1
    OBVIOUS
  <2>2. QED
    BY <2>1, AltFacts
<1> DEFINE Right ==
             /\ \A v \in Views : v # w => frames'[v] = frames[v]
             /\ \/ at'[t] = "exit" /\ frames'[w] = Alt(2 * b)
                \/ /\ at'[t] = "resume"
                   /\ frames'[w] = Alt(IF how'[t] = "tail" THEN 2 * b ELSE 2 * b + 1)
                \/ at'[t] \in {"code", "query", "error", "yield"} /\ frames'[w] = Alt(2 * b + 1)
<1>10. \A l : Goto(t, l) => at'[t] = l
  BY <1>5 DEF Goto
<1>11. ASSUME NEW h, Fail(t, h)
       PROVE  at'[t] = IF h = "tail" THEN "exit" ELSE "error"
  BY <1>5, <1>11, Failing
<1>12. ASSUME NEW h, Leave(w, h), frames[w] = Alt(2 * b + 1)
       PROVE  /\ \A v \in Views : v # w => frames'[v] = frames[v]
              /\ frames'[w] = Alt(IF h = "tail" THEN 2 * b ELSE 2 * b + 1)
  BY <1>4, <1>5, <1>9, <1>12 DEF Leave
<1>13. Right
  <2>1. ASSUME NEW c \in Coros, New(t, c)
        PROVE  Right
    BY <1>8, <2>1 DEF New, thread, view
  <2>2. ASSUME NEW c \in Coros, Query(t, c)
        PROVE  Right
    BY <1>8, <1>10, <2>2 DEF Query, Calling, view
  <2>3. ASSUME NEW c \in Coros, NEW h \in Kinds, Resume(t, c, h)
        PROVE  Right
    <3>1. at[t] = "code" /\ Leave(w, h) /\ how'[t] = h
      BY <1>5, <2>3 DEF Resume, Calling
    <3>2. at'[t] = "resume" \/ at'[t] = IF h = "tail" THEN "exit" ELSE "error"
      BY <1>10, <1>11, <2>3 DEF Resume
    <3>3. QED
      BY <1>8, <1>12, <3>1, <3>2
  <2>4. ASSUME NEW h \in Kinds, Yield(t, h)
        PROVE  Right
    <3>1. at[t] = "code" /\ Leave(w, h)
      BY <2>4 DEF Yield, Calling
    <3>2. \/ at'[t] = IF h = "tail" THEN "exit" ELSE "error"
          \/ at'[t] = "yield" /\ h # "tail"
      BY <1>10, <1>11, <2>4, PlainFacts DEF Yield
    <3>3. QED
      BY <1>8, <1>12, <3>1, <3>2
  <2>5. CASE Answer(t)
    BY <1>8, <1>10, <2>5 DEF Answer, view
  <2>6. CASE Resuming(t) /\ Refuse(t)
    BY <1>8, <1>11, <2>6 DEF Resuming, Refuse, view
  <2>7. CASE Raise(t)
    BY <1>8, <1>11, <2>7 DEF Raise, Calling, view
  <2>8. CASE Unwind(t)
    BY <1>4, <1>5, <1>8, <1>9, <1>10, <2>8 DEF Unwind
  <2>9. CASE Return(t)
    BY <1>4, <1>5, <1>8, <1>9, <1>10, <2>9 DEF Return
  <2>10. CASE Native(t)
    BY <1>4, <1>5, <1>8, <1>9, <1>10, <1>11, <2>10 DEF Native
  <2>11. QED
    BY <2>1, <2>2, <2>3, <2>4, <2>5, <2>6, <2>7, <2>8, <2>9, <2>10 DEF Inside
<1>14. frames'[w] = Alt(Height(t, w)')
  <2>1. /\ 2 * b + 1 - 0 = 2 * b + 1 /\ 2 * b + 1 - 1 = 2 * b /\ Before(t, w)' = b
    BY <1>2, <1>6
  <2>2. CASE at'[t] = "exit" /\ frames'[w] = Alt(2 * b)
    <3>1. Height(t, w)' = 2 * b
      BY <1>2, <2>1, <2>2 DEF Height, Cut
    <3>2. QED
      BY <2>2, <3>1
  <2>3. CASE /\ at'[t] = "resume"
             /\ frames'[w] = Alt(IF how'[t] = "tail" THEN 2 * b ELSE 2 * b + 1)
    <3>1. Height(t, w)' = IF how'[t] = "tail" THEN 2 * b ELSE 2 * b + 1
      BY <1>2, <2>1, <2>3 DEF Height, Cut, IsTail
    <3>2. QED
      BY <2>3, <3>1
  <2>4. CASE at'[t] \in {"code", "query", "error", "yield"} /\ frames'[w] = Alt(2 * b + 1)
    <3>1. Height(t, w)' = 2 * b + 1
      BY <1>2, <2>1, <2>4 DEF Height, Cut
    <3>2. QED
      BY <2>4, <3>1
  <2>5. QED
    BY <1>13, <2>2, <2>3, <2>4
<1>15. ASSUME NEW v \in Views, own[v] = t, v # w
       PROVE  frames'[v] = Alt(Height(t, v)')
  <2>1. Height(t, v)' = Height(t, v)
    BY <1>2, <1>4, <1>5, <1>15, HeightKept
  <2>2. frames[v] = Alt(Height(t, v))
    BY <1>3, <1>15 DEF Framed
  <2>3. QED
    BY <1>13, <1>15, <2>1, <2>2
<1>16. QED
  BY <1>14, <1>15 DEF FramedAt, Alt

(* Steps from view to view.                                                  *)
LEMMA ResumesFramed ==
  ASSUME Plain, State, NEW own, NEW depth, Paths(own, depth), Framed(own),
         NEW t \in Threads, Step(t), Resuming(t), ~ Refuse(t),
         NEW own2, NEW depth2, Mapped(own2, depth2), NEW c, c = arg[t],
         own2[c] = t, depth2[c] = depth[Cur(t)] + 1,
         \A v \in Views : v # c => own2[v] = own[v] /\ depth2[v] = depth[v]
  PROVE  FramedAt(own2, t)'
<1>1. /\ Cur(t) # c /\ Cur(t)' = Cur(t) /\ Target(t)' = c /\ Earlier(t, c) = {}
      /\ own[c] = NoOne
  BY ResumesPaths
<1>2. /\ at[t] = "resume" /\ at'[t] = "boing" /\ c \in Coros /\ how'[t] = how[t]
      /\ status[c] \in {"init", "yield"} /\ corotail' = corotail /\ runs' = runs
      /\ \E values \in Lists : Begin(t, c, Cur(t), values)
  BY Resumes DEF State, Typed
<1>3. at[t] \notin Elsewhere /\ at[t] # "over"
  BY <1>2 DEF Elsewhere
<1>4. Target(t) = Cur(t) /\ own[Cur(t)] = t /\ Cur(t) \in Views /\ c \in Views
  BY <1>2, <1>3, Executing, ViewKinds DEF Paths
<1>5. \A v : Before(t, v)' = Before(t, v)
  BY <1>2, SameRuns
<1>6. Before(t, c) = 0 /\ Typed
  BY <1>1, EarlierFinite DEF State
<1>7. /\ \A v \in Views : v # c => frames'[v] = frames[v]
      /\ frames'[c] = Alt(1)
  <2>1. frames \in [Views -> Seq(Frames)]
    BY DEF State, Typed
  <2>2. CASE status[c] = "init"
    <3>1. frames' = [frames EXCEPT ![c] = <<"main">>]
      BY <1>2, <2>2 DEF Begin
    <3>2. QED
      BY <1>4, <2>1, <3>1, AltFacts
  <2>3. CASE status[c] = "yield"
    <3>1. frames' = frames
      BY <1>2, <2>3 DEF Begin
    <3>2. QED
      BY <1>2, <2>3, <3>1 DEF Framed
  <2>4. QED
    BY <1>2, <2>2, <2>3
<1>8. ASSUME NEW v \in Views, own2[v] = t
      PROVE  frames'[v] = Alt(Height(t, v)')
  <2>1. CASE v = c
    <3>1. Height(t, c)' = 1
      BY <1>1, <1>5, <1>6 DEF Height, Cut
    <3>2. QED
      BY <1>7, <2>1, <3>1
  <2>2. CASE v # c
    <3>1. frames[v] = Alt(Height(t, v))
      BY <1>3, <1>8, <2>2 DEF Framed
    <3>2. Height(t, v)' = Height(t, v)
      <4>1. CASE v = Cur(t)
        <5>1. Height(t, v) = 2 * Before(t, v) + 1 - IsTail(how[t] = "tail")
          BY <1>2, <4>1 DEF Height, Cut
        <5>2. Height(t, v)' = 2 * Before(t, v)' + 1 - IsTail(how'[t] = "tail")
          BY <1>1, <1>2, <4>1 DEF Height, Cut, IsTail
        <5>3. QED
          BY <1>2, <1>5, <5>1, <5>2
      <4>2. CASE v # Cur(t)
        BY <1>1, <1>2, <1>4, <1>5, <2>2, <4>2, HeightKept
      <4>3. QED
        BY <4>1, <4>2
    <3>3. QED
      BY <1>7, <2>2, <3>1, <3>2
  <2>3. QED
    BY <2>1, <2>2
<1>9. QED
  BY <1>8 DEF FramedAt, Alt

LEMMA YieldingFramed ==
  ASSUME Plain, State, NEW own, NEW depth, Paths(own, depth), Framed(own),
         NEW t \in Threads, Step(t), Yielding(t),
         NEW w, w = Cur(t), NEW own2, Mapped(own2, depth), own2[w] = NoOne,
         \A v \in Views : v # w => own2[v] = own[v]
  PROVE  FramedAt(own2, t)'
<1>1. /\ returnto[w] \in Views /\ own[returnto[w]] = t /\ returnto[w] # w
      /\ Target(t) = w /\ Cur(t)' = w /\ Target(t)' = returnto[w]
      /\ \A v : Before(t, v)' = Before(t, v)
      /\ ~ corotail[returnto[w]]
  BY YieldingPaths
<1>2. /\ at[t] = "yield" /\ at[t] # "over" /\ corotail' = corotail /\ frames' = frames
  BY Yields DEF State
<1>3. ASSUME NEW v \in Views, own2[v] = t
      PROVE  frames'[v] = Alt(Height(t, v)')
  <2>1. v # w /\ own[v] = t
    BY <1>3, ViewKinds
  <2>2. frames[v] = Alt(Height(t, v))
    BY <1>2, <2>1 DEF Framed
  <2>3. Height(t, v)' = Height(t, v)
    <3>1. CASE v = returnto[w]
      <4>1. Height(t, v) = 2 * Before(t, v) + 1 - 0
        BY <1>1, <2>1, <3>1 DEF Height, Cut, IsTail
      <4>2. Height(t, v)' = 2 * Before(t, v)' + 1 - 0
        BY <1>1, <2>1, <3>1 DEF Height, Cut
      <4>3. QED
        BY <1>1, <4>1, <4>2
    <3>2. CASE v # returnto[w]
      BY <1>1, <1>2, <2>1, <3>2, HeightKept
    <3>3. QED
      BY <3>1, <3>2
  <2>4. QED
    BY <1>2, <2>2, <2>3
<1>4. QED
  BY <1>3 DEF FramedAt, Alt

LEMMA BoingFramed ==
  ASSUME Plain, State, NEW own, NEW depth, Paths(own, depth), Framed(own),
         NEW t \in Threads, Step(t), Boing(t), NEW w, w = Cur(t)
  PROVE  FramedAt(own, t)'
<1>1. /\ Cur(t)' = w /\ Target(t)' = Target(t)
      /\ \A v : Before(t, v)' = Before(t, v)
  BY BoingPaths
<1>2. /\ at[t] = "boing" /\ at'[t] = "switch" /\ how'[t] = how[t] /\ frames' = frames
      /\ \A v \in Views : v # w => corotail'[v] = corotail[v]
  BY DEF Boing, Goto, State, Typed
<1>3. ASSUME NEW v \in Views, own[v] = t
      PROVE  frames'[v] = Alt(Height(t, v)')
  <2>1. frames[v] = Alt(Height(t, v))
    BY <1>2, <1>3 DEF Framed
  <2>2. Height(t, v)' = Height(t, v)
    <3>1. CASE v = w
      <4>1. Height(t, v) = 2 * Before(t, v) + 1 - IsTail(how[t] = "tail")
        BY <1>2, <3>1 DEF Height, Cut
      <4>2. Height(t, v)' = 2 * Before(t, v)' + 1 - IsTail(how'[t] = "tail")
        BY <1>1, <1>2, <3>1 DEF Height, Cut, IsTail
      <4>3. QED
        BY <1>1, <1>2, <4>1, <4>2
    <3>2. CASE v # w
      BY <1>1, <1>2, <3>2, HeightKept
    <3>3. QED
      BY <3>1, <3>2
  <2>3. QED
    BY <1>2, <2>1, <2>2
<1>4. QED
  BY <1>3 DEF FramedAt, Alt

LEMMA SwitchFramed ==
  ASSUME Plain, State, NEW own, NEW depth, Paths(own, depth), Framed(own),
         NEW t \in Threads, Step(t), Switch(t), NEW x, x = arg[t], Lockable(x, t)
  PROVE  FramedAt(own, t)'
<1>1. /\ x \in Views /\ own[x] = t
      /\ Target(t) = x /\ Cur(t)' = x /\ Target(t)' = x
      /\ \A v : Before(t, v)' = Before(t, v)
  BY SwitchPaths
<1>2. /\ at[t] = "switch" /\ at[t] # "over" /\ at'[t] = "code" /\ frames' = frames
      /\ corotail' = corotail
  BY DEF Switch, GoOn, Goto, State, Typed
<1>3. own[Cur(t)] = t => Up(t)
  BY <1>2 DEF Paths, Switching
<1>4. x # Cur(t)
  <2>1. CASE own[Cur(t)] = t
    <3>1. x \in Coros /\ returnto[x] = Cur(t)
      BY <1>1, <1>3, <2>1 DEF Up
    <3>2. QED
      BY <1>1, <3>1, Resumer, ViewKinds DEF Paths
  <2>2. QED
    BY <1>1, <2>1
<1>5. ASSUME NEW v \in Views, own[v] = t
      PROVE  frames'[v] = Alt(Height(t, v)')
  <2>1. frames[v] = Alt(Height(t, v))
    BY <1>2, <1>5 DEF Framed
  <2>2. Height(t, v)' = Height(t, v)
    <3>1. CASE v = x
      <4>1. Height(t, v) = 2 * Before(t, v) + 1 - 0
        BY <1>1, <1>4, <3>1 DEF Height, Cut
      <4>2. Height(t, v)' = 2 * Before(t, v)' + 1 - 0
        BY <1>1, <1>2, <3>1 DEF Height, Cut
      <4>3. QED
        BY <1>1, <4>1, <4>2
    <3>2. CASE v = Cur(t)
      <4>1. corotail[v] = (how[t] = "tail")
        BY <1>2, <1>3, <1>5, <3>2 DEF Up
      <4>2. Height(t, v) = 2 * Before(t, v) + 1 - IsTail(how[t] = "tail")
        BY <1>2, <3>2 DEF Height, Cut
      <4>3. Height(t, v)' = 2 * Before(t, v)' + 1 - IsTail(corotail'[v])
        BY <1>1, <1>4, <3>2 DEF Height, Cut, IsTail
      <4>4. QED
        BY <1>1, <1>2, <4>1, <4>2, <4>3
    <3>3. CASE v # x /\ v # Cur(t)
      BY <1>1, <1>2, <3>3, HeightKept
    <3>4. QED
      BY <3>1, <3>2, <3>3
  <2>3. QED
    BY <1>2, <2>1, <2>2
<1>6. QED
  BY <1>5 DEF FramedAt, Alt

LEMMA LosingFramed ==
  ASSUME Plain, State, NEW own, NEW depth, Paths(own, depth), Framed(own),
         NEW t \in Threads, Step(t), Switch(t), NEW c, c = arg[t], ~ Lockable(c, t),
         NEW own2, Mapped(own2, depth), own2[c] = NoOne,
         \A v \in Views : v # c => own2[v] = own[v]
  PROVE  FramedAt(own2, t)'
<1>1. /\ Target(t) = c /\ Cur(t) # c /\ how[t] # "tail"
      /\ Cur(t)' = Cur(t) /\ Target(t)' = Cur(t)
      /\ \A v : Before(t, v)' = Before(t, v)
  BY LosingPaths
<1>2. /\ at[t] = "switch" /\ at[t] # "over" /\ at'[t] = "error" /\ frames' = frames
      /\ corotail' = corotail
  BY DEF Switch, Goto, State, Typed
<1>3. ASSUME NEW v \in Views, own2[v] = t
      PROVE  frames'[v] = Alt(Height(t, v)')
  <2>1. v # c /\ own[v] = t
    BY <1>3, ViewKinds
  <2>2. frames[v] = Alt(Height(t, v))
    BY <1>2, <2>1 DEF Framed
  <2>3. Height(t, v)' = Height(t, v)
    <3>1. CASE v = Cur(t)
      <4>1. Height(t, v) = 2 * Before(t, v) + 1 - 0
        BY <1>1, <1>2, <3>1 DEF Height, Cut, IsTail
      <4>2. Height(t, v)' = 2 * Before(t, v)' + 1 - 0
        BY <1>1, <1>2, <3>1 DEF Height, Cut
      <4>3. QED
        BY <1>1, <4>1, <4>2
    <3>2. CASE v # Cur(t)
      BY <1>1, <1>2, <2>1, <3>2, HeightKept
    <3>3. QED
      BY <3>1, <3>2
  <2>4. QED
    BY <1>2, <2>2, <2>3
<1>4. QED
  BY <1>3 DEF FramedAt, Alt

LEMMA CallBackFramed ==
  ASSUME Plain, State, NEW own, NEW depth, Paths(own, depth), Framed(own),
         NEW t \in Threads, Step(t), CallBack(t), NEW w, w = Cur(t)
  PROVE  FramedAt(own, t)'
<1>1. /\ w \in Views /\ own[w] = t
      /\ Target(t) = w /\ Cur(t)' = w /\ Target(t)' = w
      /\ Before(t, w)' = Before(t, w) + 1
      /\ \A x : x # w => Before(t, x)' = Before(t, x)
  BY CallBackPaths
<1>2. /\ at[t] = "code" /\ at[t] # "over" /\ at'[t] = "code" /\ corotail' = corotail
      /\ frames' = [frames EXCEPT ![w] = @ \o <<"native", "main">>]
  BY DEF CallBack, Calling
<1>3. /\ frames'[w] = frames[w] \o <<"native", "main">>
      /\ \A v \in Views : v # w => frames'[v] = frames[v]
  BY <1>1, <1>2 DEF State, Typed
<1>4. ASSUME NEW v \in Views, own[v] = t
      PROVE  frames'[v] = Alt(Height(t, v)')
  <2>1. frames[v] = Alt(Height(t, v))
    BY <1>2, <1>4 DEF Framed
  <2>2. CASE v = w
    <3>1. PICK b \in Nat : b = Before(t, w)
      BY EarlierFinite DEF State
    <3>2. Height(t, w) = 2 * b + 1
      BY <1>2, <2>2, <3>1 DEF Height, Cut
    <3>3. Height(t, w)' = 2 * (b + 1) + 1
      BY <1>1, <1>2, <2>2, <3>1 DEF Height, Cut
    <3>4. 2 * (b + 1) + 1 = 2 * b + 3
      BY <3>1
    <3>5. QED
      BY <1>3, <2>1, <2>2, <3>2, <3>3, <3>4, AltFacts
  <2>3. CASE v # w
    <3>1. Height(t, v)' = Height(t, v)
      BY <1>1, <1>2, <2>3, HeightKept
    <3>2. QED
      BY <1>3, <2>1, <2>3, <3>1
  <2>4. QED
    BY <2>2, <2>3
<1>5. QED
  BY <1>4 DEF FramedAt, Alt

LEMMA ExitFramed ==
  ASSUME Plain, State, NEW own, NEW depth, Paths(own, depth), Framed(own),
         NEW t \in Threads, Step(t), Exit(t), NEW w, w = Cur(t)
  PROVE  FramedAt(own, t)'
<1>1. /\ at[t] = "exit" /\ at[t] # "over" /\ frames' = frames /\ corotail' = corotail
      /\ at[t] \notin Elsewhere
  BY DEF Exit, Elsewhere
<1>2. w \in Views /\ own[w] = t /\ Target(t) = w /\ Typed
  BY <1>1, Executing DEF Paths, State
<1>3. PICK b \in Nat : b = Before(t, w)
  BY <1>2, EarlierFinite
<1>4. Height(t, w) = 2 * b + 1 - 1
  BY <1>1, <1>3 DEF Height, Cut
<1>5. \A v \in Views : own[v] = t => frames[v] = Alt(Height(t, v))
  BY <1>1 DEF Framed
<1>6. CASE w \in Coros /\ w # Orig(t)
  <2>1. Cur(t)' = w /\ Target(t)' = w /\ \A v : Before(t, v)' = Before(t, v)
    BY <1>6, EndingPaths
  <2>2. at'[t] = "finish"
    BY <1>6 DEF Exit, Goto, State, Typed
  <2>3. Height(t, w)' = 2 * b + 1 - 1
    BY <1>3, <2>1, <2>2 DEF Height, Cut
  <2>4. ASSUME NEW v \in Views, v # w
        PROVE  Height(t, v)' = Height(t, v)
    BY <1>1, <1>2, <2>1, <2>4, HeightKept
  <2>5. QED
    BY <1>1, <1>4, <1>5, <2>3, <2>4 DEF FramedAt, Alt
<1>7. CASE ~(w \in Coros /\ w # Orig(t))
  <2>1. at'[t] = IF Len(runs[t]) = 1 THEN "over" ELSE "native"
    BY <1>7 DEF Exit, Goto, State, Typed
  <2>2. CASE Len(runs[t]) = 1
    BY <2>1, <2>2 DEF FramedAt
  <2>3. CASE Len(runs[t]) # 1
    <3>1. /\ Cur(t)' = w /\ Target(t)' = w /\ Before(t, w) = Before(t, w)' + 1
          /\ \A x : x # w => Before(t, x)' = Before(t, x)
      BY <1>7, <2>3, ReturningPaths
    <3>2. Before(t, w)' \in Nat
      <4>1. Typed'
        BY TypedStep
      <4>2. runs' \in [Threads -> Seq(Entry)]
        BY <4>1 DEF Typed
      <4>3. Len(runs'[t]) - 1 \in Int
        BY <4>2
      <4>4. IsFiniteSet(1..(Len(runs'[t]) - 1))
        BY <4>3, FS_Interval
      <4>5. Earlier(t, w)' \subseteq 1..(Len(runs'[t]) - 1)
        BY DEF Earlier
      <4>6. IsFiniteSet(Earlier(t, w)')
        BY <4>4, <4>5, FS_Subset
      <4>7. QED
        BY <4>6, FS_CardinalityType DEF Before
    <3>3. Height(t, w)' = 2 * Before(t, w)' + 2
      BY <2>1, <2>3, <3>1 DEF Height
    <3>4. Height(t, w)' = 2 * b + 1 - 1
      BY <1>3, <3>1, <3>2, <3>3
    <3>5. ASSUME NEW v \in Views, v # w
          PROVE  Height(t, v)' = Height(t, v)
      BY <1>1, <1>2, <3>1, <3>5, HeightKept
    <3>6. QED
      BY <1>1, <1>4, <1>5, <3>4, <3>5 DEF FramedAt, Alt
  <2>4. QED
    BY <2>2, <2>3
<1>8. QED
  BY <1>6, <1>7

LEMMA FinishingFramed ==
  ASSUME Plain, State, NEW own, NEW depth, Paths(own, depth), Framed(own),
         NEW t \in Threads, Step(t), Finish(t), NEW w, w = Cur(t),
         NEW own2, Mapped(own2, depth), own2[w] = NoOne,
         \A v \in Views : v # w => own2[v] = own[v]
  PROVE  FramedAt(own2, t)'
<1>1. /\ returnto[w] # w /\ Target(t) = w
      /\ Cur(t)' = returnto[w] /\ Target(t)' = returnto[w]
      /\ \A v : Before(t, v)' = Before(t, v)
  BY FinishingPaths
<1>2. /\ at[t] = "finish" /\ at[t] # "over" /\ at'[t] = "relock" /\ frames' = frames
      /\ corotail' = corotail
  BY DEF Finish, Goto, State, Typed
<1>3. ASSUME NEW v \in Views, own2[v] = t
      PROVE  frames'[v] = Alt(Height(t, v)')
  <2>1. v # w /\ own[v] = t
    BY <1>3, ViewKinds
  <2>2. frames[v] = Alt(Height(t, v))
    BY <1>2, <2>1 DEF Framed
  <2>3. Height(t, v)' = Height(t, v)
    <3>1. CASE v = returnto[w]
      <4>1. Height(t, v) = 2 * Before(t, v) + 1 - IsTail(corotail[v])
        BY <1>1, <2>1 DEF Height, Cut, IsTail
      <4>2. Height(t, v)' = 2 * Before(t, v)' + 1 - IsTail(corotail'[v])
        BY <1>1, <1>2, <3>1 DEF Height, Cut, IsTail
      <4>3. QED
        BY <1>1, <1>2, <4>1, <4>2
    <3>2. CASE v # returnto[w]
      BY <1>1, <1>2, <2>1, <3>2, HeightKept
    <3>3. QED
      BY <3>1, <3>2
  <2>4. QED
    BY <1>2, <2>2, <2>3
<1>4. QED
  BY <1>3 DEF FramedAt, Alt

LEMMA RelockFramed ==
  ASSUME Plain, State, NEW own, NEW depth, Paths(own, depth), Framed(own),
         NEW t \in Threads, Step(t), Relock(t), NEW w, w = Cur(t)
  PROVE  FramedAt(own, t)'
<1>1. /\ w \in Views /\ own[w] = t
      /\ Target(t) = w /\ Cur(t)' = w /\ Target(t)' = w
      /\ \A v : Before(t, v)' = Before(t, v)
  BY RelockPaths
<1>2. /\ at[t] = "relock" /\ at[t] # "over" /\ frames' = frames /\ corotail' = corotail
      /\ IF corotail[w] THEN at'[t] = "exit" ELSE at'[t] \in {"code", "error"}
  BY DEF Relock, GoOn, Goto, State, Typed
<1>3. ASSUME NEW v \in Views, own[v] = t
      PROVE  frames'[v] = Alt(Height(t, v)')
  <2>1. frames[v] = Alt(Height(t, v))
    BY <1>2, <1>3 DEF Framed
  <2>2. Height(t, v)' = Height(t, v)
    <3>1. CASE v = w
      <4>1. Height(t, v) = 2 * Before(t, v) + 1 - IsTail(corotail[v])
        BY <1>2, <3>1 DEF Height, Cut, IsTail
      <4>2. Height(t, v)' = 2 * Before(t, v)' + 1 - IsTail(corotail[v])
        BY <1>1, <1>2, <3>1 DEF Height, Cut, IsTail
      <4>3. QED
        BY <1>1, <4>1, <4>2
    <3>2. CASE v # w
      BY <1>1, <1>2, <3>2, HeightKept
    <3>3. QED
      BY <3>1, <3>2
  <2>3. QED
    BY <1>2, <2>1, <2>2
<1>4. QED
  BY <1>3 DEF FramedAt, Alt

-----------------------------------------------------------------------------
(* Errors, and what is on the stacks, when results are lists.                *)

LEMMA ErrorsStep ==
  ASSUME Plain, State, Errors, NEW t \in Threads, Step(t)
  PROVE  Errors'
<1> DEFINE Right ==
      /\ at'[t] = "error" => err'[t]
      /\ at'[t] \in {"code", "query", "resume", "yield", "boing", "switch"} => ~ err'[t]
<1>1. Typed /\ at \in [Threads -> Places] /\ err \in [Threads -> BOOLEAN]
  BY DEF State, Typed
<1>2. \A l : Goto(t, l) => at'[t] = l
  BY <1>1 DEF Goto
<1>3. \A v : GoOn(t, v) => at'[t] = "code"
  BY <1>2 DEF GoOn
<1>4. \A h : Fail(t, h) => err'[t] /\ at'[t] \in {"error", "exit"}
  BY <1>1, Failing
<1>5. /\ at[t] = "error" => err[t]
      /\ at[t] \in {"code", "query", "resume", "yield", "boing", "switch"} => ~ err[t]
  BY DEF Errors
<1>6. Right
  <2>1. ASSUME NEW c \in Coros, New(t, c)
        PROVE  Right
    BY <1>5, <2>1 DEF New, thread
  <2>2. ASSUME NEW c \in Coros, Query(t, c)
        PROVE  Right
    BY <1>2, <1>5, <2>2 DEF Query, Calling
  <2>3. ASSUME NEW c \in Coros, NEW h \in Kinds, Resume(t, c, h)
        PROVE  Right
    BY <1>2, <1>4, <1>5, <2>3 DEF Resume, Calling
  <2>4. ASSUME NEW h \in Kinds, Yield(t, h)
        PROVE  Right
    BY <1>2, <1>4, <1>5, <2>4 DEF Yield, Calling
  <2>5. CASE Answer(t)
    BY <1>2, <1>5, <2>5 DEF Answer
  <2>6. CASE Resuming(t)
    BY <1>2, <1>4, <1>5, <2>6 DEF Resuming, Refuse
  <2>7. CASE Yielding(t) \/ Boing(t)
    BY <1>2, <1>5, <2>7 DEF Yielding, Boing
  <2>8. CASE Switch(t)
    BY <1>1, <1>2, <1>3, <1>5, <2>8 DEF Switch
  <2>9. CASE CallBack(t)
    BY <1>5, <2>9 DEF CallBack, Calling
  <2>10. CASE Raise(t)
    BY <1>4, <2>10 DEF Raise
  <2>11. CASE Unwind(t)
    BY <1>1, <1>2, <2>11 DEF Unwind
  <2>12. CASE Return(t) \/ Exit(t) \/ Finish(t)
    BY <1>2, <2>12 DEF Return, Exit, Finish
  <2>13. CASE Relock(t)
    BY <1>2, <1>3, <2>13 DEF Relock
  <2>14. CASE Native(t)
    BY <1>1, <1>2, <1>4, <2>14 DEF Native
  <2>15. QED
    BY <2>1, <2>2, <2>3, <2>4, <2>5, <2>6, <2>7, <2>8, <2>9, <2>10, <2>11,
       <2>12, <2>13, <2>14 DEF Step
<1>7. \A u \in Threads : u # t => at'[u] = at[u] /\ err'[u] = err[u]
  BY <1>1, Others
<1>8. QED
  BY <1>6, <1>7 DEF Errors

(* How a view left decides how it goes on.                                   *)
LEMMA WantMoves ==
  ASSUME Plain, Features = {}, Typed, NEW t \in Threads, Step(t)
  PROVE  /\ \A v \in Views : want'[v] = want[v] \/ want'[v] = how[t]
         /\ \A u \in Threads : how'[u] = how[u] \/ how'[u] \in {"list", "tail"}
         /\ at[t] \notin {"resume", "yield"} => want' = want
<1> DEFINE Kept == want' = want /\ how' = how
<1> USE DEF Typed
<1>1. Kinds = {"list", "tail"}
  BY PlainFacts
<1>2. ASSUME NEW c \in Coros, New(t, c) \/ Query(t, c)
      PROVE  Kept
  BY <1>2 DEF New, Query, view, thread
<1>3. ASSUME NEW c \in Coros, NEW h \in Kinds, Resume(t, c, h)
      PROVE  want' = want /\ how' = [how EXCEPT ![t] = h]
  BY <1>3 DEF Resume
<1>4. ASSUME NEW h \in Kinds, Yield(t, h)
      PROVE  want' = want /\ how' = [how EXCEPT ![t] = h]
  BY <1>4 DEF Yield
<1>5. CASE Resuming(t)
  <2>1. at[t] = "resume" /\ how' = how
    BY <1>5 DEF Resuming
  <2>2. want' = want \/ want' = [want EXCEPT ![Cur(t)] = how[t]]
    BY <1>5 DEF Resuming, Refuse, view
  <2>3. QED
    BY <2>1, <2>2
<1>6. CASE Yielding(t)
  <2>1. at[t] = "yield" /\ how' = how /\ want' = [want EXCEPT ![Cur(t)] = how[t]]
    BY <1>6 DEF Yielding
  <2>2. QED
    BY <2>1
<1>7. CASE Answer(t) \/ Boing(t) \/ Switch(t) \/ CallBack(t) \/ Raise(t)
  BY <1>7 DEF Answer, Boing, Switch, CallBack, Raise, view
<1>8. CASE Unwind(t) \/ Return(t) \/ Exit(t) \/ Finish(t) \/ Relock(t) \/ Native(t)
  BY <1>8 DEF Unwind, Return, Exit, Finish, Relock, Native
<1>9. CASE \E c \in Coros : New(t, c) \/ Query(t, c)
  BY <1>2, <1>9
<1>10. CASE \E c \in Coros, h \in Kinds : Resume(t, c, h)
  BY <1>1, <1>3, <1>10
<1>11. CASE \E h \in Kinds : Yield(t, h)
  BY <1>1, <1>4, <1>11
<1>12. QED
  BY <1>5, <1>6, <1>7, <1>8, <1>9, <1>10, <1>11 DEF Step

(* What a view receives when it goes on.                                     *)
StackedAt(own, t) ==
  \A v \in Views : own[v] = t /\ at[t] # "over" => Stacked(t, v)

LEMMA Received ==
  ASSUME NEW t \in Threads, NEW v \in Views, Typed, want[v] # "one",
         Stacked(t, v), v = Target(t), Arriving(t)
  PROVE  Receive(v).got = Asked(v) /\ Receive(v).left = <<>>
<1>1. Asked(v) = due[v]
  BY DEF Asked
<1>2. IF want[v] = "args" THEN sval[v] = <<>> ELSE sval[v] = due[v]
  BY DEF Stacked
<1>3. QED
  BY <1>1, <1>2 DEF Receive

LEMMA HeardStep ==
  ASSUME Plain, State, NEW own, NEW depth, Paths(own, depth), Valued(own),
         NEW t \in Threads, Step(t)
  PROVE  \A u \in Threads : heard'[u].got = heard'[u].due
<1> DEFINE Right == heard'[t].got = heard'[t].due
<1>1. Typed /\ heard \in [Threads -> [got : Seq(Values), due : Seq(Values)]]
  BY DEF State, Typed
<1>2. Hush(t) => Right
  BY <1>1 DEF Hush, Quiet
<1>3. heard' = heard => Right
  BY DEF Valued
<1>4. ASSUME NEW v \in Views, GoOn(t, v), Receive(v).got = Asked(v)
      PROVE  Right
  BY <1>1, <1>4 DEF GoOn
<1>5. Right
  <2>1. ASSUME NEW c \in Coros, New(t, c) \/ Query(t, c)
        PROVE  Right
    BY <1>2, <2>1 DEF New, Query, Calling
  <2>2. ASSUME NEW c \in Coros, NEW h \in Kinds, Resume(t, c, h)
        PROVE  Right
    BY <1>2, <2>2 DEF Resume, Calling
  <2>3. ASSUME NEW h \in Kinds, Yield(t, h)
        PROVE  Right
    BY <1>2, <2>3 DEF Yield, Calling
  <2>4. CASE CallBack(t) \/ Raise(t) \/ Return(t)
    BY <1>2, <2>4 DEF CallBack, Raise, Return, Calling
  <2>5. CASE Answer(t) \/ Resuming(t) \/ Yielding(t) \/ Boing(t) \/ Unwind(t)
    BY <1>3, <2>5 DEF Answer, Resuming, Yielding, Boing, Unwind
  <2>6. CASE Exit(t) \/ Finish(t) \/ Native(t)
    BY <1>3, <2>6 DEF Exit, Finish, Native
  <2>7. CASE Switch(t)
    <3>1. CASE Lockable(arg[t], t)
      <4>1. PICK v : v = arg[t]
        OBVIOUS
      <4>2. v \in Views /\ own[v] = t /\ Target(t) = v
        BY <2>7, <3>1, <4>1, SwitchPaths
      <4>3. at[t] = "switch" /\ at[t] # "over" /\ GoOn(t, v)
        BY <2>7, <3>1, <4>1 DEF Switch
      <4>4. Stacked(t, v) /\ Arriving(t) /\ want[v] # "one"
        BY <4>2, <4>3 DEF Valued, Arriving
      <4>5. QED
        BY <1>1, <1>4, <4>2, <4>3, <4>4, Received
    <3>2. CASE ~ Lockable(arg[t], t)
      BY <1>3, <2>7, <3>2 DEF Switch
    <3>3. QED
      BY <3>1, <3>2
  <2>8. CASE Relock(t)
    <3>1. CASE corotail[Cur(t)] \/ err[t]
      BY <1>3, <2>8, <3>1 DEF Relock
    <3>2. CASE ~(corotail[Cur(t)] \/ err[t])
      <4>1. PICK v : v = Cur(t)
        OBVIOUS
      <4>2. v \in Views /\ own[v] = t /\ Target(t) = v
        BY <2>8, <4>1, RelockPaths
      <4>3. at[t] = "relock" /\ at[t] # "over" /\ GoOn(t, v)
        BY <2>8, <3>2, <4>1 DEF Relock
      <4>4. Stacked(t, v) /\ Arriving(t) /\ want[v] # "one"
        BY <3>2, <4>2, <4>3 DEF Valued, Arriving
      <4>5. QED
        BY <1>1, <1>4, <4>2, <4>3, <4>4, Received
    <3>3. QED
      BY <3>1, <3>2
  <2>9. QED
    BY <2>1, <2>2, <2>3, <2>4, <2>5, <2>6, <2>7, <2>8 DEF Step
<1>6. \A u \in Threads : u # t => heard'[u] = heard[u]
  BY <1>1, Others
<1>7. QED
  BY <1>5, <1>6 DEF Valued

LEMMA StackedOthers ==
  ASSUME Plain, State, NEW own, NEW depth, Paths(own, depth), Valued(own),
         NEW t \in Threads, Step(t), NEW own2, OwnsMove(own, own2, t),
         NEW u \in Threads, u # t
  PROVE  StackedAt(own2, u)'
<1>1. Typed /\ Runlocked /\ u # NoOne
  BY CoroutineAssumption DEF State, Paths
<1>2. at'[u] = at[u] /\ err'[u] = err[u] /\ Cur(u)' = Cur(u) /\ Target(u)' = Target(u)
  BY <1>1, Others, OthersRuns, OthersTarget
<1>3. ASSUME NEW v \in Views, own2[v] = u, at'[u] # "over"
      PROVE  Stacked(u, v)'
  <2>1. own[v] = u
    BY <1>1, <1>3 DEF OwnsMove
  <2>2. sval'[v] = sval[v] /\ want'[v] = want[v] /\ due'[v] = due[v]
    BY <2>1, Respect DEF Respects
  <2>3. Stacked(u, v)
    BY <1>2, <1>3, <2>1 DEF Valued
  <2>4. QED
    BY <1>2, <2>2, <2>3 DEF Stacked, Arriving, Ending
<1>4. QED
  BY <1>3 DEF StackedAt

LEMMA StackedCoros ==
  ASSUME Plain, State, NEW own, NEW depth, Paths(own, depth), Valued(own),
         NEW t \in Threads, Step(t), NEW c \in Coros
  PROVE  /\ status'[c] = "yield" => sval'[c] = <<>> /\ want'[c] # "args"
         /\ status'[c] \in {"none", "init"} => sval'[c] = <<>> /\ want'[c] = "args"
<1>1. /\ status[c] = "yield" => sval[c] = <<>> /\ want[c] # "args"
      /\ status[c] \in {"none", "init"} => sval[c] = <<>> /\ want[c] = "args"
  BY DEF Valued
<1>2. Typed /\ c \in Views
  BY ViewKinds DEF State
<1>3. status[c] # "run" => own[c] = NoOne
  BY Unowned DEF Paths
<1>4. ASSUME status[c] # "run",
             ~(at[t] = "resume" /\ status[arg[t]] \in {"init", "yield"} /\ arg[t] = c)
      PROVE  sval'[c] = sval[c] /\ want'[c] = want[c]
  BY <1>3, <1>4, Free DEF Frees
<1>5. CASE status'[c] = status[c]
  <2>1. CASE status[c] = "run"
    BY <1>5, <2>1
  <2>2. CASE status[c] # "run"
    <3>1. CASE at[t] = "resume" /\ status[arg[t]] \in {"init", "yield"} /\ arg[t] = c
      <4>1. Resuming(t)
        <5>1. at[t] \notin {"code", "query", "yield", "boing", "switch", "error", "exit", "finish", "relock", "native"}
          BY <3>1
        <5>2. QED
          BY <5>1 DEF Step, New, Query, Resume, Yield, Calling, Answer, Yielding, Boing,
                      Switch, CallBack, Raise, Unwind, Return, Exit, Finish, Relock, Native
      <4>2. CASE Refuse(t)
        BY <1>1, <1>5, <4>2 DEF Refuse, view
      <4>3. CASE ~ Refuse(t)
        <5>1. status'[c] = "run"
          BY <1>2, <3>1, <4>1, <4>3, Resumes DEF State, Typed
        <5>2. QED
          BY <1>5, <2>2, <5>1
      <4>4. QED
        BY <4>2, <4>3
    <3>2. CASE ~(at[t] = "resume" /\ status[arg[t]] \in {"init", "yield"} /\ arg[t] = c)
      BY <1>1, <1>4, <1>5, <2>2, <3>2
    <3>3. QED
      BY <3>1, <3>2
  <2>3. QED
    BY <2>1, <2>2
<1>6. CASE status'[c] # status[c]
  <2>1. CASE status[c] = "none" /\ status'[c] = "init"
    BY <1>1, <1>4, <2>1
  <2>2. CASE status'[c] = "run"
    BY <2>2
  <2>3. CASE Cur(t) = c /\ at[t] = "yield" /\ status'[c] = "yield"
    <3>1. at[t] \notin Elsewhere /\ at[t] # "over"
      BY <2>3 DEF Elsewhere
    <3>2. own[c] = t /\ Target(t) = c
      BY <2>3, <3>1, Executing DEF Paths
    <3>3. sval[c] = <<>>
      BY <1>2, <2>3, <3>1, <3>2 DEF Valued, Stacked, Arriving, Ending
    <3>4. Yielding(t)
      BY <2>3 DEF Step, New, Query, Resume, Yield, Calling, Answer, Resuming, Boing,
                  Switch, CallBack, Raise, Unwind, Return, Exit, Finish, Relock, Native
    <3>5. returnto[c] # c
      <4>1. c # NoOne /\ t # NoOne
        BY CoroutineAssumption
      <4>2. QED
        BY <3>2, <4>1, Resumer DEF Paths
    <3>6. sval'[c] = sval[c] /\ want'[c] = how[t]
      BY <1>2, <2>3, <3>4, <3>5 DEF Yielding, Typed
    <3>7. how[t] # "args"
      BY <1>2 DEF Typed
    <3>8. QED
      BY <2>3, <3>3, <3>6, <3>7
  <2>4. CASE status'[c] \in Ended
    BY <2>4 DEF Ended
  <2>5. QED
    BY <1>6, <2>1, <2>2, <2>3, <2>4, StatusMoves
<1>7. QED
  BY <1>5, <1>6

LEMMA ValuedStep ==
  ASSUME Plain, Features = {}, State, NEW own, NEW depth, Paths(own, depth),
         Valued(own), NEW t \in Threads, Step(t), NEW own2,
         OwnsMove(own, own2, t), StackedAt(own2, t)'
  PROVE  Valued(own2)'
<1>1. \A u \in Threads : StackedAt(own2, u)'
  BY StackedOthers
<1>2. \A c \in Coros :
        /\ status'[c] = "yield" => sval'[c] = <<>> /\ want'[c] # "args"
        /\ status'[c] \in {"none", "init"} => sval'[c] = <<>> /\ want'[c] = "args"
  BY StackedCoros
<1>3. \A u \in Threads : heard'[u].got = heard'[u].due
  BY HeardStep
<1>4. /\ \A v \in Views : want'[v] = want[v] \/ want'[v] = how[t]
      /\ \A u \in Threads : how'[u] = how[u] \/ how'[u] \in {"list", "tail"}
  BY WantMoves DEF State
<1>5. /\ \A v \in Views : want[v] # "one"
      /\ \A u \in Threads : how[u] # "one"
  BY DEF Valued
<1>6. /\ \A v \in Views : want'[v] # "one"
      /\ \A u \in Threads : how'[u] # "one"
  BY <1>4, <1>5
<1>7. QED
  BY <1>1, <1>2, <1>3, <1>6 DEF Valued, StackedAt

(* Steps within a view.                                                      *)
LEMMA InsideStacked ==
  ASSUME Plain, State, NEW own, NEW depth, Paths(own, depth), Framed(own),
         Errors, Valued(own), NEW t \in Threads, Step(t), Inside(t), NEW w, w = Cur(t)
  PROVE  StackedAt(own, t)'
<1>1. Local(t) /\ LeavingAt(t)' /\ ResumableAt(t)'
  BY InsideLocal
<1>2. Cur(t)' = w /\ Target(t)' = w
  BY <1>1, LocalPaths
<1>3. /\ at[t] \notin Elsewhere /\ at[t] \notin {"over", "switch", "boing", "relock", "finish"}
      /\ at'[t] \notin {"over", "switch", "boing", "relock", "finish"}
  BY <1>1 DEF Local, Inner, Elsewhere
<1>4. Target(t) = w /\ own[w] = t /\ w \in Views
  BY <1>3, Executing DEF Paths
<1>5. Typed
  BY DEF State
<1>6. \A l : Goto(t, l) => at'[t] = l
  BY <1>5 DEF Goto, Typed
<1>7. ASSUME NEW h, Fail(t, h)
      PROVE  err'[t]
  BY <1>5, <1>7, Failing DEF Typed
<1>8. at[t] # "exit"
  BY DEF Inside, New, Query, Resume, Yield, Calling, Answer, Resuming, Raise,
         Unwind, Return, Native
<1> DEFINE Right ==
      /\ want' = want
      /\ \/ sval' = sval /\ (at'[t] # "exit" \/ err'[t])
         \/ /\ \A v \in Views : v # w => sval'[v] = sval[v]
            /\ sval'[w] = due'[w] /\ at'[t] = "exit"
<1>9. Right
  <2>1. ASSUME NEW c \in Coros, New(t, c)
        PROVE  Right
    BY <1>8, <2>1 DEF New, view, thread
  <2>2. ASSUME NEW c \in Coros, Query(t, c)
        PROVE  Right
    BY <1>6, <2>2 DEF Query, view
  <2>3. ASSUME NEW c \in Coros, NEW h \in Kinds, Resume(t, c, h)
        PROVE  Right
    BY <1>6, <1>7, <2>3 DEF Resume
  <2>4. ASSUME NEW h \in Kinds, Yield(t, h)
        PROVE  Right
    BY <1>6, <1>7, <2>4 DEF Yield
  <2>5. CASE Answer(t)
    BY <1>6, <2>5 DEF Answer, view
  <2>6. CASE Resuming(t) /\ Refuse(t)
    BY <1>7, <2>6 DEF Refuse, view
  <2>7. CASE Raise(t)
    BY <1>7, <2>7 DEF Raise, view
  <2>8. CASE Unwind(t)
    <3>1. sval' = sval /\ want' = want /\ at[t] = "error"
      BY <2>8 DEF Unwind
    <3>2. CASE Goto(t, "code")
      BY <1>6, <3>1, <3>2
    <3>3. CASE UNCHANGED err
      BY <3>1, <3>3 DEF Errors
    <3>4. QED
      BY <2>8, <3>2, <3>3 DEF Unwind
  <2>9. CASE Return(t)
    <3>1. at'[t] = "exit" /\ want' = want
      BY <1>6, <2>9 DEF Return
    <3>2. PICK values \in Lists :
            /\ sval' = [sval EXCEPT ![w] = values]
            /\ due' = [due EXCEPT ![w] = values]
      BY <2>9 DEF Return
    <3>3. sval'[w] = values /\ due'[w] = values
      BY <1>4, <1>5, <3>2 DEF Typed
    <3>4. \A v \in Views : v # w => sval'[v] = sval[v]
      BY <1>5, <3>2 DEF Typed
    <3>5. QED
      BY <3>1, <3>3, <3>4
  <2>10. CASE Native(t)
    BY <1>6, <1>7, <2>10 DEF Native
  <2>11. QED
    BY <2>1, <2>2, <2>3, <2>4, <2>5, <2>6, <2>7, <2>8, <2>9, <2>10 DEF Inside
<1>10. sval[w] = <<>>
  BY <1>3, <1>4, <1>8 DEF Valued, Stacked, Arriving, Ending
<1>11. ASSUME NEW v \in Views, own[v] = t
       PROVE  Stacked(t, v)'
  <2>1. CASE v = w
    BY <1>2, <1>3, <1>9, <1>10, <2>1 DEF Stacked, Arriving, Ending
  <2>2. CASE v # w
    <3>1. sval[v] = <<>> /\ want[v] # "args"
      BY <1>3, <1>4, <1>11, <2>2 DEF Valued, Stacked
    <3>2. QED
      BY <1>2, <1>9, <1>11, <2>2, <3>1 DEF Stacked
  <2>3. QED
    BY <2>1, <2>2
<1>12. QED
  BY <1>11 DEF StackedAt

(* Steps from view to view.                                                  *)
LEMMA Waiting ==
  ASSUME NEW own, Valued(own), NEW t \in Threads, at[t] # "over",
         NEW v \in Views, own[v] = t, v # Target(t)
  PROVE  sval[v] = <<>> /\ want[v] # "args"
BY DEF Valued, Stacked

LEMMA EmptyConcat ==
  ASSUME NEW S, NEW s \in Seq(S)
  PROVE  <<>> \o s = s
OBVIOUS

LEMMA ResumesStacked ==
  ASSUME Plain, State, NEW own, NEW depth, Paths(own, depth), Valued(own),
         NEW t \in Threads, Step(t), Resuming(t), ~ Refuse(t),
         NEW own2, NEW depth2, Mapped(own2, depth2), NEW c, c = arg[t],
         own2[c] = t, depth2[c] = depth[Cur(t)] + 1,
         \A v \in Views : v # c => own2[v] = own[v] /\ depth2[v] = depth[v]
  PROVE  StackedAt(own2, t)'
<1>1. Cur(t) # c /\ Cur(t)' = Cur(t) /\ Target(t)' = c
  BY ResumesPaths
<1>2. /\ at[t] = "resume" /\ at'[t] = "boing" /\ c \in Coros
      /\ status[c] \in {"init", "yield"}
      /\ want' = [want EXCEPT ![Cur(t)] = how[t]]
  BY Resumes DEF State, Typed
<1>3. PICK values \in Lists : Begin(t, c, Cur(t), values)
  BY Resumes
<1>4. at[t] \notin Elsewhere /\ at[t] # "over"
  BY <1>2 DEF Elsewhere
<1>5. Target(t) = Cur(t) /\ own[Cur(t)] = t /\ Cur(t) \in Views /\ c \in Views
  BY <1>2, <1>4, Executing, ViewKinds DEF Paths
<1>6. Typed /\ how[t] # "args"
  BY DEF State, Typed
<1>7. want'[Cur(t)] # "args" /\ \A v \in Views : v # Cur(t) => want'[v] = want[v]
  BY <1>2, <1>5, <1>6 DEF Typed
<1>8. due'[c] = values /\ \A v \in Views : v # c => sval'[v] = sval[v]
  BY <1>3, <1>5, <1>6 DEF Begin, Typed
<1>9. IF want'[c] = "args" THEN sval'[c] = <<>> ELSE sval'[c] = due'[c]
  <2>1. want'[c] = want[c]
    BY <1>1, <1>5, <1>7
  <2>2. CASE status[c] = "init"
    BY <1>2, <1>3, <2>1, <2>2 DEF Begin, Valued
  <2>3. CASE status[c] = "yield"
    <3>1. sval[c] = <<>> /\ want[c] # "args"
      BY <1>2, <2>3 DEF Valued
    <3>2. sval' = [sval EXCEPT ![c] = @ \o values]
      BY <1>3, <2>3 DEF Begin
    <3>3. <<>> \o values = values
      BY ListValues, EmptyConcat
    <3>4. sval'[c] = values
      BY <1>5, <1>6, <3>1, <3>2, <3>3 DEF Typed
    <3>5. QED
      BY <1>8, <2>1, <3>1, <3>4
  <2>4. QED
    BY <1>2, <2>2, <2>3
<1>10. sval[Cur(t)] = <<>>
  BY <1>2, <1>5 DEF Valued, Stacked, Arriving, Ending
<1>11. ASSUME NEW v \in Views, own2[v] = t
       PROVE  Stacked(t, v)'
  <2>1. CASE v = c
    BY <1>1, <1>2, <1>9, <2>1 DEF Stacked, Arriving, Ending
  <2>2. CASE v = Cur(t)
    BY <1>1, <1>2, <1>5, <1>7, <1>8, <1>10, <2>2 DEF Stacked, Arriving, Ending
  <2>3. CASE v # c /\ v # Cur(t)
    <3>1. own[v] = t
      BY <1>11, <2>3
    <3>2. sval[v] = <<>> /\ want[v] # "args"
      BY <1>2, <1>5, <2>3, <3>1, Waiting
    <3>3. QED
      BY <1>1, <1>7, <1>8, <2>3, <3>2 DEF Stacked
  <2>4. QED
    BY <2>1, <2>2, <2>3
<1>12. QED
  BY <1>11 DEF StackedAt

LEMMA YieldingStacked ==
  ASSUME Plain, State, NEW own, NEW depth, Paths(own, depth), Valued(own),
         NEW t \in Threads, Step(t), Yielding(t),
         NEW w, w = Cur(t), NEW own2, Mapped(own2, depth), own2[w] = NoOne,
         \A v \in Views : v # w => own2[v] = own[v]
  PROVE  StackedAt(own2, t)'
<1> DEFINE r == returnto[w]
<1>1. /\ r \in Views /\ own[r] = t /\ r # w /\ w \in Views
      /\ Target(t) = w /\ Cur(t)' = w /\ Target(t)' = r
  BY YieldingPaths, ViewKinds
<1>2. Typed
  BY DEF State
<1>3. PICK values \in Lists :
        /\ sval' = [sval EXCEPT ![r] = @ \o values]
        /\ due' = [due EXCEPT ![r] = values]
  BY <1>2, Yields
<1>4. /\ at[t] = "yield" /\ at'[t] = "boing"
      /\ want' = [want EXCEPT ![w] = how[t]]
  BY <1>2, Yields DEF Typed
<1>5. sval[r] = <<>> /\ want[r] # "args"
  BY <1>1, <1>4, Waiting
<1>6. sval'[r] = values /\ due'[r] = values
  <2>1. <<>> \o values = values
    BY ListValues, EmptyConcat
  <2>2. QED
    BY <1>1, <1>2, <1>3, <1>5, <2>1 DEF Typed
<1>7. \A v \in Views : /\ v # r => sval'[v] = sval[v]
                       /\ v # w => want'[v] = want[v]
  BY <1>2, <1>3, <1>4 DEF Typed
<1> HIDE DEF r
<1>8. ASSUME NEW v \in Views, own2[v] = t
      PROVE  Stacked(t, v)'
  <2>1. v # w /\ own[v] = t
    BY <1>8, ViewKinds
  <2>2. CASE v = r
    BY <1>1, <1>4, <1>5, <1>6, <1>7, <2>2 DEF Stacked, Arriving, Ending
  <2>3. CASE v # r
    <3>1. sval[v] = <<>> /\ want[v] # "args"
      BY <1>1, <1>4, <2>1, Waiting
    <3>2. QED
      BY <1>1, <1>7, <2>1, <2>3, <3>1 DEF Stacked
  <2>4. QED
    BY <2>2, <2>3
<1>9. QED
  BY <1>8 DEF StackedAt

LEMMA BoingStacked ==
  ASSUME Plain, State, NEW own, NEW depth, Paths(own, depth), Valued(own),
         NEW t \in Threads, Step(t), Boing(t), NEW w, w = Cur(t)
  PROVE  StackedAt(own, t)'
<1>1. Cur(t)' = w /\ Target(t)' = Target(t)
  BY BoingPaths
<1>2. /\ at[t] = "boing" /\ at'[t] = "switch"
      /\ sval' = sval /\ want' = want /\ due' = due /\ err' = err
  BY DEF Boing, Goto, State, Typed
<1>3. ASSUME NEW v \in Views, own[v] = t
      PROVE  Stacked(t, v)'
  <2>1. Stacked(t, v)
    BY <1>2, <1>3 DEF Valued
  <2>2. QED
    BY <1>1, <1>2, <2>1 DEF Stacked, Arriving, Ending
<1>4. QED
  BY <1>3 DEF StackedAt

LEMMA SwitchStacked ==
  ASSUME Plain, State, NEW own, NEW depth, Paths(own, depth), Valued(own),
         NEW t \in Threads, Step(t), Switch(t), NEW x, x = arg[t], Lockable(x, t)
  PROVE  StackedAt(own, t)'
<1>1. /\ x \in Views /\ own[x] = t
      /\ Target(t) = x /\ Cur(t)' = x /\ Target(t)' = x
  BY SwitchPaths
<1>2. at[t] = "switch" /\ at[t] # "over" /\ GoOn(t, x) /\ want' = want /\ Typed
  BY DEF Switch, State
<1>3. at'[t] = "code" /\ sval' = [sval EXCEPT ![x] = Receive(x).left]
  BY <1>2 DEF GoOn, Goto, Typed
<1>4. Stacked(t, x) /\ Arriving(t) /\ want[x] # "one"
  BY <1>1, <1>2 DEF Valued, Arriving
<1>5. Receive(x).left = <<>>
  BY <1>1, <1>2, <1>4, Received
<1>6. sval'[x] = <<>> /\ \A v \in Views : v # x => sval'[v] = sval[v]
  BY <1>1, <1>2, <1>3, <1>5 DEF Typed
<1>7. ASSUME NEW v \in Views, own[v] = t
      PROVE  Stacked(t, v)'
  <2>1. CASE v = x
    BY <1>1, <1>3, <1>6, <2>1 DEF Stacked, Arriving, Ending
  <2>2. CASE v # x
    <3>1. sval[v] = <<>> /\ want[v] # "args"
      BY <1>1, <1>2, <1>7, <2>2, Waiting
    <3>2. QED
      BY <1>1, <1>2, <1>6, <2>2, <3>1 DEF Stacked
  <2>3. QED
    BY <2>1, <2>2
<1>8. QED
  BY <1>7 DEF StackedAt

LEMMA LosingStacked ==
  ASSUME Plain, State, NEW own, NEW depth, Paths(own, depth), Valued(own),
         NEW t \in Threads, Step(t), Switch(t), NEW c, c = arg[t], ~ Lockable(c, t),
         NEW own2, Mapped(own2, depth), own2[c] = NoOne,
         \A v \in Views : v # c => own2[v] = own[v]
  PROVE  StackedAt(own2, t)'
<1>1. /\ Target(t) = c /\ Cur(t) # c
      /\ Cur(t)' = Cur(t) /\ Target(t)' = Cur(t)
  BY LosingPaths
<1>2. /\ at[t] = "switch" /\ at[t] # "over" /\ at'[t] = "error"
      /\ sval' = sval /\ want' = want
  BY DEF Switch, Goto, State, Typed
<1>3. ASSUME NEW v \in Views, own2[v] = t
      PROVE  Stacked(t, v)'
  <2>1. v # c /\ own[v] = t
    BY <1>3, ViewKinds
  <2>2. sval[v] = <<>> /\ want[v] # "args"
    BY <1>1, <1>2, <2>1, Waiting
  <2>3. QED
    BY <1>2, <2>2 DEF Stacked, Arriving, Ending
<1>4. QED
  BY <1>3 DEF StackedAt

LEMMA CallBackStacked ==
  ASSUME Plain, State, NEW own, NEW depth, Paths(own, depth), Valued(own),
         NEW t \in Threads, Step(t), CallBack(t), NEW w, w = Cur(t)
  PROVE  StackedAt(own, t)'
<1>1. Target(t) = w /\ Cur(t)' = w /\ Target(t)' = w
  BY CallBackPaths
<1>2. at[t] = "code" /\ at' = at /\ sval' = sval /\ want' = want
  BY DEF CallBack, Calling
<1>3. ASSUME NEW v \in Views, own[v] = t
      PROVE  Stacked(t, v)'
  <2>1. Stacked(t, v)
    BY <1>2, <1>3 DEF Valued
  <2>2. QED
    BY <1>1, <1>2, <2>1 DEF Stacked, Arriving, Ending
<1>4. QED
  BY <1>3 DEF StackedAt

LEMMA ExitStacked ==
  ASSUME Plain, State, NEW own, NEW depth, Paths(own, depth), Valued(own),
         NEW t \in Threads, Step(t), Exit(t), NEW w, w = Cur(t)
  PROVE  StackedAt(own, t)'
<1>1. /\ at[t] = "exit" /\ at[t] # "over" /\ at[t] \notin Elsewhere
      /\ want' = want /\ due' = due /\ err' = err /\ Typed
  BY DEF Exit, Elsewhere, State
<1>2. w \in Views /\ own[w] = t /\ Target(t) = w
  BY <1>1, Executing DEF Paths
<1>3. CASE w \in Coros /\ w # Orig(t)
  <2>1. Cur(t)' = w /\ Target(t)' = w
    BY <1>3, EndingPaths
  <2>2. at'[t] = "finish" /\ sval' = sval
    BY <1>1, <1>3 DEF Exit, Goto, Typed
  <2>3. ASSUME NEW v \in Views, own[v] = t
        PROVE  Stacked(t, v)'
    <3>1. Stacked(t, v)
      BY <1>1, <2>3 DEF Valued
    <3>2. QED
      BY <1>1, <1>2, <2>1, <2>2, <3>1 DEF Stacked, Arriving, Ending
  <2>4. QED
    BY <2>3 DEF StackedAt
<1>4. CASE ~(w \in Coros /\ w # Orig(t))
  <2>1. /\ at'[t] = IF Len(runs[t]) = 1 THEN "over" ELSE "native"
        /\ sval' = [sval EXCEPT ![w] = <<>>]
    BY <1>1, <1>4 DEF Exit, Goto, Typed
  <2>2. sval'[w] = <<>> /\ \A v \in Views : v # w => sval'[v] = sval[v]
    BY <1>1, <1>2, <2>1 DEF Typed
  <2>3. CASE Len(runs[t]) = 1
    BY <2>1, <2>3 DEF StackedAt
  <2>4. CASE Len(runs[t]) # 1
    <3>1. Cur(t)' = w /\ Target(t)' = w
      BY <1>4, <2>4, ReturningPaths
    <3>2. ASSUME NEW v \in Views, own[v] = t
          PROVE  Stacked(t, v)'
      <4>1. CASE v = w
        BY <2>1, <2>2, <2>4, <3>1, <4>1 DEF Stacked, Arriving, Ending
      <4>2. CASE v # w
        <5>1. sval[v] = <<>> /\ want[v] # "args"
          BY <1>1, <1>2, <3>2, <4>2, Waiting
        <5>2. QED
          BY <1>1, <2>2, <3>1, <4>2, <5>1 DEF Stacked
      <4>3. QED
        BY <4>1, <4>2
    <3>3. QED
      BY <3>2 DEF StackedAt
  <2>5. QED
    BY <2>3, <2>4
<1>5. QED
  BY <1>3, <1>4

LEMMA FinishingStacked ==
  ASSUME Plain, State, NEW own, NEW depth, Paths(own, depth), Valued(own),
         NEW t \in Threads, Step(t), Finish(t), NEW w, w = Cur(t),
         NEW own2, Mapped(own2, depth), own2[w] = NoOne,
         \A v \in Views : v # w => own2[v] = own[v]
  PROVE  StackedAt(own2, t)'
<1> DEFINE r == returnto[w]
<1>1. /\ r \in Views /\ own[r] = t /\ r # w /\ w \in Views /\ own[w] = t
      /\ Target(t) = w /\ Cur(t)' = r /\ Target(t)' = r
  BY FinishingPaths, ViewKinds
<1>2. /\ at[t] = "finish" /\ at[t] # "over" /\ at'[t] = "relock"
      /\ want' = want /\ err' = err /\ Typed
  BY DEF Finish, Goto, State, Typed
<1>3. sval[r] = <<>> /\ want[r] # "args"
  BY <1>1, <1>2, Waiting
<1>4. /\ \A v \in Views : v # r => sval'[v] = sval[v]
      /\ err[t] => sval'[r] = <<>>
      /\ ~ err[t] => sval'[r] = due'[r]
  <2>1. CASE err[t]
    <3>1. sval' = sval
      BY <2>1 DEF Finish
    <3>2. QED
      BY <1>3, <2>1, <3>1
  <2>2. CASE ~ err[t]
    <3>1. /\ sval' = [sval EXCEPT ![r] = @ \o sval[w]]
          /\ due' = [due EXCEPT ![r] = due[w]]
      BY <2>2 DEF Finish
    <3>2. sval[w] = due[w]
      BY <1>1, <1>2, <2>2 DEF Valued, Stacked, Ending
    <3>3. <<>> \o sval[w] = sval[w]
      <4>1. sval[w] \in Seq(Values)
        BY <1>1, <1>2 DEF Typed
      <4>2. QED
        BY <4>1, EmptyConcat
    <3>4. sval'[r] = sval[w] /\ due'[r] = due[w]
      BY <1>1, <1>2, <1>3, <3>1, <3>3 DEF Typed
    <3>5. \A v \in Views : v # r => sval'[v] = sval[v]
      BY <1>2, <3>1 DEF Typed
    <3>6. QED
      BY <2>2, <3>2, <3>4, <3>5
  <2>3. QED
    BY <2>1, <2>2
<1> HIDE DEF r
<1>5. ASSUME NEW v \in Views, own2[v] = t
      PROVE  Stacked(t, v)'
  <2>1. v # w /\ own[v] = t
    BY <1>5, ViewKinds
  <2>2. CASE v = r
    BY <1>1, <1>2, <1>3, <1>4, <2>2 DEF Stacked, Arriving, Ending
  <2>3. CASE v # r
    <3>1. sval[v] = <<>> /\ want[v] # "args"
      BY <1>1, <1>2, <2>1, Waiting
    <3>2. QED
      BY <1>1, <1>2, <1>4, <2>3, <3>1 DEF Stacked
  <2>4. QED
    BY <2>2, <2>3
<1>6. QED
  BY <1>5 DEF StackedAt

LEMMA RelockStacked ==
  ASSUME Plain, State, NEW own, NEW depth, Paths(own, depth), Valued(own),
         NEW t \in Threads, Step(t), Relock(t), NEW w, w = Cur(t)
  PROVE  StackedAt(own, t)'
<1>1. /\ w \in Views /\ own[w] = t
      /\ Target(t) = w /\ Cur(t)' = w /\ Target(t)' = w
  BY RelockPaths
<1>2. /\ at[t] = "relock" /\ at[t] # "over" /\ Typed
      /\ want' = want /\ due' = due /\ err' = err
  BY DEF Relock, State
<1>3. Stacked(t, w) /\ want[w] # "one" /\ want[w] # "args"
  BY <1>1, <1>2 DEF Valued, Stacked
<1>4. CASE corotail[w] \/ err[t]
  <2>1. sval' = sval /\ at'[t] = IF corotail[w] THEN "exit" ELSE "error"
    BY <1>2, <1>4 DEF Relock, Goto, Typed
  <2>2. ASSUME NEW v \in Views, own[v] = t
        PROVE  Stacked(t, v)'
    <3>1. CASE v = w
      BY <1>1, <1>2, <1>3, <1>4, <2>1, <3>1 DEF Stacked, Arriving, Ending
    <3>2. CASE v # w
      <4>1. sval[v] = <<>> /\ want[v] # "args"
        BY <1>1, <1>2, <2>2, <3>2, Waiting
      <4>2. QED
        BY <1>1, <1>2, <2>1, <3>2, <4>1 DEF Stacked
    <3>3. QED
      BY <3>1, <3>2
  <2>3. QED
    BY <2>2 DEF StackedAt
<1>5. CASE ~(corotail[w] \/ err[t])
  <2>1. at'[t] = "code" /\ sval' = [sval EXCEPT ![w] = Receive(w).left]
    BY <1>2, <1>5 DEF Relock, GoOn, Goto, Typed
  <2>2. Arriving(t)
    BY <1>2, <1>5 DEF Arriving
  <2>3. Receive(w).left = <<>>
    BY <1>1, <1>2, <1>3, <2>2, Received
  <2>4. sval'[w] = <<>> /\ \A v \in Views : v # w => sval'[v] = sval[v]
    BY <1>1, <1>2, <2>1, <2>3 DEF Typed
  <2>5. ASSUME NEW v \in Views, own[v] = t
        PROVE  Stacked(t, v)'
    <3>1. CASE v = w
      BY <1>1, <2>1, <2>4, <3>1 DEF Stacked, Arriving, Ending
    <3>2. CASE v # w
      <4>1. sval[v] = <<>> /\ want[v] # "args"
        BY <1>1, <1>2, <2>5, <3>2, Waiting
      <4>2. QED
        BY <1>1, <1>2, <2>4, <3>2, <4>1 DEF Stacked
    <3>3. QED
      BY <3>1, <3>2
  <2>6. QED
    BY <2>5 DEF StackedAt
<1>6. QED
  BY <1>4, <1>5

-----------------------------------------------------------------------------
(* The invariant.                                                            *)

LEMMA InvStep ==
  ASSUME Plain, State, Trampolines, NEW own, NEW depth, Inv(own, depth),
         NEW t \in Threads, Step(t), NEW own2, NEW depth2,
         OwnsMove(own, own2, t), Paths(own2, depth2)', FramedAt(own2, t)',
         Features = {} => StackedAt(own2, t)'
  PROVE  IInv'
<1>1. Paths(own, depth) /\ Framed(own) /\ (Features = {} => Errors /\ Valued(own))
  BY DEF Inv
<1>2. State'
  BY <1>1, StateStep
<1>3. Trampolines'
  BY <1>1, TrampolinesStep
<1>4. Framed(own2)'
  BY <1>1, FramedStep
<1>5. Features = {} => Errors' /\ Valued(own2)'
  <2> SUFFICES ASSUME Features = {}
               PROVE  Errors' /\ Valued(own2)'
    OBVIOUS
  <2>1. Errors'
    BY <1>1, ErrorsStep
  <2>2. Valued(own2)'
    BY <1>1, ValuedStep
  <2>3. QED
    BY <2>1, <2>2
<1>6. Inv(own2, depth2)'
  BY <1>4, <1>5 DEF Inv
<1>7. QED
  BY <1>2, <1>3, <1>6 DEF IInv

(* What a thread owns, and what it does not.                                 *)
LEMMA Disown ==
  ASSUME NEW own, NEW depth, Mapped(own, depth), NEW t \in Threads,
         NEW w \in Views, own[w] = t
  PROVE  \E own2 : /\ Mapped(own2, depth) /\ own2[w] = NoOne
                   /\ \A v \in Views : v # w => own2[v] = own[v]
                   /\ OwnsMove(own, own2, t)
<1> DEFINE own2 == [own EXCEPT ![w] = NoOne]
<1>1. Mapped(own2, depth)
  BY DEF Mapped
<1>2. own2[w] = NoOne /\ \A v \in Views : v # w => own2[v] = own[v]
  BY DEF Mapped
<1> HIDE DEF own2
<1>3. OwnsMove(own, own2, t)
  BY <1>2 DEF OwnsMove
<1>4. QED
  BY <1>1, <1>2, <1>3

LEMMA Reown ==
  ASSUME NEW own, NEW depth, Mapped(own, depth), NEW t \in Threads,
         NEW w \in Views, own[w] = NoOne, NEW n \in Nat
  PROVE  \E own2, depth2 :
           /\ Mapped(own2, depth2) /\ own2[w] = t /\ depth2[w] = n
           /\ \A v \in Views : v # w => own2[v] = own[v] /\ depth2[v] = depth[v]
           /\ OwnsMove(own, own2, t)
<1> DEFINE own2 == [own EXCEPT ![w] = t]
           depth2 == [depth EXCEPT ![w] = n]
<1>1. Mapped(own2, depth2)
  BY DEF Mapped
<1>2. /\ own2[w] = t /\ depth2[w] = n
      /\ \A v \in Views : v # w => own2[v] = own[v] /\ depth2[v] = depth[v]
  BY DEF Mapped
<1> HIDE DEF own2, depth2
<1>3. OwnsMove(own, own2, t)
  BY <1>2 DEF OwnsMove
<1>4. QED
  BY <1>1, <1>2, <1>3

LEMMA IInvStep ==
  ASSUME Plain, IInv, NEW t \in Threads, Step(t)
  PROVE  IInv'
<1>1. State /\ Trampolines
  BY DEF IInv
<1>2. PICK own, depth : Inv(own, depth)
  BY DEF IInv
<1>3. /\ Paths(own, depth) /\ Framed(own) /\ (Features = {} => Errors /\ Valued(own))
      /\ Chain(own, depth) /\ Mapped(own, depth) /\ Typed
  BY <1>1, <1>2 DEF Inv, Paths, Chain, State
<1>4. OwnsMove(own, own, t)
  BY DEF OwnsMove
<1>5. PICK w : w = Cur(t)
  OBVIOUS
<1>6. CASE Inside(t)
  <2>1. Local(t) /\ LeavingAt(t)' /\ ResumableAt(t)'
    BY <1>1, <1>3, <1>6, InsideLocal
  <2>2. Paths(own, depth)'
    BY <1>1, <1>3, <2>1, LocalPaths
  <2>3. FramedAt(own, t)'
    BY <1>1, <1>3, <1>5, <1>6, InsideFramed
  <2>4. Features = {} => StackedAt(own, t)'
    BY <1>1, <1>3, <1>5, <1>6, InsideStacked
  <2>5. QED
    BY <1>1, <1>2, <1>4, <2>2, <2>3, <2>4, InvStep
<1>7. CASE Resuming(t) /\ ~ Refuse(t)
  <2>1. PICK c : c = arg[t]
    OBVIOUS
  <2>2. at[t] = "resume" /\ c \in Coros /\ status[c] \in {"init", "yield"}
    BY <1>1, <1>7, <2>1, Resumes
  <2>3. c \in Views /\ own[c] = NoOne /\ depth[Cur(t)] + 1 \in Nat
    <3>1. own[c] = NoOne /\ c \in Views
      BY <1>3, <2>2, Unowned, ViewKinds
    <3>2. Cur(t) \in Views
      BY <1>1, <2>2, InRuns
    <3>3. QED
      BY <1>3, <3>1, <3>2 DEF Mapped
  <2>4. PICK own2, depth2 :
          /\ Mapped(own2, depth2) /\ own2[c] = t /\ depth2[c] = depth[Cur(t)] + 1
          /\ \A v \in Views : v # c => own2[v] = own[v] /\ depth2[v] = depth[v]
          /\ OwnsMove(own, own2, t)
    BY <1>3, <2>3, Reown
  <2>5. Paths(own2, depth2)'
    BY <1>1, <1>3, <1>7, <2>1, <2>4, ResumesPaths
  <2>6. FramedAt(own2, t)'
    BY <1>1, <1>3, <1>7, <2>1, <2>4, ResumesFramed
  <2>7. Features = {} => StackedAt(own2, t)'
    BY <1>1, <1>3, <1>7, <2>1, <2>4, ResumesStacked
  <2>8. QED
    BY <1>1, <1>2, <2>4, <2>5, <2>6, <2>7, InvStep
<1>8. CASE Yielding(t)
  <2>1. at[t] = "yield" /\ at[t] \notin Elsewhere
    BY <1>8 DEF Yielding, Elsewhere
  <2>2. w \in Views /\ own[w] = t
    BY <1>1, <1>3, <1>5, <2>1, Executing
  <2>3. PICK own2 : /\ Mapped(own2, depth) /\ own2[w] = NoOne
                    /\ \A v \in Views : v # w => own2[v] = own[v]
                    /\ OwnsMove(own, own2, t)
    BY <1>3, <2>2, Disown
  <2>4. Paths(own2, depth)'
    BY <1>1, <1>3, <1>5, <1>8, <2>3, YieldingPaths
  <2>5. FramedAt(own2, t)'
    BY <1>1, <1>3, <1>5, <1>8, <2>3, YieldingFramed
  <2>6. Features = {} => StackedAt(own2, t)'
    BY <1>1, <1>3, <1>5, <1>8, <2>3, YieldingStacked
  <2>7. QED
    BY <1>1, <1>2, <2>3, <2>4, <2>5, <2>6, InvStep
<1>9. CASE Boing(t)
  <2>1. Paths(own, depth)'
    BY <1>1, <1>3, <1>5, <1>9, BoingPaths
  <2>2. FramedAt(own, t)'
    BY <1>1, <1>3, <1>5, <1>9, BoingFramed
  <2>3. Features = {} => StackedAt(own, t)'
    BY <1>1, <1>3, <1>5, <1>9, BoingStacked
  <2>4. QED
    BY <1>1, <1>2, <1>4, <2>1, <2>2, <2>3, InvStep
<1>10. CASE Switch(t)
  <2>1. PICK c : c = arg[t]
    OBVIOUS
  <2>2. CASE Lockable(c, t)
    <3>1. Paths(own, depth)'
      BY <1>1, <1>3, <1>10, <2>1, <2>2, SwitchPaths
    <3>2. FramedAt(own, t)'
      BY <1>1, <1>3, <1>10, <2>1, <2>2, SwitchFramed
    <3>3. Features = {} => StackedAt(own, t)'
      BY <1>1, <1>3, <1>10, <2>1, <2>2, SwitchStacked
    <3>4. QED
      BY <1>1, <1>2, <1>4, <3>1, <3>2, <3>3, InvStep
  <2>3. CASE ~ Lockable(c, t)
    <3>1. at[t] = "switch"
      BY <1>10 DEF Switch
    <3>2. c \in Views /\ own[c] = t
      BY <1>1, <1>3, <2>1, <2>3, <3>1, FailedSwitch, ViewKinds
    <3>3. PICK own2 : /\ Mapped(own2, depth) /\ own2[c] = NoOne
                      /\ \A v \in Views : v # c => own2[v] = own[v]
                      /\ OwnsMove(own, own2, t)
      BY <1>3, <3>2, Disown
    <3>4. Paths(own2, depth)'
      BY <1>1, <1>3, <1>10, <2>1, <2>3, <3>3, LosingPaths
    <3>5. FramedAt(own2, t)'
      BY <1>1, <1>3, <1>10, <2>1, <2>3, <3>3, LosingFramed
    <3>6. Features = {} => StackedAt(own2, t)'
      BY <1>1, <1>3, <1>10, <2>1, <2>3, <3>3, LosingStacked
    <3>7. QED
      BY <1>1, <1>2, <3>3, <3>4, <3>5, <3>6, InvStep
  <2>4. QED
    BY <2>2, <2>3
<1>11. CASE CallBack(t)
  <2>1. Paths(own, depth)'
    BY <1>1, <1>3, <1>5, <1>11, CallBackPaths
  <2>2. FramedAt(own, t)'
    BY <1>1, <1>3, <1>5, <1>11, CallBackFramed
  <2>3. Features = {} => StackedAt(own, t)'
    BY <1>1, <1>3, <1>5, <1>11, CallBackStacked
  <2>4. QED
    BY <1>1, <1>2, <1>4, <2>1, <2>2, <2>3, InvStep
<1>12. CASE Exit(t)
  <2>1. Paths(own, depth)'
    <3>1. CASE w \in Coros /\ w # Orig(t)
      BY <1>1, <1>3, <1>5, <1>12, <3>1, EndingPaths
    <3>2. CASE ~(w \in Coros /\ w # Orig(t))
      BY <1>1, <1>3, <1>5, <1>12, <3>2, ReturningPaths
    <3>3. QED
      BY <3>1, <3>2
  <2>2. FramedAt(own, t)'
    BY <1>1, <1>3, <1>5, <1>12, ExitFramed
  <2>3. Features = {} => StackedAt(own, t)'
    BY <1>1, <1>3, <1>5, <1>12, ExitStacked
  <2>4. QED
    BY <1>1, <1>2, <1>4, <2>1, <2>2, <2>3, InvStep
<1>13. CASE Finish(t)
  <2>1. at[t] = "finish" /\ at[t] \notin Elsewhere
    BY <1>13 DEF Finish, Elsewhere
  <2>2. w \in Views /\ own[w] = t
    BY <1>1, <1>3, <1>5, <2>1, Executing
  <2>3. PICK own2 : /\ Mapped(own2, depth) /\ own2[w] = NoOne
                    /\ \A v \in Views : v # w => own2[v] = own[v]
                    /\ OwnsMove(own, own2, t)
    BY <1>3, <2>2, Disown
  <2>4. Paths(own2, depth)'
    BY <1>1, <1>3, <1>5, <1>13, <2>3, FinishingPaths
  <2>5. FramedAt(own2, t)'
    BY <1>1, <1>3, <1>5, <1>13, <2>3, FinishingFramed
  <2>6. Features = {} => StackedAt(own2, t)'
    BY <1>1, <1>3, <1>5, <1>13, <2>3, FinishingStacked
  <2>7. QED
    BY <1>1, <1>2, <2>3, <2>4, <2>5, <2>6, InvStep
<1>14. CASE Relock(t)
  <2>1. Paths(own, depth)'
    BY <1>1, <1>3, <1>5, <1>14, RelockPaths
  <2>2. FramedAt(own, t)'
    BY <1>1, <1>3, <1>5, <1>14, RelockFramed
  <2>3. Features = {} => StackedAt(own, t)'
    BY <1>1, <1>3, <1>5, <1>14, RelockStacked
  <2>4. QED
    BY <1>1, <1>2, <1>4, <2>1, <2>2, <2>3, InvStep
<1>15. \/ Inside(t) \/ (Resuming(t) /\ ~ Refuse(t)) \/ Yielding(t) \/ Boing(t)
       \/ Switch(t) \/ CallBack(t) \/ Exit(t) \/ Finish(t) \/ Relock(t)
  BY DEF Step, Inside
<1>16. QED
  BY <1>6, <1>7, <1>8, <1>9, <1>10, <1>11, <1>12, <1>13, <1>14, <1>15

(* Steps that leave everything as it is.                                     *)
LEMMA IInvStutter ==
  ASSUME IInv, UNCHANGED vars
  PROVE  IInv'
<1>1. /\ UNCHANGED <<status, returnto, lock>>
      /\ UNCHANGED <<trampoline, corotail, runlock, sval, frames, want>>
      /\ UNCHANGED <<runs, at, err, arg, how, calls>>
      /\ UNCHANGED <<due, heard, lost, bare>>
  BY DEF vars, object, view, thread, marks
<1>2. PICK own, depth : Inv(own, depth)
  BY DEF IInv
<1>3. /\ \A t : Cur(t)' = Cur(t) /\ Orig(t)' = Orig(t) /\ Target(t)' = Target(t)
      /\ \A t, v : /\ Earlier(t, v)' = Earlier(t, v) /\ Before(t, v)' = Before(t, v)
                   /\ Count(t, v)' = Count(t, v) /\ Height(t, v)' = Height(t, v)
                   /\ Lockable(v, t)' = Lockable(v, t)
  BY <1>1 DEF Cur, Orig, Target, Earlier, Before, Count, Here, Height, Cut, Lockable
<1>4. State'
  BY <1>1 DEF IInv, State, Typed, LocksHeld, RunsLinked
<1>5. Trampolines'
  BY <1>1, <1>3 DEF IInv, Trampolines
<1>6. Chain(own, depth)'
  BY <1>1, <1>2, <1>3 DEF Inv, Paths, Chain, Mapped, Owned, Chained, Topmost, Begun
<1>7. Switching(own)'
  <2>1. Switching(own)
    BY <1>2 DEF Inv, Paths
  <2>2. QED
    BY <1>1, <1>3, <2>1 DEF Switching, Up, Down, Entering
<1>8. Leaving' /\ Resumable'
  BY <1>1, <1>2, <1>3 DEF Inv, Paths, Leaving, Resumable
<1>9. Runlocked'
  BY <1>1, <1>2, <1>3 DEF Inv, Paths, Runlocked, RunlockedAt, Alone, LockCounts
<1>10. Framed(own)'
  <2>1. Framed(own)
    BY <1>2 DEF Inv
  <2>2. QED
    BY <1>1, <1>3, <2>1 DEF Framed, Alt
<1>11. Features = {} => Errors' /\ Valued(own)'
  BY <1>1, <1>2, <1>3 DEF Inv, Errors, Valued, Stacked, Arriving, Ending
<1>12. Inv(own, depth)'
  BY <1>6, <1>7, <1>8, <1>9, <1>10, <1>11 DEF Inv, Paths
<1>13. QED
  BY <1>4, <1>5, <1>12 DEF IInv

LEMMA InitIInv ==
  ASSUME Init
  PROVE  IInv
<1> USE CoroutineAssumption, ViewKinds
<1> DEFINE own == [v \in Views |-> IF v \in Threads THEN v ELSE NoOne]
           depth == [v \in Views |-> 0]
<1>1. /\ \A t \in Threads : runs[t] = <<Run(t)>> /\ at[t] = "code" /\ ~ err[t]
      /\ \A v \in Views : trampoline[v] = NoOne /\ sval[v] = <<>> /\ want[v] = "args"
      /\ \A c \in Coros : status[c] = "none" /\ lock[c] = NoOne
      /\ lost = {} /\ bare = {}
  BY DEF Init
<1>2. \A t \in Threads : /\ Cur(t) = t /\ Target(t) = t /\ Len(runs[t]) = 1
                         /\ runs[t][1].orig = t /\ runs[t][1].cur = t
                         /\ runs[t] # <<>>
  <2>1. \A t : Len(<<Run(t)>>) = 1 /\ <<Run(t)>>[1] = Run(t) /\ <<Run(t)>> # <<>>
    OBVIOUS
  <2>2. \A t : Run(t).orig = t /\ Run(t).cur = t
    BY DEF Run
  <2>3. ASSUME NEW t \in Threads
        PROVE  /\ Cur(t) = t /\ Len(runs[t]) = 1 /\ runs[t] # <<>>
               /\ runs[t][1].orig = t /\ runs[t][1].cur = t
    <3>1. runs[t] = <<Run(t)>>
      BY <1>1
    <3>2. Len(runs[t]) = 1 /\ runs[t][1] = Run(t) /\ runs[t] # <<>>
      BY <2>1, <3>1
    <3>3. QED
      BY <2>2, <3>2 DEF Cur, Last
  <2>4. \A t \in Threads : Target(t) = Cur(t)
    BY <1>1 DEF Target
  <2>5. QED
    BY <2>3, <2>4
<1>3. \A t \in Threads : \A v : Earlier(t, v) = {} /\ Before(t, v) = 0
  <2>1. \A t \in Threads : Len(runs[t]) - 1 = 0 /\ 1..0 = {}
    BY <1>2
  <2>2. \A t \in Threads : \A v : Earlier(t, v) = {}
    BY <2>1 DEF Earlier
  <2>3. QED
    BY <2>2, FS_EmptySet DEF Before
<1>4. \A t \in Threads : \A v : Count(t, v) = IF v = t THEN 1 ELSE 0
  BY <1>1, <1>2, <1>3 DEF Count, Here
<1>5. Typed
  <2>1. \A t \in Threads : <<Run(t)>> \in Seq(Entry) /\ <<t>> \in Seq(Threads)
    BY DEF Run, Entry
  <2>2. <<>> \in Seq(Values) /\ <<>> \in Seq(Frames) /\ <<>> \in Seq(Threads)
    OBVIOUS
  <2>3. <<"main">> \in Seq(Frames)
    BY DEF Frames
  <2>4. /\ status \in [Coros -> {"none", "init", "run", "yield"} \cup Ended]
        /\ returnto \in [Coros -> Views \cup {NoOne}]
        /\ lock \in [Coros -> Threads \cup {NoOne}]
        /\ trampoline \in [Views -> Views \cup {NoOne}]
        /\ corotail \in [Views -> BOOLEAN]
        /\ want \in [Views -> {"args", "list", "one", "tail"}]
        /\ err \in [Threads -> BOOLEAN] /\ arg \in [Threads -> Views \cup {NoOne}]
        /\ how \in [Threads -> {"list", "one", "tail"}]
        /\ calls \in Nat /\ lost \subseteq Coros /\ bare \subseteq Views
    BY DEF Init
  <2>5. at \in [Threads -> Places]
    BY DEF Init, Places
  <2>6. /\ runlock \in [Views -> Seq(Threads)] /\ sval \in [Views -> Seq(Values)]
        /\ frames \in [Views -> Seq(Frames)] /\ due \in [Views -> Seq(Values)]
        /\ runs \in [Threads -> Seq(Entry)]
    BY <2>1, <2>2, <2>3 DEF Init
  <2>7. heard \in [Threads -> [got : Seq(Values), due : Seq(Values)]]
    BY <2>2 DEF Init, Quiet
  <2>8. QED
    BY <2>4, <2>5, <2>6, <2>7 DEF Typed
<1>6. LocksHeld
  BY <1>1 DEF LocksHeld
<1>7. RunsLinked
  <2>1. 1 <= MaxRuns /\ 1..(1 - 1) = {}
    OBVIOUS
  <2>2. \A t \in Threads : runs[t] # <<>> /\ at[t] # "over"
    BY <1>1, <1>2
  <2>3. \A t \in Threads : Len(runs[t]) = 1 /\ runs[t][1].orig = t
    BY <1>2
  <2>4. \A t \in Threads : Len(runs[t]) <= MaxRuns /\ 1..(Len(runs[t]) - 1) = {}
    BY <2>1, <2>3
  <2>5. QED
    BY <2>2, <2>3, <2>4 DEF RunsLinked
<1>8. Trampolines
  BY <1>1 DEF Trampolines
<1>9. Mapped(own, depth) /\ \A t \in Threads : own[t] = t
  BY DEF Mapped
<1>10. /\ \A v \in Views : depth[v] = 0
       /\ \A c \in Coros : own[c] = NoOne
       /\ \A t \in Threads, v \in Views : own[v] = t <=> v = t
  OBVIOUS
<1> HIDE DEF own, depth
<1>11. Chain(own, depth)
  <2>1. Owned(own)
    BY <1>1, <1>9, <1>10 DEF Owned
  <2>2. Chained(own, depth)
    BY <1>9, <1>10 DEF Chained
  <2>3. Topmost(own, depth)
    BY <1>1, <1>2, <1>9, <1>10 DEF Topmost
  <2>4. Begun(own, depth)
    BY <1>2, <1>9, <1>10 DEF Begun
  <2>5. QED
    BY <1>9, <2>1, <2>2, <2>3, <2>4 DEF Chain
<1>12. Switching(own) /\ Leaving /\ Resumable
  BY <1>1 DEF Switching, Leaving, Resumable
<1>13. Runlocked
  <2> SUFFICES ASSUME NEW v \in Views
               PROVE  RunlockedAt(v)
    BY DEF Runlocked
  <2>1. Alone(v)
    BY <1>4 DEF Alone
  <2>2. CASE v \in Threads
    <3>1. runlock[v] = <<v>>
      BY <2>2 DEF Init
    <3>2. Len(<<v>>) = 1 /\ \A i \in 1..Len(<<v>>) : <<v>>[i] = v
      OBVIOUS
    <3>3. \A t \in Threads : Count(t, v) > 0 => t = v
      BY <1>4
    <3>4. Count(v, v) = 1
      BY <1>4, <2>2
    <3>5. LockCounts(v, v)
      BY <1>1, <3>1, <3>2, <3>4 DEF LockCounts, Lockable
    <3>6. QED
      BY <2>1, <2>2, <3>3, <3>4, <3>5 DEF RunlockedAt
  <2>3. CASE v \notin Threads
    <3>1. runlock[v] = <<>>
      BY <2>3 DEF Init
    <3>2. \A t \in Threads : Count(t, v) = 0
      BY <1>4, <2>3
    <3>3. QED
      BY <1>1, <2>1, <3>1, <3>2 DEF RunlockedAt
  <2>4. QED
    BY <2>2, <2>3
<1>14. Framed(own)
  <2>1. ASSUME NEW t \in Threads, NEW v \in Views, own[v] = t
        PROVE  frames[v] = Alt(Height(t, v))
    <3>1. v = t
      BY <1>10, <2>1
    <3>2. frames[v] = <<"main">>
      BY <3>1 DEF Init
    <3>3. Height(t, v) = 1
      BY <1>1, <1>2, <1>3, <3>1 DEF Height, Cut
    <3>4. QED
      BY <3>2, <3>3, AltFacts
  <2>2. \A c \in Coros : frames[c] = <<>>
    BY DEF Init
  <2>3. QED
    BY <1>1, <2>1, <2>2 DEF Framed
<1>15. Errors
  BY <1>1 DEF Errors
<1>16. Features = {} => Valued(own)
  <2>1. \A t \in Threads : heard[t].got = heard[t].due
    BY DEF Init, Quiet
  <2>2. \A t \in Threads : how[t] # "one"
    BY DEF Init
  <2>3. \A t \in Threads, v \in Views : own[v] = t => Stacked(t, v)
    BY <1>1, <1>2, <1>10 DEF Stacked, Arriving, Ending
  <2>4. QED
    BY <1>1, <2>1, <2>2, <2>3 DEF Valued
<1>17. Inv(own, depth)
  BY <1>11, <1>12, <1>13, <1>14, <1>15, <1>16 DEF Inv, Paths
<1>18. QED
  BY <1>5, <1>6, <1>7, <1>8, <1>17 DEF IInv, State

LEMMA IInvNext ==
  ASSUME Plain, IInv, [Next]_vars
  PROVE  IInv'
<1>1. ASSUME NEW t \in Threads, Step(t)
      PROVE  IInv'
  BY <1>1, IInvStep
<1>2. CASE UNCHANGED vars
  BY <1>2, IInvStutter
<1>3. QED
  BY <1>1, <1>2 DEF Next

THEOREM Invariance ==
  ASSUME Plain
  PROVE  Spec => []IInv
<1>1. Init => IInv
  BY InitIInv
<1>2. IInv /\ [Next]_vars => IInv'
  BY IInvNext
<1>3. QED
  BY <1>1, <1>2, PTL DEF Spec

-----------------------------------------------------------------------------
(* What the invariant says.                                                  *)

LEMMA IInvTypeOK ==
  ASSUME IInv
  PROVE  TypeOK
<1>1. Typed /\ LocksHeld /\ Trampolines
  BY DEF IInv, State
<1>2. \A c \in Coros : lock[c] # NoOne => lock[c] \in Threads /\ arg[lock[c]] = c
  BY <1>1 DEF Typed, LocksHeld
<1>3. \A v \in Views :
        trampoline[v] # NoOne <=> \E t \in Threads : at[t] = "boing" /\ Cur(t) = v
  BY <1>1 DEF Trampolines
<1>4. QED
  BY <1>1, <1>2, <1>3 DEF TypeOK, Typed, Places

(* The runs that are in a view and have its runlock.                         *)
Holding(t, v) ==
  {i \in 1..Len(runs[t]) :
     runs[t][i].cur = v /\ ~(i = Len(runs[t]) /\ at[t] \in {"switch", "finish", "relock"})}

LEMMA HoldingCount ==
  ASSUME State, NEW t \in Threads, NEW v
  PROVE  /\ IsFiniteSet(Holding(t, v))
         /\ Cardinality(Holding(t, v)) = Count(t, v)
         /\ Holding(t, v) \subseteq 1..MaxRuns
<1> DEFINE n == Len(runs[t])
<1>1. /\ n \in Nat /\ n <= MaxRuns /\ IsFiniteSet(Earlier(t, v))
      /\ Before(t, v) \in Nat
  BY EarlierFinite DEF State, RunsLinked
<1>2. Holding(t, v) \subseteq 1..MaxRuns
  <2>1. \A i \in 1..n : i \in 1..MaxRuns
    BY <1>1, CoroutineAssumption
  <2>2. QED
    BY <2>1 DEF Holding
<1>3. CASE at[t] = "over"
  <2>1. runs[t] = <<>>
    BY <1>3 DEF State, RunsLinked
  <2>2. Holding(t, v) = {} /\ Earlier(t, v) = {}
    BY <2>1 DEF Holding, Earlier
  <2>3. QED
    BY <1>2, <1>3, <2>2, FS_EmptySet DEF Count, Before, Here
<1>4. CASE at[t] # "over"
  <2>1. n >= 1 /\ Cur(t) = runs[t][n].cur
    BY <1>4, InRuns
  <2>2. Holding(t, v) = Earlier(t, v) \cup (IF Here(t, v) THEN {n} ELSE {})
    <3>1. 1..n = (1..(n - 1)) \cup {n} /\ n \notin 1..(n - 1)
      BY <1>1, <2>1
    <3>2. QED
      BY <1>4, <2>1, <3>1 DEF Holding, Earlier, Here
  <2>3. n \notin Earlier(t, v)
    BY <1>1 DEF Earlier
  <2>4. CASE Here(t, v)
    <3>1. Holding(t, v) = Earlier(t, v) \cup {n}
      BY <2>2, <2>4
    <3>2. /\ IsFiniteSet(Earlier(t, v) \cup {n})
          /\ Cardinality(Earlier(t, v) \cup {n}) = Cardinality(Earlier(t, v)) + 1
      BY <1>1, <2>3, FS_AddElement
    <3>3. QED
      BY <1>1, <1>2, <2>4, <3>1, <3>2 DEF Count, Before
  <2>5. CASE ~ Here(t, v)
    <3>1. Holding(t, v) = Earlier(t, v)
      BY <2>2, <2>5
    <3>2. QED
      BY <1>1, <1>2, <2>5, <3>1 DEF Count, Before
  <2>6. QED
    BY <2>4, <2>5
<1>5. QED
  BY <1>3, <1>4

LEMMA IInvHeld ==
  ASSUME IInv
  PROVE  HeldByRuns
<1>1. State /\ Runlocked /\ Typed
  BY DEF IInv, Inv, Paths, State
<1> SUFFICES ASSUME NEW v \in Views, v \notin bare
             PROVE  /\ Len(runlock[v]) =
                         Cardinality({r \in Threads \X (1..MaxRuns) : r[2] \in Holding(r[1], v)})
                    /\ \A i \in 1..Len(runlock[v]) : Holding(runlock[v][i], v) # {}
  BY DEF HeldByRuns, Holding
<1> DEFINE all == {r \in Threads \X (1..MaxRuns) : r[2] \in Holding(r[1], v)}
<1>2. RunlockedAt(v)
  BY <1>1 DEF Runlocked
<1>3. \A t \in Threads : /\ IsFiniteSet(Holding(t, v))
                         /\ Cardinality(Holding(t, v)) = Count(t, v)
                         /\ Holding(t, v) \subseteq 1..MaxRuns
                         /\ Count(t, v) \in Nat
  BY <1>1, HoldingCount, EarlierFinite
<1>4. \A t \in Threads : Count(t, v) = 0 <=> Holding(t, v) = {}
  BY <1>3, FS_EmptySet
<1>5. CASE \E t \in Threads : Count(t, v) > 0
  <2>1. PICK t \in Threads : Count(t, v) > 0
    BY <1>5
  <2>2. \A u \in Threads : u # t => Holding(u, v) = {}
    <3>1. \A u \in Threads : u # t => ~(Count(u, v) > 0)
      BY <1>2, <2>1 DEF RunlockedAt, Alone
    <3>2. QED
      BY <1>3, <1>4, <3>1
  <2>3. all = {t} \X Holding(t, v)
    BY <1>3, <2>2
  <2>4. Cardinality(all) = Count(t, v)
    <3>1. IsFiniteSet({t}) /\ Cardinality({t}) = 1
      BY FS_Singleton
    <3>2. Cardinality({t} \X Holding(t, v)) = 1 * Cardinality(Holding(t, v))
      BY <1>3, <3>1, FS_Product
    <3>3. PICK n \in Nat : n = Count(t, v) /\ n = Cardinality(Holding(t, v))
      BY <1>3
    <3>4. 1 * n = n
      OBVIOUS
    <3>5. QED
      BY <2>3, <3>2, <3>3, <3>4
  <2>5. Lockable(v, t) /\ Len(runlock[v]) = Count(t, v)
    BY <1>2, <2>1 DEF RunlockedAt, LockCounts
  <2>6. Holding(t, v) # {}
    BY <1>3, <1>4, <2>1
  <2>7. QED
    BY <2>4, <2>5, <2>6 DEF Lockable
<1>6. CASE ~ \E t \in Threads : Count(t, v) > 0
  <2>1. \A t \in Threads : Count(t, v) = 0
    BY <1>3, <1>6
  <2>2. runlock[v] = <<>>
    BY <1>2, <2>1 DEF RunlockedAt
  <2>3. all = {}
    BY <1>4, <2>1
  <2>4. Cardinality(all) = 0
    BY <2>3, FS_EmptySet
  <2>5. Len(runlock[v]) = 0 /\ 1..0 = {}
    BY <2>2
  <2>6. QED
    BY <2>4, <2>5
<1>7. QED
  BY <1>5, <1>6

LEMMA AltLast ==
  ASSUME NEW b \in Nat
  PROVE  /\ Alt(2 * b + 1) # <<>> /\ Last(Alt(2 * b + 1)) = "main"
         /\ Alt(2 * b + 2) # <<>> /\ Last(Alt(2 * b + 2)) = "native"
<1>1. /\ 2 * b + 1 \in Nat /\ 2 * b + 1 > 0 /\ (2 * b + 1) % 2 = 1
      /\ 2 * b + 2 \in Nat /\ 2 * b + 2 > 0 /\ (2 * b + 2) % 2 # 1
  OBVIOUS
<1>2. ASSUME NEW n \in Nat, n > 0
      PROVE  Alt(n) # <<>> /\ Last(Alt(n)) = IF n % 2 = 1 THEN "main" ELSE "native"
  <2>1. Alt(n) \in Seq(Frames) /\ Len(Alt(n)) = n
    BY AltFacts
  <2>2. Alt(n) # <<>>
    BY <1>2, <2>1
  <2>3. n \in 1..n
    BY <1>2
  <2>4. Alt(n)[n] = IF n % 2 = 1 THEN "main" ELSE "native"
    BY <2>3 DEF Alt
  <2>5. QED
    BY <2>1, <2>2, <2>4 DEF Last
<1>3. QED
  BY <1>1, <1>2

LEMMA IInvFrames ==
  ASSUME Plain, IInv
  PROVE  FramesMatch
<1>1. State
  BY DEF IInv
<1>2. PICK own, depth : Inv(own, depth)
  BY DEF IInv
<1>3. Chain(own, depth) /\ Framed(own) /\ Switching(own) /\ Typed
  BY <1>1, <1>2 DEF Inv, Paths, State
<1>4. ASSUME NEW t \in Threads, at[t] \notin Elsewhere
      PROVE  own[Cur(t)] = t /\ Cur(t) \in Views /\ frames[Cur(t)] = Alt(Height(t, Cur(t)))
  <2>1. own[Cur(t)] = t /\ Cur(t) \in Views /\ at[t] # "over"
    BY <1>1, <1>3, <1>4, Executing DEF Elsewhere
  <2>2. QED
    BY <1>3, <2>1 DEF Framed
<1>5. ASSUME NEW t \in Threads, at[t] \in {"code", "error"}
      PROVE  frames[Cur(t)] # <<>> /\ Last(frames[Cur(t)]) = "main"
  <2>1. PICK b \in Nat : b = Before(t, Cur(t))
    BY <1>3, EarlierFinite
  <2>2. Height(t, Cur(t)) = 2 * b + 1
    BY <1>5, <2>1 DEF Height, Cut
  <2>3. frames[Cur(t)] = Alt(2 * b + 1)
    BY <1>4, <1>5, <2>2 DEF Elsewhere
  <2>4. QED
    BY <2>3, AltLast
<1>6. ASSUME NEW t \in Threads, at[t] = "native"
      PROVE  frames[Cur(t)] # <<>> /\ Last(frames[Cur(t)]) = "native"
  <2>1. PICK b \in Nat : b = Before(t, Cur(t))
    BY <1>3, EarlierFinite
  <2>2. Height(t, Cur(t)) = 2 * b + 2
    BY <1>6, <2>1 DEF Height
  <2>3. frames[Cur(t)] = Alt(2 * b + 2)
    BY <1>4, <1>6, <2>2 DEF Elsewhere
  <2>4. QED
    BY <2>3, AltLast
<1>7. ASSUME NEW c \in Coros, status[c] \in Ended
      PROVE  /\ frames[c] = <<>>
             /\ \A t \in Threads : runs[t] # <<>> /\ Cur(t) = c => at[t] = "switch"
  <2>1. frames[c] = <<>>
    BY <1>3, <1>7 DEF Framed
  <2>2. status[c] # "run" /\ status[c] # "yield"
    BY <1>7 DEF Ended
  <2>3. own[c] = NoOne
    BY <1>3, <2>2, Unowned
  <2>4. ASSUME NEW t \in Threads, runs[t] # <<>>, Cur(t) = c
        PROVE  at[t] = "switch"
    <3>1. at[t] # "over" /\ t # NoOne
      BY <1>1, <2>4, CoroutineAssumption DEF State, RunsLinked
    <3>2. at[t] \in Elsewhere
      BY <1>4, <2>3, <2>4, <3>1
    <3>3. at[t] # "boing"
      <4>1. at[t] = "boing" => Down(own, t)
        BY <1>3, <2>3, <2>4, <3>1 DEF Switching
      <4>2. QED
        BY <2>2, <2>4, <4>1 DEF Down
    <3>4. QED
      BY <3>1, <3>2, <3>3 DEF Elsewhere
  <2>5. QED
    BY <2>1, <2>4
<1>8. QED
  BY <1>5, <1>6, <1>7 DEF FramesMatch

LEMMA IInvDelivered ==
  ASSUME Features = {}, IInv
  PROVE  Delivered
BY DEF IInv, Inv, Valued, Delivered

-----------------------------------------------------------------------------
(* The way back from a view.  The library's induction theorems have an       *)
(* operator for a parameter; here the property is a set.                     *)

LEMMA SmallestOf ==
  ASSUME NEW A, A \subseteq Nat, A # {}
  PROVE  \E n \in A : \A k \in A : n <= k
<1>1. \E n \in A : \A k \in A : <<k, n>> \notin OpToRel(<, Nat)
  BY NatLessThanWellFounded, WFMin
<1>2. PICK n \in A : \A k \in A : ~(k < n)
  BY <1>1 DEF OpToRel
<1>3. QED
  BY <1>2

LEMMA SetOfAllNat ==
  ASSUME NEW A, 0 \in A, \A n \in Nat : n \in A => n + 1 \in A
  PROVE  \A n \in Nat : n \in A
<1>1. SUFFICES ASSUME Nat \ A # {}
               PROVE  FALSE
  OBVIOUS
<1>2. PICK n \in Nat \ A : \A k \in Nat \ A : n <= k
  BY <1>1, SmallestOf
<1>3. n - 1 \in Nat /\ n - 1 \in A
  BY <1>2
<1>4. QED
  BY <1>2, <1>3

LEMMA UpTo ==
  ASSUME NEW n \in Nat, NEW A, 0 \in A, \A i \in 1..n : i - 1 \in A => i \in A
  PROVE  \A i \in 0..n : i \in A
<1> DEFINE B == {m \in Nat : m <= n => m \in A}
<1>1. 0 \in B
  OBVIOUS
<1>2. ASSUME NEW m \in Nat, m \in B
      PROVE  m + 1 \in B
  <2>1. CASE m + 1 <= n
    <3>1. m + 1 \in 1..n /\ (m + 1) - 1 = m /\ m \in A
      BY <1>2, <2>1
    <3>2. QED
      BY <3>1
  <2>2. CASE ~(m + 1 <= n)
    BY <2>2
  <2>3. QED
    BY <2>1, <2>2
<1> HIDE DEF B
<1>3. \A m \in Nat : m \in B
  BY <1>1, <1>2, SetOfAllNat
<1>4. QED
  BY <1>3 DEF B

Back(x) == IF x \in Coros THEN returnto[x] ELSE x
Goes(v, m, f) == f = [n \in 0..m |-> IF n = 0 THEN v ELSE Back(f[n - 1])]

LEMMA WayExists ==
  ASSUME NEW v
  PROVE  \A m \in Nat : \E f : Goes(v, m, f)
<1> DEFINE A == {m \in Nat : \E f : Goes(v, m, f)}
<1>1. 0 \in A
  <2>1. Goes(v, 0, [n \in 0..0 |-> v])
    BY DEF Goes
  <2>2. QED
    BY <2>1
<1>2. ASSUME NEW m \in Nat, m \in A
      PROVE  m + 1 \in A
  <2>1. PICK f : Goes(v, m, f)
    BY <1>2
  <2> DEFINE g == [n \in 0..(m + 1) |-> IF n = m + 1 THEN Back(f[m]) ELSE f[n]]
  <2>2. /\ \A n \in 0..m : g[n] = f[n]
        /\ g[m + 1] = Back(f[m]) /\ (m + 1) - 1 = m
    OBVIOUS
  <2>3. ASSUME NEW n \in 0..(m + 1)
        PROVE  g[n] = IF n = 0 THEN v ELSE Back(g[n - 1])
    <3>1. CASE n = m + 1
      <4>1. m \in 0..m /\ n # 0
        BY <3>1
      <4>2. QED
        BY <2>2, <3>1, <4>1
    <3>2. CASE n # m + 1
      <4>1. n \in 0..m /\ (n # 0 => n - 1 \in 0..m)
        BY <3>2
      <4>2. f[n] = IF n = 0 THEN v ELSE Back(f[n - 1])
        BY <2>1, <4>1 DEF Goes
      <4>3. QED
        BY <2>2, <4>1, <4>2
    <3>3. QED
      BY <3>1, <3>2
  <2>4. g = [n \in 0..(m + 1) |-> g[n]]
    OBVIOUS
  <2> HIDE DEF g
  <2>5. Goes(v, m + 1, g)
    BY <2>3, <2>4 DEF Goes
  <2>6. QED
    BY <2>5
<1> HIDE DEF A
<1>3. \A m \in Nat : m \in A
  BY <1>1, <1>2, SetOfAllNat
<1>4. QED
  BY <1>3 DEF A

LEMMA Size == Cardinality(Coros) \in Nat
BY CoroutineAssumption, FS_CardinalityType

LEMMA WayBack ==
  ASSUME NEW v
  PROVE  /\ Way(v)[0] = v
         /\ \A n \in 1..Cardinality(Coros) : Way(v)[n] = Back(Way(v)[n - 1])
<1> DEFINE N == Cardinality(Coros)
<1>1. N \in Nat
  BY Size
<1>2. \E f : Goes(v, N, f)
  BY <1>1, WayExists
<1>3. Way(v) = CHOOSE f : Goes(v, N, f)
  BY DEF Way, Goes, Back
<1>4. Goes(v, N, Way(v))
  BY <1>2, <1>3
<1>5. QED
  BY <1>1, <1>4 DEF Goes

(* A thread owns as many coroutines up to a view as that is deep.            *)
LEMMA DepthBound ==
  ASSUME NEW own, NEW depth, Chain(own, depth), NEW t \in Threads,
         NEW v \in Views, own[v] = t
  PROVE  depth[v] \in 0..Cardinality(Coros)
<1> DEFINE Under(d) == {c \in Coros : own[c] = t /\ depth[c] <= d}
           A == {d \in Nat : \A u \in Views : own[u] = t /\ depth[u] = d =>
                                                Cardinality(Under(d)) = d}
<1> USE CoroutineAssumption
<1>1. \A d : IsFiniteSet(Under(d)) /\ Cardinality(Under(d)) <= Cardinality(Coros)
  <2>1. \A d : Under(d) \subseteq Coros
    OBVIOUS
  <2>2. QED
    BY <2>1, FS_Subset
<1>2. \A c \in Coros : own[c] = t =>
        /\ returnto[c] \in Views /\ own[returnto[c]] = t
        /\ depth[c] = depth[returnto[c]] + 1
        /\ depth[c] \in Nat /\ depth[returnto[c]] \in Nat
  BY Resumer
<1>3. /\ \A u \in Threads : depth[u] = 0
      /\ \A u \in Views : depth[u] \in Nat
      /\ \A u, x \in Views : own[u] = t /\ own[x] = t /\ depth[u] = depth[x] => u = x
  BY DEF Chain, Chained, Mapped
<1>4. 0 \in A
  <2>1. Under(0) = {}
    BY <1>2
  <2>2. QED
    BY <2>1, FS_EmptySet
<1>5. ASSUME NEW n \in Nat, n \in A
      PROVE  n + 1 \in A
  <2> SUFFICES ASSUME NEW u \in Views, own[u] = t, depth[u] = n + 1
               PROVE  Cardinality(Under(n + 1)) = n + 1
    OBVIOUS
  <2>1. u \in Coros
    BY <1>3, ViewKinds
  <2>2. depth[returnto[u]] = n /\ returnto[u] \in Views /\ own[returnto[u]] = t
    BY <1>2, <2>1
  <2>3. Cardinality(Under(n)) = n
    BY <1>5, <2>2
  <2>4. Under(n + 1) = Under(n) \cup {u} /\ u \notin Under(n)
    <3>1. \A c \in Coros : own[c] = t /\ depth[c] <= n + 1 => depth[c] <= n \/ c = u
      <4>1. \A c \in Coros : own[c] = t /\ depth[c] = n + 1 => c = u
        BY <1>3, ViewKinds
      <4>2. QED
        BY <1>2, <4>1
    <3>2. \A c \in Coros : own[c] = t /\ depth[c] <= n => depth[c] <= n + 1
      BY <1>2
    <3>3. QED
      BY <2>1, <3>1, <3>2
  <2> HIDE DEF Under
  <2>5. Cardinality(Under(n) \cup {u}) = Cardinality(Under(n)) + 1
    BY <1>1, <2>4, FS_AddElement
  <2>6. QED
    BY <2>3, <2>4, <2>5
<1> HIDE DEF A
<1>6. \A n \in Nat : n \in A
  BY <1>4, <1>5, SetOfAllNat
<1>7. Cardinality(Under(depth[v])) = depth[v]
  BY <1>3, <1>6 DEF A
<1>8. QED
  BY <1>1, <1>3, <1>7, Size

LEMMA WayDown ==
  ASSUME NEW own, NEW depth, Chain(own, depth), NEW t \in Threads,
         NEW v \in Views, own[v] = t
  PROVE  \A n \in 0..depth[v] :
           /\ n \in 0..Cardinality(Coros)
           /\ Way(v)[n] \in Views /\ own[Way(v)[n]] = t
           /\ depth[Way(v)[n]] = depth[v] - n
<1> DEFINE w == Way(v)
           A == {n \in Nat : w[n] \in Views /\ own[w[n]] = t /\ depth[w[n]] = depth[v] - n}
<1>1. depth[v] \in Nat /\ Cardinality(Coros) \in Nat /\ depth[v] <= Cardinality(Coros)
  BY DepthBound, Size DEF Chain, Mapped
<1>2. w[0] = v /\ \A n \in 1..Cardinality(Coros) : w[n] = Back(w[n - 1])
  BY WayBack
<1> HIDE DEF w
<1>3. 0 \in A
  BY <1>1, <1>2
<1>4. ASSUME NEW n \in 1..depth[v], n - 1 \in A
      PROVE  n \in A
  <2>1. n \in 1..Cardinality(Coros)
    BY <1>1
  <2>2. PICK x \in Views : x = w[n - 1] /\ own[x] = t /\ depth[x] = depth[v] - (n - 1)
    BY <1>4
  <2>3. depth[x] # 0
    BY <1>1, <2>2
  <2>4. x \in Coros
    BY <2>3, ViewKinds DEF Chain, Chained
  <2>5. w[n] = returnto[x]
    BY <1>2, <2>1, <2>2, <2>4 DEF Back
  <2>6. /\ returnto[x] \in Views /\ own[returnto[x]] = t
        /\ depth[x] = depth[returnto[x]] + 1 /\ depth[returnto[x]] \in Nat
    BY <2>2, <2>4, Resumer, CoroutineAssumption
  <2>7. depth[returnto[x]] = depth[v] - n
    BY <1>1, <2>2, <2>6
  <2>8. QED
    BY <2>5, <2>6, <2>7
<1> HIDE DEF A
<1>5. \A n \in 0..depth[v] : n \in A
  BY <1>1, <1>3, <1>4, UpTo
<1>6. QED
  BY <1>1, <1>5 DEF A, w

(* Where each unc0_run of a thread goes to.                                  *)
LEMMA GoalIs ==
  ASSUME State, NEW own, NEW depth, Chain(own, depth),
         NEW t \in Threads, NEW i \in 1..Len(runs[t])
  PROVE  /\ at[t] # "over"
         /\ Goal(t, i) \in Views /\ own[Goal(t, i)] = t
         /\ i = Len(runs[t]) => Goal(t, i) = Target(t)
         /\ i # Len(runs[t]) => Goal(t, i) = runs[t][i + 1].orig
         /\ runs[t][i].orig \in Views /\ own[runs[t][i].orig] = t
         /\ depth[runs[t][i].orig] <= depth[Goal(t, i)]
<1>1. Len(runs[t]) \in Nat /\ Typed
  BY EarlierFinite DEF State
<1>2. at[t] # "over"
  <2>1. runs[t] # <<>>
    BY <1>1
  <2>2. QED
    BY <2>1 DEF State, RunsLinked
<1>3. /\ Cur(t) = runs[t][Len(runs[t])].cur
      /\ \A j \in 1..Len(runs[t]) : runs[t][j].orig \in Views
  BY <1>2, InRuns
<1>4. /\ Target(t) \in Views /\ own[Target(t)] = t
      /\ \A j \in 1..Len(runs[t]) :
           /\ own[runs[t][j].orig] = t
           /\ depth[runs[t][j].orig] <= depth[Target(t)]
           /\ \A k \in 1..j : depth[runs[t][k].orig] <= depth[runs[t][j].orig]
  BY <1>2 DEF Chain, Topmost, Begun
<1>5. CASE i = Len(runs[t])
  <2>1. Goal(t, i) = Target(t)
    BY <1>3, <1>5 DEF Goal, Target
  <2>2. QED
    BY <1>2, <1>3, <1>4, <1>5, <2>1
<1>6. CASE i # Len(runs[t])
  <2>1. i \in 1..(Len(runs[t]) - 1) /\ i + 1 \in 1..Len(runs[t]) /\ i \in 1..(i + 1)
    BY <1>1, <1>6
  <2>2. Goal(t, i) = runs[t][i + 1].orig
    BY <1>6, <2>1 DEF Goal, State, RunsLinked
  <2>3. QED
    BY <1>2, <1>3, <1>4, <1>6, <2>1, <2>2
<1>7. QED
  BY <1>5, <1>6

(* and what it goes through.                                                 *)
LEMMA ResumedIs ==
  ASSUME State, NEW own, NEW depth, Chain(own, depth),
         NEW t \in Threads, NEW i \in 1..Len(runs[t])
  PROVE  /\ \E n \in 0..Cardinality(Coros) : Comes(t, i, n)
         /\ \A c : c \in Resumed(t, i) <=>
              /\ c \in Coros /\ own[c] = t
              /\ depth[runs[t][i].orig] < depth[c] /\ depth[c] <= depth[Goal(t, i)]
<1> DEFINE N == Cardinality(Coros)
<1>1. PICK g \in Views : g = Goal(t, i)
  BY GoalIs
<1>2. PICK o \in Views : o = runs[t][i].orig
  BY GoalIs
<1>3. /\ own[g] = t /\ own[o] = t /\ depth[g] \in Nat /\ depth[o] \in Nat
      /\ depth[o] <= depth[g]
  BY <1>1, <1>2, GoalIs DEF Chain, Mapped
<1>4. PICK w : w = Way(g)
  OBVIOUS
<1>5. /\ N \in Nat /\ depth[g] <= N
      /\ \A n \in 0..depth[g] : /\ w[n] \in Views /\ own[w[n]] = t
                                /\ depth[w[n]] = depth[g] - n
  BY <1>3, <1>4, WayDown, DepthBound, Size
<1>6. \A u, v \in Views : own[u] = t /\ own[v] = t /\ depth[u] = depth[v] => u = v
  BY CoroutineAssumption DEF Chain, Chained
<1>7. PICK m \in Nat : m = depth[g] - depth[o]
  BY <1>3
<1>8. \A n : Comes(t, i, n) <=> w[n] = o
  BY <1>1, <1>2, <1>4 DEF Comes
<1>9. w[m] = o /\ m \in 0..N
  <2>1. m \in 0..depth[g] /\ depth[g] - m = depth[o]
    BY <1>3, <1>7
  <2>2. QED
    BY <1>3, <1>5, <1>6, <2>1
<1>10. \A n \in 0..N : n < m => w[n] # o
  <2> SUFFICES ASSUME NEW n \in 0..N, n < m
               PROVE  w[n] # o
    OBVIOUS
  <2>1. n \in 0..depth[g] /\ depth[g] - n # depth[o]
    BY <1>3, <1>7
  <2>2. QED
    BY <1>5, <2>1
<1>11. Resumed(t, i) = {w[n] : n \in {k \in 0..N : k < m}}
  <2>1. {n \in 0..N : \A k \in 0..n : ~ Comes(t, i, k)} = {k \in 0..N : k < m}
    <3>1. ASSUME NEW n \in 0..N, \A k \in 0..n : ~ Comes(t, i, k)
          PROVE  n < m
      <4>1. m \notin 0..n
        BY <1>8, <1>9, <3>1
      <4>2. QED
        BY <4>1
    <3>2. ASSUME NEW n \in 0..N, n < m, NEW k \in 0..n
          PROVE  ~ Comes(t, i, k)
      <4>1. k \in 0..N /\ k < m
        BY <1>5, <3>2
      <4>2. QED
        BY <1>8, <1>10, <4>1
    <3>3. QED
      BY <3>1, <3>2
  <2>2. QED
    BY <1>1, <1>4, <2>1 DEF Resumed
<1>12. ASSUME NEW c
       PROVE  c \in Resumed(t, i) <=> /\ c \in Coros /\ own[c] = t
                                      /\ depth[o] < depth[c] /\ depth[c] <= depth[g]
  <2>1. ASSUME c \in Resumed(t, i)
        PROVE  /\ c \in Coros /\ own[c] = t
               /\ depth[o] < depth[c] /\ depth[c] <= depth[g]
    <3>1. PICK n \in 0..N : n < m /\ c = w[n]
      BY <1>11, <2>1
    <3>2. n \in 0..depth[g]
      BY <1>3, <1>7, <3>1
    <3>3. c \in Views /\ own[c] = t /\ depth[c] = depth[g] - n
      BY <1>5, <3>1, <3>2
    <3>4. depth[o] < depth[c] /\ depth[c] <= depth[g] /\ depth[c] # 0
      BY <1>3, <1>7, <3>1, <3>3
    <3>5. c \in Coros
      BY <3>3, <3>4, ViewKinds DEF Chain, Chained
    <3>6. QED
      BY <3>3, <3>4, <3>5
  <2>2. ASSUME c \in Coros, own[c] = t, depth[o] < depth[c], depth[c] <= depth[g]
        PROVE  c \in Resumed(t, i)
    <3>1. c \in Views /\ depth[c] \in Nat
      BY <2>2, ViewKinds DEF Chain, Mapped
    <3>2. PICK n \in Nat : n = depth[g] - depth[c]
      BY <1>3, <2>2, <3>1
    <3>3. n \in 0..depth[g] /\ n \in 0..N /\ n < m /\ depth[g] - n = depth[c]
      BY <1>3, <1>5, <1>7, <2>2, <3>1, <3>2
    <3>4. w[n] = c
      BY <1>5, <1>6, <2>2, <3>1, <3>3
    <3>5. QED
      BY <1>11, <3>3, <3>4
  <2>3. QED
    BY <2>1, <2>2
<1>13. \E n \in 0..N : Comes(t, i, n)
  BY <1>8, <1>9
<1>14. QED
  BY <1>1, <1>2, <1>12, <1>13

(* A coroutine that runs is gone through by one unc0_run of its owner.       *)
LEMMA OneGoesThrough ==
  ASSUME State, NEW own, NEW depth, Chain(own, depth),
         NEW t \in Threads, NEW c \in Coros, own[c] = t
  PROVE  \E i \in 1..Len(runs[t]) :
           \A j \in 1..Len(runs[t]) : c \in Resumed(t, j) <=> j = i
<1> DEFINE n == Len(runs[t])
           A == {i \in 1..n : depth[c] <= depth[Goal(t, i)]}
<1>1. at[t] # "over"
  BY DEF Chain, Topmost
<1>2. n \in Nat /\ n >= 1 /\ runs[t][1].orig = t /\ n \in 1..n /\ 1 \in 1..n
  BY <1>1, InRuns
<1>3. /\ c \in Views /\ depth[c] \in Nat /\ depth[c] # 0 /\ depth[t] = 0
      /\ \A v \in Views : depth[v] \in Nat
  BY Resumer, ViewKinds, CoroutineAssumption DEF Chain, Chained, Mapped
<1>4. Target(t) \in Views /\ depth[c] <= depth[Target(t)]
  BY <1>1, <1>3 DEF Chain, Topmost
<1>5. /\ \A i \in 1..n : runs[t][i].orig \in Views /\ Goal(t, i) \in Views
      /\ Goal(t, n) = Target(t)
      /\ \A i \in 1..n : i # n => Goal(t, i) = runs[t][i + 1].orig
  BY <1>2, GoalIs
<1>6. \A j \in 1..n : \A k \in 1..j : depth[runs[t][k].orig] <= depth[runs[t][j].orig]
  BY DEF Chain, Begun
<1>7. A \subseteq Nat /\ A # {}
  BY <1>2, <1>4, <1>5
<1>8. PICK i \in A : \A k \in A : i <= k
  <2> HIDE DEF A
  <2>1. QED
    BY <1>7, SmallestOf
<1>9. i \in 1..n /\ depth[c] <= depth[Goal(t, i)]
  BY <1>8
<1>10. depth[runs[t][i].orig] < depth[c]
  <2>1. CASE i = 1
    BY <1>2, <1>3, <2>1
  <2>2. CASE i # 1
    <3>1. i - 1 \in 1..n /\ i - 1 # n /\ (i - 1) + 1 = i /\ ~(i <= i - 1)
      BY <1>2, <1>9, <2>2
    <3>2. i - 1 \notin A
      BY <1>8, <3>1
    <3>3. ~(depth[c] <= depth[Goal(t, i - 1)])
      BY <3>1, <3>2
    <3>4. Goal(t, i - 1) = runs[t][i].orig
      BY <1>5, <3>1
    <3>5. QED
      BY <1>3, <1>5, <1>9, <3>3, <3>4
  <2>3. QED
    BY <2>1, <2>2
<1>11. \A j \in 1..n : c \in Resumed(t, j) <=>
         depth[runs[t][j].orig] < depth[c] /\ depth[c] <= depth[Goal(t, j)]
  BY ResumedIs
<1>12. ASSUME NEW j \in 1..n, NEW k \in 1..n, j < k,
              depth[c] <= depth[Goal(t, j)]
       PROVE  ~(depth[runs[t][k].orig] < depth[c])
  <2>1. j # n /\ j + 1 \in 1..n /\ j + 1 \in 1..k
    BY <1>2, <1>12
  <2>2. Goal(t, j) = runs[t][j + 1].orig
    BY <1>5, <2>1
  <2>3. depth[runs[t][j + 1].orig] <= depth[runs[t][k].orig]
    BY <1>6, <2>1
  <2>4. depth[runs[t][j + 1].orig] \in Nat /\ depth[runs[t][k].orig] \in Nat
    BY <1>3, <1>5, <2>1
  <2>5. QED
    BY <1>3, <1>12, <2>2, <2>3, <2>4
<1>13. ASSUME NEW j \in 1..n, c \in Resumed(t, j)
       PROVE  j = i
  <2>1. depth[runs[t][j].orig] < depth[c] /\ depth[c] <= depth[Goal(t, j)]
    BY <1>11, <1>13
  <2>2. ~(j < i) /\ ~(i < j)
    BY <1>9, <1>10, <1>12, <2>1
  <2>3. i \in Nat /\ j \in Nat
    BY <1>9
  <2>4. QED
    BY <2>2, <2>3
<1>14. c \in Resumed(t, i)
  BY <1>9, <1>10, <1>11
<1>15. QED
  BY <1>9, <1>13, <1>14

LEMMA IInvAwaited ==
  ASSUME IInv
  PROVE  Awaited
<1>1. State /\ \A t \in Threads : Len(runs[t]) \in Nat /\ Len(runs[t]) <= MaxRuns
  BY EarlierFinite DEF IInv, State, RunsLinked
<1>2. PICK own, depth : Inv(own, depth)
  BY DEF IInv
<1>3. /\ Chain(own, depth) /\ own \in [Views -> Threads \cup {NoOne}]
      /\ NoOne \notin Threads
      /\ \A c \in Coros : own[c] # NoOne <=> status[c] = "run" /\ c \notin lost
  BY <1>2, CoroutineAssumption DEF Inv, Paths, Chain, Mapped, Owned
<1>4. ASSUME NEW t \in Threads, NEW i \in 1..MaxRuns, i <= Len(runs[t])
      PROVE  /\ \E n \in 0..Cardinality(Coros) : Comes(t, i, n)
             /\ \A c \in Resumed(t, i) : status[c] = "run" /\ c \notin lost
  <2>1. i \in 1..Len(runs[t])
    BY <1>1, <1>4
  <2>2. /\ \E n \in 0..Cardinality(Coros) : Comes(t, i, n)
        /\ \A c \in Resumed(t, i) : c \in Coros /\ own[c] = t
    BY <1>1, <1>3, <2>1, ResumedIs
  <2>3. QED
    BY <1>3, <2>2
<1>5. ASSUME NEW c \in Coros, status[c] = "run", c \notin lost
      PROVE  Cardinality({r \in Threads \X (1..MaxRuns) :
                            r[2] <= Len(runs[r[1]]) /\ c \in Resumed(r[1], r[2])}) = 1
  <2> DEFINE all == {r \in Threads \X (1..MaxRuns) :
                       r[2] <= Len(runs[r[1]]) /\ c \in Resumed(r[1], r[2])}
  <2>1. PICK t \in Threads : own[c] = t
    BY <1>3, <1>5, ViewKinds
  <2>2. PICK i \in 1..Len(runs[t]) :
          \A j \in 1..Len(runs[t]) : c \in Resumed(t, j) <=> j = i
    BY <1>1, <1>3, <2>1, OneGoesThrough
  <2>3. <<t, i>> \in all
    <3>1. i \in 1..MaxRuns /\ i <= Len(runs[t]) /\ c \in Resumed(t, i)
      BY <1>1, <2>2, CoroutineAssumption
    <3>2. QED
      BY <3>1
  <2>4. ASSUME NEW u \in Threads, NEW j \in 1..MaxRuns, j <= Len(runs[u]), c \in Resumed(u, j)
        PROVE  u = t /\ j = i
    <3>1. j \in 1..Len(runs[u])
      BY <1>1, <2>4
    <3>2. own[c] = u
      BY <1>1, <1>3, <2>4, <3>1, ResumedIs
    <3>3. u = t
      BY <2>1, <3>2
    <3>4. QED
      BY <2>2, <2>4, <3>1, <3>3
  <2>5. all = {<<t, i>>}
    <3>1. \A r \in all : r[1] = t /\ r[2] = i /\ r = <<r[1], r[2]>>
      BY <2>4
    <3>2. QED
      BY <2>3, <3>1
  <2>6. QED
    BY <2>5, FS_Singleton
<1>6. QED
  BY <1>4, <1>5 DEF Awaited

-----------------------------------------------------------------------------
(* The theorems.                                                             *)

(* The variables keep their types; the opaque object of a coroutine is       *)
(* locked by who asks for it or resumes it, and a view has a trampoline      *)
(* exactly when a thread is about to leave it.                               *)
THEOREM CoroutineTypeCorrect ==
  ASSUME Plain
  PROVE  Spec => []TypeOK
<1>1. IInv => TypeOK
  BY IInvTypeOK
<1>2. QED
  BY <1>1, Invariance, PTL

(* The runlock of a view that has it is held once for each unc0_run that is  *)
(* in the view, and by their thread: resume, yield and the end of a          *)
(* coroutine hand the runlocks over without losing count.                    *)
THEOREM RunlocksHeld ==
  ASSUME Plain
  PROVE  Spec => []HeldByRuns
<1>1. IInv => HeldByRuns
  BY IInvHeld
<1>2. QED
  BY <1>1, Invariance, PTL

(* From the view that an unc0_run executes, returnto leads back to the view  *)
(* the unc0_run began with, and every coroutine that runs is on exactly one  *)
(* of these ways, however threads share coroutines.                          *)
THEOREM ResumersWait ==
  ASSUME Plain
  PROVE  Spec => []Awaited
<1>1. IInv => Awaited
  BY IInvAwaited
<1>2. QED
  BY <1>1, Invariance, PTL

(* Code, errors and C functions that are returned to find their frame; a     *)
(* coroutine that has finished has none, and is not entered again.           *)
THEOREM FramesAlwaysMatch ==
  ASSUME Plain
  PROVE  Spec => []FramesMatch
<1>1. IInv => FramesMatch
  BY IInvFrames
<1>2. QED
  BY <1>1, Invariance, PTL

(* What is passed to resume, to yield, or returned by the function of a      *)
(* coroutine is what the other side receives, when results are lists.        *)
THEOREM AlwaysDelivered ==
  ASSUME Features = {}
  PROVE  Spec => []Delivered
<1>1. Plain
  BY DEF Plain
<1>2. IInv => Delivered
  BY IInvDelivered
<1>3. QED
  BY <1>1, <1>2, Invariance, PTL
=============================================================================
