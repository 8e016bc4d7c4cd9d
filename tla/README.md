# A TLA+ model of Uncil

Uncil is an interpreter in C for a small dynamic language: a compiler to
bytecode, a register machine, reference counting with a tracing collector
behind it, threads, coroutines and a library. This directory models the parts
whose correctness depends on the order of steps and the algorithms that the rest
is built on, checks them with TLC on small instances, and proves with TLAPS, for
instances of any size, what pausing, the heap and its collector, the VM's stacks, coroutines,
synchronisation, the list of views and hash tables promise.

Line numbers are those of `src/src/`; names of operators are those of the C
functions where TLA+ allows it. `PROJECT.json` maps every definition to the
lines it stands for, lists the hazards, and says which property is there for
which of them.

## 1. The system

| Part | State | Operations | Who calls it, what it shares |
| --- | --- | --- | --- |
| World pausing (`umt.c`) | `flow` and `runlock` of every view, `viewlist_lock` | pause, resume, lockorpause | the collector and EXCLUSIVE C functions, against every view that executes |
| VM (`uvm.c`, `uvop.c`, `ustack.c`) | frames, value stack, regions, `with` piles, recursion count of a view | one handler per instruction, calls, returns, errors | runs what the compiler made; calls C functions, which call back |
| Parser, code generator, optimiser (`uparse.c`, `uoptim.c`, `ucomp.c`) | context of a function: code, labels, break and continue labels, `with` depth, symbol tables | one function per statement and expression | used by the API; its code must keep the VM's stacks balanced |
| Entities and collector (`uval.c`, `ugc.c`) | list of entities, counts, marks | allocate, release, incref, decref, mark, sweep | every value; the collector reads the stacks of all views |
| Views and world (`uview.c`) | list of views, IDs, counts, `finalize` | newview, freeview, waitsubviews, scuttle | threads and hosts create and destroy views |
| Threads (`ulibthrd.c`) | thread object, its flags and lock | start, join, end, destructor | drive views; the last main view waits for them |
| Synchronisation (`ulibthrd.c`, `uopaque.c`) | mutex, condition, counter; lock of the opaque object | acquire, release, wait, notify, with time limits | between threads |
| Coroutines (`ulibcoro.c`) | state and lock of a coroutine, a view of its own | resume, yield, finish | a thread moves from view to view |
| Tables and objects (`uhash.c`, `uobj.c`) | buckets, number of entries, generation, frozen | get, set, delete, iterate, prune | programs, while iterators and prune are under way |
| Lists and names (`uarr.c`, `ublob.c`, `usort.c`, `ubtree.c`) | buffers, nodes | insert, remove, sort, look up | programs; symbol tables of the parser |
| Lexer, programs (`ulex.c`, `uprog.c`, `uimpl.c`) | tokens and three sets of strings; code and data | lex, dump, load | compiler, command line |
| Values (`uarithm.c`, `uvop.c`, `uvm.c`) | none | operators, conversions, comparison, overloads | VM, constant folding in the parser |
| Texts and formats (`uutf.c`, `utxt.c`, `ustr.c`, `umem.c`, `uvlq.c`, `uvsio.c`, `ulibjson.c`, `ulibcbor.c`, `ulibconv.c`, `ulibtime.c`) | none | pure functions | library |
| Modules (`umodule.c`) | cache of modules | require | programs |
| Library (`ulib*.c`) | what the operating system keeps | thin functions | programs |

What is hard here:

* any number of threads share one world, and most of the state is guarded by
  flags and light locks, not by one mutex;
* a collection stops all other views by a protocol of flags and try-locks;
* whatever a C function makes must survive a collection although no register
  leads to it, and must not survive for ever;
* the last main view must outlast the threads, while threads end, are joined,
  and are forgotten, in any order;
* errors leave frames, regions, `with` blocks and locks half-way, and each of
  them must be undone exactly once.

What makes each part correct:

* pausing: one owner at a time, nobody executes during a collection, whoever is
  paused is resumed;
* heap: nothing that can be reached is freed or handed out again, counts are
  never too low, what cannot be reached is freed;
* views: IDs are unique, counts are right, the world is freed once and last;
* coroutines: a coroutine is in one thread at most, goes back to who resumed it,
  and what is passed arrives;
* synchronisation: every path gives back what it took, permits are conserved,
  calls with a time limit return;
* VM and compiler: at every instruction the stacks are those of the lexical
  scope, a call gives its caller exactly what it asked for, an error is caught
  by the `try` around it and by no other;
* tables, objects, lists, names: they are the maps and sequences they stand for,
  and who goes through one sees each item once or learns that it has changed;
* expressions: compiled code gives the value the operators give, in the order
  of the source;
* texts and formats: what is written is read back as it was, by code points and
  not by bytes.

## 2. Modules

| Module | Models | Abstract specification |
| --- | --- | --- |
| `Pause` | umt.c; entry, checks and exit of uvm.c; yield, vmpause and halt of uimpl.c | `WorldLock` |
| `PauseProofs` | theorems about `Pause` | |
| `Heap` | uval.c, ugc.c, the C call boundary of uvm.c | `Store` |
| `HeapProofs` | theorems about `Heap` | |
| `ViewList` | uview.c, the life of threads in ulibthrd.c | |
| `ViewListProofs` | theorems about `ViewList` | |
| `Sync` | locks, re-entrant locks, semaphores, monitors, jointimed | |
| `SyncProofs` | theorems about `Sync` | |
| `Codegen` | the statements of uparse.c, uoptim.c, the assembly of ucomp.c, as operators | |
| `VM` | frames, stacks, calls, returns and errors of uvm.c and ustack.c, calls from C of uimpl.c | |
| `VMProofs` | theorems about `VM` | |
| `Coroutine` | ulibcoro.c; vmboing, vmexit and tail calls of uvm.c | |
| `CoroutineProofs` | theorems about `Coroutine` | |
| `Tables` | uhash.c, uobj.c; iterators, prune and copy of ulib.c | `Dictionaries` |
| `TablesProofs` | theorems about `Tables` | |
| `Numbers`, `Operators` | uarithm.c; operators, conversions, comparison and overloads of uvm.c, uvop.c, uval.c | |
| `Expressions`, `Parser` | the expressions and assignments of uparse.c: what becomes of an operand, and which tokens it is read from | |
| `Machine` | reducetmp of uoptim.c, the instructions of expressions in uvm.c | `Meaning`, what docs/Grammar.md, docs/Operators.md and docs/Syntax.md say of expressions and assignments |
| `Library` | puts the following side by side, with their properties | |
| `Arrays`, `Bytes` | uarr.c, ublob.c, the functions of ulib.c on them; umem.c | `Lists` |
| `Sorting` | usort.c | |
| `Symbols` | ubtree.c, the set of names of uhash.c | |
| `Utf8`, `Texts`, `Encodings` | uutf.c; the functions of ulib.c and ustr.c on strings; utxt.c | |
| `Values`, `Json`, `Cbor` | ulibjson.c, ulibcbor.c | |
| `Convert` | uvlq.c, ulibconv.c | |
| `Calendar` | ulibtime.c | |
| `Lexer`, `Written`, `Programs` | ulex.c; uvsio.c; dump and load of uimpl.c, uprog.c | |
| `MCSync`, `MCVM`, `MCTables`, `MCMachine`, `MCLibrary` | constants and symmetry for TLC; programs and inputs | |

**Pause.** A view is named with the thread that drives it. `pc` says where in
the C code it is, one step per access to something shared: setting a flag,
trying a lock, reading `flow`. `Features` switches on what programs may do, so
that a property can be checked with what it holds under. `RequestLock`, `Flag`,
`Probe`, `Paused` are the loops of `unc0_mtpause`; `CheckPause`, `SpinEnd`,
`CheckReturn` those of `unc0_vmcheckpause`; `CallC` to `LeaveC` a C function in
each of the three locking disciplines.

**Heap.** Each view has one register and C functions with one local value each;
an entity holds at most one other. Counting, freeing and giving blocks out again, the protection
of what a C function made (`creffed`), and a collection with its bounded
recursion are the code's. uval.h:175 defines `DEBUG_NO_SLEEPERS` as 1, and so the ring in which
released entities could wait for reuse (uval.c:229-249, 264-275) is not compiled and not
modelled: a value whose last reference goes is unlinked and freed at once (`Wreck`), and its block can
be any view's next value (`Wakes`). `Release` is a release with the cascade it sets off, as many
levels down as the view's recursion limit leaves (`Recurse`, uval.c:125; how many a
program has used up is not modelled, so `Decref` allows any); where it stops, the
entity is freed with its data unreleased. An operation is one step, with the releases it
sets off; what this hides is in section 5 (uval.c:260). `MarkEnt` goes down from one entity, `MarkPass` over the
list, and `Passes` repeats this while `y` says that something is yellow. `Store` is what a
program may rely on: what can be reached stays as it was stored.

**ViewList.** `NewView` is `unc0_newview` in one step, as it runs with the list
locked; `unc_destroy` is many steps, as it gives the lock away in between and
waits. A thread object is its four flags, its lock and who refers to it.

**Sync.** Every call is `Verify` (the lock of the opaque object), what the call
does with mutex and condition, and `Return`. Conditions may wake without
reason. Programs keep to docs/Thread.md: who releases or waits has acquired.

**Codegen.** `Compile` takes a statement tree to instructions as the parser,
the optimiser and the assembler do together: labels, the region that is set up
before a list of values and deleted when the list turns out to need none, the
`with` blocks that break and continue leave, the exit that is or is not added at
the end, tail calls, chains of jumps, dead code. Of an expression only matters
whether it is a value or a call. Each instruction carries, as a ghost field, the
`try` and `with` blocks around it in the source; nothing but properties reads it.

**VM.** One action per instruction (`EXIT`, `EXIT0` and `EXIT1` are one, as are
the ways of calling). What is called is chosen at the call: the program itself
as an Uncil function, a C function, or something that cannot be called. A C
function is in state `native` between its call and its return and may call back
(`CallBack`), which runs a frame of type Main and comes back in state `results`.
`Unwind` is one turn of the loop at vmerror. Values stand for the depth of the
call that made them; registers are left out. `calls`, `blame` and `ret` are
history: who waits for what, which instruction raised the error, what was
returned and received. `e` is the variable of that name in each `unc0_run`, as
far as it outlives an error that a `try` has caught: `Must` clears it, `Exit`
of a main function returns it. `MCVM` builds the programs: every statement within every
other, in every loop, alone or before a return of two values or of a call. The last
part of `VM` says what has to be true of code: `Found` gives the levels of values
and regions at each instruction, and `Fits` says that every instruction finds on
them what it takes and leaves to those that follow what they expect.

**Coroutine.** `runs` are the activations of `unc0_run` a thread is in, each
with its `origw` and `w`; entering and leaving a coroutine changes `w`. `Resume`
and `Resuming` are resume before and after it has locked the coroutine, `Yield`
and `Yielding` yield; `Boing` and `Switch` are vmboing before and after the
runlock is released; `Exit`, `Finish` and `Relock` are vmexit. Of the code of a
view are left its functions called from C and the C functions that have called
back; it may call, fail, catch and return at any point. Threads resume each
other's coroutines at any time, also while the coroutine's last thread is still
on its way out of it (`lost`, `bare`: history of what that leads to). `Features`
switches on what goes wrong for a known reason.

**Tables.** A container is its number of entries, its capacity and a chain of
nodes in each bucket; `Grow`, `Shrink` and `Compact` move the nodes as the code
does. Every access is one step, as the lock of the container is held throughout;
an iterator and a prune are many, since the program runs between their steps.
The generation is kept as what its readers see of it, whether it has changed
since. `Dictionaries` knows only maps, which a step changes at one key.

**Expressions, Parser, Machine.** `Parser` reads the tokens of an assignment, to one
name, to several, with an ellipsis or by an operator, or of a list of expressions, and
`Expressions` says what the code generator does with operands: which are kept in
`next` until it is known where they go, which are folded, which pairs of
instructions become one. `Machine` puts the result through `reducetmp`, or not
(`Program`), and executes it one instruction at a time with registers, the value stack and its
regions; a function that is called answers at once. `Meaning` evaluates the tree
of the same expression, shares its values among the targets (`Assigned`), and writes
it as tokens with no more parentheses than its
precedences need. An integer has 6 bits, a float is an exact fraction.

**Library.** Arrays and blobs are a state machine: any sequence of calls on a
container of at most `MaxSize` items, against `Lists`, with the capacity, the
cells behind the size, the references to items that a call takes and gives back, the lock, and the
copies that a call makes. All others are functions:
a behaviour takes one input, and the property is an action property of that step,
about what the code makes of the input. Each function is written as the
code goes about it (a text is bytes and positions in it, a quantity is digits) and
compared with a definition that does not (code points, one day after another). `Junk` and `Outside`
stand for memory that was never written, or is not the program's.

## 3. Runs

| Run | Shows | Bounds |
| --- | --- | --- |
| `pause` | types, one owner, stopped world, the inductive invariant, refinement of `WorldLock` | 3 views, C functions of all three kinds |
| `pause_any` | whatever programs do, nobody is left paused by nobody | 2 views, every feature: blocking and callbacks too |
| `heap` | nothing dangles, counts, marking ends, refinement of `Store` | 2 views, 4 blocks, C functions one deep, counts to 2, marking cut at depth 1, releasing up to two levels down |
| `views` | IDs, counts, the world freed once and last, threads waited for | 1 main view, a second view, 2 threads, daemons, forgotten thread objects |
| `sync` | locks given back, permits conserved, calls with a limit return | 2 threads with 2 calls each; a re-entrant lock, a semaphore, a monitor with its own lock |
| `vm` | code fits the stacks (`CodeFits`), stacks match the source, returns reach the caller, errors the right `try`, recursion is counted, C functions find their stack as it was | 1997 programs of nesting 2, recursion limit 2, C functions returning 0 to 2 values |
| `coro` | who runs is awaited once, runlocks, frames, values, calls end | 2 threads, 2 coroutines, 4 calls, one callback deep |
| `tables` | every key where it is looked for, lengths, loops that are complete, refinement of `Dictionaries` | 5 keys in a table of 4 and 8 buckets; 2 keys in a table, its copy and an object |
| `expressions` | code means what its statement means; nothing is read that was not written | every tree of one operator over 6 atoms, and of two over 3; up to 3 targets and values |
| `library` | arrays and blobs implement `Lists`; sorts, names, texts, formats, dates | see below |
| `pause_deadlock` | a collection beside a spinning view never ends | 2 views |
| `expressions_join` | the optimiser loses the value of one of two paths | as `expressions`, with shape "join" |

The bounds are large enough for the interesting cases: three views give a
pauser, a second pauser that waits for the first, and a view that executes; the
heap has a cycle, a chain and a mark recursion that is cut at depth 1, so that
a second pass over yellow entities is needed, a release that cascades down a chain of three,
or stops on its way with what is left still held, and a fourth block that a new value can take
before the old one is released; two permits asked for of one make
a semaphore wait, and two calls each let a thread hold one object while it
waits for another. Bounded counters are named in the constants (`MaxRefs`,
`MaxLoad`, `MaxDepth`, `Recurse`, `MaxHeld`, `MaxCount`, `MaxCalls`).

In `vm` a recursion limit of two lets every program call itself, hit the limit,
and be called back from C; three levels (1.9 million states) show nothing new.
Its programs avoid what the code generator gets wrong, in three groups that
`Shapes` lets in again ("escape", "values", "ending"); and its `Features` are
those without the VM's own errors. Section 5 says which property each of them
violates.

Four calls in `coro` are enough for a coroutine to go from one thread to the
other and back, for one to resume the other from a callback, and for a switch to
fail; five calls (0.9 million states) show nothing new. Its `Features` are
empty: results are taken as lists, yield is not called in a return or by what a
return has resumed, nor by what a C function has called back, the compiler
keeps `w` in memory, and a coroutine that has yielded without its runlock is not
resumed before its thread has left it (`bare`). Section 5 says what each feature breaks.

In `tables` the hashes put two keys into one bucket of four that are apart in one
of eight, so that growing splits a chain and shrinking joins it again. A third
key in the second program would show nothing that the first does not.

`expressions` has calls that give no value, one, two, or fail, public and local
variables, spreads, lists, indices and chains of comparisons, each as the operand
of each, and assignments to up to three names with the ellipsis at every place
and too many, too few or just enough values. Statements whose code is wrong for a known reason are let in by
`Shapes`: "join", "folded", "negated", "nested", "compound" (section 5); programs with `and`, `or` and `if` are
compiled without the optimiser unless "join" is there.

`library` takes one of about 50,000 inputs, or makes any calls on an array or blob. Arrays and blobs have up to four
items and every index inside or next to them, in sequences of any length; sorts
have 3 to 100 items in nine shapes, with a cache, one that is refused at first, or
none, so that insertion, merging in place, galloping and both ways of
rotating short ranges are met; names are up to 34, until the root splits a
second time; texts have up to four code points of one, two or three bytes; documents are two
containers that hold up to two items each, themselves and each other
included; integers are all of 12 bits; sources are two words of every kind with
every kind of space between them; programs are dumped on every machine with
every truncation and every changed byte of the header; the years go from 1583
to 2420, the times over changes of the zone and of the year, the month and the
day around 29 February. `MCLibrary` names at each set of inputs what it
leaves out because the code is known to get it wrong.

The violation runs show disagreements between code and documentation; each is
a finding in `PROJECT.json` with the text it contradicts. Others that were once
runs are in section 5 with the bounds that show them.

Run `pause` checks its `TypeOK` as a part of `WorldInv`.
`Heap`, `ViewList`, `Sync`, `VM` and `Coroutine` have a `TypeOK` too. They are
proved (section 4); all hold under their configurations, and can be
added there; the time is better spent on the properties that relate their variables.

### Fairness

`Pause`: a view that can take a step inside the VM or the protocol takes it;
nothing is assumed about when a program calls, collects, blocks or halts.
Mutexes need not be fair to anyone. `ViewList`: threads are scheduled and what
they call returns. `Sync`: threads are scheduled, time limits run out;
a wait without limit may last for ever. `Coroutine`: threads are scheduled, and
those that wait for a mutex get it when it is free. All of this is weak fairness, which a
preemptive scheduler gives.

## 4. Proofs

Every theorem is about `Spec`, for every value of the constants that the module's
assumptions admit: any finite set of views, threads, objects or keys, any hashes, any
bound. A further hypothesis is there where TLC has a counterexample without it (the
last column; section 5 says what the code does then).

| Module | Theorems | Further hypotheses |
| --- | --- | --- |
| `PauseProofs` | `TypeCorrect`, `PauseHasOwnerHolds` (whoever is told to pause has somebody who will resume it) | none |
| | `OneOwnerHolds`, `Refinement` (of `WorldLock`) | no `spread`, no `hostcollect` |
| | `WorldStoppedHolds`, `WorldInvHolds` | no `halt` either |
| `HeapProofs` | `HeapInvariance`, `HeapTypeCorrect`, `NothingEverDangles`, `CountsDoCover`, `MarkingDoesEnd`, `StoreImplemented` (refinement of `Store`) | `Shallow`: C functions one deep (`MaxDepth` = 1), no `adopt` |
| `SyncProofs` | `SyncTypeCorrect`, `LocksExactlyHolds`, `PermitsConservedHolds` | none |
| | `HoldsExactlyHolds` | no `new` |
| `ViewListProofs` | `ViewTypeCorrect`, `IdsSortedHolds`, `CountsViewsHolds`, `FreedLastHolds`, `WaitedForHolds`, `WorldUsedHolds` | none |
| `TablesProofs` | `TablesInvariant`, `PlacedHolds`, `LengthCountsHolds`, `IterationCompleteHolds`, `DictionariesImplemented` (refinement of `Dictionaries`) | no `prune`; equal keys have one hash |
| `CoroutineProofs` | `Invariance`, `CoroutineTypeCorrect`, `RunlocksHeld`, `ResumersWait`, `FramesAlwaysMatch` | `Plain`: no feature but `one` |
| | `AlwaysDelivered` | no feature |
| `VMProofs` | `Invariance`, `TypeCorrect`, `ScopesMatch`, `CatchesMatch`, `NativeUnharmed`, `RecursionCounted` | `Verified`: every program `Fits`; `Plain`: no feature but `quiet` and `tailnext` |
| | `ReturnsDeliver` | `Verified`; no feature |

With these, every invariant and every refinement that the runs `pause`, `pause_any`,
`heap`, `views`, `sync`, `coro` and `tables` check is proved, and of `vm` all but
`CodeFits`. `WorldUsed` itself speaks only of programs
without daemons, which nobody waits for.

**Pause.** `OneOwner` is not inductive. `OwnerInv` adds that a view inside the VM holds
its runlock exactly once (twice while it probes itself), that the view list
belongs to the view in one of the three loops, where a pending collection can
be, and the heart of it, `Awaited`: a view that owns the world is still on the
list of every other view that probes, so no second pause completes. `WorldInv`
adds `Flagged` (all views are flagged while one probes or collects) and
`NoneLoose` (a view that has been probed will look at its flag before it
executes). Run `pause` checks `WorldInv` as an invariant. With `spread` or
`hostcollect` the code releases or never takes the runlock, and with `halt` the
flag of a pause is overwritten: TLC finds the violations, so the assumptions
are needed. `PauseHasOwner` has an invariant of its own, `PauseProof`, that needs no
runlock and so holds with every feature: the view list belongs to whoever is in a loop,
a pause that no collection asked for is that of an EXCLUSIVE function, and a view that
resumes the others has still on its list whomever it finds paused, unless a third
view pauses it again.

**Heap.** `CountsCover` is about what is reached now, and that changes with every
release, all the way down a cascade. The invariant speaks of any set of entities that is
in use instead: slots and links lead from it only into it, nothing in it has been dropped, and each
count covers what holds the entity (`InUse`, `Covers`); such a set exists, and what is
reached is the least of them (`CoverLive`). `Sound` says that no entity is listed twice, and no count is below zero;
`MadeIn` that the local value of a C function leads only to what it has made. During
an operation one count may be one higher than its holders: `Covers(h, r, K, x)` has
`x` for the reference that is still to be released. The steps are:
a release, by induction over the levels that are left (`DecrefFacts`: if the count was
one, nothing in use holds `x`, and without it the rest is in use, with the reference in
its link to be released next), taking a free block (`WakesFacts`), a slot or a
link that is overwritten (`SlotSwapped`, `Relinked`), and a collection. For the last,
the marking invariant says that what is green leads only to green and yellow, that
roots are green or yellow, and that `y` is the number of yellow entities, which the cut
recursion keeps by wrapping decrements; each pass makes green all that was yellow before
it, so there are at most as many as entities, and at the end green
is closed under links. What the sweep keeps, green and what running C functions have made,
is then a set in use. `StoreImplemented` follows from the same facts: a step leaves the
links of what was in use and still is as they were. TLC has checked the parts of this invariant on
run `heap` before they were proved. Without the hypothesis it has counterexamples, in which
the collector leaves links of protected values to others that it has freed (section 5).

**Sync.** Between calls a thread should have locked what it has acquired. This says
nothing during calls, so `MutexInv` counts what a call has locked besides or
not unlocked yet (`Owed`), at each step of each call, and `InCall` says which calls
can be at which step. Over every pair of thread and mutex, the owner and count
of the mutex are then what is owed (`MutexesMatch`). `HoldsExactly` adds the locks of the
opaque objects; `monitor.new` leaves one of them locked (ulibthrd.c:1443), hence the
hypothesis. `PermitsConserved` is about a sum over all threads, of which a step
changes one term: `SumChange` and `SumZero`, proved by induction over subsets, say what
becomes of the sum.

**ViewList.** The list's lock would give mutual exclusion, had `unc_destroy` not given
it away while it waits, and were it not unlocked once too often afterwards
(uview.c:125). `IInv` says what is left of it: until `finalize` is 2, views between the
count and the unlock own the lock (`Locks`); views that may be used are in the list
and are destroyed by nobody, and no two views destroy the same one (`Structure`);
`viewc` is at least the length of the list and the views on their way out, and
exactly that before `finalize` is 2 (`Counts`); whoever is to free the world is alone and the
list is empty (`Ended`); once `finalize` is set, all views but one and the
daemons are gone or are on the list of those it waits for (`Finishing`). The last
part is what `WaitedFor` and `WorldUsed` follow from.

**Tables.** `IInv` says of each table that a node is in the bucket of its hash, that no
two nodes of a chain have equal keys, that the capacity is a power of two, and
that the number of entries is that of the classes of equal keys in it (`Good`);
of an iterator, that what it has given are the keys of the places
before its own, each once (`Progress`). The capacity matters because growing splits
a chain in two (`Doubling`) and shrinking joins two. What the operations make of a
table is said by lemmas in terms of `In`, which nodes are in it, wherever
they are (`GrowFacts`, `ShrinkFacts` and so on), and the refinement needs no more than
that. `Consistent` is the contract of hash and comparison, which the code breaks for
1 and 1.0 (uval.c:365). `SizeMod` exceeds four times the number of keys, as the width of
a size exceeds what fits into memory: no capacity wraps.

**Coroutine.** What a thread may do depends on where its chain of `returnto` ends, and
other threads change `status` and `returnto` of coroutines that it has just left. The
invariant says that there is an owner and a depth for every view (`Inv(own, depth)`,
existentially, as no variable of the code has them): a coroutine is owned while it runs and is
not lost, by the thread that owns whoever resumed it, and is one deeper
(`Chained`); a thread executes, or is on its way to, the deepest view it owns
(`Topmost`); each `unc0_run` began in a view of the chain, not below the one
around it (`Begun`). A step finds the new owner and depth: resume adds the coroutine
on top, yield and the end take it off. A thread on its way is the hard part
(`Switching`): up, to what it has resumed, it owns the view it leaves; down, after a
yield, it has no part in that view any more, which another thread may have
resumed, whose own switch then is bound to be on its way in. `Runlocked` counts for
each view the runs of its one thread that are in it; `Framed` gives the height of
its frames, which alternate between Uncil and C, from the same number;
`Valued` says what lies on the stack of each view that waits. `Awaited` follows
with a way back of at most as many steps as there are coroutines (`WayExists`), since
depths are distinct numbers (`DepthBound`). TLC has checked this invariant with 2
threads and 2 coroutines before it was proved, and refuted the first ones: this is
how the feature `bare` was found.

**VM.** The compiler promises that whatever way an instruction is reached, the stacks
are the same there; the VM relies on this and checks nothing. `Fits` says it of
each instruction and those it leads to, as a verifier of bytecode would, without
executing anything. Run `vm` checks it of every program that it compiles
(`CodeFits`), and from it alone the proofs show what executing such a program
does, with any calls, errors and callbacks, to any depth. `IInv` has five parts: types
(`Typed`), among them what a frame is; each frame, a function that waits for a call, a
`try` that waits for an error, or a C function that has called back, finds what is below
it as its code expects at the instruction where it goes on (`Stacked`, by
`FrameFits`); the stacks of the function that executes are what `Found`
says, or what an error, a callback or a tail call leaves (`Modes`); `recurse` and `calls` are
counted from the frames (`Counts`); no error that a `try` has caught is left in `e`, but for
feature `quiet` (`Quiet`). `ScopeMatches` alone is not inductive: a return goes back to a frame that was
pushed long ago, about which only `Stacked` says anything. As frames above it come and go, what
is said of a frame depends only on the parts of the stacks below it (`StandsSame`,
`FrameSame`), and a step adds, removes or replaces the top frame (`NestedPush`,
`PopStacks`, `TakesPlace`). A tail call keeps the place of the frame and changes
whose it is. With `tailfail` and `chandler` the code pops a frame of
another, or leaves values behind, and the theorems fail (section 5). `ReturnsOwn` is about
one step: it follows from `Counts` (the call that is answered is that of the frame),
`Executes` (what lies above the last region is what the function returns) and `Quiet`.

**Induction.** The chains of a table, sums over threads, the search for an ID in
the list and the way back from a coroutine are recursive functions over numbers or subsets. What they compute is proved from
the well-foundedness of the naturals: the least number for which a claim fails has a
predecessor for which it holds (`SetOfAllNat` and `Recursion` in `TablesProofs`). Claims are
stated as sets of numbers, as the library's rules for induction take a predicate, which the
provers cannot instantiate. In `Heap` the levels of a release, the depth of marking, the walk
along the list and the passes are such functions too. This does not extend to RECURSIVE operators.

**Only model-checked.** All liveness properties (`ExitEnds`, `CallsEnd` and the like):
fairness and ENABLED are beyond the prover. The parser, the formats and the lexer use
RECURSIVE operators for what is nested, so
no theorem is stated about them: `CodeFits`, that the compiler makes code that fits, stays
with TLC, and so does `Machine`, which executes what such operators made. Arrays and blobs have no proof.

## 5. Divergences without a run

Found while modelling, shown by TLC when the feature or bound named is changed,
or read off the code, and left without a run of their own:

* `Pause`: an EXCLUSIVE function that collects resumes the world it had paused
  (ugc.c:363); a halt is overwritten by a pause or a resume (umt.c:126);
  `unc_yieldfull` inside an EXCLUSIVE function waits for itself (uimpl.c:1183);
  a spread call over a C iterator releases a runlock it did not take
  (uvm.c:1927, feature `spread`); a call from C enters while the world is
  stopped (uvm.c:562); a host that allocates outside the VM collects without a
  runlock (uval.c:215, feature `hostcollect`); a busy try-lock makes a call fail
  with CANNOTLOCK (uvm.c:562); `unc_vmpause` writes a field nobody reads
  (uimpl.c:1193).
* `ViewList`: a thread that read `finalize` = 0 in unc_destroy (uimpl.c:1683) goes
  on to unc0_freeview and waits for viewlist_lock, which the last main view holds
  while it joins the threads (uview.c:273; property `ExitEnds`, one main view and one
  thread, `FairSpec`); docs/API.md:251-252 says that the destroy waits until they have finished.
* `Sync`: acquire waits for the mutex with the opaque object locked, and release
  needs the object first (ulibthrd.c:1221; property `ReleaseReturns`, 2 threads, a
  lock, no features); docs/Thread.md:126-127 and 146.
* `VM`: an error that a `catch` has handled stays in `e` until an instruction
  happens to clear it; if none comes before the function called from C returns, the
  program ends with the error it has caught, and a callback fails (uvm.c:3163;
  feature `quiet`, `ReturnsOwn`); docs/Syntax.md:385-387.
* `Coroutine`: `x = coroutine.yield(1)` and `x = co->resume(2)` give null, since a call
  that fills one register has stored it before the values come (uvm.c:489,
  ulibcoro.c:220; feature `one`, `Delivered`); docs/Coroutine.md:40-41.
* `Pause`: a halted view jumps from vmerror back to vmerror for ever
  (uvm.c:3088; property `HaltEnds`, 2 views, feature `halt`).
* `Heap`: what a C function made stays protected after it returned if the
  entity that was on top has been freed and its block given out again, so garbage survives a collection
  (uvm.c:473; property `UnusedFreed`, 1 view, 2 entities).
* `ViewList`: the search for a free ID fails after the newest view has been
  destroyed (uview.c:222; property `IdFound`, 3 views).
* `Heap`: with C functions two deep, or values a C function keeps without
  having made them (feature `adopt`), `NothingDangles` and `CountsCover` fail (uvm.c:473,
  ugc.c:254). By reading: the view that gives an entity back drops its data and then waits for
  `entity_lock` (uval.c:260), where it can be paused by the owner of the lock that
  collects (umt.c:108, uval.c:216); the sweep frees the dropped entity (ugc.c:349), and the
  view frees it once more. `Heap` takes the release as one step.
* `ViewList`: a thread joined by the program is joined again for ever
  (ulibthrd.c:915); a thread whose object nobody holds locks its own lock twice
  (ulibthrd.c:888); a thread object that was never started keeps the exit
  spinning (uview.c:103); the list is unlocked twice and `--viewc` runs
  unlocked (uview.c:125); the destructor of a thread object without a view
  destroys NULL (ulibthrd.c:1027).
* `Sync`: `monitor.new(lock)` leaves the object of the lock locked for ever
  (ulibthrd.c:1443, feature `new`, property `HoldsExactly`); `jointimed` returns
  true when the time is over and null when the thread had finished
  (ulibthrd.c:1142); `acquiretimed` returns null or throws where
  docs/Thread.md says true or false; `notify(n)` wakes one (ulibthrd.c:386); a
  monitor without a lock has a plain mutex, not a re-entrant one
  (ulibthrd.c:346).
* `Codegen`: nodeadcode does not know that INEXT jumps, so
  `for x << l do if c then return x end end` leaves the code of the function when
  the iterator ends (uoptim.c:260, shape "ending", properties `CodeFits`, `ScopeMatches`); a try
  left by break or continue catches errors raised outside its block
  (uparse.c:3893, shape "escape", `CaughtInside`); several values returned inside
  a `try` are lost (uvm.c:2604, shape "values", `ReturnsOwn`).
* `Codegen`: break in a loop over several variables jumps behind the PUSHF of
  the POPF it runs (uparse.c:2845, shape "escape"); a call returned behind other
  values, `return 1, g()`, becomes a tail call and the others are lost
  (uoptim.c:186), as are the arguments and the handlers of a tail call inside a
  `try` (shape "values"); a function that ends in a catch that ends in a return
  has no exit for the path without an error (uparse.c:3944, shape "ending"); a
  `do` block recurses in the parser for ever (uparse.c:2453).
* `VM`: an iterator that ends in a tail call to a C function which returns
  nothing yields null for ever instead of ending the loop (uvm.c:2872, feature
  `tailnext`, property `ReturnsOwn`); a tail call that fails in the main function
  of a nested run pops the frame of the C function that called back, and at the
  base leaves the recursion count too high (uvm.c:2856, feature `tailfail`,
  property `NativeSees`); C functions as `__open` or `__close` leave values and a
  region behind (uvop.c:823, feature `chandler`, `ScopeMatches`).

* `Coroutine`: `w` of `unc0_run` is changed between setjmp and longjmp without
  being volatile; a compiler that keeps it in a register (gcc -O1 does) makes what
  a coroutine throws or yields land in the view of who resumed it, and
  ASSERT(t) at uvm.c:3123 stops the program at the first yield (feature
  `register`, property `HeldByRuns`); a yield in a return, or in a coroutine that a
  return has resumed, goes on in a function without a frame (uvm.c:2857, feature
  `tail`, `FramesMatch`); a yield in what a C function has called back, a
  comparison of sort for instance, is continued by the wrong `unc0_run`
  (uvm.c:3145, feature `callyield`, `Awaited`); a coroutine that is resumed by
  another thread before its last one has left it can never be resumed again, and
  the view that tried executes without its runlock (uvm.c:3127, histories `lost`
  and `bare`). If that view is a coroutine, catches the error and yields, another thread
  can resume and enter it before its own thread has left it, since no lock is in
  the way; both then use one trampoline and unlock one runlock (feature `bare`, `HeldByRuns`
  and `FramesMatch`, 2 threads, 2 coroutines, 6 calls).

In tables, expressions and the library, most of them seen in the interpreter as well:

* `Tables`: table.prune does not count what it removes, and compaction counts one
  less each time it looks (uhash.c:533, ulib.c:2148; feature `prune`,
  `LengthCounts`); docs/Table.md:15-18. Keys 1 and 1.0 are equal and have different
  hashes, so both can be in a table (uval.c:365). Iterators and prune
  read buckets without the lock (ulib.c:2284). `__setindex` is not given the value
  (uobj.c:439).
* `Expressions`: `not 5` folds to true (uparse.c:2119, shape "folded"); `1 + 2 == 3` and
  `-5 < 3` are false, as the folded operand is taken before it is stored
  (uparse.c:3021, "folded"); a negation that is merged into the jump of `and` or `or`
  changes their value (uparse.c:981, "negated"); `b == (p == q)` compares with
  what the inner comparison left in register 0 (uparse.c:2355, "nested"); `p += p and q`, an if-expression or a list on the
  right of an operator assignment is taken back and lost, and a call after the first value of one
  is made twice (uparse.c:3271, "compound"). By reading:
  an if-expression leaves its region open, and a public left operand is loaded
  after the call in the right one.
* `Numbers`: unc0_mulovf (uarithm.c:134), used in folding, compares signed numbers
  where it means magnitudes; `7 // -2` is -3 and `-7 // -2` is 2 (docs/Operators.md:94-97);
  the least integer `% -1` or `// -1` stops the process.
* `Operators`: a float compared with an integer on its right reads the wrong member (uvop.c:68):
  `[3, 1.5, 2]->sort()` gives `[2, 1.5, 3]`. int("44000000000000000000") is
  7106511852580896768. An object without `__call` that is called does
  nothing and leaves the arguments on the stack (uvm.c:1783).
* `Sorting`: a comparison function is never called as docs/Array.md:95-110 says
  (usort.c:58); rotations of 128 items or more with both parts over 16 misplace
  items (usort.c:197).
* `Symbols`: the slot of a record is reused after a leaf is split, so two names
  share one record, which a function with twelve locals in descending order meets;
  the split of an inner node drops a child, from 35 names on (ubtree.c:85, 108).
* `Arrays`: an insertion writes to cells that still hold the items that have moved on, or were
  never written, and `VCOPY` releases what it finds there: a live item loses a
  reference (uarr.c:163-167); items that were moved down stay behind the size as well
  (uarr.c:188-192), and are released again by the push that writes over them (uarr.c:112).
  `Overwrites` names these calls in `MCLibrary`, `Mislocks` those that leave the lock of a blob wrong; with
  either of them let in, `ImplementsLists` fails. Indexing an array takes no lock (uarr.c:212, 235).
* `Arrays`: the end of a section is compared with what remains of the array, and a
  negative beginning reads past the end (ulib.c:1985, 1343); a blob inserted into the
  middle of a blob loses bytes (ublob.c:130); find and findlast of a blob from an index, and findlast of an array,
  look in the wrong place (ulib.c:1254, 1293, 1833); remove of none and resize to a
  negative size return with the blob locked (ulib.c:1636, 1424), and a set with a
  negative index unlocks twice (ublob.c:266).
* `Texts`: a search for a needle two or more bytes longer than the text wraps
  (umem.c:495); the search from the end misses the first place (umem.c:515), so
  `"aab"->findlast("aa")` is -1; sub and charcode of a position before the beginning,
  and repeat by 0, end the process.
* `Json`: decode("1.5") is 6; true, false and null are written and never read; text
  outside ASCII and the `\0` that is written for a zero byte are refused. `Cbor`: a negative integer is written as its
  magnitude, null and truth values with type 74; a break inside a map of known
  length ends it without a word.
* `Convert`: format repeats its first argument; decode of a signed item whose highest
  bit is set is wrong (-2 is read as 32766); native decode does not look for the end, and
  "=" is the other byte order; `b` leaves the blob locked (ulibconv.c:535);
  decodeb64 that may skip white space drops what follows it.
* `Calendar`: toiso in UTC adds 'Z' to a byte instead of writing it (ulibtime.c:1421); fromiso
  without a zone uses variables that were not set (ulibtime.c:1137); totime fails for
  -1; fromobj accepts the 31st of February.
* `Lexer`: 44000000000000000000 is read as 7106511852580896768 (ulex.c:331), and a number that
  does not fit and goes on with a point or exponent is read bit by bit (ulex.c:345);
  `\x00` shifts every later string (ulex.c:506); an exponent that is too large leaves its
  digits unread (ulex.c:379); a source ends at its first byte that is not UTF-8.
* `Written`: the text of a table that holds itself ends the process (uvsio.c:497), and that of an
  array and a table that hold each other is endless (uvsio.c:409).
* `Programs`: unc_dumpstream gives 0 when writing has failed (uimpl.c:523); a program
  that is refused after its code has been read is freed twice (uimpl.c:419, by reading).

## 6. Plan

1. Done: pausing with its proofs, heap, views and threads, synchronisation.
2. Done: `Codegen`, `VM`, and with `Expressions` to `Machine` short-circuit
   expressions, assignments, spread calls and reducetmp. Left: targets that are
   indices or attributes, bindings, object literals, attributes with prototypes, closers that hit the
   recursion limit.
3. Done: `Coroutine`. Left: collections that hold a runlock while a thread
   switches (composed with `Pause`), the destructor, full stacks.
4. Done: tables, names, arrays and blobs, sorting, arithmetic, texts, formats, dates,
   the lexer, dumped programs. Left: tables whose keys run Uncil code when they are
   compared or hashed (`__hash` and `__cmp` of objects), printf and scanf formats.
5. Left: weak references and finalizers in `Heap`; regular expressions.
6. Done: proofs of all safety properties of `Pause`, `Heap`, `Sync`, `ViewList`, `Tables` and
   `Coroutine`, and those of `VM` from `CodeFits`. Left: that the code `Codegen` makes
   always fits; that the arrays of `Arrays` are lists.

TLC's runs are to stay within a dozen, each a question of its own.

## 7. Not modelled

* Regular expressions: a backtracking matcher; what goes wrong is a matter of
  patterns longer than small instances have. (By reading: replace stops after the
  first match, and findall never ends on an empty one.)
* Input and output, files, processes, the system: thin layers over the operating
  system behind the locks of opaque objects, which `Sync` models.
* Modules and require: file lookup and dlopen around one cache.
* Mathematics and random numbers; floats in texts; rounding: exact fractions stand for
  floats where their order or sign matters.
* Errors (building of exception objects), debug output, command lines,
  configuration.
* Memory exhaustion, but where the code has a path for it that returns normally (a
  view that cannot be made, a cache of a sort that is refused). The collection
  that `umem.c` starts when an allocation fails dereferences a null view.
* Weak references, finalizers (`__destroy`), the destructor of a coroutine.
