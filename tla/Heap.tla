-------------------------------- MODULE Heap --------------------------------
(***************************************************************************)
(* The entities of an Uncil world: reference counting and the mark-and-    *)
(* sweep collector (uval.c, ugc.c), with the protection of the values a    *)
(* running C function has made (creffed, unc0_vmfcall of uvm.c).           *)
(* DEBUG_NO_SLEEPERS is 1 (uval.h:175), so the ring in which uval.c could  *)
(* keep released entities for reuse is not compiled, and not modelled.     *)
(*                                                                         *)
(* Every value is a container with room for one value (an array of length  *)
(* one stands for all of them).  One register per view and one public      *)
(* variable are the collector's roots; a C function has one local value,   *)
(* which is no root.  An operation is one step, and so is a collection, on *)
(* a stopped world (Pause): a view is not paused in the middle of giving   *)
(* an entity back, while it waits for entity_lock (uval.c:260).            *)
(***************************************************************************)
EXTENDS Integers, SequencesExt, TLC

CONSTANTS
  Views,     (* the views of the world                                       *)
  World,     (* the slot of the public variable                              *)
  Ents,      (* the blocks the allocator can give out                        *)
  None,      (* NULL                                                         *)
  MarkDepth, (* UNC_GC_MARK_MAXDEPTH: 32 in the code                         *)
  Recurse,   (* twice the view's recursion limit: levels of releasing        *)
  MaxDepth,  (* bound: C functions of a view running inside one another      *)
  MaxRefs,   (* bound: the count of an entity                                *)
  MaxLoad,   (* bound: listed entities and views that hold something         *)
  Features   (* "adopt": C functions take hold of values they did not make   *)

ASSUME HeapAssumption ==
  /\ IsFiniteSet(Ents) /\ IsFiniteSet(Views)
  /\ None \notin Ents \cup Views
  /\ World \notin Views
  /\ (Views \cup {World}) \cap (Views \X Nat) = {}
  /\ MarkDepth \in Nat \ {0}
  /\ {Recurse, MaxDepth, MaxRefs, MaxLoad} \subseteq Nat
  /\ Features \subseteq {"adopt"}

VARIABLES
  heap, (* list: the chain from etop; ent: the entities                      *)
  root, (* what the slots hold                                               *)
  tops  (* per view, the etop each running C function was entered with       *)

vars == <<heap, root, tops>>

Locals == Views \X (1..MaxDepth)
Slots  == Views \cup {World} \cup Locals

Values == Ents \cup {None}

(* cref is the vid of a creffed entity, None when it is not creffed.  An     *)
(* entity is "asleep" (SLEEPING) from when it is scrapped until it is freed. *)
Entities == [refs : Int, mark : {"red", "asleep"}, link : Values,
             cref : Views \cup {None}]
Heaps == [list : Seq(Ents), ent : [Ents -> Entities]]

Blank == [refs |-> 0, mark |-> "red", link |-> None, cref |-> None]

Init ==
  /\ heap = [list |-> <<>>, ent |-> [e \in Ents |-> Blank]]
  /\ root = [s \in Slots |-> None]
  /\ tops = [v \in Views |-> <<>>]

Memory == INSTANCE Store WITH
            link <- [e \in Ents |-> heap.ent[e].link]

Links == [e \in Ents |-> heap.ent[e].link]
Listed(h) == Range(h.list)
InC(v) == tops[v] # <<>>

-----------------------------------------------------------------------------
(* Operators on a heap h.                                                    *)

(* Taken off the list and freed.                                             *)
Wreck(h, e) ==
  [h EXCEPT !.list = RemoveFirst(@, e), !.ent[e] = Blank]

Incref(h, e) == IF e = None THEN h ELSE [h EXCEPT !.ent[e].refs = @ + 1]

(* The data of an entity is dropped.                                         *)
Scrap(h, e) == [h EXCEPT !.ent[e].mark = "asleep", !.ent[e].link = None]

(* A reference is released.  When it was the last one, the data is dropped,  *)
(* which releases what the container holds, and then the entity is freed.    *)
(* With no level of recursion left it is freed all the same, and what it     *)
(* holds is not released.                                                    *)
Release[n \in 0..Recurse] ==
  [e \in Values |-> [h \in Heaps |->
    IF e = None THEN h
    ELSE LET less == [h EXCEPT !.ent[e].refs = @ - 1]
         IN  IF less.ent[e].refs # 0 THEN less
             ELSE IF n = 0 \/ h.ent[e].mark = "asleep" THEN Wreck(less, e)
             ELSE Wreck(Release[n - 1][h.ent[e].link][Scrap(less, e)], e)]]

(* With any number of levels left.                                           *)
Decref(h, e) == {Release[n][e][h] : n \in 0..Recurse}

(* A new value: prepent marks it as made by a C function.                    *)
Fresh(v, inC) == [refs |-> 0, mark |-> "red", link |-> None,
                  cref |-> IF inC THEN v ELSE None]

(* The entity and heap of every way to get a value: any free block, on top.  *)
Wakes(h, v, inC) ==
  {[e |-> e,
    h |-> [h EXCEPT !.list = <<e>> \o @, !.ent[e] = Fresh(v, inC)]] :
   e \in Ents \ Listed(h)}

-----------------------------------------------------------------------------
(* The collector.  m has the marks; y, modulo the width of Unc_Size, is how  *)
(* many of them are yellow.                                                  *)

RootMark(m, e) ==
  IF e # None /\ m.mark[e] = "red"
  THEN [mark |-> [m.mark EXCEPT ![e] = "yellow"], y |-> m.y + 1]
  ELSE m

Colours == {"red", "asleep", "yellow", "green"}
Markings == [mark : [Ents -> Colours], y : Int]

(* Mutant: an entity below the depth limit is taken for marked. *)
VisitShallow(m, e, n) ==
  LET seen == RootMark(m, e)
  IN  IF seen.mark[e] # "yellow" THEN seen
      ELSE [mark |-> [seen.mark EXCEPT ![e] = "green"], y |-> seen.y - 1]

(* Mutant: an entity that turns green is still counted as yellow. *)
VisitUncounted(m, e, n) ==
  LET seen == RootMark(m, e)
  IN  IF n = 0 \/ seen.mark[e] # "yellow" THEN seen
      ELSE [mark |-> [seen.mark EXCEPT ![e] = "green"], y |-> seen.y]

(* An entity is green once it has been seen with a level left for its link.  *)
Visit(m, e, n) ==
  LET seen == RootMark(m, e)
  IN  IF n = 0 \/ seen.mark[e] # "yellow" THEN seen
      ELSE [mark |-> [seen.mark EXCEPT ![e] = "green"], y |-> seen.y - 1]

MarkEnt[n \in 0..MarkDepth] ==
  [e \in Values |-> [m \in Markings |->
    IF e = None THEN m
    ELSE IF m.mark[e] = "green" THEN m
    ELSE IF n = 0 THEN Visit(m, e, 0)
    ELSE MarkEnt[n - 1][heap.ent[e].link][Visit(m, e, n)]]]

MarkPass(m) ==
  LET upto[i \in 0..Len(heap.list)] ==
        IF i = 0 THEN m
        ELSE LET e == heap.list[i]
                 p == upto[i - 1]
             IN  IF p.mark[e] = "yellow" THEN MarkEnt[MarkDepth][e][p] ELSE p
  IN  upto[Len(heap.list)]

RootMarks ==
  LET reds == {e \in Ents : /\ heap.ent[e].mark = "red"
                            /\ \E s \in Slots \ Locals : root[s] = e}
  IN  [mark |-> [e \in Ents |-> IF e \in reds THEN "yellow" ELSE heap.ent[e].mark],
       y |-> Cardinality(reds)]

(* Passes over the chain until nothing is yellow; each of them makes at      *)
(* least one entity green.                                                   *)
Passes[n \in 0..Cardinality(Ents)] ==
  IF n = 0 THEN RootMarks
  ELSE LET m == Passes[n - 1] IN IF m.y = 0 THEN m ELSE MarkPass(m)
Marks == Passes[Cardinality(Ents)]

(* Mutant: what a C function has made is not protected. *)
PresweepRoots(marks) == marks

(* A creffed entity is kept, whatever its mark; what it holds is not marked. *)
Presweep(marks) ==
  [e \in Ents |-> IF heap.ent[e].cref # None THEN "green" ELSE marks[e]]

(* The members of S in the order of s.                                       *)
Sublist(s, S) ==
  LET upto[i \in 0..Len(s)] ==
        IF i = 0 THEN <<>>
        ELSE IF s[i] \in S THEN Append(upto[i - 1], s[i]) ELSE upto[i - 1]
  IN  upto[Len(s)]

(* What is not marked is freed, and does not release what it holds.          *)
Sweep(marks) ==
  LET kept == {e \in Listed(heap) : marks[e] = "green"}
  IN  [list |-> Sublist(heap.list, kept),
       ent |-> [e \in Ents |->
                  IF e \in kept THEN [heap.ent[e] EXCEPT !.mark = "red"]
                  ELSE Blank]]

Collect(v) ==
  /\ \A w \in Views \ {v} : ~InC(w)
  /\ heap.list # <<>>
  /\ LET m == Marks IN m.y = 0 /\ heap' = Sweep(Presweep(m.mark))
  /\ UNCHANGED <<root, tops>>

-----------------------------------------------------------------------------
(* What a view does: in bytecode it reads and writes its register and the    *)
(* public variable, in a C function it reads its arguments, the register,    *)
(* and has a local value of its own.                                         *)

Own(v)      == IF InC(v) THEN <<v, Len(tops[v])>> ELSE v
Writable(v) == {Own(v), World}
Readable(v) == {v, Own(v), World}

(* A C function of w has made e and all that e leads to.                     *)
Made(w, e) == \A c \in Memory!Reach({e}, Links) : heap.ent[c].cref = w

(* The local value of a C function shall lead only to what it has made.      *)
Held(w) == Memory!Reach({root[Own(w)]}, Links)
MayHold(t, e) ==
  t \in Locals => "adopt" \in Features \/ Made(t[1], e)
MayLink(e, c) ==
  \A w \in Views :
    InC(w) /\ e \in Held(w) => "adopt" \in Features \/ Made(w, c)

(* Mutant: the old value is released before the new one is counted. *)
AssignReleased(h, t, e) ==
  /\ heap' \in {Incref(g, e) : g \in Decref(h, root[t])}
  /\ root' = [root EXCEPT ![t] = e]

(* VSETENT, VCOPY and VMOVE: the old value is released.                      *)
Assign(h, t, e) ==
  /\ heap' \in Decref(Incref(h, e), root[t])
  /\ root' = [root EXCEPT ![t] = e]

New(v) ==
  /\ \E wake \in Wakes(heap, v, InC(v)) : Assign(wake.h, Own(v), wake.e)
  /\ UNCHANGED tops

Copy(v) ==
  /\ \E s \in Readable(v), t \in Writable(v) :
       /\ s # t
       /\ MayHold(t, root[s])
       /\ Assign(heap, t, root[s])
  /\ UNCHANGED tops

Clear(v) ==
  /\ \E t \in Writable(v) : root[t] # None /\ Assign(heap, t, None)
  /\ UNCHANGED tops

Load(v) ==
  /\ \E s \in Readable(v) :
       /\ root[s] # None
       /\ MayHold(Own(v), Links[root[s]])
       /\ Assign(heap, Own(v), Links[root[s]])
  /\ UNCHANGED tops

Save(v) ==
  /\ \E s, t \in Readable(v) :
       /\ root[s] # None
       /\ MayLink(root[s], root[t])
       /\ heap' \in Decref([Incref(heap, root[t]) EXCEPT
                              !.ent[root[s]].link = root[t]],
                            Links[root[s]])
  /\ UNCHANGED <<root, tops>>

(* unc0_vmfcall remembers the top entity.                                    *)
EnterC(v) ==
  /\ Len(tops[v]) < MaxDepth
  /\ tops' = [tops EXCEPT ![v] =
               Append(@, IF heap.list = <<>> THEN None ELSE Head(heap.list))]
  /\ UNCHANGED <<heap, root>>

(* The entities above the one that was on top are the caller's again.        *)
Released(h, v) ==
  LET top  == Last(tops[v])
      above == {h.list[i] : i \in
                  {i \in DOMAIN h.list : \A j \in 1..i : h.list[j] # top}}
  IN  [h EXCEPT !.ent = [e \in Ents |->
         IF e \in above /\ h.ent[e].cref = v
         THEN [h.ent[e] EXCEPT !.cref = None] ELSE h.ent[e]]]

(* The C function clears its local value, or returns it to its caller in     *)
(* place of what the target held (unc_returnlocal, unc0_exitccall).          *)
Return(v) ==
  LET from == Own(v)
      to == IF Len(tops[v]) = 1 THEN v ELSE <<v, Len(tops[v]) - 1>>
  IN  /\ InC(v)
      /\ \E e \in {None, root[from]} :
           /\ MayHold(to, e)
           /\ \E left \in IF e = None THEN Decref(heap, root[from]) ELSE {heap} :
                heap' \in Decref(Released(left, v), root[to])
           /\ root' = [root EXCEPT ![to] = e, ![from] = None]
      /\ tops' = [tops EXCEPT ![v] = Front(@)]

-----------------------------------------------------------------------------

Busy(v) == InC(v) \/ root[v] # None
Bounded ==
  /\ \A e \in Ents : heap.ent[e].refs <= MaxRefs
  /\ Len(heap.list) + Cardinality({v \in Views : Busy(v)}) <= MaxLoad

Next ==
  /\ \E v \in Views :
       \/ Collect(v) \/ Return(v) \/ Clear(v)
       \/ New(v) \/ Copy(v) \/ Load(v) \/ Save(v) \/ EnterC(v)
  /\ Bounded'

Spec == Init /\ [][Next]_vars

-----------------------------------------------------------------------------
(* Properties.                                                               *)

Live == Memory!Reachable(root, Links)

TypeOK ==
  /\ heap \in Heaps
  /\ \A e \in Ents : heap.ent[e].refs >= 0
  /\ root \in [Slots -> Values]
  /\ tops \in [Views -> Seq(Values)]
  /\ \A v \in Views : Len(tops[v]) <= MaxDepth

(* What slots and reached values lead to is on the list, once, and has not   *)
(* been dropped: nothing is freed while something holds it, however far a    *)
(* release cascades (uvali.h:115, uval.c:279), wherever the recursion stops  *)
(* (uval.c:125), and whatever the collector sweeps (ugc.c:332).              *)
NothingDangles ==
  /\ IsInjective(heap.list)
  /\ Live \subseteq Listed(heap)
  /\ \A e \in Live : heap.ent[e].mark = "red"

(* The count of a value that is reached is at least the number of slots and  *)
(* of reached values that hold it: it is not freed while one of them is left *)
(* (uval.h:110).                                                             *)
Holders(K, e) == Cardinality({s \in Slots : root[s] = e})
                   + Cardinality({c \in K : Links[c] = e})
CountsCover ==
  LET K == Live IN \A e \in K : heap.ent[e].refs >= Holders(K, e)

(* The loop of the collector ends when y is zero: it gets there, within as   *)
(* many passes as there are entities (ugc.c:241).                            *)
MarkingEnds == Marks.y = 0

(* The heap implements the memory that Store describes: a value that can be  *)
(* reached from a register, a public variable or the local value of a C      *)
(* function is never freed, collected or given out again, and holds what was *)
(* stored in it (uval.c:279, ugc.c:332).                                     *)
ImplementsStore == Memory!Spec

(* docs/GC.md:5: the collector frees what is unused.  When no C function     *)
(* runs, only what is reached is left after a collection.                    *)
UnusedFreed ==
  [][\A v \in Views : Collect(v) /\ (\A w \in Views : ~InC(w))
                        => Listed(heap') = Live]_vars

(* For TLC: blocks are interchangeable, and so are views.                    *)
Symmetry == Permutations(Ents) \cup Permutations(Views)
=============================================================================
