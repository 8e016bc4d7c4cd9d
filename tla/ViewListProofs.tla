--------------------------- MODULE ViewListProofs ---------------------------
(***************************************************************************)
(* Proofs about ViewList, for any number of views and threads: that the    *)
(* list is sorted by ID and counted, that the last main view waits for the *)
(* threads that are not daemons, and that the world is freed once, when    *)
(* the list is empty, and used by nobody afterwards.                       *)
(***************************************************************************)
EXTENDS ViewList, FiniteSetTheorems, SequenceTheorems, WellFoundedInduction,
        TLAPS

-----------------------------------------------------------------------------
(* What is in a sequence after an element has been added or taken out.       *)

LEMMA PrependFacts ==
  ASSUME NEW S, NEW s \in Seq(S), NEW v \in S
  PROVE  /\ <<v>> \o s \in Seq(S)
         /\ Len(<<v>> \o s) = Len(s) + 1
         /\ \A j \in 1..Len(s) + 1 :
              (<<v>> \o s)[j] = IF j = 1 THEN v ELSE s[j - 1]
<1>1. <<v>> \in Seq(S) /\ Len(<<v>>) = 1 /\ <<v>>[1] = v
  OBVIOUS
<1>2. Len(s) \in Nat
  BY LenProperties
<1>3. QED
  BY <1>1, <1>2, ConcatProperties

LEMMA InsertFacts ==
  ASSUME NEW S, NEW s \in Seq(S), NEW v \in S, NEW m \in 2..Len(s) + 1
  PROVE  /\ InsertAt(s, m, v) \in Seq(S)
         /\ Len(InsertAt(s, m, v)) = Len(s) + 1
         /\ \A j \in 1..Len(s) + 1 :
              InsertAt(s, m, v)[j] =
                IF j < m THEN s[j] ELSE IF j = m THEN v ELSE s[j - 1]
<1>0. PICK i \in 1..Len(s) : m = i + 1
  BY LenProperties
<1> DEFINE x == SubSeq(s, 1, i)
           y == SubSeq(s, i + 1, Len(s))
<1>1. Len(s) \in Nat /\ \A j \in 1..Len(s) : s[j] \in S
  BY LenProperties, ElementOfSeq
<1>2. x \in Seq(S) /\ Len(x) = i /\ \A j \in 1..i : x[j] = s[j]
  <2>1. \A j \in 1..i : s[j] \in S
    BY <1>1
  <2>2. QED
    BY <1>1, <2>1, SubSeqProperties
<1>3. /\ y \in Seq(S) /\ Len(y) = Len(s) - i
      /\ \A j \in 1..Len(s) - i : y[j] = s[i + j]
  <2>1. \A j \in i + 1..Len(s) : s[j] \in S
    BY <1>1
  <2>2. /\ y \in Seq(S) /\ Len(y) = IF i + 1 <= Len(s) THEN Len(s) - (i + 1) + 1 ELSE 0
        /\ \A j \in 1..Len(s) - (i + 1) + 1 : y[j] = s[i + 1 + j - 1]
    BY <1>1, <2>1, SubSeqProperties
  <2> HIDE DEF y
  <2>3. QED
    BY <1>1, <2>2
<1> HIDE DEF x, y
<1>4. /\ x \o <<v>> \in Seq(S) /\ Len(x \o <<v>>) = i + 1
      /\ \A j \in 1..i + 1 : (x \o <<v>>)[j] = IF j <= i THEN s[j] ELSE v
  <2>1. <<v>> \in Seq(S) /\ Len(<<v>>) = 1 /\ <<v>>[1] = v
    OBVIOUS
  <2>2. QED
    BY <1>2, <2>1, ConcatProperties
<1> DEFINE z == x \o <<v>>
<1>5. /\ z \in Seq(S) /\ Len(z) = i + 1
      /\ \A j \in 1..i + 1 : z[j] = IF j <= i THEN s[j] ELSE v
  BY <1>4
<1> HIDE DEF z
<1>6. /\ z \o y \in Seq(S) /\ Len(z \o y) = Len(s) + 1
      /\ \A j \in 1..Len(s) + 1 :
           (z \o y)[j] = IF j <= i + 1 THEN z[j] ELSE y[j - (i + 1)]
  <2>1. /\ z \o y \in Seq(S) /\ Len(z \o y) = Len(z) + Len(y)
        /\ \A j \in 1..Len(z) + Len(y) :
             (z \o y)[j] = IF j <= Len(z) THEN z[j] ELSE y[j - Len(z)]
    BY <1>3, <1>5, ConcatProperties
  <2>2. Len(z) + Len(y) = Len(s) + 1
    BY <1>1, <1>3, <1>5
  <2>3. QED
    BY <1>5, <2>1, <2>2
<1>7. InsertAt(s, i + 1, v) = z \o y
  <2>1. (i + 1) - 1 = i
    OBVIOUS
  <2>2. QED
    BY <2>1 DEF InsertAt, x, y, z
<1>8. ASSUME NEW j \in 1..Len(s) + 1
      PROVE  (z \o y)[j] =
               IF j <= i THEN s[j] ELSE IF j = i + 1 THEN v ELSE s[j - 1]
  <2>1. CASE j <= i + 1
    BY <2>1, <1>1, <1>5, <1>6
  <2>2. CASE j > i + 1
    <3>1. j - (i + 1) \in 1..Len(s) - i /\ i + (j - (i + 1)) = j - 1
      BY <2>2, <1>1
    <3>2. y[j - (i + 1)] = s[j - 1]
      BY <3>1, <1>3
    <3>3. (z \o y)[j] = y[j - (i + 1)]
      BY <2>2, <1>1, <1>6
    <3>4. QED
      BY <2>2, <3>2, <3>3
  <2>3. j \in Int /\ i \in Int
    BY <1>1
  <2>4. j <= i + 1 \/ j > i + 1
    BY <2>3
  <2>5. QED
    BY <2>1, <2>2, <2>4
<1> DEFINE w == z \o y
<1>9. /\ w \in Seq(S) /\ Len(w) = Len(s) + 1 /\ InsertAt(s, m, v) = w
      /\ \A j \in 1..Len(s) + 1 :
           w[j] = IF j <= i THEN s[j] ELSE IF j = i + 1 THEN v ELSE s[j - 1]
  BY <1>0, <1>6, <1>7, <1>8
<1> HIDE DEF w
<1>10. \A j \in 1..Len(s) + 1 :
         w[j] = IF j < m THEN s[j] ELSE IF j = m THEN v ELSE s[j - 1]
  BY <1>0, <1>1, <1>9
<1>11. QED
  BY <1>9, <1>10

LEMMA RemoveFacts ==
  ASSUME NEW S, NEW s \in Seq(S), NEW i \in 1..Len(s)
  PROVE  /\ RemoveAt(s, i) \in Seq(S)
         /\ Len(RemoveAt(s, i)) = Len(s) - 1
         /\ \A j \in 1..Len(s) - 1 :
              RemoveAt(s, i)[j] = IF j < i THEN s[j] ELSE s[j + 1]
<1> DEFINE x == SubSeq(s, 1, i - 1)
           y == SubSeq(s, i + 1, Len(s))
<1>1. Len(s) \in Nat /\ \A j \in 1..Len(s) : s[j] \in S
  BY LenProperties, ElementOfSeq
<1>2. x \in Seq(S) /\ Len(x) = i - 1 /\ \A j \in 1..i - 1 : x[j] = s[j]
  <2>1. \A j \in 1..i - 1 : s[j] \in S
    BY <1>1
  <2>2. /\ x \in Seq(S) /\ Len(x) = IF 1 <= i - 1 THEN (i - 1) - 1 + 1 ELSE 0
        /\ \A j \in 1..(i - 1) - 1 + 1 : x[j] = s[1 + j - 1]
    BY <1>1, <2>1, SubSeqProperties
  <2> HIDE DEF x
  <2>3. QED
    BY <1>1, <2>2
<1>3. /\ y \in Seq(S) /\ Len(y) = Len(s) - i
      /\ \A j \in 1..Len(s) - i : y[j] = s[i + j]
  <2>1. \A j \in i + 1..Len(s) : s[j] \in S
    BY <1>1
  <2>2. /\ y \in Seq(S) /\ Len(y) = IF i + 1 <= Len(s) THEN Len(s) - (i + 1) + 1 ELSE 0
        /\ \A j \in 1..Len(s) - (i + 1) + 1 : y[j] = s[i + 1 + j - 1]
    BY <1>1, <2>1, SubSeqProperties
  <2> HIDE DEF y
  <2>3. QED
    BY <1>1, <2>2
<1> HIDE DEF x, y
<1>4. /\ x \o y \in Seq(S) /\ Len(x \o y) = Len(s) - 1
      /\ \A j \in 1..Len(s) - 1 :
           (x \o y)[j] = IF j <= i - 1 THEN x[j] ELSE y[j - (i - 1)]
  <2>1. /\ x \o y \in Seq(S) /\ Len(x \o y) = Len(x) + Len(y)
        /\ \A j \in 1..Len(x) + Len(y) :
             (x \o y)[j] = IF j <= Len(x) THEN x[j] ELSE y[j - Len(x)]
    BY <1>2, <1>3, ConcatProperties
  <2>2. Len(x) + Len(y) = Len(s) - 1
    BY <1>1, <1>2, <1>3
  <2>3. QED
    BY <1>2, <2>1, <2>2
<1>5. RemoveAt(s, i) = x \o y
  BY DEF RemoveAt, x, y
<1>6. ASSUME NEW j \in 1..Len(s) - 1
      PROVE  RemoveAt(s, i)[j] = IF j < i THEN s[j] ELSE s[j + 1]
  <2>1. CASE j < i
    BY <2>1, <1>1, <1>2, <1>4, <1>5
  <2>2. CASE j >= i
    <3>1. j - (i - 1) \in 1..Len(s) - i /\ i + (j - (i - 1)) = j + 1
      BY <2>2, <1>1
    <3>2. y[j - (i - 1)] = s[j + 1]
      BY <3>1, <1>3
    <3>3. RemoveAt(s, i)[j] = y[j - (i - 1)]
      BY <2>2, <1>1, <1>4, <1>5
    <3>4. QED
      BY <2>2, <3>2, <3>3
  <2>3. QED
    BY <2>1, <2>2
<1>7. QED
  BY <1>4, <1>5, <1>6

LEMMA TailFacts ==
  ASSUME NEW S, NEW s \in Seq(S), s # <<>>
  PROVE  /\ Head(s) = s[1] /\ s[1] \in S /\ Len(s) \in Nat \ {0}
         /\ Tail(s) \in Seq(S) /\ Len(Tail(s)) = Len(s) - 1
         /\ \A i \in 1..Len(s) - 1 : Tail(s)[i] = s[i + 1]
<1>1. Len(s) \in Nat \ {0}
  BY EmptySeq
<1>2. QED
  BY <1>1, HeadTailProperties, ElementOfSeq DEF Head

-----------------------------------------------------------------------------
(* The types.                                                                *)

TypesOf == {"normal", "sub", "daemon", "finalized"}
Objects == [run : BOOLEAN, done : BOOLEAN, detach : BOOLEAN, me : BOOLEAN,
            held : BOOLEAN, owner : Views \cup {None}, joined : BOOLEAN]
Works == [target : Views \cup {None}, left : Seq(Views), read : Int]
Worlds == [vnid : Nat, viewc : Int, refs : Int, finalize : 0..2, freed : BOOLEAN]
TypeInv ==
  /\ list \in Seq(Views)
  /\ world \in Worlds
  /\ lock \in [owner : Views \cup {None}, count : Int]
  /\ view \in [Views -> [vid : Nat, vtype : TypesOf]]
  /\ obj \in [Views -> Objects]
  /\ pc \in [Views -> Places]
  /\ arg \in [Views -> Works]

(* No view is made, or one enters the list: at its head, or below the last   *)
(* gap in the IDs.                                                           *)
Enters(v) ==
  \/ /\ list' = <<v>> \o list
     /\ view'[v].vid = world.vnid
     /\ world'.vnid = world.vnid + 1
  \/ \E i \in AboveGap :
       /\ \A j \in AboveGap : j <= i
       /\ list' = InsertAt(list, i + 1, v)
       /\ view'[v].vid = Len(list) - i
       /\ world'.vnid = world.vnid
Makes(a, v) ==
  /\ pc[v] = "none"
  /\ view'[v].vtype \in {"normal", "sub", "daemon"}
  /\ view'[v].vtype = "normal" <=> v \notin Threads
  /\ Enters(v)
  /\ view' = [view EXCEPT ![v] = [vid |-> view'[v].vid, vtype |-> view'[v].vtype]]
  /\ world' \in Worlds
  /\ world'.viewc = world.viewc + 1
  /\ world'.refs = world.refs + Referred(view'[v].vtype)
  /\ world'.finalize = world.finalize /\ world'.freed = world.freed
  /\ lock' = lock
  /\ pc' = [pc EXCEPT ![v] = "made"]
  /\ obj' = [obj EXCEPT ![v].held = v \in Threads]
MakesNone(a) ==
  /\ UNCHANGED <<list, view, pc, obj>>
  /\ lock' = Locked(a)
  /\ world' \in Worlds
  /\ world'.vnid = world.vnid /\ world'.viewc = world.viewc
  /\ world'.refs >= world.refs
  /\ world'.finalize = world.finalize /\ world'.freed = world.freed

(* A set of naturals that is not empty has a smallest element.               *)
LEMMA SmallestElement ==
  ASSUME NEW A \in SUBSET Nat, A # {}
  PROVE  \E n \in A : \A k \in A : ~(k < n)
<1>1. \E n \in A : \A k \in A : <<k, n>> \notin OpToRel(<, Nat)
  BY NatLessThanWellFounded, WFMin
<1>2. QED
  BY <1>1 DEF OpToRel

(* So the CHOOSE of Insert has something to choose.                          *)
LEMMA Gaps ==
  ASSUME TypeInv, AboveGap # {}
  PROVE  \E i \in AboveGap : \A j \in AboveGap : j <= i
<1>1. AboveGap \subseteq 1..Len(list) /\ Len(list) \in Nat
  BY LenProperties DEF TypeInv, AboveGap
<1> DEFINE B == {n \in Nat : \E i \in AboveGap : n = Len(list) - i}
<1>2. B # {} /\ B \subseteq Nat
  <2>1. PICK i \in AboveGap : TRUE
    OBVIOUS
  <2>2. i \in 1..Len(list) /\ Len(list) - i \in Nat
    BY <1>1, <2>1
  <2>3. Len(list) - i \in B
    BY <2>1, <2>2
  <2>4. QED
    BY <2>3
<1>4. PICK n \in B : \A k \in B : ~(k < n)
  <2> HIDE DEF B
  <2>1. QED
    BY <1>2, SmallestElement
<1>5. PICK i \in AboveGap : n = Len(list) - i
  BY <1>4
<1>6. ASSUME NEW j \in AboveGap
      PROVE  j <= i
  <2>1. Len(list) - j \in B /\ j \in Nat /\ i \in Nat
    BY <1>1
  <2>2. ~(Len(list) - j < n)
    BY <2>1, <1>4
  <2>3. QED
    BY <2>1, <2>2, <1>1, <1>5
<1>7. QED
  BY <1>6

LEMMA NewViewEffect ==
  ASSUME TypeInv, NEW a \in Views, NewView(a)
  PROVE  /\ pc[a] = "run" /\ Lockable(a) /\ world.finalize = 0 /\ arg' = arg
         /\ (\E v \in Views : Makes(a, v)) \/ MakesNone(a)
<1>0. /\ pc[a] = "run" /\ Lockable(a) /\ world.finalize = 0 /\ arg' = arg
      /\ list \in Seq(Views) /\ Len(list) \in Nat /\ world \in Worlds
      /\ view \in [Views -> [vid : Nat, vtype : TypesOf]]
      /\ AboveGap \subseteq 1..Len(list)
  BY LenProperties DEF NewView, TypeInv, AboveGap
<1>1. PICK v \in Views, type \in {"normal", "sub", "daemon"} :
        /\ pc[v] = "none"
        /\ type = "normal" <=> v \notin Threads
        /\ IF world.vnid = world.viewc THEN Prepend(v, type) /\ UNCHANGED lock
           ELSE IF AboveGap # {} THEN Insert(v, type) /\ UNCHANGED lock
           ELSE /\ lock' = Locked(a)
                /\ UNCHANGED <<list, view>>
                /\ world' = [world EXCEPT !.refs = @ + Referred(type)]
        /\ IF list' # list
           THEN /\ pc' = [pc EXCEPT ![v] = "made"]
                /\ obj' = [obj EXCEPT ![v].held = v \in Threads]
           ELSE UNCHANGED <<pc, obj>>
  BY DEF NewView
<1>2. PICK r \in {0, 1} : r = Referred(type)
  BY DEF Referred
<1> DEFINE Counting(w) == /\ w \in Worlds
                          /\ w.vnid = world.vnid /\ w.viewc = world.viewc + 1
                          /\ w.refs = world.refs
                          /\ w.finalize = world.finalize
                          /\ w.freed = world.freed
<1>20. Counting([world EXCEPT !.viewc = @ + 1])
  BY <1>0 DEF Worlds
<1>3. CASE world.vnid = world.viewc
  <2>1. Prepend(v, type) /\ lock' = lock
    BY <1>1, <1>3
  <2>2. Len(list') = Len(list) + 1
    BY <1>0, <2>1, PrependFacts DEF Prepend
  <2>3. list' # list
    BY <1>0, <2>2
  <2>4. view'[v] = [vid |-> world.vnid, vtype |-> type]
    BY <1>0, <2>1 DEF Prepend
  <2>5. /\ world' \in Worlds
        /\ world'.vnid = world.vnid + 1 /\ world'.viewc = world.viewc + 1
        /\ world'.refs = world.refs + Referred(type)
        /\ world'.finalize = world.finalize /\ world'.freed = world.freed
    <3> DEFINE w1 == [world EXCEPT !.viewc = @ + 1]
               w2 == [w1 EXCEPT !.vnid = @ + 1]
    <3>1. Counting(w1)
      BY <1>20
    <3> HIDE DEF w1
    <3>2. /\ w2 \in Worlds
          /\ w2.vnid = world.vnid + 1 /\ w2.viewc = world.viewc + 1
          /\ w2.refs = world.refs
          /\ w2.finalize = world.finalize /\ w2.freed = world.freed
      BY <3>1 DEF Worlds
    <3>3. world' = [w2 EXCEPT !.refs = @ + r]
      BY <2>1, <1>2 DEF Prepend, w1
    <3> HIDE DEF w2
    <3>4. QED
      BY <3>2, <3>3, <1>2 DEF Worlds
  <2>6. Enters(v)
    BY <2>1, <2>4, <2>5 DEF Enters, Prepend
  <2>7. view' = [view EXCEPT ![v] = [vid |-> view'[v].vid, vtype |-> view'[v].vtype]]
    BY <2>1, <2>4 DEF Prepend
  <2>8. Makes(a, v)
    BY <1>1, <2>1, <2>3, <2>4, <2>5, <2>6, <2>7 DEF Makes
  <2>9. QED
    BY <1>0, <2>8
<1>4. CASE world.vnid # world.viewc /\ AboveGap # {}
  <2>1. Insert(v, type) /\ lock' = lock
    BY <1>1, <1>4
  <2> DEFINE k == CHOOSE i \in AboveGap : \A j \in AboveGap : j <= i
  <2>2. k \in AboveGap /\ \A j \in AboveGap : j <= k
    BY <1>4, Gaps
  <2>3. /\ list' = InsertAt(list, k + 1, v)
        /\ view' = [view EXCEPT ![v] = [vid |-> Len(list) - k, vtype |-> type]]
        /\ world' = [world EXCEPT !.viewc = @ + 1, !.refs = @ + Referred(type)]
    BY <2>1 DEF Insert
  <2> HIDE DEF k
  <2>4. Len(list') = Len(list) + 1
    <3>1. k + 1 \in 2..Len(list) + 1
      BY <1>0, <2>2 DEF AboveGap
    <3>2. QED
      BY <1>0, <2>3, <3>1, InsertFacts
  <2>5. list' # list
    BY <1>0, <2>4
  <2>6. view'[v] = [vid |-> Len(list) - k, vtype |-> type]
    BY <1>0, <2>3
  <2>7. /\ world' \in Worlds
        /\ world'.vnid = world.vnid /\ world'.viewc = world.viewc + 1
        /\ world'.refs = world.refs + Referred(type)
        /\ world'.finalize = world.finalize /\ world'.freed = world.freed
    <3> DEFINE w1 == [world EXCEPT !.viewc = @ + 1]
    <3>1. Counting(w1)
      BY <1>20
    <3>2. world' = [w1 EXCEPT !.refs = @ + r]
      BY <2>3, <1>2
    <3> HIDE DEF w1
    <3>3. QED
      BY <3>1, <3>2, <1>2 DEF Worlds
  <2>8. Enters(v)
    BY <2>2, <2>3, <2>6, <2>7 DEF Enters
  <2>9. view' = [view EXCEPT ![v] = [vid |-> view'[v].vid, vtype |-> view'[v].vtype]]
    BY <2>3, <2>6
  <2>10. Makes(a, v)
    BY <1>1, <2>1, <2>5, <2>6, <2>7, <2>8, <2>9 DEF Makes
  <2>11. QED
    BY <1>0, <2>10
<1>5. CASE world.vnid # world.viewc /\ AboveGap = {}
  <2>1. /\ UNCHANGED <<list, view, pc, obj>> /\ lock' = Locked(a)
        /\ world' = [world EXCEPT !.refs = @ + Referred(type)]
    BY <1>1, <1>5
  <2>2. world' = [world EXCEPT !.refs = @ + r]
    BY <2>1, <1>2
  <2>3. /\ world' \in Worlds
        /\ world'.vnid = world.vnid /\ world'.viewc = world.viewc
        /\ world'.refs >= world.refs
        /\ world'.finalize = world.finalize /\ world'.freed = world.freed
    BY <1>0, <2>2 DEF Worlds
  <2>4. QED
    BY <1>0, <2>1, <2>3 DEF MakesNone
<1>6. QED
  BY <1>3, <1>4, <1>5


(* Where a thread destroys a view; where it has the list locked for that, as *)
(* long as the world is not finished; and where the view has left the list   *)
(* and is still counted.                                                     *)
Waits3 == {"wait", "waitjoin", "spin"}
Counted == Waits3 \cup {"halt", "count", "store"}
Region == Counted \cup {"unlist", "unlock"}
Listing == {"destroy", "free", "unlist"}
Destroying == Region \cup {"destroy", "free", "scuttle"}
Driving == {"begin", "run", "starting", "joining", "ended", "finished"}
Idling == {"none", "made", "given up", "release", "dead"}

Type(v) == view[v].vtype
Destroys(b) == pc[b] \in Destroying
In(v) == \E i \in 1..Len(list) : list[i] = v

(* Views that are still to be used: made and not given up, driven by a       *)
(* thread, or the view of a thread that destroys another one.                *)
Fresh(v) == pc[v] = "made" /\ (v \in Threads => obj[v].held)
Alive(v) == Fresh(v) \/ pc[v] \in Driving \/ (Destroys(v) /\ Target(v) # v)
Gone(v) == pc[v] \in Idling /\ ~Fresh(v)

(* Views that may be used are in the list, and nobody destroys them; what is *)
(* being destroyed is in the list until it is taken out, by one thread.      *)
AliveListed ==
  \A v \in Views : Alive(v) =>
    /\ In(v) /\ Type(v) # "finalized"
    /\ \A b \in Views : Destroys(b) => Target(b) # v
TargetsListed ==
  \A b \in Views :
    /\ Destroys(b) => Target(b) \in Views /\ pc[Target(b)] # "none"
    /\ pc[b] \in Listing => In(Target(b)) /\ Type(Target(b)) # "finalized"
TargetsApart ==
  \A b, c \in Views : Destroys(b) /\ Destroys(c) /\ Target(b) = Target(c) => b = c
NoneAbsent == \A v \in Views : pc[v] = "none" => ~In(v)
HeldThreads == \A v \in Views : obj[v].held => v \in Threads
Structure == /\ AliveListed /\ TargetsListed /\ TargetsApart /\ NoneAbsent
             /\ HeldThreads

Locks ==
  /\ IF lock.owner = None THEN lock.count = 0 ELSE lock.count > 0
  /\ world.finalize < 2 => \A a \in Views : pc[a] \in Region => lock.owner = a
Phases ==
  /\ \A a \in Views : pc[a] \in Waits3 => world.finalize = 1
  /\ \A a \in Views : pc[a] = "halt" => world.finalize = 2
  /\ world.finalize = 1 => \E a \in Views : pc[a] \in Waits3
  /\ \A a, b \in Views : pc[a] = "halt" /\ pc[b] = "halt" => a = b
LeftThere ==
  \A a \in Views : pc[a] \in {"waitjoin", "spin"} => arg[a].left # <<>>
LeftListed ==
  \A a \in Views : pc[a] = "halt" =>
    LET left == arg[a].left
    IN  /\ \A i, j \in 1..Len(left) : left[i] = left[j] => i = j
        /\ \A i \in 1..Len(left) : Type(left[i]) = "finalized" => In(left[i])
Total == Len(list) + Cardinality(Leaving)
Counts ==
  /\ world.viewc >= Total
  /\ world.finalize < 2 => world.viewc = Total
  /\ \A a \in Views : pc[a] = "store" =>
       /\ arg[a].read >= Total - 1
       /\ world.finalize < 2 => arg[a].read = Total - 1
Leaves(b) == pc[b] = "scuttle" \/ (pc[b] = "unlock" /\ arg[b].read <= 0)
Over == world.freed \/ \E b \in Views : Leaves(b)
Ended ==
  /\ Over => list = <<>> /\ Leaving = {}
  /\ \A b, c \in Views : Leaves(b) /\ Leaves(c) => b = c
  /\ \A b \in Views : Leaves(b) => ~world.freed
  /\ Over /\ world.finalize < 2 =>
       \A b \in Views : pc[b] \in Region => Leaves(b)
Normals == {v \in Views : In(v) /\ Type(v) = "normal"}
Refs == /\ world.refs >= 0
        /\ world.finalize = 0 => world.refs >= Cardinality(Normals)
Left(a, b) == /\ pc[a] \in Waits3 /\ Type(b) = "sub"
              /\ \E i \in 1..Len(arg[a].left) : arg[a].left[i] = b
Finisher(a) ==
  /\ \A b \in Views \ {a} : Type(b) # "daemon" => Gone(b) \/ Left(a, b)
  /\ Type(a) = "sub" => Left(a, a)
Finishing ==
  world.finalize > 0 =>
    /\ \A v \in Views : In(v) => Type(v) # "normal"
    /\ \E a \in Views : Finisher(a) /\ (world.finalize = 1 => pc[a] \in Waits3)

LEMMA ObjectTypes ==
  ASSUME NEW o \in Objects, NEW b \in BOOLEAN, NEW w \in Views \cup {None}
  PROVE  /\ [o EXCEPT !.run = b] \in Objects /\ [o EXCEPT !.done = b] \in Objects
         /\ [o EXCEPT !.detach = b] \in Objects /\ [o EXCEPT !.me = b] \in Objects
         /\ [o EXCEPT !.held = b] \in Objects /\ [o EXCEPT !.owner = w] \in Objects
         /\ [o EXCEPT !.joined = b] \in Objects
BY DEF Objects

LEMMA AimType ==
  ASSUME arg \in [Views -> Works], NEW a \in Views, NEW v \in Views \cup {None}
  PROVE  [arg EXCEPT ![a].target = v] \in [Views -> Works]
<1>1. [arg[a] EXCEPT !.target = v] \in Works
  BY DEF Works
<1>2. QED
  BY <1>1

LEMMA LeftType ==
  ASSUME arg \in [Views -> Works], NEW a \in Views, NEW s \in Seq(Views)
  PROVE  [arg EXCEPT ![a].left = s] \in [Views -> Works]
<1>1. [arg[a] EXCEPT !.left = s] \in Works
  BY DEF Works
<1>2. QED
  BY <1>1

LEMMA ReadType ==
  ASSUME arg \in [Views -> Works], NEW a \in Views, NEW n \in Int
  PROVE  [arg EXCEPT ![a].read = n] \in [Views -> Works]
<1>1. [arg[a] EXCEPT !.read = n] \in Works
  BY DEF Works
<1>2. QED
  BY <1>1

(* The loops of unc0_waitsubviews go on to the next view.                    *)
LEMMA Next1Facts ==
  ASSUME arg \in [Views -> Works], NEW a \in Views, arg[a].left # <<>>, Next1(a)
  PROVE  /\ arg' \in [Views -> Works]
         /\ arg'[a].target = arg[a].target /\ arg'[a].read = arg[a].read
         /\ \A b \in Views \ {a} : arg'[b] = arg[b]
         /\ Head(arg[a].left) = arg[a].left[1] /\ arg[a].left[1] \in Views
         /\ arg[a].left \in Seq(Views) /\ Len(arg[a].left) \in Nat \ {0}
         /\ arg'[a].left \in Seq(Views)
         /\ Len(arg'[a].left) = Len(arg[a].left) - 1
         /\ \A i \in 1..Len(arg[a].left) - 1 : arg'[a].left[i] = arg[a].left[i + 1]
<1> DEFINE s == arg[a].left
<1>1. s \in Seq(Views) /\ s # <<>> /\ arg[a] \in Works
  BY DEF Works
<1>2. arg' = [arg EXCEPT ![a].left = Tail(s)]
  BY DEF Next1
<1> HIDE DEF s
<1>3. /\ Head(s) = s[1] /\ s[1] \in Views /\ Len(s) \in Nat \ {0}
      /\ Tail(s) \in Seq(Views) /\ Len(Tail(s)) = Len(s) - 1
      /\ \A i \in 1..Len(s) - 1 : Tail(s)[i] = s[i + 1]
  BY <1>1, TailFacts
<1>4. arg'[a].left = Tail(s) /\ arg' \in [Views -> Works]
  BY <1>1, <1>2, <1>3, LeftType DEF Works
<1>5. /\ arg'[a].target = arg[a].target /\ arg'[a].read = arg[a].read
      /\ \A b \in Views \ {a} : arg'[b] = arg[b]
  BY <1>1, <1>2 DEF Works
<1>6. QED
  BY <1>1, <1>3, <1>4, <1>5 DEF s

LEMMA LockTypes ==
  ASSUME lock \in [owner : Views \cup {None}, count : Int], NEW a \in Views
  PROVE  /\ Locked(a) \in [owner : Views \cup {None}, count : Int]
         /\ Unlocked(a) \in [owner : Views \cup {None}, count : Int]
BY DEF Locked, Unlocked, Free

LEMMA UnthreadType ==
  ASSUME obj \in [Views -> Objects], NEW v \in Views, obj' = Unthread(obj, v)
  PROVE  /\ obj' \in [Views -> Objects]
         /\ \A u \in Views : obj'[u].held = obj[u].held
<1>1. [obj[v] EXCEPT !.me = FALSE] \in Objects
  BY DEF Objects
<1>2. [[obj[v] EXCEPT !.me = FALSE] EXCEPT
         !.detach = [obj[v] EXCEPT !.me = FALSE].detach \/ ~obj[v].held] \in Objects
  BY <1>1 DEF Objects
<1>3. obj' \in [Views -> Objects]
  BY <1>1, <1>2 DEF Unthread, Objects
<1>4. QED
  BY <1>3 DEF Unthread, Objects

LEMMA WithoutFacts ==
  ASSUME list \in Seq(Views), NEW v, In(v), list' = Without(v)
  PROVE  /\ list' \in Seq(Views) /\ Len(list) \in Nat /\ Len(list') = Len(list) - 1
         /\ \E i \in 1..Len(list) :
              /\ list[i] = v
              /\ \A j \in 1..Len(list) - 1 :
                   list'[j] = IF j < i THEN list[j] ELSE list[j + 1]
<1> DEFINE k == CHOOSE i \in 1..Len(list) : list[i] = v
<1>1. k \in 1..Len(list) /\ list[k] = v
  BY DEF In
<1>2. list' = RemoveAt(list, k)
  BY DEF Without
<1> HIDE DEF k
<1> DEFINE w == RemoveAt(list, k)
<1>3. /\ w \in Seq(Views) /\ Len(list) \in Nat /\ Len(w) = Len(list) - 1
      /\ \A j \in 1..Len(list) - 1 : w[j] = IF j < k THEN list[j] ELSE list[j + 1]
  BY <1>1, RemoveFacts, LenProperties
<1>4. list' = w
  BY <1>2
<1> HIDE DEF w
<1>5. QED
  BY <1>1, <1>3, <1>4

LEMMA TypeInit == Init => TypeInv
<1> SUFFICES ASSUME Init
             PROVE  TypeInv
  OBVIOUS
<1>1. Main \in Views /\ None \notin Views
  BY ViewListAssumption
<1>2. list \in Seq(Views)
  BY <1>1 DEF Init
<1>3. <<>> \in Seq(Views)
  OBVIOUS
<1>4. arg \in [Views -> Works]
  BY <1>3 DEF Init, Idle, Works
<1>5. obj \in [Views -> Objects]
  BY DEF Init, NoObject, Objects
<1>6. QED
  BY <1>2, <1>4, <1>5 DEF Init, TypeInv, Worlds, Free, TypesOf, Places


LEMMA TypeStep ==
  ASSUME TypeInv, Structure, LeftThere, LeftListed, [Next]_vars
  PROVE  TypeInv'
<1> USE DEF Goto, Places, Aim, Target
<1>0. /\ list \in Seq(Views) /\ world \in Worlds
      /\ lock \in [owner : Views \cup {None}, count : Int]
      /\ view \in [Views -> [vid : Nat, vtype : TypesOf]]
      /\ obj \in [Views -> Objects] /\ pc \in [Views -> Places]
      /\ arg \in [Views -> Works]
  BY DEF TypeInv
<1>w. world \in Worlds /\ world.viewc \in Int /\ world.refs \in Int
  BY <1>0 DEF Worlds
<1>a. arg \in [Views -> Works] /\ \A a \in Views : arg[a].read \in Int
  BY <1>0 DEF Works
<1>o. \A v \in Views : obj[v] \in Objects /\ obj[v].me \in BOOLEAN
  BY <1>0 DEF Objects
<1>00. \A b \in Views : /\ Destroys(b) => Target(b) \in Views
                        /\ pc[b] = "unlist" => In(Target(b))
                        /\ pc[b] \in {"waitjoin", "spin"} => arg[b].left # <<>>
  BY DEF Structure, TargetsListed, Listing, LeftThere
<1>1. ASSUME NEW a \in Views, NewView(a)
      PROVE  TypeInv'
  <2>1. CASE MakesNone(a)
    BY <1>0, <1>1, <2>1, LockTypes, NewViewEffect DEF MakesNone, TypeInv
  <2>2. ASSUME NEW v \in Views, Makes(a, v)
        PROVE  TypeInv'
    <3>1. list' \in Seq(Views) /\ view'[v].vid \in Nat
      <4>1. CASE list' = <<v>> \o list /\ view'[v].vid = world.vnid
        BY <1>0, <4>1, PrependFacts DEF Worlds
      <4>2. ASSUME NEW i \in AboveGap, list' = InsertAt(list, i + 1, v),
                   view'[v].vid = Len(list) - i
            PROVE  list' \in Seq(Views) /\ view'[v].vid \in Nat
        <5>1. i \in 1..Len(list) /\ Len(list) \in Nat
          BY <1>0, LenProperties DEF AboveGap
        <5>2. InsertAt(list, i + 1, v) \in Seq(Views)
          <6>1. i + 1 \in 2..Len(list) + 1
            BY <5>1
          <6>2. QED
            BY <1>0, <6>1, InsertFacts
        <5>3. QED
          BY <4>2, <5>1, <5>2
      <4>3. QED
        BY <2>2, <4>1, <4>2 DEF Makes, Enters
    <3>2. view' \in [Views -> [vid : Nat, vtype : TypesOf]]
      <4>1. /\ view' = [view EXCEPT ![v] = [vid |-> view'[v].vid, vtype |-> view'[v].vtype]]
            /\ view'[v].vtype \in TypesOf
        BY <2>2 DEF Makes, TypesOf
      <4>2. PICK n \in Nat, t \in TypesOf : view' = [view EXCEPT ![v] = [vid |-> n, vtype |-> t]]
        BY <3>1, <4>1
      <4>3. QED
        BY <1>0, <4>2
    <3>3. obj' \in [Views -> Objects]
      <4> DEFINE h == v \in Threads
      <4>1. h \in BOOLEAN /\ obj' = [obj EXCEPT ![v].held = h]
        BY <2>2 DEF Makes
      <4> HIDE DEF h
      <4>2. [obj[v] EXCEPT !.held = h] \in Objects
        BY <1>o, <4>1, ObjectTypes
      <4>3. QED
        BY <1>0, <4>1, <4>2
    <3>4. QED
      BY <1>0, <1>1, <2>2, <3>1, <3>2, <3>3, NewViewEffect DEF Makes, TypeInv
  <2>3. QED
    BY <1>1, <2>1, <2>2, NewViewEffect
<1>2. ASSUME NEW a \in Views, Start(a)
      PROVE  TypeInv'
  <2>1. PICK v \in Views :
          /\ obj' = [obj EXCEPT ![v].owner = a, ![v].run = TRUE]
          /\ Aim(a, v)
          /\ pc' = [pc EXCEPT ![a] = "starting", ![v] = "begin"]
    BY <1>2 DEF Start
  <2>2. obj' \in [Views -> Objects]
    <3> DEFINE o == [obj EXCEPT ![v].owner = a]
    <3>1. o \in [Views -> Objects]
      BY <1>0, <1>o, ObjectTypes
    <3>2. obj' = [o EXCEPT ![v].run = TRUE]
      BY <2>1
    <3> HIDE DEF o
    <3>4. [o[v] EXCEPT !.run = TRUE] \in Objects
      BY <3>1, ObjectTypes
    <3>5. QED
      BY <3>1, <3>2, <3>4
  <2>3. arg' \in [Views -> Works]
    BY <1>0, <2>1, AimType
  <2>4. pc' \in [Views -> Places]
    BY <1>0, <2>1
  <2>5. QED
    BY <1>0, <1>2, <2>2, <2>3, <2>4 DEF Start, TypeInv
<1>3. ASSUME NEW a \in Views, Join(a) \/ Drop(a) \/ Exit(a) \/ End(a)
      PROVE  TypeInv'
  <2>1. arg' \in [Views -> Works]
    <3>1. arg' = arg \/ \E v \in Views \cup {None} : arg' = [arg EXCEPT ![a].target = v]
      BY <1>3 DEF Join, Drop, Exit, End
    <3>2. QED
      BY <1>a, <3>1, AimType
  <2>2. obj' \in [Views -> Objects]
    <3>2. CASE Drop(a)
      <4>1. PICK v \in Views : obj' = [obj EXCEPT ![v].held = FALSE, ![v].detach = ~obj[v].me]
        BY <3>2 DEF Drop
      <4>2. PICK b \in BOOLEAN : b = ~obj[v].me
        BY <1>o
      <4> DEFINE o == [obj EXCEPT ![v].held = FALSE]
      <4>3. o \in [Views -> Objects]
        BY <1>0, <1>o, ObjectTypes
      <4>4. obj' = [o EXCEPT ![v].detach = b]
        BY <4>1, <4>2
      <4> HIDE DEF o
      <4>5. [o[v] EXCEPT !.detach = b] \in Objects
        BY <4>3, ObjectTypes
      <4>6. QED
        BY <4>3, <4>4, <4>5
    <3>3. QED
      BY <1>0, <1>3, <3>2 DEF Join, Exit, End
  <2>3. pc' \in [Views -> Places]
    BY <1>0, <1>3 DEF Join, Drop, Exit, End
  <2>4. QED
    BY <1>0, <1>3, <2>1, <2>2, <2>3 DEF Join, Drop, Exit, End, TypeInv
<1>4. ASSUME NEW a \in Views, Thread(a)
      PROVE  TypeInv'
  <2>1. arg' \in [Views -> Works]
    <3>1. arg' = arg \/ \E v \in Views \cup {None} : arg' = [arg EXCEPT ![a].target = v]
      BY <1>4 DEF Thread, Started, Begin, Done, Finished, Released, Joined
    <3>2. QED
      BY <1>a, <3>1, AimType
  <2>2. obj' \in [Views -> Objects]
    <3>1. CASE Started(a)
      <4> DEFINE v == arg[a].target
                 o == [obj EXCEPT ![v].me = TRUE]
      <4>1. o \in [Views -> Objects]
        BY <1>0, <1>o, ObjectTypes
      <4>2. obj' = [o EXCEPT ![v].owner = None]
        BY <3>1 DEF Started
      <4> HIDE DEF o
      <4>3. v \in Views => [o[v] EXCEPT !.owner = None] \in Objects
        BY <4>1, ObjectTypes
      <4>4. QED
        BY <4>1, <4>2, <4>3
    <3>2. CASE Done(a) \/ Finished(a) \/ Released(a)
      <4>1. /\ [obj[a] EXCEPT !.done = TRUE] \in Objects
            /\ [obj[a] EXCEPT !.owner = a] \in Objects
            /\ [obj[a] EXCEPT !.owner = None] \in Objects
        BY <1>o, ObjectTypes
      <4>2. QED
        BY <1>0, <3>2, <4>1 DEF Done, Finished, Released
    <3>3. CASE Joined(a)
      <4>1. ASSUME NEW v \in Views
            PROVE  [obj[v] EXCEPT !.joined = TRUE] \in Objects
        BY <1>o, ObjectTypes
      <4>2. QED
        BY <1>0, <3>3, <4>1 DEF Joined
    <3>4. QED
      BY <1>0, <1>4, <3>1, <3>2, <3>3 DEF Thread, Begin
  <2>3. pc' \in [Views -> Places]
    BY <1>0, <1>4 DEF Thread, Started, Begin, Done, Finished, Released, Joined
  <2>4. QED
    BY <1>0, <1>4, <2>1, <2>2, <2>3 DEF Thread, Started, Begin, Done, Finished,
       Released, Joined, TypeInv
<1>5. ASSUME NEW a \in Views, Freeing(a)
      PROVE  TypeInv'
  <2>1. CASE Destroy(a)
    <3>1. view' \in [Views -> [vid : Nat, vtype : TypesOf]]
      <4>1. ASSUME NEW r \in [vid : Nat, vtype : TypesOf]
            PROVE  [r EXCEPT !.vtype = "finalized"] \in [vid : Nat, vtype : TypesOf]
        BY DEF TypesOf
      <4>2. QED
        <5>1. view' = view \/ view' = [view EXCEPT ![arg[a].target].vtype = "finalized"]
          BY <2>1 DEF Destroy
        <5>2. arg[a].target \in Views
          BY <1>00, <2>1 DEF Destroy, Destroys, Destroying
        <5>3. view[arg[a].target] \in [vid : Nat, vtype : TypesOf]
          BY <1>0, <5>2
        <5>4. QED
          BY <1>0, <4>1, <5>1, <5>2, <5>3
    <3>2. QED
      BY <1>0, <2>1, <3>1 DEF Destroy, Home, TypeInv
  <2>2. CASE FreeLock(a)
    BY <1>0, <2>2, LockTypes DEF FreeLock, TypeInv
  <2>3. CASE Unlist(a)
    <3>1. In(arg[a].target) /\ arg[a].target \in Views
      BY <1>00, <2>3 DEF Unlist, Destroys, Destroying, Region
    <3>2. list' \in Seq(Views)
      <4>1. list' = Without(arg[a].target)
        BY <2>3 DEF Unlist
      <4>2. QED
        BY <1>0, <3>1, <4>1, WithoutFacts
    <3>3. obj' \in [Views -> Objects]
      <4>1. obj' = Unthread(obj, arg[a].target)
        BY <2>3 DEF Unlist
      <4>2. QED
        BY <1>0, <3>1, <4>1, UnthreadType
    <3>4. world' \in Worlds
      <4> DEFINE refs == world.refs - Referred(view[arg[a].target].vtype)
                 last == view[arg[a].target].vtype = "normal" /\ refs = 0
                 w == [world EXCEPT !.refs = refs]
      <4>1. Referred(view[arg[a].target].vtype) \in {0, 1}
        BY DEF Referred
      <4>2. refs \in Int
        BY <1>w, <4>1
      <4>3. world' = [w EXCEPT !.finalize = IF last /\ @ = 0 THEN 1 ELSE @]
        BY <2>3 DEF Unlist
      <4> HIDE DEF refs, last
      <4>4. w \in Worlds
        BY <1>w, <4>2 DEF Worlds
      <4> HIDE DEF w
      <4>5. QED
        BY <4>3, <4>4 DEF Worlds
    <3>5. arg' \in [Views -> Works]
      BY <1>0, <2>3, <3>2, LeftType DEF Unlist
    <3>6. pc' \in [Views -> Places]
      BY <1>0, <2>3 DEF Unlist
    <3>7. QED
      BY <1>0, <2>3, <3>2, <3>3, <3>4, <3>5, <3>6 DEF Unlist, TypeInv
  <2>4. CASE Count(a)
    <3>1. world.viewc - 1 \in Int
      BY <1>w
    <3>2. arg' \in [Views -> Works]
      <4> DEFINE g == [arg EXCEPT ![a].read = world.viewc - 1]
      <4>1. g \in [Views -> Works] /\ arg' = [g EXCEPT ![a].left = <<>>]
        BY <1>0, <2>4, <3>1, ReadType DEF Count
      <4> HIDE DEF g
      <4>2. [g[a] EXCEPT !.left = <<>>] \in Works
        BY <4>1, EmptySeq DEF Works
      <4>3. QED
        BY <4>1, <4>2
    <3>3. QED
      BY <1>0, <2>4, <3>2 DEF Count, TypeInv
  <2>5. CASE CountStore(a)
    <3>1. world' \in Worlds
      BY <1>w, <1>a, <2>5 DEF CountStore, Worlds
    <3>2. QED
      BY <1>0, <2>5, <3>1 DEF CountStore, TypeInv
  <2>6. CASE FreeUnlock(a)
    <3>1. arg' \in [Views -> Works]
      BY <1>a, <2>6, ReadType DEF FreeUnlock
    <3>2. pc' \in [Views -> Places]
      BY <1>0, <2>6 DEF FreeUnlock, Home
    <3>3. QED
      BY <1>0, <2>6, <3>1, <3>2, LockTypes DEF FreeUnlock, TypeInv
  <2>7. CASE Scuttle(a)
    <3>1. world' \in Worlds
      BY <1>w, <2>7 DEF Scuttle, Worlds
    <3>2. QED
      BY <1>0, <2>7, <3>1 DEF Scuttle, Home, TypeInv
  <2>8. QED
    BY <1>5, <2>1, <2>2, <2>3, <2>4, <2>5, <2>6, <2>7 DEF Freeing
<1>6. ASSUME NEW a \in Views, Waits(a)
      PROVE  TypeInv'
  <2>1. CASE WaitOther(a)
    BY <1>0, <2>1, Next1Facts DEF WaitOther, Waiting, TypeInv
  <2>11. CASE WaitSpin(a)
    BY <1>0, <1>00, <2>11, Next1Facts DEF WaitSpin, TypeInv
  <2>12. CASE WaitJoin(a)
    <3>1. arg' \in [Views -> Works]
      BY <1>0, <1>00, <2>12, Next1Facts DEF WaitJoin
    <3>2. ASSUME NEW v \in Views
          PROVE  [obj[v] EXCEPT !.joined = TRUE] \in Objects
      BY <1>o, ObjectTypes
    <3>3. obj' \in [Views -> Objects]
      BY <1>0, <2>12, <3>2 DEF WaitJoin
    <3>4. QED
      BY <1>0, <2>12, <3>1, <3>3 DEF WaitJoin, TypeInv
  <2>13. CASE HaltOrFree(a)
    <3> DEFINE v == Head(arg[a].left)
    <3>1. arg' \in [Views -> Works] /\ v \in Views /\ v = arg[a].left[1]
          /\ 1 \in 1..Len(arg[a].left)
      <4>1. arg[a].left # <<>> /\ Next1(a)
        BY <2>13 DEF HaltOrFree
      <4>2. /\ arg' \in [Views -> Works]
            /\ Head(arg[a].left) = arg[a].left[1] /\ arg[a].left[1] \in Views
            /\ Len(arg[a].left) \in Nat \ {0}
        BY <1>a, <4>1, Next1Facts
      <4>3. QED
        BY <4>2
    <3>2. CASE Type(v) # "finalized"
      BY <1>0, <2>13, <3>1, <3>2 DEF HaltOrFree, TypeInv, Type
    <3>3. CASE Type(v) = "finalized"
      <4>1. In(v)
        BY <2>13, <3>1, <3>3 DEF HaltOrFree, LeftListed
      <4>2. /\ obj' = Unthread(obj, v) /\ list' = Without(v)
            /\ world' = [world EXCEPT !.viewc = @ - 1]
        BY <2>13, <3>3 DEF HaltOrFree, Type
      <4> HIDE DEF v
      <4>3. list' \in Seq(Views)
        BY <1>0, <4>1, <4>2, WithoutFacts
      <4>4. obj' \in [Views -> Objects]
        BY <1>0, <3>1, <4>2, UnthreadType
      <4>5. world' \in Worlds
        BY <1>w, <4>2 DEF Worlds
      <4>6. QED
        BY <1>0, <2>13, <3>1, <4>3, <4>4, <4>5 DEF HaltOrFree, TypeInv
    <3>4. QED
      BY <3>2, <3>3
  <2>2. CASE WaitLook(a)
    BY <1>0, <2>2 DEF WaitLook, Waiting, TypeInv
  <2>3. CASE WaitEnd(a)
    <3>1. world' \in Worlds
      BY <1>w, <2>3 DEF WaitEnd, Worlds
    <3>2. arg' \in [Views -> Works]
      BY <1>0, <2>3, LeftType DEF WaitEnd
    <3>3. QED
      BY <1>0, <2>3, <3>1, <3>2 DEF WaitEnd, TypeInv
  <2>4. CASE HaltEnd(a)
    BY <1>0, <2>4, LockTypes DEF HaltEnd, TypeInv
  <2>5. QED
    BY <1>6, <2>1, <2>11, <2>12, <2>13, <2>2, <2>3, <2>4 DEF Waits
<1>7. CASE UNCHANGED vars
  BY <1>0, <1>7 DEF vars, TypeInv
<1>8. QED
  BY <1>1, <1>2, <1>3, <1>4, <1>5, <1>6, <1>7 DEF Next, Program

-----------------------------------------------------------------------------
(* What steps do to the list and to where threads are.                       *)

Still == UNCHANGED <<list, world, lock, view>>
Others(a) == \A b \in Views \ {a} : pc'[b] = pc[b] /\ arg'[b] = arg[b]
SameHeld == \A v \in Views : obj'[v].held = obj[v].held
NoneTaken == \A v \in Views : obj'[v].held => obj[v].held

Drives(a) == Still /\ Others(a) /\ NoneTaken /\ pc[a] \in Driving /\ pc'[a] \in Driving
Starts(a, v) ==
  /\ Still /\ SameHeld
  /\ pc[a] = "run" /\ pc'[a] = "starting"
  /\ Fresh(v) /\ pc'[v] = "begin"
  /\ \A b \in Views \ {a} : arg'[b] = arg[b] /\ (b # v => pc'[b] = pc[b])
(* The thread begins to destroy a view: its own or one that is given up.     *)
Condemns(a, v) ==
  /\ Still /\ NoneTaken
  /\ pc[a] \in Driving /\ pc'[a] = "destroy" /\ arg'[a].target = v
  /\ \A b \in Views \ {a} : arg'[b] = arg[b] /\ (b # v => pc'[b] = pc[b])
  /\ \/ v = a
     \/ Fresh(v) /\ pc'[v] = "given up"
     \/ Fresh(v) /\ pc'[v] = "made" /\ v \in Threads /\ ~obj'[v].held
Proceeds(a) ==
  /\ list' = list /\ view' = view /\ Others(a) /\ SameHeld
  /\ world'.vnid = world.vnid
  /\ pc[a] \in Destroying /\ pc'[a] \in Destroying
  /\ pc'[a] \in Listing => pc[a] \in Listing
  /\ arg'[a].target = arg[a].target
Finalizes(a) == /\ pc[a] = "destroy" /\ world.finalize = 1
                /\ view' = [view EXCEPT ![Target(a)].vtype = "finalized"]
Quits(a) ==
  /\ list' = list /\ Others(a) /\ SameHeld /\ world'.vnid = world.vnid
  /\ view' = view \/ Finalizes(a)
  /\ pc[a] \in Destroying /\ pc'[a] = Home(a)
Removes(a, v) ==
  /\ In(v) /\ list' = Without(v) /\ view' = view /\ Others(a) /\ SameHeld
  /\ arg'[a].target = arg[a].target /\ world'.vnid = world.vnid
  /\ \/ pc[a] = "unlist" /\ v = Target(a) /\ pc'[a] \in {"wait", "count"}
     \/ pc[a] = "halt" /\ pc'[a] = "halt" /\ Type(v) = "finalized"
Releases(a) == Still /\ Others(a) /\ SameHeld /\ pc[a] = "release" /\ pc'[a] = "dead"

Effect(a) ==
  \/ NewView(a) \/ Drives(a) \/ Proceeds(a) \/ Quits(a) \/ Releases(a)
  \/ \E v \in Views : Starts(a, v) \/ Condemns(a, v) \/ Removes(a, v)

LEMMA Effects ==
  ASSUME TypeInv, Structure, LeftThere, LeftListed, Next
  PROVE  \E a \in Views : Effect(a)
<1> USE DEF Goto, Aim, Target
<1>0. /\ list \in Seq(Views) /\ view \in [Views -> [vid : Nat, vtype : TypesOf]]
      /\ obj \in [Views -> Objects] /\ pc \in [Views -> Places]
      /\ arg \in [Views -> Works] /\ \A b \in Views : arg[b] \in Works
      /\ \A b \in Views : pc[b] \in Destroying => arg[b].target \in Views
      /\ \A b \in Views : pc[b] = "unlist" => In(arg[b].target)
      /\ \A b \in Views : pc[b] \in {"waitjoin", "spin"} => arg[b].left # <<>>
  BY DEF TypeInv, Structure, TargetsListed, Listing, LeftThere, Destroys
<1>1. PICK a \in Views : Program(a) \/ End(a) \/ Thread(a) \/ Freeing(a) \/ Waits(a)
  BY DEF Next
<1>o. \A v \in Views : obj[v] \in Objects
  BY <1>0
<1>w. world \in Worlds
  BY DEF TypeInv
<1>v. Freeing(a) \/ Waits(a) => world'.vnid = world.vnid
  <2>1. ASSUME Freeing(a)
        PROVE  world'.vnid = world.vnid
    BY <1>w, <2>1 DEF Freeing, Destroy, FreeLock, Unlist, Count, CountStore,
       FreeUnlock, Scuttle, Worlds
  <2>2. ASSUME Waits(a)
        PROVE  world'.vnid = world.vnid
    BY <1>w, <2>2 DEF Waits, WaitOther, WaitLook, WaitJoin, WaitSpin, WaitEnd,
       HaltOrFree, HaltEnd, Worlds
  <2>3. QED
    BY <2>1, <2>2
<1>2. CASE Start(a)
  <2>1. PICK v \in Views :
          /\ pc[v] = "made" /\ v \in Threads /\ obj[v].held /\ pc[a] = "run"
          /\ obj' = [obj EXCEPT ![v].owner = a, ![v].run = TRUE]
          /\ Aim(a, v)
          /\ pc' = [pc EXCEPT ![a] = "starting", ![v] = "begin"]
    BY <1>2 DEF Start
  <2>2. SameHeld
    BY <1>0, <1>o, <2>1 DEF SameHeld, Objects
  <2>3. Starts(a, v)
    BY <1>0, <1>2, <2>1, <2>2 DEF Start, Starts, Still, Fresh
  <2>4. QED
    BY <2>3 DEF Effect
<1>3. CASE Join(a) \/ End(a)
  <2>1. Drives(a)
    BY <1>0, <1>3 DEF Join, End, Drives, Still, Others, NoneTaken, Driving
  <2>2. QED
    BY <2>1 DEF Effect
<1>4. CASE Drop(a)
  <2>1. PICK v \in Views \ {a} :
          /\ obj[v].held
          /\ obj' = [obj EXCEPT ![v].held = FALSE, ![v].detach = ~obj[v].me]
          /\ \/ /\ obj[v].me
                /\ pc[a] = "run"
                /\ UNCHANGED <<pc, arg>>
             \/ /\ pc[v] = "made"
                /\ Goto(a, "run", "destroy")
                /\ Aim(a, v)
    BY <1>4 DEF Drop
  <2>2. NoneTaken /\ ~obj'[v].held
    BY <1>0, <1>o, <2>1 DEF NoneTaken, Objects
  <2>3. CASE pc[a] = "run" /\ UNCHANGED <<pc, arg>>
    <3>1. Drives(a)
      BY <1>0, <1>4, <2>2, <2>3 DEF Drop, Drives, Still, Others, Driving
    <3>2. QED
      BY <3>1 DEF Effect
  <2>4. CASE pc[v] = "made" /\ Goto(a, "run", "destroy") /\ Aim(a, v)
    <3>1. Fresh(v) /\ v \in Threads
      BY <2>1, <2>4 DEF Fresh, Structure, HeldThreads
    <3>2. Condemns(a, v)
      BY <1>0, <1>4, <2>1, <2>2, <2>4, <3>1 DEF Drop, Condemns, Still, Driving, Works
    <3>3. QED
      BY <3>2 DEF Effect
  <2>5. QED
    BY <2>1, <2>3, <2>4
<1>5. CASE Exit(a)
  <2>1. CASE a = Main /\ Goto(a, "run", "destroy") /\ Aim(a, a)
    <3>1. Condemns(a, a)
      BY <1>0, <1>5, <2>1 DEF Exit, Condemns, Still, Driving, Works, NoneTaken
    <3>2. QED
      BY <3>1 DEF Effect
  <2>2. ASSUME NEW v \in Views, v \notin Threads, pc[v] = "made", pc[a] = "run",
               pc' = [pc EXCEPT ![a] = "destroy", ![v] = "given up"], Aim(a, v)
        PROVE  Effect(a)
    <3>1. Still /\ NoneTaken
      BY <1>5 DEF Exit, Still, NoneTaken
    <3>2. /\ arg'[a].target = v /\ pc'[a] = "destroy" /\ pc'[v] = "given up"
          /\ \A b \in Views \ {a} : arg'[b] = arg[b] /\ (b # v => pc'[b] = pc[b])
      BY <1>0, <2>2 DEF Works
    <3>3. Condemns(a, v)
      BY <2>2, <3>1, <3>2 DEF Condemns, Driving, Fresh
    <3>4. QED
      BY <3>3 DEF Effect
  <2>3. QED
    BY <1>5, <2>1, <2>2 DEF Exit
<1>6. CASE Started(a) \/ Begin(a) \/ Done(a) \/ Joined(a)
  <2>1. SameHeld
    <3>1. CASE Started(a)
      BY <1>0, <1>o, <3>1 DEF Started, SameHeld, Objects
    <3>2. CASE Begin(a) \/ Done(a)
      BY <1>0, <1>o, <3>2 DEF Begin, Done, SameHeld, Objects
    <3>3. CASE Joined(a)
      BY <1>0, <1>o, <3>3 DEF Joined, SameHeld, Objects
    <3>4. QED
      BY <1>6, <3>1, <3>2, <3>3
  <2>2. pc[a] \in Driving /\ pc'[a] \in Driving
    BY <1>0, <1>6 DEF Started, Begin, Done, Joined, Driving
  <2>3. Still /\ Others(a)
    BY <1>0, <1>6 DEF Started, Begin, Done, Joined, Still, Others
  <2>4. QED
    BY <2>1, <2>2, <2>3 DEF SameHeld, NoneTaken, Drives, Effect
<1>7. CASE Finished(a)
  <2>1. NoneTaken
    BY <1>0, <1>o, <1>7 DEF Finished, NoneTaken, Objects
  <2>2. Condemns(a, a)
    BY <1>0, <1>7, <2>1 DEF Finished, Condemns, Still, Driving, Works
  <2>3. QED
    BY <2>2 DEF Effect
<1>8. CASE Released(a)
  <2>1. SameHeld
    BY <1>0, <1>o, <1>8 DEF Released, SameHeld, Objects
  <2>2. QED
    BY <1>0, <1>8, <2>1 DEF Released, Releases, Still, Others, Effect
<1>9. CASE Destroy(a)
  <2>1. SameHeld /\ Others(a) /\ list' = list /\ pc[a] \in Destroying
    BY <1>0, <1>9 DEF Destroy, SameHeld, Others, Destroying
  <2>2. CASE world.finalize = 1
    <3>1. Quits(a)
      BY <1>0, <1>9, <1>v, <2>1, <2>2 DEF Freeing, Destroy, Quits, Finalizes
    <3>2. QED
      BY <3>1 DEF Effect
  <2>3. CASE world.finalize # 1
    <3>1. Proceeds(a)
      BY <1>0, <1>9, <1>v, <2>1, <2>3 DEF Freeing, Destroy, Proceeds, Listing, Destroying
    <3>2. QED
      BY <3>1 DEF Effect
  <2>4. QED
    BY <2>2, <2>3
<1>10. CASE FreeLock(a) \/ CountStore(a) \/ HaltEnd(a) \/ WaitLook(a)
  <2>1. Others(a) /\ SameHeld /\ list' = list /\ view' = view /\ arg' = arg
    BY <1>0, <1>10 DEF FreeLock, CountStore, HaltEnd, WaitLook, Others, SameHeld
  <2>2. /\ pc[a] \in Destroying /\ pc'[a] \in Destroying
        /\ pc'[a] \in Listing => pc[a] \in Listing
    BY <1>0, <1>10 DEF FreeLock, CountStore, HaltEnd, WaitLook, Waiting, Destroying,
       Region, Counted, Waits3, Listing
  <2>3. QED
    BY <1>10, <1>v, <2>1, <2>2 DEF Freeing, Waits, Proceeds, Effect
<1>11. CASE Count(a) \/ WaitEnd(a)
  <2>1. /\ Others(a) /\ SameHeld /\ list' = list /\ view' = view
        /\ arg'[a].target = arg[a].target
    BY <1>0, <1>11 DEF Count, WaitEnd, Others, SameHeld, Works
  <2>2. /\ pc[a] \in Destroying /\ pc'[a] \in Destroying
        /\ pc'[a] \in Listing => pc[a] \in Listing
    BY <1>0, <1>11 DEF Count, WaitEnd, Destroying, Region, Counted, Waits3, Listing
  <2>3. QED
    BY <1>11, <1>v, <2>1, <2>2 DEF Freeing, Waits, Proceeds, Effect
<1>12. CASE WaitOther(a) \/ WaitJoin(a) \/ WaitSpin(a)
  <2>1. arg[a].left # <<>> /\ Next1(a)
    BY <1>0, <1>12 DEF WaitOther, WaitJoin, WaitSpin, Waiting
  <2>2. /\ \A b \in Views \ {a} : arg'[b] = arg[b]
        /\ arg'[a].target = arg[a].target
    BY <1>0, <2>1, Next1Facts
  <2>3. SameHeld
    <3>1. CASE WaitJoin(a)
      BY <1>0, <1>o, <3>1 DEF WaitJoin, SameHeld, Objects
    <3>2. QED
      BY <1>12, <3>1 DEF WaitOther, WaitSpin, SameHeld
  <2>4. /\ pc[a] \in Destroying /\ pc'[a] \in Destroying
        /\ pc'[a] \in Listing => pc[a] \in Listing
    BY <1>0, <1>12 DEF WaitOther, WaitJoin, WaitSpin, Waiting, Destroying, Region,
       Counted, Waits3, Listing
  <2>5. Others(a) /\ list' = list /\ view' = view
    BY <1>0, <1>12, <2>2 DEF WaitOther, WaitJoin, WaitSpin, Others
  <2>6. QED
    BY <1>12, <1>v, <2>2, <2>3, <2>4, <2>5 DEF Waits, Proceeds, Effect
<1>13. CASE Unlist(a)
  <2>1. obj' = Unthread(obj, arg[a].target) /\ arg[a].target \in Views
    BY <1>0, <1>13 DEF Unlist, Destroying, Region
  <2>2. SameHeld
    BY <1>0, <2>1, UnthreadType DEF SameHeld
  <2>3. /\ list' = Without(arg[a].target) /\ In(arg[a].target) /\ view' = view
        /\ pc[a] = "unlist" /\ pc'[a] \in {"wait", "count"} /\ Others(a)
        /\ arg'[a].target = arg[a].target
    BY <1>0, <1>13 DEF Unlist, Others, Works
  <2>4. Removes(a, arg[a].target)
    BY <1>13, <1>v, <2>2, <2>3 DEF Freeing, Removes
  <2>5. QED
    BY <2>1, <2>4 DEF Effect
<1>14. CASE HaltOrFree(a)
  <2> DEFINE v == Head(arg[a].left)
  <2>1. arg[a].left # <<>> /\ Next1(a) /\ pc[a] = "halt" /\ pc' = pc /\ view' = view
    BY <1>14 DEF HaltOrFree
  <2>2. /\ \A b \in Views \ {a} : arg'[b] = arg[b]
        /\ arg'[a].target = arg[a].target
        /\ v = arg[a].left[1] /\ v \in Views /\ Len(arg[a].left) \in Nat \ {0}
    BY <1>0, <2>1, Next1Facts
  <2>3. CASE Type(v) # "finalized"
    <3>1. list' = list /\ obj' = obj
      BY <1>14, <2>3 DEF HaltOrFree, Type
    <3>2. Proceeds(a)
      BY <1>14, <1>v, <2>1, <2>2, <3>1 DEF Waits, Proceeds, Others, SameHeld, Destroying, Region,
         Counted, Listing
    <3>3. QED
      BY <3>2 DEF Effect
  <2>4. CASE Type(v) = "finalized"
    <3>1. list' = Without(v) /\ obj' = Unthread(obj, v)
      BY <1>14, <2>4 DEF HaltOrFree, Type
    <3>2. In(v)
      <4>1. 1 \in 1..Len(arg[a].left)
        BY <2>2
      <4>2. QED
        BY <2>1, <2>2, <2>4, <4>1 DEF LeftListed
    <3> HIDE DEF v
    <3>3. SameHeld
      BY <1>0, <2>2, <3>1, UnthreadType DEF SameHeld
    <3>4. Removes(a, v)
      BY <1>14, <1>v, <2>1, <2>2, <2>4, <3>1, <3>2, <3>3 DEF Waits, Removes, Others
    <3>5. QED
      BY <2>2, <3>4 DEF Effect
  <2>5. QED
    BY <2>3, <2>4
<1>15. CASE FreeUnlock(a)
  <2>1. /\ Others(a) /\ SameHeld /\ list' = list /\ view' = view
        /\ arg'[a].target = arg[a].target /\ pc[a] \in Destroying
    BY <1>0, <1>15 DEF FreeUnlock, Others, SameHeld, Works, Destroying, Region
  <2>2. CASE arg[a].read > 0
    <3>1. Quits(a)
      BY <1>0, <1>15, <1>v, <2>1, <2>2 DEF Freeing, FreeUnlock, Quits
    <3>2. QED
      BY <3>1 DEF Effect
  <2>3. CASE ~(arg[a].read > 0)
    <3>1. pc'[a] = "scuttle"
      BY <1>0, <1>15, <2>3 DEF FreeUnlock
    <3>2. Proceeds(a)
      BY <1>15, <1>v, <2>1, <3>1 DEF Freeing, Proceeds, Destroying, Listing
    <3>3. QED
      BY <3>2 DEF Effect
  <2>4. QED
    BY <2>2, <2>3
<1>16. CASE Scuttle(a)
  <2>1. Quits(a)
    BY <1>0, <1>16, <1>v DEF Freeing, Scuttle, Quits, Others, SameHeld, Destroying
  <2>2. QED
    BY <2>1 DEF Effect
<1>17. CASE NewView(a)
  BY <1>17 DEF Effect
<1>18. QED
  BY <1>1, <1>2, <1>3, <1>4, <1>5, <1>6, <1>7, <1>8, <1>9, <1>10, <1>11, <1>12,
     <1>13, <1>14, <1>15, <1>16, <1>17 DEF Program, Thread, Freeing, Waits

-----------------------------------------------------------------------------
(* The list and its IDs.                                                     *)

LEMMA ListType ==
  ASSUME TypeInv
  PROVE  /\ list \in Seq(Views) /\ Len(list) \in Nat
         /\ \A i \in 1..Len(list) : list[i] \in Views /\ Vid(list[i]) \in Nat
         /\ world.vnid \in Nat
<1>1. /\ list \in Seq(Views) /\ world \in Worlds
      /\ view \in [Views -> [vid : Nat, vtype : TypesOf]]
  BY DEF TypeInv
<1>2. Len(list) \in Nat /\ \A i \in 1..Len(list) : list[i] \in Views
  BY <1>1, LenProperties, ElementOfSeq
<1>3. QED
  BY <1>1, <1>2 DEF Vid, Worlds

LEMMA Distinct ==
  ASSUME TypeInv, IdsSorted
  PROVE  \A i, j \in 1..Len(list) : list[i] = list[j] => i = j
<1>1. ASSUME NEW i \in 1..Len(list), NEW j \in 1..Len(list), list[i] = list[j], i # j
      PROVE  FALSE
  <2>1. Vid(list[i]) = Vid(list[j]) /\ Vid(list[i]) \in Nat /\ i \in Int /\ j \in Int
    BY <1>1, ListType
  <2>2. (i < j => Vid(list[i]) > Vid(list[j])) /\ (j < i => Vid(list[j]) > Vid(list[i]))
    BY DEF IdsSorted
  <2>3. QED
    BY <1>1, <2>1, <2>2
<1>2. QED
  BY <1>1

(* What a new view does to the list.                                         *)
LEMMA MakesFacts ==
  ASSUME TypeInv, NEW a, NEW v \in Views, Makes(a, v), ~In(v), IdsSorted
  PROVE  /\ Len(list') = Len(list) + 1
         /\ \A w \in Views : In(w)' <=> (In(w) \/ w = v)
         /\ \A w \in Views : w # v => view'[w] = view[w]
         /\ IdsSorted'
<1>1. /\ list \in Seq(Views) /\ Len(list) \in Nat
      /\ \A i \in 1..Len(list) : list[i] \in Views /\ Vid(list[i]) \in Nat
      /\ world.vnid \in Nat
  BY ListType
<1>2. \A w \in Views : w # v => view'[w] = view[w]
  BY DEF Makes, TypeInv
<1>3. \A i \in 1..Len(list) : view'[list[i]] = view[list[i]]
  BY <1>1, <1>2 DEF In
<1>s. \A i, j \in 1..Len(list) :
        /\ Vid(list[i]) < world.vnid
        /\ i < j => Vid(list[i]) > Vid(list[j])
  BY DEF IdsSorted
<1>4. CASE /\ list' = <<v>> \o list /\ view'[v].vid = world.vnid
           /\ world'.vnid = world.vnid + 1
  <2>1. /\ Len(list') = Len(list) + 1
        /\ \A j \in 1..Len(list) + 1 : list'[j] = IF j = 1 THEN v ELSE list[j - 1]
    BY <1>1, <1>4, PrependFacts
  <2>2. \A w \in Views : In(w)' <=> (In(w) \/ w = v)
    <3>1. ASSUME NEW w \in Views, In(w)
          PROVE  In(w)'
      <4>1. PICK i \in 1..Len(list) : list[i] = w
        BY <3>1 DEF In
      <4>2. i + 1 \in 1..Len(list') /\ list'[i + 1] = w
        BY <1>1, <2>1, <4>1
      <4>3. QED
        BY <4>2 DEF In
    <3>2. In(v)'
      <4>1. 1 \in 1..Len(list') /\ list'[1] = v
        BY <1>1, <2>1
      <4>2. QED
        BY <4>1 DEF In
    <3>3. ASSUME NEW w \in Views, In(w)', w # v
          PROVE  In(w)
      <4>1. PICK i \in 1..Len(list') : list'[i] = w
        BY <3>3 DEF In
      <4>2. i - 1 \in 1..Len(list) /\ list[i - 1] = w
        BY <1>1, <2>1, <3>3, <4>1
      <4>3. QED
        BY <4>2 DEF In
    <3>4. QED
      BY <3>1, <3>2, <3>3
  <2>3. \A i \in 1..Len(list) + 1 :
          view'[list'[i]].vid = IF i = 1 THEN world.vnid ELSE Vid(list[i - 1])
    <3>1. ASSUME NEW i \in 1..Len(list) + 1, i # 1
          PROVE  view'[list'[i]].vid = Vid(list[i - 1])
      <4>1. i - 1 \in 1..Len(list)
        BY <1>1, <3>1
      <4>2. QED
        BY <1>3, <2>1, <3>1, <4>1 DEF Vid
    <3>2. QED
      BY <1>1, <1>4, <2>1, <3>1
  <2>4. ASSUME NEW i \in 1..Len(list) + 1, NEW j \in 1..Len(list) + 1
        PROVE  /\ view'[list'[i]].vid < world'.vnid
               /\ i < j => view'[list'[i]].vid > view'[list'[j]].vid
    <3>1. /\ i \in Nat /\ j \in Nat /\ world'.vnid = world.vnid + 1
          /\ i = 1 => view'[list'[i]].vid = world.vnid
          /\ i # 1 => view'[list'[i]].vid = Vid(list[i - 1])
          /\ i < j => view'[list'[j]].vid = Vid(list[j - 1])
      BY <1>1, <1>4, <2>3
    <3>2. i # 1 => /\ Vid(list[i - 1]) < world.vnid /\ Vid(list[i - 1]) \in Nat
                   /\ i < j => Vid(list[i - 1]) > Vid(list[j - 1])
      <4>1. i # 1 => i - 1 \in 1..Len(list) /\ (i < j => j - 1 \in 1..Len(list))
        BY <1>1
      <4>2. QED
        BY <1>1, <1>s, <4>1, <3>1
    <3>3. i < j => Vid(list[j - 1]) < world.vnid
      <4>1. i < j => j - 1 \in 1..Len(list)
        BY <1>1
      <4>2. QED
        BY <1>s, <4>1
    <3>4. QED
      BY <1>1, <3>1, <3>2, <3>3
  <2>5. IdsSorted'
    BY <2>1, <2>4 DEF IdsSorted, Vid
  <2>6. QED
    BY <1>2, <2>1, <2>2, <2>5
<1>5. ASSUME NEW k \in AboveGap, \A j \in AboveGap : j <= k,
             list' = InsertAt(list, k + 1, v), view'[v].vid = Len(list) - k,
             world'.vnid = world.vnid
      PROVE  /\ Len(list') = Len(list) + 1
             /\ \A w \in Views : In(w)' <=> (In(w) \/ w = v)
             /\ IdsSorted'
  <2>1. k \in 1..Len(list) /\ Vid(list[k]) # Len(list) - k
    BY DEF AboveGap
  <2> DEFINE s == InsertAt(list, k + 1, v)
  <2>2. /\ Len(s) = Len(list) + 1
        /\ \A j \in 1..Len(list) + 1 :
             s[j] = IF j <= k THEN list[j] ELSE IF j = k + 1 THEN v ELSE list[j - 1]
    <3>1. list \in Seq(Views) /\ k \in 1..Len(list)
      BY <1>1, <2>1
    <3>2. QED
      <4>1. /\ Len(s) = Len(list) + 1
            /\ \A j \in 1..Len(list) + 1 :
                 s[j] = IF j < k + 1 THEN list[j] ELSE IF j = k + 1 THEN v ELSE list[j - 1]
        <5>1. k + 1 \in 2..Len(list) + 1
          BY <3>1, LenProperties
        <5>2. QED
          BY <3>1, <5>1, InsertFacts
      <4>2. \A j \in 1..Len(list) + 1 : j < k + 1 <=> j <= k
        BY <3>1, LenProperties
      <4> HIDE DEF s
      <4>3. QED
        BY <4>1, <4>2
  <2>3. list' = s
    BY <1>5
  <2> HIDE DEF s
  <2>4. /\ Len(list') = Len(list) + 1
        /\ \A j \in 1..Len(list) + 1 :
             list'[j] = IF j <= k THEN list[j]
                        ELSE IF j = k + 1 THEN v ELSE list[j - 1]
    BY <2>2, <2>3
  <2>5. \A w \in Views : In(w)' <=> (In(w) \/ w = v)
    <3>1. ASSUME NEW w \in Views, In(w)
          PROVE  In(w)'
      <4>1. PICK i \in 1..Len(list) : list[i] = w
        BY <3>1 DEF In
      <4>2. CASE i <= k
        <5>1. i \in 1..Len(list') /\ list'[i] = w
          BY <1>1, <2>4, <4>1, <4>2
        <5>2. QED
          BY <5>1 DEF In
      <4>3. CASE i > k
        <5>1. i + 1 \in 1..Len(list') /\ list'[i + 1] = w
          BY <1>1, <2>1, <2>4, <4>1, <4>3
        <5>2. QED
          BY <5>1 DEF In
      <4>4. QED
        BY <2>1, <4>2, <4>3
    <3>2. In(v)'
      <4>1. k + 1 \in 1..Len(list') /\ list'[k + 1] = v
        BY <1>1, <2>1, <2>4
      <4>2. QED
        BY <4>1 DEF In
    <3>3. ASSUME NEW w \in Views, In(w)', w # v
          PROVE  In(w)
      <4>1. PICK i \in 1..Len(list') : list'[i] = w
        BY <3>3 DEF In
      <4>2. CASE i <= k
        <5>1. i \in 1..Len(list) /\ list[i] = w
          BY <1>1, <2>1, <2>4, <4>1, <4>2
        <5>2. QED
          BY <5>1 DEF In
      <4>3. CASE i > k
        <5>1. i - 1 \in 1..Len(list) /\ list[i - 1] = w
          BY <1>1, <2>1, <2>4, <3>3, <4>1, <4>3
        <5>2. QED
          BY <5>1 DEF In
      <4>4. QED
        BY <2>1, <4>1, <4>2, <4>3
    <3>4. QED
      BY <3>1, <3>2, <3>3
  <2>6. \A j \in 1..Len(list) : j > k => Vid(list[j]) = Len(list) - j
    <3>1. ASSUME NEW j \in 1..Len(list), j > k, Vid(list[j]) # Len(list) - j
          PROVE  FALSE
      <4>1. j \in AboveGap
        BY <3>1 DEF AboveGap
      <4>2. QED
        BY <1>5, <2>1, <3>1, <4>1
    <3>2. QED
      BY <3>1
  <2>7. Vid(list[k]) > Len(list) - k
    <3>1. CASE k = Len(list)
      BY <1>1, <2>1, <3>1
    <3>2. CASE k # Len(list)
      <4>1. k + 1 \in 1..Len(list) /\ k + 1 > k
        BY <1>1, <2>1, <3>2
      <4>2. Vid(list[k + 1]) = Len(list) - (k + 1) /\ Vid(list[k]) > Vid(list[k + 1])
        BY <1>s, <2>1, <2>6, <4>1
      <4>3. QED
        BY <1>1, <2>1, <4>1, <4>2
    <3>3. QED
      BY <3>1, <3>2
  <2>8. \A j \in 1..Len(list) + 1 :
          view'[list'[j]].vid = IF j <= k THEN Vid(list[j])
                                ELSE Len(list) + 1 - j
    <3>1. ASSUME NEW j \in 1..Len(list) + 1
          PROVE  view'[list'[j]].vid = IF j <= k THEN Vid(list[j])
                                       ELSE Len(list) + 1 - j
      <4>1. CASE j <= k
        <5>1. j \in 1..Len(list)
          BY <1>1, <2>1, <4>1
        <5>2. QED
          BY <1>3, <2>4, <4>1, <5>1 DEF Vid
      <4>2. CASE j = k + 1
        BY <1>1, <1>5, <2>1, <2>4, <4>2
      <4>3. CASE j > k + 1
        <5>1. j - 1 \in 1..Len(list) /\ j - 1 > k
          BY <1>1, <2>1, <4>3
        <5>2. list'[j] = list[j - 1]
          BY <2>1, <2>4, <4>3
        <5>3. view'[list'[j]].vid = Vid(list[j - 1])
          BY <1>3, <5>1, <5>2 DEF Vid
        <5>4. Vid(list[j - 1]) = Len(list) - (j - 1)
          BY <2>6, <5>1
        <5>5. QED
          BY <1>1, <2>1, <4>3, <5>3, <5>4
      <4>4. j \in Int /\ k \in Int
        BY <2>1
      <4>5. j <= k \/ j = k + 1 \/ j > k + 1
        BY <4>4
      <4>6. QED
        BY <4>1, <4>2, <4>3, <4>5
    <3>2. QED
      BY <3>1
  <2>9. ASSUME NEW i \in 1..Len(list) + 1, NEW j \in 1..Len(list) + 1
        PROVE  /\ view'[list'[i]].vid < world'.vnid
               /\ i < j => view'[list'[i]].vid > view'[list'[j]].vid
    <3>0. Vid(list[k]) < world.vnid /\ Vid(list[k]) \in Nat
      BY <1>1, <1>s, <2>1
    <3>1. CASE i <= k
      <4>1. i \in 1..Len(list) /\ (j <= k => j \in 1..Len(list))
        BY <1>1, <2>1, <3>1
      <4>2. Vid(list[i]) < world.vnid /\ Vid(list[i]) >= Vid(list[k])
        BY <1>1, <1>s, <2>1, <3>1, <4>1
      <4>3. CASE j <= k
        BY <1>1, <1>5, <1>s, <2>8, <3>1, <4>1, <4>2, <4>3
      <4>4. CASE j > k
        <5>1. view'[list'[j]].vid = Len(list) + 1 - j /\ view'[list'[i]].vid = Vid(list[i])
          BY <2>1, <2>8, <3>1, <4>4
        <5>2. QED
          BY <1>1, <1>5, <2>1, <2>7, <3>0, <4>1, <4>2, <4>4, <5>1
      <4>5. QED
        BY <2>1, <4>3, <4>4
    <3>2. CASE i > k
      <4>1. view'[list'[i]].vid = Len(list) + 1 - i
        BY <2>1, <2>8, <3>2
      <4>2. i < j => view'[list'[j]].vid = Len(list) + 1 - j
        BY <2>1, <2>8, <3>2
      <4>3. QED
        BY <1>1, <1>5, <2>1, <2>7, <3>0, <3>2, <4>1, <4>2
    <3>3. QED
      BY <2>1, <3>1, <3>2
  <2>10. IdsSorted'
    BY <2>4, <2>9 DEF IdsSorted, Vid
  <2>11. QED
    BY <2>4, <2>5, <2>10
<1>6. QED
  BY <1>2, <1>4, <1>5 DEF Makes, Enters

(* What taking a view out of the list does.                                  *)
LEMMA WithoutListed ==
  ASSUME TypeInv, IdsSorted, NEW v \in Views, In(v), list' = Without(v),
         view' = view, world'.vnid = world.vnid
  PROVE  /\ Len(list') = Len(list) - 1
         /\ \A w \in Views : In(w)' <=> (In(w) /\ w # v)
         /\ IdsSorted'
<1>1. /\ list \in Seq(Views) /\ Len(list) \in Nat
      /\ \A i \in 1..Len(list) : list[i] \in Views /\ Vid(list[i]) \in Nat
  BY ListType
<1>2. /\ Len(list') = Len(list) - 1
      /\ \E i \in 1..Len(list) :
           /\ list[i] = v
           /\ \A j \in 1..Len(list) - 1 :
                list'[j] = IF j < i THEN list[j] ELSE list[j + 1]
  BY <1>1, WithoutFacts
<1>3. PICK k \in 1..Len(list) :
        /\ list[k] = v
        /\ \A j \in 1..Len(list) - 1 :
             list'[j] = IF j < k THEN list[j] ELSE list[j + 1]
  BY <1>2
<1>4. \A i, j \in 1..Len(list) : list[i] = list[j] => i = j
  BY Distinct
<1>5. ASSUME NEW w \in Views, In(w), w # v
      PROVE  In(w)'
  <2>1. PICK i \in 1..Len(list) : list[i] = w
    BY <1>5 DEF In
  <2>2. CASE i < k
    <3>1. i \in 1..Len(list) - 1 /\ list'[i] = w
      BY <1>1, <1>3, <2>1, <2>2
    <3>2. QED
      BY <1>2, <3>1 DEF In
  <2>3. CASE i > k
    <3>1. i - 1 \in 1..Len(list) - 1 /\ list'[i - 1] = w
      BY <1>1, <1>3, <2>1, <2>3
    <3>2. QED
      BY <1>2, <3>1 DEF In
  <2>4. i # k
    BY <1>3, <1>5, <2>1
  <2>5. QED
    BY <2>2, <2>3, <2>4
<1>6. ASSUME NEW w \in Views, In(w)'
      PROVE  In(w) /\ w # v
  <2>1. PICK i \in 1..Len(list') : list'[i] = w
    BY <1>6 DEF In
  <2>2. i \in 1..Len(list) - 1
    BY <1>2, <2>1
  <2>3. PICK j \in 1..Len(list) : list[j] = w /\ j # k
    <3>1. CASE i < k
      <4>1. i \in 1..Len(list) /\ list[i] = w /\ i # k
        BY <1>1, <1>3, <2>1, <2>2, <3>1
      <4>2. QED
        BY <4>1
    <3>2. CASE ~(i < k)
      <4>1. i + 1 \in 1..Len(list) /\ list[i + 1] = w /\ i + 1 # k
        BY <1>1, <1>3, <2>1, <2>2, <3>2
      <4>2. QED
        BY <4>1
    <3>3. QED
      BY <3>1, <3>2
  <2>4. QED
    BY <1>3, <1>4, <2>3 DEF In
<1>7. ASSUME NEW i \in 1..Len(list'), NEW j \in 1..Len(list')
      PROVE  /\ Vid(list'[i]) < world.vnid
             /\ i < j => Vid(list'[i]) > Vid(list'[j])
  <2>1. i \in 1..Len(list) - 1 /\ j \in 1..Len(list) - 1
    BY <1>2
  <2>2. PICK x \in 1..Len(list) : list'[i] = list[x] /\ x = IF i < k THEN i ELSE i + 1
    BY <1>1, <1>3, <2>1
  <2>3. PICK y \in 1..Len(list) : list'[j] = list[y] /\ y = IF j < k THEN j ELSE j + 1
    BY <1>1, <1>3, <2>1
  <2>4. i < j => x < y
    BY <2>1, <2>2, <2>3
  <2>5. /\ Vid(list[x]) < world.vnid
        /\ x < y => Vid(list[x]) > Vid(list[y])
    BY DEF IdsSorted
  <2>6. QED
    BY <2>2, <2>3, <2>4, <2>5
<1>8. IdsSorted'
  BY <1>7 DEF IdsSorted, Vid
<1>9. QED
  BY <1>2, <1>5, <1>6, <1>8

LEMMA IdsStep ==
  ASSUME TypeInv, Structure, LeftThere, LeftListed, IdsSorted, [Next]_vars
  PROVE  IdsSorted'
<1>1. ASSUME list' = list, world'.vnid = world.vnid,
             \A u \in Views : view'[u].vid = view[u].vid
      PROVE  IdsSorted'
  BY <1>1, ListType DEF IdsSorted, Vid
<1>2. CASE UNCHANGED vars
  BY <1>1, <1>2 DEF vars
<1>3. ASSUME NEW a \in Views, Effect(a)
      PROVE  IdsSorted'
  <2>1. CASE NewView(a)
    <3>1. CASE MakesNone(a)
      BY <1>1, <3>1 DEF MakesNone
    <3>2. ASSUME NEW v \in Views, Makes(a, v)
          PROVE  IdsSorted'
      <4>1. ~In(v)
        BY <3>2 DEF Makes, Structure, NoneAbsent
      <4>2. QED
        BY <3>2, <4>1, MakesFacts
    <3>3. QED
      BY <2>1, <3>1, <3>2, NewViewEffect
  <2>2. CASE Drives(a) \/ Releases(a) \/ Proceeds(a)
    BY <1>1, <2>2 DEF Drives, Releases, Proceeds, Still
  <2>3. CASE Quits(a)
    <3>1. \A u \in Views : view'[u].vid = view[u].vid
      BY <2>3 DEF Quits, Finalizes, TypeInv
    <3>2. QED
      BY <1>1, <2>3, <3>1 DEF Quits
  <2>4. ASSUME NEW v \in Views, Starts(a, v) \/ Condemns(a, v)
        PROVE  IdsSorted'
    BY <1>1, <2>4 DEF Starts, Condemns, Still
  <2>5. ASSUME NEW v \in Views, Removes(a, v)
        PROVE  IdsSorted'
    BY <2>5, WithoutListed DEF Removes
  <2>6. QED
    BY <1>3, <2>1, <2>2, <2>3, <2>4, <2>5 DEF Effect
<1>4. QED
  BY <1>2, <1>3, Effects

-----------------------------------------------------------------------------
(* Views that may be used are in the list.                                   *)

LEMMA StructureStep ==
  ASSUME TypeInv, Structure, LeftThere, LeftListed, IdsSorted, [Next]_vars
  PROVE  Structure'
<1> USE DEF Target, Type
<1>0. /\ \A v \in Views : Alive(v) =>
           /\ In(v) /\ view[v].vtype # "finalized"
           /\ \A b \in Views : Destroys(b) => arg[b].target # v
      /\ \A b \in Views :
           /\ Destroys(b) => arg[b].target \in Views /\ pc[arg[b].target] # "none"
           /\ pc[b] \in Listing => /\ In(arg[b].target)
                                   /\ view[arg[b].target].vtype # "finalized"
      /\ \A b, c \in Views :
           Destroys(b) /\ Destroys(c) /\ arg[b].target = arg[c].target => b = c
      /\ \A v \in Views : pc[v] = "none" => ~In(v)
      /\ \A v \in Views : obj[v].held => v \in Threads
  BY DEF Structure, AliveListed, TargetsListed, TargetsApart, NoneAbsent, HeldThreads
<1>p. \A v \in Views : pc[v] \in Places
  BY DEF TypeInv
<1>l. \A b \in Views : /\ pc[b] \in Listing => Destroys(b)
                       /\ pc'[b] \in Listing => Destroys(b)'
  BY DEF Destroys, Listing, Destroying, Region
(* It is enough to show that nothing that matters to a view has changed, or  *)
(* that it is not to be used any more.                                       *)
<1>1. ASSUME \A v \in Views : In(v)' <=> In(v),
             \A v \in Views : Alive(v)' => Alive(v) /\ view'[v].vtype # "finalized",
             \A b \in Views : Destroys(b)' =>
               /\ Destroys(b) /\ arg'[b].target = arg[b].target
               /\ pc'[b] \in Listing =>
                    pc[b] \in Listing /\ view'[arg[b].target].vtype # "finalized",
             \A v \in Views : pc'[v] = "none" <=> pc[v] = "none",
             NoneTaken
      PROVE  Structure'
  <2>1. AliveListed'
    BY <1>0, <1>1 DEF AliveListed
  <2>2. TargetsListed'
    <3>1. ASSUME NEW b \in Views, Destroys(b)'
          PROVE  arg'[b].target \in Views /\ pc'[arg'[b].target] # "none"
      BY <1>0, <1>1, <3>1
    <3>2. ASSUME NEW b \in Views, pc'[b] \in Listing
          PROVE  In(arg[b].target)' /\ view'[arg'[b].target].vtype # "finalized"
      <4>1. PICK p \in Views : p = arg[b].target
        BY <1>0, <1>1, <1>l, <3>2
      <4>2. arg'[b].target = p /\ In(p) /\ view'[p].vtype # "finalized"
        BY <1>0, <1>1, <1>l, <3>2, <4>1
      <4>3. In(p)'
        BY <1>1, <4>2
      <4>4. QED
        BY <4>2, <4>3 DEF In
    <3>3. QED
      BY <3>1, <3>2 DEF TargetsListed, In
  <2>3. TargetsApart'
    BY <1>0, <1>1 DEF TargetsApart
  <2>4. NoneAbsent' /\ HeldThreads'
    BY <1>0, <1>1 DEF NoneAbsent, HeldThreads, NoneTaken
  <2>5. QED
    BY <2>1, <2>2, <2>3, <2>4 DEF Structure
<1>2. CASE UNCHANGED vars
  BY <1>0, <1>1, <1>2 DEF vars, Alive, Fresh, Destroys, NoneTaken, In
<1>3. ASSUME NEW a \in Views, Effect(a)
      PROVE  Structure'
  <2>1. CASE NewView(a)
    <3>1. CASE MakesNone(a)
      BY <1>0, <1>1, <2>1, <3>1 DEF MakesNone, Alive, Fresh, Destroys, NoneTaken, In, NewView
    <3>2. ASSUME NEW v \in Views, Makes(a, v)
          PROVE  Structure'
      <4>1. /\ \A w \in Views : In(w)' <=> (In(w) \/ w = v)
            /\ \A w \in Views : w # v => view'[w] = view[w]
            /\ pc[v] = "none" /\ view'[v].vtype # "finalized"
            /\ pc'[v] = "made" /\ \A w \in Views : w # v => pc'[w] = pc[w]
            /\ obj'[v].held = (v \in Threads)
            /\ \A w \in Views : w # v => obj'[w] = obj[w]
        <5>1. ~In(v) /\ pc[v] = "none"
          BY <1>0, <3>2 DEF Makes
        <5>2. /\ \A w \in Views : In(w)' <=> (In(w) \/ w = v)
              /\ \A w \in Views : w # v => view'[w] = view[w]
          BY <3>2, <5>1, MakesFacts
        <5>3. /\ view'[v].vtype # "finalized"
              /\ pc'[v] = "made" /\ \A w \in Views : w # v => pc'[w] = pc[w]
          BY <3>2 DEF Makes, TypeInv
        <5>4. \A w \in Views : w # v => obj'[w] = obj[w]
          BY <3>2 DEF Makes, TypeInv
        <5>5. obj'[v].held = (v \in Threads)
          BY <3>2 DEF Makes, TypeInv, Objects
        <5>6. QED
          BY <5>1, <5>2, <5>3, <5>4, <5>5
      <4>2. arg' = arg
        BY <2>1, NewViewEffect
      <4>3. \A b \in Views : Destroys(b)' <=> Destroys(b)
        BY <4>1 DEF Destroys, Destroying, Region, Counted, Waits3
      <4>4. \A b \in Views : pc'[b] \in Listing <=> pc[b] \in Listing
        BY <4>1 DEF Listing
      <4>5. \A w \in Views \ {v} : Alive(w)' <=> Alive(w)
        BY <4>1, <4>2, <4>3 DEF Alive, Fresh
      <4>6. AliveListed'
        BY <1>0, <4>1, <4>2, <4>3, <4>5 DEF AliveListed
      <4>7. TargetsListed'
        <5>1. ASSUME NEW b \in Views, pc'[b] \in Listing
              PROVE  In(arg[b].target)' /\ view'[arg[b].target].vtype # "finalized"
          <6>1. PICK p \in Views : p = arg[b].target
            BY <1>0, <1>l, <4>4, <5>1
          <6>2. In(p) /\ view[p].vtype # "finalized" /\ pc[p] # "none"
            BY <1>0, <1>l, <4>4, <5>1, <6>1
          <6>3. In(p)' /\ view'[p].vtype # "finalized"
            BY <4>1, <6>2
          <6>4. QED
            BY <4>2, <6>1, <6>3 DEF In
        <5>2. ASSUME NEW b \in Views, Destroys(b)'
              PROVE  arg'[b].target \in Views /\ pc'[arg'[b].target] # "none"
          <6>1. PICK p \in Views : p = arg[b].target
            BY <1>0, <4>3, <5>2
          <6>2. pc[p] # "none"
            BY <1>0, <4>3, <5>2, <6>1
          <6>3. pc'[p] # "none"
            BY <4>1, <6>2
          <6>4. QED
            BY <4>2, <6>1, <6>3
        <5>3. QED
          BY <4>2, <5>1, <5>2 DEF TargetsListed
      <4>8. TargetsApart'
        BY <1>0, <4>2, <4>3 DEF TargetsApart
      <4>9. NoneAbsent'
        BY <1>0, <4>1 DEF NoneAbsent
      <4>10. HeldThreads'
        BY <1>0, <4>1 DEF HeldThreads
      <4>11. QED
        BY <4>6, <4>7, <4>8, <4>9, <4>10 DEF Structure
    <3>3. QED
      BY <2>1, <3>1, <3>2, NewViewEffect
  <2>2. CASE Drives(a)
    <3>1. /\ list' = list /\ view' = view /\ NoneTaken
          /\ pc[a] \in Driving /\ pc'[a] \in Driving
          /\ \A b \in Views \ {a} : pc'[b] = pc[b] /\ arg'[b] = arg[b]
      BY <2>2 DEF Drives, Still, Others
    <3>2. ~Destroys(a) /\ ~Destroys(a)' /\ pc'[a] # "none" /\ pc[a] # "none"
      BY <3>1 DEF Destroys, Destroying, Region, Counted, Waits3, Driving
    <3>3. \A v \in Views : Alive(v)' => Alive(v)
      BY <3>1, <3>2 DEF Alive, Fresh, Destroys, NoneTaken, Driving
    <3>4. QED
      BY <1>0, <1>1, <3>1, <3>2, <3>3 DEF In, Destroys
  <2>3. ASSUME NEW v \in Views, Starts(a, v)
        PROVE  Structure'
    <3>1. /\ list' = list /\ view' = view /\ SameHeld
          /\ pc[a] = "run" /\ pc'[a] = "starting" /\ Fresh(v) /\ pc[v] = "made"
          /\ pc'[v] = "begin"
          /\ \A b \in Views \ {a} : arg'[b] = arg[b] /\ (b # v => pc'[b] = pc[b])
      BY <2>3 DEF Starts, Still, Fresh
    <3>2. /\ ~Destroys(a) /\ ~Destroys(a)' /\ ~Destroys(v) /\ ~Destroys(v)'
      BY <3>1 DEF Destroys, Destroying, Region, Counted, Waits3
    <3>3. Alive(v) /\ Alive(a)
      BY <3>1 DEF Alive, Driving
    <3>4. \A w \in Views : Alive(w)' => Alive(w)
      BY <3>1, <3>2, <3>3 DEF Alive, Fresh, Destroys, SameHeld
    <3>5. QED
      BY <1>0, <1>1, <3>1, <3>2, <3>4 DEF In, Destroys, SameHeld, NoneTaken
  <2>4. ASSUME NEW v \in Views, Condemns(a, v)
        PROVE  Structure'
    <3>1. /\ list' = list /\ view' = view /\ NoneTaken
          /\ pc[a] \in Driving /\ pc'[a] = "destroy" /\ arg'[a].target = v
          /\ \A b \in Views \ {a} : arg'[b] = arg[b] /\ (b # v => pc'[b] = pc[b])
      BY <2>4 DEF Condemns, Still
    <3>2. Alive(a) /\ Alive(v) /\ pc[v] # "none" /\ pc[a] # "none" /\ pc'[v] # "none"
      BY <2>4, <3>1 DEF Condemns, Alive, Fresh, Driving
    <3>3. /\ ~Destroys(a) /\ Destroys(a)'
          /\ \A b \in Views \ {a} : Destroys(b)' <=> Destroys(b)
      BY <2>4, <3>1 DEF Condemns, Fresh, Destroys, Destroying, Region, Counted, Waits3, Driving
    <3>4. ~Alive(v)'
      BY <2>4, <3>1, <3>3 DEF Condemns, Alive, Fresh, Destroys, Driving, Destroying, Region,
         Counted, Waits3
    <3>5. \A w \in Views : Alive(w)' => Alive(w)
      <4>1. ASSUME NEW w \in Views \ {a, v}, Alive(w)'
            PROVE  Alive(w)
        BY <3>1, <3>3, <4>1 DEF Alive, Fresh, NoneTaken
      <4>2. QED
        BY <3>2, <4>1
    <3>6. \A b \in Views \ {a} : pc'[b] \in Listing => pc[b] \in Listing
      BY <2>4, <3>1 DEF Condemns, Listing
    <3>7. \A w \in Views : In(w)' <=> In(w)
      BY <3>1 DEF In
    <3>8. AliveListed'
      BY <1>0, <3>1, <3>3, <3>4, <3>5, <3>7 DEF AliveListed
    <3>9. TargetsListed'
      BY <1>0, <3>1, <3>2, <3>3, <3>6, <3>7 DEF TargetsListed, In
    <3>10. TargetsApart'
      BY <1>0, <3>1, <3>2, <3>3 DEF TargetsApart
    <3>11. NoneAbsent' /\ HeldThreads'
      BY <1>0, <2>4, <3>1, <3>2, <3>7 DEF NoneAbsent, HeldThreads, NoneTaken
    <3>12. QED
      BY <3>8, <3>9, <3>10, <3>11 DEF Structure
  <2>5. CASE Proceeds(a)
    <3>1. /\ list' = list /\ view' = view /\ SameHeld
          /\ \A b \in Views \ {a} : pc'[b] = pc[b] /\ arg'[b] = arg[b]
          /\ Destroys(a) /\ Destroys(a)' /\ arg'[a].target = arg[a].target
          /\ pc'[a] \in Listing => pc[a] \in Listing
      BY <2>5 DEF Proceeds, Others, Destroys
    <3>2. pc[a] \notin Driving \cup {"made", "none"} /\ pc'[a] \notin Driving \cup {"made", "none"}
      BY <3>1 DEF Destroys, Destroying, Region, Counted, Waits3, Driving
    <3>3. \A w \in Views : Alive(w)' => Alive(w)
      BY <3>1, <3>2 DEF Alive, Fresh, Destroys, SameHeld
    <3>4. QED
      BY <1>0, <1>1, <3>1, <3>2, <3>3 DEF In, Destroys, SameHeld, NoneTaken
  <2>6. CASE Quits(a)
    <3>1. /\ list' = list /\ SameHeld /\ Destroys(a)
          /\ \A b \in Views \ {a} : pc'[b] = pc[b] /\ arg'[b] = arg[b]
          /\ pc'[a] = Home(a) /\ pc'[a] \in {"run", "dead", "release"}
          /\ pc'[a] = "run" => arg[a].target # a
          /\ arg[a].target \in Views
          /\ \A u \in Views : u # arg[a].target => view'[u] = view[u]
          /\ view' # view => pc[a] \in Listing
      BY <1>0, <2>6 DEF Quits, Others, Destroys, Home, Finalizes, Listing, TypeInv
    <3>2. ~Destroys(a)' /\ pc[a] # "none" /\ pc'[a] # "none" /\ pc[a] # "made"
      BY <3>1 DEF Destroys, Destroying, Region, Counted, Waits3
    <3>3. \A w \in Views : Alive(w)' => Alive(w)
      <4>1. ASSUME NEW w \in Views \ {a}, Alive(w)'
            PROVE  Alive(w)
        BY <3>1, <4>1 DEF Alive, Fresh, Destroys, SameHeld
      <4>2. ASSUME Alive(a)'
            PROVE  Alive(a)
        <5>1. pc'[a] = "run"
          BY <3>1, <3>2, <4>2 DEF Alive, Fresh, Driving
        <5>2. QED
          BY <3>1, <5>1 DEF Alive
      <4>3. QED
        BY <4>1, <4>2
    <3>4. ~Alive(arg[a].target)
      BY <1>0, <3>1
    <3>5. \A w \in Views : Alive(w)' => view'[w].vtype # "finalized"
      BY <1>0, <3>1, <3>3, <3>4
    <3>6. \A b \in Views : Destroys(b)' => b # a /\ Destroys(b) /\ arg[b].target # arg[a].target
      BY <1>0, <3>1, <3>2 DEF Destroys
    <3>7. QED
      BY <1>0, <1>1, <3>1, <3>2, <3>3, <3>5, <3>6 DEF In, Destroys, SameHeld, NoneTaken
  <2>7. CASE Releases(a)
    <3>1. /\ list' = list /\ view' = view /\ SameHeld
          /\ \A b \in Views \ {a} : pc'[b] = pc[b] /\ arg'[b] = arg[b]
          /\ pc[a] = "release" /\ pc'[a] = "dead"
      BY <2>7 DEF Releases, Still, Others
    <3>2. ~Destroys(a)'
      BY <3>1 DEF Destroys, Destroying, Region, Counted, Waits3
    <3>3. \A w \in Views : Alive(w)' => Alive(w)
      BY <3>1, <3>2 DEF Alive, Fresh, Destroys, SameHeld, Driving
    <3>4. QED
      BY <1>0, <1>1, <3>1, <3>2, <3>3 DEF In, Destroys, SameHeld, NoneTaken
  <2>8. ASSUME NEW v \in Views, Removes(a, v)
        PROVE  Structure'
    <3>1. /\ view' = view /\ SameHeld
          /\ \A b \in Views \ {a} : pc'[b] = pc[b] /\ arg'[b] = arg[b]
          /\ arg'[a].target = arg[a].target
          /\ \/ pc[a] = "unlist" /\ v = arg[a].target /\ pc'[a] \in {"wait", "count"}
             \/ pc[a] = "halt" /\ pc'[a] = "halt" /\ view[v].vtype = "finalized"
      BY <2>8 DEF Removes, Others
    <3>2. \A w \in Views : In(w)' <=> (In(w) /\ w # v)
      BY <2>8, WithoutListed DEF Removes
    <3>3. /\ Destroys(a) /\ Destroys(a)' /\ pc'[a] \notin Listing
          /\ pc[a] \notin Driving \cup {"made", "none"}
          /\ pc'[a] \notin Driving \cup {"made", "none"}
      BY <3>1 DEF Destroys, Destroying, Region, Counted, Waits3, Driving, Listing
    <3>4. \A w \in Views : Alive(w)' => Alive(w)
      BY <3>1, <3>3 DEF Alive, Fresh, Destroys, SameHeld
    <3>5. ~Alive(v)
      BY <1>0, <3>1, <3>3
    <3>6. \A b \in Views : Destroys(b)' <=> Destroys(b)
      BY <3>1, <3>3 DEF Destroys
    <3>7. \A b \in Views : pc'[b] \in Listing => pc[b] \in Listing /\ arg[b].target # v
      <4>1. ASSUME NEW b \in Views \ {a}, pc[b] \in Listing
            PROVE  arg[b].target # v
        <5>1. Destroys(b)
          BY <4>1 DEF Destroys, Listing, Destroying, Region
        <5>2. QED
          BY <1>0, <3>1, <3>3, <4>1, <5>1
      <4>2. QED
        BY <3>1, <3>3, <4>1
    <3>8. AliveListed'
      BY <1>0, <3>1, <3>2, <3>4, <3>5, <3>6 DEF AliveListed
    <3>9. TargetsListed'
      <4>1. ASSUME NEW b \in Views, pc'[b] \in Listing
            PROVE  In(arg[b].target)' /\ arg'[b].target = arg[b].target
        <5>1. PICK p \in Views : p = arg[b].target
          BY <1>0, <1>l, <3>7, <4>1
        <5>2. In(p) /\ p # v
          BY <1>0, <3>7, <4>1, <5>1
        <5>3. In(p)'
          BY <3>2, <5>2
        <5>4. QED
          BY <3>1, <5>1, <5>3 DEF In
      <4>2. QED
        BY <1>0, <3>1, <3>3, <3>6, <3>7, <4>1 DEF TargetsListed, In
    <3>10. TargetsApart'
      BY <1>0, <3>1, <3>6 DEF TargetsApart
    <3>11. NoneAbsent' /\ HeldThreads'
      BY <1>0, <3>1, <3>2, <3>3 DEF NoneAbsent, HeldThreads, SameHeld
    <3>12. QED
      BY <3>8, <3>9, <3>10, <3>11 DEF Structure
  <2>9. QED
    BY <1>3, <2>1, <2>2, <2>3, <2>4, <2>5, <2>6, <2>7, <2>8 DEF Effect
<1>4. QED
  BY <1>2, <1>3, Effects

-----------------------------------------------------------------------------
(* The lock of the list, and the phases of the end of the world.             *)

Settled == Region \cup {"scuttle"}
Quiet ==
  /\ UNCHANGED <<list, world, lock>>
  /\ view' = view \/ world.finalize = 1
  /\ \A b \in Views : \/ pc'[b] = pc[b] /\ arg'[b] = arg[b]
                      \/ pc[b] \notin Settled /\ pc'[b] \notin Settled
Steps(a) == \/ NewView(a) \/ FreeLock(a) \/ Unlist(a) \/ Count(a) \/ CountStore(a)
            \/ FreeUnlock(a) \/ Scuttle(a) \/ WaitOther(a) \/ WaitLook(a)
            \/ WaitJoin(a) \/ WaitSpin(a) \/ WaitEnd(a) \/ HaltOrFree(a) \/ HaltEnd(a)

LEMMA QuietOrSteps ==
  ASSUME TypeInv, [Next]_vars
  PROVE  Quiet \/ \E a \in Views : Steps(a)
<1> USE DEF Goto, Aim, Quiet
<1>0. pc \in [Views -> Places] /\ arg \in [Views -> Works]
  BY DEF TypeInv
<1>1. CASE UNCHANGED vars
  BY <1>1 DEF vars
<1>2. ASSUME NEW a \in Views,
             Start(a) \/ Join(a) \/ Drop(a) \/ Exit(a) \/ End(a) \/ Thread(a) \/ Destroy(a)
      PROVE  Quiet
  <2>1. CASE Start(a)
    BY <1>0, <2>1 DEF Start, Settled, Region, Counted, Waits3
  <2>2. CASE Join(a) \/ End(a)
    BY <1>0, <2>2 DEF Join, End, Settled, Region, Counted, Waits3
  <2>3. CASE Drop(a)
    BY <1>0, <2>3 DEF Drop, Settled, Region, Counted, Waits3
  <2>4. CASE Exit(a)
    BY <1>0, <2>4 DEF Exit, Settled, Region, Counted, Waits3
  <2>5. CASE Thread(a)
    BY <1>0, <2>5 DEF Thread, Started, Begin, Done, Finished, Released, Joined, Settled,
       Region, Counted, Waits3
  <2>6. CASE Destroy(a)
    BY <1>0, <2>6 DEF Destroy, Home, Settled, Region, Counted, Waits3
  <2>7. QED
    BY <1>2, <2>1, <2>2, <2>3, <2>4, <2>5, <2>6
<1>3. QED
  BY <1>1, <1>2 DEF Next, Program, Freeing, Waits, Steps

LEMMA LeftThereStep ==
  ASSUME TypeInv, LeftThere, [Next]_vars
  PROVE  LeftThere'
<1> USE DEF Goto
<1>0. pc \in [Views -> Places] /\ arg \in [Views -> Works]
  BY DEF TypeInv
<1>1. CASE Quiet
  BY <1>1 DEF Quiet, LeftThere, Settled, Region, Counted, Waits3
<1>2. ASSUME NEW a \in Views, Steps(a)
      PROVE  LeftThere'
  <2>1. CASE NewView(a)
    <3>1. arg' = arg /\ \A b \in Views : pc'[b] = pc[b] \/ pc'[b] = "made"
      BY <1>0, <2>1, NewViewEffect DEF Makes, MakesNone
    <3>2. QED
      BY <3>1 DEF LeftThere
  <2>2. CASE FreeLock(a) \/ CountStore(a) \/ Scuttle(a) \/ HaltEnd(a) \/ WaitLook(a)
    BY <1>0, <2>2 DEF FreeLock, CountStore, Scuttle, HaltEnd, WaitLook, Waiting, Home,
       LeftThere
  <2>3. CASE Unlist(a) \/ Count(a) \/ FreeUnlock(a) \/ WaitEnd(a)
    BY <1>0, <2>3 DEF Unlist, Count, FreeUnlock, WaitEnd, Home, LeftThere
  <2>4. CASE WaitOther(a) \/ WaitJoin(a) \/ WaitSpin(a) \/ HaltOrFree(a)
    <3>1. pc'[a] \in {"wait", "halt"} /\ \A b \in Views \ {a} : pc'[b] = pc[b]
      BY <1>0, <2>4 DEF WaitOther, WaitJoin, WaitSpin, HaltOrFree, Waiting
    <3>2. \A b \in Views \ {a} : arg'[b] = arg[b]
      BY <1>0, <2>4 DEF WaitOther, WaitJoin, WaitSpin, HaltOrFree, Next1
    <3>3. QED
      BY <3>1, <3>2 DEF LeftThere
  <2>5. QED
    BY <1>2, <2>1, <2>2, <2>3, <2>4 DEF Steps
<1>3. QED
  BY <1>1, <1>2, QuietOrSteps

LEMMA LocksStep ==
  ASSUME TypeInv, Locks, Phases, [Next]_vars
  PROVE  Locks'
<1> USE DEF Goto
<1>0. /\ pc \in [Views -> Places] /\ world \in Worlds
      /\ lock \in [owner : Views \cup {None}, count : Int]
      /\ None \notin Views
      /\ \A b \in Views : pc[b] \in Region /\ world.finalize < 2 => lock.owner = b
      /\ IF lock.owner = None THEN lock.count = 0 ELSE lock.count > 0
  BY ViewListAssumption DEF TypeInv, Locks
<1>r. Region = {"wait", "waitjoin", "spin", "halt", "count", "store", "unlist", "unlock"}
  BY DEF Region, Counted, Waits3
<1>f. world.finalize \in 0..2
  BY <1>0 DEF Worlds
<1>1. CASE Quiet
  <2>1. \A b \in Views : pc'[b] \in Region => pc[b] \in Region
    BY <1>1 DEF Quiet, Settled
  <2>2. QED
    BY <1>1, <2>1 DEF Quiet, Locks
<1>2. ASSUME NEW a \in Views, Steps(a)
      PROVE  Locks'
  <2>1. CASE NewView(a)
    <3>1. /\ Lockable(a) /\ pc[a] = "run" /\ world'.finalize = world.finalize
          /\ lock' = lock \/ lock' = Locked(a)
          /\ \A b \in Views : pc'[b] = pc[b] \/ pc'[b] = "made"
      BY <1>0, <2>1, NewViewEffect DEF Makes, MakesNone
    <3>2. QED
      BY <1>0, <1>r, <3>1 DEF Locks, Lockable, Locked
  <2>2. CASE FreeLock(a)
    BY <1>0, <1>r, <2>2 DEF FreeLock, Locks, Lockable, Locked
  <2>3. CASE Unlist(a)
    <3>1. world'.finalize \in {world.finalize, 1} /\ (world.finalize >= 2 => world'.finalize >= 2)
      BY <1>0, <1>f, <2>3 DEF Unlist, Worlds
    <3>2. QED
      BY <1>0, <1>f, <1>r, <2>3, <3>1 DEF Unlist, Locks
  <2>4. CASE Count(a) \/ CountStore(a) \/ Scuttle(a) \/ WaitLook(a)
    <3>1. world'.finalize = world.finalize
      BY <1>0, <2>4 DEF Count, CountStore, Scuttle, WaitLook, Worlds
    <3>2. lock' = lock /\ \A b \in Views : pc'[b] \in Region => pc[b] \in Region
      BY <1>0, <1>r, <2>4 DEF Count, CountStore, Scuttle, WaitLook, Waiting, Home
    <3>3. QED
      BY <1>0, <3>1, <3>2 DEF Locks
  <2>5. CASE FreeUnlock(a)
    BY <1>0, <1>r, <2>5 DEF FreeUnlock, Home, Locks, Unlocked, Free
  <2>6. CASE WaitOther(a) \/ WaitJoin(a) \/ WaitSpin(a) \/ HaltOrFree(a)
    <3>1. world'.finalize = world.finalize
      BY <1>0, <2>6 DEF WaitOther, WaitJoin, WaitSpin, HaltOrFree, Worlds
    <3>2. lock' = lock /\ \A b \in Views : pc'[b] \in Region => pc[b] \in Region
      BY <1>0, <1>r, <2>6 DEF WaitOther, WaitJoin, WaitSpin, HaltOrFree, Waiting
    <3>3. QED
      BY <1>0, <3>1, <3>2 DEF Locks
  <2>7. CASE WaitEnd(a)
    <3>1. world'.finalize = 2 /\ lock' = lock
      BY <1>0, <2>7 DEF WaitEnd, Worlds
    <3>2. QED
      BY <1>0, <3>1 DEF Locks
  <2>8. CASE HaltEnd(a)
    <3>1. world.finalize = 2
      BY <2>8 DEF HaltEnd, Phases
    <3>2. QED
      BY <1>0, <2>8, <3>1 DEF HaltEnd, Locks, Unlocked, Free
  <2>9. QED
    BY <1>2, <2>1, <2>2, <2>3, <2>4, <2>5, <2>6, <2>7, <2>8 DEF Steps
<1>3. QED
  BY <1>1, <1>2, QuietOrSteps

LEMMA PhasesStep ==
  ASSUME TypeInv, Locks, Phases, [Next]_vars
  PROVE  Phases'
<1> USE DEF Goto
<1>0. /\ pc \in [Views -> Places] /\ world \in Worlds /\ world.finalize \in 0..2
      /\ \A b \in Views : pc[b] \in Region /\ world.finalize < 2 => lock.owner = b
      /\ \A b \in Views : pc[b] \in {"wait", "waitjoin", "spin"} => world.finalize = 1
      /\ \A b \in Views : pc[b] = "halt" => world.finalize = 2
      /\ world.finalize = 1 => \E b \in Views : pc[b] \in {"wait", "waitjoin", "spin"}
      /\ \A b, c \in Views : pc[b] = "halt" /\ pc[c] = "halt" => b = c
  BY DEF TypeInv, Worlds, Locks, Phases, Waits3
<1>r. /\ Region = {"wait", "waitjoin", "spin", "halt", "count", "store", "unlist", "unlock"}
      /\ Waits3 = {"wait", "waitjoin", "spin"}
  BY DEF Region, Counted, Waits3
(* Nobody begins or stops to wait or to halt.                                *)
<1>1. ASSUME world'.finalize = world.finalize,
             \A b \in Views : /\ pc'[b] \in Waits3 <=> pc[b] \in Waits3
                              /\ pc'[b] = "halt" => pc[b] = "halt"
      PROVE  Phases'
  BY <1>0, <1>1, <1>r DEF Phases
<1>2. CASE Quiet
  BY <1>1, <1>2, <1>r DEF Quiet, Settled
<1>3. ASSUME NEW a \in Views, Steps(a)
      PROVE  Phases'
  <2>1. CASE NewView(a)
    <3>1. /\ world'.finalize = world.finalize
          /\ \A b \in Views : pc'[b] = pc[b] \/ (pc[b] = "none" /\ pc'[b] = "made")
      BY <1>0, <2>1, NewViewEffect DEF Makes, MakesNone
    <3>2. QED
      BY <1>1, <1>r, <3>1
  <2>2. CASE FreeLock(a) \/ Count(a) \/ CountStore(a) \/ FreeUnlock(a) \/ Scuttle(a)
    <3>1. world'.finalize = world.finalize
      BY <1>0, <2>2 DEF FreeLock, Count, CountStore, FreeUnlock, Scuttle, Worlds
    <3>2. \A b \in Views : /\ pc'[b] \in Waits3 <=> pc[b] \in Waits3
                           /\ pc'[b] = "halt" => pc[b] = "halt"
      BY <1>0, <1>r, <2>2 DEF FreeLock, Count, CountStore, FreeUnlock, Scuttle, Home
    <3>3. QED
      BY <1>1, <3>1, <3>2
  <2>3. CASE Unlist(a)
    <3> DEFINE refs == world.refs - Referred(view[Target(a)].vtype)
               last == view[Target(a)].vtype = "normal" /\ refs = 0
    <3>1. /\ pc[a] = "unlist"
          /\ pc' = [pc EXCEPT ![a] = IF last /\ world.finalize = 0 THEN "wait" ELSE "count"]
          /\ world' = [world EXCEPT !.refs = refs,
                                    !.finalize = IF last /\ @ = 0 THEN 1 ELSE @]
      BY <2>3 DEF Unlist
    <3> HIDE DEF refs, last
    <3>2. world'.finalize = IF last /\ world.finalize = 0 THEN 1 ELSE world.finalize
      BY <1>0, <3>1 DEF Worlds
    <3>3. CASE last /\ world.finalize = 0
      <4>1. pc'[a] = "wait" /\ world'.finalize = 1 /\ \A b \in Views \ {a} : pc'[b] = pc[b]
        BY <1>0, <3>1, <3>2, <3>3
      <4>2. \A b \in Views : pc[b] \notin Waits3 \cup {"halt"}
        BY <1>0, <1>r, <3>3
      <4>3. QED
        BY <1>r, <4>1, <4>2 DEF Phases
    <3>4. CASE ~(last /\ world.finalize = 0)
      BY <1>0, <1>1, <1>r, <3>1, <3>2, <3>4
    <3>5. QED
      BY <3>3, <3>4
  <2>4. CASE WaitOther(a) \/ WaitLook(a) \/ WaitJoin(a) \/ WaitSpin(a) \/ HaltOrFree(a)
    <3>1. world'.finalize = world.finalize
      BY <1>0, <2>4 DEF WaitOther, WaitLook, WaitJoin, WaitSpin, HaltOrFree, Worlds
    <3>2. \A b \in Views : /\ pc'[b] \in Waits3 <=> pc[b] \in Waits3
                           /\ pc'[b] = "halt" => pc[b] = "halt"
      BY <1>0, <1>r, <2>4 DEF WaitOther, WaitLook, WaitJoin, WaitSpin, HaltOrFree, Waiting
    <3>3. QED
      BY <1>1, <3>1, <3>2
  <2>5. CASE WaitEnd(a)
    <3>1. /\ world'.finalize = 2 /\ pc[a] = "wait" /\ pc'[a] = "halt"
          /\ \A b \in Views \ {a} : pc'[b] = pc[b]
      BY <1>0, <2>5 DEF WaitEnd, Worlds
    <3>2. \A b \in Views \ {a} : pc[b] \notin Waits3 \cup {"halt"}
      BY <1>0, <1>r, <3>1
    <3>3. QED
      BY <1>r, <3>1, <3>2 DEF Phases
  <2>6. CASE HaltEnd(a)
    <3>1. /\ world' = world /\ pc[a] = "halt" /\ pc'[a] = "count"
          /\ \A b \in Views \ {a} : pc'[b] = pc[b]
      BY <1>0, <2>6 DEF HaltEnd
    <3>2. QED
      BY <1>1, <1>r, <3>1
  <2>7. QED
    BY <1>3, <2>1, <2>2, <2>3, <2>4, <2>5, <2>6 DEF Steps
<1>4. QED
  BY <1>2, <1>3, QuietOrSteps

LEMMA LeftListedStep ==
  ASSUME TypeInv, Structure, LeftThere, LeftListed, IdsSorted, Phases, [Next]_vars
  PROVE  LeftListed'
<1> USE DEF Goto, Type
<1>0. /\ pc \in [Views -> Places] /\ world \in Worlds /\ arg \in [Views -> Works]
      /\ \A a \in Views : pc[a] = "halt" =>
           /\ world.finalize = 2
           /\ \A i, j \in 1..Len(arg[a].left) : arg[a].left[i] = arg[a].left[j] => i = j
           /\ \A i \in 1..Len(arg[a].left) :
                view[arg[a].left[i]].vtype = "finalized" => In(arg[a].left[i])
      /\ \A a, b \in Views : pc[a] = "halt" /\ pc[b] = "halt" => a = b
  BY DEF TypeInv, LeftListed, Phases
<1>l. \A b \in Views : \A i \in 1..Len(arg[b].left) : arg[b].left[i] \in Views
  BY <1>0, ElementOfSeq DEF Works
<1>1. ASSUME \A b \in Views : pc'[b] = "halt" => pc[b] = "halt" /\ arg'[b].left = arg[b].left,
             world.finalize = 2 => view' = view,
             \A w \in Views : In(w) /\ view[w].vtype = "finalized" => In(w)'
      PROVE  LeftListed'
  <2>1. ASSUME NEW b \in Views, pc'[b] = "halt", NEW i \in 1..Len(arg[b].left),
               view'[arg[b].left[i]].vtype = "finalized"
        PROVE  \E k \in 1..Len(list') : list'[k] = arg[b].left[i]
    <3>1. view[arg[b].left[i]].vtype = "finalized" /\ In(arg[b].left[i])
      BY <1>0, <1>1, <2>1
    <3>2. PICK w \in Views : w = arg[b].left[i]
      BY <1>l
    <3>3. In(w)'
      BY <1>1, <3>1, <3>2
    <3>4. QED
      BY <3>2, <3>3 DEF In
  <2>2. QED
    BY <1>0, <1>1, <2>1 DEF LeftListed, In
<1>2. CASE Quiet
  BY <1>1, <1>2 DEF Quiet, Settled, Region, Counted, In
<1>3. ASSUME NEW a \in Views, Steps(a)
      PROVE  LeftListed'
  <2>1. CASE NewView(a)
    <3>1. /\ world.finalize = 0
          /\ \A b \in Views : pc'[b] = pc[b] \/ pc'[b] = "made"
      BY <1>0, <2>1, NewViewEffect DEF Makes, MakesNone
    <3>2. \A b \in Views : pc'[b] # "halt"
      BY <1>0, <3>1
    <3>3. QED
      BY <3>2 DEF LeftListed
  <2>2. CASE FreeLock(a) \/ CountStore(a) \/ FreeUnlock(a) \/ Scuttle(a) \/ WaitLook(a)
             \/ HaltEnd(a)
    <3>1. /\ list' = list /\ view' = view
          /\ \A b \in Views : pc'[b] = "halt" => pc[b] = "halt" /\ arg'[b].left = arg[b].left
      BY <1>0, <2>2 DEF FreeLock, CountStore, FreeUnlock, Scuttle, WaitLook, Waiting, HaltEnd,
         Home, Works
    <3>2. QED
      BY <1>1, <3>1 DEF In
  <2>3. CASE Unlist(a)
    <3>1. /\ view' = view
          /\ \A b \in Views : pc'[b] = "halt" => pc[b] = "halt" /\ arg'[b].left = arg[b].left
      BY <1>0, <2>3 DEF Unlist
    <3>2. /\ arg[a].target \in Views /\ In(arg[a].target)
          /\ view[arg[a].target].vtype # "finalized" /\ list' = Without(arg[a].target)
          /\ world'.vnid = world.vnid
      BY <1>0, <2>3 DEF Unlist, Structure, TargetsListed, Target, Destroys, Listing, Destroying,
         Region, Worlds
    <3>3. \A w \in Views : In(w)' <=> (In(w) /\ w # arg[a].target)
      BY <3>1, <3>2, WithoutListed
    <3>4. QED
      BY <1>1, <3>1, <3>2, <3>3
  <2>4. CASE Count(a) \/ WaitOther(a) \/ WaitJoin(a) \/ WaitSpin(a)
    <3>1. /\ list' = list /\ view' = view /\ pc'[a] # "halt"
          /\ \A b \in Views \ {a} : pc'[b] = pc[b] /\ arg'[b] = arg[b]
      BY <1>0, <2>4 DEF Count, WaitOther, WaitJoin, WaitSpin, Waiting, Next1
    <3>2. QED
      BY <1>1, <3>1 DEF In
  <2>5. CASE WaitEnd(a)
    <3>1. /\ list' = list /\ arg'[a].left = list
          /\ \A b \in Views \ {a} : pc'[b] = pc[b]
          /\ world.finalize = 1
      BY <1>0, <2>5 DEF WaitEnd, Works, Phases, Waits3
    <3>2. \A b \in Views : pc'[b] = "halt" => b = a
      BY <1>0, <3>1
    <3>3. \A i, j \in 1..Len(list) : list[i] = list[j] => i = j
      BY Distinct
    <3>4. QED
      BY <3>1, <3>2, <3>3 DEF LeftListed, In
  <2>6. CASE HaltOrFree(a)
    <3> DEFINE s == arg[a].left
    <3>1. /\ s # <<>> /\ Next1(a) /\ pc[a] = "halt" /\ pc' = pc /\ view' = view
      BY <2>6 DEF HaltOrFree
    <3>2. /\ Head(s) = s[1] /\ s[1] \in Views /\ Len(s) \in Nat \ {0}
          /\ Len(arg'[a].left) = Len(s) - 1
          /\ \A i \in 1..Len(s) - 1 : arg'[a].left[i] = s[i + 1]
      BY <1>0, <3>1, Next1Facts
    <3>3. \A w \in Views : In(w) /\ w # s[1] => In(w)'
      <4>1. CASE view[s[1]].vtype # "finalized"
        BY <2>6, <3>2, <4>1 DEF HaltOrFree, In
      <4>2. CASE view[s[1]].vtype = "finalized"
        <5>1. list' = Without(s[1]) /\ world'.vnid = world.vnid
          BY <1>0, <2>6, <3>2, <4>2 DEF HaltOrFree, Worlds
        <5>2. In(s[1])
          BY <1>0, <3>1, <3>2, <4>2
        <5>3. QED
          BY <3>1, <3>2, <5>1, <5>2, WithoutListed
      <4>3. QED
        BY <4>1, <4>2
    <3>4. \A i, j \in 1..Len(s) : s[i] = s[j] => i = j
      BY <1>0, <3>1
    <3>5. \A i \in 1..Len(s) : s[i] \in Views /\ (view[s[i]].vtype = "finalized" => In(s[i]))
      BY <1>0, <1>l, <3>1
    <3> HIDE DEF s
    <3>6. ASSUME NEW i \in 1..Len(s) - 1, view[s[i + 1]].vtype = "finalized"
          PROVE  \E k \in 1..Len(list') : list'[k] = s[i + 1]
      <4>1. i + 1 \in 1..Len(s) /\ 1 \in 1..Len(s) /\ i + 1 # 1
        BY <3>2
      <4>2. s[i + 1] # s[1] /\ In(s[i + 1]) /\ s[i + 1] \in Views
        BY <3>4, <3>5, <3>6, <4>1
      <4>3. PICK w \in Views : w = s[i + 1]
        BY <4>2
      <4>4. In(w)'
        BY <3>3, <4>2, <4>3
      <4>5. QED
        BY <4>3, <4>4 DEF In
    <3>7. \A i, j \in 1..Len(s) - 1 : s[i + 1] = s[j + 1] => i = j
      <4>1. ASSUME NEW i \in 1..Len(s) - 1, NEW j \in 1..Len(s) - 1, s[i + 1] = s[j + 1]
            PROVE  i = j
        <5>1. i + 1 \in 1..Len(s) /\ j + 1 \in 1..Len(s)
          BY <3>2
        <5>2. i + 1 = j + 1
          BY <3>4, <4>1, <5>1
        <5>3. QED
          BY <5>2
      <4>2. QED
        BY <4>1
    <3>8. \A b \in Views : pc'[b] = "halt" => b = a
      BY <1>0, <3>1
    <3> DEFINE t == arg'[a].left
    <3>9. /\ Len(t) = Len(s) - 1
          /\ \A i, j \in 1..Len(t) : t[i] = t[j] => i = j
          /\ \A i \in 1..Len(t) : view'[t[i]].vtype = "finalized" =>
               \E k \in 1..Len(list') : list'[k] = t[i]
      <4>1. Len(t) = Len(s) - 1 /\ \A i \in 1..Len(s) - 1 : t[i] = s[i + 1]
        BY <3>2
      <4> HIDE DEF t
      <4>2. \A i, j \in 1..Len(t) : t[i] = t[j] => i = j
        BY <3>7, <4>1
      <4>3. ASSUME NEW i \in 1..Len(t), view'[t[i]].vtype = "finalized"
            PROVE  \E k \in 1..Len(list') : list'[k] = t[i]
        <5>0. i \in 1..Len(s) - 1 /\ t[i] = s[i + 1]
          BY <4>1, <4>3
        <5>1. i \in 1..Len(s) - 1 /\ t[i] = s[i + 1] /\ view[s[i + 1]].vtype = "finalized"
          BY <3>1, <4>3, <5>0
        <5>2. QED
          BY <3>6, <5>1
      <4>4. QED
        BY <4>1, <4>2, <4>3
    <3>10. ASSUME NEW b \in Views, pc'[b] = "halt"
           PROVE  LET left == arg'[b].left
                  IN /\ \A i, j \in 1..Len(left) : left[i] = left[j] => i = j
                     /\ \A i \in 1..Len(left) : view'[left[i]].vtype = "finalized" =>
                          \E k \in 1..Len(list') : list'[k] = left[i]
      <4>1. b = a
        BY <3>8, <3>10
      <4>2. arg'[b].left = t
        BY <4>1
      <4> HIDE DEF t
      <4>3. QED
        BY <3>9, <4>2
    <3>11. QED
      BY ONLY <3>10 DEF LeftListed, In, Type
  <2>7. QED
    BY <1>3, <2>1, <2>2, <2>3, <2>4, <2>5, <2>6 DEF Steps
<1>4. QED
  BY <1>2, <1>3, QuietOrSteps

-----------------------------------------------------------------------------
(* How many views there are.                                                 *)

LEMMA LeavingFacts ==
  /\ Leaving = {b \in Views : pc[b] \in Counted}
  /\ IsFiniteSet(Leaving) /\ Cardinality(Leaving) \in Nat
  /\ Cardinality(Leaving) = 0 <=> Leaving = {}
<1>1. Leaving = {b \in Views : pc[b] \in Counted}
  BY DEF Leaving, Counted, Waits3
<1>2. IsFiniteSet(Leaving)
  BY <1>1, ViewListAssumption, FS_Subset
<1>3. QED
  BY <1>1, <1>2, FS_CardinalityType, FS_EmptySet

LEMMA CountsStep ==
  ASSUME TypeInv, Structure, LeftThere, LeftListed, IdsSorted, Locks, Phases, Counts,
         [Next]_vars
  PROVE  Counts'
<1> USE DEF Goto, Type
<1> DEFINE n == Len(list) + Cardinality(Leaving)
<1>0. /\ pc \in [Views -> Places] /\ world \in Worlds /\ arg \in [Views -> Works]
      /\ world.viewc \in Int /\ world.finalize \in 0..2
      /\ \A b \in Views : arg[b].read \in Int
      /\ \A b \in Views : pc[b] \in Region /\ world.finalize < 2 => lock.owner = b
  BY DEF TypeInv, Worlds, Works, Locks
<1>n. n \in Nat /\ Len(list) \in Nat /\ Cardinality(Leaving) \in Nat
  BY ListType, LeavingFacts
<1>c. /\ world.viewc >= n
      /\ world.finalize < 2 => world.viewc = n
      /\ \A a \in Views : pc[a] = "store" =>
           /\ arg[a].read >= n - 1
           /\ world.finalize < 2 => arg[a].read = n - 1
  BY DEF Counts, Total
<1>r. /\ Region = {"wait", "waitjoin", "spin", "halt", "count", "store", "unlist", "unlock"}
      /\ Counted = {"wait", "waitjoin", "spin", "halt", "count", "store"}
  BY DEF Region, Counted, Waits3
<1>p. ASSUME NEW m, m = Len(list') + Cardinality(Leaving'),
             world'.viewc >= m,
             world'.finalize < 2 => world'.viewc = m,
             \A a \in Views : pc'[a] = "store" =>
               /\ arg'[a].read >= m - 1
               /\ world'.finalize < 2 => arg'[a].read = m - 1
      PROVE  Counts'
  BY <1>p DEF Counts, Total
<1>d. Leaving' = {b \in Views : pc'[b] \in Counted}
  BY <1>r DEF Leaving
<1>e. Leaving = {b \in Views : pc[b] \in Counted}
  BY LeavingFacts
(* As many are listed or counted as before.                                  *)
<1>1. ASSUME Len(list') + Cardinality(Leaving') = n,
             world'.viewc = world.viewc,
             world'.finalize < 2 => world.finalize < 2,
             \A b \in Views : pc'[b] = "store" =>
               (pc[b] = "store" /\ arg'[b].read = arg[b].read)
                 \/ arg'[b].read = world.viewc - 1
      PROVE  Counts'
  <2> HIDE DEF n
  <2>1. \A b \in Views : pc'[b] = "store" =>
          /\ arg'[b].read >= n - 1
          /\ world'.finalize < 2 => arg'[b].read = n - 1
    BY <1>0, <1>1, <1>c, <1>n
  <2>2. world'.viewc >= n /\ (world'.finalize < 2 => world'.viewc = n)
    BY <1>1, <1>c
  <2>3. QED
    BY <1>1, <1>p, <2>1, <2>2
<1>2. ASSUME list' = list, \A b \in Views : pc'[b] \in Counted <=> pc[b] \in Counted
      PROVE  Len(list') + Cardinality(Leaving') = n
  <2>1. Leaving' = Leaving
    BY <1>2, <1>d, <1>e
  <2>2. QED
    BY <1>2, <2>1
<1>3. CASE Quiet
  <2>1. \A b \in Views : pc'[b] \in Counted <=> pc[b] \in Counted
    BY <1>3 DEF Quiet, Settled, Region
  <2>2. \A b \in Views : pc'[b] = "store" => pc[b] = "store" /\ arg'[b].read = arg[b].read
    BY <1>3, <1>r DEF Quiet, Settled
  <2>3. QED
    BY <1>1, <1>2, <1>3, <2>1, <2>2 DEF Quiet
<1>4. ASSUME NEW a \in Views, Steps(a)
      PROVE  Counts'
  <2>1. CASE NewView(a)
    <3>1. /\ pc[a] = "run" /\ Lockable(a) /\ world.finalize = 0 /\ arg' = arg
          /\ (\E v \in Views : Makes(a, v)) \/ MakesNone(a)
      BY <2>1, NewViewEffect
    <3>2. CASE MakesNone(a)
      <4>1. /\ list' = list /\ pc' = pc /\ world'.viewc = world.viewc
            /\ world'.finalize = world.finalize
        BY <3>2 DEF MakesNone
      <4>2. QED
        BY <1>1, <1>2, <3>1, <4>1
    <3>3. ASSUME NEW v \in Views, Makes(a, v)
          PROVE  Counts'
      <4>1. ~In(v)
        BY <3>3 DEF Makes, Structure, NoneAbsent
      <4>2. Len(list') = Len(list) + 1
        BY <3>3, <4>1, MakesFacts
      <4>3. /\ pc[v] = "none" /\ pc'[v] = "made" /\ \A b \in Views \ {v} : pc'[b] = pc[b]
            /\ world'.viewc = world.viewc + 1 /\ world'.finalize = world.finalize
        BY <1>0, <3>3 DEF Makes
      <4>4. \A b \in Views : pc'[b] \in Counted <=> pc[b] \in Counted
        BY <1>r, <4>3
      <4>5. Leaving' = Leaving
        BY <1>d, <1>e, <4>4
      <4>6. \A b \in Views : pc[b] # "store"
        <5>1. ASSUME NEW b \in Views, pc[b] = "store"
              PROVE  FALSE
          <6>1. lock.owner = b /\ b # a
            BY <1>0, <1>r, <3>1, <5>1
          <6>2. None \notin Views
            BY ViewListAssumption
          <6>3. QED
            BY <3>1, <6>1, <6>2 DEF Lockable
        <5>2. QED
          BY <5>1
      <4>7. \A b \in Views : pc'[b] # "store"
        BY <4>3, <4>6
      <4>8. Len(list') + Cardinality(Leaving') = n + 1
        BY <1>n, <4>2, <4>5
      <4> HIDE DEF n
      <4>9. QED
        BY <1>0, <1>c, <1>n, <1>p, <3>1, <4>3, <4>7, <4>8
    <3>4. QED
      BY <3>1, <3>2, <3>3
  <2>2. CASE FreeLock(a) \/ FreeUnlock(a) \/ Scuttle(a)
    <3>1. /\ list' = list
          /\ \A b \in Views : pc'[b] \in Counted <=> pc[b] \in Counted
      BY <1>0, <1>r, <2>2 DEF FreeLock, FreeUnlock, Scuttle, Home
    <3>2. world'.viewc = world.viewc /\ world'.finalize = world.finalize
      BY <1>0, <2>2 DEF FreeLock, FreeUnlock, Scuttle, Worlds
    <3>3. \A b \in Views : pc'[b] = "store" => pc[b] = "store" /\ arg'[b] = arg[b]
      BY <1>0, <2>2 DEF FreeLock, FreeUnlock, Scuttle, Home
    <3>4. QED
      BY <1>1, <1>2, <3>1, <3>2, <3>3
  <2>3. CASE WaitLook(a) \/ HaltEnd(a) \/ WaitOther(a) \/ WaitJoin(a) \/ WaitSpin(a)
    <3>1. /\ list' = list /\ pc[a] \in Counted \ {"store"} /\ pc'[a] \in Counted \ {"store"}
          /\ \A b \in Views \ {a} : pc'[b] = pc[b] /\ arg'[b] = arg[b]
          /\ world' = world
      BY <1>0, <1>r, <2>3 DEF WaitLook, HaltEnd, WaitOther, WaitJoin, WaitSpin, Waiting, Next1
    <3>2. QED
      BY <1>1, <1>2, <3>1
  <2>4. CASE WaitEnd(a)
    <3>1. /\ list' = list /\ pc[a] \in Counted \ {"store"} /\ pc'[a] \in Counted \ {"store"}
          /\ \A b \in Views \ {a} : pc'[b] = pc[b] /\ arg'[b] = arg[b]
      BY <1>0, <1>r, <2>4 DEF WaitEnd
    <3>2. world'.viewc = world.viewc /\ world'.finalize = 2
      BY <1>0, <2>4 DEF WaitEnd, Worlds
    <3>3. QED
      BY <1>1, <1>2, <3>1, <3>2
  <2>5. CASE Count(a)
    <3>1. /\ list' = list /\ world' = world
          /\ pc[a] = "count" /\ pc'[a] = "store"
          /\ \A b \in Views \ {a} : pc'[b] = pc[b] /\ arg'[b] = arg[b]
      BY <1>0, <2>5 DEF Count
    <3>2. arg'[a].read = world.viewc - 1
      BY <1>0, <2>5 DEF Count, Works
    <3>3. \A b \in Views : pc'[b] \in Counted <=> pc[b] \in Counted
      BY <1>r, <3>1
    <3>4. QED
      BY <1>1, <1>2, <3>1, <3>2, <3>3
  <2>6. CASE CountStore(a)
    <3>1. /\ list' = list /\ arg' = arg
          /\ pc[a] = "store" /\ pc'[a] = "unlock"
          /\ \A b \in Views \ {a} : pc'[b] = pc[b]
      BY <1>0, <2>6 DEF CountStore
    <3>2. world'.viewc = arg[a].read /\ world'.finalize = world.finalize
      BY <1>0, <2>6 DEF CountStore, Worlds
    <3>3. Leaving' = Leaving \ {a} /\ a \in Leaving
      BY <1>d, <1>e, <1>r, <3>1
    <3>4. Cardinality(Leaving') = Cardinality(Leaving) - 1
      BY <3>3, LeavingFacts, FS_RemoveElement
    <3>5. Len(list') + Cardinality(Leaving') = n - 1
      BY <1>n, <3>1, <3>4
    <3> HIDE DEF n
    <3>6. /\ arg[a].read >= n - 1
          /\ world.finalize < 2 => arg[a].read = n - 1
      BY <1>c, <3>1
    <3>7. \A b \in Views : pc'[b] = "store" =>
            /\ arg'[b].read >= n - 1
            /\ world.finalize < 2 => FALSE
      <4>1. ASSUME NEW b \in Views, pc'[b] = "store", world.finalize < 2
            PROVE  FALSE
        <5>1. b # a /\ pc[b] = "store"
          BY <3>1, <4>1
        <5>2. QED
          BY <1>0, <1>r, <3>1, <4>1, <5>1
      <4>2. QED
        BY <1>c, <3>1, <4>1
    <3>8. \A b \in Views : pc'[b] = "store" =>
            /\ arg'[b].read >= (n - 1) - 1
            /\ world'.finalize < 2 => arg'[b].read = (n - 1) - 1
      BY <1>0, <1>n, <3>1, <3>2, <3>7
    <3>9. QED
      BY <1>p, <3>2, <3>5, <3>6, <3>8
  <2>7. CASE Unlist(a)
    <3>1. /\ view' = view /\ lock' = lock
          /\ pc[a] = "unlist" /\ pc'[a] \in {"wait", "count"}
          /\ \A b \in Views \ {a} : pc'[b] = pc[b] /\ arg'[b] = arg[b]
      BY <1>0, <2>7 DEF Unlist
    <3>2. world'.viewc = world.viewc /\ (world'.finalize < 2 => world.finalize < 2)
          /\ world'.vnid = world.vnid
      BY <1>0, <2>7 DEF Unlist, Worlds
    <3>3. /\ arg[a].target \in Views /\ In(arg[a].target)
          /\ list' = Without(arg[a].target)
      BY <2>7 DEF Unlist, Structure, TargetsListed, Target, Destroys, Listing, Destroying, Region
    <3>4. Len(list') = Len(list) - 1
      BY <3>1, <3>2, <3>3, WithoutListed
    <3>5. Leaving' = Leaving \cup {a} /\ a \notin Leaving
      BY <1>d, <1>e, <1>r, <3>1
    <3>6. Cardinality(Leaving') = Cardinality(Leaving) + 1
      BY <3>5, LeavingFacts, FS_AddElement
    <3>7. Len(list') + Cardinality(Leaving') = n
      BY <1>n, <3>4, <3>6
    <3> HIDE DEF n
    <3>8. QED
      BY <1>1, <3>1, <3>2, <3>7
  <2>8. CASE HaltOrFree(a)
    <3> DEFINE v == Head(arg[a].left)
    <3>1. /\ pc[a] = "halt" /\ pc' = pc /\ view' = view /\ lock' = lock
          /\ \A b \in Views \ {a} : arg'[b] = arg[b]
          /\ arg[a].left # <<>> /\ Next1(a)
      BY <1>0, <2>8 DEF HaltOrFree, Next1
    <3>2. world.finalize = 2
      BY <3>1 DEF Phases
    <3>3. /\ v = arg[a].left[1] /\ v \in Views /\ 1 \in 1..Len(arg[a].left)
      BY <1>0, <3>1, Next1Facts
    <3>4. CASE view[v].vtype # "finalized"
      <4>1. list' = list /\ world' = world
        BY <2>8, <3>4 DEF HaltOrFree
      <4>2. QED
        BY <1>1, <1>2, <3>1, <4>1
    <3>5. CASE view[v].vtype = "finalized"
      <4>1. In(v)
        BY <3>1, <3>3, <3>5 DEF LeftListed
      <4>2. list' = Without(v) /\ world' = [world EXCEPT !.viewc = @ - 1]
        BY <2>8, <3>5 DEF HaltOrFree
      <4> HIDE DEF v
      <4>3. /\ world'.viewc = world.viewc - 1 /\ world'.finalize = 2
            /\ world'.vnid = world.vnid
        BY <1>0, <3>2, <4>2 DEF Worlds
      <4>4. Len(list') = Len(list) - 1
        BY <3>1, <3>3, <4>1, <4>2, <4>3, WithoutListed
      <4>5. Leaving' = Leaving
        BY <1>d, <1>e, <3>1
      <4>6. Len(list') + Cardinality(Leaving') = n - 1
        BY <1>n, <4>4, <4>5
      <4> HIDE DEF n
      <4>7. \A b \in Views : pc'[b] = "store" => arg'[b].read >= (n - 1) - 1
        BY <1>0, <1>c, <1>n, <3>1
      <4>8. QED
        BY <1>0, <1>c, <1>n, <1>p, <4>3, <4>6, <4>7
    <3>6. QED
      BY <3>4, <3>5
  <2>9. QED
    BY <1>4, <2>1, <2>2, <2>3, <2>4, <2>5, <2>6, <2>7, <2>8 DEF Steps
<1>5. QED
  BY <1>3, <1>4, QuietOrSteps

-----------------------------------------------------------------------------
(* When the last view is gone.                                               *)

LEMMA NotOver ==
  ASSUME TypeInv, Structure, Ended, Over
  PROVE  /\ \A b \in Views : pc[b] \notin Listing \cup Counted \cup Driving
         /\ \A b \in Views : ~Alive(b)
<1>1. list = <<>> /\ Leaving = {}
  BY DEF Ended
<1>2. \A v \in Views : ~In(v)
  BY <1>1 DEF In
<1>3. \A b \in Views : ~Alive(b)
  BY <1>2 DEF Structure, AliveListed
<1>4. \A b \in Views : pc[b] \notin Driving
  BY <1>3 DEF Alive
<1>5. \A b \in Views : pc[b] \notin Listing
  BY <1>2 DEF Structure, TargetsListed, Destroys, Listing, Destroying, Region
<1>6. \A b \in Views : pc[b] \notin Counted
  BY <1>1, LeavingFacts
<1>7. QED
  BY <1>3, <1>4, <1>5, <1>6

LEMMA EndedStep ==
  ASSUME TypeInv, Structure, Locks, Counts, Ended, [Next]_vars
  PROVE  Ended'
<1> USE DEF Goto, Type
<1>0. /\ pc \in [Views -> Places] /\ world \in Worlds /\ arg \in [Views -> Works]
      /\ \A b \in Views : arg[b].read \in Int
      /\ \A b \in Views : pc[b] \in Region /\ world.finalize < 2 => lock.owner = b
  BY DEF TypeInv, Works, Locks
<1>e. /\ Over => list = <<>> /\ Leaving = {}
      /\ \A b, c \in Views : Leaves(b) /\ Leaves(c) => b = c
      /\ \A b \in Views : Leaves(b) => ~world.freed
      /\ Over /\ world.finalize < 2 => \A b \in Views : pc[b] \in Region => Leaves(b)
  BY DEF Ended
<1>r. /\ Region = {"wait", "waitjoin", "spin", "halt", "count", "store", "unlist", "unlock"}
      /\ Counted = {"wait", "waitjoin", "spin", "halt", "count", "store"}
  BY DEF Region, Counted, Waits3
<1>c. ASSUME NEW b \in Views, pc[b] = "store"
      PROVE  arg[b].read >= (Len(list) + Cardinality(Leaving)) - 1
  <2>1. arg[b].read >= Total - 1
    BY <1>c DEF Counts
  <2>2. QED
    BY <2>1 DEF Total
<1>d. Leaving' = {b \in Views : pc'[b] \in Counted}
  BY <1>r DEF Leaving
<1>l. Leaving = {b \in Views : pc[b] \in Counted}
  BY LeavingFacts
(* Nothing changes for those that leave; or the last view is not gone.       *)
<1>1. ASSUME \A b \in Views : Leaves(b)' <=> Leaves(b), world'.freed = world.freed,
             Over => /\ list' = list
                     /\ world'.finalize < 2 => world.finalize < 2
                     /\ \A b \in Views : /\ pc'[b] \in Counted => pc[b] \in Counted
                                         /\ pc'[b] \in Region => pc[b] \in Region
      PROVE  Ended'
  <2>1. Over' <=> Over
    BY <1>1 DEF Over
  <2>2. Over' => list' = <<>> /\ Leaving' = {}
    BY <1>1, <1>d, <1>e, <1>l, <2>1
  <2>3. \A b, c \in Views : Leaves(b)' /\ Leaves(c)' => b = c
    BY <1>1, <1>e
  <2>4. \A b \in Views : Leaves(b)' => ~world'.freed
    BY <1>1, <1>e
  <2>5. Over' /\ world'.finalize < 2 => \A b \in Views : pc'[b] \in Region => Leaves(b)'
    BY <1>1, <1>e, <2>1
  <2>6. QED
    BY <2>2, <2>3, <2>4, <2>5 DEF Ended
<1>2. CASE Quiet
  <2>1. \A b \in Views : Leaves(b)' <=> Leaves(b)
    BY <1>2, <1>r DEF Quiet, Settled, Leaves
  <2>2. \A b \in Views : /\ pc'[b] \in Counted => pc[b] \in Counted
                         /\ pc'[b] \in Region => pc[b] \in Region
    BY <1>2 DEF Quiet, Settled, Region
  <2>3. QED
    BY <1>1, <1>2, <2>1, <2>2 DEF Quiet
<1>3. ASSUME NEW a \in Views, Steps(a)
      PROVE  Ended'
  <2>1. CASE NewView(a)
    <3>1. /\ pc[a] = "run" /\ arg' = arg /\ world'.freed = world.freed
          /\ \A b \in Views : pc'[b] = pc[b] \/ (pc[b] = "none" /\ pc'[b] = "made")
      BY <1>0, <2>1, NewViewEffect DEF Makes, MakesNone
    <3>2. ~Over
      BY <3>1, NotOver DEF Driving
    <3>3. \A b \in Views : Leaves(b)' <=> Leaves(b)
      BY <3>1 DEF Leaves
    <3>4. QED
      BY <1>1, <3>1, <3>2, <3>3
  <2>2. CASE FreeLock(a) \/ Unlist(a) \/ Count(a) \/ WaitOther(a) \/ WaitLook(a)
             \/ WaitJoin(a) \/ WaitSpin(a) \/ WaitEnd(a) \/ HaltOrFree(a) \/ HaltEnd(a)
    <3>1. /\ pc[a] \in {"free", "unlist"} \cup Counted
          /\ pc'[a] \in {"unlist"} \cup Counted
          /\ \A b \in Views \ {a} : pc'[b] = pc[b] /\ arg'[b] = arg[b]
      BY <1>0, <1>r, <2>2 DEF FreeLock, Unlist, Count, WaitOther, WaitLook, WaitJoin, WaitSpin,
         WaitEnd, HaltOrFree, HaltEnd, Waiting, Next1
    <3>2. world'.freed = world.freed
      BY <1>0, <2>2 DEF FreeLock, Unlist, Count, WaitOther, WaitLook, WaitJoin, WaitSpin,
         WaitEnd, HaltOrFree, HaltEnd, Worlds
    <3>3. ~Over
      BY <3>1, NotOver DEF Listing
    <3>4. \A b \in Views : Leaves(b)' <=> Leaves(b)
      BY <1>r, <3>1 DEF Leaves
    <3>5. QED
      BY <1>1, <3>2, <3>3, <3>4
  <2>3. CASE CountStore(a)
    <3>1. /\ pc[a] = "store" /\ pc'[a] = "unlock" /\ arg' = arg /\ list' = list
          /\ \A b \in Views \ {a} : pc'[b] = pc[b]
      BY <1>0, <2>3 DEF CountStore
    <3>2. world'.freed = world.freed /\ world'.finalize = world.finalize
      BY <1>0, <2>3 DEF CountStore, Worlds
    <3>3. ~Over
      BY <1>r, <3>1, NotOver
    <3>4. CASE arg[a].read > 0
      <4>1. \A b \in Views : Leaves(b)' <=> Leaves(b)
        <5>1. ~Leaves(a) /\ ~Leaves(a)'
          <6>1. arg[a].read \in Int
            BY <1>0
          <6>2. ~(arg[a].read <= 0)
            BY <3>4, <6>1
          <6>3. QED
            BY <3>1, <6>2 DEF Leaves
        <5>2. QED
          BY <3>1, <5>1 DEF Leaves
      <4>2. QED
        BY <1>1, <3>2, <3>3, <4>1
    <3>5. CASE ~(arg[a].read > 0)
      <4>1. arg[a].read >= (Len(list) + Cardinality(Leaving)) - 1
        BY <1>c, <3>1
      <4>2. a \in Leaving /\ Leaving' = Leaving \ {a}
        BY <1>d, <1>l, <1>r, <3>1
      <4>3. /\ Cardinality(Leaving) \in Nat \ {0} /\ Len(list) \in Nat
            /\ Cardinality(Leaving') = Cardinality(Leaving) - 1
            /\ IsFiniteSet(Leaving')
        BY <4>2, LeavingFacts, ListType, FS_RemoveElement, FS_Subset
      <4>4. Len(list) = 0 /\ Cardinality(Leaving') = 0
        BY <1>0, <3>5, <4>1, <4>3
      <4>5. list' = <<>> /\ Leaving' = {}
        <5>1. list = <<>>
          BY <4>4, ListType, EmptySeq
        <5>2. Leaving' = {}
          BY <4>3, <4>4, FS_EmptySet
        <5>3. QED
          BY <3>1, <5>1, <5>2
      <4>6. \A b \in Views : Leaves(b)' => b = a
        BY <3>1, <3>3 DEF Over, Leaves
      <4>7. world'.finalize < 2 => \A b \in Views : pc'[b] \in Region => b = a
        BY <1>0, <1>r, <3>1, <3>2
      <4>8. Leaves(a)' /\ ~world'.freed
        <5>1. arg[a].read <= 0
          <6>1. arg[a].read \in Int
            BY <1>0
          <6>2. QED
            BY <3>5, <6>1
        <5>2. QED
          BY <3>1, <3>2, <3>3, <5>1 DEF Leaves, Over
      <4>9. QED
        BY <4>5, <4>6, <4>7, <4>8 DEF Ended
    <3>6. QED
      BY <3>4, <3>5
  <2>4. CASE FreeUnlock(a)
    <3>1. /\ pc[a] = "unlock" /\ list' = list /\ world' = world
          /\ arg[a].read > 0 => pc'[a] \in {"run", "dead", "release"}
          /\ ~(arg[a].read > 0) => pc'[a] = "scuttle"
          /\ \A b \in Views \ {a} : pc'[b] = pc[b] /\ arg'[b] = arg[b]
      BY <1>0, <2>4 DEF FreeUnlock, Home
    <3>2. \A b \in Views : Leaves(b)' <=> Leaves(b)
      <4>1. Leaves(a)' <=> Leaves(a)
        BY <1>0, <3>1 DEF Leaves
      <4>2. QED
        BY <3>1, <4>1 DEF Leaves
    <3>3. \A b \in Views : /\ pc'[b] \in Counted => pc[b] \in Counted
                           /\ pc'[b] \in Region => pc[b] \in Region
      BY <1>r, <3>1
    <3>4. QED
      BY <1>1, <3>1, <3>2, <3>3
  <2>5. CASE Scuttle(a)
    <3>1. /\ pc[a] = "scuttle" /\ list' = list /\ arg' = arg
          /\ pc'[a] \in {"run", "dead", "release"}
          /\ \A b \in Views \ {a} : pc'[b] = pc[b]
      BY <1>0, <2>5 DEF Scuttle, Home
    <3>2. world'.freed = TRUE /\ world'.finalize = world.finalize
      BY <1>0, <2>5 DEF Scuttle, Worlds
    <3>3. Leaves(a) /\ Over
      BY <3>1 DEF Leaves, Over
    <3>4. \A b \in Views : ~Leaves(b)'
      BY <1>e, <3>1, <3>3 DEF Leaves
    <3>5. list' = <<>> /\ Leaving' = {}
      <4>1. \A b \in Views : pc'[b] \notin Counted
        BY <1>r, <3>1, <3>3, NotOver
      <4>2. QED
        BY <1>d, <1>e, <3>1, <3>3, <4>1
    <3>6. world'.finalize < 2 => \A b \in Views : pc'[b] \notin Region
      <4>1. ASSUME NEW b \in Views, world'.finalize < 2, pc'[b] \in Region
            PROVE  FALSE
        <5>1. b # a /\ pc[b] \in Region
          BY <1>r, <3>1, <4>1
        <5>2. Leaves(b)
          BY <1>e, <3>2, <3>3, <4>1, <5>1
        <5>3. QED
          BY <1>e, <3>3, <5>1, <5>2
      <4>2. QED
        BY <4>1
    <3>7. QED
      BY <3>4, <3>5, <3>6 DEF Ended
  <2>6. QED
    BY <1>3, <2>1, <2>2, <2>3, <2>4, <2>5 DEF Steps
<1>4. QED
  BY <1>2, <1>3, QuietOrSteps

-----------------------------------------------------------------------------
(* The references to the world, and its end.                                 *)

LEMMA NormalsFacts ==
  IsFiniteSet(Normals) /\ Cardinality(Normals) \in Nat
<1>1. Normals \subseteq Views
  BY DEF Normals
<1>2. QED
  BY <1>1, ViewListAssumption, FS_Subset, FS_CardinalityType

LEMMA RefsStep ==
  ASSUME TypeInv, Structure, LeftThere, LeftListed, IdsSorted, Locks, Phases, Finishing, Refs,
         [Next]_vars
  PROVE  Refs'
<1> USE DEF Goto, Type
<1>0. /\ pc \in [Views -> Places] /\ world \in Worlds /\ world.refs \in Int
      /\ world.finalize \in 0..2
      /\ world.refs >= 0
      /\ world.finalize = 0 => world.refs >= Cardinality(Normals)
      /\ \A v \in Views : In(v) /\ view[v].vtype = "normal" => world.finalize = 0
      /\ \A b \in Views : /\ pc[b] \in {"wait", "waitjoin", "spin"} => world.finalize = 1
                          /\ pc[b] = "halt" => world.finalize = 2
  BY DEF TypeInv, Worlds, Refs, Finishing, Phases, Waits3
(* No view has entered or left the list.                                     *)
<1>1. ASSUME world'.refs >= world.refs,
             world'.finalize = 0 => world.finalize = 0 /\ list' = list /\ view' = view
      PROVE  Refs'
  <2>1. world'.finalize = 0 => Normals' = Normals
    BY <1>1 DEF Normals, In
  <2>2. world'.finalize = 0 => world'.refs >= Cardinality(Normals')
    <3>1. ASSUME world'.finalize = 0
          PROVE  world'.refs >= Cardinality(Normals')
      <4>1. Normals' = Normals /\ world.refs >= Cardinality(Normals)
        BY <1>0, <1>1, <2>1, <3>1
      <4>2. PICK n \in Nat : n = Cardinality(Normals)
        BY NormalsFacts
      <4>3. PICK m \in Int : m = world'.refs
        BY <1>1, TypeStep DEF TypeInv, Worlds
      <4>4. m >= n
        BY <1>0, <1>1, <4>1, <4>2, <4>3
      <4>5. QED
        BY <4>1, <4>2, <4>3, <4>4
    <3>2. QED
      BY <3>1
  <2>3. world'.refs >= 0
    <3>1. world'.refs \in Int
      BY TypeStep DEF TypeInv, Worlds
    <3>2. QED
      BY <1>0, <1>1, <3>1
  <2>4. QED
    BY <2>2, <2>3 DEF Refs
<1>2. CASE Quiet
  BY <1>0, <1>1, <1>2 DEF Quiet
<1>3. ASSUME NEW a \in Views, Steps(a)
      PROVE  Refs'
  <2>1. CASE NewView(a)
    <3>1. CASE MakesNone(a)
      BY <1>1, <3>1 DEF MakesNone
    <3>2. ASSUME NEW v \in Views, Makes(a, v)
          PROVE  Refs'
      <4>1. ~In(v)
        BY <3>2 DEF Makes, Structure, NoneAbsent
      <4>2. /\ \A w \in Views : In(w)' <=> (In(w) \/ w = v)
            /\ \A w \in Views : w # v => view'[w] = view[w]
        BY <3>2, <4>1, MakesFacts
      <4>3. /\ world'.refs = world.refs + Referred(view'[v].vtype)
            /\ world.finalize = 0
        BY <2>1, <3>2, NewViewEffect DEF Makes
      <4>4. CASE view'[v].vtype = "normal"
        <5>1. Normals' = Normals \cup {v} /\ v \notin Normals
          BY <4>1, <4>2, <4>4 DEF Normals
        <5>2. Cardinality(Normals') = Cardinality(Normals) + 1
          BY <5>1, NormalsFacts, FS_AddElement
        <5>3. world'.refs = world.refs + 1
          BY <4>3, <4>4 DEF Referred
        <5>4. QED
          BY <1>0, <4>3, <5>2, <5>3, NormalsFacts DEF Refs
      <4>5. CASE view'[v].vtype # "normal"
        <5>1. Normals' = Normals
          BY <4>1, <4>2, <4>5 DEF Normals
        <5>2. world'.refs = world.refs
          BY <1>0, <4>3, <4>5 DEF Referred
        <5>3. QED
          BY <1>0, <4>3, <5>1, <5>2, NormalsFacts DEF Refs
      <4>6. QED
        BY <4>4, <4>5
    <3>3. QED
      BY <2>1, <3>1, <3>2, NewViewEffect
  <2>2. CASE FreeLock(a) \/ Count(a) \/ CountStore(a) \/ FreeUnlock(a) \/ Scuttle(a)
             \/ WaitLook(a) \/ WaitOther(a) \/ WaitJoin(a) \/ WaitSpin(a) \/ HaltEnd(a)
    <3>1. /\ list' = list /\ view' = view /\ world'.refs = world.refs
          /\ world'.finalize = world.finalize
      BY <1>0, <2>2 DEF FreeLock, Count, CountStore, FreeUnlock, Scuttle, WaitLook, WaitOther,
         WaitJoin, WaitSpin, HaltEnd, Worlds
    <3>2. QED
      BY <1>0, <1>1, <3>1
  <2>3. CASE WaitEnd(a) \/ HaltOrFree(a)
    <3>1. world'.refs = world.refs /\ world'.finalize = 2
      BY <1>0, <2>3 DEF WaitEnd, HaltOrFree, Worlds
    <3>2. QED
      BY <1>0, <1>1, <3>1
  <2>4. CASE Unlist(a)
    <3> DEFINE v == arg[a].target
               r == Referred(view[v].vtype)
    <3>1. /\ v \in Views /\ In(v) /\ list' = Without(v) /\ view' = view
      BY <2>4 DEF Unlist, Structure, TargetsListed, Target, Destroys, Listing, Destroying, Region
    <3>2. /\ world'.refs = world.refs - r /\ world'.vnid = world.vnid
          /\ world'.finalize = 0 => world.finalize = 0
      BY <1>0, <2>4 DEF Unlist, Target, Worlds
    <3>3. \A w \in Views : In(w)' <=> (In(w) /\ w # v)
      BY <3>1, <3>2, WithoutListed
    <3>4. CASE view[v].vtype = "normal"
      <4>1. v \in Normals /\ Normals' = Normals \ {v}
        BY <3>1, <3>3, <3>4 DEF Normals
      <4>2. Cardinality(Normals') = Cardinality(Normals) - 1 /\ Cardinality(Normals) # 0
        BY <4>1, NormalsFacts, FS_RemoveElement, FS_EmptySet
      <4>3. world.finalize = 0 /\ r = 1
        BY <1>0, <3>1, <3>4 DEF Referred
      <4>4. QED
        BY <1>0, <3>2, <4>2, <4>3, NormalsFacts DEF Refs
    <3>5. CASE view[v].vtype # "normal"
      <4>1. Normals' = Normals
        BY <3>1, <3>3, <3>5 DEF Normals
      <4>2. r = 0
        BY <3>5 DEF Referred
      <4>3. QED
        BY <1>0, <3>2, <4>1, <4>2, NormalsFacts DEF Refs
    <3>6. QED
      BY <3>4, <3>5
  <2>5. QED
    BY <1>3, <2>1, <2>2, <2>3, <2>4 DEF Steps
<1>4. QED
  BY <1>2, <1>3, QuietOrSteps

(* Once the world finishes, views that are gone stay gone, no view enters    *)
(* the list, and views that become finalized are gone.                       *)
LEMMA GoneStays ==
  ASSUME TypeInv, Structure, LeftThere, LeftListed, IdsSorted, [Next]_vars,
         world.finalize > 0
  PROVE  \A b \in Views :
           /\ Gone(b) => Gone(b)'
           /\ In(b)' => In(b)
           /\ \/ view'[b].vtype = view[b].vtype
              \/ view'[b].vtype = "finalized" /\ Gone(b)'
<1> USE DEF Target
<1>0. /\ pc \in [Views -> Places]
      /\ \A b \in Views : pc[b] \in Driving \cup Destroying \cup Idling
      /\ \A b \in Views : pc[b] \in Driving \cup Destroying => ~Gone(b)
      /\ \A b \in Views : Fresh(b) => ~Gone(b)
      /\ world.finalize \in 0..2
  BY DEF TypeInv, Worlds, Places, Driving, Destroying, Region, Counted, Waits3, Idling, Gone
<1>1. CASE UNCHANGED vars
  BY <1>1 DEF vars, Gone, Fresh, In
<1>2. ASSUME NEW a \in Views, Effect(a)
      PROVE  \A b \in Views :
               /\ Gone(b) => Gone(b)'
               /\ In(b)' => In(b)
               /\ \/ view'[b].vtype = view[b].vtype
                  \/ view'[b].vtype = "finalized" /\ Gone(b)'
  <2>1. CASE NewView(a)
    BY <1>0, <2>1, NewViewEffect
  <2>2. CASE Drives(a)
    <3>1. /\ list' = list /\ view' = view /\ NoneTaken /\ pc[a] \in Driving
          /\ \A b \in Views \ {a} : pc'[b] = pc[b]
      BY <2>2 DEF Drives, Still, Others
    <3>2. QED
      BY <1>0, <3>1 DEF Gone, Fresh, NoneTaken, In
  <2>3. ASSUME NEW v \in Views, Starts(a, v)
        PROVE  \A b \in Views : /\ Gone(b) => Gone(b)'
                                /\ In(b)' => In(b)
                                /\ view'[b].vtype = view[b].vtype
    <3>1. /\ list' = list /\ view' = view /\ SameHeld /\ pc[a] = "run" /\ Fresh(v)
          /\ \A b \in Views \ {a, v} : pc'[b] = pc[b]
      BY <2>3 DEF Starts, Still
    <3>2. ~Gone(a) /\ ~Gone(v)
      BY <1>0, <3>1 DEF Driving
    <3>3. QED
      BY <3>1, <3>2 DEF Gone, Fresh, SameHeld, In
  <2>4. ASSUME NEW v \in Views, Condemns(a, v)
        PROVE  \A b \in Views : /\ Gone(b) => Gone(b)'
                                /\ In(b)' => In(b)
                                /\ view'[b].vtype = view[b].vtype
    <3>1. /\ list' = list /\ view' = view /\ NoneTaken /\ pc[a] \in Driving
          /\ v = a \/ Fresh(v)
          /\ \A b \in Views \ {a, v} : pc'[b] = pc[b]
      BY <2>4 DEF Condemns, Still
    <3>2. ~Gone(a) /\ ~Gone(v)
      BY <1>0, <3>1
    <3>3. QED
      BY <3>1, <3>2 DEF Gone, Fresh, NoneTaken, In
  <2>5. CASE Proceeds(a)
    <3>1. /\ list' = list /\ view' = view /\ SameHeld /\ pc[a] \in Destroying
          /\ \A b \in Views \ {a} : pc'[b] = pc[b]
      BY <2>5 DEF Proceeds, Others
    <3>2. QED
      BY <1>0, <3>1 DEF Gone, Fresh, SameHeld, In
  <2>6. CASE Quits(a)
    <3>1. /\ list' = list /\ SameHeld /\ pc[a] \in Destroying
          /\ \A b \in Views \ {a} : pc'[b] = pc[b]
          /\ pc'[a] = Home(a) /\ (view' = view \/ Finalizes(a))
      BY <2>6 DEF Quits, Others
    <3>2. \A b \in Views : Gone(b) => Gone(b)'
      BY <1>0, <3>1 DEF Gone, Fresh, SameHeld
    <3>3. \A b \in Views : In(b)' => In(b)
      BY <3>1 DEF In
    <3>4. CASE view' = view
      BY <3>2, <3>3, <3>4
    <3>5. CASE Finalizes(a)
      <4>0. PICK v \in Views : v = arg[a].target
        BY <3>1 DEF Structure, TargetsListed, Destroys
      <4>1. Destroys(a) /\ ~Alive(v)
        BY <3>1, <4>0 DEF Structure, AliveListed, Destroys
      <4>2. /\ \A b \in Views : b # v => view'[b] = view[b]
            /\ view'[v].vtype = "finalized"
        BY <3>5, <4>0 DEF Finalizes, TypeInv
      <4>3. Gone(v)'
        <5>1. CASE v = a
          <6>1. pc'[a] \in {"dead", "release"}
            BY <3>1, <4>0, <5>1 DEF Home
          <6>2. QED
            BY <5>1, <6>1 DEF Gone, Fresh, Idling
        <5>2. CASE v # a
          <6>1. ~Destroys(v)
            <7>1. ASSUME Destroys(v)
                  PROVE  FALSE
              <8>1. arg[v].target = v
                BY <4>1, <7>1 DEF Alive
              <8>2. v = a
                BY <4>0, <4>1, <7>1, <8>1 DEF Structure, TargetsApart
              <8>3. QED
                BY <5>2, <8>2
            <7>2. QED
              BY <7>1
          <6>2. Gone(v)
            BY <1>0, <4>1, <6>1 DEF Alive, Gone, Destroys
          <6>3. QED
            BY <3>2, <4>1, <6>2
        <5>3. QED
          BY <5>1, <5>2
      <4>4. \A b \in Views : \/ view'[b].vtype = view[b].vtype
                             \/ view'[b].vtype = "finalized" /\ Gone(b)'
        BY <4>2, <4>3
      <4>5. QED
        BY <3>2, <3>3, <4>4
    <3>6. QED
      BY <3>1, <3>4, <3>5
  <2>7. CASE Releases(a)
    <3>1. /\ list' = list /\ view' = view /\ SameHeld /\ pc'[a] = "dead"
          /\ \A b \in Views \ {a} : pc'[b] = pc[b]
      BY <2>7 DEF Releases, Still, Others
    <3>2. QED
      BY <3>1 DEF Gone, Fresh, SameHeld, In, Idling
  <2>8. ASSUME NEW v \in Views, Removes(a, v)
        PROVE  \A b \in Views : /\ Gone(b) => Gone(b)'
                                /\ In(b)' => In(b)
                                /\ view'[b].vtype = view[b].vtype
    <3>1. /\ In(v) /\ list' = Without(v) /\ view' = view /\ SameHeld
          /\ world'.vnid = world.vnid
          /\ pc[a] \in {"unlist", "halt"} /\ \A b \in Views \ {a} : pc'[b] = pc[b]
      BY <2>8 DEF Removes, Others
    <3>2. \A w \in Views : In(w)' <=> (In(w) /\ w # v)
      BY <3>1, WithoutListed
    <3>3. pc[a] \in Destroying
      BY <3>1 DEF Destroying, Region, Counted
    <3>4. \A b \in Views : Gone(b) => Gone(b)'
      BY <1>0, <3>1, <3>3 DEF Gone, Fresh, SameHeld
    <3>5. QED
      BY <3>1, <3>2, <3>4
  <2>9. QED
    BY <1>2, <2>1, <2>2, <2>3, <2>4, <2>5, <2>6, <2>7, <2>8 DEF Effect
<1>3. QED
  BY <1>1, <1>2, Effects

(* When the last main view leaves the list, everything that is still to run  *)
(* in the world is in the list it goes on to wait for.                       *)
LEMMA LastLeaves ==
  ASSUME TypeInv, Structure, LeftThere, LeftListed, IdsSorted, Locks, Ended, Refs,
         NEW a \in Views, Unlist(a), world.finalize = 0, world'.finalize # 0, [Next]_vars
  PROVE  Finishing'
<1> USE DEF Goto, Type
<1>0. /\ pc \in [Views -> Places] /\ world \in Worlds /\ world.refs \in Int
      /\ view \in [Views -> [vid : Nat, vtype : TypesOf]]
      /\ arg \in [Views -> Works]
  BY DEF TypeInv, Worlds
<1>p. \A b \in Views : pc[b] \in Driving \cup Destroying \cup Idling
  BY DEF TypeInv, Places, Driving, Destroying, Region, Counted, Waits3, Idling
<1>l. \A b \in Views : pc[b] \in Region => lock.owner = b
  BY DEF Locks
<1>r. Region = {"wait", "waitjoin", "spin", "halt", "count", "store", "unlist", "unlock"}
  BY DEF Region, Counted, Waits3
<1>1. PICK v \in Views : v = arg[a].target
  BY DEF Unlist, Structure, TargetsListed, Target, Destroys, Destroying, Region
<1>2. /\ In(v) /\ view[v].vtype # "finalized" /\ Destroys(a) /\ pc[a] = "unlist"
      /\ list' = Without(v) /\ view' = view
  BY <1>1 DEF Unlist, Structure, TargetsListed, Target, Destroys, Listing, Destroying, Region
<1>3. /\ view[v].vtype = "normal" /\ world.refs = 1 /\ pc'[a] = "wait"
      /\ arg'[a].left = list' /\ world'.finalize = 1 /\ world'.vnid = world.vnid
      /\ \A b \in Views \ {a} : pc'[b] = pc[b] /\ arg'[b] = arg[b]
      /\ SameHeld
  <2> DEFINE refs == world.refs - Referred(view[v].vtype)
             last == view[v].vtype = "normal" /\ refs = 0
  <2>1. /\ pc' = [pc EXCEPT ![a] = IF last /\ world.finalize = 0 THEN "wait" ELSE "count"]
        /\ world' = [world EXCEPT !.refs = refs,
                                  !.finalize = IF last /\ @ = 0 THEN 1 ELSE @]
        /\ arg' = [arg EXCEPT ![a].left = list']
        /\ obj' = Unthread(obj, v)
    BY <1>1 DEF Unlist, Target
  <2>2. last
    BY <1>0, <2>1 DEF Worlds
  <2>3. view[v].vtype = "normal" /\ world.refs = 1
    BY <1>0, <2>2 DEF Referred
  <2>4. SameHeld
    BY <2>1, UnthreadType DEF TypeInv, SameHeld
  <2> HIDE DEF last, refs
  <2>5. pc'[a] = "wait" /\ world'.finalize = 1 /\ world'.vnid = world.vnid
    BY <1>0, <2>1, <2>2 DEF Worlds
  <2>6. /\ arg'[a].left = list'
        /\ \A b \in Views \ {a} : pc'[b] = pc[b] /\ arg'[b] = arg[b]
    BY <1>0, <2>1 DEF Works
  <2>7. QED
    BY <2>3, <2>4, <2>5, <2>6
<1>4. \A w \in Views : In(w)' <=> (In(w) /\ w # v)
  BY <1>2, <1>3, WithoutListed
<1>5. Normals = {v}
  <2>1. v \in Normals
    BY <1>2, <1>3 DEF Normals
  <2>2. Cardinality(Normals \ {v}) = Cardinality(Normals) - 1 /\ IsFiniteSet(Normals \ {v})
        /\ Cardinality(Normals \ {v}) \in Nat
    BY <2>1, NormalsFacts, FS_RemoveElement, FS_CardinalityType
  <2>3. 1 >= Cardinality(Normals)
    BY <1>3 DEF Refs
  <2>4. Cardinality(Normals \ {v}) = 0
    BY <2>2, <2>3, NormalsFacts
  <2>5. Normals \ {v} = {}
    BY <2>2, <2>4, FS_EmptySet
  <2>6. QED
    BY <2>1, <2>5
<1>6. \A w \in Views : In(w)' => view'[w].vtype # "normal"
  BY <1>2, <1>4, <1>5 DEF Normals
<1>7. ASSUME NEW b \in Views, In(b), b # v, view[b].vtype \notin {"daemon", "finalized"}
      PROVE  Left(a, b)'
  <2>1. In(b)' /\ view'[b].vtype # "normal"
    BY <1>4, <1>6, <1>7
  <2>2. view'[b].vtype = "sub"
    BY <1>0, <1>2, <1>7, <2>1 DEF TypesOf
  <2>3. \E i \in 1..Len(list') : list'[i] = b
    BY <2>1 DEF In
  <2>4. QED
    BY <1>3, <2>2, <2>3 DEF Left, Waits3
<1>8. ASSUME NEW b \in Views \ {a}, view[b].vtype # "daemon", ~Gone(b)'
      PROVE  Left(a, b)'
  <2>1. ~Gone(b)
    BY <1>3, <1>8 DEF Gone, Fresh, SameHeld
  <2>2. Alive(b) \/ (Destroys(b) /\ arg[b].target = b)
    BY <1>p, <2>1 DEF Alive, Gone, Destroys, Target
  <2>3. CASE Alive(b)
    <3>1. In(b) /\ view[b].vtype # "finalized" /\ arg[a].target # b
      BY <1>2, <2>3 DEF Structure, AliveListed, Target
    <3>2. QED
      BY <1>1, <1>7, <1>8, <3>1
  <2>4. CASE Destroys(b) /\ arg[b].target = b
    <3>1. pc[b] \notin Region
      BY <1>l, <1>2, <1>8, <1>r
    <3>2. pc[b] # "scuttle"
      <4>1. ASSUME pc[b] = "scuttle"
            PROVE  FALSE
        <5>1. Over
          BY <4>1 DEF Over, Leaves
        <5>2. pc[a] \notin Listing
          BY <5>1, NotOver
        <5>3. QED
          BY <1>2, <5>2 DEF Listing
      <4>2. QED
        BY <4>1
    <3>3. pc[b] \in Listing
      BY <2>4, <3>1, <3>2 DEF Destroys, Destroying, Listing
    <3>4. In(b) /\ view[b].vtype # "finalized"
      BY <2>4, <3>3 DEF Structure, TargetsListed, Target
    <3>5. b # v
      BY <1>1, <1>2, <1>8, <2>4 DEF Structure, TargetsApart, Target
    <3>6. QED
      BY <1>7, <1>8, <3>4, <3>5
  <2>5. QED
    BY <2>2, <2>3, <2>4
<1>9. ASSUME view'[a].vtype = "sub"
      PROVE  Left(a, a)'
  <2>1. v # a /\ view[a].vtype = "sub"
    BY <1>2, <1>3, <1>9
  <2>2. Alive(a)
    BY <1>1, <1>2, <2>1 DEF Alive, Target
  <2>3. In(a)
    BY <2>2 DEF Structure, AliveListed
  <2>4. QED
    BY <1>7, <2>1, <2>3
<1>10. Finisher(a)' /\ pc'[a] \in Waits3
  BY <1>2, <1>3, <1>8, <1>9 DEF Finisher, Waits3
<1>11. QED
  BY <1>3, <1>6, <1>10 DEF Finishing

LEMMA FinishingStep ==
  ASSUME TypeInv, Structure, LeftThere, LeftListed, IdsSorted, Locks, Phases, Ended, Refs,
         Finishing, [Next]_vars
  PROVE  Finishing'
<1> USE DEF Goto, Type
<1>0. /\ pc \in [Views -> Places] /\ world \in Worlds /\ arg \in [Views -> Works]
      /\ world.finalize \in 0..2
      /\ \A b \in Views : pc[b] \in Region /\ world.finalize < 2 => lock.owner = b
      /\ \A b \in Views : /\ pc[b] \in Waits3 => world.finalize = 1
                          /\ pc[b] = "halt" => world.finalize = 2
      /\ None \notin Views
  BY ViewListAssumption DEF TypeInv, Worlds, Locks, Phases
<1>r. /\ Region = {"wait", "waitjoin", "spin", "halt", "count", "store", "unlist", "unlock"}
      /\ Waits3 = {"wait", "waitjoin", "spin"}
  BY DEF Region, Counted, Waits3
<1>1. CASE world.finalize = 0
  <2>1. CASE world'.finalize = 0
    BY <2>1 DEF Finishing
  <2>2. CASE world'.finalize # 0
    <3>1. ~Quiet
      BY <1>1, <2>2 DEF Quiet
    <3>2. PICK a \in Views : Steps(a)
      BY <3>1, QuietOrSteps
    <3>3. ~NewView(a)
      BY <1>1, <2>2, NewViewEffect DEF Makes, MakesNone
    <3>4. ~WaitEnd(a)
      BY <1>0, <1>1, <1>r DEF WaitEnd
    <3>5. Unlist(a)
      BY <1>0, <1>1, <2>2, <3>2, <3>3, <3>4 DEF Steps, FreeLock, Count, CountStore, FreeUnlock,
         Scuttle, WaitOther, WaitLook, WaitJoin, WaitSpin, HaltOrFree, HaltEnd, Worlds
    <3>6. QED
      BY <1>1, <2>2, <3>5, LastLeaves
  <2>3. QED
    BY <2>1, <2>2
<1>2. CASE world.finalize > 0
  <2>1. \A b \in Views :
          /\ Gone(b) => Gone(b)'
          /\ In(b)' => In(b)
          /\ \/ view'[b].vtype = view[b].vtype
             \/ view'[b].vtype = "finalized" /\ Gone(b)'
    BY <1>2, GoneStays
  <2>2. \A v \in Views : In(v)' => view'[v].vtype # "normal"
    BY <1>2, <2>1 DEF Finishing
  <2>3. PICK a \in Views : Finisher(a) /\ (world.finalize = 1 => pc[a] \in Waits3)
    BY <1>2 DEF Finishing
  (* It suffices that those it still has to wait for are left, or are gone.  *)
  <2>4. ASSUME \A b \in Views : Left(a, b) => Left(a, b)' \/ (b # a /\ Gone(b)')
                                              \/ view'[b].vtype = "finalized",
               world'.finalize = 1 => pc'[a] \in Waits3
        PROVE  Finishing'
    <3>1. ASSUME NEW b \in Views \ {a}, view'[b].vtype # "daemon"
          PROVE  Gone(b)' \/ Left(a, b)'
      <4>1. CASE view'[b].vtype = view[b].vtype
        <5>1. Gone(b) \/ Left(a, b)
          BY <2>3, <3>1, <4>1 DEF Finisher
        <5>2. Left(a, b) => view'[b].vtype = "sub"
          BY <4>1 DEF Left
        <5>3. QED
          BY <2>1, <2>4, <5>1, <5>2
      <4>2. QED
        BY <2>1, <4>1
    <3>2. view'[a].vtype = "sub" => Left(a, a)'
      <4>1. ASSUME view'[a].vtype = "sub"
            PROVE  Left(a, a)'
        <5>1. view[a].vtype = "sub"
          BY <2>1, <4>1
        <5>2. Left(a, a)
          BY <2>3, <5>1 DEF Finisher
        <5>3. QED
          BY <2>4, <4>1, <5>2
      <4>2. QED
        BY <4>1
    <3>3. Finisher(a)'
      BY <3>1, <3>2 DEF Finisher
    <3>4. QED
      BY <2>2, <2>4, <3>3 DEF Finishing
  (* The thread has not moved.                                               *)
  <2>5. ASSUME pc'[a] = pc[a], arg'[a] = arg[a], world'.finalize = world.finalize
        PROVE  Finishing'
    <3>1. ASSUME NEW b \in Views, Left(a, b), view'[b].vtype # "finalized"
          PROVE  Left(a, b)'
      <4>1. view'[b].vtype = view[b].vtype
        BY <2>1, <3>1
      <4>2. QED
        BY <2>5, <3>1, <4>1 DEF Left
    <3>2. QED
      BY <2>3, <2>4, <2>5, <3>1
  <2>6. CASE world.finalize = 2
    <3>1. \A b \in Views : ~Left(a, b)
      BY <1>0, <2>6 DEF Left
    <3>2. world'.finalize # 1
      <4>1. CASE Quiet
        BY <2>6, <4>1 DEF Quiet
      <4>2. ASSUME NEW c \in Views, Steps(c)
            PROVE  world'.finalize # 1
        <5>1. CASE NewView(c)
          BY <2>6, <5>1, NewViewEffect
        <5>2. CASE Unlist(c)
          BY <1>0, <2>6, <5>2 DEF Unlist, Worlds
        <5>3. CASE CountStore(c) \/ Scuttle(c) \/ WaitEnd(c)
          BY <1>0, <2>6, <5>3 DEF CountStore, Scuttle, WaitEnd, Worlds
        <5>4. CASE HaltOrFree(c)
          BY <1>0, <2>6, <5>4 DEF HaltOrFree, Worlds
        <5>5. CASE FreeLock(c) \/ Count(c) \/ FreeUnlock(c) \/ WaitOther(c) \/ WaitLook(c)
                     \/ WaitJoin(c) \/ WaitSpin(c) \/ HaltEnd(c)
          BY <2>6, <5>5 DEF FreeLock, Count, FreeUnlock, WaitOther, WaitLook, WaitJoin, WaitSpin,
             HaltEnd
        <5>6. QED
          BY <4>2, <5>1, <5>2, <5>3, <5>4, <5>5 DEF Steps
      <4>3. QED
        BY <4>1, <4>2, QuietOrSteps
    <3>3. QED
      BY <2>4, <3>1, <3>2
  <2>7. CASE world.finalize = 1
    <3>0. pc[a] \in Waits3 /\ lock.owner = a /\ \A c \in Views : pc[c] \in Region => c = a
      BY <1>0, <1>r, <2>3, <2>7
    <3>1. CASE Quiet
      BY <1>r, <2>5, <3>0, <3>1 DEF Quiet, Settled
    <3>2. ASSUME NEW c \in Views, Steps(c)
          PROVE  Finishing'
      <4>1. ~NewView(c)
        BY <2>7, NewViewEffect
      <4>2. ~FreeLock(c)
        BY <1>0, <1>r, <3>0 DEF FreeLock, Lockable
      <4>3. CASE Scuttle(c)
        <5>1. /\ pc[c] = "scuttle" /\ arg' = arg
              /\ \A b \in Views \ {c} : pc'[b] = pc[b]
          BY <1>0, <4>3 DEF Scuttle
        <5>2. world'.finalize = world.finalize
          BY <1>0, <4>3 DEF Scuttle, Worlds
        <5>3. QED
          BY <1>r, <2>5, <3>0, <5>1, <5>2
      <4>4. ~Unlist(c) /\ ~Count(c) /\ ~CountStore(c) /\ ~FreeUnlock(c)
        BY <1>r, <3>0 DEF Unlist, Count, CountStore, FreeUnlock
      <4>5. ~HaltOrFree(c) /\ ~HaltEnd(c)
        BY <1>0, <2>7 DEF HaltOrFree, HaltEnd
      <4>6. CASE WaitLook(c)
        <5>1. c = a
          BY <1>r, <3>0, <4>6 DEF WaitLook, Waiting
        <5>2. /\ pc'[a] \in Waits3 /\ arg' = arg /\ world' = world
          BY <1>0, <1>r, <4>6, <5>1 DEF WaitLook, Waiting
        <5>3. ASSUME NEW b \in Views, Left(a, b), view'[b].vtype # "finalized"
              PROVE  Left(a, b)'
          <6>1. view'[b].vtype = view[b].vtype
            BY <2>1, <5>3
          <6>2. QED
            BY <5>2, <5>3, <6>1 DEF Left
        <5>4. QED
          BY <2>4, <5>2, <5>3
      <4>7. CASE WaitOther(c) \/ WaitJoin(c) \/ WaitSpin(c)
        <5> DEFINE s == arg[a].left
        <5>1. c = a
          BY <1>r, <3>0, <4>7 DEF WaitOther, WaitJoin, WaitSpin, Waiting
        <5>2. /\ pc'[a] = "wait" /\ world' = world /\ view' = view /\ Next1(a) /\ s # <<>>
              /\ \A b \in Views \ {a} : pc'[b] = pc[b]
          BY <1>0, <4>7, <5>1 DEF WaitOther, WaitJoin, WaitSpin, Waiting, LeftThere
        <5>3. /\ Head(s) = s[1] /\ s[1] \in Views /\ Len(s) \in Nat \ {0}
              /\ Len(arg'[a].left) = Len(s) - 1
              /\ \A i \in 1..Len(s) - 1 : arg'[a].left[i] = s[i + 1]
          BY <1>0, <5>2, Next1Facts
        <5>4. view[s[1]].vtype = "sub" => s[1] # a /\ Gone(s[1])
          <6>1. CASE WaitJoin(a)
            <7>1. pc[s[1]] = "dead" /\ pc[a] = "waitjoin"
              BY <5>3, <6>1 DEF WaitJoin
            <7>2. QED
              BY <7>1 DEF Gone, Fresh, Idling
          <6>2. CASE WaitOther(a) \/ WaitSpin(a)
            BY <5>3, <6>2 DEF WaitOther, WaitSpin
          <6>3. QED
            BY <4>7, <5>1, <6>1, <6>2
        <5>5. \A b \in Views : (\E i \in 1..Len(s) : s[i] = b) =>
                b = s[1] \/ \E i \in 1..Len(arg'[a].left) : arg'[a].left[i] = b
          <6> HIDE DEF s
          <6>1. ASSUME NEW b \in Views, NEW i \in 1..Len(s), s[i] = b, i # 1
                PROVE  \E k \in 1..Len(arg'[a].left) : arg'[a].left[k] = b
            <7>1. i - 1 \in 1..Len(s) - 1 /\ arg'[a].left[i - 1] = s[i]
              BY <5>3, <6>1
            <7>2. QED
              BY <5>3, <6>1, <7>1
          <6>2. QED
            BY <6>1
        <5>6. ASSUME NEW b \in Views, Left(a, b)
              PROVE  Left(a, b)' \/ (b # a /\ Gone(b)')
          <6>1. view[b].vtype = "sub" /\ \E i \in 1..Len(s) : s[i] = b
            BY <5>6 DEF Left
          <6>2. CASE b = s[1]
            <7>1. b # a /\ Gone(b)
              BY <5>4, <6>1, <6>2
            <7>2. QED
              BY <2>1, <7>1
          <6>3. CASE b # s[1]
            BY <5>2, <5>5, <6>1, <6>3, <1>r DEF Left
          <6>4. QED
            BY <6>2, <6>3
        <5>7. QED
          BY <1>r, <2>4, <5>2, <5>6
      <4>8. CASE WaitEnd(c)
        <5>1. c = a
          BY <1>r, <3>0, <4>8 DEF WaitEnd
        <5>2. arg[a].left = <<>> /\ world'.finalize = 2
          BY <1>0, <4>8, <5>1 DEF WaitEnd, Worlds
        <5>3. \A b \in Views : ~Left(a, b)
          BY <5>2, EmptySeq DEF Left
        <5>4. QED
          BY <2>4, <5>2, <5>3
      <4>9. QED
        BY <3>2, <4>1, <4>2, <4>3, <4>4, <4>5, <4>6, <4>7, <4>8 DEF Steps
    <3>3. QED
      BY <3>1, <3>2, QuietOrSteps
  <2>8. QED
    BY <1>0, <1>2, <2>6, <2>7
<1>3. QED
  BY <1>0, <1>1, <1>2

LEMMA WorldUsedStep ==
  ASSUME TypeInv, Structure, LeftThere, LeftListed, IdsSorted, Locks, Phases, Ended,
         Finishing, WorldUsed, [Next]_vars
  PROVE  WorldUsed'
<1> USE DEF Goto, Type
<1>0. /\ pc \in [Views -> Places] /\ world \in Worlds /\ world.finalize \in 0..2
      /\ \A b \in Views : pc[b] \in Driving \cup Destroying \cup Idling
      /\ \A b \in Views : pc[b] \notin Driving \cap Idling
      /\ \A b \in Views : pc[b] \notin Destroying \cap Idling
      /\ Idling = {"none", "made", "given up", "release", "dead"}
  BY DEF TypeInv, Worlds, Places, Driving, Destroying, Region, Counted, Waits3, Idling
<1>f. world.finalize \in 0..2
  BY DEF TypeInv, Worlds
<1>g. world.finalize \in {0, 1, 2}
  BY <1>f
<1>1. CASE world.freed
  <2>1. Over
    BY <1>1 DEF Over
  <2>2. \A b \in Views : pc[b] \notin Listing \cup Counted \cup Driving
    BY <2>1, NotOver
  <2>3. CASE UNCHANGED vars
    BY <2>3 DEF vars, WorldUsed
  <2>4. ASSUME NEW a \in Views, Effect(a)
        PROVE  WorldUsed'
    <3>1. ~NewView(a) /\ ~Drives(a)
          /\ \A v \in Views : ~Starts(a, v) /\ ~Condemns(a, v)
      BY <2>2, NewViewEffect DEF Drives, Starts, Condemns, Driving
    <3>2. ASSUME view' = view, pc[a] \in Destroying
          PROVE  WorldUsed'
      BY <1>0, <1>1, <3>2 DEF WorldUsed
    <3>3. ~Finalizes(a)
      BY <2>2 DEF Finalizes, Listing
    <3>4. CASE Proceeds(a) \/ Quits(a)
      BY <3>2, <3>3, <3>4 DEF Proceeds, Quits
    <3>5. ASSUME NEW v \in Views, Removes(a, v)
          PROVE  WorldUsed'
      BY <2>2, <3>5 DEF Removes, Listing, Counted
    <3>6. CASE Releases(a)
      <4>1. /\ view' = view /\ world' = world /\ pc'[a] = "dead"
            /\ \A b \in Views \ {a} : pc'[b] = pc[b]
        BY <3>6 DEF Releases, Still, Others
      <4>2. QED
        BY <4>1 DEF WorldUsed
    <3>7. QED
      BY <2>4, <3>1, <3>4, <3>5, <3>6 DEF Effect
  <2>5. QED
    BY <2>3, <2>4, Effects
<1>2. CASE ~world.freed
  <2>1. CASE ~world'.freed
    BY <2>1 DEF WorldUsed
  <2>2. CASE world'.freed
    <3>1. ~Quiet
      BY <1>2, <2>2 DEF Quiet
    <3>2. PICK a \in Views : Steps(a)
      BY <3>1, QuietOrSteps
    <3>3. ~NewView(a)
      BY <1>2, <2>2, NewViewEffect DEF Makes, MakesNone
    <3>4. Scuttle(a)
      BY <1>0, <1>2, <2>2, <3>2, <3>3 DEF Steps, FreeLock, Unlist, Count, CountStore, FreeUnlock,
         WaitOther, WaitLook, WaitJoin, WaitSpin, WaitEnd, HaltOrFree, HaltEnd, Worlds
    <3>5. /\ pc[a] = "scuttle" /\ pc'[a] = Home(a) /\ view' = view
          /\ \A b \in Views \ {a} : pc'[b] = pc[b]
      BY <1>0, <3>4 DEF Scuttle
    <3>6. Leaves(a) /\ Over
      BY <3>5 DEF Leaves, Over
    <3>7. /\ \A b \in Views : pc[b] \notin Listing \cup Counted \cup Driving
          /\ \A b \in Views : ~Alive(b)
      BY <3>6, NotOver
    <3>8. pc'[a] \in {"release", "dead"}
      <4>1. Target(a) = a
        BY <3>5, <3>7 DEF Alive, Destroys, Destroying
      <4>2. QED
        BY <3>5, <4>1 DEF Home
    <3>9. ASSUME NEW b \in Views \ {a}, pc[b] \notin Idling,
                 \A v \in Views : view[v].vtype # "daemon"
          PROVE  FALSE
      <4>1. pc[b] \in {"unlock", "scuttle"}
        BY <1>0, <3>7, <3>9 DEF Destroying, Region, Listing
      <4>2. ~Leaves(b)
        BY <3>6, <3>9 DEF Ended
      <4>3. world.finalize = 2
        <5>1. pc[b] = "unlock"
          BY <4>1, <4>2 DEF Leaves
        <5>2. pc[b] \in Region
          BY <5>1 DEF Region
        <5>3. ~(world.finalize < 2)
          BY <3>6, <4>2, <5>2 DEF Ended
        <5>4. QED
          BY <1>g, <5>3
      <4>4. PICK c \in Views : Finisher(c)
        BY <4>3 DEF Finishing
      <4>5. \A x, y \in Views : ~Left(x, y)
        BY <3>7 DEF Left, Counted
      <4>6. \A x \in Views \ {c} : Gone(x)
        BY <3>9, <4>4, <4>5 DEF Finisher
      <4>7. ~Gone(a) /\ ~Gone(b)
        BY <1>0, <3>5, <3>9 DEF Gone
      <4>8. QED
        BY <3>9, <4>6, <4>7
    <3>10. QED
      BY <1>0, <3>5, <3>8, <3>9 DEF WorldUsed
  <2>3. QED
    BY <2>1, <2>2
<1>3. QED
  BY <1>1, <1>2

-----------------------------------------------------------------------------
(* All of it together.                                                       *)

IInv == /\ TypeInv /\ Structure /\ IdsSorted /\ LeftThere /\ LeftListed /\ Locks
        /\ Phases /\ Counts /\ Ended /\ Refs /\ Finishing /\ WorldUsed

LEMMA InvInit == Init => IInv
<1> SUFFICES ASSUME Init
             PROVE  IInv
  OBVIOUS
<1>1. /\ Main \in Views /\ Main \notin Threads /\ Len(list) = 1 /\ list[1] = Main
      /\ pc = [v \in Views |-> IF v = Main THEN "run" ELSE "none"]
      /\ view = [v \in Views |-> [vid |-> 0, vtype |-> "normal"]]
      /\ world = [vnid |-> 1, viewc |-> 1, refs |-> 1, finalize |-> 0, freed |-> FALSE]
      /\ obj = [v \in Views |-> NoObject] /\ lock = Free /\ list = <<Main>>
  BY ViewListAssumption DEF Init
<1>2. \A v \in Views : /\ pc[v] \in {"run", "none"} /\ (pc[v] = "run" <=> v = Main)
                       /\ ~obj[v].held
  BY <1>1 DEF NoObject
<1>3. \A v \in Views : In(v) <=> v = Main
  BY <1>1 DEF In
<1>4. \A v \in Views : view[v].vtype = "normal" /\ view[v].vid = 0
  BY <1>1
<1>5. \A v \in Views : pc[v] \notin Destroying
  BY <1>2 DEF Destroying, Region, Counted, Waits3
<1>6. Structure
  <2>1. \A v \in Views : Alive(v) => v = Main
    BY <1>2, <1>5 DEF Alive, Fresh, Driving, Destroys
  <2>2. AliveListed
    BY <1>3, <1>4, <1>5, <2>1 DEF AliveListed, Destroys, Type
  <2>3. TargetsListed /\ TargetsApart
    BY <1>2, <1>5 DEF TargetsListed, TargetsApart, Destroys, Listing
  <2>4. NoneAbsent /\ HeldThreads
    BY <1>2, <1>3 DEF NoneAbsent, HeldThreads
  <2>5. QED
    BY <2>2, <2>3, <2>4 DEF Structure
<1>7. IdsSorted
  <2>1. world.vnid = 1
    BY <1>1
  <2>2. \A i \in 1..Len(list) : Vid(list[i]) = 0 /\ i = 1
    BY <1>1, <1>4 DEF Vid
  <2>3. QED
    BY <2>1, <2>2 DEF IdsSorted
<1>8. LeftThere /\ LeftListed
  BY <1>2 DEF LeftThere, LeftListed
<1>9. world.finalize = 0 /\ ~world.freed /\ world.viewc = 1 /\ world.refs = 1
  BY <1>1
<1>10. Locks
  BY <1>1, <1>5 DEF Locks, Free, Destroying
<1>11. Phases
  BY <1>2, <1>9 DEF Phases, Waits3
<1>12. Leaving = {}
  BY <1>2 DEF Leaving
<1>13. Counts
  <2>1. Total = 1
    BY <1>1, <1>12, FS_EmptySet DEF Total
  <2>2. QED
    BY <1>2, <1>9, <2>1 DEF Counts
<1>14. Ended
  BY <1>2, <1>9 DEF Ended, Over, Leaves
<1>15. Refs
  <2>1. Normals = {Main}
    BY <1>1, <1>3, <1>4 DEF Normals, Type
  <2>2. Cardinality(Normals) = 1
    BY <2>1, FS_Singleton
  <2>3. QED
    BY <1>9, <2>2 DEF Refs
<1>16. Finishing /\ WorldUsed
  <2>1. world.finalize = 0 /\ ~(0 > 0)
    BY <1>9
  <2>2. Finishing
    BY <2>1 DEF Finishing
  <2>3. WorldUsed
    BY <1>9 DEF WorldUsed
  <2>4. QED
    BY <2>2, <2>3
<1>17. QED
  BY TypeInit, <1>6, <1>7, <1>8, <1>10, <1>11, <1>13, <1>14, <1>15, <1>16 DEF IInv

LEMMA InvStep == IInv /\ [Next]_vars => IInv'
<1> SUFFICES ASSUME IInv, [Next]_vars
             PROVE  IInv'
  OBVIOUS
<1>0. /\ TypeInv /\ Structure /\ IdsSorted /\ LeftThere /\ LeftListed /\ Locks
      /\ Phases /\ Counts /\ Ended /\ Refs /\ Finishing /\ WorldUsed
  BY DEF IInv
<1>1. TypeInv' /\ Structure' /\ IdsSorted'
  BY <1>0, TypeStep, StructureStep, IdsStep
<1>2. LeftThere' /\ LeftListed'
  BY <1>0, LeftThereStep, LeftListedStep
<1>3. Locks' /\ Phases'
  BY <1>0, LocksStep, PhasesStep
<1>4. Counts' /\ Ended'
  BY <1>0, CountsStep, EndedStep
<1>5. Refs' /\ Finishing' /\ WorldUsed'
  BY <1>0, RefsStep, FinishingStep, WorldUsedStep
<1>6. QED
  BY <1>1, <1>2, <1>3, <1>4, <1>5 DEF IInv

LEMMA InvHolds == Spec => []IInv
BY InvInit, InvStep, PTL DEF Spec

(* The counters of the world never fall below zero, nor does the depth to    *)
(* which the list is locked, and the list holds only views: what unc0_newview *)
(* and unc0_freeview add and subtract stays in balance (uview.c:231,         *)
(* uview.c:304).                                                             *)
THEOREM ViewTypeCorrect == Spec => []TypeOK
<1>1. ASSUME IInv
      PROVE  TypeOK
  <2>1. /\ list \in Seq(Views) /\ world \in Worlds
        /\ lock \in [owner : Views \cup {None}, count : Int]
        /\ view \in [Views -> [vid : Nat, vtype : TypesOf]]
        /\ obj \in [Views -> Objects] /\ pc \in [Views -> Places]
        /\ arg \in [Views -> Works]
    BY <1>1 DEF IInv, TypeInv
  <2>2. world.viewc \in Nat
    <3>1. Total \in Nat
      <4>1. Leaving \subseteq Views
        BY DEF Leaving
      <4>2. Cardinality(Leaving) \in Nat
        BY <4>1, ViewListAssumption, FS_Subset, FS_CardinalityType
      <4>3. Len(list) \in Nat
        BY <2>1
      <4>4. QED
        BY <4>2, <4>3 DEF Total
    <3>2. world.viewc >= Total /\ world.viewc \in Int
      BY <1>1, <2>1 DEF IInv, Counts, Worlds
    <3>3. QED
      BY <3>1, <3>2
  <2>3. world.refs \in Nat
    BY <1>1, <2>1 DEF IInv, Refs, Worlds
  <2>4. world \in [vnid : Nat, viewc : Nat, refs : Nat, finalize : 0..2, freed : BOOLEAN]
    BY <2>1, <2>2, <2>3 DEF Worlds
  <2>5. lock \in [owner : Views \cup {None}, count : Nat]
    BY <1>1, <2>1 DEF IInv, Locks
  <2>6. \A v \in Views : /\ obj[v].owner \in Views \cup {None}
                         /\ arg[v].left \in Seq(Views)
                         /\ Target(v) \in Views \cup {None}
    BY <2>1 DEF Objects, Works, Target
  <2>7. QED
    BY <2>1, <2>4, <2>5, <2>6 DEF TypeOK, TypesOf
<1>2. QED
  BY <1>1, InvHolds, PTL

(* However views are made, given up and freed by the threads of a world, its *)
(* list stays sorted by ID, and no two views of it have the same: the search *)
(* of unc0_newview for a gap finds where the new view belongs.               *)
THEOREM IdsSortedHolds == Spec => []IdsSorted
<1>1. IInv => IdsSorted
  BY DEF IInv
<1>2. QED
  BY <1>1, InvHolds, PTL

(* The lock of the list makes viewc count its views and those that have left *)
(* it and are not subtracted yet, until the last main view unlocks the list  *)
(* for the threads it has halted.                                            *)
THEOREM CountsViewsHolds == Spec => []CountsViews
<1>1. IInv => CountsViews
  BY DEF IInv, Counts, Total, CountsViews
<1>2. QED
  BY <1>1, InvHolds, PTL

(* One thread at most frees the world, once, when no view is in the list,    *)
(* though viewc is decremented by threads that do not exclude each other     *)
(* when the world is finished: an update that is lost can only leave viewc   *)
(* too high.                                                                 *)
THEOREM FreedLastHolds == Spec => []FreedLast
<1> DEFINE last == {a \in Views : pc[a] = "scuttle"}
<1>1. ASSUME IInv
      PROVE  FreedLast
  <2>1. /\ Over => list = <<>>
        /\ \A b, c \in Views : Leaves(b) /\ Leaves(c) => b = c
        /\ \A b \in Views : Leaves(b) => ~world.freed
    BY <1>1 DEF IInv, Ended
  <2>2. \A b \in last : b \in Views /\ Leaves(b)
    BY DEF Leaves
  <2>3. last # {} \/ world.freed => list = <<>>
    BY <2>1, <2>2 DEF Over
  <2>4. world.freed => last = {}
    BY <2>1, <2>2
  <2>5. \A b, c \in last : b = c
    BY <2>1, <2>2
  <2> HIDE DEF last
  <2>6. Cardinality(last) <= (IF world.freed THEN 0 ELSE 1)
    <3>1. CASE last = {}
      BY <3>1, FS_EmptySet
    <3>2. CASE last # {}
      <4>1. PICK b \in last : last = {b}
        BY <2>5, <3>2
      <4>2. Cardinality(last) = 1
        BY <4>1, FS_Singleton
      <4>3. QED
        BY <2>4, <3>2, <4>2
    <3>3. QED
      BY <3>1, <3>2
  <2>7. QED
    BY <2>3, <2>6 DEF FreedLast, last
<1>2. QED
  BY <1>1, InvHolds, PTL

(* When the last main view has stopped waiting, no thread that is not a      *)
(* daemon executes Uncil code any more, and none begins later: the views     *)
(* that were not waited for were being destroyed already.                    *)
THEOREM WaitedForHolds == Spec => []WaitedFor
<1>1. ASSUME IInv
      PROVE  WaitedFor
  <2> SUFFICES ASSUME world.finalize = 2, NEW v \in Views, view[v].vtype = "sub"
               PROVE  pc[v] \notin {"begin", "run", "starting", "joining"}
    BY DEF WaitedFor
  <2>1. PICK a \in Views : Finisher(a)
    BY <1>1 DEF IInv, Finishing
  <2>2. \A b \in Views : ~Left(a, b)
    BY <1>1 DEF IInv, Phases, Left
  <2>3. v # a /\ Gone(v)
    BY <2>1, <2>2 DEF Finisher, Type
  <2>4. QED
    BY <2>3 DEF Gone, Idling
<1>2. QED
  BY <1>1, InvHolds, PTL

(* Without daemons nobody uses the world after it has been freed: every      *)
(* thread has been waited for, or has left the list before.                  *)
THEOREM WorldUsedHolds == Spec => []WorldUsed
<1>1. IInv => WorldUsed
  BY DEF IInv
<1>2. QED
  BY <1>1, InvHolds, PTL

=============================================================================
