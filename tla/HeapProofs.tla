----------------------------- MODULE HeapProofs -----------------------------
(***************************************************************************)
(* Proofs about Heap: counts cover the references, nothing that is reached *)
(* has been freed, the marking of the collector ends and what it keeps     *)
(* includes what is reached, and the heap implements Store.                *)
(***************************************************************************)
EXTENDS Heap, FiniteSetTheorems, SequenceTheorems, WellFoundedInduction, TLAPS

-----------------------------------------------------------------------------
(* Induction over the naturals and functions defined by recursion.  The      *)
(* library's theorems have an operator for a parameter; here the property is *)
(* a set, and the step a function.                                           *)

LEMMA SetOfAllNat ==
  ASSUME NEW A, 0 \in A, \A n \in Nat : n \in A => n + 1 \in A
  PROVE  \A n \in Nat : n \in A
<1>1. SUFFICES ASSUME Nat \ A # {}
               PROVE  FALSE
  OBVIOUS
<1>2. \E n \in Nat \ A : \A k \in Nat \ A : <<k, n>> \notin OpToRel(<, Nat)
  BY <1>1, NatLessThanWellFounded, WFMin
<1>3. PICK n \in Nat \ A : \A k \in Nat \ A : ~(k < n)
  BY <1>2 DEF OpToRel
<1>4. n - 1 \in Nat /\ n - 1 \in A
  BY <1>3
<1>5. QED
  BY <1>3, <1>4

(* The same up to a bound.                                                   *)
LEMMA UpTo ==
  ASSUME NEW n \in Nat, NEW A, 0 \in A, \A i \in 1..n : i - 1 \in A => i \in A
  PROVE  \A i \in 0..n : i \in A
<1> DEFINE B == {m \in Nat : m <= n => m \in A}
<1>1. 0 \in B
  OBVIOUS
<1>2. ASSUME NEW m \in Nat, m \in B
      PROVE  m + 1 \in B
  <2>1. CASE m + 1 <= n
    <3>1. m + 1 \in 1..n /\ (m + 1) - 1 = m /\ m \in A
      BY <1>2, <2>1
    <3>2. QED
      BY <3>1
  <2>2. CASE ~(m + 1 <= n)
    BY <2>2
  <2>3. QED
    BY <2>1, <2>2
<1> HIDE DEF B
<1>3. \A m \in Nat : m \in B
  BY <1>1, <1>2, SetOfAllNat
<1>4. QED
  BY <1>3 DEF B

Runs(f, n, start, step) ==
  f[0] = start /\ \A i \in 1..n : f[i] = step[<<i, f[i - 1]>>]

LEMMA Recursion ==
  ASSUME NEW n \in Nat, NEW S, NEW start \in S, NEW step \in [(1..n) \X S -> S]
  PROVE  \E f \in [0..n -> S] : Runs(f, n, start, step)
<1> DEFINE Is(f, m) == /\ f \in [0..m -> S] /\ f[0] = start
                       /\ \A i \in 1..m : f[i] = step[<<i, f[i - 1]>>]
           A == {m \in Nat : \E f : Is(f, m)}
<1>1. 0 \in A
  <2>1. Is([i \in 0..0 |-> start], 0)
    OBVIOUS
  <2>2. QED
    BY <2>1
<1>2. ASSUME NEW m \in 1..n, m - 1 \in A
      PROVE  m \in A
  <2>1. PICK f : Is(f, m - 1)
    BY <1>2
  <2> DEFINE g == [i \in 0..m |-> IF i = m THEN step[<<m, f[m - 1]>>] ELSE f[i]]
  <2>2. f[m - 1] \in S /\ \A i \in 0..(m - 1) : f[i] \in S
    BY <2>1
  <2>3. <<m, f[m - 1]>> \in (1..n) \X S
    BY <2>2
  <2>4. step[<<m, f[m - 1]>>] \in S
    BY <2>3
  <2>5. g \in [0..m -> S] /\ g[0] = start
    BY <2>1, <2>2, <2>4
  <2>6. g[m] = step[<<m, f[m - 1]>>] /\ \A i \in 0..(m - 1) : g[i] = f[i]
    OBVIOUS
  <2> HIDE DEF g
  <2>7. ASSUME NEW i \in 1..m
        PROVE  g[i] = step[<<i, g[i - 1]>>]
    <3>1. g[i - 1] = f[i - 1]
      BY <2>6
    <3>2. CASE i = m
      BY <2>6, <3>1, <3>2
    <3>3. CASE i # m
      <4>1. i \in 1..(m - 1) /\ g[i] = f[i]
        BY <2>6, <3>3
      <4>2. QED
        BY <2>1, <3>1, <4>1
    <3>4. QED
      BY <3>2, <3>3
  <2>8. Is(g, m)
    BY <2>5, <2>7
  <2> HIDE DEF Is
  <2>9. m \in Nat
    OBVIOUS
  <2>10. QED
    BY <2>8, <2>9
<1>3. n \in A
  <2> HIDE DEF A
  <2>1. \A i \in 0..n : i \in A
    BY <1>1, <1>2, UpTo
  <2>2. QED
    BY <2>1
<1>4. QED
  BY <1>3 DEF Runs

LEMMA SmallestOf ==
  ASSUME NEW A \in SUBSET Nat, A # {}
  PROVE  Min(A) \in A /\ \A x \in A : Min(A) <= x
<1>1. \E n \in A : \A k \in A : <<k, n>> \notin OpToRel(<, Nat)
  BY NatLessThanWellFounded, WFMin
<1>2. PICK n \in A : \A k \in A : ~(k < n)
  BY <1>1 DEF OpToRel
<1>3. \A k \in A : n <= k
  BY <1>2
<1>4. QED
  BY <1>3 DEF Min

-----------------------------------------------------------------------------
(* The chain of entities.                                                    *)

LEMMA RemoveAtFacts ==
  ASSUME NEW S, NEW s \in Seq(S), NEW i \in 1..Len(s)
  PROVE  /\ RemoveAt(s, i) \in Seq(S)
         /\ Len(RemoveAt(s, i)) = Len(s) - 1
         /\ \A j \in 1..(Len(s) - 1) :
              RemoveAt(s, i)[j] = IF j < i THEN s[j] ELSE s[j + 1]
<1> DEFINE a == SubSeq(s, 1, i - 1)
           b == SubSeq(s, i + 1, Len(s))
<1>1. Len(s) \in Nat
  BY LenProperties
<1>2. a \in Seq(S) /\ Len(a) = i - 1 /\ \A j \in 1..(i - 1) : a[j] = s[j]
  BY <1>1, SubSeqProperties
<1>3. b \in Seq(S) /\ Len(b) = Len(s) - i /\ \A j \in 1..(Len(s) - i) : b[j] = s[i + j]
  BY <1>1, SubSeqProperties
<1> HIDE DEF a, b
<1> DEFINE c == a \o b
<1>4. /\ c \in Seq(S) /\ Len(c) = Len(s) - 1
      /\ \A j \in 1..(Len(s) - 1) : c[j] = IF j <= i - 1 THEN a[j] ELSE b[j - (i - 1)]
  <2>1. /\ c \in Seq(S) /\ Len(c) = Len(a) + Len(b)
        /\ \A j \in 1..(Len(a) + Len(b)) : c[j] = IF j <= Len(a) THEN a[j] ELSE b[j - Len(a)]
    BY <1>2, <1>3, ConcatProperties
  <2> HIDE DEF c
  <2>2. Len(a) + Len(b) = Len(s) - 1
    BY <1>1, <1>2, <1>3
  <2>3. QED
    BY <1>2, <2>1, <2>2
<1> HIDE DEF c
<1>5. ASSUME NEW j \in 1..(Len(s) - 1)
      PROVE  c[j] = IF j < i THEN s[j] ELSE s[j + 1]
  <2>1. CASE j < i
    BY <1>1, <1>2, <1>4, <2>1
  <2>2. CASE ~(j < i)
    <3>1. j - (i - 1) \in 1..(Len(s) - i) /\ i + (j - (i - 1)) = j + 1
      BY <1>1, <2>2
    <3>2. QED
      BY <1>1, <1>3, <1>4, <2>2, <3>1
  <2>3. QED
    BY <2>1, <2>2
<1>6. QED
  BY <1>4, <1>5 DEF RemoveAt, a, b, c

(* An entity is taken off the chain, which has it once.                      *)
LEMMA RemoveFacts ==
  ASSUME NEW S, NEW s \in Seq(S), NEW e
  PROVE  /\ RemoveFirst(s, e) \in Seq(S)
         /\ IsInjective(s) => /\ IsInjective(RemoveFirst(s, e))
                              /\ Range(RemoveFirst(s, e)) = Range(s) \ {e}
<1>1. Len(s) \in Nat /\ DOMAIN s = 1..Len(s)
  BY LenProperties
<1>2. CASE ~\E i \in 1..Len(s) : s[i] = e
  <2>1. RemoveFirst(s, e) = s
    BY <1>2 DEF RemoveFirst
  <2>2. e \notin Range(s)
    BY <1>1, <1>2 DEF Range
  <2>3. QED
    BY <2>1, <2>2
<1>3. CASE \E i \in 1..Len(s) : s[i] = e
  <2> DEFINE I == {i \in 1..Len(s) : s[i] = e}
             k == Min(I)
             t == RemoveFirst(s, e)
  <2>1. I # {} /\ I \subseteq Nat
    BY <1>1, <1>3
  <2>2. k \in I
    BY <2>1, SmallestOf
  <2>3. SelectInSeq(s, LAMBDA x : x = e) = k
    BY <2>1 DEF SelectInSeq
  <2> HIDE DEF k
  <2>4. k \in 1..Len(s) /\ s[k] = e
    BY <2>2
  <2>5. t = RemoveAt(s, k)
    BY <1>3, <2>3 DEF RemoveFirst
  <2> HIDE DEF t
  <2>6. /\ t \in Seq(S) /\ Len(t) = Len(s) - 1
        /\ \A j \in 1..(Len(s) - 1) : t[j] = IF j < k THEN s[j] ELSE s[j + 1]
    BY <2>4, <2>5, RemoveAtFacts
  <2>7. DOMAIN t = 1..(Len(s) - 1)
    BY <2>6, LenProperties
  <2>8. ASSUME IsInjective(s)
        PROVE  IsInjective(t) /\ Range(t) = Range(s) \ {e}
    <3>1. \A i, j \in 1..Len(s) : s[i] = s[j] => i = j
      BY <1>1, <2>8 DEF IsInjective
    <3>2. ASSUME NEW i \in 1..(Len(s) - 1), NEW j \in 1..(Len(s) - 1), t[i] = t[j]
          PROVE  i = j
      <4> DEFINE at(m) == IF m < k THEN m ELSE m + 1
      <4>1. \A m \in 1..(Len(s) - 1) : at(m) \in 1..Len(s) /\ t[m] = s[at(m)]
        BY <1>1, <2>4, <2>6
      <4>2. at(i) = at(j)
        <5> HIDE DEF at
        <5>1. QED
          BY <3>1, <3>2, <4>1
      <4>3. QED
        BY <1>1, <2>4, <4>2
    <3>3. \A j \in 1..(Len(s) - 1) : t[j] # e /\ t[j] \in Range(s)
      <4> TAKE j \in 1..(Len(s) - 1)
      <4> DEFINE at == IF j < k THEN j ELSE j + 1
      <4>1. at \in 1..Len(s) /\ at # k /\ t[j] = s[at]
        BY <1>1, <2>4, <2>6
      <4> HIDE DEF at
      <4>2. s[at] # e
        BY <2>4, <3>1, <4>1
      <4>3. QED
        BY <1>1, <4>1, <4>2 DEF Range
    <3>4. ASSUME NEW i \in 1..Len(s), s[i] # e
          PROVE  \E j \in 1..(Len(s) - 1) : t[j] = s[i]
      <4>1. CASE i < k
        BY <1>1, <2>4, <2>6, <4>1
      <4>2. CASE k < i
        <5>1. i - 1 \in 1..(Len(s) - 1) /\ t[i - 1] = s[i]
          BY <1>1, <2>4, <2>6, <4>2
        <5>2. QED
          BY <5>1
      <4>3. QED
        BY <2>4, <3>4, <4>1, <4>2
    <3>5. Range(t) = Range(s) \ {e}
      <4>1. \A x \in Range(t) : \E j \in 1..(Len(s) - 1) : x = t[j]
        BY <2>7 DEF Range
      <4>2. \A x \in Range(s) : \E i \in 1..Len(s) : x = s[i]
        BY <1>1 DEF Range
      <4>3. \A j \in 1..(Len(s) - 1) : t[j] \in Range(t)
        BY <2>7 DEF Range
      <4>4. QED
        BY <3>3, <3>4, <4>1, <4>2, <4>3
    <3>6. QED
      BY <2>7, <3>2, <3>5 DEF IsInjective
  <2>9. QED
    BY <2>6, <2>8 DEF t
<1>4. QED
  BY <1>2, <1>3

LEMMA ConsFacts ==
  ASSUME NEW S, NEW s \in Seq(S), NEW e \in S
  PROVE  /\ <<e>> \o s \in Seq(S)
         /\ Range(<<e>> \o s) = Range(s) \cup {e}
         /\ IsInjective(s) /\ e \notin Range(s) => IsInjective(<<e>> \o s)
<1> DEFINE t == <<e>> \o s
<1>1. Len(s) \in Nat /\ DOMAIN s = 1..Len(s)
  BY LenProperties
<1>2. <<e>> \in Seq(S) /\ Len(<<e>>) = 1 /\ <<e>>[1] = e
  OBVIOUS
<1>3. /\ t \in Seq(S) /\ Len(t) = Len(s) + 1
      /\ \A j \in 1..(Len(s) + 1) : t[j] = IF j <= 1 THEN <<e>>[j] ELSE s[j - 1]
  BY <1>1, <1>2, ConcatProperties
<1> HIDE DEF t
<1>4. DOMAIN t = 1..(Len(s) + 1)
  BY <1>3, LenProperties
<1>5. t[1] = e /\ \A j \in 1..Len(s) : t[j + 1] = s[j]
  BY <1>1, <1>2, <1>3
<1>6. \A j \in 1..(Len(s) + 1) : j = 1 \/ (j - 1 \in 1..Len(s) /\ t[j] = s[j - 1])
  BY <1>1, <1>3
<1>7. Range(t) = Range(s) \cup {e}
  <2>1. ASSUME NEW x \in Range(t)
        PROVE  x \in Range(s) \cup {e}
    BY <1>1, <1>4, <1>5, <1>6 DEF Range
  <2>2. ASSUME NEW i \in 1..Len(s)
        PROVE  s[i] \in Range(t)
    BY <1>1, <1>4, <1>5 DEF Range
  <2>3. e \in Range(t)
    BY <1>1, <1>4, <1>5 DEF Range
  <2>4. QED
    BY <1>1, <2>1, <2>2, <2>3 DEF Range
<1>8. ASSUME IsInjective(s), e \notin Range(s)
      PROVE  IsInjective(t)
  <2>1. \A i, j \in 1..Len(s) : s[i] = s[j] => i = j
    BY <1>1, <1>8 DEF IsInjective
  <2>2. \A i \in 1..Len(s) : s[i] # e
    BY <1>1, <1>8 DEF Range
  <2>3. ASSUME NEW i \in 1..(Len(s) + 1), NEW j \in 1..(Len(s) + 1), t[i] = t[j]
        PROVE  i = j
    <3>1. \A k \in 1..(Len(s) + 1) : k # 1 => t[k] # e
      BY <1>6, <2>2
    <3>2. CASE i = 1 \/ j = 1
      BY <1>5, <2>3, <3>1, <3>2
    <3>3. CASE i # 1 /\ j # 1
      <4>1. i - 1 \in 1..Len(s) /\ j - 1 \in 1..Len(s) /\ s[i - 1] = s[j - 1]
        BY <1>6, <2>3, <3>3
      <4>2. i - 1 = j - 1
        BY <2>1, <4>1
      <4>3. QED
        BY <1>1, <4>2
    <3>4. QED
      BY <3>2, <3>3
  <2>4. QED
    BY <1>4, <2>3 DEF IsInjective
<1>9. QED
  BY <1>3, <1>7, <1>8 DEF t

-----------------------------------------------------------------------------
(* What a set of entities leads to.                                          *)

Chain == [Ents -> Values]

LEMMA ReachLeast ==
  ASSUME NEW start, NEW l, NEW S \in SUBSET Ents,
         start \cap Ents \subseteq S, Memory!Closed(S, l)
  PROVE  Memory!Reach(start, l) \subseteq S
  BY DEF Memory!Reach

LEMMA ReachClosed ==
  ASSUME NEW start, NEW l \in Chain
  PROVE  /\ Memory!Reach(start, l) \subseteq Ents
         /\ start \cap Ents \subseteq Memory!Reach(start, l)
         /\ Memory!Closed(Memory!Reach(start, l), l)
<1>1. /\ Memory!Reach(start, l) \subseteq Ents
      /\ start \cap Ents \subseteq Memory!Reach(start, l)
  BY DEF Memory!Reach
<1>2. ASSUME NEW e \in Memory!Reach(start, l), l[e] # None
      PROVE  l[e] \in Memory!Reach(start, l)
  <2>1. e \in Ents /\ l[e] \in Ents
    BY <1>1, <1>2 DEF Chain, Values
  <2>2. ASSUME NEW S \in SUBSET Ents, start \cap Ents \subseteq S, Memory!Closed(S, l)
        PROVE  l[e] \in S
    <3>1. e \in S
      BY <2>2 DEF Memory!Reach
    <3>2. QED
      BY <1>2, <2>2, <3>1 DEF Memory!Closed
  <2>3. QED
    BY <2>1, <2>2 DEF Memory!Reach
<1>3. QED
  BY <1>1, <1>2 DEF Memory!Closed

(* It depends on the links of a closed set around the start alone.           *)
LEMMA ReachSame ==
  ASSUME NEW start, NEW l \in Chain, NEW k \in Chain, NEW S \in SUBSET Ents,
         start \cap Ents \subseteq S, Memory!Closed(S, l),
         \A e \in S : k[e] = l[e]
  PROVE  Memory!Reach(start, k) = Memory!Reach(start, l)
<1>1. Memory!Reach(start, l) \subseteq S
  BY ReachLeast
<1>2. Memory!Closed(S, k)
  BY DEF Memory!Closed
<1>3. Memory!Reach(start, k) \subseteq S
  BY <1>2, ReachLeast
<1>4. Memory!Closed(Memory!Reach(start, l), k)
  BY <1>1, ReachClosed DEF Memory!Closed
<1>5. Memory!Closed(Memory!Reach(start, k), l)
  BY <1>3, ReachClosed DEF Memory!Closed
<1>6. Memory!Reach(start, k) \subseteq Memory!Reach(start, l)
  BY <1>4, ReachClosed, ReachLeast
<1>7. Memory!Reach(start, l) \subseteq Memory!Reach(start, k)
  BY <1>5, ReachClosed, ReachLeast
<1>8. QED
  BY <1>6, <1>7

-----------------------------------------------------------------------------
(* Heaps, and what the operators on them do.                                 *)

LEMMA Constants ==
  /\ None \notin Ents
  /\ None \notin Views
  /\ MarkDepth \in Nat
  /\ Recurse \in Nat
  BY HeapAssumption

LEMMA HeapParts ==
  ASSUME NEW h \in Heaps
  PROVE  /\ h.list \in Seq(Ents)
         /\ h.ent \in [Ents -> Entities]
         /\ \A e \in Ents : /\ h.ent[e].refs \in Int
                            /\ h.ent[e].mark \in {"red", "asleep"}
                            /\ h.ent[e].link \in Values
                            /\ h.ent[e].cref \in Views \cup {None}
         /\ Range(h.list) \subseteq Ents
<1>1. h.list \in Seq(Ents)
  BY DEF Heaps
<1>2. Range(h.list) \subseteq Ents
  BY <1>1, ElementOfSeq, LenProperties DEF Range
<1>3. QED
  BY <1>1, <1>2 DEF Heaps, Entities

LEMMA BlankType == Blank \in Entities
  BY DEF Blank, Entities, Values

LEMMA WreckFacts ==
  ASSUME NEW h \in Heaps, NEW e \in Ents
  PROVE  /\ Wreck(h, e) \in Heaps
         /\ Wreck(h, e).list = RemoveFirst(h.list, e)
         /\ Wreck(h, e).ent = [h.ent EXCEPT ![e] = Blank]
<1> DEFINE l == RemoveFirst(h.list, e)
           t == [h.ent EXCEPT ![e] = Blank]
<1>1. l \in Seq(Ents)
  BY HeapParts, RemoveFacts
<1>2. t \in [Ents -> Entities]
  BY HeapParts, BlankType
<1>3. Wreck(h, e) = [h EXCEPT !.list = l, !.ent = t]
  BY DEF Wreck, Heaps
<1> HIDE DEF l, t
<1>4. [h EXCEPT !.list = l, !.ent = t] \in Heaps
  BY <1>1, <1>2 DEF Heaps
<1>5. QED
  BY <1>3, <1>4 DEF Heaps, l, t

(* The record of one entity is replaced.                                     *)
LEMMA EntFacts ==
  ASSUME NEW h \in Heaps, NEW e \in Ents, NEW x \in Entities
  PROVE  LET g == [h EXCEPT !.ent[e] = x]
         IN  /\ g \in Heaps
             /\ g.list = h.list
             /\ g.ent[e] = x
             /\ \A d \in Ents \ {e} : g.ent[d] = h.ent[d]
<1> DEFINE t == [h.ent EXCEPT ![e] = x]
<1>1. t \in [Ents -> Entities] /\ t[e] = x /\ \A d \in Ents \ {e} : t[d] = h.ent[d]
  BY HeapParts
<1>2. [h EXCEPT !.ent[e] = x] = [h EXCEPT !.ent = t]
  OBVIOUS
<1> HIDE DEF t
<1>3. QED
  BY <1>1, <1>2 DEF Heaps

Less(h, e) == [h EXCEPT !.ent[e].refs = @ - 1]

LEMMA LessFacts ==
  ASSUME NEW h \in Heaps, NEW e \in Ents
  PROVE  /\ Less(h, e) \in Heaps
         /\ Less(h, e).list = h.list
         /\ Less(h, e).ent[e] = [h.ent[e] EXCEPT !.refs = @ - 1]
         /\ \A d \in Ents \ {e} : Less(h, e).ent[d] = h.ent[d]
<1> DEFINE x == [h.ent[e] EXCEPT !.refs = @ - 1]
<1>1. x \in Entities
  <2>1. h.ent[e] \in Entities /\ h.ent[e].refs \in Int
    BY HeapParts
  <2>2. QED
    BY <2>1 DEF Entities
<1>2. Less(h, e) = [h EXCEPT !.ent[e] = x]
  BY DEF Less
<1> HIDE DEF x
<1>3. QED
  BY <1>1, <1>2, EntFacts DEF x

LEMMA IncrefFacts ==
  ASSUME NEW h \in Heaps, NEW e \in Ents
  PROVE  /\ Incref(h, e) \in Heaps
         /\ Incref(h, e).list = h.list
         /\ Incref(h, e).ent[e] = [h.ent[e] EXCEPT !.refs = @ + 1]
         /\ \A d \in Ents \ {e} : Incref(h, e).ent[d] = h.ent[d]
<1> DEFINE x == [h.ent[e] EXCEPT !.refs = @ + 1]
<1>1. x \in Entities
  BY HeapParts DEF Entities
<1>2. Incref(h, e) = [h EXCEPT !.ent[e] = x]
  BY Constants DEF Incref
<1> HIDE DEF x
<1>3. QED
  BY <1>1, <1>2, EntFacts DEF x

LEMMA ScrapFacts ==
  ASSUME NEW h \in Heaps, NEW e \in Ents
  PROVE  /\ Scrap(h, e) \in Heaps
         /\ Scrap(h, e).list = h.list
         /\ Scrap(h, e).ent[e] = [h.ent[e] EXCEPT !.mark = "asleep", !.link = None]
         /\ \A d \in Ents \ {e} : Scrap(h, e).ent[d] = h.ent[d]
<1> DEFINE y == h.ent[e]
           x == [y EXCEPT !.mark = "asleep", !.link = None]
<1>1. x \in Entities
  <2>1. y \in Entities /\ None \in Values
    BY HeapParts DEF Values
  <2> HIDE DEF y
  <2>2. QED
    BY <2>1 DEF Entities
<1>2. Scrap(h, e) = [h EXCEPT !.ent[e] = x]
  BY DEF Scrap
<1> HIDE DEF x
<1>3. QED
  BY <1>1, <1>2, EntFacts DEF x

LEMMA RelinkFacts ==
  ASSUME NEW h \in Heaps, NEW e \in Ents, NEW c \in Values
  PROVE  LET g == [h EXCEPT !.ent[e].link = c]
         IN  /\ g \in Heaps
             /\ g.list = h.list
             /\ g.ent[e] = [h.ent[e] EXCEPT !.link = c]
             /\ \A d \in Ents \ {e} : g.ent[d] = h.ent[d]
<1> DEFINE x == [h.ent[e] EXCEPT !.link = c]
<1>1. x \in Entities
  BY HeapParts DEF Entities
<1>2. [h EXCEPT !.ent[e].link = c] = [h EXCEPT !.ent[e] = x]
  OBVIOUS
<1> HIDE DEF x
<1>3. QED
  BY <1>1, <1>2, EntFacts DEF x

(* Release is a recursive function over the levels of recursion that are     *)
(* left.                                                                     *)
Level(n, below) ==
  [e \in Values |-> [h \in Heaps |->
    IF e = None THEN h
    ELSE IF Less(h, e).ent[e].refs # 0 THEN Less(h, e)
    ELSE IF n = 0 \/ h.ent[e].mark = "asleep" THEN Wreck(Less(h, e), e)
    ELSE Wreck(below[h.ent[e].link][Scrap(Less(h, e), e)], e)]]

Releases == [Values -> [Heaps -> Heaps]]

LEMMA LevelType ==
  ASSUME NEW n, NEW below, n = 0 \/ below \in Releases
  PROVE  Level(n, below) \in Releases
<1>1. ASSUME NEW e \in Values, NEW h \in Heaps
      PROVE  (IF e = None THEN h
              ELSE IF Less(h, e).ent[e].refs # 0 THEN Less(h, e)
              ELSE IF n = 0 \/ h.ent[e].mark = "asleep" THEN Wreck(Less(h, e), e)
              ELSE Wreck(below[h.ent[e].link][Scrap(Less(h, e), e)], e)) \in Heaps
  <2>1. CASE e = None
    BY <2>1
  <2>2. CASE e # None
    <3>1. e \in Ents
      BY <2>2 DEF Values
    <3>2. Less(h, e) \in Heaps
      BY <3>1, LessFacts
    <3>3. Wreck(Less(h, e), e) \in Heaps
      BY <3>1, <3>2, WreckFacts
    <3>4. ASSUME n # 0
          PROVE  Wreck(below[h.ent[e].link][Scrap(Less(h, e), e)], e) \in Heaps
      <4>1. Scrap(Less(h, e), e) \in Heaps
        BY <3>1, <3>2, ScrapFacts
      <4>2. h.ent[e].link \in Values
        BY <3>1, HeapParts
      <4>3. below[h.ent[e].link][Scrap(Less(h, e), e)] \in Heaps
        BY <3>4, <4>1, <4>2 DEF Releases
      <4>4. QED
        BY <3>1, <4>3, WreckFacts
    <3>5. QED
      BY <3>2, <3>3, <3>4
  <2>3. QED
    BY <2>1, <2>2
<1>2. QED
  BY <1>1 DEF Level, Releases

IsRelease(f) == f = [n \in 0..Recurse |-> Level(n, f[n - 1])]

LEMMA ReleaseIs ==
  /\ Release \in [0..Recurse -> Releases]
  /\ \A n \in 0..Recurse : Release[n] = Level(n, Release[n - 1])
<1> DEFINE start == Level(0, [e \in Values |-> e])
           step == [p \in (1..Recurse) \X Releases |-> Level(p[1], p[2])]
<1>1. Recurse \in Nat
  BY Constants
<1>2. start \in Releases
  BY LevelType
<1>3. step \in [(1..Recurse) \X Releases -> Releases]
  BY LevelType
<1>4. \A i \in 1..Recurse, r \in Releases : step[<<i, r>>] = Level(i, r)
  OBVIOUS
<1>5. \A r, q : Level(0, r) = Level(0, q)
  BY DEF Level
<1>6. start = Level(0, [e \in Values |-> e])
  OBVIOUS
<1> HIDE DEF start, step
<1>7. PICK f \in [0..Recurse -> Releases] : Runs(f, Recurse, start, step)
  BY <1>1, <1>2, <1>3, Recursion
<1> DEFINE r == [n \in 0..Recurse |-> Level(n, f[n - 1])]
<1>8. ASSUME NEW n \in 0..Recurse
      PROVE  f[n] = Level(n, f[n - 1])
  <2>1. CASE n = 0
    <3>1. f[0] = Level(0, [e \in Values |-> e])
      BY <1>6, <1>7 DEF Runs
    <3>2. QED
      BY <1>5, <2>1, <3>1
  <2>2. CASE n # 0
    <3>1. n \in 1..Recurse /\ n - 1 \in 0..Recurse
      BY <1>1, <2>2
    <3>2. QED
      BY <1>4, <1>7, <3>1 DEF Runs
  <2>3. QED
    BY <2>1, <2>2
<1>9. f = r
  BY <1>8
<1>10. IsRelease(f)
  BY <1>9 DEF IsRelease
<1>11. Release = CHOOSE g : IsRelease(g)
  BY DEF Release, IsRelease, Level, Less
<1>12. IsRelease(Release)
  BY <1>10, <1>11
<1> DEFINE A == {n \in 0..Recurse : Release[n] \in Releases}
<1>13. \A n \in 0..Recurse : Release[n] = Level(n, Release[n - 1])
  BY <1>12 DEF IsRelease
<1>14. 0 \in A
  BY <1>1, <1>13, LevelType
<1>15. ASSUME NEW n \in 1..Recurse, n - 1 \in A
       PROVE  n \in A
  BY <1>13, <1>15, LevelType
<1> HIDE DEF A
<1>16. \A n \in 0..Recurse : n \in A
  BY <1>1, <1>14, <1>15, UpTo
<1>17. \E u : Release = [n \in 0..Recurse |-> u[n]]
  BY <1>12 DEF IsRelease
<1>18. Release \in [0..Recurse -> Releases]
  BY <1>16, <1>17 DEF A
<1>19. QED
  BY <1>13, <1>18

-----------------------------------------------------------------------------
(* No entity is in the chain twice, and no count is below zero.              *)
Sound(h) ==
  /\ IsInjective(h.list)
  /\ \A e \in Ents : h.ent[e].refs >= 0

LEMMA WreckSound ==
  ASSUME NEW h \in Heaps, NEW e \in Ents, Sound(h)
  PROVE  LET g == Wreck(h, e)
         IN  /\ g \in Heaps /\ Sound(g)
             /\ \A d \in Range(h.list) :
                  d # e => d \in Range(g.list) /\ g.ent[d] = h.ent[d]
<1> DEFINE g == Wreck(h, e)
<1>1. /\ g \in Heaps
      /\ g.list = RemoveFirst(h.list, e)
      /\ g.ent = [h.ent EXCEPT ![e] = Blank]
  BY WreckFacts
<1> HIDE DEF g
<1>2. IsInjective(g.list) /\ Range(g.list) = Range(h.list) \ {e}
  BY <1>1, HeapParts, RemoveFacts DEF Sound
<1>3. g.ent[e] = Blank /\ \A d \in Ents \ {e} : g.ent[d] = h.ent[d]
  BY <1>1, HeapParts
<1>4. \A d \in Ents : g.ent[d].refs >= 0
  <2>1. g.ent[e].refs >= 0
    BY <1>3 DEF Blank
  <2>2. \A d \in Ents \ {e} : g.ent[d].refs >= 0
    BY <1>3 DEF Sound
  <2>3. QED
    BY <2>1, <2>2
<1>5. Sound(g)
  BY <1>2, <1>4 DEF Sound
<1>6. \A d \in Range(h.list) : d # e => d \in Range(g.list) /\ g.ent[d] = h.ent[d]
  BY <1>2, <1>3, HeapParts
<1>7. QED
  BY <1>1, <1>5, <1>6 DEF g

-----------------------------------------------------------------------------
(* Counting.                                                                 *)

Linked(h) == [e \in Ents |-> h.ent[e].link]
SlotsWith(r, e) == {s \in Slots : r[s] = e}
LinksTo(h, K, e) == {c \in K : h.ent[c].link = e}
Count(h, r, K, e) == Cardinality(SlotsWith(r, e)) + Cardinality(LinksTo(h, K, e))

LEMMA SlotsFinite == IsFiniteSet(Slots) /\ IsFiniteSet(Ents)
<1>1. IsFiniteSet(Views) /\ IsFiniteSet(Ents) /\ MaxDepth \in Nat
  BY HeapAssumption
<1>2. IsFiniteSet(1..MaxDepth)
  BY <1>1, FS_Interval
<1>3. IsFiniteSet(Locals)
  BY <1>1, <1>2, FS_Product DEF Locals
<1>4. IsFiniteSet({World})
  BY FS_Singleton
<1>5. IsFiniteSet(Views \cup {World})
  BY <1>1, <1>4, FS_Union
<1>6. IsFiniteSet(Slots)
  BY <1>3, <1>5, FS_Union DEF Slots
<1>7. QED
  BY <1>1, <1>6

LEMMA AddOne ==
  ASSUME NEW S, IsFiniteSet(S), NEW x, x \notin S
  PROVE  Cardinality(S \cup {x}) = Cardinality(S) + 1
<1>1. QED
  BY FS_AddElement

LEMMA RemoveOne ==
  ASSUME NEW S, IsFiniteSet(S), NEW x \in S
  PROVE  Cardinality(S \ {x}) = Cardinality(S) - 1
<1>1. QED
  BY FS_RemoveElement

LEMMA CountTypes ==
  ASSUME NEW h, NEW r, NEW K \in SUBSET Ents, NEW e
  PROVE  /\ IsFiniteSet(SlotsWith(r, e)) /\ Cardinality(SlotsWith(r, e)) \in Nat
         /\ IsFiniteSet(LinksTo(h, K, e)) /\ Cardinality(LinksTo(h, K, e)) \in Nat
         /\ Count(h, r, K, e) \in Nat
<1>1. SlotsWith(r, e) \subseteq Slots /\ LinksTo(h, K, e) \subseteq Ents
  BY DEF SlotsWith, LinksTo
<1>2. IsFiniteSet(SlotsWith(r, e)) /\ IsFiniteSet(LinksTo(h, K, e))
  BY <1>1, SlotsFinite, FS_Subset
<1>3. QED
  BY <1>2, FS_CardinalityType DEF Count

(* What is not counted is held by nothing.                                   *)
LEMMA CountZero ==
  ASSUME NEW h, NEW r, NEW K \in SUBSET Ents, NEW e, Count(h, r, K, e) = 0
  PROVE  /\ \A s \in Slots : r[s] # e
         /\ \A c \in K : h.ent[c].link # e
<1>1. /\ Cardinality(SlotsWith(r, e)) = 0
      /\ Cardinality(LinksTo(h, K, e)) = 0
  BY CountTypes DEF Count
<1>2. SlotsWith(r, e) = {} /\ LinksTo(h, K, e) = {}
  BY <1>1, CountTypes, FS_EmptySet
<1>3. QED
  BY <1>2 DEF SlotsWith, LinksTo

LEMMA CountNone ==
  ASSUME NEW h, NEW r, NEW K \in SUBSET Ents, NEW e,
         \A s \in Slots : r[s] # e, \A c \in K : h.ent[c].link # e
  PROVE  Count(h, r, K, e) = 0
<1>1. SlotsWith(r, e) = {} /\ LinksTo(h, K, e) = {}
  BY DEF SlotsWith, LinksTo
<1>2. QED
  BY <1>1, FS_EmptySet DEF Count

(* Fewer holders count less.                                                 *)
LEMMA CountLess ==
  ASSUME NEW h, NEW g, NEW r, NEW K \in SUBSET Ents, NEW L \in SUBSET K, NEW e,
         \A c \in L : g.ent[c].link = h.ent[c].link
  PROVE  Count(g, r, L, e) <= Count(h, r, K, e)
<1>1. LinksTo(g, L, e) \subseteq LinksTo(h, K, e)
  BY DEF LinksTo
<1>2. Cardinality(LinksTo(g, L, e)) <= Cardinality(LinksTo(h, K, e))
  BY <1>1, CountTypes, FS_Subset
<1>3. L \in SUBSET Ents
  OBVIOUS
<1>4. QED
  BY <1>2, <1>3, CountTypes DEF Count

(* A holder is taken out.                                                    *)
LEMMA CountWithout ==
  ASSUME NEW h, NEW r, NEW K \in SUBSET Ents, NEW x \in K
  PROVE  Count(h, r, K, h.ent[x].link) = Count(h, r, K \ {x}, h.ent[x].link) + 1
<1> DEFINE e == h.ent[x].link
<1>1. /\ x \in LinksTo(h, K, e)
      /\ LinksTo(h, K \ {x}, e) = LinksTo(h, K, e) \ {x}
  BY DEF LinksTo
<1> HIDE DEF e
<1>2. Cardinality(LinksTo(h, K \ {x}, e)) = Cardinality(LinksTo(h, K, e)) - 1
  <2> DEFINE T == LinksTo(h, K, e)
  <2>1. IsFiniteSet(T)
    BY CountTypes
  <2>2. x \in T /\ LinksTo(h, K \ {x}, e) = T \ {x}
    BY <1>1
  <2> HIDE DEF T
  <2>3. Cardinality(T \ {x}) = Cardinality(T) - 1
    BY <2>1, <2>2, RemoveOne
  <2>4. QED
    BY <2>2, <2>3 DEF T
<1>3. K \ {x} \in SUBSET Ents
  OBVIOUS
<1>4. QED
  BY <1>2, <1>3, CountTypes DEF Count, e

(* A slot is given another value, or a link is.                              *)
LEMMA SlotsMoved ==
  ASSUME NEW r, NEW q, NEW t \in Slots, NEW e, r[t] # q[t],
         \A s \in Slots \ {t} : q[s] = r[s]
  PROVE  Cardinality(SlotsWith(q, e)) =
           Cardinality(SlotsWith(r, e)) + (IF e = q[t] THEN 1 ELSE 0)
                                        - (IF e = r[t] THEN 1 ELSE 0)
<1>1. IsFiniteSet(SlotsWith(r, e)) /\ Cardinality(SlotsWith(r, e)) \in Nat
  BY CountTypes
<1>2. CASE e = q[t]
  <2>1. t \notin SlotsWith(r, e) /\ SlotsWith(q, e) = SlotsWith(r, e) \cup {t}
    BY <1>2 DEF SlotsWith
  <2>2. Cardinality(SlotsWith(q, e)) = Cardinality(SlotsWith(r, e)) + 1
    BY <1>1, <2>1, AddOne
  <2>3. QED
    BY <1>1, <1>2, <2>2
<1>3. CASE e = r[t]
  <2>1. t \in SlotsWith(r, e) /\ SlotsWith(q, e) = SlotsWith(r, e) \ {t}
    BY <1>3 DEF SlotsWith
  <2>2. Cardinality(SlotsWith(q, e)) = Cardinality(SlotsWith(r, e)) - 1
    BY <1>1, <2>1, RemoveOne
  <2>3. QED
    BY <1>1, <1>3, <2>2
<1>4. CASE e # q[t] /\ e # r[t]
  <2>1. SlotsWith(q, e) = SlotsWith(r, e)
    BY <1>4 DEF SlotsWith
  <2>2. QED
    BY <1>1, <1>4, <2>1
<1>5. QED
  BY <1>2, <1>3, <1>4

LEMMA LinksMoved ==
  ASSUME NEW h, NEW g, NEW K \in SUBSET Ents, NEW x \in K, NEW e,
         h.ent[x].link # g.ent[x].link,
         \A c \in K \ {x} : g.ent[c].link = h.ent[c].link
  PROVE  Cardinality(LinksTo(g, K, e)) =
           Cardinality(LinksTo(h, K, e)) + (IF e = g.ent[x].link THEN 1 ELSE 0)
                                         - (IF e = h.ent[x].link THEN 1 ELSE 0)
<1>1. IsFiniteSet(LinksTo(h, K, e)) /\ Cardinality(LinksTo(h, K, e)) \in Nat
  BY CountTypes
<1>2. CASE e = g.ent[x].link
  <2>1. x \notin LinksTo(h, K, e) /\ LinksTo(g, K, e) = LinksTo(h, K, e) \cup {x}
    BY <1>2 DEF LinksTo
  <2>2. Cardinality(LinksTo(g, K, e)) = Cardinality(LinksTo(h, K, e)) + 1
    BY <1>1, <2>1, AddOne
  <2>3. QED
    BY <1>1, <1>2, <2>2
<1>3. CASE e = h.ent[x].link
  <2>1. x \in LinksTo(h, K, e) /\ LinksTo(g, K, e) = LinksTo(h, K, e) \ {x}
    BY <1>3 DEF LinksTo
  <2>2. Cardinality(LinksTo(g, K, e)) = Cardinality(LinksTo(h, K, e)) - 1
    BY <1>1, <2>1, RemoveOne
  <2>3. QED
    BY <1>1, <1>3, <2>2
<1>4. CASE e # g.ent[x].link /\ e # h.ent[x].link
  <2>1. LinksTo(g, K, e) = LinksTo(h, K, e)
    BY <1>4 DEF LinksTo
  <2>2. QED
    BY <1>1, <1>4, <2>1
<1>5. QED
  BY <1>2, <1>3, <1>4

-----------------------------------------------------------------------------
(* K is in use: slots lead only to K, all of K is on the list with its data, *)
(* and the count of each of K covers what holds it, and one more for the     *)
(* value x that is to be released.                                           *)
InUse(h, r, K) ==
  /\ K \subseteq Range(h.list)
  /\ \A e \in K : h.ent[e].mark = "red" /\ h.ent[e].link \in K \cup {None}
  /\ \A s \in Slots : r[s] \in K \cup {None}
Covers(h, r, K, x) ==
  /\ InUse(h, r, K)
  /\ \A e \in K : h.ent[e].refs >= Count(h, r, K, e) + (IF e = x THEN 1 ELSE 0)

(* What is in use stays as it is.                                            *)
Same(h, g, K) == \A e \in K : /\ g.ent[e].link = h.ent[e].link
                              /\ g.ent[e].cref = h.ent[e].cref

(* The last reference to x is released: nothing in use holds it.             *)
LEMMA LastGone ==
  ASSUME NEW h \in Heaps, NEW r, NEW K \in SUBSET Ents, NEW x \in K,
         Covers(h, r, K, x), h.ent[x].refs = 1
  PROVE  /\ InUse(h, r, K \ {x})
         /\ h.ent[x].link \in (K \ {x}) \cup {None}
         /\ \A e \in K \ {x} :
              h.ent[e].refs >= Count(h, r, K \ {x}, e)
                                 + (IF e = h.ent[x].link THEN 1 ELSE 0)
<1>1. Count(h, r, K, x) = 0
  <2>1. Count(h, r, K, x) \in Nat
    BY CountTypes
  <2>2. 1 >= Count(h, r, K, x) + 1
    BY DEF Covers
  <2>3. QED
    BY <2>1, <2>2
<1>2. (\A s \in Slots : r[s] # x) /\ \A c \in K : h.ent[c].link # x
  BY <1>1, CountZero
<1>3. InUse(h, r, K \ {x})
  BY <1>2 DEF InUse, Covers
<1>4. h.ent[x].link \in (K \ {x}) \cup {None}
  BY <1>2 DEF Covers, InUse
<1>5. ASSUME NEW e \in K \ {x}
      PROVE  h.ent[e].refs >= Count(h, r, K \ {x}, e)
                                + (IF e = h.ent[x].link THEN 1 ELSE 0)
  <2>1. h.ent[e].refs \in Int /\ h.ent[e].refs >= Count(h, r, K, e)
    <3>1. h.ent[e].refs \in Int /\ Count(h, r, K, e) \in Nat
      BY HeapParts, CountTypes
    <3>2. e # x /\ e \in K
      OBVIOUS
    <3>3. h.ent[e].refs >= Count(h, r, K, e) + 0
      BY <3>2 DEF Covers
    <3>4. QED
      BY <3>1, <3>3
  <2>2. Count(h, r, K, e) \in Nat /\ Count(h, r, K \ {x}, e) \in Nat
    <3>1. K \ {x} \in SUBSET Ents
      OBVIOUS
    <3>2. QED
      BY <3>1, CountTypes
  <2>3. CASE e = h.ent[x].link
    <3>1. Count(h, r, K, e) = Count(h, r, K \ {x}, e) + 1
      <4>1. Count(h, r, K, h.ent[x].link) = Count(h, r, K \ {x}, h.ent[x].link) + 1
        BY CountWithout
      <4>2. QED
        BY <2>3, <4>1
    <3>2. QED
      BY <2>1, <2>2, <2>3, <3>1
  <2>4. CASE e # h.ent[x].link
    <3>1. Count(h, r, K \ {x}, e) <= Count(h, r, K, e)
      BY CountLess
    <3>2. QED
      BY <2>1, <2>2, <2>4, <3>1
  <2>5. QED
    BY <2>3, <2>4
<1>6. QED
  BY <1>3, <1>4, <1>5

(* Entities outside K may change, and more may be put on the chain.          *)
LEMMA CoversSame ==
  ASSUME NEW h, NEW g, NEW r, NEW K \in SUBSET Ents, NEW x,
         Covers(h, r, K, x), K \subseteq Range(g.list),
         \A e \in K : g.ent[e] = h.ent[e]
  PROVE  Covers(g, r, K, x)
<1>1. InUse(g, r, K)
  BY DEF Covers, InUse
<1>2. ASSUME NEW e \in K
      PROVE  Count(g, r, K, e) = Count(h, r, K, e)
  <2>1. LinksTo(g, K, e) = LinksTo(h, K, e)
    BY DEF LinksTo
  <2>2. QED
    BY <2>1 DEF Count
<1>3. QED
  BY <1>1, <1>2 DEF Covers

(* What a release does, with n levels left.                                  *)
Releasing(n) ==
  \A x \in Values, h \in Heaps, K \in SUBSET Ents : \A r :
    Sound(h) /\ x \in K \cup {None} /\ Covers(h, r, K, x) =>
      LET g == Release[n][x][h]
      IN  /\ g \in Heaps /\ Sound(g)
          /\ \E L \in SUBSET K : Covers(g, r, L, None) /\ Same(h, g, L)

LEMMA ReleasingLevel ==
  ASSUME NEW n \in 0..Recurse, n # 0 => Releasing(n - 1)
  PROVE  Releasing(n)
<1> SUFFICES ASSUME NEW x \in Values, NEW h \in Heaps,
                    NEW K \in SUBSET Ents, NEW r,
                    Sound(h), x \in K \cup {None}, Covers(h, r, K, x)
             PROVE  LET g == Release[n][x][h]
                    IN  /\ g \in Heaps /\ Sound(g)
                        /\ \E L \in SUBSET K : Covers(g, r, L, None) /\ Same(h, g, L)
  BY SMTT(30) DEF Releasing
<1> DEFINE g == Release[n][x][h]
           less == Less(h, x)
<1>1. g = (IF x = None THEN h
           ELSE IF less.ent[x].refs # 0 THEN less
           ELSE IF n = 0 \/ h.ent[x].mark = "asleep" THEN Wreck(less, x)
           ELSE Wreck(Release[n - 1][h.ent[x].link][Scrap(less, x)], x))
  BY ReleaseIs DEF Level
<1>2. CASE x = None
  <2>1. g = h
    BY <1>1, <1>2
  <2>2. \A e \in K : e # None
    BY Constants
  <2>3. \A e \in K : h.ent[e].refs \in Int
    BY HeapParts
  <2>4. Covers(h, r, K, None) /\ Same(h, h, K)
    BY <1>2, <2>2, <2>3, CountTypes DEF Covers, Same
  <2>5. QED
    BY <2>1, <2>4 DEF g
<1>3. CASE x # None
  <2>1. x \in K /\ x \in Ents /\ x \in Range(h.list) /\ h.ent[x].mark = "red"
    BY <1>3 DEF Covers, InUse
  <2>2. /\ less \in Heaps
        /\ less.list = h.list
        /\ less.ent[x] = [h.ent[x] EXCEPT !.refs = @ - 1]
        /\ \A d \in Ents \ {x} : less.ent[d] = h.ent[d]
    BY <2>1, LessFacts
  <2> HIDE DEF less
  <2>3. h.ent[x].refs \in Int /\ h.ent[x].refs >= 1
    <3>1. h.ent[x].refs >= Count(h, r, K, x) + 1
      BY <2>1 DEF Covers
    <3>2. Count(h, r, K, x) \in Nat
      BY CountTypes
    <3>3. h.ent[x].refs \in Int
      BY <2>1, HeapParts
    <3>4. QED
      BY <3>1, <3>2, <3>3
  <2>4. /\ less.ent[x].refs = h.ent[x].refs - 1
        /\ less.ent[x].link = h.ent[x].link
        /\ less.ent[x].mark = "red"
        /\ less.ent[x].cref = h.ent[x].cref
    <3>1. h.ent[x] \in Entities
      BY <2>1, HeapParts
    <3>2. QED
      BY <2>1, <2>2, <3>1 DEF Entities
  <2>5. \A d \in Ents : /\ less.ent[d].link = h.ent[d].link
                        /\ less.ent[d].mark = h.ent[d].mark
                        /\ less.ent[d].cref = h.ent[d].cref
    BY <2>1, <2>2, <2>4
  <2>6. Sound(less)
    <3>1. \A d \in Ents : h.ent[d].refs >= 0
      BY DEF Sound
    <3>2. \A d \in Ents \ {x} : less.ent[d].refs >= 0
      BY <2>2, <3>1
    <3>3. \A d \in Ents : less.ent[d].refs >= 0
      BY <2>3, <2>4, <3>2
    <3>4. QED
      BY <2>2, <3>3 DEF Sound
  <2>7. CASE less.ent[x].refs # 0
    <3>1. g = less
      BY <1>1, <1>3, <2>7
    <3>2. Covers(less, r, K, None)
      <4>1. InUse(less, r, K)
        BY <2>2, <2>5 DEF Covers, InUse
      <4>2. \A e : Count(less, r, K, e) = Count(h, r, K, e)
        <5>1. \A e : LinksTo(less, K, e) = LinksTo(h, K, e)
          BY <2>5 DEF LinksTo
        <5>2. QED
          BY <5>1 DEF Count
      <4>3. ASSUME NEW e \in K
            PROVE  less.ent[e].refs >= Count(h, r, K, e)
        <5>1. Count(h, r, K, e) \in Nat /\ h.ent[e].refs \in Int
          BY CountTypes, HeapParts
        <5>2. CASE e = x
          BY <2>3, <2>4, <5>1, <5>2 DEF Covers
        <5>3. CASE e # x
          BY <2>2, <5>1, <5>3 DEF Covers
        <5>4. QED
          BY <5>2, <5>3
      <4>4. ASSUME NEW e \in K
            PROVE  less.ent[e].refs >= Count(less, r, K, e) + (IF e = None THEN 1 ELSE 0)
        <5>1. e # None
          BY Constants
        <5>2. Count(h, r, K, e) \in Nat
          BY CountTypes
        <5>3. QED
          BY <4>2, <4>3, <5>1, <5>2
      <4>5. QED
        BY <4>1, <4>4 DEF Covers
    <3>3. Same(h, less, K)
      BY <2>5 DEF Same
    <3>4. QED
      BY <2>2, <2>6, <3>1, <3>2, <3>3
  <2>8. CASE less.ent[x].refs = 0
    <3>1. h.ent[x].refs = 1
      BY <2>3, <2>4, <2>8
    <3> DEFINE M == K \ {x}
    <3>2. /\ InUse(h, r, M)
          /\ h.ent[x].link \in M \cup {None}
          /\ \A e \in M : h.ent[e].refs >= Count(h, r, M, e)
                                             + (IF e = h.ent[x].link THEN 1 ELSE 0)
      BY <2>1, <3>1, LastGone
    <3>3. M \in SUBSET Ents /\ M \in SUBSET K /\ x \notin M
      OBVIOUS
    <3>4. Covers(h, r, M, h.ent[x].link)
      BY <3>2 DEF Covers
    <3> HIDE DEF M
    <3>5. CASE n = 0
      <4>1. g = Wreck(less, x)
        BY <1>1, <1>3, <2>8, <3>5
      <4>2. /\ g \in Heaps /\ Sound(g)
            /\ \A d \in Range(less.list) :
                 d # x => d \in Range(g.list) /\ g.ent[d] = less.ent[d]
        BY <2>1, <2>2, <2>6, <4>1, WreckSound
      <4> HIDE DEF g
      <4>3. M \subseteq Range(g.list) /\ \A e \in M : g.ent[e] = h.ent[e]
        BY <2>2, <3>2, <3>3, <4>2 DEF InUse
      <4>4. Covers(g, r, M, h.ent[x].link)
        BY <3>3, <3>4, <4>3, CoversSame
      <4>5. Covers(g, r, M, None)
        <5>1. ASSUME NEW e \in M
              PROVE  g.ent[e].refs >= Count(g, r, M, e) + (IF e = None THEN 1 ELSE 0)
          <6>1. e # None /\ g.ent[e].refs \in Int /\ Count(g, r, M, e) \in Nat
            BY <3>3, <4>2, Constants, HeapParts, CountTypes
          <6>2. QED
            BY <4>4, <6>1 DEF Covers
        <5>2. QED
          BY <4>4, <5>1 DEF Covers
      <4>6. Same(h, g, M)
        BY <4>3 DEF Same
      <4>7. QED
        BY <3>3, <4>2, <4>5, <4>6 DEF g
    <3>6. CASE n # 0
      <4> DEFINE gone == Scrap(less, x)
                 y == h.ent[x].link
                 q == Release[n - 1][y][gone]
      <4>1. g = Wreck(q, x)
        BY <1>1, <1>3, <2>1, <2>8, <3>6
      <4>2. /\ gone \in Heaps
            /\ gone.list = h.list
            /\ gone.ent[x] = [less.ent[x] EXCEPT !.mark = "asleep", !.link = None]
            /\ \A d \in Ents \ {x} : gone.ent[d] = h.ent[d]
        <5>1. /\ gone \in Heaps
              /\ gone.list = less.list
              /\ gone.ent[x] = [less.ent[x] EXCEPT !.mark = "asleep", !.link = None]
              /\ \A d \in Ents \ {x} : gone.ent[d] = less.ent[d]
          BY <2>1, <2>2, ScrapFacts
        <5> HIDE DEF gone
        <5>2. QED
          BY <2>2, <5>1
      <4> HIDE DEF gone
      <4>3. gone.ent[x].refs = 0
        <5>1. less.ent[x] \in Entities
          BY <2>1, <2>2, HeapParts
        <5>2. QED
          BY <2>8, <4>2, <5>1 DEF Entities
      <4>4. Sound(gone)
        <5>1. \A d \in Ents : h.ent[d].refs >= 0
          BY DEF Sound
        <5>2. \A d \in Ents \ {x} : gone.ent[d].refs >= 0
          BY <4>2, <5>1
        <5>3. \A d \in Ents : gone.ent[d].refs >= 0
          BY <4>3, <5>2
        <5>4. QED
          BY <4>2, <5>3 DEF Sound
      <4>5. M \subseteq Range(gone.list) /\ \A e \in M : gone.ent[e] = h.ent[e]
        BY <3>2, <3>3, <4>2 DEF InUse
      <4>6. Covers(gone, r, M, y)
        BY <3>3, <3>4, <4>5, CoversSame
      <4>7. y \in Values /\ y \in M \cup {None}
        BY <3>2, <3>3 DEF Values
      <4> HIDE DEF y
      <4>8. /\ q \in Heaps /\ Sound(q)
            /\ \E L \in SUBSET M : Covers(q, r, L, None) /\ Same(gone, q, L)
        BY <3>3, <3>6, <4>2, <4>4, <4>6, <4>7 DEF Releasing
      <4>9. PICK L \in SUBSET M : Covers(q, r, L, None) /\ Same(gone, q, L)
        BY <4>8
      <4> HIDE DEF q
      <4>10. /\ g \in Heaps /\ Sound(g)
             /\ \A d \in Range(q.list) :
                  d # x => d \in Range(g.list) /\ g.ent[d] = q.ent[d]
        BY <2>1, <4>1, <4>8, WreckSound
      <4> HIDE DEF g
      <4>11. L \subseteq Range(g.list) /\ \A e \in L : g.ent[e] = q.ent[e]
        BY <3>3, <4>9, <4>10 DEF Covers, InUse
      <4>12. Covers(g, r, L, None)
        BY <3>3, <4>9, <4>11, CoversSame
      <4>13. Same(h, g, L)
        BY <4>5, <4>9, <4>11 DEF Same
      <4>14. L \in SUBSET K
        BY <3>3
      <4>15. QED
        BY <4>10, <4>12, <4>13, <4>14 DEF g
    <3>7. QED
      BY <3>5, <3>6
  <2>9. QED
    BY <2>7, <2>8
<1>4. QED
  BY <1>2, <1>3

LEMMA ReleaseFacts ==
  \A n \in 0..Recurse : Releasing(n)
<1> DEFINE A == {n \in 0..Recurse : Releasing(n)}
<1>1. Recurse \in Nat
  BY Constants
<1>2. 0 \in A
  BY <1>1, ReleasingLevel
<1>3. ASSUME NEW n \in 1..Recurse, n - 1 \in A
      PROVE  n \in A
  BY <1>1, <1>3, ReleasingLevel
<1> HIDE DEF A
<1>4. \A n \in 0..Recurse : n \in A
  BY <1>1, <1>2, <1>3, UpTo
<1>5. QED
  BY <1>4 DEF A

-----------------------------------------------------------------------------
(* What is left of the chain after a collection.                             *)

IsSublist(g, s, S) ==
  g = [i \in 0..Len(s) |->
         IF i = 0 THEN << >>
         ELSE IF s[i] \in S THEN Append(g[i - 1], s[i]) ELSE g[i - 1]]

LEMMA SublistIs ==
  ASSUME NEW T, NEW s \in Seq(T), NEW S
  PROVE  \E g \in [0..Len(s) -> Seq(T)] :
           /\ Sublist(s, S) = g[Len(s)]
           /\ g[0] = << >>
           /\ \A i \in 1..Len(s) :
                g[i] = IF s[i] \in S THEN Append(g[i - 1], s[i]) ELSE g[i - 1]
<1> DEFINE n == Len(s)
           step == [p \in (1..n) \X Seq(T) |->
                      IF s[p[1]] \in S THEN Append(p[2], s[p[1]]) ELSE p[2]]
<1>1. n \in Nat /\ \A i \in 1..n : s[i] \in T
  BY LenProperties, ElementOfSeq
<1>2. << >> \in Seq(T)
  BY EmptySeq
<1>3. \A i \in 1..n, t \in Seq(T) : Append(t, s[i]) \in Seq(T)
  BY <1>1, AppendProperties
<1>4. step \in [(1..n) \X Seq(T) -> Seq(T)]
  BY <1>3
<1>5. \A i \in 1..n, t \in Seq(T) :
        step[<<i, t>>] = IF s[i] \in S THEN Append(t, s[i]) ELSE t
  OBVIOUS
<1> HIDE DEF n, step
<1>6. PICK g \in [0..n -> Seq(T)] : Runs(g, n, << >>, step)
  BY <1>1, <1>2, <1>4, Recursion
<1> DEFINE r(f) == [i \in 0..n |->
                      IF i = 0 THEN << >>
                      ELSE IF s[i] \in S THEN Append(f[i - 1], s[i]) ELSE f[i - 1]]
<1>7. ASSUME NEW i \in 0..n
      PROVE  g[i] = r(g)[i]
  <2>1. CASE i = 0
    BY <1>6, <2>1 DEF Runs
  <2>2. CASE i # 0
    <3>1. i \in 1..n /\ i - 1 \in 0..n
      BY <1>1, <2>2
    <3>2. QED
      BY <1>5, <1>6, <2>2, <3>1 DEF Runs
  <2>3. QED
    BY <2>1, <2>2
<1>8. g = r(g)
  BY <1>7
<1> DEFINE f == CHOOSE f : IsSublist(f, s, S)
<1>9. Sublist(s, S) = f[n]
  BY DEF Sublist, IsSublist, n
<1>10. IsSublist(f, s, S)
  <2>1. IsSublist(g, s, S)
    BY <1>8 DEF IsSublist, n
  <2>2. QED
    BY <2>1
<1> HIDE DEF f
<1>11. f[0] = << >> /\ \A i \in 1..n :
         f[i] = IF s[i] \in S THEN Append(f[i - 1], s[i]) ELSE f[i - 1]
  <2>1. f = [i \in 0..n |->
               IF i = 0 THEN << >>
               ELSE IF s[i] \in S THEN Append(f[i - 1], s[i]) ELSE f[i - 1]]
    BY <1>10 DEF IsSublist, n
  <2>2. 0 \in 0..n
    BY <1>1
  <2>3. f[0] = << >>
    BY <2>1, <2>2, Zenon
  <2>4. ASSUME NEW i \in 1..n
        PROVE  f[i] = IF s[i] \in S THEN Append(f[i - 1], s[i]) ELSE f[i - 1]
    <3>1. i \in 0..n /\ i # 0
      BY <1>1
    <3>2. QED
      BY <2>1, <3>1, Zenon
  <2>5. QED
    BY <2>3, <2>4
<1> DEFINE A == {i \in 0..n : f[i] \in Seq(T)}
<1>12. 0 \in A
  <2>1. 0 \in 0..n /\ f[0] \in Seq(T)
    BY <1>1, <1>2, <1>11
  <2>2. QED
    BY <2>1
<1>13. ASSUME NEW i \in 1..n, i - 1 \in A
       PROVE  i \in A
  <2>1. i \in 0..n /\ f[i - 1] \in Seq(T)
    BY <1>1, <1>13
  <2>2. Append(f[i - 1], s[i]) \in Seq(T)
    BY <1>3, <2>1
  <2>3. f[i] = IF s[i] \in S THEN Append(f[i - 1], s[i]) ELSE f[i - 1]
    BY <1>11
  <2>4. f[i] \in Seq(T)
    BY <2>1, <2>2, <2>3
  <2>5. QED
    BY <2>1, <2>4
<1> HIDE DEF A
<1>14. \A i \in 0..n : i \in A
  BY <1>1, <1>12, <1>13, UpTo
<1>15. f \in [0..n -> Seq(T)]
  BY <1>10, <1>14 DEF A, IsSublist, n
<1>16. QED
  BY <1>9, <1>11, <1>15 DEF n

LEMMA AppendOnce ==
  ASSUME NEW T, NEW t \in Seq(T), NEW e \in T
  PROVE  /\ Append(t, e) \in Seq(T)
         /\ Range(Append(t, e)) = Range(t) \cup {e}
         /\ IsInjective(t) /\ e \notin Range(t) => IsInjective(Append(t, e))
<1> DEFINE u == Append(t, e)
<1>1. Len(t) \in Nat /\ DOMAIN t = 1..Len(t)
  BY LenProperties
<1>2. /\ u \in Seq(T) /\ Len(u) = Len(t) + 1 /\ u[Len(t) + 1] = e
      /\ \A i \in 1..Len(t) : u[i] = t[i]
  BY AppendProperties
<1> HIDE DEF u
<1>3. DOMAIN u = 1..(Len(t) + 1)
  BY <1>2, LenProperties
<1>4. \A i \in 1..(Len(t) + 1) : i = Len(t) + 1 \/ i \in 1..Len(t)
  BY <1>1
<1>5. Range(u) = Range(t) \cup {e}
  <2>1. \A x \in Range(u) : x \in Range(t) \cup {e}
    BY <1>1, <1>2, <1>3, <1>4 DEF Range
  <2>2. \A i \in 1..Len(t) : t[i] \in Range(u)
    BY <1>1, <1>2, <1>3 DEF Range
  <2>3. e \in Range(u)
    BY <1>1, <1>2, <1>3 DEF Range
  <2>4. QED
    BY <1>1, <2>1, <2>2, <2>3 DEF Range
<1>6. ASSUME IsInjective(t), e \notin Range(t)
      PROVE  IsInjective(u)
  <2>1. \A i, j \in 1..Len(t) : t[i] = t[j] => i = j
    BY <1>1, <1>6 DEF IsInjective
  <2>2. \A i \in 1..Len(t) : t[i] # e
    BY <1>1, <1>6 DEF Range
  <2>3. ASSUME NEW i \in 1..(Len(t) + 1), NEW j \in 1..(Len(t) + 1), u[i] = u[j]
        PROVE  i = j
    BY <1>2, <1>4, <2>1, <2>2, <2>3
  <2>4. QED
    BY <1>3, <2>3 DEF IsInjective
<1>7. QED
  BY <1>2, <1>5, <1>6 DEF u

LEMMA SublistFacts ==
  ASSUME NEW T, NEW s \in Seq(T), NEW S, IsInjective(s)
  PROVE  /\ Sublist(s, S) \in Seq(T)
         /\ Range(Sublist(s, S)) = Range(s) \cap S
         /\ IsInjective(Sublist(s, S))
<1> DEFINE n == Len(s)
<1>1. n \in Nat /\ DOMAIN s = 1..n /\ \A i \in 1..n : s[i] \in T
  BY LenProperties, ElementOfSeq
<1>2. PICK g \in [0..n -> Seq(T)] :
        /\ Sublist(s, S) = g[n]
        /\ g[0] = << >>
        /\ \A i \in 1..n : g[i] = IF s[i] \in S THEN Append(g[i - 1], s[i]) ELSE g[i - 1]
  BY SublistIs, SMTT(30)
<1> HIDE DEF n
<1> DEFINE Had(i) == {s[j] : j \in 1..i}
           A == {i \in 0..n : Range(g[i]) = Had(i) \cap S /\ IsInjective(g[i])}
<1>3. 0 \in A
  <2>1. Range(<< >>) = {} /\ IsInjective(<< >>)
    BY DEF Range, IsInjective
  <2>2. Had(0) = {}
    OBVIOUS
  <2>3. QED
    BY <1>1, <1>2, <2>1, <2>2
<1>4. ASSUME NEW i \in 1..n, i - 1 \in A
      PROVE  i \in A
  <2>1. g[i - 1] \in Seq(T) /\ s[i] \in T /\ i \in 0..n
    BY <1>1
  <2>2. Range(g[i - 1]) = Had(i - 1) \cap S /\ IsInjective(g[i - 1])
    BY <1>4
  <2>3. Had(i) = Had(i - 1) \cup {s[i]}
    <3>1. \A j \in 1..i : j = i \/ j \in 1..(i - 1)
      BY <1>1
    <3>2. i \in 1..i /\ \A j \in 1..(i - 1) : j \in 1..i
      BY <1>1
    <3>3. QED
      BY <3>1, <3>2
  <2>4. s[i] \notin Had(i - 1)
    <3>1. \A j \in 1..(i - 1) : j \in 1..n /\ j # i
      BY <1>1
    <3>2. QED
      BY <1>1, <3>1 DEF IsInjective
  <2> HIDE DEF Had
  <2>5. CASE s[i] \in S
    <3>1. g[i] = Append(g[i - 1], s[i])
      BY <1>2, <2>5
    <3> DEFINE t == g[i - 1]
               x == s[i]
    <3> HIDE DEF t, x
    <3>2. t \in Seq(T) /\ x \in T
      BY <2>1 DEF t, x
    <3>3. /\ Range(Append(t, x)) = Range(t) \cup {x}
          /\ IsInjective(t) /\ x \notin Range(t) => IsInjective(Append(t, x))
      BY <3>2, AppendOnce
    <3>4. Range(t) = Had(i - 1) \cap S /\ IsInjective(t) /\ x \notin Had(i - 1)
      BY <2>2, <2>4 DEF t, x
    <3>5. Range(g[i]) = Had(i) \cap S /\ IsInjective(g[i])
      BY <2>3, <2>5, <3>1, <3>3, <3>4 DEF t, x
    <3>6. QED
      BY <2>1, <3>5
  <2>6. CASE s[i] \notin S
    <3>1. g[i] = g[i - 1]
      BY <1>2, <2>6
    <3>2. QED
      BY <2>1, <2>2, <2>3, <2>6, <3>1
  <2>7. QED
    BY <2>5, <2>6
<1>5. \A i \in 0..n : i \in A
  <2> HIDE DEF A
  <2>1. QED
    BY <1>1, <1>3, <1>4, UpTo
<1>6. n \in A
  BY <1>1, <1>5
<1>7. Range(s) = Had(n)
  BY <1>1 DEF Range
<1>8. g[n] \in Seq(T)
  BY <1>1
<1>9. QED
  BY <1>2, <1>6, <1>7, <1>8

-----------------------------------------------------------------------------
(* Marking.  K is what is in use; x is about to be visited.                  *)

Lit(m, e) == m.mark[e] \in {"yellow", "green"}
Yellows(m) == {e \in Ents : m.mark[e] = "yellow"}
Greens(m) == {e \in Ents : m.mark[e] = "green"}

Open(K) == \A e \in K : heap.ent[e].link \in K \cup {None}

(* Only what is in use is marked, what a green entity leads to is marked, or *)
(* is x, and y counts the yellow entities.                                   *)
Marking(m, x, K) ==
  /\ m \in Markings
  /\ \A e \in Ents : Lit(m, e) => e \in K
  /\ \A e \in K : m.mark[e] # "asleep"
  /\ \A e \in K : m.mark[e] = "green" =>
       LET c == heap.ent[e].link IN c = None \/ c = x \/ Lit(m, c)
  /\ m.y = Cardinality(Yellows(m))

(* Marks are not taken back.                                                 *)
Onward(m, p) == /\ \A e \in Ents : Lit(m, e) => Lit(p, e)
                /\ Greens(m) \subseteq Greens(p)

LEMMA MarkingParts ==
  ASSUME NEW m \in Markings
  PROVE  /\ m.mark \in [Ents -> Colours] /\ m.y \in Int
         /\ IsFiniteSet(Yellows(m)) /\ IsFiniteSet(Greens(m))
<1>1. Yellows(m) \subseteq Ents /\ Greens(m) \subseteq Ents
  BY DEF Yellows, Greens
<1>2. QED
  BY <1>1, SlotsFinite, FS_Subset DEF Markings

(* One entity changes its colour.                                            *)
LEMMA Painted ==
  ASSUME NEW m \in Markings, NEW x \in Ents, NEW c \in {"yellow", "green"}, NEW p,
         p = [mark |-> [m.mark EXCEPT ![x] = c],
              y |-> m.y + (IF c = "yellow" THEN 1 ELSE 0)
                        - (IF m.mark[x] = "yellow" THEN 1 ELSE 0)],
         m.y = Cardinality(Yellows(m)), m.mark[x] # "green"
  PROVE  /\ p \in Markings
         /\ p.mark[x] = c
         /\ \A e \in Ents \ {x} : p.mark[e] = m.mark[e]
         /\ p.y = Cardinality(Yellows(p))
         /\ Onward(m, p)
<1>1. m.mark \in [Ents -> Colours] /\ m.y \in Int /\ IsFiniteSet(Yellows(m))
  BY MarkingParts
<1> DEFINE t == [m.mark EXCEPT ![x] = c]
           z == m.y + (IF c = "yellow" THEN 1 ELSE 0)
                    - (IF m.mark[x] = "yellow" THEN 1 ELSE 0)
<1>2. t \in [Ents -> Colours] /\ t[x] = c /\ \A e \in Ents \ {x} : t[e] = m.mark[e]
  BY <1>1 DEF Colours
<1>3. z \in Int
  BY <1>1
<1>4. p.mark = t /\ p.y = z
  OBVIOUS
<1>5. p \in Markings
  BY <1>2, <1>3 DEF Markings
<1>6. z = Cardinality(Yellows(p))
  <2>1. CASE c = "yellow" /\ m.mark[x] = "yellow"
    <3>1. Yellows(p) = Yellows(m)
      BY <1>2, <1>4, <2>1 DEF Yellows
    <3>2. QED
      BY <1>1, <2>1, <3>1
  <2>2. CASE c = "yellow" /\ m.mark[x] # "yellow"
    <3>1. x \notin Yellows(m) /\ Yellows(p) = Yellows(m) \cup {x}
      BY <1>2, <1>4, <2>2 DEF Yellows
    <3>2. Cardinality(Yellows(p)) = Cardinality(Yellows(m)) + 1
      BY <1>1, <3>1, AddOne
    <3>3. QED
      BY <1>1, <2>2, <3>2
  <2>3. CASE c = "green" /\ m.mark[x] = "yellow"
    <3>1. x \in Yellows(m) /\ Yellows(p) = Yellows(m) \ {x}
      BY <1>2, <1>4, <2>3 DEF Yellows
    <3>2. Cardinality(Yellows(p)) = Cardinality(Yellows(m)) - 1
      BY <1>1, <3>1, RemoveOne
    <3>3. QED
      BY <1>1, <2>3, <3>2
  <2>4. CASE c = "green" /\ m.mark[x] # "yellow"
    <3>1. Yellows(p) = Yellows(m)
      BY <1>2, <1>4, <2>4 DEF Yellows
    <3>2. QED
      BY <1>1, <2>4, <3>1
  <2>5. QED
    BY <2>1, <2>2, <2>3, <2>4
<1>7. Onward(m, p)
  BY <1>2, <1>4 DEF Onward, Lit, Greens
<1> HIDE DEF t, z
<1>8. QED
  BY <1>2, <1>4, <1>5, <1>6, <1>7

LEMMA VisitFacts ==
  ASSUME NEW K \in SUBSET Ents, NEW x \in K, NEW m, NEW n,
         Open(K), Marking(m, x, K), m.mark[x] # "green"
  PROVE  LET p == Visit(m, x, n)
         IN  /\ n = 0 => Marking(p, None, K)
             /\ n # 0 => Marking(p, heap.ent[x].link, K) /\ p.mark[x] = "green"
             /\ Onward(m, p)
<1> DEFINE p == Visit(m, x, n)
           c == IF n = 0 THEN "yellow" ELSE "green"
           q == [mark |-> [m.mark EXCEPT ![x] = c],
                 y |-> m.y + (IF c = "yellow" THEN 1 ELSE 0)
                           - (IF m.mark[x] = "yellow" THEN 1 ELSE 0)]
<1>1. /\ m \in Markings /\ m.mark \in [Ents -> Colours] /\ m.y \in Int
      /\ m = [mark |-> m.mark, y |-> m.y]
  BY MarkingParts DEF Marking, Markings
<1>2. x \in Ents /\ x # None
  BY Constants
<1>3. m.mark[x] = "red" \/ m.mark[x] = "yellow"
  BY <1>1, <1>2 DEF Marking, Colours
<1>4. p = q
  <2>1. CASE m.mark[x] = "red"
    <3>1. RootMark(m, x) = [mark |-> [m.mark EXCEPT ![x] = "yellow"], y |-> m.y + 1]
      BY <1>2, <2>1 DEF RootMark
    <3>2. [m.mark EXCEPT ![x] = "yellow"][x] = "yellow"
      BY <1>1, <1>2
    <3>3. [[m.mark EXCEPT ![x] = "yellow"] EXCEPT ![x] = "green"]
            = [m.mark EXCEPT ![x] = "green"]
      BY <1>1, <1>2
    <3>4. CASE n = 0
      BY <1>1, <2>1, <3>1, <3>4 DEF Visit
    <3>5. CASE n # 0
      <4>1. p = [mark |-> [[m.mark EXCEPT ![x] = "yellow"] EXCEPT ![x] = "green"],
                 y |-> (m.y + 1) - 1]
        BY <3>1, <3>2, <3>5 DEF Visit
      <4>2. QED
        BY <1>1, <2>1, <3>3, <3>5, <4>1
    <3>6. QED
      BY <3>4, <3>5
  <2>2. CASE m.mark[x] = "yellow"
    <3>1. RootMark(m, x) = m
      BY <2>2 DEF RootMark
    <3>2. CASE n = 0
      <4>1. p = m
        BY <3>1, <3>2 DEF Visit
      <4>2. [m.mark EXCEPT ![x] = "yellow"] = m.mark
        BY <1>1, <1>2, <2>2
      <4>3. m.y + 1 - 1 = m.y
        BY <1>1
      <4>4. QED
        BY <1>1, <2>2, <3>2, <4>1, <4>2, <4>3
    <3>3. CASE n # 0
      <4>1. p = [mark |-> [m.mark EXCEPT ![x] = "green"], y |-> m.y - 1]
        BY <2>2, <3>1, <3>3 DEF Visit
      <4>2. m.y + 0 - 1 = m.y - 1
        BY <1>1
      <4>3. QED
        BY <2>2, <3>3, <4>1, <4>2
    <3>4. QED
      BY <3>2, <3>3
  <2>3. QED
    BY <1>3, <2>1, <2>2
<1>5. c \in {"yellow", "green"} /\ (n = 0 => c = "yellow") /\ (n # 0 => c = "green")
  OBVIOUS
<1> HIDE DEF c
<1>6. /\ q \in Markings
      /\ q.mark[x] = c
      /\ \A e \in Ents \ {x} : q.mark[e] = m.mark[e]
      /\ q.y = Cardinality(Yellows(q))
      /\ Onward(m, q)
  BY <1>1, <1>5, Painted DEF Marking
<1> HIDE DEF q, p
<1>7. \A e \in Ents : Lit(q, e) => e \in K
  BY <1>6 DEF Marking, Lit
<1>8. \A e \in K : q.mark[e] # "asleep"
  BY <1>5, <1>6 DEF Marking
<1>9. Lit(q, x) /\ \A e \in Ents : Lit(m, e) => Lit(q, e)
  BY <1>5, <1>6 DEF Lit, Onward
<1>10. ASSUME NEW e \in K, e # x, q.mark[e] = "green"
       PROVE  heap.ent[e].link = None \/ Lit(q, heap.ent[e].link)
  <2>1. m.mark[e] = "green"
    BY <1>6, <1>10
  <2>2. \/ heap.ent[e].link = None \/ heap.ent[e].link = x
        \/ Lit(m, heap.ent[e].link)
    BY <2>1 DEF Marking
  <2>3. heap.ent[e].link \in K \cup {None}
    BY DEF Open
  <2>4. QED
    BY <1>9, <2>2, <2>3
<1>11. ASSUME n = 0
       PROVE  Marking(q, None, K)
  BY <1>5, <1>6, <1>7, <1>8, <1>10, <1>11 DEF Marking
<1>12. ASSUME n # 0
       PROVE  Marking(q, heap.ent[x].link, K) /\ q.mark[x] = "green"
  BY <1>5, <1>6, <1>7, <1>8, <1>10, <1>12 DEF Marking
<1>13. QED
  BY <1>4, <1>6, <1>11, <1>12 DEF p

LEMMA VisitType ==
  ASSUME NEW m \in Markings, NEW x \in Ents, NEW n
  PROVE  Visit(m, x, n) \in Markings
<1>1. m.mark \in [Ents -> Colours] /\ m.y \in Int
  BY MarkingParts
<1> DEFINE seen == RootMark(m, x)
<1>2. seen \in Markings
  <2>1. [m.mark EXCEPT ![x] = "yellow"] \in [Ents -> Colours] /\ m.y + 1 \in Int
    BY <1>1 DEF Colours
  <2>2. QED
    BY <2>1 DEF RootMark, Markings
<1> HIDE DEF seen
<1>3. [seen.mark EXCEPT ![x] = "green"] \in [Ents -> Colours] /\ seen.y - 1 \in Int
  <2>1. seen.mark \in [Ents -> Colours] /\ seen.y \in Int
    BY <1>2, MarkingParts
  <2>2. QED
    BY <2>1 DEF Colours
<1>4. QED
  BY <1>2, <1>3 DEF Visit, Markings, seen

MarkLevel(n, below) ==
  [e \in Values |-> [m \in Markings |->
    IF e = None THEN m
    ELSE IF m.mark[e] = "green" THEN m
    ELSE IF n = 0 THEN Visit(m, e, 0)
    ELSE below[heap.ent[e].link][Visit(m, e, n)]]]

Markers == [Values -> [Markings -> Markings]]

LEMMA MarkLevelType ==
  ASSUME heap \in Heaps, NEW n, NEW below, n = 0 \/ below \in Markers
  PROVE  MarkLevel(n, below) \in Markers
<1>1. ASSUME NEW e \in Values, NEW m \in Markings
      PROVE  (IF e = None THEN m
              ELSE IF m.mark[e] = "green" THEN m
              ELSE IF n = 0 THEN Visit(m, e, 0)
              ELSE below[heap.ent[e].link][Visit(m, e, n)]) \in Markings
  <2>1. CASE e = None
    BY <2>1
  <2>2. CASE e # None
    <3>1. e \in Ents
      BY <2>2 DEF Values
    <3>2. Visit(m, e, 0) \in Markings /\ Visit(m, e, n) \in Markings
      BY <3>1, VisitType
    <3>3. heap.ent[e].link \in Values
      BY <3>1, HeapParts
    <3>4. n # 0 => below[heap.ent[e].link][Visit(m, e, n)] \in Markings
      BY <3>2, <3>3 DEF Markers
    <3>5. QED
      BY <3>2, <3>4
  <2>3. QED
    BY <2>1, <2>2
<1>2. QED
  BY <1>1 DEF MarkLevel, Markers

IsMarkEnt(f) == f = [n \in 0..MarkDepth |-> MarkLevel(n, f[n - 1])]

LEMMA MarkEntIs ==
  ASSUME heap \in Heaps
  PROVE  /\ MarkEnt \in [0..MarkDepth -> Markers]
         /\ \A n \in 0..MarkDepth : MarkEnt[n] = MarkLevel(n, MarkEnt[n - 1])
<1> DEFINE start == MarkLevel(0, << >>)
           step == [p \in (1..MarkDepth) \X Markers |-> MarkLevel(p[1], p[2])]
<1>1. MarkDepth \in Nat
  BY Constants
<1>2. start \in Markers
  BY MarkLevelType
<1>3. step \in [(1..MarkDepth) \X Markers -> Markers]
  BY MarkLevelType
<1>4. \A i \in 1..MarkDepth, r \in Markers : step[<<i, r>>] = MarkLevel(i, r)
  OBVIOUS
<1>5. \A r, q : MarkLevel(0, r) = MarkLevel(0, q)
  BY DEF MarkLevel
<1>6. start = MarkLevel(0, << >>)
  OBVIOUS
<1> HIDE DEF start, step
<1>7. PICK f \in [0..MarkDepth -> Markers] : Runs(f, MarkDepth, start, step)
  BY <1>1, <1>2, <1>3, Recursion
<1> DEFINE r == [n \in 0..MarkDepth |-> MarkLevel(n, f[n - 1])]
<1>8. ASSUME NEW n \in 0..MarkDepth
      PROVE  f[n] = MarkLevel(n, f[n - 1])
  <2>1. CASE n = 0
    <3>1. f[0] = MarkLevel(0, << >>)
      BY <1>6, <1>7 DEF Runs
    <3>2. QED
      BY <1>5, <2>1, <3>1
  <2>2. CASE n # 0
    <3>1. n \in 1..MarkDepth /\ n - 1 \in 0..MarkDepth
      BY <1>1, <2>2
    <3>2. QED
      BY <1>4, <1>7, <3>1 DEF Runs
  <2>3. QED
    BY <2>1, <2>2
<1>9. f = r
  BY <1>8
<1>10. IsMarkEnt(f)
  BY <1>9 DEF IsMarkEnt
<1>11. MarkEnt = CHOOSE g : IsMarkEnt(g)
  BY DEF MarkEnt, IsMarkEnt, MarkLevel
<1>12. IsMarkEnt(MarkEnt)
  BY <1>10, <1>11
<1> DEFINE A == {n \in 0..MarkDepth : MarkEnt[n] \in Markers}
<1>13. \A n \in 0..MarkDepth : MarkEnt[n] = MarkLevel(n, MarkEnt[n - 1])
  BY <1>12 DEF IsMarkEnt
<1>14. 0 \in A
  BY <1>1, <1>13, MarkLevelType
<1>15. ASSUME NEW n \in 1..MarkDepth, n - 1 \in A
       PROVE  n \in A
  BY <1>13, <1>15, MarkLevelType
<1> HIDE DEF A
<1>16. \A n \in 0..MarkDepth : n \in A
  BY <1>1, <1>14, <1>15, UpTo
<1>17. \E u : MarkEnt = [n \in 0..MarkDepth |-> u[n]]
  BY <1>12 DEF IsMarkEnt
<1>18. MarkEnt \in [0..MarkDepth -> Markers]
  BY <1>16, <1>17 DEF A
<1>19. QED
  BY <1>13, <1>18

LEMMA OnwardChain ==
  ASSUME NEW m, NEW p, NEW q, Onward(m, p), Onward(p, q)
  PROVE  Onward(m, q)
  BY DEF Onward

(* What marking x does, with n levels left.                                  *)
Visiting(n) ==
  \A K \in SUBSET Ents : \A x \in K \cup {None} : \A m :
    Open(K) /\ Marking(m, x, K) =>
      LET p == MarkEnt[n][x][m]
      IN  /\ Marking(p, None, K) /\ Onward(m, p)
          /\ n # 0 /\ x # None => p.mark[x] = "green"

LEMMA VisitingLevel ==
  ASSUME heap \in Heaps, NEW n \in 0..MarkDepth, n # 0 => Visiting(n - 1)
  PROVE  Visiting(n)
<1> SUFFICES ASSUME NEW K \in SUBSET Ents, NEW x \in K \cup {None}, NEW m,
                    Open(K), Marking(m, x, K)
             PROVE  LET p == MarkEnt[n][x][m]
                    IN  /\ Marking(p, None, K) /\ Onward(m, p)
                        /\ n # 0 /\ x # None => p.mark[x] = "green"
  BY DEF Visiting
<1> DEFINE p == MarkEnt[n][x][m]
<1>1. m \in Markings /\ x \in Values
  BY DEF Marking, Values
<1>2. p = (IF x = None THEN m
           ELSE IF m.mark[x] = "green" THEN m
           ELSE IF n = 0 THEN Visit(m, x, 0)
           ELSE MarkEnt[n - 1][heap.ent[x].link][Visit(m, x, n)])
  BY <1>1, MarkEntIs DEF MarkLevel
<1> HIDE DEF p
<1>3. Onward(m, m)
  BY DEF Onward
<1>4. CASE x = None
  BY <1>2, <1>3, <1>4 DEF p
<1>5. CASE x # None /\ m.mark[x] = "green"
  <2>1. p = m
    BY <1>2, <1>5
  <2>2. Lit(m, x)
    BY <1>5 DEF Lit
  <2>3. Marking(m, None, K)
    BY <2>2 DEF Marking
  <2>4. QED
    BY <1>3, <1>5, <2>1, <2>3 DEF p
<1>6. CASE x # None /\ m.mark[x] # "green" /\ n = 0
  <2>1. x \in K /\ p = Visit(m, x, n)
    BY <1>2, <1>6
  <2>2. QED
    BY <1>6, <2>1, VisitFacts DEF p
<1>7. CASE x # None /\ m.mark[x] # "green" /\ n # 0
  <2> DEFINE q == Visit(m, x, n)
             y == heap.ent[x].link
  <2>1. x \in K /\ p = MarkEnt[n - 1][y][q]
    BY <1>2, <1>7
  <2>2. Marking(q, y, K) /\ q.mark[x] = "green" /\ Onward(m, q)
    BY <1>7, <2>1, VisitFacts
  <2>3. y \in K \cup {None}
    BY <2>1 DEF Open
  <2> HIDE DEF q, y
  <2>4. Marking(p, None, K) /\ Onward(q, p)
    BY <1>7, <2>1, <2>2, <2>3 DEF Visiting
  <2>5. p.mark[x] = "green"
    BY <2>1, <2>2, <2>4 DEF Onward, Greens
  <2>6. QED
    BY <2>2, <2>4, <2>5, OnwardChain DEF p
<1>8. QED
  BY <1>4, <1>5, <1>6, <1>7

LEMMA MarkEntFacts ==
  ASSUME heap \in Heaps
  PROVE  \A n \in 0..MarkDepth : Visiting(n)
<1> DEFINE A == {n \in 0..MarkDepth : Visiting(n)}
<1>1. MarkDepth \in Nat
  BY Constants
<1>2. 0 \in A
  BY <1>1, VisitingLevel
<1>3. ASSUME NEW n \in 1..MarkDepth, n - 1 \in A
      PROVE  n \in A
  BY <1>1, <1>3, VisitingLevel
<1> HIDE DEF A
<1>4. \A n \in 0..MarkDepth : n \in A
  BY <1>1, <1>2, <1>3, UpTo
<1>5. QED
  BY <1>4 DEF A

(* A pass over the chain.                                                    *)
PassStep(p, e) == IF p.mark[e] = "yellow" THEN MarkEnt[MarkDepth][e][p] ELSE p

IsPass(g, m) ==
  g = [i \in 0..Len(heap.list) |->
         IF i = 0 THEN m ELSE PassStep(g[i - 1], heap.list[i])]

LEMMA MarkPassIs ==
  ASSUME heap \in Heaps, NEW m \in Markings
  PROVE  \E g \in [0..Len(heap.list) -> Markings] :
           /\ MarkPass(m) = g[Len(heap.list)]
           /\ g[0] = m
           /\ \A i \in 1..Len(heap.list) : g[i] = PassStep(g[i - 1], heap.list[i])
<1> DEFINE n == Len(heap.list)
           step == [p \in (1..n) \X Markings |-> PassStep(p[2], heap.list[p[1]])]
<1>1. n \in Nat /\ \A i \in 1..n : heap.list[i] \in Ents
  BY HeapParts, LenProperties, ElementOfSeq
<1>2. \A e \in Ents, p \in Markings : PassStep(p, e) \in Markings
  <2> TAKE e \in Ents, p \in Markings
  <2>1. MarkDepth \in 0..MarkDepth /\ e \in Values
    BY Constants DEF Values
  <2>2. MarkEnt[MarkDepth] \in Markers
    BY <2>1, MarkEntIs
  <2>3. MarkEnt[MarkDepth][e][p] \in Markings
    BY <2>1, <2>2 DEF Markers
  <2>4. QED
    BY <2>3 DEF PassStep
<1>3. step \in [(1..n) \X Markings -> Markings]
  BY <1>1, <1>2
<1>4. \A i \in 1..n, p \in Markings : step[<<i, p>>] = PassStep(p, heap.list[i])
  OBVIOUS
<1> HIDE DEF n, step
<1>5. PICK g \in [0..n -> Markings] : Runs(g, n, m, step)
  BY <1>1, <1>3, Recursion
<1> DEFINE r(f) == [i \in 0..n |->
                      IF i = 0 THEN m ELSE PassStep(f[i - 1], heap.list[i])]
<1>6. ASSUME NEW i \in 0..n
      PROVE  g[i] = r(g)[i]
  <2>1. CASE i = 0
    BY <1>5, <2>1 DEF Runs
  <2>2. CASE i # 0
    <3>1. i \in 1..n /\ i - 1 \in 0..n
      BY <1>1, <2>2
    <3>2. QED
      BY <1>4, <1>5, <2>2, <3>1 DEF Runs
  <2>3. QED
    BY <2>1, <2>2
<1>7. g = r(g)
  BY <1>6
<1> DEFINE f == CHOOSE f : IsPass(f, m)
<1>8. MarkPass(m) = f[n]
  BY DEF MarkPass, IsPass, PassStep, n
<1>9. IsPass(f, m)
  <2>1. IsPass(g, m)
    BY <1>7 DEF IsPass, n
  <2>2. QED
    BY <2>1
<1> HIDE DEF f
<1>10. f = [i \in 0..n |-> IF i = 0 THEN m ELSE PassStep(f[i - 1], heap.list[i])]
  BY <1>9 DEF IsPass, n
<1>11. f[0] = m
  <2>1. 0 \in 0..n
    BY <1>1
  <2>2. QED
    BY <1>10, <2>1, Zenon
<1>12. ASSUME NEW i \in 1..n
       PROVE  f[i] = PassStep(f[i - 1], heap.list[i])
  <2>1. i \in 0..n /\ i # 0
    BY <1>1
  <2>2. QED
    BY <1>10, <2>1, Zenon
<1> DEFINE A == {i \in 0..n : f[i] \in Markings}
<1>13. 0 \in A
  <2>1. 0 \in 0..n /\ f[0] \in Markings
    BY <1>1, <1>11
  <2>2. QED
    BY <2>1
<1>14. ASSUME NEW i \in 1..n, i - 1 \in A
       PROVE  i \in A
  <2>1. i \in 0..n /\ f[i - 1] \in Markings
    BY <1>1, <1>14
  <2>2. f[i] \in Markings
    BY <1>1, <1>2, <1>12, <2>1
  <2>3. QED
    BY <2>1, <2>2
<1> HIDE DEF A
<1>15. \A i \in 0..n : i \in A
  BY <1>1, <1>13, <1>14, UpTo
<1>16. f \in [0..n -> Markings]
  BY <1>10, <1>15 DEF A
<1>17. QED
  BY <1>8, <1>11, <1>12, <1>16 DEF n

(* It visits whatever was yellow before.                                     *)
LEMMA MarkPassFacts ==
  ASSUME heap \in Heaps, NEW K \in SUBSET Range(heap.list), Open(K),
         NEW m, Marking(m, None, K)
  PROVE  /\ Marking(MarkPass(m), None, K)
         /\ Onward(m, MarkPass(m))
         /\ Yellows(m) \subseteq Greens(MarkPass(m))
<1> DEFINE n == Len(heap.list)
<1>1. /\ n \in Nat /\ DOMAIN heap.list = 1..n
      /\ \A i \in 1..n : heap.list[i] \in Ents
      /\ m \in Markings /\ K \in SUBSET Ents
  BY HeapParts, LenProperties, ElementOfSeq DEF Marking
<1>2. PICK g \in [0..n -> Markings] :
        /\ MarkPass(m) = g[n]
        /\ g[0] = m
        /\ \A i \in 1..n : g[i] = PassStep(g[i - 1], heap.list[i])
  BY <1>1, MarkPassIs
<1> HIDE DEF n
<1> DEFINE A == {i \in 0..n : /\ Marking(g[i], None, K) /\ Onward(m, g[i])
                              /\ \A j \in 1..i : heap.list[j] \in Yellows(m)
                                                   => heap.list[j] \in Greens(g[i])}
<1>3. 0 \in A
  <2>1. Onward(m, m) /\ 0 \in 0..n /\ \A j \in 1..0 : FALSE
    BY <1>1 DEF Onward
  <2>2. QED
    BY <1>2, <2>1
<1>4. ASSUME NEW i \in 1..n, i - 1 \in A
      PROVE  i \in A
  <2> DEFINE p == g[i - 1]
             q == g[i]
             e == heap.list[i]
  <2>1. /\ Marking(p, None, K) /\ Onward(m, p)
        /\ \A j \in 1..(i - 1) : heap.list[j] \in Yellows(m) => heap.list[j] \in Greens(p)
    BY <1>4
  <2>2. i \in 0..n /\ e \in Ents /\ q = PassStep(p, e)
    BY <1>1, <1>2
  <2> HIDE DEF p, q, e
  <2>3. /\ Marking(q, None, K) /\ Onward(p, q)
        /\ e \in Yellows(m) => e \in Greens(q)
    <3>1. CASE p.mark[e] = "yellow"
      <4>1. q = MarkEnt[MarkDepth][e][p]
        BY <2>2, <3>1 DEF PassStep
      <4>2. e \in K /\ e # None
        BY <2>1, <2>2, <3>1, Constants DEF Marking, Lit
      <4>3. Marking(p, e, K)
        BY <2>1 DEF Marking
      <4>4. MarkDepth \in 0..MarkDepth /\ MarkDepth # 0
        BY HeapAssumption
      <4>5. /\ Marking(q, None, K) /\ Onward(p, q) /\ q.mark[e] = "green"
        BY <1>1, <4>1, <4>2, <4>3, <4>4, MarkEntFacts DEF Visiting
      <4>6. QED
        BY <2>2, <4>5 DEF Greens
    <3>2. CASE p.mark[e] # "yellow"
      <4>1. q = p
        BY <2>2, <3>2 DEF PassStep
      <4>2. Onward(p, p)
        BY DEF Onward
      <4>3. e \in Yellows(m) => e \in Greens(p)
        BY <2>1, <2>2, <3>2 DEF Yellows, Greens, Onward, Lit
      <4>4. QED
        BY <2>1, <4>1, <4>2, <4>3
    <3>3. QED
      BY <3>1, <3>2
  <2>4. Onward(m, q)
    BY <2>1, <2>3, OnwardChain
  <2>5. ASSUME NEW j \in 1..i, heap.list[j] \in Yellows(m)
        PROVE  heap.list[j] \in Greens(q)
    <3>1. CASE j = i
      BY <2>3, <2>5, <3>1 DEF e
    <3>2. CASE j # i
      <4>1. j \in 1..(i - 1)
        BY <1>1, <3>2
      <4>2. QED
        BY <2>1, <2>3, <2>5, <4>1 DEF Onward
    <3>3. QED
      BY <3>1, <3>2
  <2>6. QED
    BY <2>2, <2>3, <2>4, <2>5 DEF q
<1>5. n \in A
  <2> HIDE DEF A
  <2>1. \A i \in 0..n : i \in A
    BY <1>1, <1>3, <1>4, UpTo
  <2>2. n \in 0..n
    BY <1>1
  <2>3. QED
    BY <2>1, <2>2
<1>6. ASSUME NEW e \in Yellows(m)
      PROVE  e \in Greens(g[n])
  <2>1. e \in K
    BY <1>6 DEF Marking, Lit, Yellows
  <2>2. PICK j \in 1..n : heap.list[j] = e
    BY <1>1, <2>1 DEF Range
  <2>3. QED
    BY <1>5, <1>6, <2>2
<1>7. QED
  BY <1>2, <1>5, <1>6

(* As many passes as there are entities leave nothing yellow.                *)
LEMMA PassesIs ==
  ASSUME heap \in Heaps, RootMarks \in Markings
  PROVE  /\ Passes[0] = RootMarks
         /\ \A n \in 1..Cardinality(Ents) :
              Passes[n] = IF Passes[n - 1].y = 0 THEN Passes[n - 1]
                          ELSE MarkPass(Passes[n - 1])
<1> DEFINE N == Cardinality(Ents)
           step == [p \in (1..N) \X Markings |->
                      IF p[2].y = 0 THEN p[2] ELSE MarkPass(p[2])]
<1>1. N \in Nat
  BY SlotsFinite, FS_CardinalityType
<1>2. \A p \in Markings : MarkPass(p) \in Markings
  <2> TAKE p \in Markings
  <2>1. PICK g \in [0..Len(heap.list) -> Markings] : MarkPass(p) = g[Len(heap.list)]
    BY MarkPassIs
  <2>2. Len(heap.list) \in 0..Len(heap.list)
    BY HeapParts, LenProperties
  <2>3. QED
    BY <2>1, <2>2
<1>3. step \in [(1..N) \X Markings -> Markings]
  BY <1>2
<1>4. \A i \in 1..N, p \in Markings :
        step[<<i, p>>] = IF p.y = 0 THEN p ELSE MarkPass(p)
  OBVIOUS
<1> HIDE DEF N, step
<1>5. PICK g \in [0..N -> Markings] : Runs(g, N, RootMarks, step)
  BY <1>1, <1>3, Recursion
<1> DEFINE Is(f) == f = [n \in 0..N |->
                           IF n = 0 THEN RootMarks
                           ELSE IF f[n - 1].y = 0 THEN f[n - 1] ELSE MarkPass(f[n - 1])]
           r == [n \in 0..N |->
                   IF n = 0 THEN RootMarks
                   ELSE IF g[n - 1].y = 0 THEN g[n - 1] ELSE MarkPass(g[n - 1])]
<1>6. ASSUME NEW i \in 0..N
      PROVE  g[i] = r[i]
  <2>1. CASE i = 0
    BY <1>5, <2>1 DEF Runs
  <2>2. CASE i # 0
    <3>1. i \in 1..N /\ i - 1 \in 0..N
      BY <1>1, <2>2
    <3>2. g[i - 1] \in Markings /\ g[i] = step[<<i, g[i - 1]>>]
      BY <1>5, <3>1 DEF Runs
    <3>3. QED
      BY <1>4, <2>2, <3>1, <3>2
  <2>3. QED
    BY <2>1, <2>2
<1>7. Is(g)
  BY <1>6
<1>8. Passes = CHOOSE f : Is(f)
  BY DEF Passes, N
<1>9. Is(Passes)
  <2> HIDE DEF Is
  <2>1. QED
    BY <1>7, <1>8
<1>10. Passes[0] = RootMarks
  <2>1. 0 \in 0..N
    BY <1>1
  <2>2. QED
    BY <1>9, <2>1, Zenon
<1>11. ASSUME NEW i \in 1..N
       PROVE  Passes[i] = IF Passes[i - 1].y = 0 THEN Passes[i - 1]
                          ELSE MarkPass(Passes[i - 1])
  <2>1. i \in 0..N /\ i # 0
    BY <1>1
  <2>2. QED
    BY <1>9, <2>1, Zenon
<1>12. QED
  BY <1>10, <1>11 DEF N

LEMMA MarksFacts ==
  ASSUME heap \in Heaps, NEW K \in SUBSET Ents, InUse(heap, root, K)
  PROVE  /\ Marks.y = 0
         /\ Marking(Marks, None, K)
         /\ \A s \in Slots \ Locals : root[s] # None => Marks.mark[root[s]] = "green"
<1> DEFINE N == Cardinality(Ents)
           m == RootMarks
           reds == {e \in Ents : /\ heap.ent[e].mark = "red"
                                 /\ \E s \in Slots \ Locals : root[s] = e}
<1>1. N \in Nat
  BY SlotsFinite, FS_CardinalityType
<1>2. K \in SUBSET Range(heap.list) /\ Open(K)
  BY DEF InUse, Open
<1>3. /\ m.mark = [e \in Ents |-> IF e \in reds THEN "yellow" ELSE heap.ent[e].mark]
      /\ m.y = Cardinality(reds)
      /\ m = [mark |-> m.mark, y |-> m.y]
  BY DEF RootMarks
<1>4. reds \subseteq K
  <2>1. ASSUME NEW e \in reds
        PROVE  e \in K
    <3>1. e # None /\ \E s \in Slots : root[s] = e
      BY Constants
    <3>2. QED
      BY <3>1 DEF InUse
  <2>2. QED
    BY <2>1
<1>5. \A s \in Slots \ Locals : root[s] # None => root[s] \in reds
  <2> TAKE s \in Slots \ Locals
  <2>1. root[s] \in K \cup {None}
    BY DEF InUse
  <2>2. QED
    BY <2>1 DEF InUse
<1>6. reds \in SUBSET Ents /\ Cardinality(reds) \in Int
  <2>1. reds \subseteq Ents
    OBVIOUS
  <2> HIDE DEF reds
  <2>2. QED
    BY <2>1, SlotsFinite, FS_Subset, FS_CardinalityType
<1> HIDE DEF m, reds
<1>7. m.mark \in [Ents -> {"red", "asleep", "yellow"}]
  BY <1>3, HeapParts
<1>8. m \in Markings
  BY <1>3, <1>6, <1>7 DEF Markings, Colours
<1>9. Yellows(m) = reds
  BY <1>3, <1>6, HeapParts DEF Yellows
<1>10. Marking(m, None, K)
  <2>1. \A e \in Ents : Lit(m, e) => e \in K
    BY <1>4, <1>7, <1>9 DEF Lit, Yellows
  <2>2. \A e \in K : m.mark[e] # "asleep" /\ m.mark[e] # "green"
    BY <1>3, <1>7 DEF InUse
  <2>3. QED
    BY <1>3, <1>8, <1>9, <2>1, <2>2 DEF Marking
<1>11. Passes[0] = m /\ \A n \in 1..N :
         Passes[n] = IF Passes[n - 1].y = 0 THEN Passes[n - 1] ELSE MarkPass(Passes[n - 1])
  BY <1>8, PassesIs DEF m
<1> HIDE DEF N
<1> DEFINE A == {n \in 0..N : /\ Marking(Passes[n], None, K) /\ Onward(m, Passes[n])
                              /\ Passes[n].y = 0 \/ Cardinality(Greens(Passes[n])) >= n}
<1>12. 0 \in A
  <2>1. Onward(m, m) /\ 0 \in 0..N
    BY <1>1 DEF Onward
  <2>2. Cardinality(Greens(m)) >= 0
    BY <1>8, MarkingParts, FS_CardinalityType
  <2>3. QED
    BY <1>10, <1>11, <2>1, <2>2
<1>13. ASSUME NEW n \in 1..N, n - 1 \in A
       PROVE  n \in A
  <2> DEFINE p == Passes[n - 1]
             q == Passes[n]
  <2>1. /\ Marking(p, None, K) /\ Onward(m, p)
        /\ p.y = 0 \/ Cardinality(Greens(p)) >= n - 1
    BY <1>13
  <2>2. n \in 0..N /\ q = IF p.y = 0 THEN p ELSE MarkPass(p)
    BY <1>1, <1>11
  <2> HIDE DEF p, q
  <2>3. CASE p.y = 0
    <3>1. q = p
      BY <2>2, <2>3
    <3>2. Marking(q, None, K) /\ Onward(m, q) /\ q.y = 0
      BY <2>1, <2>3, <3>1
    <3>3. QED
      BY <2>2, <3>2 DEF q
  <2>4. CASE p.y # 0
    <3>1. q = MarkPass(p)
      BY <2>2, <2>4
    <3>2. /\ Marking(q, None, K) /\ Onward(p, q)
          /\ Yellows(p) \subseteq Greens(q)
      BY <1>2, <2>1, <3>1, MarkPassFacts
    <3>3. p \in Markings /\ q \in Markings /\ p.y = Cardinality(Yellows(p))
      BY <2>1, <3>2 DEF Marking
    <3>4. Yellows(p) # {}
      BY <2>4, <3>3, FS_EmptySet
    <3>5. PICK e : e \in Yellows(p)
      BY <3>4
    <3>6. e \in Greens(q) /\ e \notin Greens(p)
      BY <3>2, <3>5 DEF Yellows, Greens
    <3>7. Greens(p) \cup {e} \subseteq Greens(q)
      BY <3>2, <3>6 DEF Onward
    <3>8. IsFiniteSet(Greens(p)) /\ IsFiniteSet(Greens(q))
      BY <3>3, MarkingParts
    <3>9. Cardinality(Greens(p) \cup {e}) = Cardinality(Greens(p)) + 1
      BY <3>6, <3>8, AddOne
    <3>10. Cardinality(Greens(p) \cup {e}) <= Cardinality(Greens(q))
      BY <3>7, <3>8, FS_Subset
    <3>11. Cardinality(Greens(p)) \in Nat /\ Cardinality(Greens(q)) \in Nat
      BY <3>8, FS_CardinalityType
    <3>12. Cardinality(Greens(q)) >= n
      BY <1>1, <2>1, <2>4, <3>9, <3>10, <3>11
    <3>13. Onward(m, q)
      BY <2>1, <3>2, OnwardChain
    <3>14. QED
      BY <2>2, <3>2, <3>12, <3>13 DEF q
  <2>5. QED
    BY <2>3, <2>4
<1>14. N \in A
  <2> HIDE DEF A
  <2>1. QED
    BY <1>1, <1>12, <1>13, UpTo
<1> DEFINE z == Marks
<1>15. /\ Marking(z, None, K) /\ Onward(m, z)
       /\ z.y = 0 \/ Cardinality(Greens(z)) >= N
  BY <1>14 DEF Marks, N
<1> HIDE DEF z
<1>16. z \in Markings /\ z.y = Cardinality(Yellows(z))
  BY <1>15 DEF Marking
<1>17. z.y = 0
  <2>1. SUFFICES ASSUME z.y # 0
                 PROVE  FALSE
    OBVIOUS
  <2>2. Yellows(z) # {}
    BY <1>16, <2>1, FS_EmptySet
  <2>3. Greens(z) \subseteq Ents /\ Greens(z) # Ents
    BY <2>2 DEF Yellows, Greens
  <2>4. Cardinality(Greens(z)) < N
    <3>1. IsFiniteSet(Ents)
      BY SlotsFinite
    <3>2. Cardinality(Greens(z)) <= Cardinality(Ents) /\ Cardinality(Greens(z)) # Cardinality(Ents)
      BY <2>3, <3>1, FS_Subset
    <3>3. Cardinality(Greens(z)) \in Nat /\ Cardinality(Ents) \in Nat
      BY <1>16, <3>1, MarkingParts, FS_CardinalityType
    <3>4. QED
      BY <3>2, <3>3 DEF N
  <2>5. Cardinality(Greens(z)) \in Nat
    BY <1>16, MarkingParts, FS_CardinalityType
  <2>6. QED
    BY <1>1, <1>15, <2>1, <2>4, <2>5
<1>18. Yellows(z) = {}
  BY <1>16, <1>17, MarkingParts, FS_EmptySet
<1>19. ASSUME NEW s \in Slots \ Locals, root[s] # None
       PROVE  z.mark[root[s]] = "green"
  <2>1. root[s] \in reds
    BY <1>5, <1>19
  <2>2. root[s] \in Ents /\ Lit(m, root[s])
    BY <1>6, <1>9, <2>1 DEF Yellows, Lit
  <2>3. Lit(z, root[s])
    BY <1>15, <2>2 DEF Onward
  <2>4. QED
    BY <1>18, <2>2, <2>3 DEF Yellows, Lit
<1>20. QED
  BY <1>15, <1>17, <1>19 DEF z

-----------------------------------------------------------------------------
(* References that are taken and given back.                                 *)

Roots == [Slots -> Values]

LEMMA IncrefCovers ==
  ASSUME NEW h \in Heaps, NEW r, NEW K \in SUBSET Ents, NEW y \in K \cup {None},
         Sound(h), Covers(h, r, K, None)
  PROVE  LET g == Incref(h, y)
         IN  /\ g \in Heaps /\ Sound(g)
             /\ Covers(g, r, K, y)
             /\ g.list = h.list
             /\ \A e \in Ents : /\ g.ent[e].link = h.ent[e].link
                                /\ g.ent[e].cref = h.ent[e].cref
<1> DEFINE g == Incref(h, y)
<1>1. CASE y = None
  <2>1. g = h
    BY <1>1 DEF Incref
  <2>2. QED
    BY <1>1, <2>1
<1>2. CASE y # None
  <2>1. y \in K /\ y \in Ents
    BY <1>2
  <2>2. /\ g \in Heaps
        /\ g.list = h.list
        /\ g.ent[y] = [h.ent[y] EXCEPT !.refs = @ + 1]
        /\ \A d \in Ents \ {y} : g.ent[d] = h.ent[d]
    BY <2>1, IncrefFacts
  <2> HIDE DEF g
  <2>3. /\ g.ent[y].refs = h.ent[y].refs + 1
        /\ g.ent[y].link = h.ent[y].link /\ g.ent[y].mark = h.ent[y].mark
        /\ g.ent[y].cref = h.ent[y].cref
    <3>1. h.ent[y] \in Entities
      BY <2>1, HeapParts
    <3>2. QED
      BY <2>2, <3>1 DEF Entities
  <2>4. \A e \in Ents : /\ g.ent[e].link = h.ent[e].link
                        /\ g.ent[e].mark = h.ent[e].mark
                        /\ g.ent[e].cref = h.ent[e].cref
    BY <2>1, <2>2, <2>3
  <2>6. \A e \in Ents : g.ent[e].refs >= 0
    <3>1. \A e \in Ents : h.ent[e].refs >= 0 /\ h.ent[e].refs \in Int
      BY HeapParts DEF Sound
    <3>2. g.ent[y].refs >= 0
      BY <2>1, <2>3, <3>1
    <3>3. \A e \in Ents \ {y} : g.ent[e].refs >= 0
      BY <2>2, <3>1
    <3>4. QED
      BY <3>2, <3>3
  <2>7. Sound(g)
    BY <2>2, <2>6 DEF Sound
  <2>8. InUse(g, r, K)
    BY <2>2, <2>4 DEF Covers, InUse
  <2>9. ASSUME NEW e \in K
        PROVE  g.ent[e].refs >= Count(g, r, K, e) + (IF e = y THEN 1 ELSE 0)
    <3>1. LinksTo(g, K, e) = LinksTo(h, K, e)
      BY <2>4 DEF LinksTo
    <3>2. Count(g, r, K, e) = Count(h, r, K, e)
      BY <3>1 DEF Count
    <3>3. e # None /\ Count(h, r, K, e) \in Nat /\ h.ent[e].refs \in Int
      BY CountTypes, HeapParts, Constants
    <3>4. h.ent[e].refs >= Count(h, r, K, e)
      BY <3>3 DEF Covers
    <3>5. CASE e = y
      BY <2>3, <3>2, <3>3, <3>4, <3>5
    <3>6. CASE e # y
      BY <2>2, <3>2, <3>3, <3>4, <3>6
    <3>7. QED
      BY <3>5, <3>6
  <2>10. Covers(g, r, K, y)
    BY <2>8, <2>9 DEF Covers
  <2>11. QED
    BY <2>2, <2>4, <2>7, <2>10 DEF g
<1>3. QED
  BY <1>1, <1>2

(* The reference that was taken goes into a slot, the one that was there is  *)
(* to be released.                                                           *)
LEMMA SlotSwapped ==
  ASSUME NEW h \in Heaps, NEW r \in Roots, NEW K \in SUBSET Ents,
         NEW y \in K \cup {None}, NEW t \in Slots, Covers(h, r, K, y),
         NEW q \in Roots, q[t] = y, \A s \in Slots \ {t} : q[s] = r[s]
  PROVE  Covers(h, q, K, r[t]) /\ r[t] \in K \cup {None}
<1>1. r[t] \in K \cup {None}
  BY DEF Covers, InUse
<1>2. CASE r[t] = y
  <2>1. q = r
    BY <1>2 DEF Roots
  <2>2. QED
    BY <1>1, <1>2, <2>1
<1>3. CASE r[t] # y
  <2>1. InUse(h, q, K)
    BY DEF Covers, InUse
  <2>2. ASSUME NEW e \in K
        PROVE  h.ent[e].refs >= Count(h, q, K, e) + (IF e = r[t] THEN 1 ELSE 0)
    <3> DEFINE a == Cardinality(SlotsWith(r, e))
               b == Cardinality(SlotsWith(q, e))
               c == Cardinality(LinksTo(h, K, e))
    <3>1. b = a + (IF e = y THEN 1 ELSE 0) - (IF e = r[t] THEN 1 ELSE 0)
      BY <1>3, SlotsMoved
    <3>2. a \in Nat /\ b \in Nat /\ c \in Nat /\ h.ent[e].refs \in Int
      BY CountTypes, HeapParts
    <3>3. h.ent[e].refs >= (a + c) + (IF e = y THEN 1 ELSE 0)
      BY DEF Covers, Count
    <3>4. Count(h, q, K, e) = b + c
      BY DEF Count
    <3> HIDE DEF a, b, c
    <3>5. QED
      BY <3>1, <3>2, <3>3, <3>4
  <2>3. QED
    BY <1>1, <2>1, <2>2 DEF Covers
<1>4. QED
  BY <1>2, <1>3

(* The same for a link.                                                      *)
Relinked(h, g, x, c) ==
  /\ g.list = h.list
  /\ g.ent[x].link = c /\ g.ent[x].refs = h.ent[x].refs
  /\ g.ent[x].mark = h.ent[x].mark /\ g.ent[x].cref = h.ent[x].cref
  /\ \A d \in Ents \ {x} : g.ent[d] = h.ent[d]

LEMMA LinkSwapped ==
  ASSUME NEW h \in Heaps, NEW r, NEW K \in SUBSET Ents,
         NEW c \in K \cup {None}, NEW x \in K, Sound(h), Covers(h, r, K, c),
         NEW g \in Heaps, Relinked(h, g, x, c)
  PROVE  /\ Sound(g)
         /\ Covers(g, r, K, h.ent[x].link)
         /\ h.ent[x].link \in K \cup {None}
         /\ g.ent[x].link = c
         /\ \A e \in Ents \ {x} : g.ent[e].link = h.ent[e].link
         /\ \A e \in Ents : g.ent[e].cref = h.ent[e].cref
<1>1. x \in Ents /\ c \in Values /\ h.ent[x] \in Entities
  BY HeapParts DEF Values
<1>2. /\ g.list = h.list
      /\ \A d \in Ents \ {x} : g.ent[d] = h.ent[d]
  BY DEF Relinked
<1>3. /\ g.ent[x].link = c /\ g.ent[x].refs = h.ent[x].refs
      /\ g.ent[x].mark = h.ent[x].mark /\ g.ent[x].cref = h.ent[x].cref
  BY DEF Relinked
<1>4. \A e \in Ents : /\ g.ent[e].mark = h.ent[e].mark
                      /\ g.ent[e].refs = h.ent[e].refs
                      /\ g.ent[e].cref = h.ent[e].cref
  BY <1>1, <1>2, <1>3
<1>6. \A e \in Ents : g.ent[e].refs >= 0
  BY <1>4 DEF Sound
<1>7. Sound(g)
  BY <1>2, <1>6 DEF Sound
<1>8. h.ent[x].link \in K \cup {None}
  BY DEF Covers, InUse
<1>9. InUse(g, r, K)
  <2>1. \A e \in K : g.ent[e].link \in K \cup {None}
    BY <1>2, <1>3 DEF Covers, InUse
  <2>2. QED
    BY <1>2, <1>4, <2>1 DEF Covers, InUse
<1>10. ASSUME NEW e \in K
       PROVE  h.ent[e].refs >= Count(g, r, K, e) + (IF e = h.ent[x].link THEN 1 ELSE 0)
  <2> DEFINE a == Cardinality(LinksTo(h, K, e))
             b == Cardinality(LinksTo(g, K, e))
             d == Cardinality(SlotsWith(r, e))
  <2>1. a \in Nat /\ b \in Nat /\ d \in Nat /\ h.ent[e].refs \in Int
    BY CountTypes, HeapParts
  <2>2. h.ent[e].refs >= (d + a) + (IF e = c THEN 1 ELSE 0)
    BY DEF Covers, Count
  <2>3. Count(g, r, K, e) = d + b
    BY DEF Count
  <2>4. CASE h.ent[x].link = c
    <3>1. LinksTo(g, K, e) = LinksTo(h, K, e)
      BY <1>2, <1>3, <2>4 DEF LinksTo
    <3>2. a = b
      BY <3>1
    <3> HIDE DEF a, b, d
    <3>3. QED
      BY <2>1, <2>2, <2>3, <2>4, <3>2
  <2>5. CASE h.ent[x].link # c
    <3>1. b = a + (IF e = c THEN 1 ELSE 0) - (IF e = h.ent[x].link THEN 1 ELSE 0)
      <4>1. h.ent[x].link # g.ent[x].link /\ g.ent[x].link = c
        BY <1>3, <2>5
      <4>2. \A f \in K \ {x} : g.ent[f].link = h.ent[f].link
        BY <1>2
      <4>3. Cardinality(LinksTo(g, K, e)) =
              Cardinality(LinksTo(h, K, e)) + (IF e = g.ent[x].link THEN 1 ELSE 0)
                                            - (IF e = h.ent[x].link THEN 1 ELSE 0)
        BY <4>1, <4>2, LinksMoved
      <4>4. QED
        BY <4>1, <4>3
    <3> HIDE DEF a, b, d
    <3>2. QED
      BY <2>1, <2>2, <2>3, <3>1
  <2>6. QED
    BY <2>4, <2>5
<1>11. Covers(g, r, K, h.ent[x].link)
  BY <1>4, <1>9, <1>10 DEF Covers
<1>12. QED
  BY <1>2, <1>3, <1>4, <1>7, <1>8, <1>11

(* A release, as actions use it.                                             *)
LEMMA DecrefFacts ==
  ASSUME NEW h \in Heaps, NEW r, NEW K \in SUBSET Ents,
         NEW x \in K \cup {None}, Sound(h), Covers(h, r, K, x),
         NEW g \in Decref(h, x)
  PROVE  /\ g \in Heaps /\ Sound(g)
         /\ \E L \in SUBSET K : Covers(g, r, L, None) /\ Same(h, g, L)
<1>1. PICK n \in 0..Recurse : g = Release[n][x][h]
  BY DEF Decref
<1>2. x \in Values
  BY DEF Values
<1>3. QED
  BY <1>1, <1>2, ReleaseFacts DEF Releasing

LEMMA LinkedType ==
  ASSUME NEW h \in Heaps
  PROVE  Linked(h) \in Chain /\ \A e \in Ents : Linked(h)[e] = h.ent[e].link
  BY HeapParts DEF Linked, Chain

(* What slots lead to is in use.                                             *)
LEMMA CoverLive ==
  ASSUME NEW h \in Heaps, NEW r \in Roots, NEW K \in SUBSET Ents,
         Covers(h, r, K, None)
  PROVE  LET L == Memory!Reachable(r, Linked(h))
         IN  L \subseteq K /\ Covers(h, r, L, None)
<1> DEFINE start == {r[s] : s \in Slots}
           L == Memory!Reach(start, Linked(h))
<1>1. Memory!Reachable(r, Linked(h)) = L
  BY DEF Memory!Reachable
<1>2. start \cap Ents \subseteq K /\ Memory!Closed(K, Linked(h))
  <2>1. \A s \in Slots : r[s] \in K \cup {None}
    BY DEF Covers, InUse
  <2>2. \A e \in K : Linked(h)[e] \in K \cup {None}
    BY LinkedType DEF Covers, InUse
  <2>3. QED
    BY <2>1, <2>2, Constants DEF Memory!Closed
<1>3. L \subseteq K
  BY <1>2, ReachLeast
<1>4. L \subseteq Ents /\ start \cap Ents \subseteq L /\ Memory!Closed(L, Linked(h))
  BY LinkedType, ReachClosed
<1>5. \A s \in Slots : r[s] \in L \cup {None}
  <2> TAKE s \in Slots
  <2>1. r[s] \in Values /\ r[s] \in start
    BY DEF Roots
  <2>2. QED
    BY <1>4, <2>1 DEF Values
<1> HIDE DEF L, start
<1>6. \A e \in L : h.ent[e].link \in L \cup {None}
  BY <1>4, LinkedType DEF Memory!Closed
<1>7. InUse(h, r, L)
  BY <1>3, <1>5, <1>6 DEF Covers, InUse
<1>8. ASSUME NEW e \in L
      PROVE  h.ent[e].refs >= Count(h, r, L, e) + (IF e = None THEN 1 ELSE 0)
  <2>1. e \in K /\ e \in Ents /\ e # None
    BY <1>3, <1>4, Constants
  <2>2. Count(h, r, L, e) <= Count(h, r, K, e)
    BY <1>3, CountLess
  <2>3. Count(h, r, L, e) \in Nat /\ Count(h, r, K, e) \in Nat /\ h.ent[e].refs \in Int
    <3>1. L \in SUBSET Ents
      BY <1>4
    <3>2. QED
      BY <2>1, <3>1, CountTypes, HeapParts
  <2>4. h.ent[e].refs >= Count(h, r, K, e)
    BY <2>1, <2>3 DEF Covers
  <2>5. QED
    BY <2>1, <2>2, <2>3, <2>4
<1>9. Covers(h, r, L, None)
  BY <1>7, <1>8 DEF Covers
<1>10. QED
  BY <1>1, <1>3, <1>9

(* What slots still lead to keeps its links.                                 *)
LEMMA LiveKept ==
  ASSUME NEW h \in Heaps, NEW g \in Heaps, NEW r \in Roots, NEW L \in SUBSET Ents,
         Covers(g, r, L, None), \A e \in L : g.ent[e].link = h.ent[e].link
  PROVE  /\ Memory!Reachable(r, Linked(h)) \subseteq L
         /\ \A e \in Memory!Reachable(r, Linked(h)) : Linked(g)[e] = Linked(h)[e]
<1>1. \A e \in L : Linked(h)[e] = Linked(g)[e]
  BY LinkedType
<1>2. {r[s] : s \in Slots} \cap Ents \subseteq L /\ Memory!Closed(L, Linked(h))
  <2>1. \A s \in Slots : r[s] \in L \cup {None}
    BY DEF Covers, InUse
  <2>2. \A e \in L : Linked(h)[e] \in L \cup {None}
    BY <1>1, LinkedType DEF Covers, InUse
  <2>3. QED
    BY <2>1, <2>2, Constants DEF Memory!Closed
<1>3. Memory!Reachable(r, Linked(h)) \subseteq L
  BY <1>2, ReachLeast DEF Memory!Reachable
<1>4. QED
  BY <1>1, <1>3

(* The local value of a C function leads only to what it has made.           *)
MadeIn(h, r) == \A w \in Views :
  \A c \in Memory!Reach({r[<<w, 1>>]}, Linked(h)) : h.ent[c].cref = w

LEMMA ReachNone ==
  ASSUME NEW l
  PROVE  Memory!Reach({None}, l) = {}
<1>1. {None} \cap Ents \subseteq {} /\ Memory!Closed({}, l)
  BY Constants DEF Memory!Closed
<1>2. QED
  BY <1>1, ReachLeast

LEMMA MadeSame ==
  ASSUME MaxDepth = 1,
         NEW h \in Heaps, NEW g \in Heaps, NEW r \in Roots, NEW L \in SUBSET Ents,
         Covers(g, r, L, None), Same(h, g, L), MadeIn(h, r)
  PROVE  MadeIn(g, r)
<1> SUFFICES ASSUME NEW w \in Views
             PROVE  \A c \in Memory!Reach({r[<<w, 1>>]}, Linked(g)) : g.ent[c].cref = w
  BY DEF MadeIn
<1> DEFINE y == r[<<w, 1>>]
<1>1. <<w, 1>> \in Slots
  BY DEF Slots, Locals
<1>2. y \in L \cup {None}
  BY <1>1 DEF Covers, InUse
<1> HIDE DEF y
<1>3. {y} \cap Ents \subseteq L
  BY <1>2, Constants
<1>4. \A e \in L : Linked(h)[e] = Linked(g)[e]
  BY LinkedType DEF Same
<1>5. Memory!Closed(L, Linked(g))
  BY LinkedType DEF Covers, InUse, Memory!Closed
<1>6. Memory!Reach({y}, Linked(h)) = Memory!Reach({y}, Linked(g))
  BY <1>3, <1>4, <1>5, LinkedType, ReachSame
<1>7. Memory!Reach({y}, Linked(g)) \subseteq L
  BY <1>3, <1>5, ReachLeast
<1>8. \A c \in Memory!Reach({y}, Linked(h)) : h.ent[c].cref = w
  BY DEF MadeIn, y
<1>9. QED
  BY <1>6, <1>7, <1>8 DEF Same, y

LEMMA LocalsAre ==
  ASSUME MaxDepth = 1
  PROVE  /\ Locals = Views \X {1}
         /\ Slots = Views \cup {World} \cup Locals
         /\ (Views \cup {World}) \cap Locals = {}
<1>1. 1..MaxDepth = {1}
  OBVIOUS
<1>2. Locals = Views \X {1}
  BY <1>1 DEF Locals
<1>3. Views \X {1} \subseteq Views \X Nat
  OBVIOUS
<1>4. QED
  BY <1>2, <1>3, HeapAssumption DEF Slots

(* A slot takes a value: a local one, only what its view has made.           *)
LEMMA MadePut ==
  ASSUME MaxDepth = 1, NEW h, NEW r \in Roots, NEW t \in Slots, NEW y,
         MadeIn(h, r),
         \A w \in Views : t = <<w, 1>> =>
           \A c \in Memory!Reach({y}, Linked(h)) : h.ent[c].cref = w
  PROVE  MadeIn(h, [r EXCEPT ![t] = y])
<1> SUFFICES ASSUME NEW w \in Views
             PROVE  \A c \in Memory!Reach({[r EXCEPT ![t] = y][<<w, 1>>]}, Linked(h)) :
                      h.ent[c].cref = w
  BY DEF MadeIn
<1>1. <<w, 1>> \in Slots
  BY LocalsAre
<1>2. CASE t = <<w, 1>>
  <2>1. [r EXCEPT ![t] = y][<<w, 1>>] = y
    BY <1>1, <1>2 DEF Roots
  <2>2. QED
    BY <1>2, <2>1
<1>3. CASE t # <<w, 1>>
  <2>1. [r EXCEPT ![t] = y][<<w, 1>>] = r[<<w, 1>>]
    BY <1>1, <1>3 DEF Roots
  <2>2. QED
    BY <2>1 DEF MadeIn
<1>4. QED
  BY <1>2, <1>3

(* What holds of the heap and the slots between two steps.                   *)
Safe(h, r) ==
  /\ h \in Heaps /\ r \in Roots
  /\ Sound(h)
  /\ \E K \in SUBSET Ents : Covers(h, r, K, None)
  /\ MadeIn(h, r)

(* Assign: what is in use afterwards is as it was before.                    *)
LEMMA AssignFacts ==
  ASSUME MaxDepth = 1, NEW t \in Slots,
         NEW h \in Heaps, NEW r \in Roots, NEW K \in SUBSET Ents,
         NEW y \in K \cup {None},
         Sound(h), Covers(h, r, K, None),
         NEW q \in Roots, q[t] = y, \A s \in Slots \ {t} : q[s] = r[s],
         MadeIn(h, q),
         NEW g \in Decref(Incref(h, y), r[t])
  PROVE  /\ Safe(g, q)
         /\ \E L \in SUBSET K : Covers(g, q, L, None) /\ Same(h, g, L)
<1> DEFINE i == Incref(h, y)
<1>1. /\ i \in Heaps /\ Sound(i) /\ Covers(i, r, K, y)
      /\ \A e \in Ents : /\ i.ent[e].link = h.ent[e].link
                         /\ i.ent[e].cref = h.ent[e].cref
  BY IncrefCovers
<1> HIDE DEF i
<1>2. Covers(i, q, K, r[t]) /\ r[t] \in K \cup {None}
  BY <1>1, SlotSwapped
<1>3. g \in Decref(i, r[t])
  BY DEF i
<1>4. /\ g \in Heaps /\ Sound(g)
      /\ \E L \in SUBSET K : Covers(g, q, L, None) /\ Same(i, g, L)
  BY <1>1, <1>2, <1>3, DecrefFacts
<1>5. PICK L \in SUBSET K : Covers(g, q, L, None) /\ Same(i, g, L)
  BY <1>4
<1>6. Same(h, g, L) /\ L \in SUBSET Ents
  BY <1>1, <1>5 DEF Same
<1>7. MadeIn(g, q)
  BY <1>2, <1>4, <1>5, <1>6, MadeSame
<1>8. QED
  BY <1>2, <1>4, <1>5, <1>6, <1>7 DEF Safe

LEMMA ReleasedFacts ==
  ASSUME NEW h \in Heaps, NEW v \in Views, NEW r \in Roots, NEW K \in SUBSET Ents,
         NEW x, Sound(h), Covers(h, r, K, x), MadeIn(h, r), r[<<v, 1>>] = None
  PROVE  LET g == Released(h, v)
         IN  /\ g \in Heaps /\ Sound(g)
             /\ Covers(g, r, K, x) /\ MadeIn(g, r)
             /\ \A e \in Ents : g.ent[e].link = h.ent[e].link
<1> DEFINE g == Released(h, v)
           top == Last(tops[v])
           above == {h.list[i] : i \in {i \in DOMAIN h.list : \A j \in 1..i : h.list[j] # top}}
           new == [e \in Ents |-> IF e \in above /\ h.ent[e].cref = v
                                  THEN [h.ent[e] EXCEPT !.cref = None] ELSE h.ent[e]]
<1>1. g = [h EXCEPT !.ent = new]
  BY Zenon DEF Released
<1> HIDE DEF above
<1>2. \A e \in Ents : /\ new[e] \in Entities
                      /\ new[e].link = h.ent[e].link /\ new[e].mark = h.ent[e].mark
                      /\ new[e].refs = h.ent[e].refs
                      /\ new[e].cref # h.ent[e].cref => h.ent[e].cref = v
  <2> TAKE e \in Ents
  <2>1. h.ent[e] \in Entities
    BY HeapParts
  <2>2. CASE e \in above /\ h.ent[e].cref = v
    <3>1. new[e] = [h.ent[e] EXCEPT !.cref = None]
      BY <2>2
    <3> HIDE DEF new
    <3>2. QED
      BY <2>1, <2>2, <3>1 DEF Entities
  <2>3. CASE ~(e \in above /\ h.ent[e].cref = v)
    <3>1. new[e] = h.ent[e]
      BY <2>3
    <3> HIDE DEF new
    <3>2. QED
      BY <2>1, <3>1
  <2>4. QED
    BY <2>2, <2>3
<1>3. new \in [Ents -> Entities]
  BY <1>2
<1> HIDE DEF new
<1>4. /\ g \in Heaps /\ g.list = h.list /\ g.ent = new
  BY <1>1, <1>3 DEF Heaps
<1> HIDE DEF g
<1>5. \A e \in Ents : /\ g.ent[e].link = h.ent[e].link
                      /\ g.ent[e].mark = h.ent[e].mark
                      /\ g.ent[e].refs = h.ent[e].refs
                      /\ g.ent[e].cref # h.ent[e].cref => h.ent[e].cref = v
  BY <1>2, <1>4
<1>7. \A e \in Ents : g.ent[e].refs >= 0
  BY <1>5 DEF Sound
<1>8. Sound(g)
  BY <1>4, <1>7 DEF Sound
<1>9. InUse(g, r, K)
  BY <1>4, <1>5 DEF Covers, InUse
<1>10. ASSUME NEW e \in K
       PROVE  g.ent[e].refs >= Count(g, r, K, e) + (IF e = x THEN 1 ELSE 0)
  <2>1. LinksTo(g, K, e) = LinksTo(h, K, e)
    BY <1>5 DEF LinksTo
  <2>2. Count(g, r, K, e) = Count(h, r, K, e)
    BY <2>1 DEF Count
  <2>3. QED
    BY <1>5, <2>2 DEF Covers
<1>11. MadeIn(g, r)
  <2> SUFFICES ASSUME NEW w \in Views
               PROVE  \A c \in Memory!Reach({r[<<w, 1>>]}, Linked(g)) : g.ent[c].cref = w
    BY DEF MadeIn
  <2>1. Linked(g) = Linked(h)
    BY <1>5 DEF Linked
  <2>2. CASE w = v
    BY <2>2, ReachNone
  <2>3. CASE w # v
    <3>1. \A c \in Memory!Reach({r[<<w, 1>>]}, Linked(h)) : h.ent[c].cref = w /\ c \in Ents
      BY LinkedType, ReachClosed DEF MadeIn
    <3>2. QED
      BY <1>5, <2>1, <2>3, <3>1
  <2>4. QED
    BY <2>2, <2>3
<1>12. Covers(g, r, K, x)
  BY <1>9, <1>10 DEF Covers
<1>13. QED
  BY <1>4, <1>5, <1>8, <1>11, <1>12 DEF g

(* A new value is one that no slot leads to, and holds nothing.              *)
LEMMA WakesFacts ==
  ASSUME NEW h \in Heaps, NEW v \in Views, NEW inC \in BOOLEAN,
         Sound(h), NEW r, NEW K \in SUBSET Ents,
         Covers(h, r, K, None), NEW wake \in Wakes(h, v, inC)
  PROVE  LET e == wake.e  g == wake.h
         IN  /\ e \in Ents \ K
             /\ g \in Heaps /\ Sound(g)
             /\ g.ent[e] = Fresh(v, inC)
             /\ \A d \in Ents \ {e} : g.ent[d] = h.ent[d]
             /\ Range(g.list) = Range(h.list) \cup {e}
<1> DEFINE e == wake.e
           g == wake.h
           x == Fresh(v, inC)
<1>1. x \in Entities /\ x.mark = "red" /\ x.refs = 0
  BY DEF Fresh, Entities, Values
<1> HIDE DEF x
<1>2. K \subseteq Range(h.list) /\ \A d \in K : h.ent[d].mark = "red"
  BY DEF Covers, InUse
<1>3. ASSUME e \in Ents, g.ent = [h.ent EXCEPT ![e] = x]
      PROVE  /\ g.ent \in [Ents -> Entities]
             /\ g.ent[e] = x
             /\ \A d \in Ents \ {e} : g.ent[d] = h.ent[d]
             /\ \A d \in Ents : g.ent[d].refs >= 0
  <2>1. \A d \in Ents : h.ent[d].refs >= 0
    BY DEF Sound
  <2>2. h.ent \in [Ents -> Entities]
    BY HeapParts
  <2>3. /\ g.ent \in [Ents -> Entities]
        /\ g.ent[e] = x
        /\ \A d \in Ents \ {e} : g.ent[d] = h.ent[d]
    BY <1>1, <1>3, <2>2
  <2>4. g.ent[e].refs >= 0
    BY <1>1, <2>3
  <2>5. \A d \in Ents \ {e} : g.ent[d].refs >= 0
    BY <2>1, <2>3
  <2>6. QED
    BY <2>3, <2>4, <2>5
<1> DEFINE big(b) == [h EXCEPT !.list = <<b>> \o @, !.ent[b] = x]
<1>4. \E b \in Ents \ Listed(h) : wake = [e |-> b, h |-> big(b)]
  BY Zenon DEF Wakes, x
<1> HIDE DEF big
<1>5. PICK b \in Ents \ Listed(h) : e = b /\ g = big(b)
  BY <1>4
<1> HIDE DEF e, g
<1>6. b \in Ents /\ b \notin Range(h.list)
  BY <1>5 DEF Listed
<1>7. b \notin K
  BY <1>2, <1>6
<1> DEFINE l == <<b>> \o h.list
<1>8. l \in Seq(Ents) /\ IsInjective(l) /\ Range(l) = Range(h.list) \cup {b}
  BY <1>6, HeapParts, ConsFacts DEF Sound
<1> HIDE DEF l
<1>9. /\ g.list = l
      /\ g.ent = [h.ent EXCEPT ![b] = x]
      /\ g = [list |-> l, ent |-> [h.ent EXCEPT ![b] = x]]
  BY <1>5 DEF Heaps, l, big
<1>10. /\ g.ent \in [Ents -> Entities]
       /\ g.ent[b] = x
       /\ \A d \in Ents \ {b} : g.ent[d] = h.ent[d]
       /\ \A d \in Ents : g.ent[d].refs >= 0
  BY <1>3, <1>5, <1>6, <1>9
<1>11. g \in Heaps
  BY <1>8, <1>9, <1>10, HeapParts DEF Heaps
<1>12. Sound(g)
  BY <1>8, <1>9, <1>10 DEF Sound
<1>13. QED
  BY <1>5, <1>6, <1>7, <1>8, <1>9, <1>10, <1>11, <1>12 DEF g, e, x

(* It is covered as well, by the count of zero.                              *)
LEMMA WakeCovers ==
  ASSUME NEW h \in Heaps, NEW g \in Heaps, NEW r, NEW K \in SUBSET Ents,
         Covers(h, r, K, None), NEW e \in Ents \ K,
         g.ent[e].refs = 0, g.ent[e].mark = "red", g.ent[e].link = None,
         \A d \in Ents \ {e} : g.ent[d] = h.ent[d],
         Range(g.list) = Range(h.list) \cup {e}
  PROVE  Covers(g, r, K, None) /\ Covers(g, r, K \cup {e}, None)
<1> DEFINE L == K \cup {e}
<1>1. L \in SUBSET Ents /\ \A d \in L : d # None
  BY Constants
<1>2. K \subseteq Range(h.list) /\ \A d \in K : h.ent[d].link \in K \cup {None}
  BY DEF Covers, InUse
<1>3. Covers(g, r, K, None)
  <2>1. K \subseteq Range(g.list) /\ \A d \in K : g.ent[d] = h.ent[d]
    BY <1>2
  <2>2. QED
    BY <2>1, CoversSame
<1>4. InUse(g, r, L)
  BY <1>3 DEF Covers, InUse
<1>5. ASSUME NEW d \in L
      PROVE  g.ent[d].refs >= Count(g, r, L, d) + (IF d = None THEN 1 ELSE 0)
  <2>1. CASE d = e
    <3>1. \A s \in Slots : r[s] # e
      BY <1>1 DEF Covers, InUse
    <3>2. \A c \in L : g.ent[c].link # e
      BY <1>1, <1>2
    <3>3. Count(g, r, L, e) = 0
      BY <1>1, <3>1, <3>2, CountNone
    <3>4. QED
      BY <1>1, <2>1, <3>3
  <2>2. CASE d # e
    <3>1. LinksTo(g, L, d) = LinksTo(g, K, d)
      BY <1>1 DEF LinksTo
    <3>2. Count(g, r, L, d) = Count(g, r, K, d)
      BY <3>1 DEF Count
    <3>3. QED
      BY <1>3, <2>2, <3>2 DEF Covers
  <2>3. QED
    BY <2>1, <2>2
<1>6. QED
  BY <1>3, <1>4, <1>5 DEF Covers

-----------------------------------------------------------------------------
(* The invariant, for C functions that do not call C functions and hold only *)
(* what they have made.                                                      *)

Shallow == MaxDepth = 1 /\ Features = {}

Running ==
  /\ tops \in [Views -> Seq(Values)]
  /\ \A v \in Views : Len(tops[v]) <= MaxDepth
  /\ \A v \in Views : tops[v] = << >> => root[<<v, 1>>] = None
IInv == Safe(heap, root) /\ Running

LEMMA LinksAre == Links = Linked(heap)
  BY DEF Links, Linked

LEMMA OwnIs ==
  ASSUME Shallow, IInv, NEW v \in Views
  PROVE  /\ InC(v) => Own(v) = <<v, 1>> /\ Len(tops[v]) = 1
         /\ ~InC(v) => Own(v) = v
         /\ <<v, 1>> \in Slots /\ <<v, 1>> \notin Views \cup {World}
         /\ Own(v) \in Slots /\ v \in Slots /\ World \in Slots
         /\ \A w \in Views : Own(v) = <<w, 1>> \/ World = <<w, 1>> => w = v /\ InC(v)
<1>1. Len(tops[v]) \in Nat /\ Len(tops[v]) <= 1 /\ (Len(tops[v]) = 0 <=> tops[v] = << >>)
  BY EmptySeq DEF IInv, Running, Shallow
<1>2. \A w \in Views : <<w, 1>> \in Slots /\ <<w, 1>> \notin Views \cup {World}
  BY LocalsAre DEF Shallow
<1>3. InC(v) => Own(v) = <<v, 1>> /\ Len(tops[v]) = 1
  <2>1. ASSUME tops[v] # << >>
        PROVE  Len(tops[v]) = 1
    <3> DEFINE n == Len(tops[v])
    <3>1. n \in Nat /\ n <= 1 /\ n # 0
      BY <1>1, <2>1
    <3> HIDE DEF n
    <3>2. n = 1
      BY <3>1
    <3>3. QED
      BY <3>2 DEF n
  <2>2. QED
    BY <2>1 DEF InC, Own
<1>4. ~InC(v) => Own(v) = v
  BY DEF Own
<1>5. v \in Slots /\ World \in Slots
  BY DEF Slots
<1>6. QED
  BY <1>2, <1>3, <1>4, <1>5

LEMMA KnownAre ==
  ASSUME NEW s \in Slots
  PROVE  /\ root[s] \in Memory!Known /\ root[s] \in Memory!Held /\ None \in Memory!Known
         /\ root[s] # None => Links[root[s]] \in Memory!Known
<1>1. root[s] \in Memory!Held
  BY DEF Memory!Held
<1>2. QED
  BY <1>1 DEF Memory!Known, Links

(* Copy, Clear and Load are Take.                                            *)
LEMMA TakeStep ==
  ASSUME Shallow, IInv, NEW v \in Views, NEW t \in Writable(v),
         NEW K \in SUBSET Ents, Covers(heap, root, K, None),
         NEW y \in K \cup {None}, y \in Memory!Known,
         MayHold(t, y), Assign(heap, t, y), tops' = tops
  PROVE  IInv' /\ Memory!Next
<1> DEFINE q == [root EXCEPT ![t] = y]
<1>1. /\ MaxDepth = 1 /\ Features = {}
      /\ heap \in Heaps /\ root \in Roots /\ Sound(heap)
      /\ MadeIn(heap, root)
  BY DEF Shallow, IInv, Safe
<1>2. t = Own(v) \/ t = World
  BY DEF Writable
<1>3. t \in Slots /\ \A w \in Views : t = <<w, 1>> => w = v /\ InC(v)
  BY <1>2, OwnIs
<1>4. ASSUME NEW w \in Views, t = <<w, 1>>
      PROVE  \A c \in Memory!Reach({y}, Linked(heap)) : heap.ent[c].cref = w
  <2>1. t \in Locals /\ t[1] = w
    BY <1>1, <1>4, LocalsAre
  <2>2. Made(w, y)
    BY <1>1, <2>1 DEF MayHold
  <2>3. QED
    BY <2>2, LinksAre DEF Made
<1>5. MadeIn(heap, q)
  BY <1>1, <1>3, <1>4, MadePut
<1>6. heap' \in Decref(Incref(heap, y), root[t]) /\ root' = q
  BY DEF Assign
<1> HIDE DEF q
<1>7. /\ Safe(heap', q)
      /\ \E L \in SUBSET K : Covers(heap', q, L, None) /\ Same(heap, heap', L)
  <2>1. heap' \in Decref(Incref(heap, y), root[t])
    BY <1>6
  <2>2. q \in Roots /\ q[t] = y /\ \A s \in Slots \ {t} : q[s] = root[s]
    BY <1>1, <1>3 DEF q, Roots, Values
  <2>3. QED
    BY <1>1, <1>5, <1>3, <2>1, <2>2, AssignFacts
<1>8. PICK L \in SUBSET K : Covers(heap', q, L, None) /\ Same(heap, heap', L)
  BY <1>7
<1>9. /\ heap' \in Heaps /\ q \in Roots /\ L \in SUBSET Ents
      /\ \A e \in L : heap'.ent[e].link = heap.ent[e].link
  BY <1>7, <1>8 DEF Safe, Same
<1>10. Memory!Kept(root', Linked(heap))
  <2>1. \A e \in Memory!Reachable(q, Linked(heap)) : Linked(heap')[e] = Linked(heap)[e]
    BY <1>1, <1>8, <1>9, LiveKept
  <2>2. QED
    BY <1>6, <2>1 DEF Memory!Kept, Linked
<1>11. root'[t] = y /\ \A s \in Slots \ {t} : root'[s] = root[s]
  BY <1>1, <1>3, <1>6 DEF q, Roots
<1>12. Memory!Take(t)
  <2>1. root' = [root EXCEPT ![t] = root'[t]] /\ root'[t] \in Memory!Known
    BY <1>6, <1>11 DEF q
  <2>2. QED
    BY <1>10, <2>1 DEF Memory!Take, Linked
<1>13. Memory!Next
  BY <1>3, <1>12 DEF Memory!Next
<1>14. Running'
  <2>1. ASSUME NEW w \in Views, tops'[w] = << >>
        PROVE  root'[<<w, 1>>] = None
    <3>1. t # <<w, 1>>
      BY <1>3, <2>1 DEF InC
    <3>2. <<w, 1>> \in Slots
      BY OwnIs
    <3>3. root[<<w, 1>>] = None
      BY <2>1 DEF IInv, Running
    <3>4. QED
      BY <1>11, <3>1, <3>2, <3>3
  <2>2. QED
    BY <2>1 DEF IInv, Running
<1>15. QED
  BY <1>6, <1>7, <1>13, <1>14 DEF IInv

LEMMA ReadableSlots ==
  ASSUME Shallow, IInv, NEW v \in Views, NEW s \in Readable(v)
  PROVE  s \in Slots
  BY OwnIs DEF Readable

LEMMA CopyStep ==
  ASSUME Shallow, IInv, NEW v \in Views, Copy(v)
  PROVE  IInv' /\ Memory!Next
<1>1. PICK s \in Readable(v), t \in Writable(v) :
        MayHold(t, root[s]) /\ Assign(heap, t, root[s])
  BY DEF Copy
<1>2. PICK K \in SUBSET Ents : Covers(heap, root, K, None)
  BY DEF IInv, Safe
<1>3. root[s] \in K \cup {None} /\ root[s] \in Memory!Known
  BY <1>2, ReadableSlots, KnownAre DEF Covers, InUse
<1>4. QED
  BY <1>1, <1>2, <1>3, TakeStep DEF Copy

LEMMA ClearStep ==
  ASSUME Shallow, IInv, NEW v \in Views, Clear(v)
  PROVE  IInv' /\ Memory!Next
<1>1. PICK t \in Writable(v) : Assign(heap, t, None)
  BY DEF Clear
<1>2. PICK K \in SUBSET Ents : Covers(heap, root, K, None)
  BY DEF IInv, Safe
<1>3. MayHold(t, None)
  BY ReachNone DEF MayHold, Made
<1>4. None \in Memory!Known
  BY DEF Memory!Known
<1>5. QED
  BY <1>1, <1>2, <1>3, <1>4, TakeStep DEF Clear

LEMMA LoadStep ==
  ASSUME Shallow, IInv, NEW v \in Views, Load(v)
  PROVE  IInv' /\ Memory!Next
<1>1. PICK s \in Readable(v) :
        /\ root[s] # None
        /\ MayHold(Own(v), Links[root[s]])
        /\ Assign(heap, Own(v), Links[root[s]])
  BY DEF Load
<1>2. PICK K \in SUBSET Ents : Covers(heap, root, K, None)
  BY DEF IInv, Safe
<1>3. s \in Slots
  BY ReadableSlots
<1>4. root[s] \in K
  BY <1>1, <1>2, <1>3 DEF Covers, InUse
<1>5. Links[root[s]] \in K \cup {None}
  BY <1>2, <1>4 DEF Covers, InUse, Links
<1>6. Links[root[s]] \in Memory!Known
  BY <1>1, <1>3, KnownAre
<1>7. Own(v) \in Writable(v)
  BY DEF Writable
<1>8. QED
  BY <1>1, <1>2, <1>5, <1>6, <1>7, TakeStep DEF Load

(* A link is stored: where a local value leads to the container, the view    *)
(* must have made what is stored.                                            *)
Storable(h, r, x, c) ==
  \A w \in Views : x \in Memory!Reach({r[<<w, 1>>]}, Linked(h)) =>
    \A d \in Memory!Reach({c}, Linked(h)) : h.ent[d].cref = w

LEMMA LinkMade ==
  ASSUME NEW h \in Heaps, NEW g \in Heaps, NEW r, NEW x \in Ents, NEW c \in Values,
         g.ent[x].link = c,
         \A e \in Ents \ {x} : g.ent[e].link = h.ent[e].link,
         \A e \in Ents : g.ent[e].cref = h.ent[e].cref,
         MadeIn(h, r), Storable(h, r, x, c)
  PROVE  MadeIn(g, r)
<1> SUFFICES ASSUME NEW w \in Views
             PROVE  \A d \in Memory!Reach({r[<<w, 1>>]}, Linked(g)) : g.ent[d].cref = w
  BY DEF MadeIn
<1> DEFINE y == r[<<w, 1>>]
           H == Memory!Reach({y}, Linked(h))
           C == Memory!Reach({c}, Linked(h))
<1>1. /\ H \subseteq Ents /\ {y} \cap Ents \subseteq H
      /\ \A e \in H : h.ent[e].link \in H \cup {None}
  BY LinkedType, ReachClosed DEF Memory!Closed
<1>2. /\ C \subseteq Ents /\ {c} \cap Ents \subseteq C
      /\ \A e \in C : h.ent[e].link \in C \cup {None}
  BY LinkedType, ReachClosed DEF Memory!Closed
<1>3. \A d \in H : h.ent[d].cref = w
  BY DEF MadeIn
<1>4. x \in H => \A d \in C : h.ent[d].cref = w
  BY DEF Storable
<1> HIDE DEF y, H, C
<1>5. CASE x \in H
  <2> DEFINE S == H \cup C
  <2>1. S \in SUBSET Ents /\ {y} \cap Ents \subseteq S
    BY <1>1, <1>2
  <2>2. \A e \in S : g.ent[e].link \in S \cup {None}
    <3> TAKE e \in S
    <3>1. CASE e = x
      BY <1>2, <3>1 DEF Values
    <3>2. CASE e # x
      <4>1. g.ent[e].link = h.ent[e].link
        BY <2>1, <3>2
      <4>2. QED
        BY <1>1, <1>2, <4>1
    <3>3. QED
      BY <3>1, <3>2
  <2>3. Memory!Closed(S, Linked(g))
    BY <2>1, <2>2, LinkedType DEF Memory!Closed
  <2>4. Memory!Reach({y}, Linked(g)) \subseteq S
    BY <2>1, <2>3, ReachLeast
  <2>5. \A d \in S : g.ent[d].cref = w
    BY <1>3, <1>4, <1>5, <2>1
  <2>6. QED
    BY <2>4, <2>5 DEF y
<1>6. CASE x \notin H
  <2>1. \A e \in H : g.ent[e].link \in H \cup {None}
    BY <1>1, <1>6
  <2>2. Memory!Closed(H, Linked(g))
    BY <1>1, <2>1, LinkedType DEF Memory!Closed
  <2>3. Memory!Reach({y}, Linked(g)) \subseteq H
    BY <1>1, <2>2, ReachLeast
  <2>4. \A d \in H : g.ent[d].cref = w
    BY <1>1, <1>3
  <2>5. QED
    BY <2>3, <2>4 DEF y
<1>7. QED
  BY <1>5, <1>6

LEMMA SaveStep ==
  ASSUME Shallow, IInv, NEW v \in Views, Save(v)
  PROVE  IInv' /\ Memory!Next
<1>1. PICK s \in Readable(v), t \in Readable(v) :
        /\ root[s] # None
        /\ MayLink(root[s], root[t])
        /\ heap' \in Decref([Incref(heap, root[t]) EXCEPT !.ent[root[s]].link = root[t]],
                            Links[root[s]])
  BY DEF Save
<1>2. root' = root /\ tops' = tops
  BY DEF Save
<1>3. /\ MaxDepth = 1 /\ Features = {}
      /\ heap \in Heaps /\ root \in Roots /\ Sound(heap)
      /\ MadeIn(heap, root)
  BY DEF Shallow, IInv, Safe
<1>4. PICK K \in SUBSET Ents : Covers(heap, root, K, None)
  BY DEF IInv, Safe
<1>5. s \in Slots /\ t \in Slots
  BY ReadableSlots
<1> DEFINE x == root[s]
           c == root[t]
           i == Incref(heap, c)
           g == [i EXCEPT !.ent[x].link = c]
<1>6. x \in K /\ c \in K \cup {None} /\ x \in Ents /\ c \in Values
  BY <1>1, <1>4, <1>5 DEF Covers, InUse, Values
<1>7. heap' \in Decref(g, Links[x]) /\ MayLink(x, c)
  BY <1>1
<1> HIDE DEF x, c
<1>8. /\ i \in Heaps /\ Sound(i) /\ Covers(i, root, K, c)
      /\ \A e \in Ents : /\ i.ent[e].link = heap.ent[e].link
                         /\ i.ent[e].cref = heap.ent[e].cref
  BY <1>3, <1>4, <1>6, IncrefCovers
<1> HIDE DEF i
<1>9. /\ g \in Heaps
      /\ Sound(g)
      /\ Covers(g, root, K, i.ent[x].link)
      /\ i.ent[x].link \in K \cup {None}
      /\ g.ent[x].link = c
      /\ \A e \in Ents \ {x} : g.ent[e].link = i.ent[e].link
      /\ \A e \in Ents : g.ent[e].cref = i.ent[e].cref
  <2>1. /\ g \in Heaps
        /\ g.list = i.list
        /\ g.ent[x] = [i.ent[x] EXCEPT !.link = c]
        /\ \A d \in Ents \ {x} : g.ent[d] = i.ent[d]
    BY <1>6, <1>8, RelinkFacts
  <2> HIDE DEF g
  <2>2. i.ent[x] \in Entities
    BY <1>6, <1>8, HeapParts
  <2>3. Relinked(i, g, x, c)
    <3>1. /\ g.ent[x].link = c /\ g.ent[x].refs = i.ent[x].refs
          /\ g.ent[x].mark = i.ent[x].mark /\ g.ent[x].cref = i.ent[x].cref
      BY <2>1, <2>2 DEF Entities
    <3>2. QED
      BY <2>1, <3>1 DEF Relinked
  <2>4. QED
    BY <1>6, <1>8, <2>1, <2>3, LinkSwapped
<1> HIDE DEF g
<1>10. /\ Links[x] = i.ent[x].link
       /\ \A e \in Ents \ {x} : g.ent[e].link = heap.ent[e].link
       /\ \A e \in Ents : g.ent[e].cref = heap.ent[e].cref
  BY <1>6, <1>8, <1>9 DEF Links
<1>11. ASSUME NEW w \in Views, x \in Memory!Reach({root[<<w, 1>>]}, Linked(heap))
       PROVE  \A d \in Memory!Reach({c}, Linked(heap)) : heap.ent[d].cref = w
  <2>1. InC(w)
    <3>1. root[<<w, 1>>] # None
      BY <1>11, ReachNone
    <3>2. QED
      BY <3>1 DEF IInv, Running, InC
  <2>2. Own(w) = <<w, 1>>
    BY <2>1, OwnIs
  <2>3. x \in Held(w)
    BY <1>11, <2>2, LinksAre DEF Held
  <2>4. Made(w, c)
    BY <1>3, <1>7, <2>1, <2>3 DEF MayLink
  <2>5. QED
    BY <2>4, LinksAre DEF Made
<1>12. MadeIn(g, root)
  <2>1. /\ heap \in Heaps /\ g \in Heaps /\ x \in Ents /\ c \in Values
        /\ g.ent[x].link = c
        /\ \A e \in Ents \ {x} : g.ent[e].link = heap.ent[e].link
        /\ \A e \in Ents : g.ent[e].cref = heap.ent[e].cref
        /\ MadeIn(heap, root)
    BY <1>3, <1>6, <1>9, <1>10
  <2>2. Storable(heap, root, x, c)
    BY <1>11 DEF Storable
  <2>3. QED
    BY <2>1, <2>2, LinkMade
<1>13. /\ heap' \in Heaps /\ Sound(heap')
       /\ \E L \in SUBSET K : Covers(heap', root, L, None) /\ Same(g, heap', L)
  <2>1. Covers(g, root, K, Links[x]) /\ Links[x] \in K \cup {None}
    BY <1>9, <1>10
  <2>2. QED
    BY <1>7, <1>9, <2>1, DecrefFacts
<1>14. PICK L \in SUBSET K : Covers(heap', root, L, None) /\ Same(g, heap', L)
  BY <1>13
<1>15. L \in SUBSET Ents /\ \A e \in L : heap'.ent[e].link = g.ent[e].link
  BY <1>14 DEF Same
<1>16. MadeIn(heap', root)
  BY <1>3, <1>9, <1>12, <1>13, <1>14, <1>15, MadeSame
<1>17. Safe(heap', root)
  BY <1>3, <1>8, <1>9, <1>13, <1>14, <1>15, <1>16 DEF Safe
<1>18. \A e \in Memory!Reachable(root, Linked(g)) : Linked(heap')[e] = Linked(g)[e]
  BY <1>3, <1>9, <1>13, <1>14, <1>15, LiveKept
<1>19. Linked(g) = [Linked(heap) EXCEPT ![x] = c]
  BY <1>6, <1>9, <1>10 DEF Linked
<1>20. x \in Memory!Held \ {None} /\ c \in Memory!Held
  BY <1>5, <1>6, Constants DEF Memory!Held, x, c
<1>21. Memory!Save
  <2>1. \A e \in Memory!Reachable(root, [Linked(heap) EXCEPT ![x] = c]) :
          Linked(heap')[e] = [Linked(heap) EXCEPT ![x] = c][e]
    BY <1>18, <1>19
  <2>2. QED
    BY <1>2, <1>20, <2>1 DEF Memory!Save, Memory!Kept, Linked
<1>22. Memory!Next
  BY <1>21 DEF Memory!Next
<1>23. Running'
  BY <1>2 DEF IInv, Running
<1>24. QED
  BY <1>2, <1>17, <1>22, <1>23 DEF IInv

LEMMA EnterStep ==
  ASSUME Shallow, IInv, NEW v \in Views, EnterC(v)
  PROVE  IInv' /\ Memory!Next
<1> DEFINE top == IF heap.list = << >> THEN None ELSE Head(heap.list)
<1>1. heap' = heap /\ root' = root
  BY DEF EnterC
<1>2. tops' = [tops EXCEPT ![v] = Append(@, top)] /\ Len(tops[v]) < MaxDepth
  BY DEF EnterC
<1>3. heap.list \in Seq(Ents) /\ tops \in [Views -> Seq(Values)] /\ MaxDepth = 1
  BY HeapParts DEF IInv, Safe, Running, Shallow
<1>4. top \in Values
  <2>1. heap.list # << >> => Head(heap.list) \in Ents
    BY <1>3, HeadTailProperties
  <2>2. QED
    BY <2>1 DEF Values
<1> HIDE DEF top
<1>5. /\ Append(tops[v], top) \in Seq(Values)
      /\ Len(Append(tops[v], top)) = Len(tops[v]) + 1
      /\ Append(tops[v], top) # << >>
  BY <1>3, <1>4, AppendProperties
<1>6. /\ tops' \in [Views -> Seq(Values)]
      /\ tops'[v] = Append(tops[v], top)
      /\ \A w \in Views \ {v} : tops'[w] = tops[w]
  BY <1>2, <1>3, <1>5
<1>7. Len(tops'[v]) <= MaxDepth
  <2>1. Len(tops[v]) \in Nat
    BY <1>3
  <2>2. QED
    BY <1>2, <1>3, <1>5, <1>6, <2>1
<1>8. Running'
  BY <1>1, <1>5, <1>6, <1>7 DEF IInv, Running
<1>9. Memory!Forget
  BY <1>1 DEF Memory!Forget, Memory!Kept
<1>10. QED
  BY <1>1, <1>8, <1>9 DEF IInv, Memory!Next

LEMMA NewStep ==
  ASSUME Shallow, IInv, NEW v \in Views, New(v)
  PROVE  IInv' /\ Memory!Next
<1> DEFINE inC == InC(v)
<1>0. PICK t \in Slots : t = Own(v)
  BY OwnIs
<1>1. PICK wake \in Wakes(heap, v, inC) : Assign(wake.h, t, wake.e)
  BY <1>0 DEF New
<1>2. tops' = tops
  BY DEF New
<1>3. /\ MaxDepth = 1 /\ heap \in Heaps /\ root \in Roots
      /\ Sound(heap) /\ MadeIn(heap, root)
  BY DEF Shallow, IInv, Safe
<1>4. PICK K \in SUBSET Ents : Covers(heap, root, K, None)
  BY DEF IInv, Safe
<1> DEFINE e == wake.e
           g == wake.h
<1>5. /\ e \in Ents \ K
      /\ g \in Heaps /\ Sound(g)
      /\ g.ent[e] = Fresh(v, inC)
      /\ \A d \in Ents \ {e} : g.ent[d] = heap.ent[d]
      /\ Range(g.list) = Range(heap.list) \cup {e}
  <2>1. inC \in BOOLEAN
    BY DEF InC
  <2>2. QED
    BY <1>3, <1>4, <2>1, WakesFacts
<1>6. /\ g.ent[e].refs = 0 /\ g.ent[e].mark = "red" /\ g.ent[e].link = None
      /\ inC => g.ent[e].cref = v
  BY <1>5 DEF Fresh
<1>7. heap' \in Decref(Incref(g, e), root[t]) /\ root' = [root EXCEPT ![t] = e]
  BY <1>1 DEF Assign
<1> HIDE DEF e, g
<1>8. /\ t \in Slots
      /\ \A w \in Views : t = <<w, 1>> => w = v /\ inC
      /\ \A w \in Views : <<w, 1>> \in Slots
  BY <1>0, OwnIs
<1> HIDE DEF inC
<1> DEFINE M == K \cup {e}
<1>9. Covers(g, root, K, None) /\ Covers(g, root, M, None)
  BY <1>3, <1>4, <1>5, <1>6, WakeCovers
<1>10. M \in SUBSET Ents /\ e \in M /\ e \in Ents /\ e # None
  BY <1>5, Constants
<1>11. MadeIn(g, root)
  <2>1. Same(heap, g, K)
    BY <1>5 DEF Same
  <2>2. QED
    BY <1>3, <1>5, <1>9, <2>1, MadeSame
<1>12. ASSUME NEW w \in Views, t = <<w, 1>>
       PROVE  \A c \in Memory!Reach({e}, Linked(g)) : g.ent[c].cref = w
  <2>1. Memory!Closed({e}, Linked(g)) /\ {e} \cap Ents \subseteq {e} /\ {e} \in SUBSET Ents
    BY <1>5, <1>6, <1>10, LinkedType DEF Memory!Closed
  <2>2. Memory!Reach({e}, Linked(g)) \subseteq {e}
    BY <2>1, ReachLeast
  <2>3. QED
    BY <1>6, <1>8, <1>12, <2>2
<1> DEFINE q == [root EXCEPT ![t] = e]
<1>13. MadeIn(g, q)
  BY <1>3, <1>8, <1>11, <1>12, MadePut
<1>14. q \in Roots /\ q[t] = e /\ \A s \in Slots \ {t} : q[s] = root[s]
  BY <1>3, <1>8, <1>10 DEF Roots, Values
<1>15. root' = q
  BY <1>7
<1> HIDE DEF q, M
<1>16. /\ Safe(heap', q)
       /\ \E L \in SUBSET M : Covers(heap', q, L, None) /\ Same(g, heap', L)
  <2>1. heap' \in Decref(Incref(g, e), root[t])
    BY <1>7
  <2>2. QED
    BY <1>3, <1>5, <1>8, <1>9, <1>10, <1>13, <1>14, <2>1, AssignFacts
<1>17. PICK L \in SUBSET M : Covers(heap', q, L, None) /\ Same(g, heap', L)
  BY <1>16
<1>18. e \in L /\ heap'.ent[e].link = None
  <2>1. e \in L
    BY <1>8, <1>10, <1>14, <1>17 DEF Covers, InUse
  <2>2. QED
    BY <1>6, <1>17, <2>1 DEF Same
(* Nothing in use before leads to the new value.                             *)
<1> DEFINE r == [root EXCEPT ![t] = None]
           S == L \ {e}
<1>19. \A s \in Slots : r[s] \in S \cup {None}
  <2> TAKE s \in Slots
  <2>1. CASE s = t
    BY <1>3, <1>8, <2>1 DEF Roots
  <2>2. CASE s # t
    <3>1. r[s] = root[s] /\ q[s] = root[s]
      BY <1>3, <1>8, <1>14, <2>2 DEF Roots
    <3>2. root[s] \in K \cup {None} /\ q[s] \in L \cup {None}
      BY <1>4, <1>17 DEF Covers, InUse
    <3>3. QED
      BY <1>5, <3>1, <3>2
  <2>3. QED
    BY <2>1, <2>2
<1>20. ASSUME NEW d \in S
       PROVE  /\ d \in Ents /\ Linked(heap)[d] \in S \cup {None}
              /\ Linked(heap')[d] = Linked(heap)[d]
  <2>1. d \in K /\ d \in Ents /\ d # e /\ d \in L
    BY <1>17, <1>20 DEF M
  <2>2. heap.ent[d].link \in K \cup {None}
    BY <1>4, <2>1 DEF Covers, InUse
  <2>3. heap'.ent[d].link \in L \cup {None} /\ heap'.ent[d].link = g.ent[d].link
    BY <1>17, <2>1 DEF Covers, InUse, Same
  <2>4. g.ent[d].link = heap.ent[d].link
    BY <1>5, <2>1
  <2>5. QED
    BY <1>5, <2>1, <2>2, <2>3, <2>4 DEF Linked
<1> HIDE DEF r, S
<1>21. Memory!Reachable(r, Linked(heap)) \subseteq S
  <2>1. S \in SUBSET Ents /\ {r[s] : s \in Slots} \cap Ents \subseteq S
    BY <1>19, <1>20, Constants
  <2>2. Memory!Closed(S, Linked(heap))
    BY <1>20 DEF Memory!Closed
  <2>3. QED
    BY <2>1, <2>2, ReachLeast DEF Memory!Reachable
<1>22. e \notin Memory!Reachable(root, Linked(heap))
  <2>1. Memory!Reachable(root, Linked(heap)) \subseteq K
    BY <1>3, <1>4, CoverLive
  <2>2. QED
    BY <1>5, <2>1
<1>23. Memory!Make(t)
  <2>1. root'[t] = e /\ root' = [root EXCEPT ![t] = root'[t]]
    BY <1>7, <1>14, <1>15
  <2>2. \A d \in Memory!Reachable([root EXCEPT ![t] = None], Linked(heap)) :
          Linked(heap')[d] = Linked(heap)[d]
    BY <1>20, <1>21 DEF r
  <2>3. Linked(heap')[e] = None
    BY <1>10, <1>18 DEF Linked
  <2>4. QED
    BY <1>10, <1>22, <2>1, <2>2, <2>3 DEF Memory!Make, Memory!Kept, Linked
<1>24. Memory!Next
  BY <1>8, <1>23 DEF Memory!Next
<1>25. Running'
  <2>1. ASSUME NEW w \in Views, tops'[w] = << >>
        PROVE  root'[<<w, 1>>] = None
    <3>1. t # <<w, 1>>
      BY <1>2, <1>8, <2>1 DEF InC, inC
    <3>2. root[<<w, 1>>] = None
      BY <1>2, <2>1 DEF IInv, Running
    <3>3. QED
      BY <1>8, <1>14, <1>15, <3>1, <3>2
  <2>2. QED
    BY <1>2, <2>1 DEF IInv, Running
<1>26. QED
  BY <1>15, <1>16, <1>24, <1>25 DEF IInv

(* What is still in use is as it was.                                         *)
Remains(h, g, r, K) ==
  \E L \in SUBSET K : Covers(g, r, L, None) /\ Same(h, g, L)

(* The value that is returned is in use until the target of the call has it. *)
LEMMA ReturnFacts ==
  ASSUME MaxDepth = 1, NEW v \in Views, NEW h \in Heaps, NEW r \in Roots,
         NEW K \in SUBSET Ents, NEW e \in K \cup {None},
         Sound(h), Covers(h, r, K, e), MadeIn(h, r),
         NEW q \in Roots, q[v] = e, \A s \in Slots \ {v} : q[s] = r[s],
         NEW g \in Decref(h, r[v])
  PROVE  /\ Safe(g, q)
         /\ Remains(h, g, q, K)
<1>1. v \in Slots /\ \A w \in Views : <<w, 1>> \in Slots /\ <<w, 1>> # v
  BY LocalsAre
<1>2. Covers(h, q, K, r[v]) /\ r[v] \in K \cup {None}
  <2>1. v \in Slots
    BY <1>1
  <2>2. QED
    BY <2>1, SlotSwapped, ZenonT(60)
<1>3. /\ g \in Heaps /\ Sound(g)
      /\ \E L \in SUBSET K : Covers(g, q, L, None) /\ Same(h, g, L)
  BY <1>2, DecrefFacts
<1>4. PICK L \in SUBSET K : Covers(g, q, L, None) /\ Same(h, g, L)
  BY <1>3
<1>5. MadeIn(h, q)
  <2>1. \A w \in Views : q[<<w, 1>>] = r[<<w, 1>>]
    BY <1>1
  <2>2. QED
    BY <2>1 DEF MadeIn
<1>6. L \in SUBSET Ents
  BY <1>4
<1>7. MadeIn(g, q)
  BY <1>3, <1>4, <1>5, <1>6, MadeSame
<1>8. QED
  BY <1>3, <1>4, <1>6, <1>7 DEF Safe, Remains

LEMMA ReturnStep ==
  ASSUME Shallow, IInv, NEW v \in Views, Return(v)
  PROVE  IInv' /\ Memory!Next
<1> DEFINE from == <<v, 1>>
<1>1. InC(v) /\ Own(v) = from /\ Len(tops[v]) = 1
  BY OwnIs DEF Return
<1>2. /\ \E e \in {None, root[from]} :
           \E left \in IF e = None THEN Decref(heap, root[from]) ELSE {heap} :
             /\ heap' \in Decref(Released(left, v), root[v])
             /\ root' = [root EXCEPT ![v] = e, ![from] = None]
      /\ tops' = [tops EXCEPT ![v] = Front(@)]
  BY <1>1 DEF Return
<1>3. PICK e \in {None, root[from]} :
        \E left \in IF e = None THEN Decref(heap, root[from]) ELSE {heap} :
          /\ heap' \in Decref(Released(left, v), root[v])
          /\ root' = [root EXCEPT ![v] = e, ![from] = None]
  BY <1>2
<1>4. PICK left \in IF e = None THEN Decref(heap, root[from]) ELSE {heap} :
          /\ heap' \in Decref(Released(left, v), root[v])
          /\ root' = [root EXCEPT ![v] = e, ![from] = None]
  BY <1>3
<1>5. /\ MaxDepth = 1 /\ heap \in Heaps /\ root \in Roots
      /\ Sound(heap) /\ MadeIn(heap, root)
  BY DEF Shallow, IInv, Safe
<1>6. PICK K \in SUBSET Ents : Covers(heap, root, K, None)
  BY DEF IInv, Safe
<1>7. v \in Slots /\ from \in Slots /\ from # v
  BY OwnIs
<1>8. \A w \in Views : <<w, 1>> \in Slots /\ <<w, 1>> # v
  BY OwnIs
<1> DEFINE r == [root EXCEPT ![from] = None]
           x == root[from]
<1>9. r \in Roots /\ r[from] = None /\ \A s \in Slots \ {from} : r[s] = root[s]
  BY <1>5, <1>7 DEF Roots, Values
<1>10. MadeIn(heap, r)
  BY <1>5, <1>7, ReachNone, MadePut
<1> HIDE DEF r
<1>11. Covers(heap, r, K, x) /\ x \in K \cup {None}
  BY <1>5, <1>6, <1>7, <1>9, SlotSwapped
<1> HIDE DEF x
<1>12. /\ left \in Heaps /\ Sound(left) /\ MadeIn(left, r)
       /\ \E L \in SUBSET K : /\ Covers(left, r, L, e) /\ e \in L \cup {None}
                              /\ \A d \in L : left.ent[d].link = heap.ent[d].link
  <2>1. CASE e = None
    <3>1. left \in Decref(heap, x)
      BY <2>1 DEF x
    <3>2. /\ left \in Heaps /\ Sound(left)
          /\ \E L \in SUBSET K : Covers(left, r, L, None) /\ Same(heap, left, L)
      BY <1>5, <1>11, <3>1, DecrefFacts
    <3>3. PICK L \in SUBSET K : Covers(left, r, L, None) /\ Same(heap, left, L)
      BY <3>2
    <3>4. L \in SUBSET Ents /\ \A d \in L : left.ent[d].link = heap.ent[d].link
      BY <3>3 DEF Same
    <3>5. MadeIn(left, r)
      BY <1>5, <1>9, <1>10, <3>2, <3>3, <3>4, MadeSame
    <3>6. QED
      BY <2>1, <3>2, <3>3, <3>4, <3>5
  <2>2. CASE e # None
    <3>1. left = heap /\ e = x
      BY <2>2 DEF x
    <3>2. QED
      BY <1>5, <1>10, <1>11, <3>1
  <2>3. QED
    BY <2>1, <2>2
<1>13. PICK L \in SUBSET K : /\ Covers(left, r, L, e) /\ e \in L \cup {None}
                             /\ \A d \in L : left.ent[d].link = heap.ent[d].link
  BY <1>12
<1> DEFINE q == [root EXCEPT ![v] = e, ![from] = None]
<1>14. /\ q \in Roots /\ q[v] = e /\ q[from] = None
       /\ \A s \in Slots \ {v} : q[s] = r[s]
  <2>1. e \in Values
    BY <1>13 DEF Values
  <2>2. /\ q \in Roots /\ q[v] = e /\ q[from] = None
        /\ \A s \in Slots \ {v, from} : q[s] = root[s]
    BY <1>5, <1>7, <2>1 DEF Roots, Values
  <2>3. QED
    BY <1>9, <2>2
<1>15. root' = q /\ r[v] = root[v]
  BY <1>4, <1>7, <1>9
<1> HIDE DEF q
<1> DEFINE i == Released(left, v)
<1>16. /\ i \in Heaps /\ Sound(i)
       /\ Covers(i, r, L, e) /\ MadeIn(i, r)
       /\ \A d \in Ents : i.ent[d].link = left.ent[d].link
  <2>1. r[<<v, 1>>] = None /\ L \in SUBSET Ents
    BY <1>9
  <2>2. QED
    BY <1>9, <1>12, <1>13, <2>1, ReleasedFacts
<1>17. heap' \in Decref(i, r[v])
  BY <1>4, <1>15
<1> HIDE DEF i
<1>25. /\ Safe(heap', q)
       /\ \E M \in SUBSET L : Covers(heap', q, M, None) /\ Same(i, heap', M)
  <2>1. L \in SUBSET Ents /\ e \in L \cup {None}
    BY <1>13
  <2>2. r \in Roots /\ q \in Roots /\ q[v] = e /\ \A s \in Slots \ {v} : q[s] = r[s]
    BY <1>9, <1>14
  <2>3. MaxDepth = 1
    BY <1>5
  <2>4. /\ i \in Heaps /\ Sound(i)
        /\ Covers(i, r, L, e) /\ MadeIn(i, r)
    BY <1>16
  <2> HIDE DEF from
  <2>5. Safe(heap', q)
    BY <1>17, <2>1, <2>2, <2>3, <2>4, ReturnFacts, Zenon
  <2>6. Remains(i, heap', q, L)
    BY <1>17, <2>1, <2>2, <2>3, <2>4, ReturnFacts, Zenon
  <2>7. QED
    BY <2>5, <2>6 DEF Remains
<1>26. PICK M \in SUBSET L : Covers(heap', q, M, None) /\ Same(i, heap', M)
  BY <1>25
<1>18. \A d \in Memory!Reachable(q, Linked(heap)) : Linked(heap')[d] = Linked(heap)[d]
  <2>1. /\ M \in SUBSET Ents /\ heap' \in Heaps
        /\ \A d \in M : heap'.ent[d].link = heap.ent[d].link
    BY <1>13, <1>16, <1>25, <1>26 DEF Safe, Same
  <2>2. QED
    BY <1>5, <1>14, <1>26, <2>1, LiveKept
<1>19. Memory!Kept(root', Linked(heap))
  BY <1>15, <1>18 DEF Memory!Kept, Linked
<1>20. Memory!Move(<<v, 1>>, v) \/ Memory!Clear(<<v, 1>>, v)
  <2>1. CASE e = None
    <3>1. root' = [root EXCEPT ![v] = None, ![<<v, 1>>] = None]
      BY <1>4, <2>1
    <3>2. QED
      BY <1>19, <3>1 DEF Memory!Clear, Linked
  <2>2. CASE e # None
    <3>1. root' = [root EXCEPT ![v] = root[<<v, 1>>], ![<<v, 1>>] = None]
      BY <1>4, <2>2
    <3>2. QED
      BY <1>19, <3>1 DEF Memory!Move, Linked
  <2>3. QED
    BY <2>1, <2>2
<1>21. Memory!Next
  BY <1>7, <1>20 DEF Memory!Next
<1>22. /\ tops' \in [Views -> Seq(Values)] /\ tops'[v] = << >>
       /\ \A w \in Views \ {v} : tops'[w] = tops[w]
  <2>1. tops \in [Views -> Seq(Values)]
    BY DEF IInv, Running
  <2>2. Front(tops[v]) = << >>
    BY <1>1, <2>1 DEF Front
  <2>3. << >> \in Seq(Values)
    OBVIOUS
  <2>4. QED
    BY <1>2, <2>1, <2>2, <2>3
<1>23. Running'
  <2>1. Len(tops'[v]) <= MaxDepth
    BY <1>5, <1>22
  <2>2. ASSUME NEW w \in Views, w # v
        PROVE  Len(tops'[w]) <= MaxDepth /\ (tops'[w] = << >> => root'[<<w, 1>>] = None)
    <3>1. <<w, 1>> \in Slots \ {v, from}
      BY <1>8, <2>2
    <3>2. root'[<<w, 1>>] = root[<<w, 1>>]
      BY <1>9, <1>14, <1>15, <3>1
    <3>3. QED
      BY <1>22, <2>2, <3>2 DEF IInv, Running
  <2>3. QED
    BY <1>14, <1>15, <1>22, <2>1, <2>2 DEF Running
<1>24. QED
  BY <1>15, <1>25, <1>21, <1>23 DEF IInv

(* The collector keeps what slots lead to: what it has marked, and what the  *)
(* C function of the collecting view has made.                               *)
LEMMA SweepFacts ==
  ASSUME heap \in Heaps, Sound(heap), NEW K \in SUBSET Ents,
         Covers(heap, root, K, None), NEW marks \in [Ents -> Colours],
         \A e \in K : marks[e] = "green"
  PROVE  LET g == Sweep(marks)
         IN  /\ g \in Heaps /\ Sound(g)
             /\ Covers(g, root, K, None) /\ \A e \in K : g.ent[e].link = heap.ent[e].link
             /\ Same(heap, g, K)
<1> DEFINE kept == {e \in Listed(heap) : marks[e] = "green"}
           l == Sublist(heap.list, kept)
           ent == [e \in Ents |-> IF e \in kept THEN [heap.ent[e] EXCEPT !.mark = "red"]
                                  ELSE Blank]
           g == Sweep(marks)
<1>1. g = [list |-> l, ent |-> ent]
  BY Zenon DEF Sweep
<1>2. /\ l \in Seq(Ents) /\ IsInjective(l) /\ Range(l) = Range(heap.list) \cap kept
  BY HeapParts, SublistFacts DEF Sound
<1>3. Range(l) = kept /\ kept \subseteq Ents
  BY <1>2, HeapParts DEF Listed
<1>4. K \subseteq kept
  BY DEF Covers, InUse, Listed
<1> HIDE DEF l, kept
<1>5. \A e \in Ents : /\ ent[e] \in Entities /\ ent[e].mark = "red"
                      /\ ent[e].refs >= 0
  <2> TAKE e \in Ents
  <2>1. CASE e \in kept
    <3>1. heap.ent[e] \in Entities /\ heap.ent[e].refs >= 0
      BY HeapParts DEF Sound
    <3>2. ent[e] = [heap.ent[e] EXCEPT !.mark = "red"]
      BY <2>1
    <3> HIDE DEF ent
    <3>3. QED
      BY <3>1, <3>2 DEF Entities
  <2>2. CASE e \notin kept
    <3>1. ent[e] = Blank
      BY <2>2
    <3> HIDE DEF ent
    <3>2. QED
      BY <3>1, BlankType DEF Blank
  <2>3. QED
    BY <2>1, <2>2
<1>6. ASSUME NEW e \in K
      PROVE  /\ ent[e].refs = heap.ent[e].refs /\ ent[e].link = heap.ent[e].link
             /\ ent[e].cref = heap.ent[e].cref
  <2>1. heap.ent[e] \in Entities /\ ent[e] = [heap.ent[e] EXCEPT !.mark = "red"]
    BY <1>4, HeapParts
  <2> HIDE DEF ent
  <2>2. QED
    BY <2>1 DEF Entities
<1>7. ent \in [Ents -> Entities]
  BY <1>5
<1> HIDE DEF ent
<1>9. /\ g \in Heaps /\ g.list = l /\ g.ent = ent
  BY <1>1, <1>2, <1>7 DEF Heaps
<1> HIDE DEF g
<1>12. \A e \in Ents : g.ent[e].refs >= 0
  BY <1>5, <1>9
<1>13. Sound(g)
  BY <1>2, <1>9, <1>12 DEF Sound
<1>14. InUse(g, root, K)
  <2>1. K \subseteq Range(g.list)
    BY <1>3, <1>4, <1>9
  <2>2. \A e \in K : g.ent[e].mark = "red" /\ g.ent[e].link \in K \cup {None}
    BY <1>5, <1>6, <1>9 DEF Covers, InUse
  <2>3. QED
    BY <2>1, <2>2 DEF Covers, InUse
<1>15. ASSUME NEW e \in K
       PROVE  g.ent[e].refs >= Count(g, root, K, e) + (IF e = None THEN 1 ELSE 0)
  <2>1. LinksTo(g, K, e) = LinksTo(heap, K, e)
    BY <1>6, <1>9 DEF LinksTo
  <2>2. Count(g, root, K, e) = Count(heap, root, K, e)
    BY <2>1 DEF Count
  <2>3. QED
    BY <1>6, <1>9, <2>2 DEF Covers
<1>16. Covers(g, root, K, None)
  BY <1>14, <1>15 DEF Covers
<1>17. Same(heap, g, K) /\ \A e \in K : g.ent[e].link = heap.ent[e].link
  BY <1>6, <1>9 DEF Same
<1>18. QED
  BY <1>9, <1>13, <1>16, <1>17 DEF g

LEMMA CollectStep ==
  ASSUME Shallow, IInv, NEW v \in Views, Collect(v)
  PROVE  IInv' /\ Memory!Next
<1>1. /\ \A w \in Views \ {v} : ~InC(w)
      /\ heap' = Sweep(Presweep(Marks.mark)) /\ root' = root /\ tops' = tops
  BY DEF Collect
<1>2. /\ MaxDepth = 1 /\ heap \in Heaps /\ root \in Roots
      /\ Sound(heap) /\ MadeIn(heap, root)
  BY DEF Shallow, IInv, Safe
<1> DEFINE K == Memory!Reachable(root, Linked(heap))
           start == {root[s] : s \in Slots}
<1>3. K = Memory!Reach(start, Linked(heap))
  BY DEF Memory!Reachable
<1>4. Covers(heap, root, K, None) /\ K \in SUBSET Ents
  <2>1. PICK M \in SUBSET Ents : Covers(heap, root, M, None)
    BY DEF IInv, Safe
  <2>2. QED
    BY <1>2, <2>1, CoverLive
<1>5. InUse(heap, root, K)
  BY <1>4 DEF Covers
<1> HIDE DEF K
<1>6. /\ Marks.y = 0 /\ Marking(Marks, None, K)
      /\ \A s \in Slots \ Locals : root[s] # None => Marks.mark[root[s]] = "green"
  BY <1>2, <1>4, <1>5, MarksFacts
<1> DEFINE m == Marks
           marks == Presweep(m.mark)
           green == {e \in K : m.mark[e] = "green"}
           local(w) == Memory!Reach({root[<<w, 1>>]}, Linked(heap))
           made == UNION {local(w) : w \in Views}
           G == green \cup made
<1>7. /\ m \in Markings /\ Yellows(m) = {}
      /\ \A e \in green : heap.ent[e].link \in green \cup {None}
  <2>1. m \in Markings /\ m.y = 0
    BY <1>6 DEF Marking
  <2> HIDE DEF m
  <2>2. Yellows(m) = {}
    <3>1. IsFiniteSet(Yellows(m))
      BY <2>1, MarkingParts
    <3>2. Cardinality(Yellows(m)) = 0
      BY <1>6, <2>1 DEF Marking, m
    <3>3. QED
      BY <3>1, <3>2, FS_EmptySet
  <2>3. ASSUME NEW e \in green
        PROVE  heap.ent[e].link \in green \cup {None}
    <3> DEFINE c == heap.ent[e].link
    <3>1. c = None \/ Lit(m, c)
      BY <1>6 DEF Marking, m
    <3>2. c \in K \cup {None}
      BY <1>5 DEF InUse
    <3>3. c # None => c \in Ents /\ m.mark[c] # "yellow"
      BY <1>4, <2>2, <3>2 DEF Yellows
    <3>4. QED
      BY <3>1, <3>2, <3>3 DEF Lit
  <2>4. QED
    BY <2>1, <2>2, <2>3
<1> HIDE DEF m
<1>8. ASSUME NEW w \in Views
      PROVE  /\ local(w) \subseteq Ents
             /\ {root[<<w, 1>>]} \cap Ents \subseteq local(w)
             /\ \A e \in local(w) : /\ heap.ent[e].link \in local(w) \cup {None}
                                    /\ heap.ent[e].cref = w
  <2>1. /\ local(w) \subseteq Ents
        /\ {root[<<w, 1>>]} \cap Ents \subseteq local(w)
        /\ Memory!Closed(local(w), Linked(heap))
    BY <1>2, LinkedType, ReachClosed
  <2>2. \A e \in local(w) : heap.ent[e].cref = w
    BY <1>2 DEF MadeIn
  <2> HIDE DEF local
  <2>3. QED
    BY <1>2, <2>1, <2>2, LinkedType DEF Memory!Closed
<1> HIDE DEF local, green
<1>9. /\ made \subseteq Ents
      /\ \A e \in made : heap.ent[e].link \in made \cup {None} /\ heap.ent[e].cref # None
  <2>1. ASSUME NEW e \in made
        PROVE  /\ e \in Ents
               /\ heap.ent[e].link \in made \cup {None} /\ heap.ent[e].cref # None
    <3>1. PICK w \in Views : e \in local(w)
      BY <2>1
    <3>2. local(w) \subseteq made
      OBVIOUS
    <3> HIDE DEF made
    <3>3. QED
      BY <1>8, <3>1, <3>2, Constants
  <2>2. QED
    BY <2>1
<1>10. \A w \in Views : {root[<<w, 1>>]} \cap Ents \subseteq made
  BY <1>8
<1> HIDE DEF made
<1>11. G \in SUBSET Ents /\ \A e \in G : heap.ent[e].link \in G \cup {None}
  BY <1>4, <1>7, <1>9 DEF green
<1>12. start \cap Ents \subseteq G
  <2> SUFFICES ASSUME NEW s \in Slots, root[s] \in Ents
               PROVE  root[s] \in G
    OBVIOUS
  <2>1. CASE s \in Locals
    <3>1. PICK w \in Views : s = <<w, 1>>
      BY <1>2, <2>1, LocalsAre
    <3>2. QED
      BY <1>10, <3>1
  <2>2. CASE s \notin Locals
    <3>1. root[s] \in K \cup {None} /\ root[s] # None
      BY <1>5, Constants DEF InUse
    <3>2. m.mark[root[s]] = "green"
      BY <1>6, <2>2, <3>1 DEF m
    <3>3. QED
      BY <3>1, <3>2 DEF green
  <2>3. QED
    BY <2>1, <2>2
<1>13. K \subseteq G
  <2>1. Memory!Closed(G, Linked(heap))
    BY <1>2, <1>11, LinkedType DEF Memory!Closed
  <2>2. QED
    BY <1>3, <1>11, <1>12, <2>1, ReachLeast
<1>14. marks \in [Ents -> Colours] /\ \A e \in K : marks[e] = "green"
  <2>1. m.mark \in [Ents -> Colours]
    BY <1>7, MarkingParts
  <2>2. marks \in [Ents -> Colours]
    BY <2>1 DEF Presweep, Colours
  <2>3. ASSUME NEW e \in K
        PROVE  marks[e] = "green"
    <3>1. e \in Ents /\ (heap.ent[e].cref # None \/ m.mark[e] = "green")
      BY <1>4, <1>9, <1>13 DEF green
    <3>2. QED
      BY <3>1 DEF Presweep
  <2>4. QED
    BY <2>2, <2>3
<1> HIDE DEF marks
<1>15. heap' = Sweep(marks)
  BY <1>1 DEF marks, m
<1> HIDE DEF G
<1>16. /\ heap' \in Heaps /\ Sound(heap')
       /\ Covers(heap', root, K, None) /\ Same(heap, heap', K)
       /\ \A e \in K : heap'.ent[e].link = heap.ent[e].link
  <2>1. LET g == Sweep(marks)
        IN  /\ g \in Heaps /\ Sound(g)
            /\ Covers(g, root, K, None) /\ \A e \in K : g.ent[e].link = heap.ent[e].link
            /\ Same(heap, g, K)
    BY <1>2, <1>4, <1>14, SweepFacts
  <2>2. QED
    BY <1>15, <2>1
<1>17. MadeIn(heap', root)
  BY <1>2, <1>4, <1>16, MadeSame
<1>18. Safe(heap', root)
  BY <1>2, <1>4, <1>16, <1>17 DEF Safe
<1>19. \A e \in Memory!Reachable(root, Linked(heap)) : Linked(heap')[e] = Linked(heap)[e]
  BY <1>2, <1>4, <1>16, LiveKept
<1>20. Memory!Forget
  BY <1>1, <1>19 DEF Memory!Forget, Memory!Kept, Linked
<1>21. Memory!Next
  BY <1>20 DEF Memory!Next
<1>22. Running'
  BY <1>1 DEF IInv, Running
<1>23. QED
  BY <1>1, <1>18, <1>21, <1>22 DEF IInv

-----------------------------------------------------------------------------
(* The theorems.  They are about C functions that do not call C functions    *)
(* and hold only what they have made (Shallow): with deeper calls, or with a *)
(* value taken from elsewhere, the collector frees what is in use.           *)

LEMMA InitOK ==
  ASSUME Shallow, Init
  PROVE  IInv /\ Memory!Init
<1>1. /\ heap = [list |-> << >>, ent |-> [e \in Ents |-> Blank]]
      /\ root = [s \in Slots |-> None]
      /\ tops = [v \in Views |-> << >>]
  BY DEF Init
<1>2. heap.list = << >> /\ << >> \in Seq(Ents) /\ Range(heap.list) = {} /\ IsInjective(heap.list)
  BY <1>1 DEF Range, IsInjective
<1>3. heap.ent \in [Ents -> Entities] /\ \A e \in Ents : heap.ent[e] = Blank
  BY <1>1, BlankType
<1>6. heap \in Heaps
  BY <1>1, <1>2, <1>3 DEF Heaps
<1>8. \A e \in Ents : heap.ent[e].refs >= 0
  BY <1>3 DEF Blank
<1>9. Sound(heap)
  BY <1>2, <1>8 DEF Sound
<1>10. root \in Roots /\ \A s \in Slots : root[s] = None
  BY <1>1 DEF Roots, Values
<1>11. Covers(heap, root, {}, None)
  BY <1>2, <1>10 DEF Covers, InUse
<1>12. \A v \in Views : <<v, 1>> \in Slots
  BY LocalsAre DEF Shallow
<1>13. MadeIn(heap, root)
  <2>1. \A v \in Views : root[<<v, 1>>] = None
    BY <1>10, <1>12
  <2>2. QED
    BY <2>1, ReachNone DEF MadeIn
<1>14. Safe(heap, root)
  <2>1. \E K \in SUBSET Ents : Covers(heap, root, K, None)
    BY <1>11
  <2>2. QED
    BY <1>6, <1>9, <1>10, <1>13, <2>1 DEF Safe
<1>15. Running
  <2>1. tops \in [Views -> Seq(Values)] /\ \A v \in Views : Len(tops[v]) <= MaxDepth
    BY <1>1 DEF Shallow
  <2>2. QED
    BY <1>10, <1>12, <2>1 DEF Running
<1>16. Memory!Init
  <2>1. \A e \in Ents : heap.ent[e].link = None
    BY <1>3 DEF Blank
  <2>2. QED
    BY <1>1, <2>1 DEF Memory!Init
<1>17. QED
  BY <1>14, <1>15, <1>16 DEF IInv

LEMMA NextOK ==
  ASSUME Shallow, IInv, Next
  PROVE  IInv' /\ Memory!Next
<1>1. PICK v \in Views :
        \/ Collect(v) \/ Return(v) \/ Clear(v)
        \/ New(v) \/ Copy(v) \/ Load(v) \/ Save(v) \/ EnterC(v)
  BY DEF Next
<1>2. CASE Collect(v)
  BY <1>2, CollectStep
<1>3. CASE Return(v)
  BY <1>3, ReturnStep
<1>4. CASE Clear(v)
  BY <1>4, ClearStep
<1>5. CASE New(v)
  BY <1>5, NewStep
<1>6. CASE Copy(v)
  BY <1>6, CopyStep
<1>7. CASE Load(v)
  BY <1>7, LoadStep
<1>8. CASE Save(v)
  BY <1>8, SaveStep
<1>9. CASE EnterC(v)
  BY <1>9, EnterStep
<1>10. QED
  BY <1>1, <1>2, <1>3, <1>4, <1>5, <1>6, <1>7, <1>8, <1>9

LEMMA StutterOK ==
  ASSUME IInv, UNCHANGED vars
  PROVE  IInv' /\ UNCHANGED <<root, [e \in Ents |-> heap.ent[e].link]>>
<1>1. heap' = heap /\ root' = root /\ tops' = tops
  BY DEF vars
<1>2. Safe(heap', root')
  BY <1>1 DEF IInv
<1>3. Running'
  BY <1>1 DEF IInv, Running
<1>4. QED
  BY <1>1, <1>2, <1>3 DEF IInv

(* Between two steps no entity is listed twice, the counts cover what slots  *)
(* lead to, and the local value of a C function leads to what it has made.   *)
THEOREM HeapInvariance ==
  ASSUME Shallow
  PROVE  Spec => []IInv
<1>1. Init => IInv
  BY InitOK
<1>2. IInv /\ [Next]_vars => IInv'
  BY NextOK, StutterOK
<1>3. QED
  BY <1>1, <1>2, PTL DEF Spec

(* The heap keeps its types, and no count falls below zero (uval.h:110).     *)
THEOREM HeapTypeCorrect ==
  ASSUME Shallow
  PROVE  Spec => []TypeOK
<1>1. IInv => TypeOK
  BY DEF IInv, Safe, Running, Sound, Roots, TypeOK
<1>2. QED
  BY <1>1, HeapInvariance, PTL

(* What slots and reached values lead to is on the list, once, and has not   *)
(* been dropped: nothing is freed while something holds it, however far a    *)
(* release cascades and wherever it stops (uval.c:279, uval.c:125), and      *)
(* whatever the collector sweeps (ugc.c:332).                                *)
THEOREM NothingEverDangles ==
  ASSUME Shallow
  PROVE  Spec => []NothingDangles
<1>1. IInv => NothingDangles
  <2> SUFFICES ASSUME IInv
               PROVE  NothingDangles
    OBVIOUS
  <2>1. PICK K \in SUBSET Ents : Covers(heap, root, K, None)
    BY DEF IInv, Safe
  <2>2. heap \in Heaps /\ root \in Roots /\ IsInjective(heap.list)
    BY DEF IInv, Safe, Sound
  <2>3. Live = Memory!Reachable(root, Linked(heap))
    BY LinksAre DEF Live
  <2>4. InUse(heap, root, Live)
    BY <2>1, <2>2, <2>3, CoverLive DEF Covers
  <2>5. QED
    BY <2>2, <2>4 DEF InUse, NothingDangles, Listed
<1>2. QED
  BY <1>1, HeapInvariance, PTL

(* The count of what is in use covers the slots and values that hold it: the *)
(* last but one release does not free it (uval.h:110).                       *)
THEOREM CountsDoCover ==
  ASSUME Shallow
  PROVE  Spec => []CountsCover
<1>1. IInv => CountsCover
  <2> SUFFICES ASSUME IInv
               PROVE  CountsCover
    OBVIOUS
  <2>1. PICK K \in SUBSET Ents : Covers(heap, root, K, None)
    BY DEF IInv, Safe
  <2>2. heap \in Heaps /\ root \in Roots
    BY DEF IInv, Safe
  <2> DEFINE L == Live
  <2>3. L = Memory!Reachable(root, Linked(heap))
    BY LinksAre DEF Live
  <2> HIDE DEF L
  <2>4. L \subseteq K /\ Covers(heap, root, L, None)
    BY <2>1, <2>2, <2>3, CoverLive
  <2>5. ASSUME NEW e \in L
        PROVE  heap.ent[e].refs >= Holders(L, e)
    <3>1. L \in SUBSET Ents /\ e \in Ents /\ e # None
      BY <2>4, Constants
    <3>2. {c \in L : Links[c] = e} = LinksTo(heap, L, e)
      BY <3>1 DEF LinksTo, Links
    <3>3. Holders(L, e) = Count(heap, root, L, e)
      BY <3>2 DEF Holders, Count, SlotsWith
    <3>4. Count(heap, root, L, e) \in Nat /\ heap.ent[e].refs \in Int
      BY <2>2, <3>1, CountTypes, HeapParts
    <3>5. QED
      BY <2>4, <3>1, <3>3, <3>4 DEF Covers
  <2>6. QED
    BY <2>5 DEF CountsCover, L
<1>2. QED
  BY <1>1, HeapInvariance, PTL

(* The collector's loop over what is yellow ends (ugc.c:241).                *)
THEOREM MarkingDoesEnd ==
  ASSUME Shallow
  PROVE  Spec => []MarkingEnds
<1>1. IInv => MarkingEnds
  <2> SUFFICES ASSUME IInv
               PROVE  MarkingEnds
    OBVIOUS
  <2>1. PICK K \in SUBSET Ents : InUse(heap, root, K)
    BY DEF IInv, Safe, Covers
  <2>2. QED
    BY <2>1, MarksFacts DEF IInv, Safe, MarkingEnds
<1>2. QED
  BY <1>1, HeapInvariance, PTL

(* What slots lead to stays what it is: counts, the blocks that are freed    *)
(* and given out again, and the collector are not to be seen (uval.c:279,    *)
(* ugc.c:332).                                                               *)
THEOREM StoreImplemented ==
  ASSUME Shallow
  PROVE  Spec => ImplementsStore
<1>1. Init => Memory!Init
  BY InitOK
<1>2. IInv /\ [Next]_vars => [Memory!Next]_<<root, [e \in Ents |-> heap.ent[e].link]>>
  BY NextOK, StutterOK
<1>3. QED
  BY <1>1, <1>2, HeapInvariance, PTL DEF Spec, ImplementsStore, Memory!Spec

=============================================================================
