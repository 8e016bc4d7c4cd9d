---------------------------- MODULE TablesProofs ----------------------------
(***************************************************************************)
(* Proofs about Tables, for any set of keys, any hashes, any containers    *)
(* and any programs: that hash tables which grow, shrink and are copied    *)
(* are well-formed, count their entries and implement finite maps, and     *)
(* that an iterator gives every key once.                                  *)
(***************************************************************************)
EXTENDS Tables, FiniteSetTheorems, SequenceTheorems, WellFoundedInduction,
        TLAPS

-----------------------------------------------------------------------------
(* Arithmetic.                                                               *)

LEMMA Division ==
  ASSUME NEW x \in Nat, NEW z \in Nat \ {0}
  PROVE  x % z \in 0..(z - 1) /\ x \div z \in Nat /\ x = z * (x \div z) + (x % z)
OBVIOUS

LEMMA Remainder ==
  ASSUME NEW x \in Nat, NEW z \in Nat \ {0}, NEW q \in Nat, NEW r \in 0..(z - 1),
         x = z * q + r
  PROVE  x % z = r
OBVIOUS

(* Where a hash goes when the buckets are twice as many.                     *)
LEMMA Doubling ==
  ASSUME NEW x \in Nat, NEW z \in Nat \ {0}
  PROVE  /\ x % (2 * z) \in 0..(2 * z - 1)
         /\ x % z = IF x % (2 * z) < z THEN x % (2 * z) ELSE (x % (2 * z)) - z
<1> DEFINE r == x % (2 * z)
           q == x \div (2 * z)
<1>1. r \in 0..(2 * z - 1) /\ q \in Nat /\ x = (2 * z) * q + r
  <2>1. 2 * z \in Nat \ {0}
    OBVIOUS
  <2>2. QED
    BY <2>1, Division
<1> HIDE DEF r, q
<1>2. CASE r < z
  <2>1. x = z * (2 * q) + r /\ 2 * q \in Nat /\ r \in 0..(z - 1)
    BY <1>1, <1>2
  <2>2. x % z = r
    BY <2>1, Remainder
  <2>3. QED
    BY <1>1, <1>2, <2>2 DEF r
<1>3. CASE ~(r < z)
  <2>1. x = z * (2 * q + 1) + (r - z) /\ 2 * q + 1 \in Nat /\ r - z \in 0..(z - 1)
    BY <1>1, <1>3
  <2>2. x % z = r - z
    BY <2>1, Remainder
  <2>3. QED
    BY <1>1, <1>3, <2>2 DEF r
<1>4. QED
  BY <1>2, <1>3

LEMMA PowerDoubled ==
  ASSUME NEW n \in Nat, PowerOfTwo(n)
  PROVE  PowerOfTwo(2 * n)
<1> SUFFICES ASSUME NEW d \in 1..(2 * n), (2 * n) % d = 0
             PROVE  d = 1 \/ d % 2 = 0
  BY DEF PowerOfTwo
<1>1. PICK q \in Nat : 2 * n = d * q
  <2>1. 2 * n \in Nat /\ d \in Nat \ {0}
    OBVIOUS
  <2>2. 2 * n = d * ((2 * n) \div d) + ((2 * n) % d) /\ (2 * n) \div d \in Nat
    BY <2>1, Division
  <2>3. QED
    BY <2>2
<1>2. CASE d % 2 # 0
  <2>1. PICK a \in Nat : d = 2 * a + 1
    <3>1. d = 2 * (d \div 2) + 1 /\ d \div 2 \in Nat
      BY <1>2
    <3>2. QED
      BY <3>1
  <2>2. 2 * n = 2 * (a * q) + q
    BY <1>1, <2>1
  <2>3. a * q \in Nat
    BY <2>1
  <2>4. PICK b \in Nat : q = 2 * b
    <3>1. PICK e \in Nat : e = a * q
      BY <2>3
    <3>2. q = 2 * (n - e)
      BY <2>2, <3>1
    <3>3. n - e \in Nat
      BY <3>1, <3>2
    <3>4. QED
      BY <3>2, <3>3
  <2>5. n = d * b
    BY <1>1, <2>4
  <2>6. n % d = 0
    BY <2>5, Remainder
  <2>7. d \in 1..n
    <3>1. n # 0
      OBVIOUS
    <3>2. b # 0
      BY <2>5, <3>1
    <3>3. d <= d * b
      BY <3>2
    <3>4. QED
      BY <2>5, <3>3
  <2>8. QED
    BY <2>6, <2>7 DEF PowerOfTwo
<1>3. QED
  BY <1>2

LEMMA PowerHalved ==
  ASSUME NEW n \in Nat, PowerOfTwo(n), n > 1
  PROVE  n = 2 * (n \div 2) /\ n \div 2 \in Nat \ {0} /\ PowerOfTwo(n \div 2)
<1>1. n % n = 0
  BY Remainder
<1>2. n % 2 = 0
  BY <1>1 DEF PowerOfTwo
<1>3. n = 2 * (n \div 2) /\ n \div 2 \in Nat \ {0}
  BY <1>2, Division
<1> DEFINE c == n \div 2
<1> HIDE DEF c
<1>4. n = 2 * c /\ c \in Nat \ {0}
  BY <1>3 DEF c
<1>5. ASSUME NEW d \in 1..c, c % d = 0
      PROVE  d = 1 \/ d % 2 = 0
  <2>1. PICK q \in Nat : c = d * q
    <3>1. c \in Nat /\ d \in Nat \ {0}
      BY <1>4
    <3>2. PICK e \in Nat : c = d * e + (c % d)
      BY <3>1, Division
    <3>3. c = d * e
      BY <1>5, <3>1, <3>2
    <3>4. QED
      BY <3>3
  <2>2. n = d * (2 * q) /\ 2 * q \in Nat
    BY <1>4, <2>1
  <2>3. n % d = 0
    BY <2>2, Remainder
  <2>4. d \in 1..n
    BY <1>4
  <2>5. QED
    BY <2>3, <2>4 DEF PowerOfTwo
<1>6. QED
  BY <1>3, <1>5 DEF PowerOfTwo, c

LEMMA PowerFour == PowerOfTwo(4)
<1> SUFFICES ASSUME NEW d \in 1..4, 4 % d = 0
             PROVE  d = 1 \/ d % 2 = 0
  BY DEF PowerOfTwo
<1>1. d = 1 \/ d = 2 \/ d = 3 \/ d = 4
  OBVIOUS
<1>2. 4 % 3 = 1 /\ 2 % 2 = 0 /\ 4 % 2 = 0
  OBVIOUS
<1>3. QED
  BY <1>1, <1>2

-----------------------------------------------------------------------------
(* Induction over the naturals and functions defined by recursion.  The      *)
(* library's theorems have an operator for a parameter; here the property is *)
(* a set, and the step a function.                                           *)

LEMMA SetOfAllNat ==
  ASSUME NEW A, 0 \in A, \A n \in Nat : n \in A => n + 1 \in A
  PROVE  \A n \in Nat : n \in A
<1>1. SUFFICES ASSUME Nat \ A # {}
               PROVE  FALSE
  OBVIOUS
<1>2. \E n \in Nat \ A : \A k \in Nat \ A : <<k, n>> \notin OpToRel(<, Nat)
  BY <1>1, NatLessThanWellFounded, WFMin
<1>3. PICK n \in Nat \ A : \A k \in Nat \ A : ~(k < n)
  BY <1>2 DEF OpToRel
<1>4. n - 1 \in Nat /\ n - 1 \in A
  BY <1>3
<1>5. QED
  BY <1>3, <1>4

(* The same up to a bound.                                                   *)
LEMMA UpTo ==
  ASSUME NEW n \in Nat, NEW A, 0 \in A, \A i \in 1..n : i - 1 \in A => i \in A
  PROVE  \A i \in 0..n : i \in A
<1> DEFINE B == {m \in Nat : m <= n => m \in A}
<1>1. 0 \in B
  OBVIOUS
<1>2. ASSUME NEW m \in Nat, m \in B
      PROVE  m + 1 \in B
  <2>1. CASE m + 1 <= n
    <3>1. m + 1 \in 1..n /\ (m + 1) - 1 = m /\ m \in A
      BY <1>2, <2>1
    <3>2. QED
      BY <3>1
  <2>2. CASE ~(m + 1 <= n)
    BY <2>2
  <2>3. QED
    BY <2>1, <2>2
<1> HIDE DEF B
<1>3. \A m \in Nat : m \in B
  BY <1>1, <1>2, SetOfAllNat
<1>4. QED
  BY <1>3 DEF B

Runs(f, n, start, step) ==
  f[0] = start /\ \A i \in 1..n : f[i] = step[<<i, f[i - 1]>>]

LEMMA Recursion ==
  ASSUME NEW n \in Nat, NEW S, NEW start \in S, NEW step \in [(1..n) \X S -> S]
  PROVE  \E f \in [0..n -> S] : Runs(f, n, start, step)
<1> DEFINE Is(f, m) == /\ f \in [0..m -> S] /\ f[0] = start
                       /\ \A i \in 1..m : f[i] = step[<<i, f[i - 1]>>]
           A == {m \in Nat : \E f : Is(f, m)}
<1>1. 0 \in A
  <2>1. Is([i \in 0..0 |-> start], 0)
    OBVIOUS
  <2>2. QED
    BY <2>1
<1>2. ASSUME NEW m \in 1..n, m - 1 \in A
      PROVE  m \in A
  <2>1. PICK f : Is(f, m - 1)
    BY <1>2
  <2> DEFINE g == [i \in 0..m |-> IF i = m THEN step[<<m, f[m - 1]>>] ELSE f[i]]
  <2>2. f[m - 1] \in S /\ \A i \in 0..(m - 1) : f[i] \in S
    BY <2>1
  <2>3. <<m, f[m - 1]>> \in (1..n) \X S
    BY <2>2
  <2>4. step[<<m, f[m - 1]>>] \in S
    BY <2>3
  <2>5. g \in [0..m -> S] /\ g[0] = start
    BY <2>1, <2>2, <2>4
  <2>6. g[m] = step[<<m, f[m - 1]>>] /\ \A i \in 0..(m - 1) : g[i] = f[i]
    OBVIOUS
  <2> HIDE DEF g
  <2>7. ASSUME NEW i \in 1..m
        PROVE  g[i] = step[<<i, g[i - 1]>>]
    <3>1. g[i - 1] = f[i - 1]
      BY <2>6
    <3>2. CASE i = m
      BY <2>6, <3>1, <3>2
    <3>3. CASE i # m
      <4>1. i \in 1..(m - 1) /\ g[i] = f[i]
        BY <2>6, <3>3
      <4>2. QED
        BY <2>1, <3>1, <4>1
    <3>4. QED
      BY <3>2, <3>3
  <2>8. Is(g, m)
    BY <2>5, <2>7
  <2> HIDE DEF Is
  <2>9. m \in Nat
    OBVIOUS
  <2>10. QED
    BY <2>8, <2>9
<1>3. n \in A
  <2> HIDE DEF A
  <2>1. \A i \in 0..n : i \in A
    BY <1>1, <1>2, UpTo
  <2>2. QED
    BY <2>1
<1>4. QED
  BY <1>3 DEF Runs

-----------------------------------------------------------------------------
(* Chains.                                                                   *)

NodeSet == [key : Keys, val : Values]
Chains == Seq(NodeSet)

(* No two nodes of a chain have equal keys.                                  *)
Distinct(s) == \A i, j \in 1..Len(s) : Equal(s[i].key, s[j].key) => i = j
Among(n, s) == \E i \in 1..Len(s) : s[i] = n

LEMMA ChainFacts ==
  ASSUME NEW s \in Chains
  PROVE  /\ Len(s) \in Nat
         /\ \A i \in 1..Len(s) : s[i] \in NodeSet /\ s[i].key \in Keys /\ s[i].val \in Values
         /\ \A n : Among(n, s) => n \in NodeSet
<1>1. Len(s) \in Nat
  BY LenProperties DEF Chains
<1>2. \A i \in 1..Len(s) : s[i] \in NodeSet
  BY ElementOfSeq DEF Chains
<1>3. \A n \in NodeSet : n.key \in Keys /\ n.val \in Values
  BY DEF NodeSet
<1>4. \A n : Among(n, s) => n \in NodeSet
  BY <1>2 DEF Among
<1>5. QED
  BY <1>1, <1>2, <1>3, <1>4

LEMMA AppendFacts ==
  ASSUME NEW s \in Chains, NEW n \in NodeSet
  PROVE  /\ Append(s, n) \in Chains /\ Len(Append(s, n)) = Len(s) + 1
         /\ \A i \in 1..Len(s) + 1 : Append(s, n)[i] = IF i <= Len(s) THEN s[i] ELSE n
         /\ \A m : Among(m, Append(s, n)) <=> Among(m, s) \/ m = n
<1> DEFINE t == Append(s, n)
<1>1. /\ t \in Chains /\ Len(t) = Len(s) + 1 /\ Len(s) \in Nat
      /\ \A i \in 1..Len(s) + 1 : t[i] = IF i <= Len(s) THEN s[i] ELSE n
  BY AppendProperties, LenProperties DEF Chains
<1> HIDE DEF t
<1>2. \A m : Among(m, t) <=> Among(m, s) \/ m = n
  <2>1. ASSUME NEW m, NEW i \in 1..Len(s), s[i] = m
        PROVE  Among(m, t)
    <3>1. i \in 1..Len(t) /\ t[i] = m
      BY <1>1, <2>1
    <3>2. QED
      BY <3>1 DEF Among
  <2>2. Among(n, t)
    <3>1. Len(t) \in 1..Len(t) /\ t[Len(t)] = n
      BY <1>1
    <3>2. QED
      BY <3>1 DEF Among
  <2>3. ASSUME NEW m, NEW i \in 1..Len(t), t[i] = m
        PROVE  Among(m, s) \/ m = n
    BY <1>1, <2>3 DEF Among
  <2>4. QED
    BY <2>1, <2>2, <2>3 DEF Among
<1>3. QED
  BY <1>1, <1>2 DEF t

LEMMA ConcatFacts ==
  ASSUME NEW s \in Chains, NEW t \in Chains
  PROVE  /\ s \o t \in Chains /\ Len(s \o t) = Len(s) + Len(t)
         /\ \A n : Among(n, s \o t) <=> Among(n, s) \/ Among(n, t)
         /\ Distinct(s) /\ Distinct(t)
              /\ (\A m, n : Among(m, s) /\ Among(n, t) => ~Equal(m.key, n.key))
            => Distinct(s \o t)
<1> DEFINE u == s \o t
<1>1. /\ u \in Chains /\ Len(u) = Len(s) + Len(t) /\ Len(s) \in Nat /\ Len(t) \in Nat
      /\ \A i \in 1..Len(s) + Len(t) : u[i] = IF i <= Len(s) THEN s[i] ELSE t[i - Len(s)]
  BY ConcatProperties, LenProperties DEF Chains
<1> HIDE DEF u
<1>2. \A i \in 1..Len(u) : \/ i \in 1..Len(s) /\ u[i] = s[i]
                           \/ i - Len(s) \in 1..Len(t) /\ u[i] = t[i - Len(s)]
  BY <1>1
<1>3. ASSUME NEW n
      PROVE  Among(n, u) <=> Among(n, s) \/ Among(n, t)
  <2>1. Among(n, u) => Among(n, s) \/ Among(n, t)
    BY <1>2 DEF Among
  <2>2. Among(n, s) => Among(n, u)
    BY <1>1 DEF Among
  <2>3. ASSUME NEW i \in 1..Len(t), t[i] = n
        PROVE  Among(n, u)
    <3>1. i + Len(s) \in 1..Len(u) /\ u[i + Len(s)] = t[i]
      BY <1>1
    <3>2. QED
      BY <2>3, <3>1 DEF Among
  <2>4. QED
    BY <2>1, <2>2, <2>3 DEF Among
<1>4. ASSUME Distinct(s), Distinct(t),
             \A m, n : Among(m, s) /\ Among(n, t) => ~Equal(m.key, n.key)
      PROVE  Distinct(u)
  <2> SUFFICES ASSUME NEW i \in 1..Len(u), NEW j \in 1..Len(u), Equal(u[i].key, u[j].key)
               PROVE  i = j
    BY DEF Distinct
  <2>0. Equal(u[j].key, u[i].key)
    BY DEF Equal
  <2>1. CASE i \in 1..Len(s) /\ u[i] = s[i]
    <3>1. CASE j \in 1..Len(s) /\ u[j] = s[j]
      BY <1>4, <2>1, <3>1 DEF Distinct
    <3>2. CASE j - Len(s) \in 1..Len(t) /\ u[j] = t[j - Len(s)]
      <4>1. Among(u[i], s) /\ Among(u[j], t)
        BY <2>1, <3>2 DEF Among
      <4>2. QED
        BY <1>4, <4>1
    <3>3. QED
      BY <1>2, <3>1, <3>2
  <2>2. CASE i - Len(s) \in 1..Len(t) /\ u[i] = t[i - Len(s)]
    <3>1. CASE j \in 1..Len(s) /\ u[j] = s[j]
      <4>1. Among(u[j], s) /\ Among(u[i], t)
        BY <2>2, <3>1 DEF Among
      <4>2. QED
        BY <1>4, <2>0, <4>1
    <3>2. CASE j - Len(s) \in 1..Len(t) /\ u[j] = t[j - Len(s)]
      <4>1. i - Len(s) = j - Len(s)
        BY <1>4, <2>2, <3>2 DEF Distinct
      <4>2. QED
        BY <1>1, <4>1
    <3>3. QED
      BY <1>2, <3>1, <3>2
  <2>3. QED
    BY <1>2, <2>1, <2>2
<1>5. QED
  BY <1>1, <1>3, <1>4 DEF u

LEMMA AppendDistinct ==
  ASSUME NEW s \in Chains, NEW n \in NodeSet, Distinct(s),
         \A m : Among(m, s) => ~Equal(m.key, n.key)
  PROVE  Distinct(Append(s, n))
<1> DEFINE t == Append(s, n)
<1>1. /\ Len(t) = Len(s) + 1 /\ Len(s) \in Nat
      /\ \A i \in 1..Len(s) + 1 : t[i] = IF i <= Len(s) THEN s[i] ELSE n
  BY AppendFacts, ChainFacts
<1>2. \A i \in 1..Len(s) : ~Equal(s[i].key, n.key) /\ ~Equal(n.key, s[i].key)
  BY DEF Among, Equal
<1> HIDE DEF t
<1>3. ASSUME NEW i \in 1..Len(t), NEW j \in 1..Len(t), Equal(t[i].key, t[j].key)
      PROVE  i = j
  <2>1. \/ i \in 1..Len(s) /\ t[i] = s[i]
        \/ i = Len(s) + 1 /\ t[i] = n
    BY <1>1
  <2>2. \/ j \in 1..Len(s) /\ t[j] = s[j]
        \/ j = Len(s) + 1 /\ t[j] = n
    BY <1>1
  <2>3. CASE i \in 1..Len(s) /\ j \in 1..Len(s) /\ t[i] = s[i] /\ t[j] = s[j]
    BY <1>3, <2>3 DEF Distinct
  <2>4. QED
    BY <1>2, <1>3, <2>1, <2>2, <2>3
<1>4. QED
  BY <1>3 DEF Distinct, t

(* The nodes that are chosen from a chain: a recursive function, which is    *)
(* the one that TLA+ chooses.                                                *)
IsThose(g, chain, K) ==
  g = [i \in 0..Len(chain) |->
         IF i = 0 THEN << >>
         ELSE IF chain[i].key \in K THEN Append(g[i - 1], chain[i]) ELSE g[i - 1]]

LEMMA ThoseExist ==
  ASSUME NEW chain \in Chains, NEW K
  PROVE  \E g \in [0..Len(chain) -> Chains] : IsThose(g, chain, K)
<1> DEFINE n == Len(chain)
           step == [p \in (1..n) \X Chains |->
                      IF chain[p[1]].key \in K THEN Append(p[2], chain[p[1]]) ELSE p[2]]
<1>1. n \in Nat /\ \A i \in 1..n : chain[i] \in NodeSet
  BY ChainFacts
<1>2. << >> \in Chains
  BY EmptySeq DEF Chains
<1>3. \A i \in 1..n, s \in Chains : Append(s, chain[i]) \in Chains
  BY <1>1, AppendFacts
<1>4. step \in [(1..n) \X Chains -> Chains]
  BY <1>3
<1>5. \A i \in 1..n, s \in Chains :
        step[<<i, s>>] = IF chain[i].key \in K THEN Append(s, chain[i]) ELSE s
  OBVIOUS
<1> HIDE DEF n, step
<1>6. PICK g \in [0..n -> Chains] : Runs(g, n, << >>, step)
  BY <1>1, <1>2, <1>4, Recursion
<1>7. ASSUME NEW i \in 1..n
      PROVE  g[i] = IF chain[i].key \in K THEN Append(g[i - 1], chain[i]) ELSE g[i - 1]
  <2>1. g[i - 1] \in Chains
    BY <1>1
  <2>2. QED
    BY <1>5, <1>6, <2>1 DEF Runs
<1> DEFINE r == [i \in 0..n |->
                   IF i = 0 THEN << >>
                   ELSE IF chain[i].key \in K THEN Append(g[i - 1], chain[i]) ELSE g[i - 1]]
<1>8. ASSUME NEW i \in 0..n
      PROVE  g[i] = r[i]
  <2>1. CASE i = 0
    BY <1>6, <2>1 DEF Runs
  <2>2. CASE i # 0
    <3>1. i \in 1..n
      BY <1>1, <2>2
    <3>2. QED
      BY <1>7, <2>2, <3>1
  <2>3. QED
    BY <2>1, <2>2
<1>9. g = r
  BY <1>8
<1>10. IsThose(g, chain, K)
  BY <1>9 DEF IsThose, n
<1>11. QED
  BY <1>10 DEF n

LEMMA ThoseFacts ==
  ASSUME NEW chain \in Chains, NEW K
  PROVE  /\ Those(chain, K) \in Chains
         /\ \A n : Among(n, Those(chain, K)) <=> Among(n, chain) /\ n.key \in K
         /\ Distinct(chain) => Distinct(Those(chain, K))
<1> DEFINE g == CHOOSE g : IsThose(g, chain, K)
<1>1. IsThose(g, chain, K)
  BY ThoseExist
<1>2. Those(chain, K) = g[Len(chain)]
  BY DEF Those, IsThose
<1> HIDE DEF g
<1>3. Len(chain) \in Nat /\ \A i \in 1..Len(chain) : chain[i] \in NodeSet
  BY ChainFacts
<1>4. g[0] = << >>
  BY <1>1, <1>3 DEF IsThose
<1>5. \A i \in 1..Len(chain) :
        g[i] = IF chain[i].key \in K THEN Append(g[i - 1], chain[i]) ELSE g[i - 1]
  <2> SUFFICES ASSUME NEW i \in 1..Len(chain)
               PROVE  g[i] = IF chain[i].key \in K THEN Append(g[i - 1], chain[i])
                                                   ELSE g[i - 1]
    OBVIOUS
  <2>1. i \in 0..Len(chain) /\ i # 0
    BY <1>3
  <2>2. QED
    BY <1>1, <2>1 DEF IsThose
<1> DEFINE Right(i) ==
             /\ g[i] \in Chains
             /\ \A n : Among(n, g[i]) <=> \E j \in 1..i : chain[j] = n /\ n.key \in K
             /\ Distinct(chain) => Distinct(g[i])
           A == {i \in 0..Len(chain) : Right(i)}
<1>6. Right(0)
  <2>1. << >> \in Chains /\ Len(<< >>) = 0
    BY EmptySeq DEF Chains
  <2>2. QED
    BY <1>4, <2>1 DEF Among, Distinct
<1>7. ASSUME NEW i \in 1..Len(chain), Right(i - 1)
      PROVE  Right(i)
  <2>1. \A n : (\E j \in 1..i : chain[j] = n /\ n.key \in K)
                 <=> (\E j \in 1..(i - 1) : chain[j] = n /\ n.key \in K)
                       \/ (chain[i] = n /\ n.key \in K)
    BY <1>3
  <2>2. CASE chain[i].key \in K
    <3>1. g[i] = Append(g[i - 1], chain[i])
      BY <1>5, <2>2
    <3>2. /\ g[i] \in Chains
          /\ \A n : Among(n, g[i]) <=> Among(n, g[i - 1]) \/ n = chain[i]
      BY <1>3, <1>7, <3>1, AppendFacts
    <3>3. ASSUME Distinct(chain)
          PROVE  Distinct(g[i])
      <4>1. \A m : Among(m, g[i - 1]) => ~Equal(m.key, chain[i].key)
        BY <1>3, <1>7, <3>3 DEF Distinct
      <4>2. chain[i] \in NodeSet
        BY <1>3
      <4>3. QED
        BY <1>7, <3>1, <3>3, <4>1, <4>2, AppendDistinct
    <3>4. \A n : Among(n, g[i]) <=> \E j \in 1..i : chain[j] = n /\ n.key \in K
      BY <1>7, <2>1, <2>2, <3>2
    <3>5. QED
      BY <3>2, <3>3, <3>4
  <2>3. CASE chain[i].key \notin K
    <3>1. g[i] = g[i - 1]
      BY <1>5, <2>3
    <3>2. QED
      BY <1>7, <2>1, <2>3, <3>1
  <2>4. QED
    BY <2>2, <2>3
<1> HIDE DEF Right
<1>8. 0 \in A /\ \A i \in 1..Len(chain) : i - 1 \in A => i \in A
  BY <1>3, <1>6, <1>7
<1>9. Right(Len(chain))
  <2> HIDE DEF A
  <2>1. \A i \in 0..Len(chain) : i \in A
    BY <1>3, <1>8, UpTo
  <2>2. QED
    BY <1>3, <2>1 DEF A
<1>10. QED
  BY <1>2, <1>9 DEF Right, Among

(* An element less of a chain.                                               *)
LEMMA RemoveFacts ==
  ASSUME NEW s \in Chains, NEW i \in 1..Len(s), Distinct(s)
  PROVE  /\ RemoveAt(s, i) \in Chains
         /\ Distinct(RemoveAt(s, i))
         /\ \A n : Among(n, RemoveAt(s, i)) <=> Among(n, s) /\ n # s[i]
<1> DEFINE r == RemoveAt(s, i)
<1>0. Len(s) \in Nat /\ i \in Nat /\ s \in Seq(NodeSet)
  BY ChainFacts DEF Chains
<1>1. /\ r \in Chains /\ Len(r) = Len(s) - 1
      /\ \A j \in 1..(Len(s) - 1) : r[j] = IF j < i THEN s[j] ELSE s[j + 1]
  <2> DEFINE a == SubSeq(s, 1, i - 1)
             b == SubSeq(s, i + 1, Len(s))
  <2>1. /\ a \in Seq(NodeSet) /\ Len(a) = i - 1
        /\ \A j \in 1..(i - 1) : a[j] = s[j]
    BY <1>0, SubSeqProperties
  <2>2. /\ b \in Seq(NodeSet) /\ Len(b) = Len(s) - i
        /\ \A j \in 1..(Len(s) - i) : b[j] = s[i + j]
    BY <1>0, SubSeqProperties
  <2>3. r = a \o b
    BY DEF RemoveAt
  <2> HIDE DEF a, b, r
  <2>4. /\ r \in Seq(NodeSet) /\ Len(r) = Len(a) + Len(b)
        /\ \A j \in 1..(Len(a) + Len(b)) :
             r[j] = IF j <= Len(a) THEN a[j] ELSE b[j - Len(a)]
    BY <2>1, <2>2, <2>3, ConcatProperties
  <2>5. ASSUME NEW j \in 1..(Len(s) - 1)
        PROVE  r[j] = IF j < i THEN s[j] ELSE s[j + 1]
    <3>0. j \in 1..(Len(a) + Len(b))
      BY <1>0, <2>1, <2>2
    <3>1. CASE j < i
      <4>1. j <= Len(a) /\ a[j] = s[j]
        BY <1>0, <2>1, <3>1
      <4>2. QED
        BY <2>4, <3>0, <3>1, <4>1
    <3>2. CASE ~(j < i)
      <4>1. j - (i - 1) \in 1..(Len(s) - i) /\ i + (j - (i - 1)) = j + 1
        BY <1>0, <3>2
      <4>2. b[j - (i - 1)] = s[j + 1]
        BY <2>2, <4>1
      <4>3. ~(j <= Len(a)) /\ r[j] = b[j - Len(a)]
        BY <1>0, <2>1, <2>4, <3>0, <3>2
      <4>4. QED
        BY <2>1, <3>2, <4>2, <4>3
    <3>3. QED
      BY <3>1, <3>2
  <2>6. Len(r) = Len(s) - 1
    BY <1>0, <2>1, <2>2, <2>4
  <2>7. QED
    BY <2>4, <2>5, <2>6 DEF Chains
<1> HIDE DEF r
<1>2. \A j \in 1..Len(r) : \/ j < i /\ j \in 1..Len(s) /\ r[j] = s[j]
                           \/ j >= i /\ j + 1 \in 1..Len(s) /\ r[j] = s[j + 1]
  BY <1>0, <1>1
<1>3. Distinct(r)
  <2> SUFFICES ASSUME NEW j \in 1..Len(r), NEW k \in 1..Len(r), Equal(r[j].key, r[k].key)
               PROVE  j = k
    BY DEF Distinct
  <2>1. PICK x \in 1..Len(s) : r[j] = s[x] /\ x = IF j < i THEN j ELSE j + 1
    BY <1>2
  <2>2. PICK y \in 1..Len(s) : r[k] = s[y] /\ y = IF k < i THEN k ELSE k + 1
    BY <1>2
  <2>3. x = y
    BY <2>1, <2>2 DEF Distinct
  <2>4. QED
    BY <1>0, <1>1, <2>1, <2>2, <2>3
<1>4. ASSUME NEW n, Among(n, r)
      PROVE  Among(n, s) /\ n # s[i]
  <2>1. PICK j \in 1..Len(r) : r[j] = n
    BY <1>4 DEF Among
  <2>2. PICK x \in 1..Len(s) : n = s[x] /\ x # i
    BY <1>2, <2>1
  <2>3. n # s[i]
    <3>1. SUFFICES ASSUME s[x] = s[i] PROVE FALSE
      BY <2>2
    <3>2. Equal(s[x].key, s[i].key)
      BY <3>1 DEF Equal
    <3>3. QED
      BY <2>2, <3>2 DEF Distinct
  <2>4. QED
    BY <2>2, <2>3 DEF Among
<1>5. ASSUME NEW n, Among(n, s), n # s[i]
      PROVE  Among(n, r)
  <2>1. PICK x \in 1..Len(s) : s[x] = n /\ x # i
    BY <1>5 DEF Among
  <2>2. CASE x < i
    <3>1. x \in 1..Len(r) /\ r[x] = n
      BY <1>0, <1>1, <2>1, <2>2
    <3>2. QED
      BY <3>1 DEF Among
  <2>3. CASE x > i
    <3>1. x - 1 \in 1..Len(r) /\ r[x - 1] = s[(x - 1) + 1] /\ (x - 1) + 1 = x
      BY <1>0, <1>1, <2>3
    <3>2. QED
      BY <2>1, <3>1 DEF Among
  <2>4. QED
    BY <2>1, <2>2, <2>3
<1>6. QED
  BY <1>1, <1>3, <1>4, <1>5 DEF r

-----------------------------------------------------------------------------
(* Well-formed tables: every node is in the bucket of its hash, no two in    *)
(* one bucket have equal keys, and the capacity is a power of two.           *)

Made(e, c, f) == [entries |-> e, capacity |-> c, buckets |-> f]

Table == {Made(e, c, f) : e \in Nat, c \in Nat,
                          f \in UNION {[0..(n - 1) -> Chains] : n \in Nat}}

InPlace(s, b, c) == \A n : Among(n, s) => HashOf[n.key] % c = b

Formed(h) ==
  /\ h \in Table
  /\ PowerOfTwo(h.capacity)
  /\ h.buckets \in [0..(h.capacity - 1) -> Chains]
  /\ \A b \in 0..(h.capacity - 1) :
       Distinct(h.buckets[b]) /\ InPlace(h.buckets[b], b, h.capacity)

In(n, h) == \E b \in 0..(h.capacity - 1) : Among(n, h.buckets[b])

(* Equal keys have one hash.                                                 *)
Consistent == \A k, j \in Keys : Equal(k, j) => HashOf[k] = HashOf[j]

LEMMA TableParts ==
  ASSUME NEW h \in Table
  PROVE  h = Made(h.entries, h.capacity, h.buckets) /\ h.entries \in Nat /\ h.capacity \in Nat
<1>1. PICK e \in Nat, c \in Nat, f \in UNION {[0..(n - 1) -> Chains] : n \in Nat} :
        h = Made(e, c, f)
  BY DEF Table
<1>2. h.entries = e /\ h.capacity = c /\ h.buckets = f
  BY <1>1 DEF Made
<1>3. QED
  BY <1>1, <1>2

LEMMA MadeFormed ==
  ASSUME NEW e \in Nat, NEW c \in Nat, PowerOfTwo(c), NEW f \in [0..(c - 1) -> Chains],
         \A b \in 0..(c - 1) : Distinct(f[b]) /\ InPlace(f[b], b, c)
  PROVE  /\ Formed(Made(e, c, f))
         /\ \A n : In(n, Made(e, c, f)) <=> \E b \in 0..(c - 1) : Among(n, f[b])
<1> DEFINE h == Made(e, c, f)
<1>1. h.entries = e /\ h.capacity = c /\ h.buckets = f
  BY DEF Made
<1>2. h \in Table
  BY DEF Table
<1> HIDE DEF h
<1>3. Formed(h)
  BY <1>1, <1>2 DEF Formed
<1>4. \A n : In(n, h) <=> \E b \in 0..(c - 1) : Among(n, f[b])
  BY <1>1 DEF In
<1>5. QED
  BY <1>3, <1>4 DEF h

LEMMA BlankFormed ==
  /\ Formed(Blank) /\ Blank.entries = 0 /\ Blank.capacity = 0
  /\ \A n : ~In(n, Blank)
<1>1. PowerOfTwo(0)
  BY DEF PowerOfTwo
<1>2. << >> \in [0..(0 - 1) -> Chains] /\ 0..(0 - 1) = {}
  OBVIOUS
<1>3. Blank = Made(0, 0, << >>)
  BY DEF Blank, Made
<1>4. Formed(Blank) /\ \A n : In(n, Blank) <=> \E b \in 0..(0 - 1) : Among(n, << >>[b])
  BY <1>1, <1>2, <1>3, MadeFormed
<1>5. QED
  BY <1>2, <1>4 DEF Blank

LEMMA InFacts ==
  ASSUME NEW h, Formed(h), NEW n, In(n, h)
  PROVE  /\ n \in NodeSet /\ n.key \in Keys /\ n.val \in Values
         /\ h.capacity \in Nat \ {0}
         /\ HashOf[n.key] % h.capacity \in 0..(h.capacity - 1)
         /\ Among(n, h.buckets[HashOf[n.key] % h.capacity])
<1>1. PICK b \in 0..(h.capacity - 1) : Among(n, h.buckets[b])
  BY DEF In
<1>2. h.capacity \in Nat /\ h.buckets[b] \in Chains /\ InPlace(h.buckets[b], b, h.capacity)
  BY TableParts DEF Formed
<1>3. n \in NodeSet
  BY <1>1, <1>2, ChainFacts
<1>4. HashOf[n.key] % h.capacity = b
  BY <1>1, <1>2 DEF InPlace
<1>5. QED
  BY <1>1, <1>2, <1>3, <1>4 DEF NodeSet

(* No two nodes of a table have equal keys.                                  *)
LEMMA OneOfEach ==
  ASSUME NEW h, Formed(h), Consistent, NEW m, In(m, h), NEW n, In(n, h), Equal(m.key, n.key)
  PROVE  m = n
<1>1. HashOf[m.key] = HashOf[n.key]
  BY InFacts DEF Consistent
<1> DEFINE b == HashOf[n.key] % h.capacity
<1>2. b \in 0..(h.capacity - 1) /\ Among(m, h.buckets[b]) /\ Among(n, h.buckets[b])
  BY <1>1, InFacts
<1> HIDE DEF b
<1>3. Distinct(h.buckets[b])
  BY <1>2 DEF Formed
<1>4. QED
  BY <1>2, <1>3 DEF Among, Distinct

(* What a lookup finds in a chain.                                           *)
Found(s, k) == SelectInSeq(s, LAMBDA node : Equal(node.key, k))

LEMMA FoundFacts ==
  ASSUME NEW s \in Chains, Distinct(s), NEW k
  PROVE  \/ Found(s, k) = 0 /\ \A n : Among(n, s) => ~Equal(n.key, k)
         \/ Found(s, k) \in 1..Len(s) /\ Equal(s[Found(s, k)].key, k)
<1> DEFINE I == {i \in 1..Len(s) : Equal(s[i].key, k)}
<1>1. Found(s, k) = IF I # {} THEN Min(I) ELSE 0
  BY DEF Found, SelectInSeq
<1>2. CASE I = {}
  <2>1. \A n : Among(n, s) => ~Equal(n.key, k)
    BY <1>2 DEF Among
  <2>2. QED
    BY <1>1, <1>2, <2>1
<1>3. CASE I # {}
  <2>1. PICK i \in 1..Len(s) : Equal(s[i].key, k)
    BY <1>3
  <2>2. ASSUME NEW j \in I
        PROVE  j = i
    <3>1. Equal(s[j].key, s[i].key)
      BY <2>1 DEF Equal
    <3>2. QED
      BY <3>1 DEF Distinct
  <2>3. i \in I /\ i <= i
    BY <2>1, ChainFacts
  <2> HIDE DEF I
  <2>4. Min(I) \in I
    BY <2>2, <2>3 DEF Min
  <2>5. Found(s, k) = i
    BY <1>1, <1>3, <2>2, <2>4
  <2>6. QED
    BY <2>1, <2>5
<1>4. QED
  BY <1>2, <1>3

Home(h, k) == HashOf[k] % h.capacity

LEMMA HomeFacts ==
  ASSUME NEW h, Formed(h), h.capacity # 0, NEW k \in Keys
  PROVE  /\ h.capacity \in Nat \ {0}
         /\ Home(h, k) \in 0..(h.capacity - 1)
         /\ h.buckets[Home(h, k)] \in Chains
         /\ Distinct(h.buckets[Home(h, k)])
<1>1. h.capacity \in Nat \ {0} /\ HashOf[k] \in Nat
  BY TableParts, HashAssumption DEF Formed
<1>2. Home(h, k) \in 0..(h.capacity - 1)
  BY <1>1, Division DEF Home
<1>3. QED
  BY <1>1, <1>2 DEF Formed

LEMMA LookupFacts ==
  ASSUME NEW h, Formed(h), Consistent, NEW k \in Keys
  PROVE  \/ /\ ~Has(h, k) /\ Lookup(h, k) = 0
            /\ \A n : In(n, h) => ~Equal(n.key, k)
         \/ /\ Has(h, k) /\ h.capacity # 0
            /\ Lookup(h, k) \in 1..Len(h.buckets[Home(h, k)])
            /\ Equal(h.buckets[Home(h, k)][Lookup(h, k)].key, k)
            /\ In(h.buckets[Home(h, k)][Lookup(h, k)], h)
            /\ Get(h, k) = h.buckets[Home(h, k)][Lookup(h, k)].val
<1>1. CASE h.capacity = 0
  <2>1. \A n : ~In(n, h)
    BY <1>1 DEF In
  <2>2. QED
    BY <1>1, <2>1 DEF Lookup, Has
<1>2. CASE h.capacity # 0
  <2> DEFINE s == h.buckets[Home(h, k)]
  <2>1. Lookup(h, k) = Found(s, k)
    BY <1>2 DEF Lookup, Found, Home
  <2>2. s \in Chains /\ Distinct(s) /\ Home(h, k) \in 0..(h.capacity - 1)
    BY <1>2, HomeFacts
  <2>3. CASE Found(s, k) = 0 /\ \A n : Among(n, s) => ~Equal(n.key, k)
    <3>1. ASSUME NEW n, In(n, h), Equal(n.key, k)
          PROVE  FALSE
      <4>1. Among(n, h.buckets[HashOf[n.key] % h.capacity]) /\ n.key \in Keys
        BY <3>1, InFacts
      <4>2. HashOf[n.key] = HashOf[k]
        BY <3>1, <4>1 DEF Consistent
      <4>3. Home(h, k) = HashOf[n.key] % h.capacity
        BY <4>2 DEF Home
      <4>4. Among(n, s)
        BY <4>1, <4>3, Zenon
      <4>5. QED
        BY <2>3, <3>1, <4>4
    <3>2. QED
      BY <2>1, <2>3, <3>1 DEF Has
  <2>4. CASE Found(s, k) \in 1..Len(s) /\ Equal(s[Found(s, k)].key, k)
    <3>1. Among(s[Lookup(h, k)], s)
      BY <2>1, <2>4 DEF Among
    <3>2. In(s[Lookup(h, k)], h)
      BY <2>2, <3>1 DEF In
    <3>3. Lookup(h, k) # 0 /\ Len(s) \in Nat
      BY <2>1, <2>2, <2>4, ChainFacts
    <3>4. Get(h, k) = s[Lookup(h, k)].val /\ Has(h, k)
      BY <3>3, Zenon DEF Has, Get, Home
    <3> HIDE DEF s
    <3>5. s = h.buckets[Home(h, k)]
      BY DEF s
    <3>6. /\ Lookup(h, k) \in 1..Len(s) /\ Equal(s[Lookup(h, k)].key, k)
          /\ In(s[Lookup(h, k)], h)
      BY <2>1, <2>4, <3>2, Zenon
    <3>7. QED
      BY <1>2, <3>4, <3>5, <3>6, Zenon
  <2> HIDE DEF s
  <2>5. QED
    BY <2>2, <2>3, <2>4, FoundFacts
<1>3. QED
  BY <1>1, <1>2

-----------------------------------------------------------------------------
(* What the operations make of a table.                                      *)

LEMMA GrowFacts ==
  ASSUME NEW h, Formed(h)
  PROVE  /\ Formed(Grow(h))
         /\ Grow(h).entries = h.entries /\ Grow(h).capacity \in Nat \ {0}
         /\ \A n : In(n, Grow(h)) <=> In(n, h)
<1> DEFINE z == h.capacity
           nz == IF z = 0 THEN 4 ELSE 2 * z
           high == {k \in Keys : HashOf[k] % nz >= z}
           f == [b \in 0..(nz - 1) |->
                   IF z = 0 THEN << >>
                   ELSE IF b < z THEN Those(h.buckets[b], Keys \ high)
                   ELSE Those(h.buckets[b - z], high)]
<1>1. h = Made(h.entries, z, h.buckets) /\ h.entries \in Nat /\ z \in Nat
  BY TableParts DEF Formed
<1>2. Grow(h) = Made(h.entries, nz, f)
  <2>1. Grow(h) = [h EXCEPT !.capacity = nz, !.buckets = f]
    BY DEF Grow
  <2> HIDE DEF nz, f
  <2>2. QED
    BY <1>1, <2>1 DEF Made
<1>3. nz \in Nat \ {0} /\ PowerOfTwo(nz)
  <2>1. CASE z = 0
    BY <2>1, PowerFour
  <2>2. CASE z # 0
    <3>1. PowerOfTwo(z)
      BY DEF Formed
    <3> HIDE DEF z
    <3>2. PowerOfTwo(2 * z)
      BY <1>1, <3>1, PowerDoubled
    <3>3. nz = 2 * z /\ 2 * z \in Nat \ {0}
      BY <1>1, <2>2
    <3>4. QED
      BY <3>2, <3>3
  <2>3. QED
    BY <2>1, <2>2
<1>4. CASE z = 0
  <2>1. \A b \in 0..(nz - 1) : f[b] = << >>
    BY <1>4
  <2>2. << >> \in Chains /\ Len(<< >>) = 0
    BY EmptySeq DEF Chains
  <2>3. \A n : ~Among(n, << >>)
    BY <2>2 DEF Among
  <2>4. Distinct(<< >>) /\ \A b : InPlace(<< >>, b, nz)
    BY <2>2, <2>3 DEF Distinct, InPlace
  <2>5. f \in [0..(nz - 1) -> Chains]
    BY <1>4, <2>2
  <2> HIDE DEF f, nz, high
  <2>6. /\ Formed(Made(h.entries, nz, f))
        /\ \A n : In(n, Made(h.entries, nz, f)) <=> \E b \in 0..(nz - 1) : Among(n, f[b])
    BY <1>1, <1>3, <2>1, <2>4, <2>5, MadeFormed
  <2>7. \A n : ~In(n, h)
    BY <1>4 DEF In
  <2>8. \A n : ~In(n, Made(h.entries, nz, f))
    BY <2>1, <2>3, <2>6
  <2>9. QED
    BY <1>2, <1>3, <2>6, <2>7, <2>8 DEF Made
<1>5. CASE z # 0
  <2>1. nz = 2 * z /\ z \in Nat \ {0}
    BY <1>1, <1>5
  <2>2. \A n : n \in NodeSet => HashOf[n.key] \in Nat /\ n.key \in Keys
    BY HashAssumption DEF NodeSet
  <2>3. \A b \in 0..(z - 1) :
          h.buckets[b] \in Chains /\ Distinct(h.buckets[b]) /\ InPlace(h.buckets[b], b, z)
    BY DEF Formed
  <2>4. \A b \in 0..(z - 1) : \A n : Among(n, h.buckets[b]) =>
          /\ n.key \in Keys /\ HashOf[n.key] \in Nat
          /\ b = IF n.key \in high THEN (HashOf[n.key] % nz) - z ELSE HashOf[n.key] % nz
    <3>1. SUFFICES ASSUME NEW b \in 0..(z - 1), NEW n, Among(n, h.buckets[b])
                   PROVE  /\ n.key \in Keys /\ HashOf[n.key] \in Nat
                          /\ b = IF n.key \in high THEN (HashOf[n.key] % nz) - z
                                                   ELSE HashOf[n.key] % nz
      OBVIOUS
    <3>2. n.key \in Keys /\ HashOf[n.key] \in Nat /\ HashOf[n.key] % z = b
      BY <2>2, <2>3, <3>1, ChainFacts DEF InPlace
    <3> DEFINE x == HashOf[n.key]
    <3>3. n.key \in high <=> x % nz >= z
      BY <3>2
    <3>4. x \in Nat
      BY <3>2
    <3> HIDE DEF high, nz, x
    <3>5. /\ x % nz \in Nat
          /\ x % z = IF x % nz < z THEN x % nz ELSE (x % nz) - z
      <4>1. /\ x % (2 * z) \in 0..(2 * z - 1)
            /\ x % z = IF x % (2 * z) < z THEN x % (2 * z) ELSE (x % (2 * z)) - z
        BY <2>1, <3>4, Doubling
      <4>2. QED
        BY <2>1, <4>1
    <3>6. b = IF n.key \in high THEN (x % nz) - z ELSE x % nz
      BY <2>1, <3>2, <3>3, <3>5 DEF x
    <3>7. QED
      BY <3>2, <3>6 DEF x
  <2>5. \A b \in 0..(z - 1) :
          /\ f[b] = Those(h.buckets[b], Keys \ high)
          /\ f[b + z] = Those(h.buckets[b], high)
    <3>1. SUFFICES ASSUME NEW b \in 0..(z - 1)
                   PROVE  /\ f[b] = Those(h.buckets[b], Keys \ high)
                          /\ f[b + z] = Those(h.buckets[b], high)
      OBVIOUS
    <3>2. b \in 0..(nz - 1) /\ b < z /\ b + z \in 0..(nz - 1) /\ ~(b + z < z) /\ (b + z) - z = b
      BY <2>1
    <3>3. QED
      BY <1>5, <3>2
  <2>6. \A b \in 0..(nz - 1) :
          \/ b \in 0..(z - 1)
          \/ \E a \in 0..(z - 1) : b = a + z
    <3>1. SUFFICES ASSUME NEW b \in 0..(nz - 1), b \notin 0..(z - 1)
                   PROVE  \E a \in 0..(z - 1) : b = a + z
      OBVIOUS
    <3>2. b - z \in 0..(z - 1) /\ b = (b - z) + z
      BY <2>1, <3>1
    <3>3. QED
      BY <3>2
  <2>7. DOMAIN f = 0..(nz - 1) /\ f = [b \in 0..(nz - 1) |-> f[b]]
    OBVIOUS
  <2>8. \A b \in 0..(z - 1) : /\ Those(h.buckets[b], Keys \ high) \in Chains
                              /\ Distinct(Those(h.buckets[b], Keys \ high))
                              /\ InPlace(Those(h.buckets[b], Keys \ high), b, nz)
    <3> HIDE DEF high, nz
    <3>1. QED
      BY <2>3, <2>4, ThoseFacts DEF InPlace
  <2>9. \A b \in 0..(z - 1) : /\ Those(h.buckets[b], high) \in Chains
                              /\ Distinct(Those(h.buckets[b], high))
                              /\ InPlace(Those(h.buckets[b], high), b + z, nz)
    <3>1. SUFFICES ASSUME NEW b \in 0..(z - 1)
                   PROVE  /\ Those(h.buckets[b], high) \in Chains
                          /\ Distinct(Those(h.buckets[b], high))
                          /\ InPlace(Those(h.buckets[b], high), b + z, nz)
      OBVIOUS
    <3>2. \A x \in Nat : x % nz \in Nat
      <4>1. \A x \in Nat : x % nz \in 0..(nz - 1)
        BY <1>3, Division
      <4>2. QED
        BY <4>1, <1>3
    <3> HIDE DEF high, nz
    <3>3. /\ Those(h.buckets[b], high) \in Chains
          /\ Distinct(Those(h.buckets[b], high))
          /\ \A n : Among(n, Those(h.buckets[b], high)) =>
               Among(n, h.buckets[b]) /\ n.key \in high
      BY <2>3, ThoseFacts
    <3>4. ASSUME NEW n, Among(n, Those(h.buckets[b], high))
          PROVE  HashOf[n.key] % nz = b + z
      <4>1. b = (HashOf[n.key] % nz) - z /\ HashOf[n.key] \in Nat
        BY <2>4, <3>3, <3>4
      <4>2. HashOf[n.key] % nz \in Nat
        BY <3>2, <4>1
      <4>3. QED
        BY <2>1, <4>1, <4>2
    <3>5. QED
      BY <3>3, <3>4 DEF InPlace
  <2>10. \A b \in 0..(nz - 1) : f[b] \in Chains /\ Distinct(f[b]) /\ InPlace(f[b], b, nz)
    <3> HIDE DEF f, high, nz
    <3>1. QED
      BY <2>5, <2>6, <2>8, <2>9
  <2>11. f \in [0..(nz - 1) -> Chains]
    <3> HIDE DEF f
    <3>1. QED
      BY <2>7, <2>10
  <2>12. \A n : (\E b \in 0..(nz - 1) : Among(n, f[b])) <=> In(n, h)
    <3>1. ASSUME NEW n, NEW b \in 0..(nz - 1), Among(n, f[b])
          PROVE  In(n, h)
      <4> HIDE DEF f, high, nz
      <4>1. CASE b \in 0..(z - 1)
        <5>1. Among(n, h.buckets[b])
          BY <2>3, <2>5, <3>1, <4>1, ThoseFacts
        <5>2. QED
          BY <4>1, <5>1 DEF In
      <4>2. CASE \E a \in 0..(z - 1) : b = a + z
        <5>1. PICK a \in 0..(z - 1) : b = a + z
          BY <4>2
        <5>2. Among(n, h.buckets[a])
          BY <2>3, <2>5, <3>1, <5>1, ThoseFacts
        <5>3. QED
          BY <5>2 DEF In
      <4>3. QED
        BY <2>6, <4>1, <4>2
    <3>2. ASSUME NEW n, In(n, h)
          PROVE  \E b \in 0..(nz - 1) : Among(n, f[b])
      <4>1. PICK b \in 0..(z - 1) : Among(n, h.buckets[b])
        BY <3>2 DEF In
      <4>2. b \in 0..(nz - 1) /\ b + z \in 0..(nz - 1)
        BY <2>1
      <4> HIDE DEF f, high, nz
      <4>3. n.key \in Keys
        BY <2>4, <4>1
      <4>4. Among(n, f[b]) \/ Among(n, f[b + z])
        BY <2>3, <2>5, <4>1, <4>3, ThoseFacts
      <4>5. QED
        BY <4>2, <4>4
    <3>3. QED
      BY <3>1, <3>2
  <2> HIDE DEF f, high, nz
  <2>13. /\ Formed(Made(h.entries, nz, f))
         /\ \A n : In(n, Made(h.entries, nz, f)) <=> \E b \in 0..(nz - 1) : Among(n, f[b])
    BY <1>1, <1>3, <2>10, <2>11, MadeFormed
  <2>14. QED
    BY <1>2, <1>3, <2>12, <2>13 DEF Made
<1>6. QED
  BY <1>4, <1>5

(* Half of the buckets, each with what has been in two.                      *)
LEMMA ShrinkFacts ==
  ASSUME NEW h, Formed(h), Consistent,
         h.capacity > 1 \/ (h.capacity = 1 /\ \A n : ~In(n, h))
  PROVE  /\ Formed(Shrink(h)) /\ Shrink(h).entries = h.entries
         /\ \A n : In(n, Shrink(h)) <=> In(n, h)
<1> DEFINE z == h.capacity
           c == z \div 2
           f == [b \in 0..(c - 1) |-> h.buckets[b] \o h.buckets[b + c]]
<1>1. h = Made(h.entries, z, h.buckets) /\ h.entries \in Nat /\ z \in Nat
  BY TableParts DEF Formed
<1>2. Shrink(h) = Made(h.entries, c, f)
  <2>1. Shrink(h) = [h EXCEPT !.capacity = c, !.buckets = f]
    BY DEF Shrink
  <2> HIDE DEF c, f
  <2>2. QED
    BY <1>1, <2>1 DEF Made
<1>3. CASE z = 1 /\ \A n : ~In(n, h)
  <2>1. c = 0
    BY <1>3
  <2>2. PowerOfTwo(0) /\ 0..(0 - 1) = {}
    BY DEF PowerOfTwo
  <2> HIDE DEF c
  <2>3. f \in [0..(0 - 1) -> Chains]
    BY <2>1, <2>2
  <2> HIDE DEF f
  <2>4. /\ Formed(Made(h.entries, 0, f))
        /\ \A n : In(n, Made(h.entries, 0, f)) <=> \E b \in 0..(0 - 1) : Among(n, f[b])
    BY <1>1, <2>2, <2>3, MadeFormed
  <2>5. QED
    BY <1>2, <1>3, <2>1, <2>2, <2>4 DEF Made
<1>4. CASE z > 1
  <2>1. z = 2 * c /\ c \in Nat \ {0} /\ PowerOfTwo(c)
    BY <1>1, <1>4, PowerHalved DEF Formed
  <2> HIDE DEF c
  <2>2. \A b \in 0..(z - 1) :
          h.buckets[b] \in Chains /\ Distinct(h.buckets[b]) /\ InPlace(h.buckets[b], b, z)
    BY DEF Formed
  <2>3. \A n \in NodeSet : n.key \in Keys /\ HashOf[n.key] \in Nat
    BY HashAssumption DEF NodeSet
  <2>4. \A b \in 0..(c - 1) : b \in 0..(z - 1) /\ b + c \in 0..(z - 1) /\ b # b + c
    BY <2>1
  <2>5. ASSUME NEW b \in 0..(c - 1)
        PROVE  /\ f[b] \in Chains /\ Distinct(f[b]) /\ InPlace(f[b], b, c)
               /\ \A n : Among(n, f[b]) <=>
                    Among(n, h.buckets[b]) \/ Among(n, h.buckets[b + c])
    <3> DEFINE s == h.buckets[b]
               t == h.buckets[b + c]
    <3>1. f[b] = s \o t
      OBVIOUS
    <3>2. /\ s \in Chains /\ Distinct(s) /\ InPlace(s, b, z)
          /\ t \in Chains /\ Distinct(t) /\ InPlace(t, b + c, z)
      BY <2>2, <2>4
    <3> HIDE DEF f, s, t
    <3>3. \A m, n : Among(m, s) /\ Among(n, t) => ~Equal(m.key, n.key)
      <4>1. SUFFICES ASSUME NEW m, NEW n, Among(m, s), Among(n, t), Equal(m.key, n.key)
                     PROVE  FALSE
        OBVIOUS
      <4>2. HashOf[m.key] % z = b /\ HashOf[n.key] % z = b + c
        BY <3>2, <4>1 DEF InPlace
      <4>3. m.key \in Keys /\ n.key \in Keys
        BY <2>3, <3>2, <4>1, ChainFacts
      <4>4. HashOf[m.key] = HashOf[n.key]
        BY <4>1, <4>3 DEF Consistent
      <4>5. b = b + c
        BY <4>2, <4>4
      <4>6. QED
        BY <2>4, <4>5
    <3>4. /\ s \o t \in Chains /\ Distinct(s \o t)
          /\ \A n : Among(n, s \o t) <=> Among(n, s) \/ Among(n, t)
      BY <3>2, <3>3, ConcatFacts
    <3>5. \A n : Among(n, s \o t) => HashOf[n.key] % c = b
      <4>1. SUFFICES ASSUME NEW n, Among(n, s) \/ Among(n, t)
                     PROVE  HashOf[n.key] % c = b
        BY <3>4
      <4>2. n \in NodeSet
        BY <3>2, <4>1, ChainFacts
      <4> DEFINE x == HashOf[n.key]
      <4>3. x \in Nat
        BY <2>3, <4>2
      <4>4. x % z = b \/ x % z = b + c
        BY <3>2, <4>1 DEF InPlace
      <4> HIDE DEF x
      <4>5. x % c = IF x % (2 * c) < c THEN x % (2 * c) ELSE (x % (2 * c)) - c
        BY <2>1, <4>3, Doubling
      <4>6. x % c = b
        BY <2>1, <4>4, <4>5
      <4>7. QED
        BY <4>6 DEF x
    <3>6. QED
      BY <3>1, <3>4, <3>5 DEF InPlace, s, t
  <2>6. f \in [0..(c - 1) -> Chains]
    <3>1. f = [b \in 0..(c - 1) |-> f[b]]
      OBVIOUS
    <3> HIDE DEF f
    <3>2. QED
      BY <2>5, <3>1
  <2> HIDE DEF f
  <2>7. /\ Formed(Made(h.entries, c, f))
        /\ \A n : In(n, Made(h.entries, c, f)) <=> \E b \in 0..(c - 1) : Among(n, f[b])
    BY <1>1, <2>1, <2>5, <2>6, MadeFormed
  <2>8. \A b \in 0..(z - 1) : b \in 0..(c - 1) \/ \E a \in 0..(c - 1) : b = a + c
    <3>1. SUFFICES ASSUME NEW b \in 0..(z - 1), b \notin 0..(c - 1)
                   PROVE  \E a \in 0..(c - 1) : b = a + c
      OBVIOUS
    <3>2. b - c \in 0..(c - 1) /\ b = (b - c) + c
      BY <2>1, <3>1
    <3>3. QED
      BY <3>2
  <2>9. \A n : (\E b \in 0..(c - 1) : Among(n, f[b])) <=> In(n, h)
    <3>1. ASSUME NEW n, NEW b \in 0..(c - 1), Among(n, f[b])
          PROVE  In(n, h)
      BY <2>4, <2>5, <3>1 DEF In
    <3>2. ASSUME NEW n, In(n, h)
          PROVE  \E b \in 0..(c - 1) : Among(n, f[b])
      <4>1. PICK b \in 0..(z - 1) : Among(n, h.buckets[b])
        BY <3>2 DEF In
      <4>2. QED
        BY <2>5, <2>8, <4>1
    <3>3. QED
      BY <3>1, <3>2
  <2>10. QED
    BY <1>2, <2>7, <2>9 DEF Made
<1>5. QED
  BY <1>3, <1>4

(* One bucket becomes another.                                               *)
WithBucket(h, e, b, s) == Made(e, h.capacity, [h.buckets EXCEPT ![b] = s])

LEMMA BucketFacts ==
  ASSUME NEW h, Formed(h), NEW e \in Nat, NEW b \in 0..(h.capacity - 1),
         NEW s \in Chains, Distinct(s), InPlace(s, b, h.capacity)
  PROVE  /\ Formed(WithBucket(h, e, b, s))
         /\ \A n : In(n, WithBucket(h, e, b, s)) <=>
              Among(n, s) \/ (In(n, h) /\ HashOf[n.key] % h.capacity # b)
<1> DEFINE c == h.capacity
           f == [h.buckets EXCEPT ![b] = s]
<1>1. c \in Nat /\ PowerOfTwo(c)
  BY TableParts DEF Formed
<1>2. /\ h.buckets \in [0..(c - 1) -> Chains]
      /\ \A a \in 0..(c - 1) : Distinct(h.buckets[a]) /\ InPlace(h.buckets[a], a, c)
  BY DEF Formed
<1>3. /\ f \in [0..(c - 1) -> Chains] /\ f[b] = s
      /\ \A a \in 0..(c - 1) : a # b => f[a] = h.buckets[a]
  BY <1>2
<1> HIDE DEF f
<1>4. \A a \in 0..(c - 1) : Distinct(f[a]) /\ InPlace(f[a], a, c)
  BY <1>2, <1>3
<1>5. /\ Formed(Made(e, c, f))
      /\ \A n : In(n, Made(e, c, f)) <=> \E a \in 0..(c - 1) : Among(n, f[a])
  BY <1>1, <1>3, <1>4, MadeFormed
<1>6. ASSUME NEW n
      PROVE  (\E a \in 0..(c - 1) : Among(n, f[a]))
               <=> Among(n, s) \/ (In(n, h) /\ HashOf[n.key] % c # b)
  <2>1. ASSUME NEW a \in 0..(c - 1), Among(n, f[a]), a # b
        PROVE  In(n, h) /\ HashOf[n.key] % c # b
    BY <1>2, <1>3, <2>1 DEF In, InPlace
  <2>2. ASSUME In(n, h), HashOf[n.key] % c # b
        PROVE  \E a \in 0..(c - 1) : Among(n, f[a])
    <3>1. PICK a \in 0..(c - 1) : Among(n, h.buckets[a])
      BY <2>2 DEF In
    <3>2. a # b
      BY <1>2, <2>2, <3>1 DEF InPlace
    <3>3. QED
      BY <1>3, <3>1, <3>2
  <2>3. QED
    BY <1>3, <2>1, <2>2
<1>7. QED
  BY <1>5, <1>6 DEF WithBucket, f

LEMMA InsertFacts ==
  ASSUME NEW h, Formed(h), Consistent, NEW k \in Keys, NEW v \in Values,
         \A n : In(n, h) => ~Equal(n.key, k), h.entries + 1 < SizeMod
  PROVE  /\ Formed(Insert(h, k, v)) /\ Insert(h, k, v).entries = h.entries + 1
         /\ \A n : In(n, Insert(h, k, v)) <=> In(n, h) \/ n = Node(k, v)
<1> DEFINE g == IF h.capacity = 0 \/ h.entries = h.capacity THEN Grow(h) ELSE h
           b == Home(g, k)
           s == g.buckets[b]
<1>1. /\ Formed(g) /\ g.entries = h.entries /\ g.capacity # 0
      /\ \A n : In(n, g) <=> In(n, h)
  BY GrowFacts
<1>2. Insert(h, k, v) = [g EXCEPT !.buckets[b] = Append(@, Node(k, v)),
                                  !.entries = (@ + 1) % SizeMod]
  BY DEF Insert, Home
<1> HIDE DEF g
<1>3. g = Made(g.entries, g.capacity, g.buckets) /\ g.entries \in Nat /\ g.capacity \in Nat
  BY <1>1, TableParts DEF Formed
<1>4. /\ b \in 0..(g.capacity - 1) /\ s \in Chains /\ Distinct(s)
      /\ InPlace(s, b, g.capacity)
  BY <1>1, HomeFacts DEF Formed
<1>5. Insert(h, k, v) =
        WithBucket(g, (g.entries + 1) % SizeMod, b, Append(s, Node(k, v)))
  <2> HIDE DEF b
  <2>1. QED
    BY <1>2, <1>3 DEF WithBucket, Made
<1>6. (g.entries + 1) % SizeMod = h.entries + 1 /\ h.entries + 1 \in Nat
  <2>1. h.entries + 1 \in Nat /\ h.entries + 1 \in 0..(SizeMod - 1) /\ SizeMod \in Nat \ {0}
    BY <1>1, <1>3, SizeAssumption
  <2>2. (h.entries + 1) % SizeMod = h.entries + 1
    BY <2>1, Remainder
  <2>3. QED
    BY <1>1, <2>1, <2>2
<1>7. Node(k, v) \in NodeSet /\ Node(k, v).key = k
  BY DEF Node, NodeSet
<1> DEFINE t == Append(s, Node(k, v))
<1>8. t \in Chains /\ \A n : Among(n, t) <=> Among(n, s) \/ n = Node(k, v)
  BY <1>4, <1>7, AppendFacts
<1>9. Distinct(t)
  <2>1. \A n : Among(n, s) => In(n, h)
    BY <1>1, <1>4 DEF In
  <2>2. \A n : Among(n, s) => ~Equal(n.key, Node(k, v).key)
    BY <1>7, <2>1
  <2>3. QED
    BY <1>4, <1>7, <2>2, AppendDistinct
<1>10. InPlace(t, b, g.capacity)
  BY <1>4, <1>7, <1>8 DEF InPlace, Home
<1>11. \A n : In(n, g) /\ HashOf[n.key] % g.capacity = b => Among(n, s)
  BY <1>1, InFacts
<1>12. \A n : Among(n, s) => In(n, g)
  BY <1>4 DEF In
<1> HIDE DEF b, s, t
<1>13. /\ Formed(WithBucket(g, h.entries + 1, b, t))
       /\ \A n : In(n, WithBucket(g, h.entries + 1, b, t)) <=>
              Among(n, t) \/ (In(n, g) /\ HashOf[n.key] % g.capacity # b)
  BY <1>1, <1>4, <1>6, <1>8, <1>9, <1>10, BucketFacts
<1>14. Insert(h, k, v) = WithBucket(g, h.entries + 1, b, t)
  BY <1>5, <1>6 DEF t
<1>15. Insert(h, k, v).entries = h.entries + 1
  BY <1>14 DEF WithBucket, Made
<1>16. \A n : In(n, Insert(h, k, v)) <=> In(n, h) \/ n = Node(k, v)
  BY <1>1, <1>8, <1>11, <1>12, <1>13, <1>14
<1>17. QED
  BY <1>13, <1>14, <1>15, <1>16

(* A value is replaced where it is.                                          *)
Replaced(h, k, v) ==
  [h EXCEPT !.buckets[HashOf[k] % h.capacity][Lookup(h, k)].val = v]

(* Two tables have the same keys at the same places.                         *)
SameKeys(h, g) ==
  /\ g.capacity = h.capacity
  /\ \A b \in 0..(h.capacity - 1) :
       /\ Len(g.buckets[b]) = Len(h.buckets[b])
       /\ \A i \in 1..Len(h.buckets[b]) : g.buckets[b][i].key = h.buckets[b][i].key

LEMMA ReplacedFacts ==
  ASSUME NEW h, Formed(h), Consistent, NEW k \in Keys, NEW v \in Values, Has(h, k)
  PROVE  /\ Formed(Replaced(h, k, v)) /\ Replaced(h, k, v).entries = h.entries
         /\ SameKeys(h, Replaced(h, k, v))
         /\ \E j \in Keys : /\ Equal(j, k)
                            /\ \A n : In(n, Replaced(h, k, v)) <=>
                                 (In(n, h) /\ ~Equal(n.key, k)) \/ n = Node(j, v)
<1> DEFINE b == Home(h, k)
           i == Lookup(h, k)
           s == h.buckets[b]
           t == [s EXCEPT ![i].val = v]
<1>1. h = Made(h.entries, h.capacity, h.buckets) /\ h.entries \in Nat /\ h.capacity \in Nat
  BY TableParts DEF Formed
<1>2. /\ h.capacity # 0 /\ i \in 1..Len(s) /\ Equal(s[i].key, k) /\ In(s[i], h)
  BY LookupFacts DEF Has
<1>3. /\ b \in 0..(h.capacity - 1) /\ s \in Chains /\ Distinct(s)
      /\ InPlace(s, b, h.capacity) /\ h.buckets \in [0..(h.capacity - 1) -> Chains]
  BY <1>2, HomeFacts DEF Formed
<1>4. Replaced(h, k, v) = WithBucket(h, h.entries, b, t)
  <2>1. Replaced(h, k, v) = [h EXCEPT !.buckets[b][i].val = v]
    BY DEF Replaced, Home
  <2> HIDE DEF b, i
  <2>2. QED
    BY <1>1, <2>1 DEF WithBucket, Made
<1> DEFINE j == s[i].key
<1> HIDE DEF b, i, s
<1>5. /\ Len(s) \in Nat /\ s \in [1..Len(s) -> NodeSet]
      /\ j \in Keys /\ s[i] \in NodeSet
  <2>1. Len(s) \in Nat /\ s \in [1..Len(s) -> NodeSet] /\ s[i] \in NodeSet
    BY <1>2, <1>3, ChainFacts, LenProperties DEF Chains
  <2>2. QED
    BY <2>1 DEF NodeSet
<1>6. /\ t = [s EXCEPT ![i] = Node(j, v)] /\ Node(j, v) \in NodeSet /\ Node(j, v).key = j
  <2>1. [s[i] EXCEPT !.val = v] = Node(j, v)
    BY <1>5 DEF NodeSet, Node
  <2>2. t = [s EXCEPT ![i] = [s[i] EXCEPT !.val = v]]
    OBVIOUS
  <2>3. Node(j, v) \in NodeSet /\ Node(j, v).key = j
    BY <1>5 DEF NodeSet, Node
  <2>4. QED
    BY <2>1, <2>2, <2>3
<1> HIDE DEF t
<1>7. /\ t \in Chains /\ Len(t) = Len(s) /\ t[i] = Node(j, v)
      /\ \A a \in 1..Len(s) : a # i => t[a] = s[a]
  <2>1. t \in [1..Len(s) -> NodeSet]
    BY <1>5, <1>6
  <2>2. t \in Seq(NodeSet) /\ Len(t) = Len(s)
    BY <1>5, <2>1, IsASeq, LenProperties
  <2>3. QED
    BY <1>2, <1>5, <1>6, <2>2 DEF Chains
<1>8. \A a \in 1..Len(s) : t[a].key = s[a].key
  BY <1>6, <1>7 DEF j
<1> HIDE DEF j
<1>9. Distinct(t)
  BY <1>3, <1>7, <1>8 DEF Distinct
<1>10. InPlace(t, b, h.capacity)
  <2>1. ASSUME NEW a \in 1..Len(s)
        PROVE  HashOf[t[a].key] % h.capacity = b
    <3>1. Among(s[a], s)
      BY DEF Among
    <3>2. QED
      BY <1>3, <1>8, <3>1 DEF InPlace
  <2>2. QED
    BY <1>7, <2>1 DEF InPlace, Among
<1>11. /\ Formed(WithBucket(h, h.entries, b, t))
       /\ \A n : In(n, WithBucket(h, h.entries, b, t)) <=>
              Among(n, t) \/ (In(n, h) /\ HashOf[n.key] % h.capacity # b)
  BY <1>1, <1>3, <1>7, <1>9, <1>10, BucketFacts
<1>12. ASSUME NEW n
       PROVE  Among(n, t) \/ (In(n, h) /\ HashOf[n.key] % h.capacity # b)
                <=> (In(n, h) /\ ~Equal(n.key, k)) \/ n = Node(j, v)
  <2>1. j \in Keys /\ Equal(j, k) /\ HashOf[j] = HashOf[k]
    BY <1>2, <1>5 DEF j, Consistent
  <2>2. ASSUME NEW a \in 1..Len(t), t[a] = n, a # i
        PROVE  In(n, h) /\ ~Equal(n.key, k)
    <3>1. n = s[a] /\ a \in 1..Len(s)
      BY <1>7, <2>2
    <3>2. In(n, h)
      BY <1>3, <3>1 DEF In, Among, s
    <3>3. ~Equal(s[a].key, s[i].key)
      BY <1>2, <1>3, <2>2, <3>1 DEF Distinct
    <3>4. QED
      BY <1>2, <3>1, <3>2, <3>3 DEF Equal
  <2>3. ASSUME In(n, h), HashOf[n.key] % h.capacity # b
        PROVE  ~Equal(n.key, k)
    <3>1. n.key \in Keys
      BY <2>3, InFacts
    <3>2. HashOf[n.key] # HashOf[k]
      BY <2>3 DEF b, Home
    <3>3. QED
      BY <3>1, <3>2 DEF Consistent
  <2>4. ASSUME In(n, h), ~Equal(n.key, k), HashOf[n.key] % h.capacity = b
        PROVE  Among(n, t)
    <3>1. Among(n, s)
      BY <2>4, InFacts DEF s
    <3>2. PICK a \in 1..Len(s) : s[a] = n
      BY <3>1 DEF Among
    <3>3. a # i
      BY <1>2, <2>4, <3>2
    <3>4. QED
      BY <1>7, <3>2, <3>3 DEF Among
  <2>5. Among(Node(j, v), t)
    BY <1>2, <1>7 DEF Among
  <2>6. ASSUME Among(n, t)
        PROVE  (In(n, h) /\ ~Equal(n.key, k)) \/ n = Node(j, v)
    BY <1>7, <2>2, <2>6 DEF Among
  <2>7. QED
    BY <2>3, <2>4, <2>5, <2>6
<1>13. SameKeys(h, WithBucket(h, h.entries, b, t))
  <2> DEFINE r == WithBucket(h, h.entries, b, t)
  <2>1. /\ r.capacity = h.capacity /\ r.buckets[b] = t
        /\ \A a \in 0..(h.capacity - 1) : a # b => r.buckets[a] = h.buckets[a]
    BY <1>3 DEF WithBucket, Made
  <2> HIDE DEF r
  <2>2. ASSUME NEW a \in 0..(h.capacity - 1)
        PROVE  /\ Len(r.buckets[a]) = Len(h.buckets[a])
               /\ \A x \in 1..Len(h.buckets[a]) : r.buckets[a][x].key = h.buckets[a][x].key
    <3>1. CASE a = b
      BY <1>7, <1>8, <2>1, <3>1 DEF s
    <3>2. CASE a # b
      BY <2>1, <3>2
    <3>3. QED
      BY <3>1, <3>2
  <2>3. QED
    BY <2>1, <2>2 DEF SameKeys, r
<1>14. WithBucket(h, h.entries, b, t).entries = h.entries
  BY DEF WithBucket, Made
<1>15. j \in Keys /\ Equal(j, k)
  BY <1>2, <1>5 DEF j
<1>16. QED
  BY <1>4, <1>11, <1>12, <1>13, <1>14, <1>15

-----------------------------------------------------------------------------
(* Counting: the number of entries is the number of classes of equal keys    *)
(* that are bound, which is finite, so it does not wrap.                     *)

Classes(h) == {q \in Keys : \E n : In(n, h) /\ EqualTo[n.key] = q}

Good(h) == Formed(h) /\ h.entries = Cardinality(Classes(h))

LEMMA ClassFacts ==
  ASSUME NEW h
  PROVE  /\ IsFiniteSet(Classes(h)) /\ Cardinality(Classes(h)) \in Nat
         /\ Cardinality(Classes(h)) <= Cardinality(Keys) /\ Cardinality(Keys) \in Nat
         /\ \A q \in Keys : q \notin Classes(h) =>
              Cardinality(Classes(h)) + 1 <= Cardinality(Keys)
<1>1. IsFiniteSet(Keys) /\ Classes(h) \subseteq Keys
  BY SizeAssumption DEF Classes
<1>2. /\ IsFiniteSet(Classes(h)) /\ Cardinality(Classes(h)) \in Nat
      /\ Cardinality(Classes(h)) <= Cardinality(Keys) /\ Cardinality(Keys) \in Nat
  BY <1>1, FS_Subset, FS_CardinalityType
<1>3. ASSUME NEW q \in Keys, q \notin Classes(h)
      PROVE  Cardinality(Classes(h)) + 1 <= Cardinality(Keys)
  <2> DEFINE C == Classes(h)
  <2> HIDE DEF C
  <2>1. C \cup {q} \subseteq Keys /\ IsFiniteSet(C) /\ q \notin C
    BY <1>1, <1>2, <1>3 DEF C
  <2>2. Cardinality(C \cup {q}) = Cardinality(C) + 1
    BY <2>1, FS_AddElement
  <2>3. Cardinality(C \cup {q}) <= Cardinality(Keys)
    BY <1>1, <2>1, FS_Subset
  <2>4. QED
    BY <2>2, <2>3 DEF C
<1>4. QED
  BY <1>2, <1>3

LEMMA GoodEntries ==
  ASSUME NEW h, Good(h)
  PROVE  /\ h.entries \in Nat /\ h.entries <= Cardinality(Keys) /\ Cardinality(Keys) \in Nat
         /\ SizeMod \in Nat \ {0} /\ 4 * Cardinality(Keys) < SizeMod
<1>1. Cardinality(Classes(h)) \in Nat /\ Cardinality(Classes(h)) <= Cardinality(Keys)
      /\ Cardinality(Keys) \in Nat
  BY ClassFacts
<1>2. QED
  BY <1>1, SizeAssumption DEF Good

LEMMA PutFacts ==
  ASSUME NEW h, Good(h), Consistent, NEW k \in Keys, NEW v \in Values
  PROVE  /\ Good(Put(h, k, v))
         /\ Has(h, k) => Put(h, k, v).entries = h.entries /\ SameKeys(h, Put(h, k, v))
         /\ ~Has(h, k) => /\ Put(h, k, v).entries # h.entries
                          /\ \A n : In(n, Put(h, k, v)) <=> In(n, h) \/ n = Node(k, v)
         /\ \E j \in Keys : /\ Equal(j, k)
                            /\ \A n : In(n, Put(h, k, v)) <=>
                                 (In(n, h) /\ ~Equal(n.key, k)) \/ n = Node(j, v)
<1> DEFINE g == Put(h, k, v)
<1>0. Formed(h) /\ EqualTo \in [Keys -> Keys]
  BY HashAssumption DEF Good
<1>1. CASE Has(h, k)
  <2>1. g = Replaced(h, k, v)
    BY <1>1 DEF Put, Replaced
  <2> HIDE DEF g
  <2>2. /\ Formed(g) /\ g.entries = h.entries /\ SameKeys(h, g)
        /\ \E j \in Keys : /\ Equal(j, k)
                           /\ \A n : In(n, g) <=> (In(n, h) /\ ~Equal(n.key, k)) \/ n = Node(j, v)
    BY <1>0, <1>1, <2>1, ReplacedFacts
  <2>3. PICK j \in Keys : /\ Equal(j, k)
                          /\ \A n : In(n, g) <=>
                               (In(n, h) /\ ~Equal(n.key, k)) \/ n = Node(j, v)
    BY <2>2
  <2>4. PICK m : In(m, h) /\ Equal(m.key, k)
    BY <1>0, <1>1, LookupFacts
  <2>5. Classes(g) = Classes(h)
    <3>1. ASSUME NEW n, In(n, g)
          PROVE  \E p : In(p, h) /\ EqualTo[p.key] = EqualTo[n.key]
      <4>1. CASE In(n, h)
        BY <4>1
      <4>2. CASE n = Node(j, v)
        <5>1. EqualTo[m.key] = EqualTo[n.key]
          BY <2>3, <2>4, <4>2 DEF Equal, Node
        <5>2. QED
          BY <2>4, <5>1
      <4>3. QED
        BY <2>3, <3>1, <4>1, <4>2
    <3>2. ASSUME NEW n, In(n, h)
          PROVE  \E p : In(p, g) /\ EqualTo[p.key] = EqualTo[n.key]
      <4>1. CASE ~Equal(n.key, k)
        BY <2>3, <3>2, <4>1
      <4>2. CASE Equal(n.key, k)
        <5>1. EqualTo[Node(j, v).key] = EqualTo[n.key] /\ In(Node(j, v), g)
          BY <2>3, <4>2 DEF Equal, Node
        <5>2. QED
          BY <5>1
      <4>3. QED
        BY <4>1, <4>2
    <3>3. QED
      BY <3>1, <3>2 DEF Classes
  <2>6. Good(g)
    BY <2>2, <2>5 DEF Good
  <2>7. QED
    BY <1>1, <2>2, <2>6 DEF g
<1>2. CASE ~Has(h, k)
  <2>1. g = Insert(h, k, v)
    BY <1>2 DEF Put
  <2> HIDE DEF g
  <2>2. \A n : In(n, h) => ~Equal(n.key, k)
    BY <1>0, <1>2, LookupFacts
  <2>3. EqualTo[k] \in Keys /\ EqualTo[k] \notin Classes(h)
    BY <1>0, <2>2 DEF Classes, Equal
  <2>4. Cardinality(Classes(h)) + 1 <= Cardinality(Keys)
    BY <2>3, ClassFacts
  <2>5. h.entries + 1 < SizeMod /\ h.entries \in Nat
    BY <2>4, GoodEntries DEF Good
  <2>6. /\ Formed(g) /\ g.entries = h.entries + 1
        /\ \A n : In(n, g) <=> In(n, h) \/ n = Node(k, v)
    BY <1>0, <2>1, <2>2, <2>5, InsertFacts
  <2>7. Classes(g) = Classes(h) \cup {EqualTo[k]}
    <3>1. Node(k, v).key = k
      BY DEF Node
    <3>2. QED
      BY <2>3, <2>6, <3>1 DEF Classes
  <2>8. Cardinality(Classes(g)) = Cardinality(Classes(h)) + 1
    <3> DEFINE C == Classes(h)
    <3>1. IsFiniteSet(C) /\ EqualTo[k] \notin C
      BY <2>3, ClassFacts
    <3> HIDE DEF C
    <3>2. Cardinality(C \cup {EqualTo[k]}) = Cardinality(C) + 1
      BY <3>1, FS_AddElement
    <3>3. QED
      BY <2>7, <3>2 DEF C
  <2>9. Good(g)
    BY <2>6, <2>8 DEF Good
  <2>10. Equal(k, k) /\ \A n : In(n, g) <=> (In(n, h) /\ ~Equal(n.key, k)) \/ n = Node(k, v)
    BY <2>2, <2>6 DEF Equal
  <2>11. g.entries # h.entries
    BY <2>5, <2>6
  <2>12. QED
    BY <1>2, <2>6, <2>9, <2>10, <2>11 DEF g
<1>3. QED
  BY <1>1, <1>2

LEMMA UnlinkFacts ==
  ASSUME NEW h, Good(h), Consistent, NEW k \in Keys
  PROVE  /\ Good(Unlink(h, k))
         /\ \A n : In(n, Unlink(h, k)) <=> In(n, h) /\ ~Equal(n.key, k)
<1>0. Formed(h) /\ EqualTo \in [Keys -> Keys]
  BY HashAssumption DEF Good
<1>1. CASE ~Has(h, k)
  <2>1. \A n : In(n, h) => ~Equal(n.key, k)
    BY <1>0, <1>1, LookupFacts
  <2>2. Unlink(h, k) = h
    BY <1>1 DEF Unlink
  <2>3. QED
    BY <2>1, <2>2
<1>2. CASE Has(h, k)
  <2> DEFINE b == Home(h, k)
             i == Lookup(h, k)
             s == h.buckets[b]
             t == RemoveAt(s, i)
             r == [h EXCEPT !.buckets[b] = RemoveAt(@, i),
                            !.entries = (@ - 1) % SizeMod]
  <2>1. h = Made(h.entries, h.capacity, h.buckets) /\ h.capacity \in Nat
    BY <1>0, TableParts DEF Formed
  <2>2. /\ h.capacity # 0 /\ i \in 1..Len(s) /\ Equal(s[i].key, k) /\ In(s[i], h)
    BY <1>0, <1>2, LookupFacts
  <2>3. /\ b \in 0..(h.capacity - 1) /\ s \in Chains /\ Distinct(s)
        /\ InPlace(s, b, h.capacity)
    BY <1>0, <2>2, HomeFacts DEF Formed
  <2>4. Unlink(h, k) = IF (r.entries * 4) % SizeMod < r.capacity THEN Shrink(r) ELSE r
    BY <1>2 DEF Unlink, Home
  <2>5. r = WithBucket(h, (h.entries - 1) % SizeMod, b, t)
    <3> HIDE DEF b, i
    <3>1. r = [h EXCEPT !.buckets = [h.buckets EXCEPT ![b] = t],
                        !.entries = (h.entries - 1) % SizeMod]
      OBVIOUS
    <3> HIDE DEF r, t
    <3>2. QED
      BY <2>1, <3>1 DEF WithBucket, Made
  <2> DEFINE q == EqualTo[k]
  <2>6. q \in Classes(h)
    BY <1>0, <2>2 DEF Classes, Equal
  <2> HIDE DEF r, b, i, s, q
  <2>7. /\ t \in Chains /\ Distinct(t)
        /\ \A n : Among(n, t) <=> Among(n, s) /\ n # s[i]
    BY <2>2, <2>3, RemoveFacts
  <2> HIDE DEF t
  <2>8. InPlace(t, b, h.capacity)
    BY <2>3, <2>7 DEF InPlace
  <2>9. /\ (h.entries - 1) % SizeMod = h.entries - 1 /\ h.entries - 1 \in Nat
        /\ Cardinality(Classes(h) \ {q}) = h.entries - 1
    <3> DEFINE C == Classes(h)
    <3>1. IsFiniteSet(C) /\ q \in C /\ Cardinality(C) = h.entries
      BY <2>6, ClassFacts DEF Good
    <3> HIDE DEF C
    <3>2. IsFiniteSet(C \ {q}) /\ Cardinality(C \ {q}) = h.entries - 1
      BY <3>1, FS_RemoveElement
    <3>3. h.entries - 1 \in Nat
      BY <3>2, FS_CardinalityType
    <3>4. h.entries - 1 \in 0..(SizeMod - 1) /\ SizeMod \in Nat \ {0}
      BY <3>3, GoodEntries
    <3>5. (h.entries - 1) % SizeMod = h.entries - 1
      <4> DEFINE e == h.entries - 1
      <4>1. e \in Nat /\ e \in 0..(SizeMod - 1) /\ SizeMod \in Nat \ {0}
        BY <3>3, <3>4
      <4> HIDE DEF e
      <4>2. e % SizeMod = e
        BY <4>1, Remainder
      <4>3. QED
        BY <4>2 DEF e
    <3>6. QED
      BY <3>2, <3>3, <3>5 DEF C
  <2>10. /\ Formed(r)
         /\ \A n : In(n, r) <=> Among(n, t) \/ (In(n, h) /\ HashOf[n.key] % h.capacity # b)
    <3>1. r = WithBucket(h, h.entries - 1, b, t)
      BY <2>5, <2>9
    <3>2. QED
      BY <1>0, <2>3, <2>7, <2>8, <2>9, <3>1, BucketFacts
  <2>11. \A n : In(n, r) <=> In(n, h) /\ ~Equal(n.key, k)
    <3>1. ASSUME NEW n, Among(n, t)
          PROVE  In(n, h) /\ ~Equal(n.key, k)
      <4>1. Among(n, s) /\ n # s[i]
        BY <2>7, <3>1
      <4>2. In(n, h)
        BY <2>3, <4>1 DEF In, s
      <4>3. ~Equal(n.key, s[i].key)
        BY <1>0, <2>2, <4>1, <4>2, OneOfEach
      <4>4. QED
        BY <2>2, <4>2, <4>3 DEF Equal
    <3>2. ASSUME NEW n, In(n, h), HashOf[n.key] % h.capacity # b
          PROVE  ~Equal(n.key, k)
      <4>1. n.key \in Keys /\ HashOf[n.key] # HashOf[k]
        BY <1>0, <3>2, InFacts DEF b, Home
      <4>2. QED
        BY <4>1 DEF Consistent
    <3>3. ASSUME NEW n, In(n, h), ~Equal(n.key, k), HashOf[n.key] % h.capacity = b
          PROVE  Among(n, t)
      <4>1. Among(n, s) /\ n # s[i]
        BY <1>0, <2>2, <3>3, InFacts DEF s
      <4>2. QED
        BY <2>7, <4>1
    <3>4. QED
      BY <2>10, <3>1, <3>2, <3>3
  <2>12. Classes(r) = Classes(h) \ {q}
    BY <2>11 DEF Classes, Equal, q
  <2>13. r.entries = h.entries - 1
    BY <2>5, <2>9 DEF WithBucket, Made
  <2>14. Good(r)
    BY <2>9, <2>10, <2>12, <2>13 DEF Good
  <2>15. CASE ~((r.entries * 4) % SizeMod < r.capacity)
    BY <2>4, <2>11, <2>14, <2>15
  <2>16. CASE (r.entries * 4) % SizeMod < r.capacity
    <3>1. (r.entries * 4) % SizeMod = r.entries * 4 /\ r.entries \in Nat
      <4> DEFINE e == r.entries * 4
      <4>1. r.entries \in Nat /\ e \in Nat /\ e \in 0..(SizeMod - 1) /\ SizeMod \in Nat \ {0}
        BY <2>14, GoodEntries
      <4> HIDE DEF e
      <4>2. e % SizeMod = e
        BY <4>1, Remainder
      <4>3. QED
        BY <4>1, <4>2 DEF e
    <3>2. r.capacity = h.capacity
      BY <2>5 DEF WithBucket, Made
    <3>3. r.capacity > 1 \/ (r.capacity = 1 /\ \A n : ~In(n, r))
      <4>1. CASE r.capacity = 1
        <5>1. r.entries = 0
          BY <2>16, <3>1, <4>1
        <5>2. Classes(r) = {}
          BY <2>14, <5>1, ClassFacts, FS_EmptySet DEF Good
        <5>3. ASSUME NEW n, In(n, r)
              PROVE  EqualTo[n.key] \in Classes(r)
          BY <1>0, <2>10, <5>3, InFacts DEF Classes
        <5>4. QED
          BY <4>1, <5>2, <5>3
      <4>2. QED
        BY <2>1, <2>2, <3>2, <4>1
    <3>4. /\ Formed(Shrink(r)) /\ Shrink(r).entries = r.entries
          /\ \A n : In(n, Shrink(r)) <=> In(n, r)
      BY <2>10, <3>3, ShrinkFacts
    <3>5. Classes(Shrink(r)) = Classes(r)
      BY <3>4 DEF Classes
    <3>6. Good(Shrink(r))
      BY <2>14, <3>4, <3>5 DEF Good
    <3>7. QED
      BY <2>4, <2>11, <2>16, <3>4, <3>6
  <2>17. QED
    BY <2>15, <2>16
<1>3. QED
  BY <1>1, <1>2

-----------------------------------------------------------------------------
(* The nodes of a table in the order of its buckets, and a copy of it.       *)

IsBelow(g, h) ==
  g = [b \in 0..h.capacity |-> IF b = 0 THEN << >> ELSE g[b - 1] \o h.buckets[b - 1]]

LEMMA BelowExists ==
  ASSUME NEW h, Formed(h)
  PROVE  \E g \in [0..h.capacity -> Chains] : IsBelow(g, h)
<1> DEFINE n == h.capacity
           step == [p \in (1..n) \X Chains |-> p[2] \o h.buckets[p[1] - 1]]
<1>1. n \in Nat /\ \A i \in 1..n : h.buckets[i - 1] \in Chains
  BY TableParts DEF Formed
<1>2. << >> \in Chains
  BY EmptySeq DEF Chains
<1>3. \A i \in 1..n, s \in Chains : s \o h.buckets[i - 1] \in Chains
  BY <1>1, ConcatFacts
<1>4. step \in [(1..n) \X Chains -> Chains]
  BY <1>3
<1>5. \A i \in 1..n, s \in Chains : step[<<i, s>>] = s \o h.buckets[i - 1]
  OBVIOUS
<1> HIDE DEF n, step
<1>6. PICK g \in [0..n -> Chains] : Runs(g, n, << >>, step)
  BY <1>1, <1>2, <1>4, Recursion
<1>7. ASSUME NEW i \in 1..n
      PROVE  g[i] = g[i - 1] \o h.buckets[i - 1]
  <2>1. g[i - 1] \in Chains
    BY <1>1
  <2>2. QED
    BY <1>5, <1>6, <2>1 DEF Runs
<1> DEFINE r == [b \in 0..n |-> IF b = 0 THEN << >> ELSE g[b - 1] \o h.buckets[b - 1]]
<1>8. ASSUME NEW i \in 0..n
      PROVE  g[i] = r[i]
  <2>1. CASE i = 0
    BY <1>6, <2>1 DEF Runs
  <2>2. CASE i # 0
    <3>1. i \in 1..n
      BY <1>1, <2>2
    <3>2. QED
      BY <1>7, <2>2, <3>1
  <2>3. QED
    BY <2>1, <2>2
<1>9. g = r
  BY <1>8
<1>10. IsBelow(g, h)
  BY <1>9 DEF IsBelow, n
<1>11. QED
  BY <1>10 DEF n

LEMMA NodesFacts ==
  ASSUME NEW h, Formed(h), Consistent
  PROVE  /\ Nodes(h) \in Chains /\ Distinct(Nodes(h))
         /\ \A n : Among(n, Nodes(h)) <=> In(n, h)
<1> DEFINE g == CHOOSE g : IsBelow(g, h)
           c == h.capacity
<1>1. IsBelow(g, h)
  BY BelowExists
<1>2. Nodes(h) = g[c]
  BY DEF Nodes, IsBelow
<1> HIDE DEF g
<1>3. /\ c \in Nat
      /\ \A b \in 0..(c - 1) : /\ h.buckets[b] \in Chains /\ Distinct(h.buckets[b])
                               /\ InPlace(h.buckets[b], b, c)
  BY TableParts DEF Formed
<1>4. g[0] = << >>
  BY <1>1, <1>3 DEF IsBelow
<1>5. ASSUME NEW i \in 1..c
      PROVE  g[i] = g[i - 1] \o h.buckets[i - 1]
  <2>1. i \in 0..c /\ i # 0
    BY <1>3
  <2>2. QED
    BY <1>1, <2>1 DEF IsBelow
<1> DEFINE Right(i) ==
             /\ g[i] \in Chains /\ Distinct(g[i])
             /\ \A n : Among(n, g[i]) <=> \E b \in 0..(i - 1) : Among(n, h.buckets[b])
           A == {i \in 0..c : Right(i)}
<1>6. Right(0)
  <2>1. << >> \in Chains /\ Len(<< >>) = 0
    BY EmptySeq DEF Chains
  <2>2. QED
    BY <1>4, <2>1 DEF Among, Distinct
<1>7. ASSUME NEW i \in 1..c, Right(i - 1)
      PROVE  Right(i)
  <2> DEFINE s == g[i - 1]
             t == h.buckets[i - 1]
  <2>1. i - 1 \in 0..(c - 1)
    BY <1>3
  <2>2. t \in Chains /\ Distinct(t) /\ InPlace(t, i - 1, c)
    BY <1>3, <2>1
  <2>3. /\ s \in Chains /\ Distinct(s)
        /\ \A n : Among(n, s) <=> \E b \in 0..((i - 1) - 1) : Among(n, h.buckets[b])
    BY <1>7
  <2> HIDE DEF Right
  <2>4. ASSUME NEW m, NEW n, Among(m, s), Among(n, t), Equal(m.key, n.key)
        PROVE  FALSE
    <3>1. PICK b \in 0..((i - 1) - 1) : Among(m, h.buckets[b])
      BY <2>3, <2>4
    <3>2. b \in 0..(c - 1) /\ b # i - 1
      BY <1>3
    <3>3. HashOf[m.key] % c = b /\ HashOf[n.key] % c = i - 1
      BY <1>3, <2>2, <2>4, <3>1, <3>2 DEF InPlace
    <3>4. m.key \in Keys /\ n.key \in Keys
      <4>1. m \in NodeSet /\ n \in NodeSet
        BY <1>3, <2>2, <2>4, <3>1, <3>2, ChainFacts
      <4>2. QED
        BY <4>1 DEF NodeSet
    <3>5. HashOf[m.key] = HashOf[n.key]
      BY <2>4, <3>4 DEF Consistent
    <3>6. QED
      BY <3>2, <3>3, <3>5
  <2> HIDE DEF s, t
  <2>5. /\ s \o t \in Chains /\ Distinct(s \o t)
        /\ \A n : Among(n, s \o t) <=> Among(n, s) \/ Among(n, t)
    BY <2>2, <2>3, <2>4, ConcatFacts
  <2>6. g[i] = s \o t
    BY <1>5 DEF s, t
  <2>7. \A b : b \in 0..(i - 1) <=> b \in 0..((i - 1) - 1) \/ b = i - 1
    BY <1>3
  <2>8. \A n : Among(n, g[i]) <=> \E b \in 0..(i - 1) : Among(n, h.buckets[b])
    BY <2>3, <2>5, <2>6, <2>7 DEF t
  <2>9. QED
    BY <2>5, <2>6, <2>8 DEF Right
<1> HIDE DEF Right
<1>8. 0 \in A /\ \A i \in 1..c : i - 1 \in A => i \in A
  BY <1>3, <1>6, <1>7
<1>9. Right(c)
  <2> HIDE DEF A
  <2>1. \A i \in 0..c : i \in A
    BY <1>3, <1>8, UpTo
  <2>2. QED
    BY <1>3, <2>1 DEF A
<1>10. QED
  BY <1>2, <1>9 DEF Right, In

(* As many nodes as classes of keys.                                         *)
LEMMA NodesCounted ==
  ASSUME NEW h, Good(h), Consistent
  PROVE  h.entries = Len(Nodes(h))
<1> DEFINE s == Nodes(h)
           f == [i \in 1..Len(s) |-> EqualTo[s[i].key]]
           C == Classes(h)
<1>0. Formed(h)
  BY DEF Good
<1>1. s \in Chains /\ Distinct(s) /\ Len(s) \in Nat /\ \A n : Among(n, s) <=> In(n, h)
  BY <1>0, NodesFacts, ChainFacts
<1>2. \A i \in 1..Len(s) : f[i] \in C
  <2>1. SUFFICES ASSUME NEW i \in 1..Len(s)
                 PROVE  EqualTo[s[i].key] \in C
    OBVIOUS
  <2>2. In(s[i], h) /\ s[i].key \in Keys
    BY <1>1, ChainFacts DEF Among
  <2>3. QED
    BY <2>2, HashAssumption DEF Classes
<1>3. \A i, j \in 1..Len(s) : f[i] = f[j] => i = j
  BY <1>1 DEF Distinct, Equal
<1>4. \A q \in C : \E i \in 1..Len(s) : f[i] = q
  <2>1. SUFFICES ASSUME NEW q \in C
                 PROVE  \E i \in 1..Len(s) : EqualTo[s[i].key] = q
    OBVIOUS
  <2>2. PICK n : In(n, h) /\ EqualTo[n.key] = q
    BY DEF Classes
  <2>3. PICK i \in 1..Len(s) : s[i] = n
    BY <1>1, <2>2 DEF Among
  <2>4. QED
    BY <2>2, <2>3
<1>5. f \in [1..Len(s) -> C]
  BY <1>2
<1> HIDE DEF f, C, s
<1>6. ExistsBijection(1..Len(s), C)
  <2>1. f \in Injection(1..Len(s), C)
    BY <1>3, <1>5 DEF Injection, IsInjective
  <2>2. f \in Surjection(1..Len(s), C)
    BY <1>4, <1>5 DEF Surjection
  <2>3. QED
    BY <2>1, <2>2 DEF ExistsBijection, Bijection
<1>7. IsFiniteSet(1..Len(s)) /\ Cardinality(1..Len(s)) = Len(s)
  <2>1. IsFiniteSet(1..Len(s))
        /\ Cardinality(1..Len(s)) = IF 1 > Len(s) THEN 0 ELSE Len(s) - 1 + 1
    BY <1>1, FS_Interval
  <2>2. QED
    BY <1>1, <2>1
<1>8. Cardinality(C) = Len(s)
  BY <1>6, <1>7, FS_Bijection
<1>9. QED
  BY <1>8 DEF Good, C, s

GoodTables == {g \in Table : Good(g)}

IsCopied(g, nodes) ==
  g = [i \in 0..Len(nodes) |->
         IF i = 0 THEN Blank ELSE Put(g[i - 1], nodes[i].key, nodes[i].val)]

LEMMA BlankGood == Blank \in GoodTables
<1>1. Formed(Blank) /\ Blank.entries = 0 /\ \A n : ~In(n, Blank)
  BY BlankFormed
<1>2. Classes(Blank) = {}
  BY <1>1 DEF Classes
<1>3. Good(Blank)
  BY <1>1, <1>2, FS_EmptySet DEF Good
<1>4. QED
  BY <1>1, <1>3 DEF GoodTables, Formed

LEMMA CopiedExist ==
  ASSUME NEW nodes \in Chains, Consistent
  PROVE  \E g \in [0..Len(nodes) -> GoodTables] : IsCopied(g, nodes)
<1> DEFINE n == Len(nodes)
           step == [p \in (1..n) \X GoodTables |->
                      Put(p[2], nodes[p[1]].key, nodes[p[1]].val)]
<1>1. n \in Nat /\ \A i \in 1..n : nodes[i].key \in Keys /\ nodes[i].val \in Values
  BY ChainFacts
<1>2. Blank \in GoodTables
  BY BlankGood
<1>3. \A i \in 1..n, t \in GoodTables : Put(t, nodes[i].key, nodes[i].val) \in GoodTables
  BY <1>1, PutFacts DEF GoodTables, Good, Formed
<1>4. step \in [(1..n) \X GoodTables -> GoodTables]
  BY <1>3
<1>5. \A i \in 1..n, t \in GoodTables : step[<<i, t>>] = Put(t, nodes[i].key, nodes[i].val)
  OBVIOUS
<1> HIDE DEF n, step
<1>6. PICK g \in [0..n -> GoodTables] : Runs(g, n, Blank, step)
  BY <1>1, <1>2, <1>4, Recursion
<1>7. ASSUME NEW i \in 1..n
      PROVE  g[i] = Put(g[i - 1], nodes[i].key, nodes[i].val)
  <2>1. g[i - 1] \in GoodTables
    BY <1>1
  <2>2. QED
    BY <1>5, <1>6, <2>1 DEF Runs
<1> DEFINE r == [i \in 0..n |->
                   IF i = 0 THEN Blank ELSE Put(g[i - 1], nodes[i].key, nodes[i].val)]
<1>8. ASSUME NEW i \in 0..n
      PROVE  g[i] = r[i]
  <2>1. CASE i = 0
    BY <1>6, <2>1 DEF Runs
  <2>2. CASE i # 0
    <3>1. i \in 1..n
      BY <1>1, <2>2
    <3>2. QED
      BY <1>7, <2>2, <3>1
  <2>3. QED
    BY <2>1, <2>2
<1>9. g = r
  BY <1>8
<1>10. IsCopied(g, nodes)
  BY <1>9 DEF IsCopied, n
<1>11. QED
  BY <1>10 DEF n

LEMMA CopyFacts ==
  ASSUME NEW h, Good(h), Consistent
  PROVE  Good(CopyOf(h)) /\ \A n : In(n, CopyOf(h)) <=> In(n, h)
<1> DEFINE nodes == Nodes(h)
           c == Len(nodes)
           g == CHOOSE g : IsCopied(g, nodes)
<1>0. Formed(h)
  BY DEF Good
<1>1. /\ nodes \in Chains /\ Distinct(nodes) /\ c \in Nat
      /\ \A n : Among(n, nodes) <=> In(n, h)
      /\ \A i \in 1..c : nodes[i] \in NodeSet
  BY <1>0, NodesFacts, ChainFacts
<1>2. CopyOf(h) = g[c]
  BY DEF CopyOf, IsCopied
<1> HIDE DEF nodes
<1>3. IsCopied(g, nodes)
  BY <1>1, CopiedExist
<1> HIDE DEF g
<1>4. g[0] = Blank
  BY <1>1, <1>3 DEF IsCopied
<1>5. ASSUME NEW i \in 1..c
      PROVE  g[i] = Put(g[i - 1], nodes[i].key, nodes[i].val)
  <2>1. i \in 0..c /\ i # 0
    BY <1>1
  <2>2. QED
    BY <1>3, <2>1 DEF IsCopied
<1> DEFINE Right(i) ==
             Good(g[i]) /\ \A n : In(n, g[i]) <=> \E j \in 1..i : nodes[j] = n
           A == {i \in 0..c : Right(i)}
<1>6. Right(0)
  BY <1>4, BlankGood, BlankFormed DEF GoodTables
<1>7. ASSUME NEW i \in 1..c, Right(i - 1)
      PROVE  Right(i)
  <2> DEFINE t == g[i - 1]
             k == nodes[i].key
             v == nodes[i].val
  <2>1. Good(t) /\ \A n : In(n, t) <=> \E j \in 1..(i - 1) : nodes[j] = n
    BY <1>7
  <2>2. k \in Keys /\ v \in Values /\ Node(k, v) = nodes[i]
    BY <1>1 DEF NodeSet, Node
  <2>3. g[i] = Put(t, k, v)
    BY <1>5
  <2>4. \A n : In(n, t) => ~Equal(n.key, k)
    BY <1>1, <2>1 DEF Distinct
  <2> HIDE DEF t, k, v, Right
  <2>5. ~Has(t, k)
    BY <2>1, <2>2, <2>4, LookupFacts DEF Good
  <2>6. Good(g[i]) /\ \A n : In(n, g[i]) <=> In(n, t) \/ n = Node(k, v)
    <3>1. Good(Put(t, k, v)) /\ \A n : In(n, Put(t, k, v)) <=> In(n, t) \/ n = Node(k, v)
      <4>1. Good(t) /\ k \in Keys /\ v \in Values
        BY <2>1, <2>2
      <4>2. QED
        BY <2>5, <4>1, PutFacts
    <3>2. QED
      BY <2>3, <3>1
  <2>7. \A j : j \in 1..i <=> j \in 1..(i - 1) \/ j = i
    BY <1>1
  <2>8. \A n : In(n, g[i]) <=> \E j \in 1..i : nodes[j] = n
    BY <2>1, <2>2, <2>6, <2>7
  <2>9. QED
    BY <2>6, <2>8 DEF Right
<1> HIDE DEF Right, c
<1>8. 0 \in A /\ \A i \in 1..c : i - 1 \in A => i \in A
  BY <1>1, <1>6, <1>7
<1>9. Right(c)
  <2> HIDE DEF A
  <2>1. \A i \in 0..c : i \in A
    BY <1>1, <1>8, UpTo
  <2>2. QED
    BY <1>1, <2>1 DEF A
<1>10. QED
  BY <1>1, <1>2, <1>9 DEF Right, Among, c

-----------------------------------------------------------------------------
(* The map that a table stands for.                                          *)

LEMMA MapFacts ==
  ASSUME NEW h, Good(h), Consistent
  PROVE  /\ MapOf(h) = [q \in Classes(h) |-> MapOf(h)[q]]
         /\ \A n : In(n, h) => MapOf(h)[EqualTo[n.key]] = n.val
<1>0. Formed(h) /\ EqualTo \in [Keys -> Keys]
  BY HashAssumption DEF Good
<1> DEFINE D == {EqualTo[j] : j \in {i \in Keys : Has(h, i)}}
<1>1. \A k \in Keys : Has(h, k) <=> \E n : In(n, h) /\ Equal(n.key, k)
  BY <1>0, LookupFacts
<1>2. D = Classes(h)
  <2>1. ASSUME NEW k \in Keys, Has(h, k)
        PROVE  EqualTo[k] \in Classes(h)
    BY <1>0, <1>1, <2>1 DEF Classes, Equal
  <2>2. ASSUME NEW q \in Classes(h)
        PROVE  q \in D
    <3>1. PICK n : In(n, h) /\ EqualTo[n.key] = q
      BY DEF Classes
    <3>2. n.key \in Keys /\ Has(h, n.key)
      BY <1>0, <1>1, <3>1, InFacts DEF Equal
    <3>3. QED
      BY <3>1, <3>2
  <2>3. QED
    BY <2>1, <2>2
<1>3. MapOf(h) = [k \in D |-> Get(h, k)]
  BY DEF MapOf
<1> HIDE DEF D
<1>4. ASSUME NEW n, In(n, h)
      PROVE  MapOf(h)[EqualTo[n.key]] = n.val
  <2> DEFINE q == EqualTo[n.key]
  <2>1. n.key \in Keys /\ q \in Keys /\ q \in Classes(h) /\ EqualTo[q] = q
    BY <1>0, <1>4, InFacts, HashAssumption DEF Classes
  <2>2. Equal(n.key, q)
    BY <2>1 DEF Equal
  <2> HIDE DEF q
  <2>3. Has(h, q)
    BY <1>1, <1>4, <2>1, <2>2
  <2>4. PICK m : In(m, h) /\ Equal(m.key, q) /\ Get(h, q) = m.val
    BY <1>0, <2>1, <2>3, LookupFacts
  <2>5. m = n
    <3>1. Equal(m.key, n.key)
      BY <2>2, <2>4 DEF Equal
    <3>2. QED
      BY <1>0, <1>4, <2>4, <3>1, OneOfEach
  <2>6. QED
    BY <1>2, <1>3, <2>1, <2>4, <2>5 DEF q
<1>5. QED
  BY <1>2, <1>3, <1>4

(* It is determined by the nodes.                                            *)
LEMMA MapIs ==
  ASSUME NEW h, Good(h), Consistent, NEW D, NEW f, D = Classes(h),
         \A n : In(n, h) => f[EqualTo[n.key]] = n.val
  PROVE  MapOf(h) = [q \in D |-> f[q]]
<1>1. /\ MapOf(h) = [q \in Classes(h) |-> MapOf(h)[q]]
      /\ \A n : In(n, h) => MapOf(h)[EqualTo[n.key]] = n.val
  BY MapFacts
<1>2. \A q \in Classes(h) : MapOf(h)[q] = f[q]
  BY <1>1 DEF Classes
<1>3. QED
  BY <1>1, <1>2

LEMMA MapBlank == MapOf(Blank) = << >>
<1>1. \A k \in Keys : ~Has(Blank, k)
  BY DEF Has, Lookup, Blank
<1> DEFINE D == {EqualTo[j] : j \in {i \in Keys : Has(Blank, i)}}
<1>2. D = {} /\ MapOf(Blank) = [k \in D |-> Get(Blank, k)]
  BY <1>1 DEF MapOf
<1> HIDE DEF D
<1>3. [k \in D |-> Get(Blank, k)] = << >>
  BY <1>2
<1>4. QED
  BY <1>2, <1>3

LEMMA MapCopy ==
  ASSUME NEW h, Good(h), Consistent
  PROVE  MapOf(CopyOf(h)) = MapOf(h)
<1>1. Good(CopyOf(h)) /\ \A n : In(n, CopyOf(h)) <=> In(n, h)
  BY CopyFacts
<1>2. Classes(CopyOf(h)) = Classes(h)
  BY <1>1 DEF Classes
<1>3. MapOf(h) = [q \in Classes(h) |-> MapOf(h)[q]]
      /\ \A n : In(n, h) => MapOf(h)[EqualTo[n.key]] = n.val
  BY MapFacts
<1> DEFINE g == CopyOf(h)
           f == MapOf(h)
           D == Classes(h)
<1> HIDE DEF g, f, D
<1>4. MapOf(g) = [q \in D |-> f[q]]
  BY <1>1, <1>2, <1>3, MapIs DEF g, f, D
<1>5. QED
  BY <1>3, <1>4 DEF g, f, D

LEMMA MapPut ==
  ASSUME NEW h, Good(h), Consistent, NEW k \in Keys, NEW v \in Values
  PROVE  MapOf(Put(h, k, v)) =
           [j \in DOMAIN MapOf(h) \cup {EqualTo[k]} |->
              IF j = EqualTo[k] THEN v ELSE MapOf(h)[j]]
<1> DEFINE g == Put(h, k, v)
           f == MapOf(h)
           D == Classes(h) \cup {EqualTo[k]}
           r == [j \in D |-> IF j = EqualTo[k] THEN v ELSE f[j]]
<1>1. /\ f = [q \in Classes(h) |-> f[q]]
      /\ \A n : In(n, h) => f[EqualTo[n.key]] = n.val
  BY MapFacts
<1>2. Good(g)
  BY PutFacts
<1>3. PICK j \in Keys : Equal(j, k) /\ \A n : In(n, g) <=>
                             (In(n, h) /\ ~Equal(n.key, k)) \/ n = Node(j, v)
  BY PutFacts
<1>4. EqualTo[k] \in Keys /\ \A n : In(n, h) => n.key \in Keys /\ EqualTo[n.key] \in Classes(h)
  BY HashAssumption, InFacts DEF Good, Classes
<1>5. Node(j, v).key = j /\ Node(j, v).val = v
  BY DEF Node
<1> HIDE DEF g, f
<1>6. Classes(g) = D
  <2>1. ASSUME NEW n, In(n, g)
        PROVE  EqualTo[n.key] \in D
    BY <1>3, <1>4, <1>5, <2>1 DEF Equal
  <2>2. EqualTo[k] \in Classes(g)
    BY <1>3, <1>4, <1>5 DEF Classes, Equal
  <2>3. ASSUME NEW q \in Classes(h), q # EqualTo[k]
        PROVE  q \in Classes(g)
    <3>1. PICK n : In(n, h) /\ EqualTo[n.key] = q
      BY DEF Classes
    <3>2. In(n, g)
      BY <1>3, <2>3, <3>1 DEF Equal
    <3>3. QED
      BY <3>1, <3>2 DEF Classes
  <2>4. QED
    BY <2>1, <2>2, <2>3 DEF Classes
<1>7. ASSUME NEW n, In(n, g)
      PROVE  r[EqualTo[n.key]] = n.val
  <2>1. CASE n = Node(j, v)
    BY <1>3, <1>5, <2>1 DEF Equal
  <2>2. CASE In(n, h) /\ ~Equal(n.key, k)
    <3>1. EqualTo[n.key] \in D /\ EqualTo[n.key] # EqualTo[k]
      BY <1>4, <2>2 DEF Equal
    <3>2. QED
      BY <1>1, <2>2, <3>1
  <2>3. QED
    BY <1>3, <1>7, <2>1, <2>2
<1>8. DOMAIN f = Classes(h) /\ r = [q \in D |-> r[q]]
  BY <1>1
<1> HIDE DEF D
<1>9. MapOf(g) = r
  <2> HIDE DEF r
  <2>1. MapOf(g) = [q \in D |-> r[q]]
    BY <1>2, <1>6, <1>7, MapIs
  <2>2. QED
    BY <1>8, <2>1
<1>10. QED
  BY <1>8, <1>9 DEF g, f, D

LEMMA MapUnlink ==
  ASSUME NEW h, Good(h), Consistent, NEW k \in Keys
  PROVE  MapOf(Unlink(h, k)) =
           [j \in DOMAIN MapOf(h) \ {EqualTo[k]} |-> MapOf(h)[j]]
<1> DEFINE g == Unlink(h, k)
           f == MapOf(h)
           D == Classes(h) \ {EqualTo[k]}
<1>1. /\ f = [q \in Classes(h) |-> f[q]]
      /\ \A n : In(n, h) => f[EqualTo[n.key]] = n.val
  BY MapFacts
<1>2. Good(g) /\ \A n : In(n, g) <=> In(n, h) /\ ~Equal(n.key, k)
  BY UnlinkFacts
<1> HIDE DEF g, f
<1>3. Classes(g) = D
  BY <1>2 DEF Classes, Equal
<1>4. DOMAIN f = Classes(h)
  BY <1>1
<1>5. \A n : In(n, g) => f[EqualTo[n.key]] = n.val
  BY <1>1, <1>2
<1> HIDE DEF D
<1>6. MapOf(g) = [q \in D |-> f[q]]
  BY <1>2, <1>3, <1>5, MapIs
<1>7. QED
  BY <1>4, <1>6 DEF g, f, D

-----------------------------------------------------------------------------
(* Iterators.  What has been given are the keys of the nodes before the next *)
(* one, each once.                                                           *)

Seen(it, b, i) == b < it.bucket \/ (b = it.bucket /\ (it.next = 0 \/ i < it.next))

Places(h, b) == 1..Len(h.buckets[b])

Given(it, k) == \E x \in 1..Len(it.given) : it.given[x] = k

Progress(it, h) ==
  /\ it.bucket \in -1..(h.capacity - 1)
  /\ it.next # 0 => it.bucket # -1 /\ it.next \in Places(h, it.bucket)
  /\ \A k : Given(it, k) <=> \E b \in 0..(h.capacity - 1) : \E i \in Places(h, b) :
                               Seen(it, b, i) /\ h.buckets[b][i].key = k
  /\ \A x, y \in 1..Len(it.given) : it.given[x] = it.given[y] => x = y
  /\ it.ended => \A b \in 0..(h.capacity - 1) : \A i \in Places(h, b) : Seen(it, b, i)

Iterators == [on : Dicts, bucket : Int, next : Nat, fresh : {TRUE},
              given : Seq(Keys), ended : BOOLEAN]

IterOk(it, tables) ==
  \/ it = None
  \/ it.on \in Dicts /\ it.ended = FALSE /\ it.fresh = FALSE
  \/ it \in Iterators /\ Progress(it, tables[it.on])

(* Progress depends on the keys alone.                                       *)
LEMMA ProgressKept ==
  ASSUME NEW it, NEW h, NEW g, SameKeys(h, g), Progress(it, h)
  PROVE  Progress(it, g)
<1>1. /\ g.capacity = h.capacity
      /\ \A b \in 0..(h.capacity - 1) :
           /\ Places(g, b) = Places(h, b)
           /\ \A i \in Places(h, b) : g.buckets[b][i].key = h.buckets[b][i].key
  BY DEF SameKeys, Places
<1>2. it.bucket # -1 => it.bucket \in 0..(h.capacity - 1)
  BY DEF Progress
<1>3. \A k : (\E b \in 0..(h.capacity - 1) : \E i \in Places(h, b) :
                Seen(it, b, i) /\ h.buckets[b][i].key = k)
             <=> (\E b \in 0..(g.capacity - 1) : \E i \in Places(g, b) :
                    Seen(it, b, i) /\ g.buckets[b][i].key = k)
  BY <1>1
<1>4. it.next # 0 => it.bucket # -1 /\ it.next \in Places(g, it.bucket)
  BY <1>1, <1>2 DEF Progress
<1>5. it.ended => \A b \in 0..(g.capacity - 1) : \A i \in Places(g, b) : Seen(it, b, i)
  BY <1>1 DEF Progress
<1>6. QED
  BY <1>1, <1>3, <1>4, <1>5 DEF Progress

LEMMA IterKept ==
  ASSUME NEW it, NEW tb, NEW ub, IterOk(it, tb),
         \A d \in Dicts : it.on = d => ub[d] = tb[d] \/ SameKeys(tb[d], ub[d])
  PROVE  IterOk(it, ub)
<1>1. CASE it \in Iterators /\ Progress(it, tb[it.on])
  <2>1. it.on \in Dicts
    BY <1>1 DEF Iterators
  <2>2. ub[it.on] = tb[it.on] \/ SameKeys(tb[it.on], ub[it.on])
    BY <2>1
  <2>3. Progress(it, ub[it.on])
    BY <1>1, <2>2, ProgressKept
  <2>4. QED
    BY <1>1, <2>3 DEF IterOk
<1>2. QED
  BY <1>1 DEF IterOk

LEMMA IterStale ==
  ASSUME NEW c \in Dicts, NEW tb, NEW ub, IterOk(iter, tb),
         \A d \in Dicts \ {c} : ub[d] = tb[d]
  PROVE  IterOk(StaleIterator(c), ub)
<1>1. CASE iter.on # c
  <2>1. StaleIterator(c) = iter
    BY <1>1 DEF StaleIterator
  <2>2. \A d \in Dicts : iter.on = d => ub[d] = tb[d] \/ SameKeys(tb[d], ub[d])
    BY <1>1
  <2>3. QED
    BY <2>1, <2>2, IterKept
<1>2. CASE iter.on = c
  <2>1. \/ StaleIterator(c) = None
        \/ StaleIterator(c) = [on |-> c, ended |-> FALSE, fresh |-> FALSE]
    BY <1>2 DEF StaleIterator
  <2>2. QED
    BY <2>1 DEF IterOk
<1>3. QED
  BY <1>1, <1>2

LEMMA IterNew ==
  ASSUME NEW c \in Dicts, NEW tb, Formed(tb[c])
  PROVE  IterOk([on |-> c, bucket |-> -1, next |-> 0, fresh |-> TRUE,
                 given |-> << >>, ended |-> FALSE], tb)
<1> DEFINE it == [on |-> c, bucket |-> -1, next |-> 0, fresh |-> TRUE,
                  given |-> << >>, ended |-> FALSE]
           h == tb[c]
<1>1. it \in Iterators
  BY EmptySeq DEF Iterators
<1>2. /\ it.on = c /\ it.bucket = -1 /\ it.next = 0 /\ it.given = << >> /\ ~it.ended
  OBVIOUS
<1> HIDE DEF it
<1>3. h.capacity \in Nat
  BY TableParts DEF Formed
<1>4. \A k : ~Given(it, k)
  BY <1>2 DEF Given
<1>5. \A b \in 0..(h.capacity - 1) : \A i \in Places(h, b) : ~Seen(it, b, i)
  BY <1>2, <1>3 DEF Seen
<1>6. Progress(it, h)
  BY <1>2, <1>3, <1>4, <1>5 DEF Progress
<1>7. QED
  BY <1>1, <1>2, <1>6 DEF IterOk, it

LEMMA SmallestOf ==
  ASSUME NEW A \in SUBSET Nat, A # {}
  PROVE  Min(A) \in A /\ \A x \in A : Min(A) <= x
<1>1. \E n \in A : \A k \in A : <<k, n>> \notin OpToRel(<, Nat)
  BY NatLessThanWellFounded, WFMin
<1>2. PICK n \in A : \A k \in A : ~(k < n)
  BY <1>1 DEF OpToRel
<1>3. \A k \in A : n <= k
  BY <1>2
<1>4. QED
  BY <1>3 DEF Min

(* The place of a key in a table is one.                                     *)
LEMMA OnePlace ==
  ASSUME NEW h, Formed(h), NEW b \in 0..(h.capacity - 1), NEW i \in Places(h, b),
         NEW a \in 0..(h.capacity - 1), NEW j \in Places(h, a),
         h.buckets[a][j].key = h.buckets[b][i].key
  PROVE  a = b /\ i = j
<1>1. /\ Distinct(h.buckets[b]) /\ InPlace(h.buckets[b], b, h.capacity)
      /\ InPlace(h.buckets[a], a, h.capacity)
  BY DEF Formed
<1>2. Among(h.buckets[b][i], h.buckets[b]) /\ Among(h.buckets[a][j], h.buckets[a])
  BY DEF Places, Among
<1>3. a = b
  BY <1>1, <1>2 DEF InPlace
<1>4. Equal(h.buckets[b][i].key, h.buckets[b][j].key)
  BY <1>3 DEF Equal
<1>5. i = j
  BY <1>1, <1>3, <1>4 DEF Distinct, Places
<1>6. QED
  BY <1>3, <1>5

(* An iterator that goes on to a place it has not seen.                      *)
GoneOn(it, h, a, j) ==
  [it EXCEPT !.bucket = a, !.next = IF j < Len(h.buckets[a]) THEN j + 1 ELSE 0,
             !.given = Append(@, h.buckets[a][j].key)]

LEMMA IterGoesOn ==
  ASSUME NEW it \in Iterators, NEW h, Formed(h), Progress(it, h), ~it.ended,
         NEW a \in 0..(h.capacity - 1), NEW j \in Places(h, a),
         \/ it.next # 0 /\ a = it.bucket /\ j = it.next
         \/ /\ it.next = 0 /\ a > it.bucket /\ j = 1
            /\ \A b \in 0..(h.capacity - 1) : b > it.bucket /\ b < a => Places(h, b) = {}
  PROVE  /\ GoneOn(it, h, a, j) \in Iterators /\ Progress(GoneOn(it, h, a, j), h)
         /\ GoneOn(it, h, a, j).on = it.on
<1> DEFINE ti == GoneOn(it, h, a, j)
           k0 == h.buckets[a][j].key
           nx == IF j < Len(h.buckets[a]) THEN j + 1 ELSE 0
<1>0. /\ h.capacity \in Nat
      /\ \A b \in 0..(h.capacity - 1) : h.buckets[b] \in Chains
  BY TableParts DEF Formed
<1>1. Len(h.buckets[a]) \in Nat /\ k0 \in Keys /\ j \in 1..Len(h.buckets[a]) /\ nx \in Nat
  BY <1>0, ChainFacts DEF Places
<1>2. /\ it.bucket \in Int /\ it.next \in Nat /\ it.given \in Seq(Keys)
      /\ Len(it.given) \in Nat /\ it.bucket >= -1
  BY <1>0, LenProperties DEF Iterators, Progress
<1> HIDE DEF k0
<1>3. /\ Append(it.given, k0) \in Seq(Keys)
      /\ Len(Append(it.given, k0)) = Len(it.given) + 1
      /\ \A x \in 1..Len(it.given) + 1 :
           Append(it.given, k0)[x] = IF x <= Len(it.given) THEN it.given[x] ELSE k0
  BY <1>1, <1>2, AppendProperties
<1> DEFINE gv == Append(it.given, k0)
<1> HIDE DEF nx, gv
<1>4. /\ ti \in Iterators /\ ti.on = it.on /\ ti.bucket = a /\ ti.next = nx
      /\ ti.given = gv /\ ti.ended = it.ended
  <2>1. ti = [it EXCEPT !.bucket = a, !.next = nx, !.given = gv]
    BY DEF nx, gv, k0, GoneOn
  <2>2. gv \in Seq(Keys) /\ nx \in Nat /\ a \in Int
    BY <1>0, <1>1, <1>3 DEF gv
  <2> HIDE DEF ti, gv, nx
  <2>3. QED
    BY <2>1, <2>2 DEF Iterators
<1> HIDE DEF ti
<1>5. \A x \in 1..Len(gv) : \/ x \in 1..Len(it.given) /\ gv[x] = it.given[x]
                            \/ x = Len(it.given) + 1 /\ gv[x] = k0
  BY <1>2, <1>3 DEF gv
<1>6. ~Seen(it, a, j)
  BY <1>0, <1>1, <1>2 DEF Seen
<1>7. ASSUME NEW b \in 0..(h.capacity - 1), NEW i \in Places(h, b)
      PROVE  Seen(ti, b, i) <=> Seen(it, b, i) \/ (b = a /\ i = j)
  <2>1. b \in Nat /\ i \in 1..Len(h.buckets[b])
    BY <1>0 DEF Places
  <2>2. CASE b # a
    <3>1. Seen(ti, b, i) <=> b < a
      BY <1>4, <2>2 DEF Seen
    <3>2. CASE it.next # 0 /\ a = it.bucket /\ j = it.next
      BY <2>2, <3>1, <3>2 DEF Seen
    <3>3. CASE /\ it.next = 0 /\ a > it.bucket /\ j = 1
               /\ \A d \in 0..(h.capacity - 1) : d > it.bucket /\ d < a => Places(h, d) = {}
      <4>1. ~(b > it.bucket /\ b < a)
        BY <3>3
      <4>2. Seen(it, b, i) <=> b < it.bucket \/ b = it.bucket
        BY <3>3 DEF Seen
      <4>3. QED
        BY <1>0, <1>2, <2>1, <2>2, <3>1, <3>3, <4>1, <4>2
    <3>4. QED
      BY <3>2, <3>3
  <2>3. CASE b = a
    <3>1. Seen(ti, b, i) <=> i <= j
      BY <1>1, <1>4, <2>1, <2>3 DEF Seen, nx
    <3>2. Seen(it, b, i) <=> i < j
      <4>1. CASE it.next # 0 /\ a = it.bucket /\ j = it.next
        BY <1>2, <2>1, <2>3, <4>1 DEF Seen
      <4>2. CASE it.next = 0 /\ a > it.bucket /\ j = 1
        BY <1>0, <1>2, <2>1, <2>3, <4>2 DEF Seen
      <4>3. QED
        BY <4>1, <4>2
    <3>3. QED
      BY <1>1, <2>1, <2>3, <3>1, <3>2
  <2>4. QED
    BY <2>2, <2>3
<1>8. ASSUME NEW k
      PROVE  Given(ti, k) <=> \E b \in 0..(h.capacity - 1) : \E i \in Places(h, b) :
                                Seen(ti, b, i) /\ h.buckets[b][i].key = k
  <2>1. Given(ti, k) <=> Given(it, k) \/ k = k0
    <3>1. Len(gv) = Len(it.given) + 1
      BY <1>3 DEF gv
    <3>2. ASSUME Given(it, k)
          PROVE  Given(ti, k)
      <4>1. PICK x \in 1..Len(it.given) : it.given[x] = k
        BY <3>2 DEF Given
      <4>2. x \in 1..Len(gv) /\ gv[x] = k
        BY <1>2, <1>3, <3>1, <4>1 DEF gv
      <4>3. QED
        BY <1>4, <4>2 DEF Given
    <3>3. Given(ti, k0)
      <4>1. Len(gv) \in 1..Len(gv) /\ gv[Len(gv)] = k0
        BY <1>2, <1>3, <3>1 DEF gv
      <4>2. QED
        BY <1>4, <4>1 DEF Given
    <3>4. Given(ti, k) => Given(it, k) \/ k = k0
      BY <1>4, <1>5 DEF Given
    <3>5. QED
      BY <3>2, <3>3, <3>4
  <2>2. Given(it, k) <=> \E b \in 0..(h.capacity - 1) : \E i \in Places(h, b) :
                           Seen(it, b, i) /\ h.buckets[b][i].key = k
    BY DEF Progress
  <2>3. QED
    BY <1>7, <2>1, <2>2 DEF k0
<1>9. ~Given(it, k0)
  <2>1. SUFFICES ASSUME NEW b \in 0..(h.capacity - 1), NEW i \in Places(h, b),
                        Seen(it, b, i), h.buckets[b][i].key = k0
                 PROVE  FALSE
    BY DEF Progress
  <2>2. b = a /\ i = j
    BY <2>1, OnePlace DEF k0
  <2>3. QED
    BY <1>6, <2>1, <2>2
<1>10. \A x, y \in 1..Len(ti.given) : ti.given[x] = ti.given[y] => x = y
  <2>1. \A x, y \in 1..Len(it.given) : it.given[x] = it.given[y] => x = y
    BY DEF Progress
  <2>2. \A x \in 1..Len(it.given) : it.given[x] # k0
    BY <1>9 DEF Given
  <2>3. QED
    BY <1>4, <1>5, <2>1, <2>2
<1>11. /\ ti.bucket \in -1..(h.capacity - 1)
       /\ ti.next # 0 => ti.bucket # -1 /\ ti.next \in Places(h, ti.bucket)
  BY <1>0, <1>1, <1>4 DEF Places, nx
<1>12. ~ti.ended
  BY <1>4
<1>13. Progress(ti, h)
  BY <1>8, <1>10, <1>11, <1>12 DEF Progress
<1>14. QED
  BY <1>4, <1>13 DEF ti

LEMMA NextBucketFacts ==
  ASSUME NEW h, Formed(h), NEW b \in Int
  PROVE  \/ /\ NextBucket(h, b) = <<h.capacity, 0>>
            /\ \A a \in 0..(h.capacity - 1) : a > b => Places(h, a) = {}
         \/ \E a \in 0..(h.capacity - 1) :
              /\ NextBucket(h, b) = <<a, 1>> /\ a > b /\ 1 \in Places(h, a)
              /\ \A d \in 0..(h.capacity - 1) : d > b /\ d < a => Places(h, d) = {}
<1> DEFINE full == {i \in DOMAIN h.buckets : i > b /\ h.buckets[i] # << >>}
<1>1. /\ h.capacity \in Nat /\ DOMAIN h.buckets = 0..(h.capacity - 1)
      /\ \A a \in 0..(h.capacity - 1) : h.buckets[a] \in Chains
  BY TableParts DEF Formed
<1>2. NextBucket(h, b) = IF full = {} THEN <<h.capacity, 0>> ELSE <<Min(full), 1>>
  BY DEF NextBucket
<1>3. \A a \in 0..(h.capacity - 1) :
        IF h.buckets[a] = << >> THEN Places(h, a) = {} ELSE 1 \in Places(h, a)
  <2>1. SUFFICES ASSUME NEW a \in 0..(h.capacity - 1)
                 PROVE  IF h.buckets[a] = << >> THEN Places(h, a) = {} ELSE 1 \in Places(h, a)
    OBVIOUS
  <2>2. h.buckets[a] \in Seq(NodeSet) /\ Len(h.buckets[a]) \in Nat
    BY <1>1, ChainFacts DEF Chains
  <2>3. h.buckets[a] = << >> <=> Len(h.buckets[a]) = 0
    BY <2>2, EmptySeq
  <2>4. QED
    BY <2>2, <2>3 DEF Places
<1>4. \A a \in 0..(h.capacity - 1) : a \in full <=> a > b /\ h.buckets[a] # << >>
  BY <1>1
<1>5. full \subseteq 0..(h.capacity - 1) /\ full \in SUBSET Nat
  BY <1>1
<1> HIDE DEF full
<1>6. CASE full = {}
  BY <1>2, <1>3, <1>4, <1>6
<1>7. CASE full # {}
  <2>1. Min(full) \in full /\ \A x \in full : Min(full) <= x
    BY <1>5, <1>7, SmallestOf
  <2> DEFINE a == Min(full)
  <2> HIDE DEF a
  <2>2. a \in full /\ (\A x \in full : a <= x) /\ a \in 0..(h.capacity - 1)
    BY <1>5, <2>1 DEF a
  <2>3. NextBucket(h, b) = <<a, 1>> /\ a > b /\ 1 \in Places(h, a)
    BY <1>2, <1>3, <1>4, <1>7, <2>2 DEF a
  <2>4. ASSUME NEW d \in 0..(h.capacity - 1), d > b, d < a
        PROVE  Places(h, d) = {}
    <3>1. d \notin full
      BY <1>1, <2>2, <2>4
    <3>2. QED
      BY <1>3, <1>4, <2>4, <3>1
  <2>5. QED
    BY <2>2, <2>3, <2>4
<1>8. QED
  BY <1>6, <1>7

(* A call of an iterator.                                                    *)
LEMMA IterateKeeps ==
  ASSUME IterOk(iter, table), Iterate, \A c \in Dicts : Formed(table[c])
  PROVE  IterOk(iter', table)
<1>1. iter # None /\ ~iter.ended
  BY DEF Iterate
<1>2. CASE iter.on \in Dicts /\ iter.ended = FALSE /\ iter.fresh = FALSE
  BY <1>2 DEF Iterate, IterOk
<1>3. CASE iter \in Iterators /\ Progress(iter, table[iter.on])
  <2> DEFINE h == table[iter.on]
             at == IF iter.next > 0 THEN <<iter.bucket, iter.next>>
                                    ELSE NextBucket(h, iter.bucket)
  <2>1. /\ iter.fresh /\ iter.on \in Dicts /\ Formed(h) /\ Progress(iter, h)
        /\ iter.next \in Nat /\ iter.bucket \in Int
    BY <1>3 DEF Iterators
  <2>2. iter' = IF at[2] = 0 THEN [iter EXCEPT !.ended = TRUE]
                        ELSE GoneOn(iter, h, at[1], at[2])
    BY <2>1 DEF Iterate, NodeAt, GoneOn
  <2>3. \A d, j : at = <<d, j>> => at[1] = d /\ at[2] = j
    OBVIOUS
  <2>4. h.capacity \in Nat
    BY <2>1, TableParts DEF Formed
  <2>5. at = IF iter.next > 0 THEN <<iter.bucket, iter.next>> ELSE NextBucket(h, iter.bucket)
    OBVIOUS
  <2> HIDE DEF h, at
  <2>6. CASE iter.next # 0
    <3>1. at = <<iter.bucket, iter.next>>
      BY <2>1, <2>5, <2>6
    <3>2. /\ iter.bucket \in 0..(h.capacity - 1) /\ iter.next \in Places(h, iter.bucket)
      BY <2>1, <2>4, <2>6 DEF Progress
    <3>3. iter' = GoneOn(iter, h, iter.bucket, iter.next)
      BY <2>2, <2>3, <2>6, <3>1
    <3>4. iter' \in Iterators /\ Progress(iter', h) /\ (iter').on = iter.on
      BY <1>1, <1>3, <2>1, <2>6, <3>2, <3>3, IterGoesOn
    <3>5. QED
      BY <3>4 DEF IterOk, h
  <2>7. CASE iter.next = 0
    <3>1. at = NextBucket(h, iter.bucket)
      BY <2>5, <2>7
    <3>2. CASE /\ at = <<h.capacity, 0>>
               /\ \A a \in 0..(h.capacity - 1) : a > iter.bucket => Places(h, a) = {}
      <4>1. iter' = [iter EXCEPT !.ended = TRUE]
        BY <2>2, <2>3, <3>2
      <4>2. /\ iter' \in Iterators /\ (iter').on = iter.on /\ (iter').bucket = iter.bucket
            /\ (iter').next = iter.next /\ (iter').given = iter.given
        BY <1>3, <4>1 DEF Iterators
      <4>3. \A b, i : Seen(iter', b, i) <=> Seen(iter, b, i)
        BY <4>2 DEF Seen
      <4>4. \A k : Given(iter', k) <=> Given(iter, k)
        BY <4>2 DEF Given
      <4>5. \A b \in 0..(h.capacity - 1) : \A i \in Places(h, b) : Seen(iter', b, i)
        <5>1. SUFFICES ASSUME NEW b \in 0..(h.capacity - 1), NEW i \in Places(h, b)
                       PROVE  Seen(iter, b, i)
          BY <4>3
        <5>2. ~(b > iter.bucket)
          BY <3>2
        <5>3. QED
          BY <2>1, <2>4, <2>7, <5>2 DEF Seen
      <4>6. Progress(iter', h)
        BY <2>1, <4>2, <4>3, <4>4, <4>5 DEF Progress
      <4>7. QED
        BY <4>2, <4>6 DEF IterOk, h
    <3>3. CASE \E a \in 0..(h.capacity - 1) :
                 /\ at = <<a, 1>> /\ a > iter.bucket /\ 1 \in Places(h, a)
                 /\ \A d \in 0..(h.capacity - 1) : d > iter.bucket /\ d < a => Places(h, d) = {}
      <4>1. PICK a \in 0..(h.capacity - 1) :
                 /\ at = <<a, 1>> /\ a > iter.bucket /\ 1 \in Places(h, a)
                 /\ \A d \in 0..(h.capacity - 1) : d > iter.bucket /\ d < a => Places(h, d) = {}
        BY <3>3
      <4>2. iter' = GoneOn(iter, h, a, 1)
        BY <2>2, <2>3, <4>1
      <4>3. iter' \in Iterators /\ Progress(iter', h) /\ (iter').on = iter.on
        BY <1>1, <1>3, <2>1, <2>7, <4>1, <4>2, IterGoesOn
      <4>4. QED
        BY <4>3 DEF IterOk, h
    <3>4. QED
      BY <2>1, <3>1, <3>2, <3>3, NextBucketFacts
  <2>8. QED
    BY <2>6, <2>7
<1>4. QED
  BY <1>1, <1>2, <1>3 DEF IterOk

-----------------------------------------------------------------------------
(* The inductive invariant.                                                  *)

PruneOk ==
  \/ prune = None
  \/ prune.on \in Dicts /\ prune.fresh \in BOOLEAN /\ (prune.fresh => prune.pruned = FALSE)

IInv ==
  /\ table \in [Containers -> GoodTables]
  /\ frozen \subseteq Objects
  /\ use \in Uses
  /\ IterOk(iter, table)
  /\ PruneOk

(* What may become of the tables in a step.                                  *)
PutStep == \E c \in Containers \ frozen, k \in Keys, v \in Values :
             table' = [table EXCEPT ![c] = Put(table[c], k, v)]
UnlinkStep == \E c \in Containers \ frozen, k \in Keys :
                table' = [table EXCEPT ![c] = Unlink(table[c], k)]
CopyStep == \E c \in Containers, d \in Containers \ frozen :
              table' = [table EXCEPT ![d] = CopyOf(table[c])]
TableStep == table' = table \/ PutStep \/ UnlinkStep \/ CopyStep

LEMMA UsesFacts ==
  ASSUME IInv, NEW c \in Containers
  PROVE  use.keys[c] \subseteq Keys /\ use.values \subseteq Values
BY UsesAssumption DEF IInv

LEMMA DictsFacts ==
  ASSUME IInv
  PROVE  /\ Dicts \subseteq Containers \ frozen
         /\ iter.on \in Dicts \/ iter = None
         /\ \A c \in Containers : /\ table[c] \in Table
                                  /\ Good(table[c]) /\ Formed(table[c])
<1>1. Dicts \subseteq Containers \ frozen
  BY ContainersAssumption DEF IInv, Containers
<1>2. iter.on \in Dicts \/ iter = None
  BY DEF IInv, IterOk, Iterators
<1>3. \A c \in Containers : table[c] \in GoodTables
  BY DEF IInv
<1>4. QED
  BY <1>1, <1>2, <1>3 DEF GoodTables, Good

(* A good table takes the place of another.                                  *)
LEMMA TableStepGood ==
  ASSUME IInv, Consistent, TableStep
  PROVE  table' \in [Containers -> GoodTables]
<1>1. table \in [Containers -> GoodTables] /\ \A c \in Containers : Good(table[c])
  BY DictsFacts DEF IInv
<1>2. \A h : Good(h) => h \in GoodTables
  BY DEF Good, GoodTables, Formed
<1>3. CASE PutStep
  <2>1. PICK c \in Containers \ frozen, k \in Keys, v \in Values :
          table' = [table EXCEPT ![c] = Put(table[c], k, v)]
    BY <1>3 DEF PutStep
  <2>2. Put(table[c], k, v) \in GoodTables
    BY <1>1, <1>2, PutFacts
  <2>3. QED
    BY <1>1, <2>1, <2>2
<1>4. CASE UnlinkStep
  <2>1. PICK c \in Containers \ frozen, k \in Keys :
          table' = [table EXCEPT ![c] = Unlink(table[c], k)]
    BY <1>4 DEF UnlinkStep
  <2>2. Unlink(table[c], k) \in GoodTables
    BY <1>1, <1>2, UnlinkFacts
  <2>3. QED
    BY <1>1, <2>1, <2>2
<1>5. CASE CopyStep
  <2>1. PICK c \in Containers, d \in Containers \ frozen :
          table' = [table EXCEPT ![d] = CopyOf(table[c])]
    BY <1>5 DEF CopyStep
  <2>2. CopyOf(table[c]) \in GoodTables
    BY <1>1, <1>2, CopyFacts
  <2>3. QED
    BY <1>1, <2>1, <2>2
<1>6. QED
  BY <1>1, <1>3, <1>4, <1>5 DEF TableStep

LEMMA NextGenKeeps ==
  ASSUME IInv, NEW c \in Dicts, NextGen(c), NEW h,
         table' = [table EXCEPT ![c] = h]
  PROVE  IterOk(iter', table') /\ PruneOk'
<1>1. iter' = StaleIterator(c) /\ prune' = IF prune.on = c THEN [on |-> c, fresh |-> FALSE]
                                                            ELSE prune
  BY DEF NextGen
<1>2. \A d \in Dicts \ {c} : table'[d] = table[d]
  BY DictsFacts DEF IInv
<1>3. IterOk(StaleIterator(c), table')
  BY <1>2, IterStale DEF IInv
<1>4. PruneOk'
  BY <1>1 DEF PruneOk, IInv
<1>5. QED
  BY <1>1, <1>3, <1>4

(* The table of an object, or one without an iterator, changes.              *)
LEMMA OthersKeep ==
  ASSUME IInv, NEW c \in Containers, iter.on # c \/ c \in Objects, NEW h,
         table' = [table EXCEPT ![c] = h], UNCHANGED <<iter, prune>>
  PROVE  IterOk(iter', table') /\ PruneOk'
<1>1. \A d \in Dicts : iter.on = d => table'[d] = table[d]
  BY ContainersAssumption, DictsFacts DEF IInv, Containers
<1>2. IterOk(iter, table')
  <2>1. IterOk(iter, table) /\ \A d \in Dicts : iter.on = d =>
          table'[d] = table[d] \/ SameKeys(table[d], table'[d])
    BY <1>1 DEF IInv
  <2>2. QED
    BY <2>1, IterKept
<1>3. QED
  BY <1>2 DEF PruneOk, IInv

(* A step that leaves the tables and the iterator as they are.               *)
LEMMA TablesKeep ==
  ASSUME IInv, UNCHANGED <<table, iter>>
  PROVE  IterOk(iter', table') /\ TableStep
<1>1. IterOk(iter, table)
  BY DEF IInv
<1>2. QED
  BY <1>1 DEF TableStep

LEMMA SetIndexSteps ==
  ASSUME IInv, Consistent, NEW c \in Containers, NEW k \in use.keys[c],
         NEW v \in use.values, SetIndex(c, k, v)
  PROVE  TableStep /\ IterOk(iter', table') /\ PruneOk'
<1> DEFINE h == Put(table[c], k, v)
<1>1. k \in Keys /\ v \in Values /\ c \in Dicts /\ c \in Containers \ frozen /\ Good(table[c])
  BY UsesFacts, DictsFacts DEF SetIndex
<1>2. table' = [table EXCEPT ![c] = h]
  BY DEF SetIndex, Changed
<1>3. TableStep
  BY <1>1, <1>2 DEF TableStep, PutStep
<1>4. CASE h.entries # table[c].entries
  <2>1. NextGen(c)
    BY <1>4 DEF SetIndex
  <2> HIDE DEF h
  <2>2. QED
    BY <1>1, <1>2, <1>3, <2>1, NextGenKeeps
<1>5. CASE h.entries = table[c].entries
  <2>1. UNCHANGED <<iter, prune>>
    BY <1>5 DEF SetIndex
  <2>2. SameKeys(table[c], h)
    BY <1>1, <1>5, PutFacts
  <2> HIDE DEF h
  <2>3. \A d \in Dicts : table'[d] = table[d] \/ SameKeys(table[d], table'[d])
    <3>1. table'[c] = h /\ \A d \in Dicts : d # c => table'[d] = table[d]
      BY <1>1, <1>2, DictsFacts DEF IInv
    <3>2. QED
      BY <2>2, <3>1
  <2>4. IterOk(iter, table')
    <3>1. IterOk(iter, table)
      BY DEF IInv
    <3>2. QED
      BY <2>3, <3>1, IterKept
  <2>5. PruneOk'
    BY <2>1 DEF IInv, PruneOk
  <2>6. QED
    BY <1>3, <2>1, <2>4, <2>5
<1>6. QED
  BY <1>4, <1>5

LEMMA DeleteIndexSteps ==
  ASSUME IInv, Consistent, NEW c \in Containers, NEW k \in use.keys[c], DeleteIndex(c, k)
  PROVE  TableStep /\ IterOk(iter', table') /\ PruneOk'
<1> DEFINE h == Unlink(table[c], k)
<1>1. k \in Keys /\ c \in Dicts /\ c \in Containers \ frozen
  BY UsesFacts, DictsFacts DEF DeleteIndex
<1>2. table' = [table EXCEPT ![c] = h] /\ NextGen(c)
  BY DEF DeleteIndex, Changed
<1>3. TableStep
  BY <1>1, <1>2 DEF TableStep, UnlinkStep
<1> HIDE DEF h
<1>4. QED
  BY <1>1, <1>2, <1>3, NextGenKeeps

LEMMA SetAttrSteps ==
  ASSUME IInv, NEW c \in Containers, NEW k \in use.keys[c],
         NEW v \in use.values, SetAttr(c, k, v)
  PROVE  TableStep /\ IterOk(iter', table') /\ PruneOk'
<1> DEFINE h == IF c \in frozen THEN table[c] ELSE Put(table[c], k, v)
<1>1. k \in Keys /\ v \in Values /\ c \in Objects
  BY UsesFacts DEF SetAttr
<1>2. table' = [table EXCEPT ![c] = h] /\ UNCHANGED <<iter, prune>>
  BY DEF SetAttr, Changed
<1>3. TableStep
  <2>1. CASE c \in frozen
    <3>1. table' = table
      BY <1>2, <2>1 DEF IInv
    <3>2. QED
      BY <3>1 DEF TableStep
  <2>2. CASE c \notin frozen
    BY <1>1, <1>2, <2>2 DEF TableStep, PutStep
  <2>3. QED
    BY <2>1, <2>2
<1> HIDE DEF h
<1>4. QED
  BY <1>1, <1>2, <1>3, OthersKeep

LEMMA DeleteAttrSteps ==
  ASSUME IInv, NEW c \in Containers, NEW k \in use.keys[c], DeleteAttr(c, k)
  PROVE  TableStep /\ IterOk(iter', table') /\ PruneOk'
<1> DEFINE h == IF c \in frozen THEN table[c] ELSE Unlink(table[c], k)
<1>1. k \in Keys /\ c \in Objects
  BY UsesFacts DEF DeleteAttr
<1>2. table' = [table EXCEPT ![c] = h] /\ UNCHANGED <<iter, prune>>
  BY DEF DeleteAttr, Changed
<1>3. TableStep
  <2>1. CASE c \in frozen
    <3>1. table' = table
      BY <1>2, <2>1 DEF IInv
    <3>2. QED
      BY <3>1 DEF TableStep
  <2>2. CASE c \notin frozen
    BY <1>1, <1>2, <2>2 DEF TableStep, UnlinkStep
  <2>3. QED
    BY <2>1, <2>2
<1> HIDE DEF h
<1>4. QED
  BY <1>1, <1>2, <1>3, OthersKeep

LEMMA CopyTableSteps ==
  ASSUME IInv, NEW c \in Containers, NEW d \in Containers, CopyTable(c, d)
  PROVE  TableStep /\ IterOk(iter', table') /\ PruneOk'
<1> DEFINE h == CopyOf(table[c])
<1>1. d \in Dicts /\ d \in Containers \ frozen /\ iter.on # d
  BY DictsFacts DEF CopyTable
<1>2. table' = [table EXCEPT ![d] = h] /\ UNCHANGED <<iter, prune>>
  BY DEF CopyTable, Changed
<1>3. TableStep
  BY <1>1, <1>2 DEF TableStep, CopyStep
<1> HIDE DEF h
<1>4. QED
  BY <1>1, <1>2, <1>3, OthersKeep

LEMMA NewIteratorSteps ==
  ASSUME IInv, NEW c \in Containers, NewIterator(c)
  PROVE  TableStep /\ IterOk(iter', table') /\ PruneOk'
<1>1. /\ c \in Dicts /\ table' = table /\ prune' = prune
      /\ iter' = [on |-> c, bucket |-> -1, next |-> 0, fresh |-> TRUE,
                  given |-> << >>, ended |-> FALSE]
  BY DEF NewIterator
<1>2. IterOk(iter', table)
  BY <1>1, DictsFacts, IterNew
<1>3. PruneOk'
  BY <1>1 DEF IInv, PruneOk
<1>4. QED
  BY <1>1, <1>2, <1>3 DEF TableStep

LEMMA IterateSteps ==
  ASSUME IInv, Iterate
  PROVE  TableStep /\ IterOk(iter', table') /\ PruneOk'
<1>1. table' = table /\ prune' = prune
  BY DEF Iterate
<1>2. IterOk(iter', table)
  <2>1. \A c \in Dicts : Formed(table[c])
    BY DictsFacts
  <2>2. IterOk(iter, table)
    BY DEF IInv
  <2>3. QED
    BY <2>1, <2>2, IterateKeeps
<1>3. PruneOk'
  BY <1>1 DEF IInv, PruneOk
<1>4. QED
  BY <1>1, <1>2, <1>3 DEF TableStep

LEMMA PruningOk ==
  ASSUME NEW c \in Dicts, prune' = None \/ \E at : prune' = Pruning(c, at, FALSE)
  PROVE  PruneOk'
<1>1. ASSUME NEW at, prune' = Pruning(c, at, FALSE)
      PROVE  PruneOk'
  <2>1. (prune').on = c /\ (prune').fresh = TRUE /\ (prune').pruned = FALSE
    BY <1>1 DEF Pruning
  <2>2. QED
    BY <2>1 DEF PruneOk
<1>2. CASE prune' = None
  BY <1>2 DEF PruneOk
<1>3. QED
  BY <1>1, <1>2

LEMMA PruneSteps ==
  ASSUME IInv, NEW c \in Containers, Prune(c)
  PROVE  TableStep /\ IterOk(iter', table') /\ PruneOk'
<1>1. UNCHANGED <<table, iter>> /\ c \in Dicts
  BY DEF Prune
<1>2. prune' = None \/ \E at : prune' = Pruning(c, at, FALSE)
  BY DEF Prune
<1>3. PruneOk'
  BY <1>1, <1>2, PruningOk
<1>4. QED
  BY <1>1, <1>3, TablesKeep

(* A function that says no.                                                  *)
LEMMA PruneAnswerSteps ==
  ASSUME IInv, "prune" \notin Features, NEW yes \in BOOLEAN, PruneAnswer(yes)
  PROVE  TableStep /\ IterOk(iter', table') /\ PruneOk'
<1>1. ~yes /\ prune # None
  BY DEF PruneAnswer
<1>2. CASE ~prune.fresh
  <2>1. prune' = None /\ UNCHANGED <<table, iter>>
    BY <1>2 DEF PruneAnswer
  <2>2. QED
    BY <2>1, TablesKeep DEF PruneOk
<1>3. CASE prune.fresh
  <2>1. prune.pruned = FALSE /\ prune.on \in Dicts /\ prune.on \in Containers
    BY <1>1, <1>3, DictsFacts DEF IInv, PruneOk
  <2>2. /\ Changed(prune.on, table[prune.on]) /\ iter' = iter
        /\ prune' = None \/ \E next : prune' = Pruning(prune.on, next, FALSE)
    BY <1>1, <1>3, <2>1 DEF PruneAnswer
  <2>3. table' = table
    BY <2>1, <2>2 DEF Changed, IInv
  <2>4. PruneOk'
    BY <2>1, <2>2, PruningOk
  <2>5. QED
    BY <2>2, <2>3, <2>4, TablesKeep
<1>4. QED
  BY <1>2, <1>3

LEMMA InitInv ==
  ASSUME Init
  PROVE  IInv
<1>1. table \in [Containers -> GoodTables]
  BY BlankGood DEF Init
<1>2. QED
  BY <1>1 DEF Init, IInv, IterOk, PruneOk

LEMMA StepFacts ==
  ASSUME IInv, Consistent, "prune" \notin Features, Next
  PROVE  TableStep /\ IterOk(iter', table') /\ PruneOk'
<1>1. ASSUME NEW c \in Containers, NEW k \in use.keys[c], NEW v \in use.values,
             SetIndex(c, k, v)
      PROVE  TableStep /\ IterOk(iter', table') /\ PruneOk'
  BY <1>1, SetIndexSteps
<1>2. ASSUME NEW c \in Containers, NEW k \in use.keys[c], NEW v \in use.values,
             SetAttr(c, k, v)
      PROVE  TableStep /\ IterOk(iter', table') /\ PruneOk'
  BY <1>2, SetAttrSteps
<1>3. ASSUME NEW c \in Containers, NEW k \in use.keys[c], DeleteIndex(c, k)
      PROVE  TableStep /\ IterOk(iter', table') /\ PruneOk'
  BY <1>3, DeleteIndexSteps
<1>4. ASSUME NEW c \in Containers, NEW k \in use.keys[c], DeleteAttr(c, k)
      PROVE  TableStep /\ IterOk(iter', table') /\ PruneOk'
  BY <1>4, DeleteAttrSteps
<1>5. ASSUME NEW c \in Containers, Freeze(c)
      PROVE  TableStep /\ IterOk(iter', table') /\ PruneOk'
  BY <1>5, TablesKeep DEF Freeze, PruneOk, IInv
<1>6. ASSUME NEW c \in Containers, NEW d \in Containers, CopyTable(c, d)
      PROVE  TableStep /\ IterOk(iter', table') /\ PruneOk'
  BY <1>6, CopyTableSteps
<1>7. ASSUME NEW c \in Containers, NewIterator(c)
      PROVE  TableStep /\ IterOk(iter', table') /\ PruneOk'
  BY <1>7, NewIteratorSteps
<1>8. ASSUME Iterate
      PROVE  TableStep /\ IterOk(iter', table') /\ PruneOk'
  BY <1>8, IterateSteps
<1>9. ASSUME NEW c \in Containers, Prune(c)
      PROVE  TableStep /\ IterOk(iter', table') /\ PruneOk'
  BY <1>9, PruneSteps
<1>10. ASSUME NEW yes \in BOOLEAN, PruneAnswer(yes)
       PROVE  TableStep /\ IterOk(iter', table') /\ PruneOk'
  BY <1>10, PruneAnswerSteps
<1>11. QED
  BY <1>1, <1>2, <1>3, <1>4, <1>5, <1>6, <1>7, <1>8, <1>9, <1>10 DEF Next

(* Objects are frozen while the tables stay as they are.                     *)
LEMMA FreezeSteps ==
  ASSUME Next
  PROVE  /\ use' = use
         /\ \/ frozen' = frozen
            \/ \E c \in Objects : frozen' = frozen \cup {c} /\ table' = table
<1>1. ASSUME NEW c \in Containers, NEW k \in use.keys[c], NEW v \in use.values,
             SetIndex(c, k, v) \/ SetAttr(c, k, v)
      PROVE  UNCHANGED <<frozen, use>>
  BY <1>1 DEF SetIndex, SetAttr
<1>2. ASSUME NEW c \in Containers, NEW k \in use.keys[c], DeleteIndex(c, k) \/ DeleteAttr(c, k)
      PROVE  UNCHANGED <<frozen, use>>
  BY <1>2 DEF DeleteIndex, DeleteAttr
<1>3. ASSUME NEW c \in Containers, Freeze(c)
      PROVE  use' = use /\ \E d \in Objects : frozen' = frozen \cup {d} /\ table' = table
  BY <1>3 DEF Freeze
<1>4. ASSUME NEW c \in Containers, NEW d \in Containers, CopyTable(c, d)
      PROVE  UNCHANGED <<frozen, use>>
  BY <1>4 DEF CopyTable
<1>5. ASSUME NEW c \in Containers, NewIterator(c) \/ Prune(c)
      PROVE  UNCHANGED <<frozen, use>>
  BY <1>5 DEF NewIterator, Prune
<1>6. ASSUME NEW yes \in BOOLEAN, Iterate \/ PruneAnswer(yes)
      PROVE  UNCHANGED <<frozen, use>>
  BY <1>6 DEF Iterate, PruneAnswer
<1>7. QED
  BY <1>1, <1>2, <1>3, <1>4, <1>5, <1>6 DEF Next

LEMMA StepInv ==
  ASSUME IInv, Consistent, "prune" \notin Features, [Next]_vars
  PROVE  IInv'
<1>1. CASE Next
  <2>1. TableStep /\ IterOk(iter', table') /\ PruneOk'
    BY <1>1, StepFacts
  <2>2. table' \in [Containers -> GoodTables]
    BY <2>1, TableStepGood
  <2>3. frozen' \subseteq Objects /\ use' \in Uses
    BY <1>1, FreezeSteps DEF IInv
  <2>4. QED
    BY <2>1, <2>2, <2>3 DEF IInv
<1>2. CASE UNCHANGED vars
  BY <1>2 DEF IInv, PruneOk, vars
<1>3. QED
  BY <1>1, <1>2

(* Tables are well-formed and count their keys, iterators have given what is *)
(* before them (set, delete, copy, freeze, iterate and prune of Tables).     *)
THEOREM TablesInvariant ==
  ASSUME Consistent, "prune" \notin Features
  PROVE  Spec => []IInv
<1>1. Init => IInv
  BY InitInv
<1>2. IInv /\ [Next]_vars => IInv'
  BY StepInv
<1>3. QED
  BY <1>1, <1>2, PTL DEF Spec

LEMMA PlacedFollows ==
  ASSUME IInv, Consistent
  PROVE  Placed
<1> SUFFICES ASSUME NEW c \in Containers
             PROVE  LET h == table[c]
                    IN /\ PowerOfTwo(h.capacity)
                       /\ DOMAIN h.buckets = 0..(h.capacity - 1)
                       /\ \A b \in DOMAIN h.buckets : \A i \in DOMAIN h.buckets[b] :
                            /\ HashOf[h.buckets[b][i].key] % h.capacity = b
                            /\ Lookup(h, h.buckets[b][i].key) = i
  BY DEF Placed
<1> DEFINE h == table[c]
<1>1. Formed(h)
  BY DictsFacts
<1> HIDE DEF h
<1>2. PowerOfTwo(h.capacity) /\ DOMAIN h.buckets = 0..(h.capacity - 1)
  BY <1>1 DEF Formed
<1>3. ASSUME NEW b \in 0..(h.capacity - 1), NEW i \in DOMAIN h.buckets[b]
      PROVE  /\ HashOf[h.buckets[b][i].key] % h.capacity = b
             /\ Lookup(h, h.buckets[b][i].key) = i
  <2> DEFINE s == h.buckets[b]
             k == h.buckets[b][i].key
  <2>1. s \in Chains /\ Distinct(s) /\ InPlace(s, b, h.capacity)
    BY <1>1 DEF Formed
  <2>2. DOMAIN s = 1..Len(s)
    BY <2>1, LenProperties DEF Chains
  <2>3. Among(s[i], s) /\ i \in 1..Len(s) /\ k \in Keys
    BY <2>1, <2>2, ChainFacts DEF Among
  <2>4. HashOf[k] % h.capacity = b
    BY <2>1, <2>3 DEF InPlace
  <2>5. In(s[i], h)
    BY <2>3 DEF In
  <2>6. Home(h, k) = b
    BY <2>4 DEF Home
  <2> HIDE DEF k
  <2>7. Lookup(h, k) \in 1..Len(s) /\ Equal(s[Lookup(h, k)].key, k)
    <3>1. s[i].key = k
      BY DEF k
    <3>2. Equal(s[i].key, k)
      BY <3>1 DEF Equal
    <3>3. QED
      BY <1>1, <2>3, <2>5, <2>6, <3>2, LookupFacts
  <2>8. Equal(s[Lookup(h, k)].key, s[i].key)
    BY <2>7 DEF k
  <2>9. Lookup(h, k) = i
    BY <2>1, <2>3, <2>7, <2>8 DEF Distinct
  <2>10. QED
    BY <2>4, <2>9 DEF k
<1>4. QED
  BY <1>2, <1>3 DEF h

(* Whatever has grown, shrunk, been copied and removed, every entry is where *)
(* a lookup of its key finds it (uhash.c).                                   *)
THEOREM PlacedHolds ==
  ASSUME Consistent, "prune" \notin Features
  PROVE  Spec => []Placed
<1>1. IInv => Placed
  BY PlacedFollows
<1>2. QED
  BY <1>1, TablesInvariant, PTL

LEMMA LengthFollows ==
  ASSUME IInv, Consistent
  PROVE  LengthCounts
BY DictsFacts, NodesCounted DEF LengthCounts

(* The length of a table is the number of nodes in its chains, however they  *)
(* have come and gone (uhash.c; docs/Table.md:15-18).                        *)
THEOREM LengthCountsHolds ==
  ASSUME Consistent, "prune" \notin Features
  PROVE  Spec => []LengthCounts
<1>1. IInv => LengthCounts
  BY LengthFollows
<1>2. QED
  BY <1>1, TablesInvariant, PTL

LEMMA CompleteFollows ==
  ASSUME IInv, Consistent
  PROVE  IterationComplete
<1> SUFFICES ASSUME iter # None, iter.ended, iter.fresh
             PROVE  /\ ToSet(iter.given) = {node.key : node \in ToSet(Nodes(table[iter.on]))}
                    /\ IsInjective(iter.given)
  BY DEF IterationComplete
<1> DEFINE h == table[iter.on]
<1>1. iter \in Iterators /\ Progress(iter, h)
  BY DEF IInv, IterOk
<1>2. Formed(h)
  BY <1>1, DictsFacts DEF Iterators
<1>3. DOMAIN iter.given = 1..Len(iter.given)
  BY <1>1, LenProperties DEF Iterators
<1> DEFINE s == Nodes(h)
<1>4. s \in Chains /\ \A n : Among(n, s) <=> In(n, h)
  BY <1>2, NodesFacts
<1>5. DOMAIN s = 1..Len(s)
  BY <1>4, LenProperties DEF Chains
<1> HIDE DEF s, h
<1>6. ToSet(s) = {n \in NodeSet : In(n, h)}
  <2>1. \A n : n \in ToSet(s) <=> Among(n, s)
    BY <1>5 DEF ToSet, Among
  <2>2. QED
    BY <1>4, <2>1, ChainFacts
<1>7. \A k : k \in ToSet(iter.given) <=> Given(iter, k)
  BY <1>3 DEF ToSet, Given
<1>8. \A k : Given(iter, k) <=> \E n : In(n, h) /\ n.key = k
  <2>1. \A k : Given(iter, k) <=> \E b \in 0..(h.capacity - 1) : \E i \in Places(h, b) :
                                    h.buckets[b][i].key = k
    BY <1>1 DEF Progress
  <2>2. \A n : In(n, h) <=> \E b \in 0..(h.capacity - 1) : \E i \in Places(h, b) :
                              h.buckets[b][i] = n
    BY DEF In, Among, Places
  <2>3. QED
    BY <2>1, <2>2
<1>9. ToSet(iter.given) = {n.key : n \in ToSet(s)}
  BY <1>2, <1>6, <1>7, <1>8, InFacts
<1>10. IsInjective(iter.given)
  BY <1>1, <1>3 DEF Progress, IsInjective
<1>11. QED
  BY <1>9, <1>10 DEF s, h

(* A loop that has come to its end in a table that has not changed since has *)
(* given every key once (ulib.c:2264, the pointers an iterator keeps).       *)
THEOREM IterationCompleteHolds ==
  ASSUME Consistent, "prune" \notin Features
  PROVE  Spec => []IterationComplete
<1>1. IInv => IterationComplete
  BY CompleteFollows
<1>2. QED
  BY <1>1, TablesInvariant, PTL

-----------------------------------------------------------------------------
(* Tables implement maps.                                                    *)

MapsOf(tables) == [c \in Containers |-> MapOf(tables[c])]

LEMMA MapsChange ==
  ASSUME table \in [Containers -> GoodTables], NEW c \in Containers, NEW h,
         table' = [table EXCEPT ![c] = h]
  PROVE  MapsOf(table') = [MapsOf(table) EXCEPT ![c] = MapOf(h)]
BY DEF MapsOf

LEMMA PutMaps ==
  ASSUME IInv, Consistent, PutStep
  PROVE  MapsOf(table') \in Dictionary!Changed(MapsOf(table))
<1>1. PICK c \in Containers \ frozen, k \in Keys, v \in Values :
        table' = [table EXCEPT ![c] = Put(table[c], k, v)]
  BY DEF PutStep
<1>2. Good(table[c])
  BY DictsFacts
<1> DEFINE m == MapsOf(table)
           q == EqualTo[k]
<1>3. MapsOf(table') = [m EXCEPT ![c] = MapOf(Put(table[c], k, v))]
  BY <1>1, MapsChange DEF IInv
<1>4. m[c] = MapOf(table[c])
  BY DEF MapsOf
<1>5. MapOf(Put(table[c], k, v)) =
        [j \in DOMAIN m[c] \cup {q} |-> IF j = q THEN v ELSE m[c][j]]
  BY <1>2, <1>4, MapPut
<1> HIDE DEF m
<1>6. MapsOf(table') = Dictionary!Set(m, c, q, v)
  BY <1>3, <1>5 DEF Dictionary!Set
<1>7. q \in {EqualTo[j] : j \in Keys}
  OBVIOUS
<1> HIDE DEF q
<1>8. MapsOf(table') \in Dictionary!Changed(m)
  BY <1>6, <1>7 DEF Dictionary!Changed
<1>9. QED
  BY <1>8 DEF m

LEMMA UnlinkMaps ==
  ASSUME IInv, Consistent, UnlinkStep
  PROVE  MapsOf(table') \in Dictionary!Changed(MapsOf(table))
<1>1. PICK c \in Containers \ frozen, k \in Keys :
        table' = [table EXCEPT ![c] = Unlink(table[c], k)]
  BY DEF UnlinkStep
<1>2. Good(table[c])
  BY DictsFacts
<1> DEFINE m == MapsOf(table)
           q == EqualTo[k]
<1>3. MapsOf(table') = [m EXCEPT ![c] = MapOf(Unlink(table[c], k))]
  BY <1>1, MapsChange DEF IInv
<1>4. m[c] = MapOf(table[c])
  BY DEF MapsOf
<1> HIDE DEF m
<1>5. MapOf(Unlink(table[c], k)) = [j \in DOMAIN m[c] \ {q} |-> m[c][j]]
  <2>1. MapOf(Unlink(table[c], k)) =
          [j \in DOMAIN MapOf(table[c]) \ {q} |-> MapOf(table[c])[j]]
    BY <1>2, MapUnlink
  <2>2. QED
    BY <1>4, <2>1
<1>6. MapsOf(table') = Dictionary!Delete(m, c, q)
  BY <1>3, <1>5 DEF Dictionary!Delete, Dictionary!Restrict
<1>7. q \in {EqualTo[j] : j \in Keys}
  OBVIOUS
<1> HIDE DEF q
<1>8. MapsOf(table') \in Dictionary!Changed(m)
  BY <1>6, <1>7 DEF Dictionary!Changed
<1>9. QED
  BY <1>8 DEF m

LEMMA CopyMaps ==
  ASSUME IInv, Consistent, CopyStep
  PROVE  MapsOf(table') \in Dictionary!Changed(MapsOf(table))
<1>1. PICK c \in Containers, d \in Containers \ frozen :
        table' = [table EXCEPT ![d] = CopyOf(table[c])]
  BY DEF CopyStep
<1>2. Good(table[c])
  BY DictsFacts
<1>3. MapsOf(table') = [MapsOf(table) EXCEPT ![d] = MapOf(CopyOf(table[c]))]
  BY <1>1, MapsChange DEF IInv
<1>4. MapOf(CopyOf(table[c])) = MapsOf(table)[c]
  BY <1>2, MapCopy DEF MapsOf
<1>5. MapsOf(table') = Dictionary!Copy(MapsOf(table), c, d)
  BY <1>3, <1>4 DEF Dictionary!Copy
<1>6. QED
  BY <1>5 DEF Dictionary!Changed

(* Tables and objects are maps: a set or delete changes the key it names and *)
(* no other, an object that is frozen keeps what it has, a copy has what the *)
(* original has (uobj.c, uhash.c, ulib.c:2090-2130).                         *)
THEOREM DictionariesImplemented ==
  ASSUME Consistent, "prune" \notin Features
  PROVE  Spec => ImplementsDictionaries
<1>1. Init => Dictionary!Init
  <2>1. ASSUME Init
        PROVE  Dictionary!Init
    <3>1. \A c \in Containers : MapOf(table[c]) = << >>
      BY <2>1, MapBlank DEF Init
    <3>2. QED
      BY <2>1, <3>1 DEF Init, Dictionary!Init
  <2>2. QED
    BY <2>1
<1>2. ASSUME IInv, [Next]_vars
      PROVE  [Dictionary!Next]_(Dictionary!mapVars)
  <2> DEFINE m == MapsOf(table)
             n == MapsOf(table')
  <2>1. CASE UNCHANGED vars
    BY <2>1 DEF vars, Dictionary!mapVars
  <2>2. ASSUME table' = table, frozen' = frozen
        PROVE  UNCHANGED Dictionary!mapVars
    BY <2>2 DEF Dictionary!mapVars
  <2>3. ASSUME table' = table, NEW c \in Objects, frozen' = frozen \cup {c}
        PROVE  Dictionary!Next
    <3>1. c \in Containers
      BY DEF Containers
    <3>2. QED
      BY <2>3, <3>1 DEF Dictionary!Next
  <2>4. ASSUME n \in Dictionary!Changed(m), frozen' = frozen
        PROVE  Dictionary!Next
    BY <2>4 DEF Dictionary!Next, MapsOf
  <2>5. ASSUME TableStep, table' # table
        PROVE  n \in Dictionary!Changed(m)
    <3>1. CASE PutStep
      BY <1>2, <3>1, PutMaps
    <3>2. CASE UnlinkStep
      BY <1>2, <3>2, UnlinkMaps
    <3>3. CASE CopyStep
      BY <1>2, <3>3, CopyMaps
    <3>4. QED
      BY <2>5, <3>1, <3>2, <3>3 DEF TableStep
  <2>6. CASE Next
    <3>1. TableStep
      BY <1>2, <2>6, StepFacts
    <3>2. \/ frozen' = frozen
          \/ \E c \in Objects : frozen' = frozen \cup {c} /\ table' = table
      BY <2>6, FreezeSteps
    <3> HIDE DEF m, n
    <3>3. QED
      BY <2>2, <2>3, <2>4, <2>5, <3>1, <3>2
  <2>7. QED
    BY <1>2, <2>1, <2>6
<1>3. QED
  BY <1>1, <1>2, TablesInvariant, PTL DEF Spec, ImplementsDictionaries, Dictionary!Spec

=============================================================================
