------------------------------ MODULE VMProofs ------------------------------
(***************************************************************************)
(* Proofs about VM, for every program in which each instruction finds on   *)
(* the stacks what it takes (Fits), whatever it calls, for any recursion   *)
(* limit and any number of values.                                         *)
(***************************************************************************)
EXTENDS VM, FiniteSetTheorems, SequenceTheorems, TLAPS

(* The programs, and what is known not to work switched off.                 *)
Verified == \A p \in Programs : Fits(p)
Plain == Features \subseteq {"tailnext", "quiet"}

Frames ==
  [type : Uncil \cup {"Try", "CallC", "CallCSpew"}, pc : Nat, pc2 : Nat,
   sval : Nat, region : Nat, swith : Nat, rwith : Nat, to : Nat, try : Nat,
   args : Nat, cont : {"", "call", "inext", "inexts", "tail"}, out : Nat,
   tail : Uncil \cup {""}, from : Nat]
Requests == [kind : Uncil, base : Nat, pc : Nat, out : Nat, owed : {<<>>}]

Typed ==
  /\ prog \in Programs /\ pc \in Nat /\ blame \in Nat
  /\ frames \in Seq(Frames) /\ calls \in Seq(Requests) /\ e \in Seq(BOOLEAN)
  /\ sval \in Seq(Nat) /\ region \in Seq(Nat) /\ rwith \in Seq(Nat)
  /\ swith \in Nat /\ recurse \in 0..Limit
  /\ mode \in {"native", "results", "run", "error", "maintail"}

-----------------------------------------------------------------------------
(* The inductive invariant.  It is stated about sequences fr of frames, r of *)
(* regions and w of with blocks, and the extent x of all stacks: what it     *)
(* says of a function depends on no more of them than was there when the     *)
(* function last called.                                                     *)

Extent == [region : Nat, sval : Nat, rwith : Nat, swith : Nat]
Now == [region |-> Len(region), sval |-> Len(sval), rwith |-> Len(rwith),
        swith |-> swith]
To(f) == [region |-> f.region, sval |-> Depth(f), rwith |-> f.rwith,
          swith |-> f.swith]

(* The values of function b are in levels s: level k goes from From to Upto. *)
From(r, b, k) == IF k = 1 THEN b.sval ELSE r[b.region + k - 1]
Upto(r, b, s, x, k) == IF k = Len(s) THEN x.sval ELSE r[b.region + k]
Leveled(r, b, s, x) ==
  /\ x.region = b.region + Len(s) - 1
  /\ \A k \in 1..Len(s) :
       /\ From(r, b, k) >= b.sval
       /\ IF s[k].is = "atleast" THEN Upto(r, b, s, x, k) - From(r, b, k) >= s[k].n
          ELSE Upto(r, b, s, x, k) - From(r, b, k) = s[k].n

(* Its with blocks have ws values.                                           *)
Opened(w, b, ws, x, k) == IF k > Len(ws) THEN x.swith ELSE w[b.rwith + k]
Closable(w, b, ws, x) ==
  /\ x.rwith = b.rwith + Len(ws)
  /\ Opened(w, b, ws, x, 1) = b.swith
  /\ \A k \in 1..Len(ws) :
       Opened(w, b, ws, x, k + 1) - Opened(w, b, ws, x, k) = ws[k]

(* Frame o is a function's, and those up to n are its tries.                 *)
Tries(fr, o, n, tries) ==
  /\ o \in 1..n /\ fr[o].type \in Uncil /\ n - o = Len(tries)
  /\ \A i \in 1..Len(tries) : fr[o + i].type = "Try" /\ fr[o + i].try = tries[i]

(* The function is at instruction i.                                         *)
Stands(p, fr, r, w, o, n, i, s, x) ==
  /\ i \in 1..Len(p)
  /\ Tries(fr, o, n, p[i].at.tries)
  /\ Leveled(r, fr[o], s, x) /\ Closable(w, fr[o], p[i].at.withs, x)

IsC(f) == f.type \in {"CallC", "CallCSpew"}
Counted(f) == f.type \in Uncil \/ f.cont = "tail"
Kind(f) == IF f.type \in Uncil THEN f.type
           ELSE IF f.cont = "tail" THEN f.tail ELSE "C"

(* Frame n is a try, which leads to what was so when it was pushed.          *)
TryFits(p, fr, r, w, n) ==
  LET f == fr[n]
      i == f.pc
  IN  /\ \E o \in 1..(n - 1) : Stands(p, fr, r, w, o, n - 1, i, Clear, To(f))
      /\ p[i].op = "expush" /\ f.to = p[i].to /\ f.try = p[i].arg
      /\ f.cont = ""

(* It is that of a call: of instruction i, to which it returns.              *)
CalledBy(f, q) ==
  IF Counted(f)
  THEN /\ Kind(f) \in {"Call", "CallSpew"} => q.op \in {"dcall", "fcall"}
       /\ Kind(f) = "Call" => q.dst # "stack"
       /\ Kind(f) = "CallSpew" => q.dst = "stack"
       /\ Kind(f) = "Next" => q.op = "inext" /\ f.pc2 = q.to
       /\ Kind(f) = "NextSpew" => q.op = "inexts" /\ f.pc2 = q.to
  ELSE /\ f.cont = "call" => q.op \in {"dcall", "fcall"}
       /\ f.cont = "call" => (f.type = "CallCSpew" <=> q.dst = "stack")
       /\ f.cont \in {"inext", "inexts"} =>
            f.cont = q.op /\ f.type = "CallCSpew" /\ f.out = q.to
CallFits(p, fr, r, w, n) ==
  LET f == fr[n]
      i == f.pc - 1
  IN  /\ \E o \in 1..(n - 1) :
           Stands(p, fr, r, w, o, n - 1, i, Taken(Found(p)[i], p[i]), To(f))
      /\ CalledBy(f, p[i])
      /\ ~ Counted(f) => f.from = i

(* It is that of the program, or of a function called from C: a region for   *)
(* the results is below.                                                     *)
MainFits(fr, r, n) ==
  LET f == fr[n]
  IN  /\ f.pc = 0 /\ f.pc2 = 0 /\ r[f.region] = Depth(f)
      /\ n = 1 => f.region = 1 /\ Depth(f) = 0 /\ f.rwith = 0 /\ f.swith = 0
      /\ n > 1 => /\ IsC(fr[n - 1]) /\ f.region = fr[n - 1].region + 1
                  /\ Depth(f) = fr[n - 1].sval /\ f.rwith = fr[n - 1].rwith
                  /\ f.swith = fr[n - 1].swith

(* A C function has its arguments on the stack, and returns all its values   *)
(* if those are wanted whose place it has taken.                             *)
CFits(f) ==
  IsC(f) => /\ f.cont # "" /\ f.args <= f.sval
            /\ f.cont = "tail" => /\ f.tail \in Uncil
                                  /\ f.type = "CallCSpew" <=> f.tail \in Spews

FrameFits(p, fr, r, w, n) ==
  /\ fr[n].type = "Try" => TryFits(p, fr, r, w, n)
  /\ Kind(fr[n]) = "Main" => MainFits(fr, r, n)
  /\ fr[n].type # "Try" /\ Kind(fr[n]) # "Main" => CallFits(p, fr, r, w, n)
  /\ CFits(fr[n])

(* The frames are those of calls within calls, each above what is below.     *)
Above(x, f) == Depth(f) <= x.sval /\ f.region <= x.region /\ f.rwith <= x.rwith
Nested(p, fr, r, w) ==
  /\ \A n \in 1..Len(fr) : FrameFits(p, fr, r, w, n)
  /\ \A m, n \in 1..Len(fr) : m <= n => Above(To(fr[n]), fr[m])
Stacked ==
  /\ Nested(prog, frames, region, rwith)
  /\ frames # <<>> => Above(Now, frames[Len(frames)])

(* What executes is where it should be.                                      *)
Executes ==
  \E o \in 1..Len(frames) :
    Stands(prog, frames, region, rwith, o, Len(frames), pc, Found(prog)[pc], Now)
Raises ==
  /\ blame \in 1..Len(prog)
  /\ \E o \in 1..Len(frames) :
       Tries(frames, o, Len(frames), prog[blame].at.tries)
Bottom(fr) ==
  IF fr = <<>> THEN [region |-> 0, sval |-> 0, rwith |-> 0, swith |-> 0]
  ELSE [To(fr[Len(fr)]) EXCEPT !.sval = fr[Len(fr)].sval]
InsideC == frames # <<>> => IsC(frames[Len(frames)])
Reads ==
  LET x == Bottom(frames)
  IN  /\ Len(region) = x.region + 1 /\ region[Len(region)] = x.sval
      /\ Len(sval) >= x.sval
      /\ Len(rwith) = x.rwith /\ swith = x.swith
Modes ==
  /\ mode = "run" => Executes
  /\ mode = "error" => Raises
  /\ mode = "native" => InsideC /\ Now = Bottom(frames)
  /\ mode = "results" => InsideC /\ Reads
  /\ mode = "maintail" => Len(frames) = 1 /\ frames[1].type = "Main"

(* The counts are those of the first n frames.                               *)
Uncils(fr, n) == {i \in 1..n : fr[i].type \in Uncil}
Countings(fr, n) == {i \in 1..n : Counted(fr[i])}
Mains(fr, n) == {i \in 1..n : Kind(fr[i]) = "Main"}
Answers(c, f) ==
  /\ c.kind = Kind(f) /\ c.base = Depth(f) /\ c.out = f.pc2
  /\ Kind(f) # "Main" => c.pc = f.pc - 1
Tallied(fr, n, rec, cs, runs) ==
  /\ rec = Cardinality(Uncils(fr, n))
  /\ Len(cs) = Cardinality(Countings(fr, n))
  /\ runs = Cardinality(Mains(fr, n))
  /\ \A i \in Countings(fr, n) : Answers(cs[Cardinality(Countings(fr, i))], fr[i])
Counts == Tallied(frames, Len(frames), recurse, calls, Len(e))

Quiet == "quiet" \notin Features => \A i \in 1..Len(e) : e[i] = FALSE

IInv == Typed /\ Stacked /\ Modes /\ Counts /\ Quiet

-----------------------------------------------------------------------------
(* Parts of sequences.                                                       *)

(* unc0_stackcut keeps the first n values.                                   *)
LEMMA CutIs ==
  ASSUME NEW S, NEW s \in Seq(S), NEW n \in Nat, n <= Len(s)
  PROVE  /\ Cut(s, n) \in Seq(S) /\ Len(Cut(s, n)) = n
         /\ \A k \in 1..n : Cut(s, n)[k] = s[k]
<1>1. Cut(s, n) = SubSeq(s, 1, n)
  BY DEF Cut
<1>2. \A k \in 1..n : s[k] \in S
  OBVIOUS
<1>3. QED
  BY <1>1, <1>2

(* More values than there are are all there are.                             *)
LEMMA CutWhole ==
  ASSUME NEW S, NEW s \in Seq(S)
  PROVE  Cut(s, Len(s)) = s
<1>1. Cut(s, Len(s)) = SubSeq(s, 1, Len(s))
  BY DEF Cut
<1>2. QED
  BY <1>1

LEMMA FrontIs ==
  ASSUME NEW S, NEW s \in Seq(S), Len(s) > 0
  PROVE  /\ Front(s) \in Seq(S) /\ Len(Front(s)) = Len(s) - 1
         /\ \A k \in 1..(Len(s) - 1) : Front(s)[k] = s[k]
         /\ Last(s) = s[Len(s)] /\ Last(s) \in S
<1>1. Len(s) - 1 \in Nat /\ Len(s) - 1 <= Len(s)
  OBVIOUS
<1>2. Front(s) = Cut(s, Len(s) - 1)
  BY <1>1 DEF Front, Cut
<1>3. s[Len(s)] \in S
  OBVIOUS
<1>4. QED
  BY <1>1, <1>2, <1>3, CutIs DEF Last

LEMMA AppendIs ==
  ASSUME NEW S, NEW s \in Seq(S), NEW v \in S
  PROVE  /\ Append(s, v) \in Seq(S) /\ Len(Append(s, v)) = Len(s) + 1
         /\ \A k \in 1..Len(s) : Append(s, v)[k] = s[k]
         /\ Append(s, v)[Len(s) + 1] = v
OBVIOUS

LEMMA JoinIs ==
  ASSUME NEW S, NEW s \in Seq(S), NEW t \in Seq(S)
  PROVE  /\ s \o t \in Seq(S) /\ Len(s \o t) = Len(s) + Len(t)
         /\ \A k \in 1..Len(s) : (s \o t)[k] = s[k]
OBVIOUS

LEMMA EmptyIs ==
  ASSUME NEW S
  PROVE  <<>> \in Seq(S) /\ Len(<<>>) = 0 /\ \A s \in Seq(S) : s \o <<>> = s
OBVIOUS

LEMMA PartIs ==
  ASSUME NEW S, NEW s \in Seq(S), NEW m \in Nat, NEW n \in Nat, n <= Len(s)
  PROVE  /\ SubSeq(s, m + 1, n) \in Seq(S)
         /\ Len(SubSeq(s, m + 1, n)) = IF m <= n THEN n - m ELSE 0
         /\ m >= n => SubSeq(s, m + 1, n) = <<>>
<1>1. \A k \in (m + 1)..n : s[k] \in S
  OBVIOUS
<1>2. QED
  BY <1>1

(* unc0_stackpullrug of values that were pushed above the stack.             *)
LEMMA PullRugIs ==
  ASSUME NEW S, NEW s \in Seq(S), NEW t \in Seq(S), NEW n \in Nat, n <= Len(s)
  PROVE  /\ PullRug(s \o t, n, Len(s)) \in Seq(S)
         /\ Len(PullRug(s \o t, n, Len(s))) = n + Len(t)
<1> DEFINE a == s \o t
<1>1. a \in Seq(S) /\ Len(a) = Len(s) + Len(t)
  BY JoinIs
<1>2. Cut(a, n) \in Seq(S) /\ Len(Cut(a, n)) = n
  <2>1. n <= Len(a)
    BY <1>1
  <2>2. QED
    BY <1>1, <2>1, CutIs, Zenon
<1>3. SubSeq(a, Len(s) + 1, Len(a)) \in Seq(S)
      /\ Len(SubSeq(a, Len(s) + 1, Len(a))) = Len(t)
  BY <1>1, PartIs
<1>4. QED
  BY <1>2, <1>3, JoinIs, SMTT(60) DEF PullRug

(* A change of the last value.                                               *)
LEMMA LastIs ==
  ASSUME NEW S, NEW s \in Seq(S), NEW v \in S
  PROVE  /\ [s EXCEPT ![Len(s)] = v] \in Seq(S)
         /\ Len([s EXCEPT ![Len(s)] = v]) = Len(s)
         /\ \A i \in 1..Len(s) :
              [s EXCEPT ![Len(s)] = v][i] = IF i = Len(s) THEN v ELSE s[i]
<1>1. CASE Len(s) > 0
  BY <1>1, ExceptSeq
<1>2. CASE Len(s) = 0
  <2> DEFINE t == [s EXCEPT ![Len(s)] = v]
  <2>1. s \in [1..0 -> S]
    BY <1>2
  <2>2. t \in [1..0 -> S]
    BY <2>1
  <2>3. t \in Seq(S) /\ Len(t) = 0
    BY <2>2
  <2>4. QED
    BY <1>2, <2>3
<1>3. QED
  BY <1>1, <1>2

-----------------------------------------------------------------------------
(* The levels of a function's values.                                        *)

LEMMA LevelsTyped ==
  ASSUME NEW s \in Seq(Levels), NEW k \in 1..Len(s)
  PROVE  s[k].n \in Nat /\ s[k].is \in {"exactly", "atleast"}
<1>1. s[k] \in Levels
  BY ElementOfSeq
<1>2. QED
  BY <1>1 DEF Levels

LEMMA FrameTyped ==
  ASSUME NEW f \in Frames
  PROVE  /\ f.pc \in Nat /\ f.pc2 \in Nat /\ f.sval \in Nat /\ f.region \in Nat
         /\ f.swith \in Nat /\ f.rwith \in Nat /\ f.args \in Nat /\ Depth(f) \in Nat
BY DEF Frames, Depth

LEMMA ExtentTyped ==
  ASSUME NEW x \in Extent
  PROVE  /\ x.region \in Nat /\ x.sval \in Nat /\ x.rwith \in Nat /\ x.swith \in Nat
BY DEF Extent

(* What the levels say does not depend on other regions.                     *)
LEMMA LeveledSame ==
  ASSUME NEW r \in Seq(Nat), NEW r2 \in Seq(Nat), NEW b \in Frames, NEW b2 \in Frames,
         NEW s \in Seq(Levels), NEW x \in Extent, NEW x2 \in Extent,
         Len(s) > 0, Leveled(r, b, s, x),
         b2.region = b.region, b2.sval = b.sval,
         x2.region = x.region, x2.sval = x.sval,
         \A k \in 1..x.region : r2[k] = r[k]
  PROVE  Leveled(r2, b2, s, x2)
<1>1. /\ b.region \in Nat /\ x.region = b.region + Len(s) - 1
      /\ Len(s) \in Nat
  BY FrameTyped DEF Leveled
<1>2. ASSUME NEW k \in 1..Len(s)
      PROVE  /\ From(r2, b2, k) = From(r, b, k)
             /\ Upto(r2, b2, s, x2, k) = Upto(r, b, s, x, k)
  <2>1. k # 1 => b.region + k - 1 \in 1..x.region
    BY <1>1
  <2>2. k # Len(s) => b.region + k \in 1..x.region
    BY <1>1
  <2>3. QED
    BY <2>1, <2>2 DEF From, Upto
<1>3. QED
  BY <1>1, <1>2 DEF Leveled

(* Values are pushed on, or taken from, the last level.                      *)
LEMMA LevelIs ==
  ASSUME NEW l \in Levels, NEW m
  PROVE  /\ [l EXCEPT !.n = m] = [n |-> m, is |-> l.is]
         /\ [l EXCEPT !.is = m] = [n |-> l.n, is |-> m]
BY DEF Levels

LEMMA FewerIs ==
  ASSUME NEW s \in Seq(Levels), NEW d \in Int, Len(s) > 0, d <= s[Len(s)].n
  PROVE  /\ Fewer(s, d) \in Seq(Levels) /\ Len(Fewer(s, d)) = Len(s)
         /\ \A k \in 1..Len(s) : Fewer(s, d)[k].is = s[k].is
         /\ \A k \in 1..(Len(s) - 1) : Fewer(s, d)[k].n = s[k].n
         /\ Fewer(s, d)[Len(s)].n = s[Len(s)].n - d
<1> DEFINE v == [n |-> s[Len(s)].n - d, is |-> s[Len(s)].is]
<1>1. s[Len(s)] \in Levels /\ Len(s) \in 1..Len(s) /\ Len(s) \in Nat
  OBVIOUS
<1>2. Fewer(s, d) = [s EXCEPT ![Len(s)] = v]
  BY <1>1, LevelIs, Zenon DEF Fewer
<1> v \in Levels
  BY <1>1, LevelsTyped DEF Levels
<1> HIDE DEF v
<1>3. /\ Fewer(s, d) \in Seq(Levels) /\ Len(Fewer(s, d)) = Len(s)
      /\ \A k \in 1..Len(s) : Fewer(s, d)[k] = IF k = Len(s) THEN v ELSE s[k]
  BY <1>1, <1>2, ExceptSeq
<1>4. v.n = s[Len(s)].n - d /\ v.is = s[Len(s)].is
  BY DEF v
<1>5. Fewer(s, d)[Len(s)] = v
  BY <1>1, <1>3
<1>6. \A k \in 1..Len(s) : k # Len(s) => Fewer(s, d)[k] = s[k]
  BY <1>3
<1>7. \A k \in 1..(Len(s) - 1) : k \in 1..Len(s) /\ k # Len(s)
  BY <1>1
<1>8. QED
  BY <1>3, <1>4, <1>5, <1>6, <1>7, Zenon

LEMMA SpreadIs ==
  ASSUME NEW s \in Seq(Levels), Len(s) > 0
  PROVE  /\ Spread(s) \in Seq(Levels) /\ Len(Spread(s)) = Len(s)
         /\ \A k \in 1..Len(s) : Spread(s)[k].n = s[k].n
         /\ \A k \in 1..(Len(s) - 1) : Spread(s)[k].is = s[k].is
         /\ Spread(s)[Len(s)].is = "atleast"
<1> DEFINE v == [n |-> s[Len(s)].n, is |-> "atleast"]
<1>1. s[Len(s)] \in Levels /\ Len(s) \in 1..Len(s) /\ Len(s) \in Nat
  OBVIOUS
<1>2. Spread(s) = [s EXCEPT ![Len(s)] = v]
  BY <1>1, LevelIs, Zenon DEF Spread
<1> v \in Levels
  BY <1>1, LevelsTyped DEF Levels
<1> HIDE DEF v
<1>3. /\ Spread(s) \in Seq(Levels) /\ Len(Spread(s)) = Len(s)
      /\ \A k \in 1..Len(s) : Spread(s)[k] = IF k = Len(s) THEN v ELSE s[k]
  BY <1>1, <1>2, ExceptSeq
<1>4. v.n = s[Len(s)].n /\ v.is = "atleast"
  BY DEF v
<1>5. Spread(s)[Len(s)] = v
  BY <1>1, <1>3
<1>6. \A k \in 1..Len(s) : k # Len(s) => Spread(s)[k] = s[k]
  BY <1>3
<1>7. \A k \in 1..(Len(s) - 1) : k \in 1..Len(s) /\ k # Len(s)
  BY <1>1
<1>8. QED
  BY <1>3, <1>4, <1>5, <1>6, <1>7, Zenon

(* The bounds of the levels are numbers, and a level is at least so long.    *)
LEMMA BoundsTyped ==
  ASSUME NEW r \in Seq(Nat), NEW b \in Frames, NEW s \in Seq(Levels),
         NEW x \in Extent, Len(s) > 0, Leveled(r, b, s, x), x.region <= Len(r),
         NEW k \in 1..Len(s)
  PROVE  /\ x.region = b.region + Len(s) - 1
         /\ From(r, b, k) \in Nat /\ Upto(r, b, s, x, k) \in Nat
         /\ b.sval <= From(r, b, k) /\ From(r, b, k) + s[k].n <= Upto(r, b, s, x, k)
<1>1. /\ b.region \in Nat /\ b.sval \in Nat /\ x.sval \in Nat /\ x.region \in Nat
      /\ Len(s) \in Nat /\ Len(r) \in Nat /\ s[k].n \in Nat
  BY FrameTyped, ExtentTyped, LevelsTyped
<1>2. x.region = b.region + Len(s) - 1
  BY DEF Leveled
<1>3. k # 1 => b.region + k - 1 \in 1..Len(r)
  BY <1>1, <1>2, SMTT(60)
<1>4. k # Len(s) => b.region + k \in 1..Len(r)
  BY <1>1, <1>2, SMTT(60)
<1>5. From(r, b, k) \in Nat /\ Upto(r, b, s, x, k) \in Nat
  BY <1>1, <1>3, <1>4, ElementOfSeq DEF From, Upto
<1>6. /\ From(r, b, k) >= b.sval
      /\ IF s[k].is = "atleast" THEN Upto(r, b, s, x, k) - From(r, b, k) >= s[k].n
         ELSE Upto(r, b, s, x, k) - From(r, b, k) = s[k].n
  BY DEF Leveled
<1>7. QED
  BY <1>1, <1>2, <1>5, <1>6

(* Levels with the same bounds but the last one's upper.                     *)
LEMMA LeveledMore ==
  ASSUME NEW r \in Seq(Nat), NEW b \in Frames, NEW s \in Seq(Levels),
         NEW t \in Seq(Levels), NEW x \in Extent, NEW x2 \in Extent,
         Len(s) > 0, Leveled(r, b, s, x), x.region <= Len(r),
         x2.region = x.region, Len(t) = Len(s),
         \A k \in 1..(Len(s) - 1) : t[k].is = s[k].is /\ t[k].n = s[k].n,
         x2.sval - t[Len(s)].n >= x.sval - s[Len(s)].n,
         \/ t[Len(s)].is = "atleast"
         \/ t[Len(s)].is = s[Len(s)].is /\ x2.sval - t[Len(s)].n = x.sval - s[Len(s)].n
  PROVE  Leveled(r, b, t, x2)
<1>1. Len(s) \in Nat /\ x.sval \in Nat /\ x2.sval \in Nat
  BY ExtentTyped
<1>2. ASSUME NEW k \in 1..Len(s)
      PROVE  /\ From(r, b, k) >= b.sval
             /\ IF t[k].is = "atleast" THEN Upto(r, b, t, x2, k) - From(r, b, k) >= t[k].n
                ELSE Upto(r, b, t, x2, k) - From(r, b, k) = t[k].n
  <2>1. /\ From(r, b, k) >= b.sval
        /\ IF s[k].is = "atleast" THEN Upto(r, b, s, x, k) - From(r, b, k) >= s[k].n
           ELSE Upto(r, b, s, x, k) - From(r, b, k) = s[k].n
    BY DEF Leveled
  <2>2. From(r, b, k) \in Nat /\ Upto(r, b, s, x, k) \in Nat
    BY BoundsTyped
  <2>3. s[k].n \in Nat /\ t[k].n \in Nat
    BY LevelsTyped
  <2>4. CASE k = Len(s)
    <3>1. Upto(r, b, t, x2, k) = x2.sval /\ Upto(r, b, s, x, k) = x.sval
      BY <2>4 DEF Upto
    <3>2. /\ x2.sval - t[k].n >= x.sval - s[k].n
          /\ \/ t[k].is = "atleast"
             \/ t[k].is = s[k].is /\ x2.sval - t[k].n = x.sval - s[k].n
      BY <2>4
    <3>3. x.sval - From(r, b, k) >= s[k].n
      BY <1>1, <2>1, <2>2, <2>3, <3>1
    <3>4. s[k].is # "atleast" => x.sval - From(r, b, k) = s[k].n
      BY <2>1, <3>1
    <3>5. x2.sval - From(r, b, k) >= t[k].n
      <4>1. x2.sval - t[k].n >= x.sval - s[k].n
        BY <3>2
      <4>2. QED
        BY ONLY <1>1, <2>2, <2>3, <3>3, <4>1, SMTT(60)
    <3>6. t[k].is # "atleast" => x2.sval - From(r, b, k) = t[k].n
      BY <1>1, <2>2, <2>3, <3>2, <3>4, SMTT(60)
    <3>7. QED
      BY <2>1, <3>1, <3>5, <3>6
  <2>5. CASE k # Len(s)
    <3>1. Upto(r, b, t, x2, k) = Upto(r, b, s, x, k)
      BY <2>5 DEF Upto
    <3>2. t[k].is = s[k].is /\ t[k].n = s[k].n
      BY <1>1, <2>5
    <3>3. QED
      BY <2>1, <3>1, <3>2
  <2>6. QED
    BY <2>4, <2>5
<1>3. x2.region = b.region + Len(t) - 1
  BY DEF Leveled
<1>4. QED
  BY <1>2, <1>3 DEF Leveled

LEMMA LeveledFewer ==
  ASSUME NEW r \in Seq(Nat), NEW b \in Frames, NEW s \in Seq(Levels),
         NEW x \in Extent, NEW x2 \in Extent, NEW d \in Int,
         Len(s) > 0, Leveled(r, b, s, x), d <= s[Len(s)].n,
         x2.region = x.region, x2.sval = x.sval - d, x.region <= Len(r)
  PROVE  Leveled(r, b, Fewer(s, d), x2)
<1>1. s[Len(s)].n \in Nat /\ x.sval \in Nat
  BY LevelsTyped, ExtentTyped
<1>2. x2.sval - Fewer(s, d)[Len(s)].n = x.sval - s[Len(s)].n
  BY <1>1, FewerIs
<1>3. Fewer(s, d)[Len(s)].is = s[Len(s)].is
  BY FewerIs
<1>4. x2.sval - Fewer(s, d)[Len(s)].n >= x.sval - s[Len(s)].n
  BY <1>1, <1>2
<1>5. \A k \in 1..(Len(s) - 1) : Fewer(s, d)[k].is = s[k].is /\ Fewer(s, d)[k].n = s[k].n
  BY FewerIs
<1>6. Fewer(s, d) \in Seq(Levels) /\ Len(Fewer(s, d)) = Len(s)
  BY FewerIs
<1>7. QED
  BY <1>2, <1>3, <1>4, <1>5, <1>6, LeveledMore

(* Unknown numbers of values are pushed on the last level.                   *)
LEMMA LeveledSpread ==
  ASSUME NEW r \in Seq(Nat), NEW b \in Frames, NEW s \in Seq(Levels),
         NEW x \in Extent, NEW x2 \in Extent,
         Len(s) > 0, Leveled(r, b, s, x),
         x2.region = x.region, x2.sval >= x.sval, x.region <= Len(r)
  PROVE  Leveled(r, b, Spread(s), x2)
<1>1. s[Len(s)].n \in Nat /\ x.sval \in Nat /\ x2.sval \in Nat
  <2>1. Len(s) \in 1..Len(s)
    OBVIOUS
  <2>2. QED
    BY <2>1, LevelsTyped, ExtentTyped, Zenon
<1>2. Spread(s)[Len(s)].n = s[Len(s)].n /\ Spread(s)[Len(s)].is = "atleast"
  BY SpreadIs
<1>3. x2.sval - Spread(s)[Len(s)].n >= x.sval - s[Len(s)].n
  <2>1. x2.sval - s[Len(s)].n >= x.sval - s[Len(s)].n
    BY <1>1
  <2>2. QED
    BY <1>2, <2>1, Zenon
<1>4. \A k \in 1..(Len(s) - 1) : Spread(s)[k].is = s[k].is /\ Spread(s)[k].n = s[k].n
  <2>1. \A k \in 1..(Len(s) - 1) : k \in 1..Len(s)
    OBVIOUS
  <2>2. QED
    BY <2>1, SpreadIs, Zenon
<1>5. Spread(s) \in Seq(Levels) /\ Len(Spread(s)) = Len(s)
  BY SpreadIs
<1>6. QED
  BY <1>2, <1>3, <1>4, <1>5, LeveledMore

(* A region is opened for values to come.                                    *)
LEMMA LeveledOpen ==
  ASSUME NEW r \in Seq(Nat), NEW b \in Frames, NEW s \in Seq(Levels),
         NEW x \in Extent, NEW x2 \in Extent, Len(s) > 0, Leveled(r, b, s, x),
         x.region = Len(r), x2.region = x.region + 1, x2.sval = x.sval
  PROVE  /\ Append(s, Exactly(0)) \in Seq(Levels)
         /\ Leveled(Append(r, x.sval), b, Append(s, Exactly(0)), x2)
<1> DEFINE t == Append(s, Exactly(0))
           r2 == Append(r, x.sval)
<1>1. /\ Len(s) \in Nat /\ Len(r) \in Nat /\ x.sval \in Nat /\ x.region \in Nat
      /\ b.region \in Nat /\ b.sval \in Nat /\ x.region = b.region + Len(s) - 1
  BY FrameTyped, ExtentTyped DEF Leveled
<1>2. Exactly(0) \in Levels /\ Exactly(0).is = "exactly" /\ Exactly(0).n = 0
  BY DEF Exactly, Levels
<1>3. /\ t \in Seq(Levels) /\ Len(t) = Len(s) + 1
      /\ \A k \in 1..Len(s) : t[k] = s[k]
      /\ t[Len(s) + 1] = Exactly(0)
  BY <1>2, AppendIs
<1>4. /\ r2 \in Seq(Nat) /\ \A k \in 1..Len(r) : r2[k] = r[k]
      /\ r2[Len(r) + 1] = x.sval
  <2>1. r \in Seq(Nat) /\ x.sval \in Nat
    BY <1>1
  <2>2. QED
    BY ONLY <2>1, AppendIs
<1> HIDE DEF t, r2
<1>5. ASSUME NEW k \in 1..Len(s)
      PROVE  From(r2, b, k) = From(r, b, k) /\ Upto(r2, b, t, x2, k) = Upto(r, b, s, x, k)
  <2>1. k # 1 => b.region + k - 1 \in 1..Len(r)
    BY <1>1
  <2>2. k # Len(s) => b.region + k \in 1..Len(r)
    BY <1>1
  <2>3. k = Len(s) => b.region + k = Len(r) + 1
    BY <1>1
  <2>4. k # Len(t)
    BY <1>1, <1>3
  <2>5. From(r2, b, k) = From(r, b, k)
    BY <1>4, <2>1 DEF From
  <2>6. Upto(r2, b, t, x2, k) = Upto(r, b, s, x, k)
    BY <1>4, <2>2, <2>3, <2>4 DEF Upto
  <2>7. QED
    BY <2>5, <2>6
<1>6. From(r2, b, Len(s) + 1) = x.sval /\ Upto(r2, b, t, x2, Len(s) + 1) = x.sval
  <2>1. b.region + (Len(s) + 1) - 1 = Len(r) + 1 /\ Len(s) + 1 # 1 /\ Len(s) + 1 = Len(t)
    BY <1>1, <1>3
  <2>2. QED
    BY <1>4, <2>1 DEF From, Upto
<1>7. x.sval >= b.sval
  <2>1. From(r, b, 1) = b.sval
    BY DEF From
  <2> Len(s) \in 1..Len(s) /\ x.region <= Len(r)
    BY <1>1
  <2>2. /\ From(r, b, Len(s)) \in Nat /\ b.sval <= From(r, b, Len(s))
        /\ From(r, b, Len(s)) + s[Len(s)].n <= Upto(r, b, s, x, Len(s))
        /\ s[Len(s)].n \in Nat
    BY BoundsTyped, LevelsTyped, Zenon
  <2>3. Upto(r, b, s, x, Len(s)) = x.sval
    BY DEF Upto
  <2>4. QED
    BY ONLY <1>1, <2>2, <2>3
<1>8. ASSUME NEW k \in 1..Len(t)
      PROVE  /\ From(r2, b, k) >= b.sval
             /\ IF t[k].is = "atleast" THEN Upto(r2, b, t, x2, k) - From(r2, b, k) >= t[k].n
                ELSE Upto(r2, b, t, x2, k) - From(r2, b, k) = t[k].n
  <2>1. CASE k \in 1..Len(s)
    <3>1. t[k] = s[k]
      BY <1>3, <2>1
    <3>2. QED
      BY <1>5, <2>1, <3>1 DEF Leveled
  <2>2. CASE k = Len(s) + 1
    BY <1>1, <1>2, <1>3, <1>6, <1>7, <2>2
  <2>3. QED
    BY <1>1, <1>3, <2>1, <2>2
<1>9. x2.region = b.region + Len(t) - 1
  BY <1>1, <1>3
<1>10. QED
  BY <1>3, <1>8, <1>9 DEF Leveled, t, r2

(* A region is closed, and its values are gone.                              *)
LEMMA LeveledClose ==
  ASSUME NEW r \in Seq(Nat), NEW b \in Frames, NEW s \in Seq(Levels),
         NEW x \in Extent, NEW x2 \in Extent, Len(s) > 1, Leveled(r, b, s, x),
         x.region <= Len(r), x2.region = x.region - 1, x2.sval = r[x.region]
  PROVE  /\ Front(s) \in Seq(Levels) /\ Len(Front(s)) = Len(s) - 1
         /\ Leveled(r, b, Front(s), x2)
<1> DEFINE t == Front(s)
<1>1. /\ Len(s) \in Nat /\ Len(s) > 0 /\ b.region \in Nat /\ b.sval \in Nat
      /\ x.region \in Nat /\ x.region = b.region + Len(s) - 1
  BY FrameTyped, ExtentTyped DEF Leveled
<1>2. /\ t \in Seq(Levels) /\ Len(t) = Len(s) - 1
      /\ \A k \in 1..(Len(s) - 1) : t[k] = s[k]
  BY <1>1, FrontIs
<1> HIDE DEF t
<1>3. ASSUME NEW k \in 1..Len(t)
      PROVE  k \in 1..Len(s) /\ t[k] = s[k] /\ Upto(r, b, t, x2, k) = Upto(r, b, s, x, k)
  <2>1. k \in 1..Len(s) /\ k # Len(s) /\ k \in 1..(Len(s) - 1)
    BY ONLY <1>1, <1>2
  <2>2. k = Len(t) => b.region + k = x.region
    BY <1>1, <1>2
  <2>3. t[k] = s[k]
    BY <1>2, <2>1
  <2>4. QED
    BY <2>1, <2>2, <2>3 DEF Upto
<1>4. x2.region = b.region + Len(t) - 1
  <2>1. Len(t) = Len(s) - 1 /\ x2.region = x.region - 1
    BY <1>2
  <2>2. QED
    BY ONLY <1>1, <2>1
<1>5. QED
  BY <1>2, <1>3, <1>4 DEF Leveled, t

(* Code that admits levels is told no more than is so.                       *)
LEMMA LeveledAdmits ==
  ASSUME NEW r \in Seq(Nat), NEW b \in Frames, NEW s \in Seq(Levels),
         NEW h \in Seq(Levels), NEW x \in Extent, Len(s) > 0, Leveled(r, b, s, x),
         x.region <= Len(r), Admits(h, s)
  PROVE  Leveled(r, b, h, x)
<1>1. Len(h) = Len(s)
  BY DEF Admits
<1>2. ASSUME NEW k \in 1..Len(h)
      PROVE  /\ From(r, b, k) >= b.sval
             /\ IF h[k].is = "atleast" THEN Upto(r, b, h, x, k) - From(r, b, k) >= h[k].n
                ELSE Upto(r, b, h, x, k) - From(r, b, k) = h[k].n
  <2>1. k \in 1..Len(s)
    BY <1>1
  <2>2. /\ From(r, b, k) >= b.sval
        /\ IF s[k].is = "atleast" THEN Upto(r, b, s, x, k) - From(r, b, k) >= s[k].n
           ELSE Upto(r, b, s, x, k) - From(r, b, k) = s[k].n
    BY <2>1 DEF Leveled
  <2>3. /\ From(r, b, k) \in Nat /\ Upto(r, b, s, x, k) \in Nat
        /\ s[k].n \in Nat /\ h[k].n \in Nat
    BY <2>1, BoundsTyped, LevelsTyped
  <2>4. Upto(r, b, h, x, k) = Upto(r, b, s, x, k)
    BY <1>1 DEF Upto
  <2>5. IF h[k].is = "atleast" THEN h[k].n <= s[k].n ELSE h[k] = s[k]
    BY DEF Admits
  <2>6. Upto(r, b, s, x, k) - From(r, b, k) >= s[k].n
    BY ONLY <2>2, <2>3
  <2>7. CASE h[k].is = "atleast"
    BY ONLY <2>2, <2>3, <2>4, <2>5, <2>6, <2>7
  <2>8. CASE h[k].is # "atleast"
    BY ONLY <2>2, <2>4, <2>5, <2>8
  <2>9. QED
    BY <2>7, <2>8
<1>3. x.region = b.region + Len(h) - 1
  BY <1>1 DEF Leveled
<1>4. QED
  BY <1>2, <1>3 DEF Leveled

(* Between statements there are no values.                                   *)
LEMMA ClearIs ==
  /\ Clear \in Seq(Levels) /\ Len(Clear) = 1
  /\ Clear[1].n = 0 /\ Clear[1].is = "exactly"
BY DEF Clear, Exactly, Levels

LEMMA LeveledClear ==
  ASSUME NEW r, NEW b \in Frames, NEW x \in Extent
  PROVE  Leveled(r, b, Clear, x) <=> x.region = b.region /\ x.sval = b.sval
<1>1. b.region \in Nat /\ b.sval \in Nat /\ x.region \in Nat /\ x.sval \in Nat
  BY FrameTyped, ExtentTyped
<1>2. From(r, b, 1) = b.sval /\ Upto(r, b, Clear, x, 1) = x.sval
  BY ClearIs DEF From, Upto
<1>3. Leveled(r, b, Clear, x) <=>
        /\ x.region = b.region + 1 - 1
        /\ \A k \in 1..1 :
             /\ From(r, b, k) >= b.sval
             /\ IF Clear[k].is = "atleast"
                THEN Upto(r, b, Clear, x, k) - From(r, b, k) >= Clear[k].n
                ELSE Upto(r, b, Clear, x, k) - From(r, b, k) = Clear[k].n
  BY ClearIs, Zenon DEF Leveled
<1>4. QED
  BY <1>1, <1>2, <1>3, ClearIs

-----------------------------------------------------------------------------
(* The with blocks of a function.                                            *)

LEMMA ClosableSame ==
  ASSUME NEW w \in Seq(Nat), NEW w2 \in Seq(Nat), NEW b \in Frames, NEW b2 \in Frames,
         NEW ws \in Seq(Nat), NEW x \in Extent, NEW x2 \in Extent,
         Closable(w, b, ws, x), b2.rwith = b.rwith, b2.swith = b.swith,
         x2.rwith = x.rwith, x2.swith = x.swith,
         \A k \in 1..x.rwith : w2[k] = w[k]
  PROVE  Closable(w2, b2, ws, x2)
<1>1. b.rwith \in Nat /\ Len(ws) \in Nat /\ x.rwith = b.rwith + Len(ws)
  BY FrameTyped DEF Closable
<1>2. ASSUME NEW k \in 1..(Len(ws) + 1)
      PROVE  Opened(w2, b2, ws, x2, k) = Opened(w, b, ws, x, k)
  <2>1. ~ k > Len(ws) => b.rwith + k \in 1..x.rwith
    BY ONLY <1>1
  <2>2. QED
    BY <2>1 DEF Opened
<1>3. 1 \in 1..(Len(ws) + 1) /\ \A k \in 1..Len(ws) : {k, k + 1} \subseteq 1..(Len(ws) + 1)
  BY ONLY <1>1
<1>4. QED
  BY <1>2, <1>3 DEF Closable

LEMMA ClosablePush ==
  ASSUME NEW w \in Seq(Nat), NEW b \in Frames, NEW ws \in Seq(Nat),
         NEW x \in Extent, NEW x2 \in Extent, Closable(w, b, ws, x),
         x.rwith = Len(w), x2.rwith = x.rwith + 1, x2.swith = x.swith
  PROVE  Closable(Append(w, x.swith), b, Append(ws, 0), x2)
<1> DEFINE t == Append(ws, 0)
           w2 == Append(w, x.swith)
<1>1. /\ b.rwith \in Nat /\ Len(ws) \in Nat /\ Len(w) \in Nat /\ x.rwith = b.rwith + Len(ws)
      /\ x.swith \in Nat /\ x.rwith \in Nat
  BY FrameTyped, ExtentTyped DEF Closable
<1>2. /\ t \in Seq(Nat) /\ Len(t) = Len(ws) + 1
      /\ \A k \in 1..Len(ws) : t[k] = ws[k]
      /\ t[Len(ws) + 1] = 0
  BY ONLY AppendIs
<1>3. /\ w2 \in Seq(Nat) /\ \A k \in 1..Len(w) : w2[k] = w[k]
      /\ w2[Len(w) + 1] = x.swith
  <2>1. x.swith \in Nat
    BY <1>1
  <2>2. QED
    BY ONLY <2>1, AppendIs
<1> HIDE DEF t, w2
<1>4. ASSUME NEW k \in 1..(Len(ws) + 1)
      PROVE  Opened(w2, b, t, x2, k) = Opened(w, b, ws, x, k)
  <2>0. Len(t) = Len(ws) + 1
    BY <1>2
  <2>1. ~ k > Len(t)
    BY ONLY <2>0, <1>1
  <2>2. CASE k > Len(ws)
    <3>0. k = Len(ws) + 1
      BY ONLY <1>1, <2>2
    <3>1. b.rwith + k = Len(w) + 1
      <4> DEFINE n == b.rwith
      <4>1. n \in Nat /\ Len(w) = n + Len(ws)
        BY <1>1
      <4> HIDE DEF n
      <4>2. n + (Len(ws) + 1) = Len(w) + 1
        BY ONLY <1>1, <4>1
      <4>3. QED
        BY <3>0, <4>2 DEF n
    <3>2. QED
      BY <1>3, <2>1, <2>2, <3>1 DEF Opened
  <2>3. CASE ~ k > Len(ws)
    <3>1. b.rwith + k \in 1..Len(w)
      BY <1>1, <2>3
    <3>2. QED
      BY <1>3, <2>1, <2>3, <3>1 DEF Opened
  <2>4. QED
    BY <2>2, <2>3
<1>5. Opened(w2, b, t, x2, Len(t) + 1) = x.swith
  BY <1>1, <1>2 DEF Opened
<1>6. Opened(w, b, ws, x, Len(ws) + 1) = x.swith
  BY <1>1 DEF Opened
<1>7. ASSUME NEW k \in 1..Len(t)
      PROVE  Opened(w2, b, t, x2, k + 1) - Opened(w2, b, t, x2, k) = t[k]
  <2>1. CASE k \in 1..Len(ws)
    <3>1. k + 1 \in 1..(Len(ws) + 1) /\ k \in 1..(Len(ws) + 1)
      BY ONLY <1>1, <2>1
    <3>2. QED
      BY <1>2, <1>4, <2>1, <3>1 DEF Closable
  <2>2. CASE k = Len(ws) + 1
    <3>1. k \in 1..(Len(ws) + 1) /\ k = Len(t)
      BY ONLY <1>1, <1>2, <2>2
    <3>2. Opened(w2, b, t, x2, k) = x.swith /\ Opened(w2, b, t, x2, k + 1) = x.swith
      BY <1>4, <1>5, <1>6, <2>2, <3>1
    <3>3. t[k] = 0
      BY <1>2, <2>2
    <3>4. QED
      BY ONLY <1>1, <3>2, <3>3
  <2>3. QED
    BY <1>1, <1>2, <2>1, <2>2
<1>8. Opened(w2, b, t, x2, 1) = b.swith
  <2>1. 1 \in 1..(Len(ws) + 1)
    BY ONLY <1>1
  <2>2. QED
    BY <1>4, <2>1 DEF Closable
<1>9. x2.rwith = b.rwith + Len(t)
  BY <1>1, <1>2
<1>10. QED
  BY <1>7, <1>8, <1>9 DEF Closable, t, w2

LEMMA ClosableMore ==
  ASSUME NEW w \in Seq(Nat), NEW b \in Frames, NEW ws \in Seq(Nat),
         NEW x \in Extent, NEW x2 \in Extent, Closable(w, b, ws, x), Len(ws) > 0,
         x.rwith <= Len(w), x2.rwith = x.rwith, x2.swith = x.swith + 1
  PROVE  Closable(w, b, [ws EXCEPT ![Len(ws)] = @ + 1], x2)
<1> DEFINE t == [ws EXCEPT ![Len(ws)] = @ + 1]
<1>1. /\ b.rwith \in Nat /\ Len(ws) \in Nat /\ Len(w) \in Nat /\ x.rwith = b.rwith + Len(ws)
      /\ x.swith \in Nat /\ x.rwith \in Nat
  BY FrameTyped, ExtentTyped DEF Closable
<1>2. ws[Len(ws)] + 1 \in Nat
  OBVIOUS
<1>3. /\ t \in Seq(Nat) /\ Len(t) = Len(ws)
      /\ \A k \in 1..Len(ws) : t[k] = IF k = Len(ws) THEN ws[Len(ws)] + 1 ELSE ws[k]
  BY ONLY <1>2, LastIs, SMTT(60)
<1> HIDE DEF t
<1>4. \A k \in 1..Len(ws) : Opened(w, b, t, x2, k) = Opened(w, b, ws, x, k)
  BY <1>1, <1>3 DEF Opened
<1>5. /\ Opened(w, b, t, x2, Len(ws) + 1) = x.swith + 1
      /\ Opened(w, b, ws, x, Len(ws) + 1) = x.swith
  BY <1>1, <1>3 DEF Opened
<1>6. ASSUME NEW k \in 1..Len(t)
      PROVE  Opened(w, b, t, x2, k + 1) - Opened(w, b, t, x2, k) = t[k]
  <2>1. /\ k \in 1..Len(ws) /\ Opened(w, b, ws, x, k + 1) - Opened(w, b, ws, x, k) = ws[k]
        /\ Opened(w, b, t, x2, k) = Opened(w, b, ws, x, k)
    BY <1>3, <1>4 DEF Closable
  <2>2. CASE k = Len(ws)
    <3>1. b.rwith + k \in 1..Len(w) /\ ~ k > Len(ws)
      BY ONLY <1>1, <2>2, x.rwith <= Len(w), Len(ws) > 0
    <3>2. Opened(w, b, ws, x, k) \in Nat
      BY <3>1, ElementOfSeq DEF Opened
    <3>3. t[k] = ws[k] + 1 /\ ws[k] \in Nat
      BY <1>3, <2>1, <2>2
    <3>4. Opened(w, b, t, x2, k + 1) = x.swith + 1 /\ Opened(w, b, ws, x, k + 1) = x.swith
      BY <1>5, <2>2
    <3>5. QED
      BY ONLY <1>1, <2>1, <3>2, <3>3, <3>4
  <2>3. CASE k # Len(ws)
    <3>1. k + 1 \in 1..Len(ws)
      BY ONLY <1>1, <2>1, <2>3
    <3>2. QED
      BY <1>3, <1>4, <2>1, <2>3, <3>1
  <2>4. QED
    BY <2>2, <2>3
<1>7. Opened(w, b, t, x2, 1) = b.swith
  BY <1>1, <1>4 DEF Closable
<1>8. QED
  BY <1>3, <1>6, <1>7 DEF Closable, t

LEMMA ClosablePop ==
  ASSUME NEW w \in Seq(Nat), NEW b \in Frames, NEW ws \in Seq(Nat),
         NEW x \in Extent, NEW x2 \in Extent, Closable(w, b, ws, x), Len(ws) > 0,
         x2.rwith = x.rwith - 1, x2.swith = w[x.rwith]
  PROVE  Closable(w, b, Front(ws), x2)
<1> DEFINE t == Front(ws)
<1>1. /\ b.rwith \in Nat /\ Len(ws) \in Nat /\ x.rwith = b.rwith + Len(ws)
      /\ x.rwith \in Nat /\ x2.rwith \in Nat
  BY FrameTyped, ExtentTyped, SMTT(60) DEF Closable
<1>2. /\ t \in Seq(Nat) /\ Len(t) = Len(ws) - 1
      /\ \A k \in 1..(Len(ws) - 1) : t[k] = ws[k]
  BY ONLY Len(ws) > 0, FrontIs
<1> HIDE DEF t
<1>3. ASSUME NEW k \in 1..Len(ws)
      PROVE  Opened(w, b, t, x2, k) = Opened(w, b, ws, x, k)
  <2>1. ~ k > Len(ws) /\ (k > Len(t) => b.rwith + k = x.rwith)
    BY ONLY <1>1, <1>2
  <2>2. QED
    BY <2>1 DEF Opened
<1>4. ASSUME NEW k \in 1..Len(t)
      PROVE  Opened(w, b, t, x2, k + 1) - Opened(w, b, t, x2, k) = t[k]
  <2>1. k \in 1..Len(ws) /\ k + 1 \in 1..Len(ws) /\ k \in 1..(Len(ws) - 1)
    BY ONLY <1>1, <1>2
  <2>2. t[k] = ws[k]
    BY <1>2, <2>1
  <2>3. QED
    BY <1>3, <2>1, <2>2 DEF Closable
<1>5. 1 \in 1..Len(ws)
  BY <1>1
<1>6. Opened(w, b, t, x2, 1) = b.swith
  BY <1>3, <1>5 DEF Closable
<1>7. x2.rwith = b.rwith + Len(t)
  BY ONLY <1>1, <1>2, x2.rwith = x.rwith - 1
<1>8. QED
  BY <1>4, <1>6, <1>7 DEF Closable, t

LEMMA ClosableNone ==
  ASSUME NEW w, NEW b \in Frames, NEW x \in Extent
  PROVE  Closable(w, b, <<>>, x) <=> x.rwith = b.rwith /\ x.swith = b.swith
<1>1. b.rwith \in Nat /\ x.rwith \in Nat
  BY FrameTyped, ExtentTyped
<1>2. Opened(w, b, <<>>, x, 1) = x.swith
  BY DEF Opened
<1>3. QED
  BY <1>1, <1>2 DEF Closable

-----------------------------------------------------------------------------
(* What code that fits is known to have.                                     *)

LEMMA CodeAt ==
  ASSUME NEW p, Fits(p), NEW i \in 1..Len(p)
  PROVE  /\ p[i] \in Instructions /\ p[i].op \in Ops /\ p[i].arg \in Nat
         /\ p[i].at.tries \in Seq(Nat) /\ p[i].at.withs \in Seq(Nat)
         /\ Found(p)[i] \in Seq(Levels) /\ Len(Found(p)[i]) \in Nat \ {0}
         /\ Finds(p[i], Found(p)[i]) /\ Nests(p[i], p)
<1>1. p \in Seq(Instructions) /\ Sound(p, Found(p), i)
  BY Zenon DEF Fits
<1>2. p[i] \in Instructions
  BY <1>1, ElementOfSeq
<1>3. /\ p[i].op \in Ops /\ p[i].arg \in Nat
      /\ p[i].at \in [tries : Seq(Nat), withs : Seq(Nat), mid : BOOLEAN]
  BY <1>2 DEF Instructions
<1>4. p[i].at.tries \in Seq(Nat) /\ p[i].at.withs \in Seq(Nat)
  BY <1>3
<1>5. /\ Found(p)[i] \in Seq(Levels) /\ Found(p)[i] # <<>>
      /\ Finds(p[i], Found(p)[i]) /\ Nests(p[i], p)
  BY <1>1, Zenon DEF Sound
<1>6. Len(Found(p)[i]) \in Nat \ {0}
  BY <1>5, EmptySeq
<1>7. QED
  BY <1>2, <1>3, <1>4, <1>5, <1>6, Zenon

LEMMA LeadsTo ==
  ASSUME NEW p, Fits(p), NEW i \in 1..Len(p)
  PROVE  /\ \A j \in Goes(p[i]) :
              Leads(p, Found(p), j, Found(p)[i], p[i].at.tries, p[i].at.withs)
         /\ \A j \in Follows(p[i], i) :
              Leads(p, Found(p), j, After(Found(p)[i], p[i]), TriesAfter(p[i]),
                    WithsAfter(p[i]))
BY Zenon DEF Fits, Sound

LEMMA TakenIs ==
  ASSUME NEW p, Fits(p), NEW i \in 1..Len(p)
  PROVE  /\ Taken(Found(p)[i], p[i]) \in Seq(Levels)
         /\ Len(Taken(Found(p)[i], p[i])) \in Nat \ {0}
<1> DEFINE s == Found(p)[i]
           q == p[i]
<1>1. s \in Seq(Levels) /\ Len(s) \in Nat \ {0} /\ Finds(q, s) /\ q.arg \in Nat
  BY CodeAt, Zenon
<1> HIDE DEF s, q
<1>2. CASE q.op = "dcall"
  <2>1. Taken(s, q) = Fewer(s, q.arg)
    BY <1>2 DEF Taken
  <2>2. q.arg <= s[Len(s)].n /\ q.arg \in Int /\ Len(s) > 0
    <3>1. s[Len(s)].n >= q.arg
      BY <1>1, <1>2 DEF Finds
    <3>2. Len(s) \in 1..Len(s)
      BY <1>1
    <3>3. s[Len(s)].n \in Nat
      BY <1>1, <3>2, LevelsTyped, Zenon
    <3>4. QED
      BY <1>1, <3>1, <3>3
  <2>3. QED
    BY <1>1, <2>1, <2>2, FewerIs DEF q, s
<1>3. CASE q.op = "fcall"
  <2>1. Taken(s, q) = Front(s)
    BY <1>3 DEF Taken
  <2>2. Len(s) > 1
    BY <1>1, <1>3 DEF Finds
  <2>3. QED
    BY <1>1, <2>1, <2>2, FrontIs DEF q, s
<1>4. CASE q.op \notin {"dcall", "fcall"}
  <2>1. Taken(s, q) = s
    BY <1>4 DEF Taken
  <2>2. QED
    BY <1>1, <2>1 DEF q, s
<1>5. QED
  BY <1>2, <1>3, <1>4

-----------------------------------------------------------------------------
(* Functions and their tries.                                                *)

LEMMA ToTyped ==
  ASSUME NEW f \in Frames
  PROVE  /\ To(f) \in Extent /\ To(f).region = f.region /\ To(f).sval = Depth(f)
         /\ To(f).rwith = f.rwith /\ To(f).swith = f.swith
BY FrameTyped DEF To, Extent

(* There is one function below a number of tries.                            *)
LEMMA TriesBelow ==
  ASSUME NEW fr, NEW o, NEW n \in Nat, NEW ts \in Seq(Nat), Tries(fr, o, n, ts),
         NEW o2, NEW n2 \in Nat, NEW ts2 \in Seq(Nat), Tries(fr, o2, n2, ts2),
         o <= n2, n2 <= n
  PROVE  o2 = o
<1>1. o \in 1..n /\ n - o = Len(ts) /\ o2 \in 1..n2 /\ n2 - o2 = Len(ts2)
      /\ fr[o].type \in Uncil /\ fr[o2].type \in Uncil
  BY DEF Tries
<1>2. \A k \in (o + 1)..n : fr[k].type = "Try"
  <2> TAKE k \in (o + 1)..n
  <2>1. k - o \in 1..Len(ts) /\ o + (k - o) = k
    BY ONLY <1>1
  <2>2. QED
    BY <2>1 DEF Tries
<1>3. \A k \in (o2 + 1)..n2 : fr[k].type = "Try"
  <2> TAKE k \in (o2 + 1)..n2
  <2>1. k - o2 \in 1..Len(ts2) /\ o2 + (k - o2) = k
    BY ONLY <1>1
  <2>2. QED
    BY <2>1 DEF Tries
<1>4. "Try" \notin Uncil
  BY DEF Uncil
<1>5. ~ o2 > o
  BY <1>1, <1>2, <1>4
<1>6. ~ o > o2
  BY <1>1, <1>3, <1>4
<1>7. QED
  BY ONLY <1>1, <1>5, <1>6

LEMMA OwnIs ==
  ASSUME frames \in Seq(Frames), NEW o, NEW ts \in Seq(Nat),
         Tries(frames, o, Len(frames), ts)
  PROVE  Own = o
<1>1. o \in 1..Len(frames) /\ Len(frames) - o = Len(ts) /\ frames[o].type \in Uncil
  BY DEF Tries
<1>2. \A k \in (o + 1)..Len(frames) : frames[k].type = "Try"
  <2> TAKE k \in (o + 1)..Len(frames)
  <2>1. k - o \in 1..Len(ts) /\ o + (k - o) = k
    BY ONLY <1>1
  <2>2. QED
    BY <2>1 DEF Tries
<1>3. frames[o].type # "Try"
  BY <1>1 DEF Uncil
<1>4. ASSUME NEW i \in 1..Len(frames), frames[i].type # "Try",
             \A j \in (i + 1)..Len(frames) : frames[j].type = "Try"
      PROVE  i = o
  <2>1. ~ i > o
    BY <1>1, <1>2, <1>4
  <2>2. ~ o > i
    BY <1>1, <1>3, <1>4
  <2>3. QED
    BY ONLY <1>1, <2>1, <2>2
<1>5. QED
  BY <1>1, <1>2, <1>3, <1>4 DEF Own

(* What a function has does not depend on what is above it.                  *)
LEMMA StandsSame ==
  ASSUME NEW p, Fits(p), NEW fr \in Seq(Frames), NEW fr2 \in Seq(Frames),
         NEW r \in Seq(Nat), NEW r2 \in Seq(Nat), NEW w \in Seq(Nat), NEW w2 \in Seq(Nat),
         NEW o, NEW n \in Nat, NEW i, NEW s \in Seq(Levels), Len(s) > 0, NEW x \in Extent,
         Stands(p, fr, r, w, o, n, i, s, x), n <= Len(fr),
         \A k \in 1..n : fr2[k] = fr[k],
         \A k \in 1..x.region : r2[k] = r[k],
         \A k \in 1..x.rwith : w2[k] = w[k]
  PROVE  Stands(p, fr2, r2, w2, o, n, i, s, x)
<1>1. /\ i \in 1..Len(p) /\ Tries(fr, o, n, p[i].at.tries)
      /\ Leveled(r, fr[o], s, x) /\ Closable(w, fr[o], p[i].at.withs, x)
  BY DEF Stands
<1>2. p[i].at.tries \in Seq(Nat) /\ p[i].at.withs \in Seq(Nat)
  BY <1>1, CodeAt, Zenon
<1>3. o \in 1..n /\ n - o = Len(p[i].at.tries)
  BY <1>1 DEF Tries
<1>4. fr2[o] = fr[o] /\ fr[o] \in Frames
  BY <1>3
<1>5. Tries(fr2, o, n, p[i].at.tries)
  <2>1. \A k \in 1..Len(p[i].at.tries) : o + k \in 1..n
    BY ONLY <1>3, <1>2
  <2>2. QED
    BY <1>1, <1>3, <1>4, <2>1 DEF Tries
<1>6. Leveled(r2, fr[o], s, x)
  BY <1>1, <1>4, LeveledSame
<1>7. Closable(w2, fr[o], p[i].at.withs, x)
  BY <1>1, <1>2, <1>4, ClosableSame
<1>8. QED
  BY <1>1, <1>4, <1>5, <1>6, <1>7, Zenon DEF Stands

LEMMA FrameSame ==
  ASSUME NEW p, Fits(p), NEW fr \in Seq(Frames), NEW fr2 \in Seq(Frames),
         NEW r \in Seq(Nat), NEW r2 \in Seq(Nat), NEW w \in Seq(Nat), NEW w2 \in Seq(Nat),
         NEW n \in 1..Len(fr), FrameFits(p, fr, r, w, n),
         \A k \in 1..n : fr2[k] = fr[k],
         \A k \in 1..fr[n].region : r2[k] = r[k],
         \A k \in 1..fr[n].rwith : w2[k] = w[k]
  PROVE  FrameFits(p, fr2, r2, w2, n)
<1> DEFINE f == fr[n]
<1>1. f \in Frames /\ fr2[n] = f
  BY ElementOfSeq
<1>2. To(f) \in Extent /\ To(f).region = f.region /\ To(f).rwith = f.rwith
  BY <1>1, ToTyped
<1> HIDE DEF f
<1>3. n - 1 \in Nat /\ n - 1 <= Len(fr) /\ \A k \in 1..(n - 1) : fr2[k] = fr[k]
  OBVIOUS
<1>4. /\ \A k \in 1..To(f).region : r2[k] = r[k]
      /\ \A k \in 1..To(f).rwith : w2[k] = w[k]
  BY <1>2 DEF f
<1>5. ASSUME NEW o, NEW i, NEW s \in Seq(Levels), Len(s) > 0,
             Stands(p, fr, r, w, o, n - 1, i, s, To(f))
      PROVE  Stands(p, fr2, r2, w2, o, n - 1, i, s, To(f))
  BY <1>2, <1>3, <1>4, <1>5, StandsSame
<1>6. ASSUME TryFits(p, fr, r, w, n) PROVE TryFits(p, fr2, r2, w2, n)
  <2>1. PICK o \in 1..(n - 1) : Stands(p, fr, r, w, o, n - 1, f.pc, Clear, To(f))
    BY <1>6, Zenon DEF TryFits, f
  <2>2. Stands(p, fr2, r2, w2, o, n - 1, f.pc, Clear, To(f))
    <3>1. Clear \in Seq(Levels) /\ Len(Clear) > 0
      BY ClearIs
    <3>2. QED
      BY <1>5, <2>1, <3>1, Zenon
  <2>3. /\ p[f.pc].op = "expush" /\ f.to = p[f.pc].to /\ f.try = p[f.pc].arg
        /\ f.cont = ""
    BY <1>6, Zenon DEF TryFits, f
  <2>4. QED
    BY <1>1, <2>2, <2>3, Zenon DEF TryFits
<1>7. ASSUME CallFits(p, fr, r, w, n) PROVE CallFits(p, fr2, r2, w2, n)
  <2> DEFINE i == f.pc - 1
             s == Taken(Found(p)[i], p[i])
  <2>1. PICK o \in 1..(n - 1) : Stands(p, fr, r, w, o, n - 1, i, s, To(f))
    BY <1>7, Zenon DEF CallFits, f
  <2>2. i \in 1..Len(p)
    BY <2>1, Zenon DEF Stands
  <2>3. s \in Seq(Levels) /\ Len(s) \in Nat \ {0}
    BY <2>2, TakenIs, Zenon
  <2> HIDE DEF s
  <2>4. Stands(p, fr2, r2, w2, o, n - 1, i, s, To(f))
    BY <1>5, <2>1, <2>3
  <2>5. CalledBy(f, p[i]) /\ (~ Counted(f) => f.from = i)
    BY <1>7, Zenon DEF CallFits, f
  <2>6. QED
    BY <1>1, <2>4, <2>5, Zenon DEF CallFits, s
<1>8. ASSUME MainFits(fr, r, n) PROVE MainFits(fr2, r2, n)
  <2>1. ASSUME n > 1
        PROVE  n - 1 \in 1..n /\ fr2[n - 1] = fr[n - 1] /\ fr[n - 1] \in Frames
    <3>1. n - 1 \in 1..n /\ n - 1 \in 1..Len(fr)
      BY <2>1
    <3>2. QED
      BY <3>1, ElementOfSeq
  <2>2. f.region \in 1..f.region
    <3>1. n = 1 => f.region = 1
      BY <1>8 DEF MainFits, f
    <3>2. n > 1 => f.region = fr[n - 1].region + 1 /\ fr[n - 1].region \in Nat
      BY <1>8, <2>1, FrameTyped DEF MainFits, f
    <3>3. QED
      BY <3>1, <3>2
  <2>3. r2[f.region] = r[f.region]
    BY <2>2 DEF f
  <2>4. QED
    BY <1>1, <1>8, <2>1, <2>3 DEF MainFits, f
<1>9. QED
  BY <1>1, <1>6, <1>7, <1>8, Zenon DEF FrameFits, f

LEMMA AboveOf ==
  ASSUME NEW f \in Frames, NEW g \in Frames, NEW x \in Extent,
         Above(x, f), Above(To(f), g)
  PROVE  Above(x, g)
<1>1. /\ Depth(f) \in Nat /\ f.region \in Nat /\ f.rwith \in Nat
      /\ Depth(g) \in Nat /\ g.region \in Nat /\ g.rwith \in Nat
      /\ x.sval \in Nat /\ x.region \in Nat /\ x.rwith \in Nat
  BY FrameTyped, ExtentTyped
<1>2. /\ Depth(f) <= x.sval /\ f.region <= x.region /\ f.rwith <= x.rwith
      /\ Depth(g) <= Depth(f) /\ g.region <= f.region /\ g.rwith <= f.rwith
  BY ToTyped DEF Above
<1>3. QED
  BY <1>1, <1>2 DEF Above

(* The frames below one stay as they are, however the stacks above change.   *)
LEMMA NestedKept ==
  ASSUME NEW p, Fits(p), NEW fr \in Seq(Frames), NEW fr2 \in Seq(Frames),
         NEW r \in Seq(Nat), NEW r2 \in Seq(Nat), NEW w \in Seq(Nat), NEW w2 \in Seq(Nat),
         Nested(p, fr, r, w), NEW m \in 0..Len(fr), m <= Len(fr2),
         \A k \in 1..m : fr2[k] = fr[k],
         m > 0 => /\ \A k \in 1..fr[m].region : r2[k] = r[k]
                  /\ \A k \in 1..fr[m].rwith : w2[k] = w[k]
  PROVE  /\ \A n \in 1..m : FrameFits(p, fr2, r2, w2, n)
         /\ \A k, n \in 1..m : k <= n => Above(To(fr2[n]), fr2[k])
<1>1. ASSUME NEW n \in 1..m
      PROVE  FrameFits(p, fr2, r2, w2, n)
  <2>1. n \in 1..Len(fr) /\ m \in 1..Len(fr) /\ n <= m
    OBVIOUS
  <2>2. FrameFits(p, fr, r, w, n) /\ Above(To(fr[m]), fr[n])
    BY <2>1, Zenon DEF Nested
  <2>3. fr[n] \in Frames /\ fr[m] \in Frames
    BY <2>1
  <2>4. /\ fr[n].region \in Nat /\ fr[m].region \in Nat /\ fr[n].region <= fr[m].region
        /\ fr[n].rwith \in Nat /\ fr[m].rwith \in Nat /\ fr[n].rwith <= fr[m].rwith
    BY <2>2, <2>3, FrameTyped, ToTyped DEF Above
  <2>5. /\ \A k \in 1..fr[n].region : k \in 1..fr[m].region
        /\ \A k \in 1..fr[n].rwith : k \in 1..fr[m].rwith
    BY ONLY <2>4, SMTT(60)
  <2>6. /\ \A k \in 1..fr[n].region : r2[k] = r[k]
        /\ \A k \in 1..fr[n].rwith : w2[k] = w[k]
    BY <2>1, <2>5
  <2>7. \A k \in 1..n : fr2[k] = fr[k]
    OBVIOUS
  <2>8. QED
    BY <2>1, <2>2, <2>6, <2>7, FrameSame
<1>2. ASSUME NEW k \in 1..m, NEW n \in 1..m, k <= n
      PROVE  Above(To(fr2[n]), fr2[k])
  <2>1. k \in 1..Len(fr) /\ n \in 1..Len(fr)
    OBVIOUS
  <2>2. Above(To(fr[n]), fr[k])
    BY <1>2, <2>1, Zenon DEF Nested
  <2>3. QED
    BY <2>2
<1>3. QED
  BY <1>1, <1>2

LEMMA NestedCut ==
  ASSUME NEW p, Fits(p), NEW fr \in Seq(Frames), NEW fr2 \in Seq(Frames),
         NEW r \in Seq(Nat), NEW r2 \in Seq(Nat), NEW w \in Seq(Nat), NEW w2 \in Seq(Nat),
         Nested(p, fr, r, w), NEW m \in 0..Len(fr), m = Len(fr2),
         \A k \in 1..m : fr2[k] = fr[k],
         m > 0 => /\ \A k \in 1..fr[m].region : r2[k] = r[k]
                  /\ \A k \in 1..fr[m].rwith : w2[k] = w[k]
  PROVE  Nested(p, fr2, r2, w2)
<1>1. /\ \A n \in 1..m : FrameFits(p, fr2, r2, w2, n)
      /\ \A k, n \in 1..m : k <= n => Above(To(fr2[n]), fr2[k])
  <2>1. m <= Len(fr2)
    OBVIOUS
  <2>2. QED
    BY <2>1, NestedKept, ZenonT(60)
<1>2. QED
  BY <1>1, Zenon DEF Nested

(* One more frame lies above those that stay.                                *)
LEMMA NestedPush ==
  ASSUME NEW p, Fits(p), NEW fr \in Seq(Frames), NEW fr2 \in Seq(Frames),
         NEW r \in Seq(Nat), NEW r2 \in Seq(Nat), NEW w \in Seq(Nat), NEW w2 \in Seq(Nat),
         Nested(p, fr, r, w), NEW m \in 0..Len(fr), Len(fr2) = m + 1,
         \A k \in 1..m : fr2[k] = fr[k],
         m > 0 => /\ \A k \in 1..fr[m].region : r2[k] = r[k]
                  /\ \A k \in 1..fr[m].rwith : w2[k] = w[k]
                  /\ Above(To(fr2[m + 1]), fr[m]),
         FrameFits(p, fr2, r2, w2, m + 1)
  PROVE  Nested(p, fr2, r2, w2)
<1>1. /\ \A n \in 1..m : FrameFits(p, fr2, r2, w2, n)
      /\ \A k, n \in 1..m : k <= n => Above(To(fr2[n]), fr2[k])
  <2>1. m <= Len(fr2)
    OBVIOUS
  <2>2. QED
    BY <2>1, NestedKept, Zenon
<1>2. \A n \in 1..Len(fr2) : FrameFits(p, fr2, r2, w2, n)
  <2>1. \A n \in 1..Len(fr2) : n \in 1..m \/ n = m + 1
    OBVIOUS
  <2>2. QED
    BY <1>1, <2>1, Zenon
<1>3. fr2[m + 1] \in Frames
  BY ElementOfSeq
<1>4. Above(To(fr2[m + 1]), fr2[m + 1])
  BY <1>3, FrameTyped, ToTyped DEF Above
<1>5. ASSUME NEW k \in 1..m
      PROVE  Above(To(fr2[m + 1]), fr2[k])
  <2>1. m \in 1..m /\ m > 0 /\ k <= m /\ m \in 1..Len(fr2) /\ k \in 1..Len(fr2)
    OBVIOUS
  <2>2. fr2[m] \in Frames /\ fr2[k] \in Frames /\ fr2[m] = fr[m]
    BY <2>1, ElementOfSeq
  <2>3. Above(To(fr2[m + 1]), fr2[m]) /\ Above(To(fr2[m]), fr2[k])
    BY <1>1, <2>1, <2>2
  <2>4. QED
    BY <1>3, <2>2, <2>3, AboveOf, ToTyped
<1>6. \A k, n \in 1..Len(fr2) : k <= n => Above(To(fr2[n]), fr2[k])
  <2>1. ASSUME NEW k \in 1..Len(fr2), NEW n \in 1..Len(fr2), k <= n
        PROVE  Above(To(fr2[n]), fr2[k])
    <3>1. k \in 1..m \/ k = m + 1
      OBVIOUS
    <3>2. n \in 1..m \/ n = m + 1
      OBVIOUS
    <3>3. CASE n = m + 1
      BY <1>4, <1>5, <3>1, <3>3
    <3>4. CASE n \in 1..m
      <4>1. k \in 1..m
        BY <2>1, <3>1, <3>4
      <4>2. QED
        BY <1>1, <2>1, <3>4, <4>1, Zenon
    <3>5. QED
      BY <3>2, <3>3, <3>4
  <2>2. QED
    BY <2>1, Zenon
<1>7. QED
  BY <1>2, <1>6, Zenon DEF Nested

(* The innermost try of a function was pushed among its with blocks, when it *)
(* had no values.                                                            *)
LEMMA TopIs ==
  ASSUME NEW p, Fits(p), NEW fr \in Seq(Frames), NEW r, NEW w,
         NEW o, NEW n \in 1..Len(fr), NEW i \in 1..Len(p),
         Tries(fr, o, n, p[i].at.tries), FrameFits(p, fr, r, w, n)
  PROVE  /\ fr[n].region = fr[o].region /\ Depth(fr[n]) = Depth(fr[o])
         /\ Depth(fr[o]) = fr[o].sval
         /\ fr[n].rwith <= fr[o].rwith + Len(p[i].at.withs)
<1>1. /\ o \in 1..n /\ fr[o].type \in Uncil /\ n - o = Len(p[i].at.tries)
      /\ p[i].at.tries \in Seq(Nat) /\ p[i].at.withs \in Seq(Nat)
  BY CodeAt, Zenon DEF Tries
<1>2. fr[o] \in Frames /\ fr[n] \in Frames
  BY <1>1
<1>3. Depth(fr[o]) = fr[o].sval
  BY <1>1 DEF Depth, Uncil
<1>4. Len(p[i].at.withs) \in Nat /\ fr[o].rwith \in Nat
  BY <1>1, <1>2, FrameTyped
<1>5. CASE o = n
  <2>1. fr[o].rwith <= fr[o].rwith + Len(p[i].at.withs)
    BY ONLY <1>4
  <2>2. QED
    BY <1>3, <1>5, <2>1
<1>6. CASE o # n
  <2> DEFINE ts == p[i].at.tries
             j == fr[n].pc
  <2>1. Len(ts) \in 1..Len(ts) /\ o + Len(ts) = n
    BY <1>1, <1>6
  <2>2. fr[n].type = "Try" /\ fr[n].try = ts[Len(ts)]
    BY <2>1 DEF Tries
  <2>3. Depth(fr[n]) = fr[n].sval
    BY <2>2 DEF Depth
  <2>4. /\ \E oo \in 1..(n - 1) : Stands(p, fr, r, w, oo, n - 1, j, Clear, To(fr[n]))
        /\ p[j].op = "expush" /\ fr[n].try = p[j].arg
    BY <2>2, Zenon DEF FrameFits, TryFits
  <2>5. PICK oo \in 1..(n - 1) : Stands(p, fr, r, w, oo, n - 1, j, Clear, To(fr[n]))
    BY <2>4
  <2>6. /\ j \in 1..Len(p) /\ Tries(fr, oo, n - 1, p[j].at.tries)
        /\ Leveled(r, fr[oo], Clear, To(fr[n])) /\ Closable(w, fr[oo], p[j].at.withs, To(fr[n]))
    BY <2>5, Zenon DEF Stands
  <2>7. p[j].at.tries \in Seq(Nat) /\ p[j].at.withs \in Seq(Nat)
    BY <2>6, CodeAt, Zenon
  <2>8. n \in Nat /\ n - 1 \in Nat /\ o <= n - 1 /\ n - 1 <= n
    BY <1>1, <1>6
  <2>9. oo = o
    BY <1>1, <2>6, <2>7, <2>8, TriesBelow, Zenon
  <2>10. /\ fr[n].region = fr[o].region /\ Depth(fr[n]) = fr[o].sval
         /\ fr[n].rwith = fr[o].rwith + Len(p[j].at.withs)
    <3>1. To(fr[n]) \in Extent
      BY <1>2, ToTyped
    <3>2. Leveled(r, fr[o], Clear, To(fr[n])) /\ Closable(w, fr[o], p[j].at.withs, To(fr[n]))
      BY <2>6, <2>9
    <3>3. To(fr[n]).region = fr[o].region /\ To(fr[n]).sval = fr[o].sval
      BY <1>2, <3>1, <3>2, LeveledClear
    <3>4. To(fr[n]).rwith = fr[o].rwith + Len(p[j].at.withs)
      BY <3>2 DEF Closable
    <3>5. QED
      BY <1>2, <3>3, <3>4, ToTyped
  <2>11. Len(p[j].at.withs) <= Len(p[i].at.withs)
    <3>1. Nests(p[i], p)
      BY CodeAt, Zenon
    <3>2. Last(ts) = ts[Len(ts)] /\ ts # <<>>
      BY <1>1, <2>1 DEF Last
    <3>3. QED
      BY <2>2, <2>4, <2>6, <3>1, <3>2, Zenon DEF Nests
  <2>12. fr[n].rwith <= fr[o].rwith + Len(p[i].at.withs)
    <3> DEFINE a == fr[n].rwith
               b == fr[o].rwith
               c == Len(p[j].at.withs)
               d == Len(p[i].at.withs)
    <3>1. a = b + c /\ c <= d /\ c \in Nat /\ d \in Nat /\ b \in Nat
      BY <1>4, <2>7, <2>10, <2>11, SMTT(60)
    <3> HIDE DEF a, b, c, d
    <3>2. a <= b + d
      BY <3>1
    <3>3. QED
      BY <3>2 DEF a, b, d
  <2>13. QED
    BY <1>3, <2>10, <2>12
<1>7. QED
  BY <1>5, <1>6

LEMMA LeveledAbove ==
  ASSUME NEW r \in Seq(Nat), NEW b \in Frames, NEW s \in Seq(Levels), Len(s) > 0,
         NEW x \in Extent, Leveled(r, b, s, x), x.region <= Len(r)
  PROVE  b.sval <= x.sval /\ b.region <= x.region /\ x.region = b.region + Len(s) - 1
<1>1. Len(s) \in 1..Len(s)
  OBVIOUS
<1>2. Upto(r, b, s, x, Len(s)) = x.sval
  BY DEF Upto
<1>3. /\ x.region = b.region + Len(s) - 1
      /\ From(r, b, Len(s)) \in Nat /\ b.sval <= From(r, b, Len(s))
      /\ From(r, b, Len(s)) + s[Len(s)].n <= x.sval
  BY <1>1, <1>2, BoundsTyped
<1>4. b.region \in Nat /\ b.sval \in Nat /\ x.sval \in Nat /\ s[Len(s)].n \in Nat
  BY <1>1, FrameTyped, ExtentTyped, LevelsTyped
<1>5. b.sval <= x.sval
  <2> DEFINE a == b.sval
             c == From(r, b, Len(s))
             d == s[Len(s)].n
  <2>1. a \in Nat /\ c \in Nat /\ d \in Nat /\ a <= c /\ c + d <= x.sval /\ x.sval \in Nat
    BY <1>3, <1>4
  <2> HIDE DEF a, c, d
  <2>2. a <= x.sval
    BY <2>1
  <2>3. QED
    BY <2>2 DEF a
<1>6. b.region <= x.region
  <2> DEFINE a == b.region
  <2>1. a \in Nat /\ x.region = a + Len(s) - 1
    BY <1>3, <1>4
  <2> HIDE DEF a
  <2>2. a <= x.region
    BY <1>1, <2>1
  <2>3. QED
    BY <2>2 DEF a
<1>7. QED
  BY <1>3, <1>5, <1>6

-----------------------------------------------------------------------------
(* Steps of a function on its own values.                                    *)

LEMMA NowTyped ==
  ASSUME Typed
  PROVE  /\ Now \in Extent /\ Now.region = Len(region) /\ Now.sval = Len(sval)
         /\ Now.rwith = Len(rwith) /\ Now.swith = swith
BY DEF Typed, Now, Extent

LEMMA NowTypedNext ==
  ASSUME region' \in Seq(Nat), sval' \in Seq(Nat), rwith' \in Seq(Nat), swith' \in Nat
  PROVE  /\ Now' \in Extent /\ Now'.region = Len(region') /\ Now'.sval = Len(sval')
         /\ Now'.rwith = Len(rwith') /\ Now'.swith = swith'
BY DEF Now, Extent

LEMMA RunsAt ==
  ASSUME Verified, IInv, mode = "run"
  PROVE  /\ Fits(prog) /\ pc \in 1..Len(prog)
         /\ frames \in Seq(Frames) /\ Own \in 1..Len(frames) /\ Len(frames) \in 1..Len(frames)
         /\ frames[Own] \in Frames /\ frames[Own].type \in Uncil
         /\ Tries(frames, Own, Len(frames), prog[pc].at.tries)
         /\ Leveled(region, frames[Own], Found(prog)[pc], Now)
         /\ Closable(rwith, frames[Own], prog[pc].at.withs, Now)
<1>1. Typed /\ Executes
  BY DEF IInv, Modes
<1>2. Fits(prog) /\ frames \in Seq(Frames)
  BY <1>1 DEF Typed, Verified
<1>3. PICK o \in 1..Len(frames) :
        Stands(prog, frames, region, rwith, o, Len(frames), pc, Found(prog)[pc], Now)
  BY <1>1, Zenon DEF Executes
<1>4. /\ pc \in 1..Len(prog) /\ Tries(frames, o, Len(frames), prog[pc].at.tries)
      /\ Leveled(region, frames[o], Found(prog)[pc], Now)
      /\ Closable(rwith, frames[o], prog[pc].at.withs, Now)
  BY <1>3, Zenon DEF Stands
<1>5. Own = o
  BY <1>2, <1>4, CodeAt, OwnIs, Zenon
<1>6. frames[o].type \in Uncil
  BY <1>4 DEF Tries
<1>7. frames[o] \in Frames /\ Len(frames) \in 1..Len(frames)
  BY <1>2
<1>8. QED
  BY <1>2, <1>4, <1>5, <1>6, <1>7, Zenon

LEMMA StepOn ==
  ASSUME Verified, IInv, mode = "run", mode' = "run", prog' = prog, frames' = frames,
         region' \in Seq(Nat), sval' \in Seq(Nat), rwith' \in Seq(Nat), swith' \in Nat,
         NEW s \in Seq(Levels), Len(s) > 0, NEW ws,
         Leads(prog, Found(prog), pc', s, prog[pc].at.tries, ws),
         Leveled(region', frames[Own], s, Now'), Closable(rwith', frames[Own], ws, Now'),
         \A k \in 1..frames[Own].region : region'[k] = region[k],
         \A k \in 1..Len(rwith') : k <= Len(rwith) => rwith'[k] = rwith[k]
  PROVE  Stacked' /\ Modes'
<1> DEFINE o == Own
           n == Len(frames)
           j == pc'
<1>1. /\ Fits(prog) /\ frames \in Seq(Frames) /\ o \in 1..n /\ n \in 1..n
      /\ frames[o] \in Frames /\ Tries(frames, o, n, prog[pc].at.tries)
  BY RunsAt, Zenon
<1>2. /\ j \in 1..Len(prog) /\ Admits(Found(prog)[j], s)
      /\ prog[j].at.tries = prog[pc].at.tries /\ prog[j].at.withs = ws
  BY Zenon DEF Leads
<1>3. Tries(frames, o, n, prog[j].at.tries)
  BY <1>1, <1>2
<1>4. /\ Now' \in Extent /\ Now'.region = Len(region') /\ Now'.sval = Len(sval')
      /\ Now'.rwith = Len(rwith')
  BY NowTypedNext
<1> HIDE DEF o, n, j
<1>5. Leveled(region', frames[o], Found(prog)[j], Now')
  <2>1. Found(prog)[j] \in Seq(Levels)
    BY <1>1, <1>2, CodeAt, Zenon
  <2>2. Now'.region <= Len(region')
    BY <1>4
  <2>3. QED
    BY <1>1, <1>2, <1>4, <2>1, <2>2, LeveledAdmits DEF o
<1>6. Stands(prog', frames', region', rwith', o, n, j, Found(prog')[j], Now')
  <2>1. Closable(rwith', frames[o], prog[j].at.withs, Now')
    BY <1>2 DEF o
  <2>2. Stands(prog, frames, region', rwith', o, n, j, Found(prog)[j], Now')
    BY <1>2, <1>3, <1>5, <2>1, Zenon DEF Stands
  <2>3. QED
    BY <2>2, Zenon
<1>7. Executes'
  BY <1>1, <1>6 DEF Executes, n, j
<1>8. Stacked
  BY DEF IInv
<1>9. /\ frames[n].region = frames[o].region /\ Depth(frames[n]) = frames[o].sval
      /\ frames[n].rwith <= frames[o].rwith + Len(ws)
  <2>1. FrameFits(prog, frames, region, rwith, n)
    BY <1>1, <1>8, Zenon DEF Stacked, Nested, n
  <2>2. n \in 1..Len(frames)
    BY <1>1 DEF n
  <2>3. /\ frames[n].region = frames[o].region /\ Depth(frames[n]) = Depth(frames[o])
        /\ Depth(frames[o]) = frames[o].sval
        /\ frames[n].rwith <= frames[o].rwith + Len(prog[j].at.withs)
    BY <1>1, <1>2, <1>3, <2>1, <2>2, TopIs, Zenon
  <2>4. QED
    BY <1>2, <2>3, Zenon
<1>10. frames[n] \in Frames
  BY <1>1 DEF n
<1>11. frames[o].sval <= Now'.sval /\ frames[o].region <= Now'.region
  <2>1. Now'.region <= Len(region')
    BY <1>4
  <2>2. QED
    BY <1>1, <1>4, <2>1, LeveledAbove DEF o
<1>12. frames[n].rwith <= Now'.rwith
  BY <1>9 DEF Closable, o
<1>13. Above(Now', frames[n])
  BY <1>9, <1>11, <1>12 DEF Above
<1>14. \A k \in 1..frames[n].rwith : rwith'[k] = rwith[k]
  <2>1. Above(Now, frames[n])
    BY <1>8, <1>1 DEF Stacked, n
  <2>2. frames[n].rwith <= Len(rwith)
    BY <2>1 DEF Above, Now
  <2>3. frames[n].rwith \in Nat /\ frames[n].rwith <= Len(rwith')
    BY <1>4, <1>10, <1>12, FrameTyped
  <2> DEFINE a == frames[n].rwith
  <2>4. a \in Nat /\ a <= Len(rwith) /\ a <= Len(rwith') /\ Typed
    BY <2>2, <2>3 DEF IInv
  <2> HIDE DEF a
  <2>5. \A k \in 1..a : k \in 1..Len(rwith') /\ k <= Len(rwith)
    BY <2>4, SMTT(60) DEF Typed
  <2>6. QED
    BY <2>5 DEF a
<1>15. \A k \in 1..frames[n].region : region'[k] = region[k]
  BY <1>9 DEF o
<1>16. Nested(prog, frames, region', rwith')
  <2>1. Nested(prog, frames, region, rwith) /\ region \in Seq(Nat) /\ rwith \in Seq(Nat)
    BY <1>8 DEF Stacked, IInv, Typed
  <2>2. n \in 0..Len(frames) /\ n = Len(frames)
    BY <1>1 DEF n
  <2>3. \A k \in 1..n : frames[k] = frames[k]
    OBVIOUS
  <2>4. QED
    BY <1>1, <1>14, <1>15, <2>1, <2>2, <2>3, NestedCut, ZenonT(60)
<1>17. Stacked'
  <2>1. Nested(prog', frames', region', rwith')
    BY <1>16, Zenon
  <2>2. Above(Now', frames'[Len(frames')])
    BY <1>13 DEF n
  <2>3. QED
    BY <2>1, <2>2 DEF Stacked
<1>18. QED
  BY <1>7, <1>17 DEF Modes

(* An error leaves the function where it was, with all that was below it.    *)
LEMMA StepThrows ==
  ASSUME Verified, IInv, mode = "run", mode' = "error", prog' = prog, frames' = frames,
         blame' = pc, region' \in Seq(Nat), sval' \in Seq(Nat), rwith' = rwith, swith' \in Nat,
         frames[Own].region <= Len(region'), frames[Own].sval <= Len(sval'),
         \A k \in 1..frames[Own].region : region'[k] = region[k]
  PROVE  Stacked' /\ Modes'
<1> DEFINE o == Own
           n == Len(frames)
<1>1. /\ Fits(prog) /\ frames \in Seq(Frames) /\ o \in 1..n /\ n \in 1..n
      /\ pc \in 1..Len(prog) /\ Tries(frames, o, n, prog[pc].at.tries)
  BY RunsAt, Zenon
<1>2. Nested(prog, frames, region, rwith) /\ Above(Now, frames[n])
      /\ region \in Seq(Nat) /\ rwith \in Seq(Nat)
  BY <1>1 DEF IInv, Stacked, Typed, n
<1> HIDE DEF o
<1>3. Raises'
  <2>1. \E oo \in 1..Len(frames) : Tries(frames, oo, Len(frames), prog[pc].at.tries)
    BY <1>1
  <2>2. QED
    BY <1>1, <2>1, Zenon DEF Raises
<1> HIDE DEF n
<1>4. /\ frames[n].region = frames[o].region /\ Depth(frames[n]) = frames[o].sval
      /\ frames[n].rwith <= Len(rwith)
  <2>1. n \in 1..Len(frames) /\ FrameFits(prog, frames, region, rwith, n)
    BY <1>1, <1>2, Zenon DEF Nested, n
  <2>2. /\ frames[n].region = frames[o].region /\ Depth(frames[n]) = Depth(frames[o])
        /\ Depth(frames[o]) = frames[o].sval
        /\ frames[n].rwith <= frames[o].rwith + Len(prog[pc].at.withs)
    BY <1>1, <2>1, TopIs, Zenon
  <2>3. frames[n].rwith <= Len(rwith)
    BY <1>2 DEF Above, Now
  <2>4. QED
    BY <2>2, <2>3, Zenon
<1>5. Above(Now', frames'[n])
  BY <1>4 DEF Above, Now, o
<1>6. Nested(prog, frames, region', rwith')
  <2>1. \A k \in 1..frames[n].region : region'[k] = region[k]
    BY <1>4 DEF o
  <2>2. n \in 0..Len(frames) /\ n = Len(frames) /\ rwith' \in Seq(Nat)
    BY <1>1, <1>2 DEF n
  <2>3. QED
    BY <1>1, <1>2, <2>1, <2>2, NestedCut, ZenonT(60)
<1>7. Stacked'
  <2>1. Nested(prog', frames', region', rwith')
    BY <1>6, Zenon
  <2>2. QED
    BY <2>1, <1>5 DEF Stacked, n
<1>8. QED
  BY <1>3, <1>7 DEF Modes

LEMMA CountsSame ==
  ASSUME Counts, frames' = frames, recurse' = recurse, calls' = calls, Len(e') = Len(e)
  PROVE  Counts'
BY Zenon DEF Counts

(* Of e only the last flag changes, and stays clear where nothing sets it.   *)
LEMMA QuietMust ==
  ASSUME Typed, Quiet, e' \in {e, Must}
  PROVE  e' \in Seq(BOOLEAN) /\ Len(e') = Len(e) /\ Quiet'
<1>1. e \in Seq(BOOLEAN) /\ FALSE \in BOOLEAN
  BY DEF Typed
<1>2. /\ Must \in Seq(BOOLEAN) /\ Len(Must) = Len(e)
      /\ \A i \in 1..Len(e) : Must[i] = IF i = Len(e) THEN FALSE ELSE e[i]
  <2> DEFINE m == [e EXCEPT ![Len(e)] = FALSE]
  <2>1. /\ m \in Seq(BOOLEAN) /\ Len(m) = Len(e)
        /\ \A i \in 1..Len(e) : m[i] = IF i = Len(e) THEN FALSE ELSE e[i]
    BY <1>1, LastIs, Zenon
  <2>2. QED
    BY <2>1, Zenon DEF Must
<1>3. CASE e' = e
  BY <1>1, <1>3, Zenon DEF Quiet
<1>4. CASE e' = Must
  <2>1. ASSUME "quiet" \notin Features, NEW i \in 1..Len(e)
        PROVE  Must[i] = FALSE
    BY <1>2, <2>1, Zenon DEF Quiet
  <2>2. QED
    BY <1>2, <1>4, <2>1, Zenon DEF Quiet
<1>5. QED
  BY <1>3, <1>4

LEMMA LocalStep ==
  ASSUME Verified, IInv, mode = "run", mode' = "run", prog' = prog, frames' = frames,
         calls' = calls, recurse' = recurse, blame' = blame, e' \in {e, Must},
         region' \in Seq(Nat), sval' \in Seq(Nat), rwith' \in Seq(Nat), swith' \in Nat,
         NEW s \in Seq(Levels), Len(s) > 0, NEW ws,
         Leads(prog, Found(prog), pc', s, prog[pc].at.tries, ws),
         Leveled(region', frames[Own], s, Now'), Closable(rwith', frames[Own], ws, Now'),
         \A k \in 1..frames[Own].region : region'[k] = region[k],
         \A k \in 1..Len(rwith') : k <= Len(rwith) => rwith'[k] = rwith[k]
  PROVE  IInv'
<1>1. Typed /\ Counts /\ Quiet
  BY DEF IInv
<1>2. e' \in Seq(BOOLEAN) /\ Len(e') = Len(e) /\ Quiet'
  BY <1>1, QuietMust, Zenon
<1>3. Stacked' /\ Modes'
  BY StepOn, Zenon
<1>4. Counts'
  BY <1>1, <1>2, CountsSame, Zenon
<1>5. pc' \in Nat
  BY DEF Leads
<1>6. Typed'
  BY <1>1, <1>2, <1>5 DEF Typed
<1>7. QED
  BY <1>2, <1>3, <1>4, <1>6, Zenon DEF IInv

LEMMA LocalThrow ==
  ASSUME Verified, IInv, mode = "run", Throw, prog' = prog, frames' = frames,
         recurse' = recurse, region' \in Seq(Nat), sval' \in Seq(Nat), rwith' = rwith,
         swith' \in Nat, frames[Own].region <= Len(region'), frames[Own].sval <= Len(sval'),
         \A k \in 1..frames[Own].region : region'[k] = region[k]
  PROVE  IInv'
<1>1. Typed /\ Counts /\ Quiet
  BY DEF IInv
<1>2. mode' = "error" /\ blame' = pc /\ pc' = pc /\ e' = e /\ calls' = calls
  BY DEF Throw
<1>3. Stacked' /\ Modes'
  BY <1>2, StepThrows, Zenon
<1>4. Counts' /\ Quiet'
  BY <1>1, <1>2, CountsSame, Zenon DEF Quiet
<1>5. Typed'
  BY <1>1, <1>2 DEF Typed
<1>6. QED
  BY <1>3, <1>4, <1>5, Zenon DEF IInv

(* Instructions that leave the stacks alone.                                 *)
LEMMA StepSame ==
  ASSUME Verified, IInv, mode = "run", mode' = "run", UNCHANGED <<prog, stacks, calls, blame>>,
         e' \in {e, Must},
         \/ pc' \in Goes(prog[pc])
         \/ /\ pc' \in Follows(prog[pc], pc)
            /\ prog[pc].op \in {"eval", "mov", "iff", "ift", "stkge"}
  PROVE  IInv'
<1> DEFINE q == prog[pc]
           s == Found(prog)[pc]
<1>1. /\ Fits(prog) /\ pc \in 1..Len(prog) /\ Leveled(region, frames[Own], s, Now)
      /\ Closable(rwith, frames[Own], q.at.withs, Now)
  BY RunsAt, Zenon
<1>2. s \in Seq(Levels) /\ Len(s) > 0
  BY <1>1, CodeAt
<1>3. /\ frames' = frames /\ region' = region /\ sval' = sval /\ rwith' = rwith
      /\ swith' = swith /\ recurse' = recurse /\ calls' = calls /\ blame' = blame
      /\ prog' = prog
  BY DEF stacks
<1>4. Now' = Now
  BY <1>3 DEF Now
<1>5. region' \in Seq(Nat) /\ sval' \in Seq(Nat) /\ rwith' \in Seq(Nat) /\ swith' \in Nat
  BY <1>3 DEF IInv, Typed
<1>6. Leads(prog, Found(prog), pc', s, q.at.tries, q.at.withs)
  <2>1. CASE pc' \in Goes(q)
    BY <1>1, <2>1, LeadsTo, Zenon
  <2>2. CASE pc' \in Follows(q, pc) /\ q.op \in {"eval", "mov", "iff", "ift", "stkge"}
    <3>1. Leads(prog, Found(prog), pc', After(s, q), TriesAfter(q), WithsAfter(q))
      BY <1>1, <2>2, LeadsTo, Zenon
    <3> HIDE DEF q, s
    <3>2. After(s, q) = s
      BY <2>2 DEF After, Taken, Spreads
    <3>3. TriesAfter(q) = q.at.tries /\ WithsAfter(q) = q.at.withs
      BY <2>2 DEF TriesAfter, WithsAfter
    <3>4. QED
      BY <3>1, <3>2, <3>3
  <2>3. QED
    BY <2>1, <2>2
<1> HIDE DEF s, q
<1>7. /\ Leveled(region', frames[Own], s, Now')
      /\ Closable(rwith', frames[Own], q.at.withs, Now')
  BY <1>1, <1>3, <1>4, Zenon
<1>8. /\ \A k \in 1..frames[Own].region : region'[k] = region[k]
      /\ \A k \in 1..Len(rwith') : k <= Len(rwith) => rwith'[k] = rwith[k]
  BY <1>3, Zenon
<1>9. QED
  BY <1>2, <1>3, <1>5, <1>6, <1>7, <1>8, LocalStep, Zenon DEF q

LEMMA RunsAbove ==
  ASSUME Verified, IInv, mode = "run"
  PROVE  /\ region \in Seq(Nat) /\ sval \in Seq(Nat) /\ rwith \in Seq(Nat) /\ swith \in Nat
         /\ Found(prog)[pc] \in Seq(Levels) /\ Len(Found(prog)[pc]) \in Nat \ {0}
         /\ frames[Own].region \in Nat /\ frames[Own].region <= Len(region)
         /\ frames[Own].sval \in Nat /\ frames[Own].sval <= Len(sval)
         /\ Len(region) = frames[Own].region + Len(Found(prog)[pc]) - 1
<1> DEFINE s == Found(prog)[pc]
<1>1. region \in Seq(Nat) /\ sval \in Seq(Nat) /\ rwith \in Seq(Nat) /\ swith \in Nat /\ Typed
  BY DEF IInv, Typed
<1>2. /\ Fits(prog) /\ pc \in 1..Len(prog) /\ frames[Own] \in Frames
      /\ Leveled(region, frames[Own], s, Now)
  BY RunsAt, Zenon
<1>3. s \in Seq(Levels) /\ Len(s) \in Nat \ {0}
  BY <1>2, CodeAt, Zenon
<1> HIDE DEF s
<1>4. Now \in Extent /\ Now.region = Len(region) /\ Now.sval = Len(sval)
  BY <1>1, NowTyped
<1>5. Now.region <= Len(region) /\ Len(s) > 0
  BY <1>1, <1>3, <1>4
<1>6. /\ frames[Own].sval <= Now.sval /\ frames[Own].region <= Now.region
      /\ Now.region = frames[Own].region + Len(s) - 1
  <2> DEFINE b == frames[Own]
             x == Now
  <2>1. /\ region \in Seq(Nat) /\ b \in Frames /\ s \in Seq(Levels) /\ Len(s) > 0
        /\ x \in Extent /\ Leveled(region, b, s, x) /\ x.region <= Len(region)
    BY <1>1, <1>2, <1>3, <1>4, <1>5, Zenon
  <2> HIDE DEF b, x
  <2>2. b.sval <= x.sval /\ b.region <= x.region /\ x.region = b.region + Len(s) - 1
    BY ONLY <2>1, LeveledAbove
  <2>3. QED
    BY <2>2 DEF b, x
<1>7. frames[Own].region \in Nat /\ frames[Own].sval \in Nat
  BY <1>2, FrameTyped, Zenon
<1>8. QED
  BY <1>1, <1>3, <1>4, <1>6, <1>7 DEF s

LEMMA ThrowSame ==
  ASSUME Verified, IInv, mode = "run", Throw, UNCHANGED <<prog, stacks>>
  PROVE  IInv'
<1>1. /\ frames' = frames /\ region' = region /\ sval' = sval /\ rwith' = rwith
      /\ swith' = swith /\ recurse' = recurse /\ prog' = prog
  BY DEF stacks
<1>2. region \in Seq(Nat) /\ sval \in Seq(Nat) /\ rwith \in Seq(Nat) /\ swith \in Nat /\ Typed
  BY DEF IInv, Typed
<1>3. frames[Own].region <= Len(region) /\ frames[Own].sval <= Len(sval)
  BY RunsAbove, Zenon
<1>4. QED
  BY <1>1, <1>2, <1>3, LocalThrow

LEMMA EvalKeeps ==
  ASSUME Verified, IInv, Eval PROVE IInv'
<1>1. mode = "run" /\ prog[pc].op = "eval" /\ UNCHANGED <<prog, stacks>>
  BY DEF Eval, On, Op, At
<1>2. CASE Next1 /\ e' \in {e, Must} /\ UNCHANGED <<calls, blame>>
  <2>1. pc' \in Follows(prog[pc], pc) /\ mode' = "run"
    BY <1>1, <1>2 DEF Next1, Follows
  <2>2. QED
    BY <1>1, <1>2, <2>1, StepSame
<1>3. CASE Throw
  BY <1>1, <1>3, ThrowSame
<1>4. QED
  BY <1>2, <1>3, Zenon DEF Eval

LEMMA MovKeeps ==
  ASSUME Verified, IInv, Mov PROVE IInv'
<1>1. mode = "run" /\ prog[pc].op = "mov"
  BY DEF Mov, On, Op, At
<1>2. /\ UNCHANGED <<prog, stacks, calls, blame>> /\ e' \in {e, Must}
      /\ pc' = pc + 1 /\ mode' = "run"
  BY DEF Mov, Next1, Unchanged
<1>3. pc' \in Follows(prog[pc], pc)
  BY <1>1, <1>2 DEF Follows
<1>4. QED
  BY <1>1, <1>2, <1>3, StepSame

LEMMA JmpKeeps ==
  ASSUME Verified, IInv, Jmp PROVE IInv'
<1>1. mode = "run" /\ prog[pc].op = "jmp"
  BY DEF Jmp, On, Op, At
<1>2. /\ UNCHANGED <<prog, stacks, calls, blame>> /\ e' \in {e, Must}
      /\ pc' = prog[pc].to /\ mode' = "run"
  BY DEF Jmp, Unchanged, At
<1>3. pc' \in Goes(prog[pc])
  BY <1>1, <1>2 DEF Goes
<1>4. QED
  BY <1>1, <1>2, <1>3, StepSame

LEMMA BranchKeeps ==
  ASSUME Verified, IInv, Branch PROVE IInv'
<1>1. mode = "run" /\ prog[pc].op \in {"iff", "ift"} /\ UNCHANGED <<prog, stacks>>
  BY DEF Branch, On, Op, At
<1>2. CASE /\ pc' \in {pc + 1, At(pc).to} /\ mode' = "run" /\ ret' = NoRet
           /\ UNCHANGED <<e, calls, blame>>
  <2>1. pc' \in Goes(prog[pc]) \/ pc' \in Follows(prog[pc], pc)
    BY <1>1, <1>2 DEF Goes, Follows, At
  <2>2. QED
    BY <1>1, <1>2, <2>1, StepSame
<1>3. CASE Throw
  BY <1>1, <1>3, ThrowSame
<1>4. QED
  BY <1>2, <1>3, Zenon DEF Branch

LEMMA StkgeKeeps ==
  ASSUME Verified, IInv, Stkge PROVE IInv'
<1>1. mode = "run" /\ prog[pc].op = "stkge" /\ UNCHANGED <<prog, stacks>>
  BY DEF Stkge, On, Op, At
<1>2. CASE Next1 /\ UNCHANGED <<e, calls, blame>>
  <2>1. pc' \in Follows(prog[pc], pc) /\ mode' = "run"
    BY <1>1, <1>2 DEF Next1, Follows
  <2>2. QED
    BY <1>1, <1>2, <2>1, StepSame
<1>3. CASE Throw
  BY <1>1, <1>3, ThrowSame
<1>4. QED
  BY <1>2, <1>3, Zenon DEF Stkge

(* What the proofs about an instruction start from.                          *)
LEMMA RunsWith ==
  ASSUME Verified, IInv, mode = "run", NEW op, prog[pc].op = op
  PROVE  /\ Fits(prog) /\ pc \in 1..Len(prog) /\ Typed /\ frames[Own] \in Frames
         /\ Finds(prog[pc], Found(prog)[pc]) /\ prog[pc].at.withs \in Seq(Nat)
         /\ Now \in Extent /\ Now.region = Len(region) /\ Now.sval = Len(sval)
         /\ Now.rwith = Len(rwith) /\ Now.swith = swith
         /\ \A j \in Follows(prog[pc], pc) :
              Leads(prog, Found(prog), j, After(Found(prog)[pc], prog[pc]),
                    TriesAfter(prog[pc]), WithsAfter(prog[pc]))
<1>1. Fits(prog) /\ pc \in 1..Len(prog) /\ frames[Own] \in Frames
  BY RunsAt, Zenon
<1>2. Typed
  BY DEF IInv
<1>3. Finds(prog[pc], Found(prog)[pc]) /\ prog[pc].at.withs \in Seq(Nat)
  BY <1>1, CodeAt, Zenon
<1>4. /\ Now \in Extent /\ Now.region = Len(region) /\ Now.sval = Len(sval)
      /\ Now.rwith = Len(rwith) /\ Now.swith = swith
  BY <1>2, NowTyped, Zenon
<1>5. QED
  BY <1>1, <1>2, <1>3, <1>4, LeadsTo, Zenon

LEMMA WithsSame ==
  ASSUME Verified, IInv, mode = "run", rwith' = rwith, Now' \in Extent,
         Now'.rwith = Now.rwith, Now'.swith = Now.swith
  PROVE  Closable(rwith', frames[Own], prog[pc].at.withs, Now')
<1>1. /\ frames[Own] \in Frames /\ prog[pc].at.withs \in Seq(Nat) /\ Now \in Extent
      /\ Closable(rwith, frames[Own], prog[pc].at.withs, Now) /\ rwith \in Seq(Nat)
  BY RunsWith, RunsAt, RunsAbove, Zenon
<1>2. \A k \in 1..Now.rwith : rwith'[k] = rwith[k]
  OBVIOUS
<1>3. QED
  BY <1>1, <1>2, ClosableSame, Zenon

LEMMA PushKeeps ==
  ASSUME Verified, IInv, Push PROVE IInv'
<1> DEFINE q == prog[pc]
           s == Found(prog)[pc]
           b == frames[Own]
<1>1. mode = "run" /\ q.op = "push"
  BY DEF Push, On, Op, At
<1>2. /\ prog' = prog /\ frames' = frames /\ calls' = calls /\ recurse' = recurse
      /\ blame' = blame /\ e' \in {e, Must} /\ region' = region /\ rwith' = rwith
      /\ swith' = swith /\ sval' = Append(sval, recurse) /\ pc' = pc + 1 /\ mode' = "run"
  BY DEF Push, Next1
<1>3. /\ region \in Seq(Nat) /\ sval \in Seq(Nat) /\ rwith \in Seq(Nat) /\ swith \in Nat
      /\ s \in Seq(Levels) /\ Len(s) \in Nat \ {0}
  BY <1>1, RunsAbove, Zenon
<1>4. /\ Now \in Extent /\ Now.region = Len(region) /\ Now.sval = Len(sval) /\ Typed
      /\ Now.rwith = Len(rwith) /\ Now.swith = swith /\ b \in Frames
      /\ \A j \in Follows(q, pc) : Leads(prog, Found(prog), j, After(s, q), TriesAfter(q), WithsAfter(q))
  BY <1>1, RunsWith, Zenon
<1>5. Leveled(region, b, s, Now)
  BY <1>1, RunsAt, Zenon
<1> HIDE DEF q, s, b
<1>6. sval' \in Seq(Nat) /\ Len(sval') = Len(sval) + 1
  BY <1>2, <1>3, <1>4 DEF Typed
<1>7. /\ Now' \in Extent /\ Now'.region = Now.region /\ Now'.sval = Now.sval - (-1)
      /\ Now'.rwith = Now.rwith /\ Now'.swith = Now.swith
  BY <1>2, <1>3, <1>4, <1>6, NowTypedNext
<1>8. Leads(prog, Found(prog), pc', Fewer(s, -1), q.at.tries, q.at.withs)
  <2>1. pc' \in Follows(q, pc)
    BY <1>1, <1>2 DEF Follows
  <2>2. After(s, q) = Fewer(s, -1) /\ TriesAfter(q) = q.at.tries /\ WithsAfter(q) = q.at.withs
    BY <1>1 DEF After, TriesAfter, WithsAfter
  <2>3. QED
    BY <1>4, <2>1, <2>2
<1>9. /\ Fewer(s, -1) \in Seq(Levels) /\ Len(Fewer(s, -1)) > 0
      /\ Leveled(region', b, Fewer(s, -1), Now')
  <2>1. -1 <= s[Len(s)].n /\ Len(s) > 0
    BY <1>3, LevelsTyped, SMTT(60)
  <2>2. Fewer(s, -1) \in Seq(Levels) /\ Len(Fewer(s, -1)) > 0
    BY <1>3, <2>1, FewerIs
  <2>3. Now.region <= Len(region) /\ -1 \in Int
    BY <1>3, <1>4
  <2>4. Leveled(region, b, Fewer(s, -1), Now')
    BY <1>3, <1>4, <1>5, <1>7, <2>1, <2>3, LeveledFewer, Zenon
  <2>5. QED
    BY <1>2, <2>2, <2>4
<1>10. Closable(rwith', b, q.at.withs, Now')
  BY <1>1, <1>2, <1>7, WithsSame, Zenon DEF b, q
<1>11. /\ region' \in Seq(Nat) /\ rwith' \in Seq(Nat) /\ swith' \in Nat
       /\ \A k \in 1..b.region : region'[k] = region[k]
       /\ \A k \in 1..Len(rwith') : k <= Len(rwith) => rwith'[k] = rwith[k]
  BY <1>2, <1>3, Zenon
<1>12. QED
  BY <1>1, <1>2, <1>6, <1>8, <1>9, <1>10, <1>11, LocalStep, Zenon DEF q, b

LEMMA RpushKeeps ==
  ASSUME Verified, IInv, Rpush PROVE IInv'
<1> DEFINE q == prog[pc]
           s == Found(prog)[pc]
           b == frames[Own]
<1>1. mode = "run" /\ q.op = "pushf"
  BY DEF Rpush, On, Op, At
<1>2. /\ prog' = prog /\ frames' = frames /\ calls' = calls /\ recurse' = recurse
      /\ blame' = blame /\ e' \in {e, Must} /\ region' = Append(region, Len(sval))
      /\ rwith' = rwith /\ swith' = swith /\ sval' = sval /\ pc' = pc + 1 /\ mode' = "run"
  BY DEF Rpush, Next1, Unchanged
<1>3. /\ region \in Seq(Nat) /\ sval \in Seq(Nat) /\ rwith \in Seq(Nat) /\ swith \in Nat
      /\ s \in Seq(Levels) /\ Len(s) \in Nat \ {0} /\ b.region \in Nat /\ b.region <= Len(region)
  BY <1>1, RunsAbove, Zenon
<1>4. /\ Now \in Extent /\ Now.region = Len(region) /\ Now.sval = Len(sval)
      /\ Now.rwith = Len(rwith) /\ Now.swith = swith /\ b \in Frames
      /\ \A j \in Follows(q, pc) : Leads(prog, Found(prog), j, After(s, q), TriesAfter(q), WithsAfter(q))
  BY <1>1, RunsWith, Zenon
<1>5. Leveled(region, b, s, Now)
  BY <1>1, RunsAt, Zenon
<1> HIDE DEF q, s, b
<1>6. /\ region' \in Seq(Nat) /\ Len(region') = Len(region) + 1
      /\ \A k \in 1..Len(region) : region'[k] = region[k]
  <2>1. Len(sval) \in Nat
    BY <1>3
  <2>2. QED
    BY ONLY <1>2, <1>3, <2>1, AppendIs
<1>7. /\ Now' \in Extent /\ Now'.region = Now.region + 1 /\ Now'.sval = Now.sval
      /\ Now'.rwith = Now.rwith /\ Now'.swith = Now.swith
  BY <1>2, <1>3, <1>4, <1>6, NowTypedNext
<1>8. Leads(prog, Found(prog), pc', Append(s, Exactly(0)), q.at.tries, q.at.withs)
  <2>1. pc' \in Follows(q, pc)
    BY <1>1, <1>2 DEF Follows
  <2>2. /\ After(s, q) = Append(s, Exactly(0))
        /\ TriesAfter(q) = q.at.tries /\ WithsAfter(q) = q.at.withs
    BY <1>1 DEF After, TriesAfter, WithsAfter
  <2>3. QED
    BY <1>4, <2>1, <2>2
<1>9. /\ Append(s, Exactly(0)) \in Seq(Levels) /\ Len(Append(s, Exactly(0))) > 0
      /\ Leveled(region', b, Append(s, Exactly(0)), Now')
  <2>1. Len(s) > 0
    BY <1>3
  <2>2. /\ Append(s, Exactly(0)) \in Seq(Levels)
        /\ Leveled(Append(region, Now.sval), b, Append(s, Exactly(0)), Now')
    BY <1>3, <1>4, <1>5, <1>7, <2>1, LeveledOpen, Zenon
  <2>3. Len(Append(s, Exactly(0))) > 0
    BY <1>3
  <2>4. QED
    BY <1>2, <1>4, <2>2, <2>3
<1>10. Closable(rwith', b, q.at.withs, Now')
  BY <1>1, <1>2, <1>7, WithsSame, Zenon DEF b, q
<1>11. \A k \in 1..b.region : region'[k] = region[k]
  <2>1. \A k \in 1..b.region : k \in 1..Len(region)
    BY <1>3
  <2>2. QED
    BY <1>6, <2>1, Zenon
<1>12. /\ sval' \in Seq(Nat) /\ rwith' \in Seq(Nat) /\ swith' \in Nat
       /\ \A k \in 1..Len(rwith') : k <= Len(rwith) => rwith'[k] = rwith[k]
  BY <1>2, <1>3, Zenon
<1>13. QED
  BY <1>1, <1>2, <1>6, <1>8, <1>9, <1>10, <1>11, <1>12, LocalStep, Zenon DEF q, b

(* A region that is closed is the function's own.                            *)
LEMMA RegionClosed ==
  ASSUME NEW r \in Seq(Nat), NEW v \in Seq(Nat), NEW b \in Frames, NEW s \in Seq(Levels),
         NEW x \in Extent, Leveled(r, b, s, x), Len(s) > 1,
         x.region = Len(r), x.sval = Len(v)
  PROVE  /\ Top(r) \in Nat /\ Top(r) <= Len(v) /\ Top(r) = r[x.region]
         /\ b.sval <= Top(r) /\ Len(r) > b.region /\ Len(r) > 0
         /\ Top(r) + s[Len(s)].n <= Len(v)
         /\ s[Len(s)].is = "exactly" => Top(r) + s[Len(s)].n = Len(v)
<1> DEFINE n == Len(s)
           a == b.region
           t == Top(r)
<1>1. /\ n \in Nat /\ a \in Nat /\ x.region = a + n - 1 /\ Len(r) \in Nat /\ Len(v) \in Nat
      /\ b.sval \in Nat
  BY FrameTyped DEF Leveled
<1>2. n > 1 /\ x.region = Len(r)
  OBVIOUS
<1>3. x.region <= Len(r)
  BY ONLY <1>1, <1>2
<1>4. From(r, b, n) = t /\ Upto(r, b, s, x, n) = Len(v)
  <2>1. n # 1
    <3>1. \A k \in Nat : k > 1 => k # 1
      OBVIOUS
    <3>2. QED
      BY <1>1, <1>2, <3>1, Zenon
  <2>2. a + n - 1 = Len(r)
    BY <1>1, <1>2, Zenon
  <2>3. From(r, b, n) = r[a + n - 1] /\ Upto(r, b, s, x, n) = x.sval
    BY <2>1, Zenon DEF From, Upto
  <2>4. QED
    BY <2>2, <2>3, Zenon DEF Top
<1>5. n \in 1..n /\ n > 0
  BY <1>1, <1>2
<1>6. t \in Nat /\ b.sval <= t /\ t + s[n].n <= Len(v)
  BY <1>3, <1>4, <1>5, BoundsTyped
<1>7. s[n].n \in Nat
  BY <1>5, LevelsTyped
<1>8. s[n].is = "exactly" => Len(v) - t = s[n].n
  BY <1>4, <1>5 DEF Leveled
<1>9. t = r[x.region]
  BY <1>2 DEF Top
<1> HIDE DEF n, a, t
<1>10. t <= Len(v) /\ (s[n].is = "exactly" => t + s[n].n = Len(v))
  BY ONLY <1>1, <1>6, <1>7, <1>8
<1>11. Len(r) > a /\ Len(r) > 0
  BY <1>1, <1>2
<1>12. QED
  BY <1>6, <1>9, <1>10, <1>11, Zenon DEF t, n, a

LEMMA RpopKeeps ==
  ASSUME Verified, IInv, Rpop PROVE IInv'
<1> DEFINE q == prog[pc]
           s == Found(prog)[pc]
           b == frames[Own]
<1>1. mode = "run" /\ q.op = "popf"
  BY DEF Rpop, On, Op, At
<1>2. /\ prog' = prog /\ frames' = frames /\ calls' = calls /\ recurse' = recurse
      /\ blame' = blame /\ e' \in {e, Must} /\ region' = Front(region)
      /\ rwith' = rwith /\ swith' = swith /\ sval' = Cut(sval, Top(region))
      /\ pc' = pc + 1 /\ mode' = "run"
  BY DEF Rpop, Next1, Unchanged
<1>3. /\ region \in Seq(Nat) /\ sval \in Seq(Nat) /\ rwith \in Seq(Nat) /\ swith \in Nat
      /\ s \in Seq(Levels) /\ Len(s) \in Nat \ {0}
  BY <1>1, RunsAbove, Zenon
<1>4. /\ Now \in Extent /\ Now.region = Len(region) /\ Now.sval = Len(sval)
      /\ Now.rwith = Len(rwith) /\ Now.swith = swith /\ b \in Frames /\ Finds(q, s)
      /\ \A j \in Follows(q, pc) : Leads(prog, Found(prog), j, After(s, q), TriesAfter(q), WithsAfter(q))
  BY <1>1, RunsWith, Zenon
<1>5. Leveled(region, b, s, Now)
  BY <1>1, RunsAt, Zenon
<1> HIDE DEF q, s, b
<1>6. Len(s) > 1
  BY <1>1, <1>4 DEF Finds
<1>7. /\ Top(region) \in Nat /\ Top(region) <= Len(sval) /\ Top(region) = region[Now.region]
      /\ b.sval <= Top(region) /\ Len(region) > b.region /\ Len(region) > 0
      /\ Top(region) + s[Len(s)].n <= Len(sval)
      /\ s[Len(s)].is = "exactly" => Top(region) + s[Len(s)].n = Len(sval)
  BY <1>3, <1>4, <1>5, <1>6, RegionClosed, ZenonT(60)
<1>8. /\ region' \in Seq(Nat) /\ Len(region') = Len(region) - 1
      /\ \A k \in 1..(Len(region) - 1) : region'[k] = region[k]
      /\ sval' \in Seq(Nat) /\ Len(sval') = Top(region)
  <2>1. /\ region' \in Seq(Nat) /\ Len(region') = Len(region) - 1
        /\ \A k \in 1..(Len(region) - 1) : region'[k] = region[k]
    BY ONLY <1>2, <1>3, <1>7, FrontIs
  <2>2. sval' \in Seq(Nat) /\ Len(sval') = Top(region)
    BY ONLY <1>2, <1>3, <1>7, CutIs
  <2>3. QED
    BY <2>1, <2>2
<1>9. /\ Now' \in Extent /\ Now'.region = Now.region - 1 /\ Now'.sval = region[Now.region]
      /\ Now'.rwith = Now.rwith /\ Now'.swith = Now.swith
  BY <1>2, <1>3, <1>4, <1>7, <1>8, NowTypedNext
<1>10. Leads(prog, Found(prog), pc', Front(s), q.at.tries, q.at.withs)
  <2>1. pc' \in Follows(q, pc)
    BY <1>1, <1>2 DEF Follows
  <2>2. After(s, q) = Front(s) /\ TriesAfter(q) = q.at.tries /\ WithsAfter(q) = q.at.withs
    BY <1>1 DEF After, TriesAfter, WithsAfter
  <2>3. QED
    BY <1>4, <2>1, <2>2
<1>11. /\ Front(s) \in Seq(Levels) /\ Len(Front(s)) > 0
       /\ Leveled(region', b, Front(s), Now')
  <2>1. Now.region <= Len(region)
    BY <1>3, <1>4
  <2>2. /\ Front(s) \in Seq(Levels) /\ Len(Front(s)) = Len(s) - 1
        /\ Leveled(region, b, Front(s), Now')
    BY <1>3, <1>4, <1>5, <1>6, <1>9, <2>1, LeveledClose, Zenon
  <2>3. Len(Front(s)) > 0
    BY ONLY <1>3, <1>6, <2>2
  <2>4. \A k \in 1..Now'.region : region'[k] = region[k]
    BY <1>4, <1>8, <1>9
  <2>5. Leveled(region', b, Front(s), Now')
    BY <1>3, <1>4, <1>8, <1>9, <2>2, <2>3, <2>4, LeveledSame, Zenon
  <2>6. QED
    BY <2>2, <2>3, <2>5
<1>12. Closable(rwith', b, q.at.withs, Now')
  BY <1>1, <1>2, <1>9, WithsSame, Zenon DEF b, q
<1>13. \A k \in 1..b.region : region'[k] = region[k]
  <2>1. b.region \in Nat /\ Len(region) \in Nat /\ b.region < Len(region)
    BY <1>3, <1>4, <1>7, FrameTyped
  <2>2. \A k \in 1..b.region : k \in 1..(Len(region) - 1)
    BY ONLY <2>1
  <2>3. QED
    BY <1>8, <2>2, Zenon
<1>14. /\ rwith' \in Seq(Nat) /\ swith' \in Nat
       /\ \A k \in 1..Len(rwith') : k <= Len(rwith) => rwith'[k] = rwith[k]
  BY <1>2, <1>3, Zenon
<1>15. QED
  BY <1>1, <1>2, <1>8, <1>10, <1>11, <1>12, <1>13, <1>14, LocalStep, Zenon DEF q, b

-----------------------------------------------------------------------------
(* With blocks.                                                              *)

LEMMA PilesNone ==
  ASSUME Plain, NEW n, NEW d, NEW l \in Piles(n, d)
  PROVE  l.region = <<>> /\ l.sval = <<>>
BY DEF Plain, Piles

LEMMA WithsStep ==
  ASSUME Verified, IInv, mode = "run", prog[pc].op \in {"wpush", "pushw", "wpop"},
         pc' = pc + 1, mode' = "run", prog' = prog, frames' = frames, calls' = calls,
         recurse' = recurse, blame' = blame, e' \in {e, Must},
         region' = region, sval' = sval, rwith' \in Seq(Nat), swith' \in Nat,
         Closable(rwith', frames[Own], WithsAfter(prog[pc]), Now'),
         \A k \in 1..Len(rwith') : k <= Len(rwith) => rwith'[k] = rwith[k]
  PROVE  IInv'
<1> DEFINE q == prog[pc]
           s == Found(prog)[pc]
           b == frames[Own]
           ws == WithsAfter(q)
<1>1. /\ region \in Seq(Nat) /\ sval \in Seq(Nat) /\ s \in Seq(Levels) /\ Len(s) \in Nat \ {0}
      /\ Leveled(region, b, s, Now) /\ b \in Frames
  BY RunsAbove, RunsAt, Zenon
<1>2. /\ Now \in Extent /\ Now.region = Len(region) /\ Now.sval = Len(sval)
      /\ \A j \in Follows(q, pc) : Leads(prog, Found(prog), j, After(s, q), TriesAfter(q), ws)
  BY RunsWith, Zenon
<1>3. q.op \in {"wpush", "pushw", "wpop"}
  OBVIOUS
<1>4. region' \in Seq(Nat) /\ sval' \in Seq(Nat)
  BY <1>1
<1>5. Now' \in Extent /\ Now'.region = Len(region') /\ Now'.sval = Len(sval')
  BY <1>4, NowTypedNext, Zenon
<1>6. Now'.region = Now.region /\ Now'.sval = Now.sval
  BY <1>2, <1>5, Zenon
<1> HIDE DEF q, s, b, ws
<1>7. Leads(prog, Found(prog), pc', s, q.at.tries, ws)
  <2>1. pc' \in Follows(q, pc)
    BY <1>3 DEF Follows
  <2>2. After(s, q) = s /\ TriesAfter(q) = q.at.tries
    BY <1>3 DEF After, TriesAfter, Spreads, Taken
  <2>3. QED
    BY <1>2, <2>1, <2>2
<1>8. Len(s) > 0
  BY ONLY <1>1
<1>9. Leveled(region', b, s, Now')
  <2>1. \A k \in 1..Now.region : region'[k] = region[k]
    OBVIOUS
  <2>2. b.region = b.region /\ b.sval = b.sval
    OBVIOUS
  <2>3. QED
    BY <1>1, <1>2, <1>4, <1>5, <1>6, <1>8, <2>1, <2>2, LeveledSame, Zenon
<1>10. \A k \in 1..b.region : region'[k] = region[k]
  OBVIOUS
<1>11. QED
  BY <1>1, <1>4, <1>7, <1>8, <1>9, <1>10, LocalStep, Zenon DEF q, s, b, ws

LEMMA WpushKeeps ==
  ASSUME Verified, IInv, Wpush PROVE IInv'
<1> DEFINE q == prog[pc]
           b == frames[Own]
<1>1. mode = "run" /\ q.op = "wpush"
  BY DEF Wpush, On, Op, At
<1>2. /\ prog' = prog /\ frames' = frames /\ calls' = calls /\ recurse' = recurse
      /\ blame' = blame /\ e' \in {e, Must} /\ region' = region /\ sval' = sval
      /\ rwith' = Append(rwith, swith) /\ swith' = swith /\ pc' = pc + 1 /\ mode' = "run"
  BY DEF Wpush, Next1, Unchanged
<1>3. /\ region \in Seq(Nat) /\ sval \in Seq(Nat) /\ rwith \in Seq(Nat) /\ swith \in Nat
  BY <1>1, RunsAbove, Zenon
<1>4. /\ Now \in Extent /\ Now.rwith = Len(rwith) /\ Now.swith = swith /\ b \in Frames
      /\ q.at.withs \in Seq(Nat)
  BY <1>1, RunsWith, Zenon
<1>5. Closable(rwith, b, q.at.withs, Now)
  BY <1>1, RunsAt, Zenon
<1> HIDE DEF q, b
<1>6. /\ rwith' \in Seq(Nat) /\ Len(rwith') = Len(rwith) + 1
      /\ \A k \in 1..Len(rwith) : rwith'[k] = rwith[k]
  BY ONLY <1>2, <1>3, AppendIs
<1>7. region' \in Seq(Nat) /\ sval' \in Seq(Nat) /\ swith' \in Nat
  BY <1>2, <1>3
<1>8. Now' \in Extent /\ Now'.rwith = Len(rwith') /\ Now'.swith = swith'
  BY <1>6, <1>7, NowTypedNext, Zenon
<1>9. Now'.rwith = Now.rwith + 1 /\ Now'.swith = Now.swith
  BY <1>2, <1>4, <1>6, <1>8, Zenon
<1>10. Closable(rwith', b, Append(q.at.withs, 0), Now')
  BY <1>2, <1>3, <1>4, <1>5, <1>8, <1>9, ClosablePush, Zenon
<1>11. WithsAfter(q) = Append(q.at.withs, 0)
  BY <1>1 DEF WithsAfter
<1>12. \A k \in 1..Len(rwith') : k <= Len(rwith) => rwith'[k] = rwith[k]
  BY ONLY <1>3, <1>6
<1>13. q.op \in {"wpush", "pushw", "wpop"}
  BY <1>1
<1>14. QED
  BY <1>1, <1>2, <1>6, <1>7, <1>10, <1>11, <1>12, <1>13, WithsStep, Zenon DEF q, b

LEMMA StwithKeeps ==
  ASSUME Verified, Plain, IInv, Stwith PROVE IInv'
<1> DEFINE q == prog[pc]
           b == frames[Own]
<1>1. mode = "run" /\ q.op = "pushw"
  BY DEF Stwith, On, Op, At
<1>2. /\ prog' = prog /\ frames' = frames /\ recurse' = recurse /\ rwith' = rwith
      /\ swith' = swith + 1
      /\ \E l \in Piles(1, Len(sval)) : region' = region \o l.region /\ sval' = sval \o l.sval
      /\ \/ Next1 /\ e' = Must /\ UNCHANGED <<calls, blame>>
         \/ Throw
  BY DEF Stwith
<1>3. /\ region \in Seq(Nat) /\ sval \in Seq(Nat) /\ rwith \in Seq(Nat) /\ swith \in Nat
      /\ b.region \in Nat /\ b.region <= Len(region) /\ b.sval \in Nat /\ b.sval <= Len(sval)
  BY <1>1, RunsAbove, Zenon
<1>4. /\ Now \in Extent /\ Now.rwith = Len(rwith) /\ Now.swith = swith /\ b \in Frames
      /\ q.at.withs \in Seq(Nat) /\ Finds(q, Found(prog)[pc])
  BY <1>1, RunsWith, Zenon
<1>5. Closable(rwith, b, q.at.withs, Now)
  BY <1>1, RunsAt, Zenon
<1> HIDE DEF q, b
<1>6. region' = region /\ sval' = sval
  <2>1. PICK l \in Piles(1, Len(sval)) : region' = region \o l.region /\ sval' = sval \o l.sval
    BY <1>2
  <2>2. l.region = <<>> /\ l.sval = <<>>
    BY PilesNone, Zenon
  <2>3. QED
    BY <1>3, <2>1, <2>2, EmptyIs, Zenon
<1>7. region' \in Seq(Nat) /\ sval' \in Seq(Nat) /\ rwith' \in Seq(Nat) /\ swith' \in Nat
  BY <1>2, <1>3, <1>6
<1>8. Now' \in Extent /\ Now'.rwith = Len(rwith') /\ Now'.swith = swith'
  BY <1>7, NowTypedNext, Zenon
<1>9. Now'.rwith = Now.rwith /\ Now'.swith = Now.swith + 1
  BY <1>2, <1>4, <1>8, Zenon
<1>10. Closable(rwith', b, WithsAfter(q), Now')
  <2>1. q.at.withs # <<>>
    BY <1>1, <1>4 DEF Finds
  <2>2. Len(q.at.withs) > 0
    BY ONLY <1>4, <2>1
  <2>3. Now.rwith <= Len(rwith)
    <3>1. Len(rwith) <= Len(rwith)
      BY <1>3
    <3>2. QED
      BY <1>4, <3>1, Zenon
  <2>4. Closable(rwith, b, [q.at.withs EXCEPT ![Len(q.at.withs)] = @ + 1], Now')
    BY <1>3, <1>4, <1>5, <1>8, <1>9, <2>2, <2>3, ClosableMore, Zenon
  <2>5. WithsAfter(q) = [q.at.withs EXCEPT ![Len(q.at.withs)] = @ + 1]
    BY <1>1 DEF WithsAfter
  <2>6. QED
    BY <1>2, <2>4, <2>5, Zenon
<1>11. \A k \in 1..Len(rwith') : k <= Len(rwith) => rwith'[k] = rwith[k]
  BY <1>2, Zenon
<1>12. q.op \in {"wpush", "pushw", "wpop"}
  BY <1>1
<1>13. CASE Next1 /\ e' = Must /\ UNCHANGED <<calls, blame>>
  <2>1. pc' = pc + 1 /\ mode' = "run" /\ e' \in {e, Must} /\ calls' = calls /\ blame' = blame
    BY <1>13 DEF Next1
  <2>2. QED
    BY <1>1, <1>2, <1>6, <1>7, <1>10, <1>11, <1>12, <2>1, WithsStep, Zenon DEF q, b
<1>14. CASE Throw
  <2>1. b.region <= Len(region') /\ b.sval <= Len(sval')
    BY <1>3, <1>6, Zenon
  <2>2. \A k \in 1..b.region : region'[k] = region[k]
    BY <1>6, Zenon
  <2>3. QED
    BY <1>1, <1>2, <1>7, <1>14, <2>1, <2>2, LocalThrow, Zenon DEF q, b
<1>15. QED
  BY <1>2, <1>13, <1>14, Zenon

LEMMA WpopKeeps ==
  ASSUME Verified, Plain, IInv, Wpop PROVE IInv'
<1> DEFINE q == prog[pc]
           b == frames[Own]
<1>1. mode = "run" /\ q.op = "wpop"
  BY DEF Wpop, On, Op, At
<1>2. /\ prog' = prog /\ frames' = frames /\ calls' = calls /\ recurse' = recurse
      /\ blame' = blame /\ e' \in {e, Must} /\ rwith' = Front(rwith)
      /\ swith' = Top(rwith) /\ pc' = pc + 1 /\ mode' = "run"
      /\ \E l \in Piles(swith - Top(rwith), Len(sval)) :
           region' = region \o l.region /\ sval' = sval \o l.sval
  BY DEF Wpop, Next1, Unchanged
<1>3. /\ region \in Seq(Nat) /\ sval \in Seq(Nat) /\ rwith \in Seq(Nat) /\ swith \in Nat
  BY <1>1, RunsAbove, Zenon
<1>4. /\ Now \in Extent /\ Now.rwith = Len(rwith) /\ Now.swith = swith /\ b \in Frames
      /\ q.at.withs \in Seq(Nat) /\ Finds(q, Found(prog)[pc])
  BY <1>1, RunsWith, Zenon
<1>5. Closable(rwith, b, q.at.withs, Now)
  BY <1>1, RunsAt, Zenon
<1> HIDE DEF q, b
<1>6. region' = region /\ sval' = sval
  <2>1. PICK l \in Piles(swith - Top(rwith), Len(sval)) :
          region' = region \o l.region /\ sval' = sval \o l.sval
    BY <1>2
  <2>2. l.region = <<>> /\ l.sval = <<>>
    BY PilesNone, Zenon
  <2>3. QED
    BY <1>3, <2>1, <2>2, EmptyIs, Zenon
<1>7. Len(q.at.withs) > 0
  <2>1. q.at.withs # <<>>
    BY <1>1, <1>4 DEF Finds
  <2>2. QED
    BY ONLY <1>4, <2>1
<1>8. Len(rwith) > 0 /\ Top(rwith) \in Nat
  <2> DEFINE n == Len(q.at.withs)
             a == b.rwith
             m == Len(rwith)
  <2>1. m = a + n
    BY <1>4, <1>5, Zenon DEF Closable
  <2>2. n \in Nat /\ a \in Nat /\ n > 0 /\ m \in Nat
    BY <1>3, <1>4, <1>7, FrameTyped
  <2> HIDE DEF n, a, m
  <2>3. m > 0 /\ m \in 1..m
    BY ONLY <2>1, <2>2
  <2>4. QED
    BY ONLY <2>3, <1>3 DEF Top, m
<1>9. /\ rwith' \in Seq(Nat) /\ Len(rwith') = Len(rwith) - 1
      /\ \A k \in 1..(Len(rwith) - 1) : rwith'[k] = rwith[k]
  BY ONLY <1>2, <1>3, <1>8, FrontIs
<1>10. region' \in Seq(Nat) /\ sval' \in Seq(Nat) /\ swith' \in Nat
  BY <1>2, <1>3, <1>6, <1>8
<1>11. Now' \in Extent /\ Now'.rwith = Len(rwith') /\ Now'.swith = swith'
  BY <1>9, <1>10, NowTypedNext, Zenon
<1>12. Now'.rwith = Now.rwith - 1 /\ Now'.swith = rwith[Now.rwith]
  BY <1>2, <1>4, <1>9, <1>11, Zenon DEF Top
<1>13. Closable(rwith', b, WithsAfter(q), Now')
  <2>1. Closable(rwith, b, Front(q.at.withs), Now')
    BY <1>3, <1>4, <1>5, <1>7, <1>11, <1>12, ClosablePop, Zenon
  <2>2. Front(q.at.withs) \in Seq(Nat)
    BY ONLY <1>4, <1>7, FrontIs
  <2>3. \A k \in 1..Now'.rwith : rwith'[k] = rwith[k]
    BY <1>9, <1>11, Zenon
  <2>4. Closable(rwith', b, Front(q.at.withs), Now')
    BY <1>3, <1>4, <1>9, <1>11, <2>1, <2>2, <2>3, ClosableSame, Zenon
  <2>5. WithsAfter(q) = Front(q.at.withs)
    BY <1>1 DEF WithsAfter
  <2>6. QED
    BY <2>4, <2>5, Zenon
<1>14. \A k \in 1..Len(rwith') : k <= Len(rwith) => rwith'[k] = rwith[k]
  BY <1>9, Zenon
<1>15. q.op \in {"wpush", "pushw", "wpop"}
  BY <1>1
<1>16. QED
  BY <1>1, <1>2, <1>6, <1>9, <1>10, <1>13, <1>14, <1>15, WithsStep, Zenon DEF q, b

-----------------------------------------------------------------------------
(* Counts of frames.                                                         *)

LEMMA TypedIs ==
  ASSUME Typed
  PROVE  /\ frames \in Seq(Frames) /\ Len(frames) \in Nat
         /\ calls \in Seq(Requests) /\ Len(calls) \in Nat
         /\ e \in Seq(BOOLEAN) /\ Len(e) \in Nat
         /\ recurse \in Nat /\ recurse \in 0..Limit /\ Limit \in Nat
         /\ pc \in Nat /\ blame \in Nat /\ prog \in Programs
<1>1. /\ frames \in Seq(Frames) /\ calls \in Seq(Requests) /\ e \in Seq(BOOLEAN)
      /\ recurse \in 0..Limit /\ pc \in Nat /\ blame \in Nat /\ prog \in Programs
  BY Zenon DEF Typed
<1>2. Len(frames) \in Nat /\ Len(calls) \in Nat /\ Len(e) \in Nat
  BY <1>1, LenProperties, Zenon
<1>3. Limit \in Nat
  BY VMAssumption
<1>4. recurse \in Nat
  BY ONLY <1>1, <1>3
<1>5. QED
  BY <1>1, <1>2, <1>3, <1>4, Zenon

LEMMA TallyTyped ==
  ASSUME NEW fr, NEW n \in Nat
  PROVE  /\ IsFiniteSet(Uncils(fr, n)) /\ IsFiniteSet(Countings(fr, n))
         /\ IsFiniteSet(Mains(fr, n))
         /\ Cardinality(Uncils(fr, n)) \in Nat /\ Cardinality(Countings(fr, n)) \in Nat
         /\ Cardinality(Mains(fr, n)) \in Nat
<1>1. IsFiniteSet(1..n)
  BY FS_Interval
<1>2. /\ Uncils(fr, n) \in SUBSET (1..n) /\ Countings(fr, n) \in SUBSET (1..n)
      /\ Mains(fr, n) \in SUBSET (1..n)
  BY DEF Uncils, Countings, Mains
<1>3. /\ IsFiniteSet(Uncils(fr, n)) /\ IsFiniteSet(Countings(fr, n))
      /\ IsFiniteSet(Mains(fr, n))
  BY <1>1, <1>2, FS_Subset, Zenon
<1>4. QED
  BY <1>3, FS_CardinalityType, Zenon

LEMMA CountOne ==
  ASSUME NEW n \in Nat, NEW A \in SUBSET (1..n)
  PROVE  /\ Cardinality(A \cup {n + 1}) = Cardinality(A) + 1
         /\ Cardinality(A) = Cardinality(A) + 0
<1>1. IsFiniteSet(A)
  <2>1. IsFiniteSet(1..n)
    BY FS_Interval
  <2>2. QED
    BY <2>1, FS_Subset, Zenon
<1>2. n + 1 \notin A
  OBVIOUS
<1>3. Cardinality(A \cup {n + 1}) = Cardinality(A) + 1
  BY <1>1, <1>2, FS_AddElement, Zenon
<1>4. Cardinality(A) \in Nat
  BY <1>1, FS_CardinalityType
<1>5. QED
  BY <1>3, <1>4

LEMMA TallyOne ==
  ASSUME NEW fr, NEW n \in Nat
  PROVE  /\ Cardinality(Uncils(fr, n + 1))
              = Cardinality(Uncils(fr, n)) + IF fr[n + 1].type \in Uncil THEN 1 ELSE 0
         /\ Cardinality(Countings(fr, n + 1))
              = Cardinality(Countings(fr, n)) + IF Counted(fr[n + 1]) THEN 1 ELSE 0
         /\ Cardinality(Mains(fr, n + 1))
              = Cardinality(Mains(fr, n)) + IF Kind(fr[n + 1]) = "Main" THEN 1 ELSE 0
<1>1. 1..(n + 1) = (1..n) \cup {n + 1}
  OBVIOUS
<1>2. /\ Uncils(fr, n) \in SUBSET (1..n) /\ Countings(fr, n) \in SUBSET (1..n)
      /\ Mains(fr, n) \in SUBSET (1..n)
  BY DEF Uncils, Countings, Mains
<1>3. Uncils(fr, n + 1) = IF fr[n + 1].type \in Uncil THEN Uncils(fr, n) \cup {n + 1}
                          ELSE Uncils(fr, n)
  BY <1>1, Zenon DEF Uncils
<1>4. Countings(fr, n + 1) = IF Counted(fr[n + 1]) THEN Countings(fr, n) \cup {n + 1}
                             ELSE Countings(fr, n)
  BY <1>1, Zenon DEF Countings
<1>5. Mains(fr, n + 1) = IF Kind(fr[n + 1]) = "Main" THEN Mains(fr, n) \cup {n + 1}
                         ELSE Mains(fr, n)
  BY <1>1, Zenon DEF Mains
<1>6. Cardinality(Uncils(fr, n + 1))
        = Cardinality(Uncils(fr, n)) + IF fr[n + 1].type \in Uncil THEN 1 ELSE 0
  BY <1>2, <1>3, CountOne, Zenon
<1>7. Cardinality(Countings(fr, n + 1))
        = Cardinality(Countings(fr, n)) + IF Counted(fr[n + 1]) THEN 1 ELSE 0
  BY <1>2, <1>4, CountOne, Zenon
<1>8. Cardinality(Mains(fr, n + 1))
        = Cardinality(Mains(fr, n)) + IF Kind(fr[n + 1]) = "Main" THEN 1 ELSE 0
  BY <1>2, <1>5, CountOne, Zenon
<1>9. QED
  BY <1>6, <1>7, <1>8, Zenon

LEMMA TallyNth ==
  ASSUME NEW fr, NEW n \in Nat, NEW i \in Countings(fr, n)
  PROVE  Cardinality(Countings(fr, i)) \in 1..Cardinality(Countings(fr, n))
<1>1. i \in 1..n /\ i \in Nat
  BY DEF Countings
<1>2. Countings(fr, i) \in SUBSET Countings(fr, n) /\ i \in Countings(fr, i)
  BY <1>1 DEF Countings
<1>3. /\ IsFiniteSet(Countings(fr, n)) /\ IsFiniteSet(Countings(fr, i))
      /\ Cardinality(Countings(fr, n)) \in Nat /\ Cardinality(Countings(fr, i)) \in Nat
  BY <1>1, TallyTyped, Zenon
<1>4. Cardinality(Countings(fr, i)) <= Cardinality(Countings(fr, n))
  BY <1>2, <1>3, FS_Subset, Zenon
<1>5. Cardinality(Countings(fr, i)) # 0
  BY <1>2, <1>3, FS_EmptySet, Zenon
<1>6. QED
  BY ONLY <1>3, <1>4, <1>5

LEMMA TallySame ==
  ASSUME NEW fr, NEW fr2, NEW n \in Nat, NEW rec, NEW cs, NEW runs,
         \A k \in 1..n : fr2[k] = fr[k], Tallied(fr, n, rec, cs, runs)
  PROVE  Tallied(fr2, n, rec, cs, runs)
<1>1. /\ Uncils(fr2, n) = Uncils(fr, n) /\ Mains(fr2, n) = Mains(fr, n)
      /\ Countings(fr2, n) = Countings(fr, n)
  BY Zenon DEF Uncils, Mains, Countings
<1>2. ASSUME NEW i \in Countings(fr, n)
      PROVE  Countings(fr2, i) = Countings(fr, i) /\ fr2[i] = fr[i]
  <2>1. i \in 1..n
    BY DEF Countings
  <2>2. \A k \in 1..i : k \in 1..n
    BY <2>1
  <2>3. QED
    BY <2>1, <2>2, Zenon DEF Countings
<1>3. \A i \in Countings(fr2, n) : Answers(cs[Cardinality(Countings(fr2, i))], fr2[i])
  BY <1>1, <1>2, Zenon DEF Tallied
<1>4. QED
  BY <1>1, <1>3, Zenon DEF Tallied

(* A frame that does not count is pushed or popped.                          *)
LEMMA TallyKeep ==
  ASSUME NEW fr, NEW n \in Nat, NEW rec, NEW cs, NEW runs, ~ Counted(fr[n + 1])
  PROVE  Tallied(fr, n, rec, cs, runs) <=> Tallied(fr, n + 1, rec, cs, runs)
<1>1. fr[n + 1].type \notin Uncil /\ Kind(fr[n + 1]) # "Main"
  BY DEF Counted, Kind
<1>2. 1..(n + 1) = (1..n) \cup {n + 1}
  OBVIOUS
<1>3. Uncils(fr, n + 1) = Uncils(fr, n)
  BY <1>1, <1>2, Zenon DEF Uncils
<1>4. Countings(fr, n + 1) = Countings(fr, n)
  BY <1>2, Zenon DEF Countings
<1>5. Mains(fr, n + 1) = Mains(fr, n)
  BY <1>1, <1>2, Zenon DEF Mains
<1>6. QED
  BY <1>3, <1>4, <1>5, Zenon DEF Tallied

(* One that does answers the call that was made last.                        *)
LEMMA TallyPush ==
  ASSUME NEW fr, NEW n \in Nat, NEW rec \in Nat, NEW cs \in Seq(Requests), NEW runs \in Nat,
         Tallied(fr, n, rec, cs, runs), Counted(fr[n + 1]),
         NEW c \in Requests, Answers(c, fr[n + 1])
  PROVE  Tallied(fr, n + 1, rec + IF fr[n + 1].type \in Uncil THEN 1 ELSE 0,
                 Append(cs, c), runs + IF Kind(fr[n + 1]) = "Main" THEN 1 ELSE 0)
<1> DEFINE ds == Append(cs, c)
           C(i) == Cardinality(Countings(fr, i))
<1>1. C(n) = Len(cs)
  BY DEF Tallied
<1>2. /\ Cardinality(Uncils(fr, n + 1)) = rec + IF fr[n + 1].type \in Uncil THEN 1 ELSE 0
      /\ C(n + 1) = Len(cs) + 1
      /\ Cardinality(Mains(fr, n + 1)) = runs + IF Kind(fr[n + 1]) = "Main" THEN 1 ELSE 0
  BY TallyOne, Zenon DEF Tallied
<1>3. /\ ds \in Seq(Requests) /\ Len(ds) = Len(cs) + 1
      /\ \A k \in 1..Len(cs) : ds[k] = cs[k]
      /\ ds[Len(cs) + 1] = c
  BY AppendIs, Zenon
<1> HIDE DEF ds
<1>4. ASSUME NEW i \in Countings(fr, n + 1)
      PROVE  Answers(ds[C(i)], fr[i])
  <2>1. CASE i = n + 1
    BY <1>2, <1>3, <2>1, Zenon
  <2>2. CASE i # n + 1
    <3>1. i \in Countings(fr, n)
      <4>1. i \in 1..(n + 1) /\ Counted(fr[i])
        BY DEF Countings
      <4>2. i \in 1..n
        BY <2>2, <4>1
      <4>3. QED
        BY <4>1, <4>2 DEF Countings
    <3>2. C(i) \in 1..Len(cs)
      BY <1>1, <3>1, TallyNth, Zenon
    <3>3. Answers(cs[C(i)], fr[i])
      BY <3>1, Zenon DEF Tallied
    <3>4. QED
      BY <1>3, <3>2, <3>3, Zenon
  <2>3. QED
    BY <2>1, <2>2, Zenon
<1>5. QED
  BY <1>2, <1>3, <1>4, Zenon DEF Tallied, ds

LEMMA TallyPop ==
  ASSUME NEW fr, NEW n \in Nat, NEW rec \in Nat, NEW cs \in Seq(Requests), NEW runs \in Nat,
         Tallied(fr, n + 1, rec, cs, runs), Counted(fr[n + 1])
  PROVE  /\ Len(cs) > 0 /\ Last(cs) \in Requests /\ Answers(Last(cs), fr[n + 1])
         /\ Front(cs) \in Seq(Requests) /\ Last(cs) = cs[Len(cs)]
         /\ fr[n + 1].type \in Uncil => rec > 0
         /\ Kind(fr[n + 1]) = "Main" => runs > 0
         /\ Tallied(fr, n, rec - IF fr[n + 1].type \in Uncil THEN 1 ELSE 0, Front(cs),
                    runs - IF Kind(fr[n + 1]) = "Main" THEN 1 ELSE 0)
<1> DEFINE C(i) == Cardinality(Countings(fr, i))
           u == IF fr[n + 1].type \in Uncil THEN 1 ELSE 0
           m == IF Kind(fr[n + 1]) = "Main" THEN 1 ELSE 0
           ds == Front(cs)
<1>1. rec = Cardinality(Uncils(fr, n + 1)) /\ Len(cs) = C(n + 1) /\ runs = Cardinality(Mains(fr, n + 1))
  BY DEF Tallied
<1>2. rec = Cardinality(Uncils(fr, n)) + u /\ Len(cs) = C(n) + 1 /\ runs = Cardinality(Mains(fr, n)) + m
  BY <1>1, TallyOne, Zenon
<1>3. Cardinality(Uncils(fr, n)) \in Nat /\ C(n) \in Nat /\ Cardinality(Mains(fr, n)) \in Nat
  BY TallyTyped, Zenon
<1>4. u \in {0, 1} /\ m \in {0, 1} /\ (fr[n + 1].type \in Uncil => u = 1)
      /\ (Kind(fr[n + 1]) = "Main" => m = 1)
  OBVIOUS
<1>5. n + 1 \in Countings(fr, n + 1)
  BY DEF Countings
<1>6. Answers(cs[Len(cs)], fr[n + 1])
  BY <1>1, <1>5, Zenon DEF Tallied
<1> HIDE DEF u, m
<1>7. Len(cs) > 0 /\ rec - u = Cardinality(Uncils(fr, n)) /\ runs - m = Cardinality(Mains(fr, n))
      /\ Len(cs) - 1 = C(n) /\ (u = 1 => rec > 0) /\ (m = 1 => runs > 0)
  BY ONLY <1>2, <1>3, <1>4, SMTT(60)
<1>8. /\ ds \in Seq(Requests) /\ Len(ds) = Len(cs) - 1
      /\ \A k \in 1..(Len(cs) - 1) : ds[k] = cs[k]
      /\ Last(cs) = cs[Len(cs)] /\ Last(cs) \in Requests
  BY ONLY <1>7, cs \in Seq(Requests), FrontIs
<1> HIDE DEF ds
<1>9. ASSUME NEW i \in Countings(fr, n)
      PROVE  Answers(ds[C(i)], fr[i])
  <2>1. C(i) \in 1..(Len(cs) - 1)
    BY <1>7, TallyNth, Zenon
  <2>2. i \in Countings(fr, n + 1)
    BY DEF Countings
  <2>3. QED
    BY <1>8, <2>1, <2>2, Zenon DEF Tallied
<1>10. Tallied(fr, n, rec - u, ds, runs - m)
  BY <1>7, <1>8, <1>9, Zenon DEF Tallied
<1>11. QED
  BY <1>4, <1>6, <1>7, <1>8, <1>10, Zenon DEF u, m, ds

-----------------------------------------------------------------------------
(* Frames that are pushed and popped.                                        *)

(* Where code leads, the function is as the code there finds it.             *)
LEMMA Arrives ==
  ASSUME NEW p, Fits(p), NEW fr \in Seq(Frames), NEW r \in Seq(Nat), NEW w \in Seq(Nat),
         NEW o, NEW n \in Nat, NEW j, NEW s \in Seq(Levels), Len(s) > 0, NEW ts, NEW ws,
         Leads(p, Found(p), j, s, ts, ws), Tries(fr, o, n, ts), n <= Len(fr),
         NEW x \in Extent, Leveled(r, fr[o], s, x), x.region <= Len(r),
         Closable(w, fr[o], ws, x)
  PROVE  Stands(p, fr, r, w, o, n, j, Found(p)[j], x)
<1>1. /\ j \in 1..Len(p) /\ Admits(Found(p)[j], s)
      /\ p[j].at.tries = ts /\ p[j].at.withs = ws
  BY Zenon DEF Leads
<1>2. Found(p)[j] \in Seq(Levels)
  BY <1>1, CodeAt, Zenon
<1>3. fr[o] \in Frames
  <2>1. o \in 1..n
    BY Zenon DEF Tries
  <2>2. o \in 1..Len(fr)
    BY <2>1
  <2>3. QED
    BY <2>2
<1>4. Leveled(r, fr[o], Found(p)[j], x)
  BY <1>1, <1>2, <1>3, LeveledAdmits, Zenon
<1>5. QED
  BY <1>1, <1>4, Zenon DEF Stands

LEMMA RunIs ==
  ASSUME mode' = "run", prog' = prog, NEW o,
         Stands(prog, frames', region', rwith', o, Len(frames'), pc', Found(prog)[pc'], Now')
  PROVE  Modes'
<1>1. o \in 1..Len(frames')
  BY Zenon DEF Stands, Tries
<1>2. Executes'
  BY <1>1, Zenon DEF Executes
<1>3. QED
  BY <1>2 DEF Modes

(* All stacks are above all frames.                                          *)
LEMMA StacksAbove ==
  ASSUME Typed, Stacked, NEW m \in 1..Len(frames)
  PROVE  /\ Fits(prog) => FrameFits(prog, frames, region, rwith, m)
         /\ frames[m] \in Frames /\ Above(Now, frames[m])
         /\ frames[m].region <= Len(region) /\ frames[m].rwith <= Len(rwith)
         /\ Depth(frames[m]) <= Len(sval)
         /\ m > 1 => m - 1 \in 1..Len(frames) /\ Above(To(frames[m]), frames[m - 1])
<1> DEFINE n == Len(frames)
<1>1. frames \in Seq(Frames) /\ n \in Nat /\ m \in 1..n /\ n \in 1..n
  BY DEF Typed
<1>2. frames # <<>>
  BY <1>1
<1>3. Above(Now, frames[n]) /\ Nested(prog, frames, region, rwith)
  BY <1>2 DEF Stacked
<1>4. frames[n] \in Frames /\ frames[m] \in Frames
  BY <1>1
<1> HIDE DEF n
<1>5. m <= n
  BY ONLY <1>1
<1>6. Above(To(frames[n]), frames[m])
  BY <1>1, <1>3, <1>5, Zenon DEF Nested, n
<1>7. Now \in Extent /\ Now.region = Len(region) /\ Now.sval = Len(sval) /\ Now.rwith = Len(rwith)
  BY NowTyped, Zenon
<1>8. Above(Now, frames[m])
  BY <1>3, <1>4, <1>6, <1>7, AboveOf, Zenon
<1>9. m > 1 => m - 1 \in 1..n /\ m - 1 <= m
  BY ONLY <1>1
<1>10. m > 1 => Above(To(frames[m]), frames[m - 1])
  BY <1>1, <1>3, <1>9, Zenon DEF Nested, n
<1>11. FrameFits(prog, frames, region, rwith, m)
  BY <1>1, <1>3, Zenon DEF Nested, n
<1>12. frames[m].region <= Len(region) /\ frames[m].rwith <= Len(rwith) /\ Depth(frames[m]) <= Len(sval)
  BY <1>7, <1>8, Zenon DEF Above
<1>13. QED
  BY <1>4, <1>8, <1>9, <1>10, <1>11, <1>12, Zenon DEF n

(* The frames from m + 1 are popped; what m + 1 found is there again.        *)
LEMMA PoppedTo ==
  ASSUME Typed, Stacked, Fits(prog), NEW m \in Nat, m + 1 <= Len(frames),
         prog' = prog, frames' \in Seq(Frames), Len(frames') = m,
         \A k \in 1..m : frames'[k] = frames[k],
         region' \in Seq(Nat), rwith' \in Seq(Nat),
         \A k \in 1..frames[m + 1].region : region'[k] = region[k],
         \A k \in 1..frames[m + 1].rwith : rwith'[k] = rwith[k]
  PROVE  /\ Nested(prog', frames', region', rwith')
         /\ frames' # <<>> => Above(To(frames[m + 1]), frames'[Len(frames')])
<1> DEFINE f == frames[m + 1]
           n == Len(frames)
<1>1. frames \in Seq(Frames) /\ region \in Seq(Nat) /\ rwith \in Seq(Nat) /\ n \in Nat
  BY DEF Typed
<1>2. m + 1 \in 1..n /\ m \in 0..n /\ (m > 0 => m \in 1..n /\ m <= m + 1)
  BY <1>1
<1>3. m > 0 => Above(To(f), frames[m])
  BY <1>2, Zenon DEF Stacked, Nested
<1>4. f \in Frames /\ (m > 0 => frames[m] \in Frames)
  BY <1>1, <1>2
<1>5. To(f).region = f.region /\ To(f).rwith = f.rwith
  BY <1>4, ToTyped, Zenon
<1>6. m > 0 => frames[m].region <= f.region /\ frames[m].rwith <= f.rwith
  BY <1>3, <1>5, Zenon DEF Above
<1>7. m > 0 => /\ frames[m].region \in Nat /\ frames[m].rwith \in Nat
               /\ f.region \in Nat /\ f.rwith \in Nat
  BY <1>4, FrameTyped, Zenon
<1>8. ASSUME m > 0
      PROVE  /\ \A k \in 1..frames[m].region : region'[k] = region[k]
             /\ \A k \in 1..frames[m].rwith : rwith'[k] = rwith[k]
  <2> DEFINE a == frames[m].region
             b == f.region
             c == frames[m].rwith
             d == f.rwith
  <2>1. a <= b /\ c <= d /\ a \in Nat /\ b \in Nat /\ c \in Nat /\ d \in Nat
    BY <1>6, <1>7, <1>8, Zenon
  <2>2. \A k \in 1..b : region'[k] = region[k]
    OBVIOUS
  <2>3. \A k \in 1..d : rwith'[k] = rwith[k]
    OBVIOUS
  <2> HIDE DEF a, b, c, d
  <2>4. (\A k \in 1..a : k \in 1..b) /\ \A k \in 1..c : k \in 1..d
    BY ONLY <2>1
  <2>5. (\A k \in 1..a : region'[k] = region[k]) /\ \A k \in 1..c : rwith'[k] = rwith[k]
    BY <2>2, <2>3, <2>4, Zenon
  <2>6. QED
    BY <2>5 DEF a, c
<1> HIDE DEF n, f
<1>9. Nested(prog, frames, region, rwith)
  BY DEF Stacked
<1>10. Nested(prog, frames', region', rwith')
  BY <1>1, <1>2, <1>8, <1>9, NestedCut, Zenon DEF n
<1>11. frames' # <<>> => m > 0
  <2>1. ASSUME m = 0 PROVE frames' = <<>>
    BY <2>1
  <2>2. QED
    BY <2>1
<1>12. m > 0 => frames'[Len(frames')] = frames[m]
  <2>1. m > 0 => m \in 1..m
    OBVIOUS
  <2>2. QED
    BY <2>1, Zenon
<1>13. QED
  BY <1>3, <1>10, <1>11, <1>12, Zenon DEF f

LEMMA XpushKeeps ==
  ASSUME Verified, IInv, Xpush PROVE IInv'
<1> DEFINE q == prog[pc]
           s == Found(prog)[pc]
           b == frames[Own]
           o == Own
           n == Len(frames)
           f == [SaveFrame("Try", pc, region) EXCEPT !.to = q.to, !.try = q.arg]
           h == Append(frames, f)
<1>1. mode = "run" /\ q.op = "expush"
  BY DEF Xpush, On, Op, At
<1>2. /\ prog' = prog /\ frames' = h /\ calls' = calls /\ recurse' = recurse
      /\ blame' = blame /\ e' = e /\ region' = region /\ sval' = sval
      /\ rwith' = rwith /\ swith' = swith /\ pc' = pc + 1 /\ mode' = "run"
  BY DEF Xpush, Next1, Unchanged, At
<1>3. /\ region \in Seq(Nat) /\ sval \in Seq(Nat) /\ rwith \in Seq(Nat) /\ swith \in Nat
      /\ s \in Seq(Levels) /\ Len(s) \in Nat \ {0}
  BY <1>1, RunsAbove, Zenon
<1>4. /\ Now \in Extent /\ Now.region = Len(region) /\ Now.sval = Len(sval)
      /\ Now.rwith = Len(rwith) /\ Now.swith = swith /\ b \in Frames /\ Finds(q, s)
      /\ \A j \in Follows(q, pc) : Leads(prog, Found(prog), j, After(s, q), TriesAfter(q), WithsAfter(q))
      /\ Fits(prog) /\ pc \in 1..Len(prog) /\ Typed
  BY <1>1, RunsWith, Zenon
<1>5. /\ Leveled(region, b, s, Now) /\ Closable(rwith, b, q.at.withs, Now)
      /\ frames \in Seq(Frames) /\ Tries(frames, o, n, q.at.tries) /\ o \in 1..n /\ n \in 1..n
  BY <1>1, RunsAt, Zenon
<1>6. /\ q \in Instructions /\ q.at.tries \in Seq(Nat) /\ q.arg \in Nat
  BY <1>4, CodeAt, Zenon
<1>7. q.to \in Nat
  BY ONLY <1>6 DEF Instructions
<1>8. /\ f \in Frames /\ f.type = "Try" /\ f.pc = pc /\ f.to = q.to /\ f.try = q.arg
      /\ f.cont = "" /\ f.sval = Len(sval) /\ f.region = Len(region)
      /\ f.swith = swith /\ f.rwith = Len(rwith)
  <2>1. Len(sval) \in Nat /\ Len(region) \in Nat /\ Len(rwith) \in Nat /\ pc \in Nat
    BY <1>3, <1>4 DEF Typed
  <2>2. QED
    BY ONLY <1>3, <1>6, <1>7, <2>1 DEF SaveFrame, Frames
<1> HIDE DEF f
<1>9. h \in Seq(Frames) /\ Len(h) = n + 1 /\ (\A k \in 1..n : h[k] = frames[k]) /\ h[n + 1] = f
  <2>1. frames \in Seq(Frames) /\ f \in Frames
    BY <1>5, <1>8
  <2>2. QED
    BY ONLY <2>1, AppendIs
<1> HIDE DEF q, s, b, o, n, h
<1>10. n \in Nat /\ n + 1 \in 1..(n + 1) /\ n + 1 > 0 /\ n <= Len(frames) /\ n \in 0..Len(frames)
  BY <1>5 DEF n
<1>11. To(f) = Now
  BY <1>8 DEF To, Now, Depth
<1>12. /\ Now' \in Extent /\ Now'.region = Now.region /\ Now'.sval = Now.sval
       /\ Now'.rwith = Now.rwith /\ Now'.swith = Now.swith /\ Now' = Now
  BY <1>2, <1>4 DEF Now
<1>13. s = Clear
  BY <1>1, <1>4 DEF Finds
<1>14. Stands(prog, frames, region, rwith, o, n, pc, Clear, Now)
  BY <1>4, <1>5, <1>13, Zenon DEF Stands, b, q, o
<1>15. TryFits(prog, h, region, rwith, n + 1)
  <2>1. Stands(prog, h, region, rwith, o, n, pc, Clear, Now)
    <3>1. \A k \in 1..Now.region : region[k] = region[k]
      OBVIOUS
    <3>2. \A k \in 1..Now.rwith : rwith[k] = rwith[k]
      OBVIOUS
    <3>3. Clear \in Seq(Levels) /\ Len(Clear) > 0
      BY ClearIs
    <3>4. QED
      BY <1>3, <1>4, <1>5, <1>9, <1>10, <1>14, <3>1, <3>2, <3>3, StandsSame, Zenon
  <2>2. (n + 1) - 1 = n
    BY <1>10
  <2>3. /\ h[n + 1].pc = pc /\ To(h[n + 1]) = Now /\ h[n + 1].to = prog[pc].to
        /\ h[n + 1].try = prog[pc].arg /\ h[n + 1].cont = "" /\ prog[pc].op = "expush"
    BY <1>1, <1>8, <1>9, <1>11, Zenon DEF q
  <2>4. o \in 1..((n + 1) - 1)
    BY <1>5, <2>2, Zenon
  <2>5. Stands(prog, h, region, rwith, o, (n + 1) - 1, h[n + 1].pc, Clear, To(h[n + 1]))
    BY <2>1, <2>2, <2>3, Zenon
  <2>6. /\ prog[h[n + 1].pc].op = "expush" /\ h[n + 1].to = prog[h[n + 1].pc].to
        /\ h[n + 1].try = prog[h[n + 1].pc].arg /\ h[n + 1].cont = ""
    BY <2>3, Zenon
  <2>7. QED
    BY <2>4, <2>5, <2>6, Zenon DEF TryFits
<1>16. ~ Counted(f) /\ Kind(f) # "Main" /\ CFits(f)
  BY <1>8 DEF Counted, Kind, CFits, IsC, Uncil
<1>17. FrameFits(prog, h, region, rwith, n + 1)
  BY <1>8, <1>9, <1>15, <1>16, Zenon DEF FrameFits
<1>18. Above(Now, frames[n]) /\ Nested(prog, frames, region, rwith)
  <2>1. frames # <<>> /\ Stacked
    BY <1>5 DEF n, IInv
  <2>2. QED
    BY <2>1, Zenon DEF Stacked, n
<1>19. Nested(prog, h, region, rwith)
  <2>1. /\ \A k \in 1..frames[n].region : region[k] = region[k]
        /\ \A k \in 1..frames[n].rwith : rwith[k] = rwith[k]
    OBVIOUS
  <2>2. Above(To(h[n + 1]), frames[n])
    BY <1>9, <1>11, <1>18, Zenon
  <2>3. QED
    BY <1>3, <1>4, <1>5, <1>9, <1>10, <1>17, <1>18, <2>1, <2>2, NestedPush, Zenon
<1>20. Stacked'
  <2>1. Above(Now, f)
    <3>1. Depth(f) = f.sval
      BY <1>8 DEF Depth
    <3>2. Len(sval) \in Nat /\ Len(region) \in Nat /\ Len(rwith) \in Nat
      BY <1>3
    <3>3. Len(sval) <= Len(sval) /\ Len(region) <= Len(region) /\ Len(rwith) <= Len(rwith)
      BY <3>2
    <3>4. QED
      BY <1>4, <1>8, <3>1, <3>3, Zenon DEF Above
  <2>2. frames'[Len(frames')] = f
    BY <1>2, <1>9, Zenon
  <2>3. QED
    BY <1>2, <1>12, <1>19, <2>1, <2>2, Zenon DEF Stacked
<1>21. Modes'
  <2>1. Tries(h, o, n + 1, Append(q.at.tries, q.arg))
    <3> DEFINE ts == q.at.tries
               us == Append(ts, q.arg)
    <3>1. /\ o \in 1..n /\ frames[o].type \in Uncil /\ n - o = Len(ts)
          /\ \A k \in 1..Len(ts) : frames[o + k].type = "Try" /\ frames[o + k].try = ts[k]
      BY <1>5, Zenon DEF Tries
    <3>2. ts \in Seq(Nat) /\ Len(ts) \in Nat
      BY <1>6
    <3>3. /\ Len(us) = Len(ts) + 1 /\ us[Len(ts) + 1] = q.arg
          /\ \A k \in 1..Len(ts) : us[k] = ts[k]
      BY ONLY <1>6, <3>2, AppendIs
    <3> HIDE DEF ts, us
    <3>4. /\ o \in 1..(n + 1) /\ (n + 1) - o = Len(ts) + 1 /\ o + Len(ts) + 1 = n + 1
          /\ \A k \in 1..Len(ts) : o + k \in 1..n
      BY ONLY <1>10, <3>1, <3>2
    <3>5. ASSUME NEW k \in 1..(Len(ts) + 1)
          PROVE  h[o + k].type = "Try" /\ h[o + k].try = us[k]
      <4>1. CASE k \in 1..Len(ts)
        BY <1>9, <3>1, <3>3, <3>4, <4>1, Zenon
      <4>2. CASE k = Len(ts) + 1
        <5>1. o + k = n + 1
          BY ONLY <3>1, <3>2, <3>4, <4>2
        <5>2. QED
          BY <1>8, <1>9, <3>3, <4>2, <5>1, Zenon
      <4>3. k \in 1..Len(ts) \/ k = Len(ts) + 1
        BY <3>2
      <4>4. QED
        BY <4>1, <4>2, <4>3, Zenon
    <3>6. h[o].type \in Uncil
      BY <1>9, <3>1, Zenon
    <3>7. (n + 1) - o = Len(us) /\ \A k \in 1..Len(us) : h[o + k].type = "Try" /\ h[o + k].try = us[k]
      BY <3>3, <3>4, <3>5, Zenon
    <3>8. o \in 1..(n + 1)
      BY <3>4, Zenon
    <3>9. Tries(h, o, n + 1, us)
      BY <3>6, <3>7, <3>8, Zenon DEF Tries
    <3>10. QED
      BY <3>9 DEF us, ts
  <2>2. Leads(prog, Found(prog), pc', Clear, Append(q.at.tries, q.arg), q.at.withs)
    <3>1. pc' \in Follows(q, pc)
      BY <1>1, <1>2 DEF Follows
    <3>2. After(s, q) = Clear /\ TriesAfter(q) = Append(q.at.tries, q.arg) /\ WithsAfter(q) = q.at.withs
      BY <1>1, <1>13 DEF After, TriesAfter, WithsAfter, Spreads, Taken
    <3>3. QED
      BY <1>4, <3>1, <3>2
  <2>3. h[o] = b
    BY <1>5, <1>9, Zenon DEF b, o
  <2>4. Leveled(region, h[o], Clear, Now) /\ Closable(rwith, h[o], q.at.withs, Now)
    BY <1>5, <1>13, <2>3, Zenon
  <2>5. Clear \in Seq(Levels) /\ Len(Clear) > 0
    BY ClearIs
  <2>6. Now.region <= Len(region) /\ n + 1 <= Len(h) /\ n + 1 \in Nat
    <3>1. Len(region) \in Nat
      BY <1>3
    <3>2. QED
      BY ONLY <1>4, <1>9, <1>10, <3>1
  <2>7. Stands(prog, h, region, rwith, o, n + 1, pc', Found(prog)[pc'], Now)
    BY <1>3, <1>4, <1>9, <2>1, <2>2, <2>4, <2>5, <2>6, Arrives, Zenon
  <2>8. Stands(prog, frames', region', rwith', o, Len(frames'), pc', Found(prog)[pc'], Now')
    BY <1>2, <1>9, <1>12, <2>7, Zenon
  <2>9. QED
    BY <1>2, <2>8, RunIs, Zenon
<1>22. Counts'
  <2>1. Tallied(frames, n, recurse, calls, Len(e))
    BY DEF IInv, Counts, n
  <2>2. Tallied(h, n, recurse, calls, Len(e))
    BY <1>9, <1>10, <2>1, TallySame, Zenon
  <2>3. Tallied(h, n + 1, recurse, calls, Len(e))
    BY <1>9, <1>10, <1>16, <2>2, TallyKeep, Zenon
  <2>4. QED
    BY <1>2, <1>9, <2>3, Zenon DEF Counts
<1>23. Typed' /\ Quiet'
  <2>1. pc' \in Nat
    BY <1>2, <1>4
  <2>2. Quiet
    BY DEF IInv
  <2>3. QED
    BY <1>2, <1>4, <1>9, <2>1, <2>2 DEF Typed, Quiet
<1>24. QED
  BY <1>20, <1>21, <1>22, <1>23, Zenon DEF IInv

(* A try ends where it began: the innermost one is popped.                   *)
LEMMA TopTry ==
  ASSUME NEW fr, NEW o, NEW n \in Nat, NEW ts \in Seq(Nat), Tries(fr, o, n, ts), ts # <<>>
  PROVE  fr[n].type = "Try" /\ fr[n].try = Last(ts) /\ n > 1
<1>1. Len(ts) \in Nat /\ Len(ts) > 0 /\ Len(ts) \in 1..Len(ts) /\ Last(ts) = ts[Len(ts)]
  BY DEF Last
<1>2. o \in 1..n /\ n - o = Len(ts)
  BY Zenon DEF Tries
<1>3. o + Len(ts) = n /\ n > 1
  BY ONLY <1>1, <1>2, n \in Nat
<1>4. fr[o + Len(ts)].type = "Try" /\ fr[o + Len(ts)].try = ts[Len(ts)]
  BY <1>1, Zenon DEF Tries
<1>5. QED
  BY <1>1, <1>3, <1>4, Zenon

LEMMA XpopKeeps ==
  ASSUME Verified, IInv, Xpop PROVE IInv'
<1> DEFINE q == prog[pc]
           s == Found(prog)[pc]
           n == Len(frames)
           m == n - 1
           f == frames[n]
           j == f.pc
<1>1. mode = "run" /\ q.op = "expop"
  BY DEF Xpop, On, Op, At
<1>2. /\ prog' = prog /\ frames' = Front(frames) /\ calls' = calls /\ recurse' = recurse
      /\ blame' = blame /\ e' = e /\ region' = Cut(region, f.region) /\ sval' = Cut(sval, f.sval)
      /\ rwith' = Cut(rwith, f.rwith) /\ swith' = f.swith /\ pc' = pc + 1 /\ mode' = "run"
  BY DEF Xpop, Next1, Unchanged, Top
<1>3. /\ Finds(q, s) /\ Fits(prog) /\ pc \in 1..Len(prog) /\ Typed
      /\ \A k \in Follows(q, pc) : Leads(prog, Found(prog), k, After(s, q), TriesAfter(q), WithsAfter(q))
  BY <1>1, RunsWith, Zenon
<1>4. frames \in Seq(Frames) /\ Tries(frames, Own, n, q.at.tries) /\ n \in 1..n
  BY <1>1, RunsAt, Zenon
<1>5. /\ region \in Seq(Nat) /\ sval \in Seq(Nat) /\ rwith \in Seq(Nat) /\ swith \in Nat
  BY <1>1, RunsAbove, Zenon
<1>6. q.at.tries \in Seq(Nat) /\ Nests(q, prog)
  BY <1>3, CodeAt, Zenon
<1>7. Stacked
  BY DEF IInv
<1>8. /\ FrameFits(prog, frames, region, rwith, n) /\ f \in Frames
      /\ f.region <= Len(region) /\ f.rwith <= Len(rwith) /\ Depth(f) <= Len(sval)
  BY <1>3, <1>4, <1>7, StacksAbove, Zenon
<1> HIDE DEF q, s, n, f, j
<1>9. s = Clear /\ q.at.tries # <<>>
  BY <1>1, <1>3 DEF Finds
<1>10. n \in Nat /\ Len(frames) = n /\ n > 0
  BY <1>4 DEF n
<1>11. f.type = "Try" /\ f.try = Last(q.at.tries)
  BY <1>4, <1>6, <1>9, <1>10, TopTry, Zenon DEF f
<1>12. TryFits(prog, frames, region, rwith, n)
  BY <1>8, <1>11, Zenon DEF FrameFits, f
<1>13. PICK o \in 1..m : Stands(prog, frames, region, rwith, o, m, j, Clear, To(f))
  BY <1>12, Zenon DEF TryFits, f, j
<1>14. prog[j].op = "expush" /\ f.try = prog[j].arg /\ f.cont = ""
  BY <1>12, Zenon DEF TryFits, f, j
<1>15. j \in 1..Len(prog)
  BY <1>13, Zenon DEF Stands
<1>16. prog[j].at.tries = Front(q.at.tries) /\ prog[j].at.withs = q.at.withs
  BY <1>1, <1>9, <1>11, <1>14, <1>15, <1>6 DEF Nests
<1>17. /\ f.region \in Nat /\ f.rwith \in Nat /\ f.sval \in Nat /\ f.swith \in Nat
       /\ Depth(f) = f.sval
  <2>1. f.region \in Nat /\ f.rwith \in Nat /\ f.sval \in Nat /\ f.swith \in Nat
    BY <1>8, FrameTyped, Zenon
  <2>2. QED
    BY <1>11, <2>1 DEF Depth
<1>18. /\ region' \in Seq(Nat) /\ Len(region') = f.region
       /\ \A k \in 1..f.region : region'[k] = region[k]
  BY ONLY <1>2, <1>5, <1>8, <1>17, CutIs
<1>19. /\ rwith' \in Seq(Nat) /\ Len(rwith') = f.rwith
       /\ \A k \in 1..f.rwith : rwith'[k] = rwith[k]
  BY ONLY <1>2, <1>5, <1>8, <1>17, CutIs
<1>20. sval' \in Seq(Nat) /\ Len(sval') = f.sval
  BY ONLY <1>2, <1>5, <1>8, <1>17, CutIs
<1>21. /\ frames' \in Seq(Frames) /\ Len(frames') = m
       /\ \A k \in 1..m : frames'[k] = frames[k]
  BY ONLY <1>2, <1>4, <1>10, FrontIs
<1>22. swith' \in Nat
  BY <1>2, <1>17
<1>23. To(f) \in Extent /\ Now' = To(f)
  <2>1. To(f) \in Extent
    BY <1>8, ToTyped, Zenon
  <2>2. QED
    BY <1>2, <1>17, <1>18, <1>19, <1>20, <2>1 DEF Now, To
<1>24. m \in Nat /\ m + 1 = n /\ m <= Len(frames) /\ m + 1 <= Len(frames)
  BY <1>10
<1> HIDE DEF m
<1>25. To(f).region = f.region /\ To(f).rwith = f.rwith
  BY <1>8, ToTyped, Zenon
<1>26. Stacked'
  <2>1. /\ Nested(prog', frames', region', rwith')
        /\ frames' # <<>> => Above(To(frames[m + 1]), frames'[Len(frames')])
    <3>1. \A k \in 1..frames[m + 1].region : region'[k] = region[k]
      BY <1>18, <1>24, Zenon DEF f
    <3>2. \A k \in 1..frames[m + 1].rwith : rwith'[k] = rwith[k]
      BY <1>19, <1>24, Zenon DEF f
    <3>3. QED
      BY <1>2, <1>3, <1>7, <1>18, <1>19, <1>21, <1>24, <3>1, <3>2, PoppedTo, Zenon
  <2>2. To(frames[m + 1]) = Now'
    BY <1>23, <1>24, Zenon DEF f
  <2>3. QED
    BY <2>1, <2>2, Zenon DEF Stacked
<1>27. Modes'
  <2>1. Clear \in Seq(Levels) /\ Len(Clear) > 0
    BY ClearIs
  <2>2. Stands(prog, frames', region', rwith', o, m, j, Clear, Now')
    <3>1. \A k \in 1..To(f).region : region'[k] = region[k]
      BY <1>18, <1>25, Zenon
    <3>2. \A k \in 1..To(f).rwith : rwith'[k] = rwith[k]
      BY <1>19, <1>25, Zenon
    <3>3. Stands(prog, frames', region', rwith', o, m, j, Clear, To(f))
      BY <1>3, <1>4, <1>5, <1>13, <1>18, <1>19, <1>21, <1>23, <1>24, <2>1, <3>1, <3>2, StandsSame, Zenon
    <3>4. QED
      BY <1>23, <3>3, Zenon
  <2>3. /\ Tries(frames', o, m, Front(q.at.tries)) /\ Leveled(region', frames'[o], Clear, Now')
        /\ Closable(rwith', frames'[o], q.at.withs, Now')
    BY <1>16, <2>2, Zenon DEF Stands
  <2>4. Leads(prog, Found(prog), pc', Clear, Front(q.at.tries), q.at.withs)
    <3>1. pc' \in Follows(q, pc)
      BY <1>1, <1>2 DEF Follows
    <3>2. After(s, q) = Clear /\ TriesAfter(q) = Front(q.at.tries) /\ WithsAfter(q) = q.at.withs
      BY <1>1, <1>9 DEF After, TriesAfter, WithsAfter, Spreads, Taken
    <3>3. QED
      BY <1>3, <3>1, <3>2
  <2>5. Now' \in Extent /\ Now'.region <= Len(region') /\ m <= Len(frames')
    BY <1>17, <1>18, <1>21, <1>23, <1>24, <1>25
  <2>6. Stands(prog, frames', region', rwith', o, m, pc', Found(prog)[pc'], Now')
    BY <1>3, <1>18, <1>19, <1>21, <1>24, <2>1, <2>3, <2>4, <2>5, Arrives, Zenon
  <2>7. Stands(prog, frames', region', rwith', o, Len(frames'), pc', Found(prog)[pc'], Now')
    BY <1>21, <2>6, Zenon
  <2>8. QED
    BY <1>2, <2>7, RunIs, Zenon
<1>28. Counts'
  <2>1. Tallied(frames, m + 1, recurse, calls, Len(e))
    BY <1>24, Zenon DEF IInv, Counts, n
  <2>2. ~ Counted(frames[m + 1])
    BY <1>11, <1>14, <1>24 DEF Counted, f, Uncil
  <2>3. Tallied(frames, m, recurse, calls, Len(e))
    BY <1>24, <2>1, <2>2, TallyKeep, Zenon
  <2>4. Tallied(frames', m, recurse, calls, Len(e))
    BY <1>21, <1>24, <2>3, TallySame, Zenon
  <2>5. QED
    BY <1>2, <1>21, <2>4, Zenon DEF Counts
<1>29. Typed' /\ Quiet'
  <2>1. pc' \in Nat
    BY <1>2, <1>3
  <2>2. Quiet
    BY DEF IInv
  <2>3. QED
    BY <1>2, <1>3, <1>18, <1>19, <1>20, <1>21, <1>22, <2>1, <2>2 DEF Typed, Quiet
<1>30. QED
  BY <1>26, <1>27, <1>28, <1>29, Zenon DEF IInv

-----------------------------------------------------------------------------
(* Calls.                                                                    *)

(* A function begins as code that fits expects.                              *)
LEMMA Enters ==
  ASSUME Fits(prog), prog' = prog, mode' = "run", pc' = 1,
         frames' \in Seq(Frames), region' \in Seq(Nat), sval' \in Seq(Nat),
         rwith' \in Seq(Nat), swith' \in Nat,
         Nested(prog, frames', region', rwith'),
         NEW n, n = Len(frames'), NEW g, n > 0, g = frames'[n], g.type \in Uncil,
         g.region = Len(region'), g.sval = Len(sval'), g.rwith = Len(rwith'), g.swith = swith'
  PROVE  Stacked' /\ Modes'
<1>1. Leads(prog, Found(prog), 1, Clear, <<>>, <<>>)
  BY Zenon DEF Fits
<1>2. Clear \in Seq(Levels) /\ Len(Clear) > 0
  BY ClearIs
<1>3. n \in Nat /\ n \in 1..n /\ n - n = 0 /\ g \in Frames /\ n <= Len(frames')
  OBVIOUS
<1>4. Tries(frames', n, n, <<>>)
  <2>1. Len(<<>>) = 0 /\ 1..0 = {}
    OBVIOUS
  <2>2. \A i \in 1..Len(<<>>) : frames'[n + i].type = "Try" /\ frames'[n + i].try = <<>>[i]
    BY <2>1, Zenon
  <2>3. QED
    BY <1>3, <2>1, <2>2, Zenon DEF Tries
<1>5. /\ Now' \in Extent /\ Now'.region = Len(region') /\ Now'.sval = Len(sval')
      /\ Now'.rwith = Len(rwith') /\ Now'.swith = swith'
  BY NowTypedNext, Zenon
<1>6. Leveled(region', g, Clear, Now') /\ Closable(rwith', g, <<>>, Now')
  BY <1>3, <1>5, LeveledClear, ClosableNone, Zenon
<1>7. Len(region') \in Nat /\ Len(region') <= Len(region') /\ Len(rwith') <= Len(rwith')
      /\ Len(sval') <= Len(sval')
  OBVIOUS
<1>8. Now'.region <= Len(region')
  BY <1>5, <1>7, Zenon
<1>9. Stands(prog, frames', region', rwith', n, n, 1, Found(prog)[1], Now')
  BY <1>1, <1>2, <1>3, <1>4, <1>5, <1>6, <1>8, Arrives, Zenon
<1>10. Modes'
  BY <1>9, RunIs, Zenon
<1>11. Depth(g) = g.sval
  BY DEF Depth, Uncil
<1>12. Above(Now', g)
  BY <1>5, <1>7, <1>11, Zenon DEF Above
<1>13. QED
  BY <1>10, <1>12, Zenon DEF Stacked

CallOps == {"dcall", "fcall", "inext", "inexts"}
Base == IF prog[pc].op \in {"inext", "inexts"} THEN Len(sval) ELSE Len(sval) - Argc(prog[pc])
Rest == [region |-> Len(Regions(prog[pc])), sval |-> Base, rwith |-> Len(rwith),
         swith |-> swith]

(* A call finds its arguments on the last level.                             *)
LEMMA TakesArgs ==
  ASSUME Verified, IInv, mode = "run", prog[pc].op \in CallOps
  PROVE  /\ Regions(prog[pc]) \in Seq(Nat)
         /\ Len(Regions(prog[pc])) <= Len(region)
         /\ \A k \in 1..Len(Regions(prog[pc])) : Regions(prog[pc])[k] = region[k]
         /\ Base \in Nat /\ Base <= Len(sval) /\ Rest \in Extent
         /\ Leveled(Regions(prog[pc]), frames[Own], Taken(Found(prog)[pc], prog[pc]), Rest)
<1> DEFINE q == prog[pc]
           s == Found(prog)[pc]
           b == frames[Own]
           r == Regions(q)
           base == Base
           x == Rest
<1>1. /\ region \in Seq(Nat) /\ sval \in Seq(Nat) /\ rwith \in Seq(Nat) /\ swith \in Nat
      /\ s \in Seq(Levels) /\ Len(s) \in Nat \ {0}
  BY RunsAbove, Zenon
<1>2. /\ Now \in Extent /\ Now.region = Len(region) /\ Now.sval = Len(sval)
      /\ b \in Frames /\ Finds(q, s) /\ Fits(prog) /\ pc \in 1..Len(prog)
  BY RunsWith, Zenon
<1>3. Leveled(region, b, s, Now)
  BY RunsAt, Zenon
<1>4. q.arg \in Nat /\ q.op \in CallOps
  BY <1>2, CodeAt, Zenon
<1>5. /\ x.region = Len(r) /\ x.sval = base
      /\ r \in Seq(Nat) /\ base \in Nat => x \in Extent
  BY <1>1 DEF Rest, Extent
<1>6. /\ Len(region) \in Nat /\ Len(sval) \in Nat /\ Len(region) <= Len(region)
      /\ Len(sval) <= Len(sval) /\ Len(s) > 0
  BY <1>1
<1>7. r = (IF q.op = "fcall" THEN Front(region) ELSE region)
  BY <1>4 DEF Regions, CallOps
<1>8. base = (IF q.op \in {"inext", "inexts"} THEN Len(sval)
              ELSE IF q.op = "fcall" THEN Len(sval) - (Len(sval) - Top(region))
              ELSE Len(sval) - q.arg)
  BY <1>4 DEF Base, Argc, CallOps
<1> HIDE DEF q, s, b, r, base, x
<1>9. CASE q.op = "fcall"
  <2>1. Len(s) > 1
    <3>1. Len(s) > IF q.dst = "stack" THEN 2 ELSE 1
      BY <1>2, <1>9 DEF Finds
    <3>2. QED
      BY ONLY <1>1, <3>1
  <2>2. /\ Top(region) \in Nat /\ Top(region) <= Len(sval) /\ Top(region) = region[Now.region]
        /\ b.sval <= Top(region) /\ Len(region) > b.region /\ Len(region) > 0
        /\ Top(region) + s[Len(s)].n <= Len(sval)
        /\ s[Len(s)].is = "exactly" => Top(region) + s[Len(s)].n = Len(sval)
    BY <1>1, <1>2, <1>3, <2>1, RegionClosed, ZenonT(60)
  <2>3. base = Top(region)
    <3>1. base = Len(sval) - (Len(sval) - Top(region))
      BY <1>8, <1>9
    <3>2. QED
      BY ONLY <1>6, <2>2, <3>1
  <2>4. /\ r \in Seq(Nat) /\ Len(r) = Len(region) - 1
        /\ \A k \in 1..(Len(region) - 1) : r[k] = region[k]
    <3>1. r = Front(region)
      BY <1>7, <1>9
    <3>2. QED
      BY ONLY <1>1, <2>2, <3>1, FrontIs
  <2>5. x \in Extent
    BY <1>5, <2>2, <2>3, <2>4
  <2>6. x.region = Now.region - 1 /\ x.sval = region[Now.region] /\ Now.region <= Len(region)
    BY <1>2, <1>5, <1>6, <2>2, <2>3, <2>4, Zenon
  <2>7. /\ Front(s) \in Seq(Levels) /\ Len(Front(s)) = Len(s) - 1
        /\ Leveled(region, b, Front(s), x)
    BY <1>1, <1>2, <1>3, <2>1, <2>5, <2>6, <1>6, LeveledClose, Zenon
  <2>8. Len(Front(s)) > 0
    BY ONLY <1>1, <2>1, <2>7
  <2>9. \A k \in 1..x.region : r[k] = region[k]
    BY <1>5, <2>4, Zenon
  <2>10. Leveled(r, b, Front(s), x)
    BY <1>1, <1>2, <2>4, <2>5, <2>7, <2>8, <2>9, LeveledSame, Zenon
  <2>11. Taken(s, q) = Front(s)
    BY <1>9 DEF Taken
  <2>12. Len(r) <= Len(region) /\ \A k \in 1..Len(r) : r[k] = region[k]
    BY <1>6, <2>4
  <2>13. QED
    BY <2>2, <2>3, <2>4, <2>5, <2>10, <2>11, <2>12, Zenon DEF q, s, b, r, base, x
<1>10. CASE q.op # "fcall"
  <2>1. r = region /\ \A k \in 1..Len(r) : r[k] = region[k]
    BY <1>7, <1>10, Zenon
  <2>2. x.region = Now.region /\ Now.region <= Len(region)
    BY <1>2, <1>5, <1>6, <2>1, Zenon
  <2>3. CASE q.op = "dcall"
    <3> DEFINE l == Len(sval)
               a == q.arg
               t == s[Len(s)].n
    <3>1. t >= a /\ Len(s) \in 1..Len(s)
      BY <1>1, <1>2, <2>3 DEF Finds
    <3>2. t \in Nat
      BY <1>1, <3>1, LevelsTyped
    <3>3. From(region, b, Len(s)) \in Nat /\ Upto(region, b, s, Now, Len(s)) = l
          /\ From(region, b, Len(s)) + t <= l
      <4>1. Upto(region, b, s, Now, Len(s)) = l
        BY <1>2, Zenon DEF Upto
      <4>2. /\ Now.region = b.region + Len(s) - 1
            /\ From(region, b, Len(s)) \in Nat /\ Upto(region, b, s, Now, Len(s)) \in Nat
            /\ b.sval <= From(region, b, Len(s))
            /\ From(region, b, Len(s)) + t <= Upto(region, b, s, Now, Len(s))
        BY <1>1, <1>2, <1>3, <1>6, <2>2, <3>1, BoundsTyped, Zenon
      <4>3. QED
        BY <4>1, <4>2, Zenon
    <3>4. base = l - a
      BY <1>8, <2>3
    <3>5. l \in Nat /\ a \in Nat
      BY <1>4, <1>6
    <3> HIDE DEF l, a, t
    <3>6. base \in Nat /\ base <= l /\ a <= t /\ a \in Int
      BY ONLY <3>1, <3>2, <3>3, <3>4, <3>5
    <3>7. x \in Extent /\ x.sval = Now.sval - a
      BY <1>1, <1>2, <1>5, <2>1, <3>4, <3>6, Zenon DEF l
    <3>8. Leveled(region, b, Fewer(s, a), x)
      BY <1>1, <1>2, <1>3, <1>6, <2>2, <3>6, <3>7, LeveledFewer, Zenon DEF t
    <3>9. Taken(s, q) = Fewer(s, a)
      BY <2>3 DEF Taken, a
    <3>10. QED
      BY <1>1, <1>6, <2>1, <3>6, <3>7, <3>8, <3>9, Zenon DEF q, s, b, r, base, x, l
  <2>4. CASE q.op \in {"inext", "inexts"}
    <3>1. base = Len(sval) /\ Taken(s, q) = s
      BY <1>8, <2>4 DEF Taken
    <3>2. x \in Extent /\ x.sval = Now.sval
      BY <1>1, <1>2, <1>5, <1>6, <2>1, <3>1, Zenon
    <3>3. Leveled(region, b, s, x)
      <4>1. \A k \in 1..Now.region : region[k] = region[k]
        OBVIOUS
      <4>2. b.region = b.region /\ b.sval = b.sval
        OBVIOUS
      <4>3. QED
        BY <1>1, <1>2, <1>3, <1>6, <2>2, <3>2, <4>1, <4>2, LeveledSame, Zenon
    <3>4. QED
      BY <1>1, <1>6, <2>1, <3>1, <3>2, <3>3, Zenon DEF q, s, b, r, base, x
  <2>5. QED
    BY <1>4, <1>10, <2>3, <2>4 DEF CallOps
<1>11. QED
  BY <1>9, <1>10, Zenon

LEMMA RestIs ==
  ASSUME Verified, IInv, mode = "run", prog[pc].op \in CallOps
  PROVE  /\ Stands(prog, frames, Regions(prog[pc]), rwith, Own, Len(frames), pc,
                   Taken(Found(prog)[pc], prog[pc]), Rest)
         /\ Above(Rest, frames[Len(frames)])
         /\ \A k \in 1..frames[Len(frames)].region : Regions(prog[pc])[k] = region[k]
<1> DEFINE q == prog[pc]
           s == Taken(Found(prog)[pc], q)
           b == frames[Own]
           r == Regions(q)
           n == Len(frames)
           t == frames[n]
           x == Rest
<1>1. /\ r \in Seq(Nat) /\ Len(r) <= Len(region)
      /\ \A k \in 1..Len(r) : r[k] = region[k]
      /\ Base \in Nat /\ Base <= Len(sval) /\ x \in Extent
      /\ Leveled(r, b, s, x)
  BY TakesArgs, Zenon
<1>2. /\ Fits(prog) /\ pc \in 1..Len(prog) /\ frames \in Seq(Frames) /\ n \in 1..n
      /\ b \in Frames /\ b.type \in Uncil /\ Tries(frames, Own, n, q.at.tries)
      /\ Closable(rwith, b, q.at.withs, Now)
  BY RunsAt, Zenon
<1>3. /\ Typed /\ Now \in Extent /\ Now.rwith = Len(rwith) /\ Now.swith = swith
      /\ q.at.withs \in Seq(Nat) /\ rwith \in Seq(Nat)
  BY RunsWith, RunsAbove, Zenon
<1>4. x.rwith = Len(rwith) /\ x.swith = swith /\ x.region = Len(r) /\ x.sval = Base
  BY DEF Rest
<1>5. s \in Seq(Levels) /\ Len(s) \in Nat \ {0}
  BY <1>2, TakenIs, Zenon
<1>6. Stacked
  BY DEF IInv
<1>7. FrameFits(prog, frames, region, rwith, n) /\ t \in Frames
  BY <1>2, <1>3, <1>6, StacksAbove, Zenon
<1> HIDE DEF q, s, b, r, n, t, x
<1>8. Closable(rwith, b, q.at.withs, x)
  <2>1. \A k \in 1..Now.rwith : rwith[k] = rwith[k]
    OBVIOUS
  <2>2. x.rwith = Now.rwith /\ x.swith = Now.swith
    BY <1>3, <1>4, Zenon
  <2>3. QED
    BY <1>1, <1>2, <1>3, <2>1, <2>2, ClosableSame, Zenon
<1>9. Stands(prog, frames, r, rwith, Own, n, pc, s, x)
  BY <1>1, <1>2, <1>8, Zenon DEF Stands, b, q
<1>10. /\ t.region = b.region /\ Depth(t) = Depth(b) /\ Depth(b) = b.sval
       /\ t.rwith <= b.rwith + Len(q.at.withs)
  <2> DEFINE o == Own
  <2>1. b = frames[o] /\ t = frames[n] /\ n \in 1..Len(frames) /\ Tries(frames, o, n, prog[pc].at.tries)
    BY <1>2, Zenon DEF b, t, n, q
  <2>2. FrameFits(prog, frames, region, rwith, n)
    BY <1>7
  <2> HIDE DEF o
  <2>3. /\ frames[n].region = frames[o].region /\ Depth(frames[n]) = Depth(frames[o])
        /\ Depth(frames[o]) = frames[o].sval
        /\ frames[n].rwith <= frames[o].rwith + Len(prog[pc].at.withs)
    BY <1>2, <2>1, <2>2, TopIs, Zenon
  <2>4. QED
    BY <2>1, <2>3, Zenon DEF q
<1>11. x.region <= Len(r) /\ Len(s) > 0 /\ Len(r) \in Nat
  BY <1>1, <1>4, <1>5
<1>12. b.sval <= x.sval /\ b.region <= x.region /\ x.region = b.region + Len(s) - 1
  BY <1>1, <1>2, <1>5, <1>11, LeveledAbove, Zenon
<1>13. x.rwith = b.rwith + Len(q.at.withs)
  BY <1>8, Zenon DEF Closable
<1>14. Above(x, t)
  BY <1>10, <1>12, <1>13, Zenon DEF Above
<1>15. \A k \in 1..t.region : r[k] = region[k]
  <2>1. t.region \in Nat /\ t.region <= Len(r)
    BY <1>4, <1>7, <1>14, FrameTyped, Zenon DEF Above
  <2>2. \A k \in 1..t.region : k \in 1..Len(r)
    BY ONLY <1>11, <2>1
  <2>3. QED
    BY <1>1, <2>2, Zenon
<1>16. QED
  BY <1>9, <1>14, <1>15, Zenon DEF q, s, r, n, t, x

LEMMA CallPushes ==
  ASSUME Verified, IInv, mode = "run", prog[pc].op \in CallOps,
         NEW g \in Frames, To(g) = Rest, g.pc = pc + 1, g.type # "Try", Kind(g) # "Main",
         CalledBy(g, prog[pc]), CFits(g), ~ Counted(g) => g.from = pc
  PROVE  /\ Append(frames, g) \in Seq(Frames) /\ Len(Append(frames, g)) = Len(frames) + 1
         /\ \A k \in 1..Len(frames) : Append(frames, g)[k] = frames[k]
         /\ Append(frames, g)[Len(frames) + 1] = g
         /\ Nested(prog, Append(frames, g), Regions(prog[pc]), rwith)
<1> DEFINE q == prog[pc]
           s == Taken(Found(prog)[pc], q)
           r == Regions(q)
           n == Len(frames)
           h == Append(frames, g)
           x == Rest
           o == Own
<1>1. /\ r \in Seq(Nat) /\ Len(r) <= Len(region)
      /\ \A k \in 1..Len(r) : r[k] = region[k]
      /\ Base \in Nat /\ Base <= Len(sval) /\ x \in Extent
      /\ Leveled(r, frames[o], s, x)
  BY TakesArgs, Zenon
<1>2. /\ Stands(prog, frames, r, rwith, o, n, pc, s, x) /\ Above(x, frames[n])
      /\ \A k \in 1..frames[n].region : r[k] = region[k]
  BY RestIs, Zenon
<1>3. /\ Fits(prog) /\ pc \in 1..Len(prog) /\ frames \in Seq(Frames) /\ n \in 1..n /\ o \in 1..n
  BY RunsAt, Zenon
<1>4. rwith \in Seq(Nat) /\ region \in Seq(Nat)
  BY RunsAbove, Zenon
<1>5. s \in Seq(Levels) /\ Len(s) > 0
  <2>1. s \in Seq(Levels) /\ Len(s) \in Nat \ {0}
    BY <1>3, TakenIs, Zenon
  <2>2. QED
    BY ONLY <2>1
<1>6. Nested(prog, frames, region, rwith)
  BY DEF IInv, Stacked
<1>7. h \in Seq(Frames) /\ Len(h) = n + 1 /\ (\A k \in 1..n : h[k] = frames[k]) /\ h[n + 1] = g
  BY ONLY <1>3, g \in Frames, AppendIs
<1>8. n \in Nat /\ n <= Len(frames) /\ n \in 0..Len(frames) /\ (n + 1) - 1 = n
  BY <1>3
<1>9. g.pc - 1 = pc /\ x = To(g)
  BY <1>3
<1> HIDE DEF q, s, r, n, h, x, o
<1>10. Stands(prog, h, r, rwith, o, n, pc, s, x)
  <2>1. (\A k \in 1..x.region : r[k] = r[k]) /\ \A k \in 1..x.rwith : rwith[k] = rwith[k]
    OBVIOUS
  <2>2. QED
    BY <1>1, <1>2, <1>3, <1>4, <1>5, <1>7, <1>8, <2>1, StandsSame, Zenon
<1>11. CallFits(prog, h, r, rwith, n + 1)
  <2>1. h[n + 1].pc - 1 = pc /\ To(h[n + 1]) = x
    BY <1>7, <1>9, Zenon
  <2>2. o \in 1..((n + 1) - 1)
    BY <1>3, <1>8, Zenon
  <2>3. Stands(prog, h, r, rwith, o, (n + 1) - 1, h[n + 1].pc - 1,
               Taken(Found(prog)[h[n + 1].pc - 1], prog[h[n + 1].pc - 1]), To(h[n + 1]))
    BY <1>8, <1>10, <2>1, Zenon DEF s, q
  <2>4. CalledBy(h[n + 1], prog[h[n + 1].pc - 1])
    BY <1>7, <2>1, Zenon
  <2>5. ~ Counted(h[n + 1]) => h[n + 1].from = h[n + 1].pc - 1
    BY <1>7, <2>1, Zenon
  <2>6. QED
    BY <2>2, <2>3, <2>4, <2>5, Zenon DEF CallFits
<1>12. FrameFits(prog, h, r, rwith, n + 1)
  BY <1>7, <1>11, Zenon DEF FrameFits
<1>13. Above(To(h[n + 1]), frames[n])
  BY <1>2, <1>7, <1>9, Zenon
<1>14. \A k \in 1..frames[n].rwith : rwith[k] = rwith[k]
  OBVIOUS
<1>15. Nested(prog, h, r, rwith)
  BY <1>1, <1>2, <1>3, <1>4, <1>6, <1>7, <1>8, <1>12, <1>13, <1>14, NestedPush, Zenon
<1>16. QED
  BY <1>7, <1>15, Zenon DEF h, n, r, q

LEMMA CallUncilKeeps ==
  ASSUME Verified, IInv, mode = "run", prog[pc].op \in CallOps, prog' = prog,
         region' = Regions(prog[pc]), ~ TooDeep,
         NEW g \in Frames, g.type \in {"Call", "CallSpew", "Next", "NextSpew"},
         g.pc = pc + 1, g.cont = "", g.region = Len(Regions(prog[pc])), g.sval = Base,
         g.rwith = Len(rwith), g.swith = swith, CalledBy(g, prog[pc]),
         frames' = Append(frames, g), sval' = Cut(sval, Base), recurse' = recurse + 1,
         calls' = Append(calls, Wanted(g.type, Base, g.pc2)), Enter,
         UNCHANGED <<e, blame, rwith, swith>>
  PROVE  IInv'
<1> DEFINE r == Regions(prog[pc])
           n == Len(frames)
           base == Base
           c == Wanted(g.type, base, g.pc2)
<1>1. /\ r \in Seq(Nat) /\ Len(r) <= Len(region)
      /\ \A k \in 1..Len(r) : r[k] = region[k]
      /\ base \in Nat /\ base <= Len(sval) /\ Rest \in Extent
      /\ Leveled(r, frames[Own], Taken(Found(prog)[pc], prog[pc]), Rest)
  BY TakesArgs, Zenon
<1>2. /\ Fits(prog) /\ pc \in 1..Len(prog) /\ n \in 1..n /\ Typed
  BY RunsAt, RunsWith, Zenon
<1>3. rwith \in Seq(Nat) /\ region \in Seq(Nat) /\ sval \in Seq(Nat) /\ swith \in Nat
  BY RunsAbove, Zenon
<1>4. Depth(g) = g.sval /\ g.type \in Uncil
  BY DEF Depth, Uncil
<1>5. To(g) = Rest
  BY <1>4 DEF To, Rest
<1>6. /\ g.type # "Try" /\ Kind(g) = g.type /\ Kind(g) # "Main" /\ Counted(g) /\ CFits(g)
  BY DEF Kind, Counted, CFits, IsC, Uncil
<1>7. /\ frames' \in Seq(Frames) /\ Len(frames') = n + 1
      /\ \A k \in 1..n : frames'[k] = frames[k]
      /\ frames'[n + 1] = g
      /\ Nested(prog, frames', r, rwith)
  BY <1>5, <1>6, CallPushes, Zenon
<1>8. sval' \in Seq(Nat) /\ Len(sval') = base
  BY ONLY <1>1, <1>3, sval' = Cut(sval, base), CutIs
<1>9. /\ region' \in Seq(Nat) /\ rwith' = rwith /\ rwith' \in Seq(Nat) /\ swith' = swith /\ swith' \in Nat
      /\ e' = e /\ blame' = blame /\ pc' = 1 /\ mode' = "run"
  BY <1>1, <1>3 DEF Enter
<1>10. n \in Nat /\ n + 1 > 0
  <2>1. n \in Nat
    BY <1>2, TypedIs, Zenon
  <2>2. QED
    BY ONLY <2>1
<1> HIDE DEF r, n, base, c
<1>11. Stacked' /\ Modes'
  <2>1. /\ g.region = Len(region') /\ g.sval = Len(sval') /\ g.rwith = Len(rwith') /\ g.swith = swith'
    BY <1>8, <1>9, Zenon DEF base
  <2>2. g = frames'[n + 1] /\ n + 1 = Len(frames')
    BY <1>7, Zenon
  <2>3. Nested(prog, frames', region', rwith')
    BY <1>7, <1>9, Zenon DEF r
  <2>4. QED
    BY <1>2, <1>4, <1>7, <1>8, <1>9, <1>10, <2>1, <2>2, <2>3, Enters, Zenon
<1>12. c \in Requests /\ Answers(c, g)
  <2>1. /\ c.kind = g.type /\ c.base = base /\ c.pc = pc /\ c.out = g.pc2
    BY DEF c, Wanted
  <2>2. c \in Requests
    <3>1. g.pc2 \in Nat /\ pc \in Nat
      BY <1>2, FrameTyped DEF Typed
    <3>2. QED
      BY <1>1, <1>4, <3>1 DEF c, Wanted, Requests
  <2>3. g.pc - 1 = pc
    <3>1. pc \in Nat
      BY <1>2 DEF Typed
    <3>2. (pc + 1) - 1 = pc
      BY ONLY <3>1
    <3>3. QED
      BY <3>2, Zenon
  <2>4. QED
    BY <1>4, <1>6, <2>1, <2>2, <2>3 DEF Answers, base
<1>13. Counts'
  <2>1. Tallied(frames, n, recurse, calls, Len(e)) /\ recurse \in Nat /\ calls \in Seq(Requests)
        /\ Len(e) \in Nat
    <3>1. recurse \in Nat /\ calls \in Seq(Requests) /\ Len(e) \in Nat
      BY <1>2, TypedIs, Zenon
    <3>2. QED
      BY <3>1, Zenon DEF IInv, Counts, n
  <2>2. Tallied(frames', n, recurse, calls, Len(e))
    BY <1>7, <1>10, <2>1, TallySame, Zenon
  <2>3. Counted(frames'[n + 1]) /\ Answers(c, frames'[n + 1])
    BY <1>6, <1>7, <1>12, Zenon
  <2>4. Tallied(frames', n + 1, recurse + IF frames'[n + 1].type \in Uncil THEN 1 ELSE 0,
                 Append(calls, c), Len(e) + IF Kind(frames'[n + 1]) = "Main" THEN 1 ELSE 0)
    BY <1>10, <1>12, <2>1, <2>2, <2>3, TallyPush, Zenon
  <2>5. Tallied(frames', n + 1, recurse + 1, Append(calls, c), Len(e) + 0)
    BY <1>4, <1>6, <1>7, <2>4, Zenon
  <2>6. Len(e) + 0 = Len(e')
    <3>1. Len(e) + 0 = Len(e)
      BY ONLY <2>1
    <3>2. QED
      BY <1>9, <3>1, Zenon
  <2>7. QED
    BY <1>7, <2>5, <2>6, Zenon DEF Counts, c, base
<1>14. Typed' /\ Quiet'
  <2>1. recurse' \in 0..Limit
    <3>1. recurse \in 0..Limit /\ Limit \in Nat /\ ~ (recurse >= Limit)
      BY <1>2, VMAssumption DEF TooDeep, Typed
    <3>2. QED
      BY ONLY <3>1, recurse' = recurse + 1
  <2>2. calls' \in Seq(Requests)
    BY <1>2, <1>12, AppendIs DEF Typed, c, base
  <2>3. Quiet
    BY DEF IInv
  <2>4. QED
    BY <1>2, <1>7, <1>8, <1>9, <2>1, <2>2, <2>3 DEF Typed, Quiet
<1>15. QED
  BY <1>11, <1>13, <1>14, Zenon DEF IInv

LEMMA CallCKeeps ==
  ASSUME Verified, IInv, mode = "run", prog[pc].op \in CallOps, prog' = prog,
         region' = Regions(prog[pc]),
         NEW g \in Frames, g.type \in {"CallC", "CallCSpew"},
         g.pc = pc + 1, g.cont \in {"call", "inext", "inexts"},
         g.region = Len(Regions(prog[pc])), g.sval = Len(sval), g.args = Base,
         g.rwith = Len(rwith), g.swith = swith, g.from = pc, CalledBy(g, prog[pc]),
         frames' = Append(frames, g), mode' = "native",
         UNCHANGED <<pc, sval, recurse, e, calls, blame, rwith, swith>>
  PROVE  IInv'
<1> DEFINE r == Regions(prog[pc])
           n == Len(frames)
           base == Base
<1>1. /\ r \in Seq(Nat) /\ Len(r) <= Len(region)
      /\ \A k \in 1..Len(r) : r[k] = region[k]
      /\ base \in Nat /\ base <= Len(sval) /\ Rest \in Extent
      /\ Leveled(r, frames[Own], Taken(Found(prog)[pc], prog[pc]), Rest)
  BY TakesArgs, Zenon
<1>2. /\ Fits(prog) /\ pc \in 1..Len(prog) /\ n \in 1..n /\ Typed
  BY RunsAt, RunsWith, Zenon
<1>3. rwith \in Seq(Nat) /\ region \in Seq(Nat) /\ sval \in Seq(Nat) /\ swith \in Nat
  BY RunsAbove, Zenon
<1>4. Depth(g) = g.args /\ g.type \notin Uncil /\ IsC(g)
  BY DEF Depth, Uncil, IsC
<1>5. To(g) = Rest
  BY <1>4 DEF To, Rest
<1>6. g.type # "Try" /\ Kind(g) # "Main" /\ ~ Counted(g) /\ CFits(g)
  BY <1>1, <1>4 DEF Kind, Counted, CFits
<1>7. /\ frames' \in Seq(Frames) /\ Len(frames') = n + 1
      /\ \A k \in 1..n : frames'[k] = frames[k]
      /\ frames'[n + 1] = g
      /\ Nested(prog, frames', r, rwith)
  BY <1>5, <1>6, CallPushes, Zenon
<1>8. /\ region' \in Seq(Nat) /\ sval' \in Seq(Nat) /\ rwith' \in Seq(Nat) /\ swith' \in Nat
      /\ region' = r /\ sval' = sval /\ rwith' = rwith /\ swith' = swith
  BY <1>1, <1>3
<1>9. n \in Nat
  BY <1>2
<1> HIDE DEF r, n, base
<1>10. /\ Now' \in Extent /\ Now'.region = Len(region') /\ Now'.sval = Len(sval')
       /\ Now'.rwith = Len(rwith') /\ Now'.swith = swith'
  BY <1>8, NowTypedNext, Zenon
<1>11. Stacked'
  <2>1. Above(Now', g)
    <3>1. Len(r) \in Nat /\ Len(rwith) \in Nat
      BY <1>1, <1>3
    <3>2. Len(r) <= Len(r) /\ Len(rwith) <= Len(rwith)
      BY <3>1
    <3>3. g.region = Len(r) /\ g.rwith = Len(rwith) /\ g.args = base
      BY DEF r, base
    <3>4. QED
      BY <1>1, <1>4, <1>8, <1>10, <3>2, <3>3, Zenon DEF Above
  <2>2. QED
    BY <1>7, <1>8, <2>1, Zenon DEF Stacked
<1>12. Modes'
  <2>1. frames' # <<>>
    BY <1>7, <1>9
  <2>2. Bottom(frames') = Now'
    <3>1. Bottom(frames') = [To(g) EXCEPT !.sval = g.sval]
      BY <1>7, <2>1, Zenon DEF Bottom
    <3>2. [To(g) EXCEPT !.sval = g.sval]
            = [region |-> g.region, sval |-> g.sval, rwith |-> g.rwith, swith |-> g.swith]
      BY DEF To
    <3>3. QED
      BY <1>8, <3>1, <3>2 DEF Now, r
  <2>3. InsideC'
    BY <1>4, <1>7, Zenon DEF InsideC
  <2>4. mode' = "native"
    OBVIOUS
  <2>5. QED
    BY <2>2, <2>3, <2>4 DEF Modes
<1>13. Counts'
  <2>1. Tallied(frames, n, recurse, calls, Len(e))
    BY DEF IInv, Counts, n
  <2>2. Tallied(frames', n, recurse, calls, Len(e))
    BY <1>7, <1>9, <2>1, TallySame, Zenon
  <2>3. ~ Counted(frames'[n + 1])
    BY <1>6, <1>7, Zenon
  <2>4. Tallied(frames', n + 1, recurse, calls, Len(e))
    BY <1>9, <2>2, <2>3, TallyKeep, Zenon
  <2>5. QED
    BY <1>7, <2>4, Zenon DEF Counts
<1>14. Typed' /\ Quiet'
  <2>1. Quiet
    BY DEF IInv
  <2>2. QED
    BY <1>2, <1>7, <1>8, <2>1 DEF Typed, Quiet
<1>15. QED
  BY <1>11, <1>12, <1>13, <1>14, Zenon DEF IInv

LEMMA FailsKeeps ==
  ASSUME Verified, IInv, mode = "run", prog[pc].op \in CallOps, prog' = prog,
         region' = Regions(prog[pc]), Fails
  PROVE  IInv'
<1> DEFINE r == Regions(prog[pc])
           b == frames[Own]
           s == Taken(Found(prog)[pc], prog[pc])
<1>1. /\ r \in Seq(Nat) /\ Len(r) <= Len(region)
      /\ \A k \in 1..Len(r) : r[k] = region[k]
      /\ Base \in Nat /\ Base <= Len(sval) /\ Rest \in Extent
      /\ Leveled(r, b, s, Rest)
  BY TakesArgs, Zenon
<1>2. Throw /\ frames' = frames /\ sval' = sval /\ recurse' = recurse /\ rwith' = rwith /\ swith' = swith
  BY DEF Fails
<1>3. /\ region \in Seq(Nat) /\ sval \in Seq(Nat) /\ swith \in Nat
      /\ b.region \in Nat /\ b.sval <= Len(sval)
  BY RunsAbove, Zenon
<1>4. b \in Frames /\ s \in Seq(Levels) /\ Len(s) \in Nat \ {0}
  BY RunsAt, TakenIs, Zenon
<1>5. Rest.region = Len(r) /\ Len(r) \in Nat
  BY <1>1 DEF Rest
<1> HIDE DEF r, b, s
<1>6. b.region <= Len(r)
  <2>1. Rest.region <= Len(r) /\ Len(s) > 0
    BY <1>4, <1>5
  <2>2. b.sval <= Rest.sval /\ b.region <= Rest.region /\ Rest.region = b.region + Len(s) - 1
    BY <1>1, <1>4, <2>1, LeveledAbove, Zenon
  <2>3. QED
    BY <1>5, <2>2, Zenon
<1>7. \A k \in 1..b.region : r[k] = region[k]
  <2>1. \A k \in 1..b.region : k \in 1..Len(r)
    BY ONLY <1>3, <1>5, <1>6
  <2>2. QED
    BY <1>1, <2>1, Zenon
<1>8. /\ region' \in Seq(Nat) /\ sval' \in Seq(Nat) /\ swith' \in Nat /\ b.region <= Len(region')
      /\ b.sval <= Len(sval') /\ \A k \in 1..b.region : region'[k] = region[k]
  BY <1>1, <1>2, <1>3, <1>6, <1>7, Zenon DEF r
<1>9. QED
  BY <1>2, <1>8, LocalThrow, Zenon DEF b

LEMMA CallKeeps ==
  ASSUME Verified, IInv, Call PROVE IInv'
<1> DEFINE q == prog[pc]
           r == Regions(q)
           base == Len(sval) - Argc(q)
           spew == q.dst = "stack"
           type(c) == IF c THEN IF spew THEN "CallCSpew" ELSE "CallC"
                      ELSE IF spew THEN "CallSpew" ELSE "Call"
           f(c) == SaveFrame(type(c), pc + 1, r)
<1>1. mode = "run" /\ q.op \in {"dcall", "fcall"}
  BY DEF Call, On, Op, At
<1>2. /\ prog' = prog /\ region' = r
      /\ \E callee \in Callee :
           IF callee = "none" \/ TooDeep THEN Fails
           ELSE IF callee = "uncil" THEN CallUncil(f(FALSE), base)
           ELSE CallC([f(TRUE) EXCEPT !.cont = "call"], base)
  BY DEF Call, At
<1>3. q.op \in CallOps /\ base = Base
  BY <1>1 DEF CallOps, Base
<1>4. /\ r \in Seq(Nat) /\ Len(r) <= Len(region)
      /\ \A k \in 1..Len(r) : r[k] = region[k]
      /\ Base \in Nat /\ Base <= Len(sval) /\ Rest \in Extent
      /\ Leveled(r, frames[Own], Taken(Found(prog)[pc], q), Rest)
  BY <1>1, <1>3, TakesArgs, Zenon
<1>5. pc \in Nat /\ sval \in Seq(Nat) /\ rwith \in Seq(Nat) /\ swith \in Nat
  <2>1. Typed
    BY DEF IInv
  <2>2. QED
    BY <1>1, <2>1, RunsAbove, TypedIs, Zenon
<1>6. Len(sval) \in Nat /\ Len(rwith) \in Nat /\ Len(r) \in Nat /\ pc + 1 \in Nat /\ base \in Nat
  BY <1>3, <1>4, <1>5
<1> HIDE DEF q, r, base
<1>7. ASSUME CallUncil(f(FALSE), base), ~ TooDeep PROVE IInv'
  <2> DEFINE g == [f(FALSE) EXCEPT !.sval = base]
  <2>1. /\ g \in Frames /\ g.type = type(FALSE) /\ g.pc = pc + 1 /\ g.pc2 = 0 /\ g.cont = ""
        /\ g.region = Len(r) /\ g.sval = base /\ g.rwith = Len(rwith) /\ g.swith = swith
    BY <1>5, <1>6 DEF SaveFrame, Frames, Uncil
  <2>2. g.type \in {"Call", "CallSpew", "Next", "NextSpew"}
    BY <2>1
  <2>3. CalledBy(g, q)
    <3> HIDE DEF g, f
    <3>1. g.type = IF q.dst = "stack" THEN "CallSpew" ELSE "Call"
      BY <2>1
    <3>2. Counted(g) /\ Kind(g) = g.type
      BY ONLY <3>1 DEF Counted, Kind, Uncil
    <3>3. QED
      BY ONLY <1>1, <3>1, <3>2 DEF CalledBy
  <2>4. f(FALSE).type = g.type /\ f(FALSE).pc2 = g.pc2
    BY <2>1 DEF SaveFrame
  <2> HIDE DEF f
  <2>5. /\ frames' = Append(frames, g) /\ sval' = Cut(sval, base) /\ recurse' = recurse + 1
        /\ calls' = Append(calls, Wanted(g.type, base, g.pc2)) /\ Enter
        /\ UNCHANGED <<e, blame, rwith, swith>>
    BY <1>7, <2>4, Zenon DEF CallUncil
  <2> HIDE DEF g
  <2>6. QED
    BY <1>1, <1>2, <1>3, <1>7, <2>1, <2>2, <2>3, <2>5, CallUncilKeeps, Zenon DEF q, r
<1>8. ASSUME CallC([f(TRUE) EXCEPT !.cont = "call"], base) PROVE IInv'
  <2> DEFINE g == [[f(TRUE) EXCEPT !.cont = "call"] EXCEPT !.args = base, !.from = pc]
  <2>1. /\ g \in Frames /\ g.type = type(TRUE) /\ g.pc = pc + 1 /\ g.cont = "call"
        /\ g.region = Len(r) /\ g.sval = Len(sval) /\ g.args = base
        /\ g.rwith = Len(rwith) /\ g.swith = swith /\ g.from = pc
    BY <1>5, <1>6 DEF SaveFrame, Frames, Uncil
  <2>2. g.type \in {"CallC", "CallCSpew"} /\ g.cont \in {"call", "inext", "inexts"}
    BY <2>1
  <2>3. CalledBy(g, q)
    BY <1>1, <2>1 DEF CalledBy, Counted, Kind, Uncil
  <2>4. /\ frames' = Append(frames, g) /\ mode' = "native"
        /\ UNCHANGED <<pc, sval, recurse, e, calls, blame, rwith, swith>>
    BY <1>8 DEF CallC
  <2> HIDE DEF g, f
  <2>5. QED
    BY <1>1, <1>2, <1>3, <2>1, <2>2, <2>3, <2>4, CallCKeeps, Zenon DEF q, r
<1>9. ASSUME Fails PROVE IInv'
  BY <1>1, <1>2, <1>3, <1>9, FailsKeeps, Zenon DEF q, r
<1> HIDE DEF f
<1>10. QED
  BY <1>2, <1>7, <1>8, <1>9, Zenon

LEMMA InextKeeps ==
  ASSUME Verified, IInv, Inext PROVE IInv'
<1> DEFINE q == prog[pc]
           r == Regions(q)
           base == Len(sval)
           one == q.op = "inext"
           type(c) == IF c THEN "CallCSpew" ELSE IF one THEN "Next" ELSE "NextSpew"
           cont == IF one THEN "inext" ELSE "inexts"
           f(c) == [SaveFrame(type(c), pc + 1, region) EXCEPT !.pc2 = q.to]
<1>1. mode = "run" /\ q.op \in {"inext", "inexts"}
  BY DEF Inext, On, Op, At
<1>2. /\ prog' = prog /\ region' = region
      /\ \E callee \in Callee :
           IF callee = "none" \/ TooDeep THEN Fails
           ELSE IF callee = "uncil" THEN CallUncil(f(FALSE), base)
           ELSE CallC([f(TRUE) EXCEPT !.cont = cont, !.out = q.to], base)
  BY DEF Inext, At, Op
<1>3. q.op \in CallOps /\ base = Base /\ r = region
  BY <1>1 DEF CallOps, Base, Regions
<1>4. /\ region \in Seq(Nat) /\ pc \in Nat /\ sval \in Seq(Nat) /\ rwith \in Seq(Nat) /\ swith \in Nat
  <2>1. Typed
    BY DEF IInv
  <2>2. QED
    BY <1>1, <2>1, RunsAbove, TypedIs, Zenon
<1>5. /\ Len(sval) \in Nat /\ Len(rwith) \in Nat /\ Len(region) \in Nat /\ pc + 1 \in Nat
      /\ base \in Nat
  BY <1>4
<1>6. q.to \in Nat
  <2>1. Fits(prog) /\ pc \in 1..Len(prog)
    BY <1>1, RunsAt, Zenon
  <2>2. q \in Instructions
    BY <2>1, CodeAt, Zenon
  <2>3. QED
    BY ONLY <2>2 DEF Instructions
<1> HIDE DEF q, r, base
<1>7. ASSUME CallUncil(f(FALSE), base), ~ TooDeep PROVE IInv'
  <2> DEFINE g == [f(FALSE) EXCEPT !.sval = base]
  <2>1. /\ g \in Frames /\ g.type = type(FALSE) /\ g.pc = pc + 1 /\ g.pc2 = q.to /\ g.cont = ""
        /\ g.region = Len(region) /\ g.sval = base /\ g.rwith = Len(rwith) /\ g.swith = swith
    BY <1>4, <1>5, <1>6 DEF SaveFrame, Frames, Uncil
  <2>2. g.type \in {"Call", "CallSpew", "Next", "NextSpew"}
    BY <2>1
  <2>3. CalledBy(g, q)
    <3> HIDE DEF g, f
    <3>1. g.type = IF q.op = "inext" THEN "Next" ELSE "NextSpew"
      BY <2>1
    <3>2. Counted(g) /\ Kind(g) = g.type
      BY ONLY <3>1 DEF Counted, Kind, Uncil
    <3>3. QED
      BY ONLY <1>1, <2>1, <3>1, <3>2 DEF CalledBy
  <2>4. f(FALSE).type = g.type /\ f(FALSE).pc2 = g.pc2
    BY <2>1 DEF SaveFrame
  <2> HIDE DEF f
  <2>5. /\ frames' = Append(frames, g) /\ sval' = Cut(sval, base) /\ recurse' = recurse + 1
        /\ calls' = Append(calls, Wanted(g.type, base, g.pc2)) /\ Enter
        /\ UNCHANGED <<e, blame, rwith, swith>>
    BY <1>7, <2>4, Zenon DEF CallUncil
  <2> HIDE DEF g
  <2>6. QED
    BY <1>1, <1>2, <1>3, <1>7, <2>1, <2>2, <2>3, <2>5, CallUncilKeeps, Zenon DEF q, r
<1>8. ASSUME CallC([f(TRUE) EXCEPT !.cont = cont, !.out = q.to], base) PROVE IInv'
  <2> DEFINE g == [[f(TRUE) EXCEPT !.cont = cont, !.out = q.to]
                     EXCEPT !.args = base, !.from = pc]
  <2>1. /\ g \in Frames /\ g.type = "CallCSpew" /\ g.pc = pc + 1 /\ g.cont = cont /\ g.out = q.to
        /\ g.region = Len(region) /\ g.sval = Len(sval) /\ g.args = base
        /\ g.rwith = Len(rwith) /\ g.swith = swith /\ g.from = pc
    BY <1>4, <1>5, <1>6 DEF SaveFrame, Frames, Uncil
  <2>2. g.type \in {"CallC", "CallCSpew"} /\ g.cont \in {"call", "inext", "inexts"}
    BY <2>1
  <2>3. CalledBy(g, q)
    BY <1>1, <2>1 DEF CalledBy, Counted, Kind, Uncil
  <2>4. /\ frames' = Append(frames, g) /\ mode' = "native"
        /\ UNCHANGED <<pc, sval, recurse, e, calls, blame, rwith, swith>>
    BY <1>8 DEF CallC
  <2> HIDE DEF g, f
  <2>5. QED
    BY <1>1, <1>2, <1>3, <2>1, <2>2, <2>3, <2>4, CallCKeeps, Zenon DEF q, r
<1>9. ASSUME Fails PROVE IInv'
  BY <1>1, <1>2, <1>3, <1>9, FailsKeeps, Zenon DEF q, r
<1> HIDE DEF f
<1>10. QED
  BY <1>2, <1>7, <1>8, <1>9, Zenon

-----------------------------------------------------------------------------
(* The host and C functions.                                                 *)

LEMMA BottomIs ==
  ASSUME NEW fs \in Seq(Frames)
  PROVE  /\ Bottom(fs) \in Extent /\ Pile(fs) = Bottom(fs).region
         /\ fs = <<>> => /\ Bottom(fs).region = 0 /\ Bottom(fs).sval = 0
                         /\ Bottom(fs).rwith = 0 /\ Bottom(fs).swith = 0
         /\ fs # <<>> => LET f == fs[Len(fs)] IN
              /\ Len(fs) \in 1..Len(fs) /\ f \in Frames
              /\ Bottom(fs).region = f.region /\ Bottom(fs).sval = f.sval
              /\ Bottom(fs).rwith = f.rwith /\ Bottom(fs).swith = f.swith
<1>1. CASE fs = <<>>
  BY <1>1 DEF Bottom, Pile, Extent
<1>2. CASE fs # <<>>
  <2> DEFINE f == fs[Len(fs)]
  <2>1. Len(fs) \in 1..Len(fs) /\ f \in Frames /\ Last(fs) = f
    BY <1>2 DEF Last
  <2>2. f.region \in Nat /\ f.sval \in Nat /\ f.rwith \in Nat /\ f.swith \in Nat
    BY <2>1, FrameTyped, Zenon
  <2> HIDE DEF f
  <2>3. Bottom(fs) = [To(f) EXCEPT !.sval = f.sval] /\ Pile(fs) = f.region
    BY <1>2, <2>1, Zenon DEF Bottom, Pile, f
  <2>4. [To(f) EXCEPT !.sval = f.sval]
          = [region |-> f.region, sval |-> f.sval, rwith |-> f.rwith, swith |-> f.swith]
    BY DEF To
  <2>5. /\ Bottom(fs) \in Extent
        /\ Bottom(fs).region = f.region /\ Bottom(fs).sval = f.sval
        /\ Bottom(fs).rwith = f.rwith /\ Bottom(fs).swith = f.swith
    BY <2>2, <2>3, <2>4 DEF Extent
  <2>6. QED
    BY <1>2, <2>1, <2>3, <2>5, Zenon DEF f
<1>3. QED
  BY <1>1, <1>2, Zenon

(* A C function has its own values again.                                    *)
LEMMA NativeIs ==
  ASSUME mode' = "native", prog' = prog, frames' \in Seq(Frames),
         Nested(prog, frames', region', rwith'), InsideC', Now' = Bottom(frames')
  PROVE  Stacked' /\ Modes'
<1>1. Modes'
  BY DEF Modes
<1>2. ASSUME frames' # <<>>
      PROVE  Above(Now', frames'[Len(frames')])
  <2> DEFINE f == frames'[Len(frames')]
             x == Bottom(frames')
  <2>1. /\ Len(frames') \in 1..Len(frames') /\ f \in Frames
        /\ x.region = f.region /\ x.sval = f.sval /\ x.rwith = f.rwith
    BY <1>2, BottomIs, Zenon
  <2>2. IsC(f)
    BY <1>2, Zenon DEF InsideC
  <2>3. CFits(f)
    BY <2>1, Zenon DEF Nested, FrameFits
  <2>4. Depth(f) = f.args /\ f.args <= f.sval
    BY <2>2, <2>3 DEF Depth, IsC, CFits
  <2>5. f.region \in Nat /\ f.rwith \in Nat
    BY <2>1, FrameTyped, Zenon
  <2> HIDE DEF f, x
  <2>6. f.region <= f.region /\ f.rwith <= f.rwith
    BY <2>5
  <2>7. Above(x, f)
    BY <2>1, <2>4, <2>6, Zenon DEF Above
  <2>8. QED
    BY <2>7, Zenon DEF f, x
<1>3. QED
  BY <1>1, <1>2, Zenon DEF Stacked

(* A function called from C was called among that one's values.              *)
LEMMA MainBelow ==
  ASSUME NEW fr \in Seq(Frames), NEW r, NEW n \in 1..Len(fr), MainFits(fr, r, n),
         NEW fs \in Seq(Frames), Len(fs) = n - 1, \A k \in 1..(n - 1) : fs[k] = fr[k]
  PROVE  /\ fr[n].region = Bottom(fs).region + 1
         /\ r[fr[n].region] = Bottom(fs).sval /\ Depth(fr[n]) = Bottom(fs).sval
         /\ fr[n].rwith = Bottom(fs).rwith /\ fr[n].swith = Bottom(fs).swith
         /\ fs # <<>> => IsC(fs[Len(fs)])
<1> DEFINE f == fr[n]
           x == Bottom(fs)
<1>1. r[f.region] = Depth(f)
  BY Zenon DEF MainFits
<1>2. CASE n = 1
  <2>1. f.region = 1 /\ Depth(f) = 0 /\ f.rwith = 0 /\ f.swith = 0
    BY <1>2, Zenon DEF MainFits
  <2>2. fs = <<>>
    BY <1>2
  <2>3. x.region = 0 /\ x.sval = 0 /\ x.rwith = 0 /\ x.swith = 0
    BY <2>2, BottomIs, Zenon
  <2>4. x.region + 1 = 1
    BY <2>3
  <2>5. QED
    BY <1>1, <2>1, <2>2, <2>3, <2>4, Zenon
<1>3. CASE n # 1
  <2>1. n > 1 /\ n - 1 \in 1..(n - 1) /\ n \in Nat
    BY <1>3
  <2>2. /\ IsC(fr[n - 1]) /\ f.region = fr[n - 1].region + 1
        /\ Depth(f) = fr[n - 1].sval /\ f.rwith = fr[n - 1].rwith
        /\ f.swith = fr[n - 1].swith
    BY <2>1, Zenon DEF MainFits
  <2>3. fs # <<>>
    BY <2>1
  <2>4. fs[Len(fs)] = fr[n - 1]
    BY <2>1, Zenon
  <2>5. /\ x.region = fs[Len(fs)].region /\ x.sval = fs[Len(fs)].sval
        /\ x.rwith = fs[Len(fs)].rwith /\ x.swith = fs[Len(fs)].swith
    BY <2>3, BottomIs, Zenon
  <2>6. QED
    BY <1>1, <2>2, <2>4, <2>5, Zenon
<1>4. QED
  BY <1>2, <1>3, Zenon

(* The region that was made for the results is discarded.                    *)
LEMMA Discards ==
  ASSUME NEW fs \in Seq(Frames), NEW r \in Seq(Nat), NEW v \in Seq(Nat), Discard(fs, r, v),
         Len(r) = Bottom(fs).region + 1, r[Len(r)] = Bottom(fs).sval,
         Bottom(fs).sval <= Len(v)
  PROVE  /\ region' \in Seq(Nat) /\ Len(region') = Bottom(fs).region
         /\ \A k \in 1..Bottom(fs).region : region'[k] = r[k]
         /\ sval' \in Seq(Nat) /\ Len(sval') = Bottom(fs).sval
<1> DEFINE a == Bottom(fs).region
           b == Bottom(fs).sval
<1>1. Bottom(fs) \in Extent /\ Pile(fs) = a
  BY BottomIs, Zenon
<1>2. a \in Nat /\ b \in Nat
  BY <1>1, ExtentTyped, Zenon
<1>3. region' = Front(r) /\ sval' = Cut(v, b)
  BY <1>1, Zenon DEF Discard, Top
<1>4. Len(r) = a + 1 /\ b <= Len(v)
  OBVIOUS
<1> HIDE DEF a, b
<1>5. Len(r) > 0 /\ Len(r) - 1 = a
  BY ONLY <1>2, <1>4
<1>6. /\ region' \in Seq(Nat) /\ Len(region') = Len(r) - 1
      /\ \A k \in 1..(Len(r) - 1) : region'[k] = r[k]
  BY ONLY <1>3, <1>5, r \in Seq(Nat), FrontIs
<1>7. sval' \in Seq(Nat) /\ Len(sval') = b
  BY ONLY <1>2, <1>3, <1>4, v \in Seq(Nat), CutIs
<1>8. QED
  BY <1>5, <1>6, <1>7, Zenon DEF a, b

(* A function that was called from C is left, down to where it was called.   *)
LEMMA MainLeft ==
  ASSUME Typed, Stacked, Fits(prog), NEW m \in Nat, m + 1 <= Len(frames),
         MainFits(frames, region, m + 1), prog' = prog,
         frames' \in Seq(Frames), Len(frames') = m, \A k \in 1..m : frames'[k] = frames[k],
         NEW r \in Seq(Nat), Len(r) = frames[m + 1].region,
         \A k \in 1..frames[m + 1].region : r[k] = region[k],
         NEW v \in Seq(Nat), Depth(frames[m + 1]) <= Len(v),
         rwith' \in Seq(Nat), Len(rwith') = frames[m + 1].rwith,
         \A k \in 1..frames[m + 1].rwith : rwith'[k] = rwith[k],
         swith' = frames[m + 1].swith,
         \/ mode' = "results" /\ region' = r /\ sval' = v
         \/ mode' = "native" /\ Discard(frames', r, v)
  PROVE  /\ Stacked' /\ Modes'
         /\ region' \in Seq(Nat) /\ sval' \in Seq(Nat) /\ swith' \in Nat
<1> DEFINE f == frames[m + 1]
           x == Bottom(frames')
<1>1. m + 1 \in 1..Len(frames) /\ (m + 1) - 1 = m /\ frames \in Seq(Frames) /\ f \in Frames
      /\ m + 1 <= Len(frames)
  BY TypedIs
<1>2. /\ f.region = x.region + 1 /\ region[f.region] = x.sval /\ Depth(f) = x.sval
      /\ f.rwith = x.rwith /\ f.swith = x.swith
      /\ frames' # <<>> => IsC(frames'[Len(frames')])
  <2> DEFINE n == m + 1
  <2>1. Len(frames') = n - 1 /\ \A k \in 1..(n - 1) : frames'[k] = frames[k]
    BY <1>1, Zenon
  <2>2. /\ MainFits(frames, region, n) /\ frames' \in Seq(Frames) /\ frames \in Seq(Frames)
        /\ n \in 1..Len(frames)
    BY <1>1
  <2> HIDE DEF n
  <2>3. /\ frames[n].region = Bottom(frames').region + 1
        /\ region[frames[n].region] = Bottom(frames').sval /\ Depth(frames[n]) = Bottom(frames').sval
        /\ frames[n].rwith = Bottom(frames').rwith /\ frames[n].swith = Bottom(frames').swith
        /\ frames' # <<>> => IsC(frames'[Len(frames')])
    BY ONLY <2>1, <2>2, MainBelow, Zenon
  <2>4. QED
    BY <2>3, Zenon DEF n
<1>3. x \in Extent /\ x.region \in Nat /\ x.sval \in Nat /\ x.rwith \in Nat /\ x.swith \in Nat
  <2>1. x \in Extent
    BY BottomIs, Zenon
  <2>2. QED
    BY <2>1, ExtentTyped, Zenon
<1>4. InsideC'
  BY <1>2, Zenon DEF InsideC
<1> HIDE DEF f, x
<1>5. f.region = x.region + 1 /\ f.region \in 1..f.region
  BY ONLY <1>2, <1>3
<1>6. Len(r) = x.region + 1 /\ r[Len(r)] = x.sval /\ x.sval <= Len(v)
  BY <1>2, <1>5, Zenon DEF f
<1>7. swith' \in Nat
  BY <1>2, <1>3, Zenon DEF f
<1>8. ASSUME region' \in Seq(Nat), \A k \in 1..x.region : region'[k] = r[k]
      PROVE  Nested(prog, frames', region', rwith')
  <2>1. m > 0 => /\ m \in 1..Len(frames) /\ m <= m + 1 /\ frames[m] \in Frames
    BY <1>1
  <2>2. m > 0 => Above(To(f), frames[m])
    BY <1>1, <2>1, Zenon DEF Stacked, Nested, f
  <2>3. m > 0 => frames'[Len(frames')] = frames[m]
    <3>1. m > 0 => m \in 1..m
      OBVIOUS
    <3>2. QED
      BY <3>1, Zenon
  <2>4. m > 0 => frames[m].region = x.region /\ frames[m].rwith = f.rwith
    <3>1. m > 0 => frames' # <<>>
      OBVIOUS
    <3>2. m > 0 => x.region = frames'[Len(frames')].region /\ x.rwith = frames'[Len(frames')].rwith
      BY <3>1, BottomIs, Zenon DEF x
    <3>3. QED
      BY <1>2, <2>3, <3>2, Zenon
  <2>5. ASSUME m > 0
        PROVE  /\ \A k \in 1..frames[m].region : region'[k] = region[k]
               /\ \A k \in 1..frames[m].rwith : rwith'[k] = rwith[k]
    <3>1. \A k \in 1..x.region : k \in 1..(x.region + 1)
      BY <1>3
    <3>2. \A k \in 1..x.region : region'[k] = region[k]
      BY <1>2, <1>8, <3>1, Zenon DEF f
    <3>3. QED
      BY <2>4, <2>5, <3>2, Zenon DEF f
  <2>6. Nested(prog, frames, region, rwith) /\ region \in Seq(Nat) /\ rwith \in Seq(Nat)
    BY Zenon DEF Stacked, Typed
  <2>7. m \in 0..Len(frames) /\ m = Len(frames')
    BY <1>1
  <2>8. region' \in Seq(Nat) /\ frames \in Seq(Frames)
    BY <1>1, <1>8
  <2>9. /\ Fits(prog) /\ frames' \in Seq(Frames) /\ rwith' \in Seq(Nat)
        /\ \A k \in 1..m : frames'[k] = frames[k]
    OBVIOUS
  <2>10. QED
    BY ONLY <2>5, <2>6, <2>7, <2>8, <2>9, NestedCut, ZenonT(60)
<1>9. CASE mode' = "native" /\ Discard(frames', r, v)
  <2>1. /\ region' \in Seq(Nat) /\ Len(region') = x.region
        /\ \A k \in 1..x.region : region'[k] = r[k]
        /\ sval' \in Seq(Nat) /\ Len(sval') = x.sval
    BY <1>6, <1>9, Discards, Zenon DEF x
  <2>2. Nested(prog, frames', region', rwith')
    BY <1>8, <2>1, Zenon
  <2>3. Now' = Bottom(frames')
    <3>1. Len(rwith') = x.rwith /\ swith' = x.swith
      BY <1>2, Zenon DEF f
    <3>2. Now' = [region |-> x.region, sval |-> x.sval, rwith |-> x.rwith, swith |-> x.swith]
      BY <2>1, <3>1 DEF Now
    <3>3. QED
      BY <1>3, <3>2 DEF Extent, x
  <2>4. Stacked' /\ Modes'
    BY <1>4, <1>9, <2>2, <2>3, NativeIs, Zenon
  <2>5. QED
    BY <1>7, <2>1, <2>4, Zenon
<1>10. CASE mode' = "results" /\ region' = r /\ sval' = v
  <2>1. region' \in Seq(Nat) /\ sval' \in Seq(Nat)
    BY <1>10, Zenon
  <2>2. Nested(prog, frames', region', rwith')
    BY <1>8, <1>10, <2>1, Zenon
  <2>3. Reads'
    <3>1. /\ Len(region') = x.region + 1 /\ region'[Len(region')] = x.sval
          /\ x.sval <= Len(sval') /\ Len(rwith') = x.rwith /\ swith' = x.swith
      BY <1>2, <1>6, <1>10, Zenon DEF f
    <3>2. Len(sval') >= x.sval
      BY <1>3, <2>1, <3>1
    <3>3. QED
      BY <3>1, <3>2, Zenon DEF Reads, x
  <2>4. Modes'
    BY <1>4, <1>10, <2>3 DEF Modes
  <2>5. ASSUME frames' # <<>>
        PROVE  Above(Now', frames'[Len(frames')])
    <3> DEFINE g == frames'[Len(frames')]
    <3>1. /\ Len(frames') \in 1..Len(frames') /\ g \in Frames
          /\ x.region = g.region /\ x.sval = g.sval /\ x.rwith = g.rwith
      BY <2>5, BottomIs, Zenon DEF x
    <3>2. IsC(g)
      BY <2>5, <1>4, Zenon DEF InsideC
    <3>3. CFits(g)
      BY <2>2, <3>1, Zenon DEF Nested, FrameFits
    <3>4. Depth(g) = g.args /\ g.args <= g.sval
      BY <3>2, <3>3 DEF Depth, IsC, CFits
    <3>5. g.args \in Nat
      BY <3>1, FrameTyped, Zenon
    <3>6. /\ Now'.region = Len(region') /\ Now'.sval = Len(sval') /\ Now'.rwith = Len(rwith')
      BY DEF Now
    <3>7. /\ Len(region') = g.region + 1 /\ g.sval <= Len(sval') /\ Len(rwith') = g.rwith
      BY <1>2, <1>6, <1>10, <3>1, Zenon DEF f
    <3>8. /\ g.region \in Nat /\ g.sval \in Nat /\ g.rwith \in Nat /\ Len(sval') \in Nat
      BY <1>3, <2>1, <3>1, LenProperties, Zenon
    <3> HIDE DEF g
    <3>9. g.region <= Len(region') /\ Depth(g) <= Len(sval') /\ g.rwith <= Len(rwith')
      BY ONLY <3>4, <3>5, <3>7, <3>8
    <3>10. QED
      BY <3>6, <3>9, Zenon DEF Above, g
  <2>6. Stacked'
    BY <2>2, <2>5, Zenon DEF Stacked
  <2>7. QED
    BY <1>7, <2>1, <2>4, <2>6, Zenon
<1>11. QED
  BY <1>9, <1>10, Zenon

LEMMA ResultsKeeps ==
  ASSUME Verified, IInv, Results PROVE IInv'
<1> DEFINE x == Bottom(frames)
<1>1. /\ mode = "results" /\ mode' = "native" /\ Discard(frames, region, sval)
      /\ UNCHANGED <<prog, pc, frames, rwith, swith, recurse, e, calls, blame>>
  BY DEF Results
<1>2. /\ Typed /\ InsideC /\ Reads /\ Fits(prog)
  BY <1>1 DEF IInv, Modes, Verified, Typed
<1>3. /\ frames \in Seq(Frames) /\ region \in Seq(Nat) /\ sval \in Seq(Nat) /\ rwith \in Seq(Nat)
  BY <1>2 DEF Typed
<1>4. x \in Extent /\ x.region \in Nat /\ x.sval \in Nat
  <2>1. x \in Extent
    BY <1>3, BottomIs, Zenon
  <2>2. QED
    BY <2>1, ExtentTyped, Zenon
<1>5. /\ Len(region) = x.region + 1 /\ region[Len(region)] = x.sval
      /\ Len(sval) >= x.sval /\ Len(rwith) = x.rwith /\ swith = x.swith
  BY <1>2, Zenon DEF Reads
<1>6. x.sval <= Len(sval)
  BY <1>3, <1>4, <1>5
<1>7. /\ region' \in Seq(Nat) /\ Len(region') = x.region
      /\ \A k \in 1..x.region : region'[k] = region[k]
      /\ sval' \in Seq(Nat) /\ Len(sval') = x.sval
  BY <1>1, <1>3, <1>5, <1>6, Discards, Zenon
<1>8. /\ prog' = prog /\ frames' = frames /\ rwith' = rwith /\ swith' = swith
      /\ recurse' = recurse /\ calls' = calls /\ e' = e /\ blame' = blame /\ pc' = pc
  BY <1>1
<1>9. Nested(prog, frames, region', rwith)
  <2>1. Nested(prog, frames, region, rwith)
    BY DEF IInv, Stacked
  <2>2. Len(frames) \in Nat /\ Len(frames) \in 0..Len(frames)
    BY <1>3
  <2>3. Len(frames) > 0 => \A k \in 1..frames[Len(frames)].region : region'[k] = region[k]
    <3>1. Len(frames) > 0 => frames # <<>>
      BY <1>3
    <3>2. Len(frames) > 0 => x.region = frames[Len(frames)].region
      BY <1>3, <3>1, BottomIs, Zenon
    <3>3. QED
      BY <1>7, <3>2, Zenon
  <2>4. \A k \in 1..Len(frames) : frames[k] = frames[k]
    OBVIOUS
  <2>5. QED
    BY <1>2, <1>3, <1>7, <2>1, <2>2, <2>3, <2>4, NestedCut, ZenonT(60)
<1>10. Now' = Bottom(frames')
  <2>1. Now' = [region |-> x.region, sval |-> x.sval, rwith |-> x.rwith, swith |-> x.swith]
    BY <1>5, <1>7, <1>8 DEF Now
  <2>2. Bottom(frames') = x
    BY <1>8, Zenon
  <2> HIDE DEF x
  <2>3. QED
    BY <1>4, <2>1, <2>2 DEF Extent
<1>11. Stacked' /\ Modes'
  <2>1. Nested(prog, frames', region', rwith') /\ InsideC' /\ frames' \in Seq(Frames)
    BY <1>2, <1>3, <1>8, <1>9, Zenon DEF InsideC
  <2>2. QED
    BY <1>1, <1>8, <1>10, <2>1, NativeIs, Zenon
<1>12. Counts' /\ Typed' /\ Quiet'
  <2>1. Counts /\ Quiet
    BY DEF IInv
  <2>2. Counts'
    BY <1>8, <2>1, CountsSame, Zenon
  <2>3. Typed'
    BY <1>1, <1>2, <1>7, <1>8 DEF Typed
  <2>4. QED
    BY <1>8, <2>1, <2>2, <2>3 DEF Quiet
<1>13. QED
  BY <1>11, <1>12, Zenon DEF IInv

LEMMA CallBackKeeps ==
  ASSUME Verified, IInv, CallBack PROVE IInv'
<1> DEFINE n == Len(frames)
           g == SaveFrame("Main", 0, region')
           c == [Wanted("Main", Len(sval), 0) EXCEPT !.pc = 0]
           h == Append(frames, g)
<1>1. /\ mode = "native" /\ ~ TooDeep /\ region' = Append(region, Len(sval))
      /\ frames' = h /\ recurse' = recurse + 1 /\ calls' = Append(calls, c)
      /\ e' = Append(e, FALSE) /\ pc' = 1 /\ mode' = "run" /\ prog' = prog
      /\ sval' = sval /\ rwith' = rwith /\ swith' = swith /\ blame' = blame
  BY DEF CallBack, Native, Enter
<1>2. /\ Typed /\ InsideC /\ Now = Bottom(frames) /\ Fits(prog)
  BY <1>1 DEF IInv, Modes, Verified, Typed
<1>3. /\ frames \in Seq(Frames) /\ region \in Seq(Nat) /\ sval \in Seq(Nat)
      /\ rwith \in Seq(Nat) /\ swith \in Nat
  BY <1>2 DEF Typed
<1>4. Len(sval) \in Nat /\ Len(rwith) \in Nat /\ Len(region) \in Nat /\ n \in Nat
  BY <1>3
<1>5. /\ region' \in Seq(Nat) /\ Len(region') = Len(region) + 1
      /\ \A k \in 1..Len(region) : region'[k] = region[k]
      /\ region'[Len(region) + 1] = Len(sval)
  BY ONLY <1>1, <1>3, <1>4, AppendIs
<1>6. /\ g \in Frames /\ g.type = "Main" /\ g.pc = 0 /\ g.pc2 = 0 /\ g.cont = ""
      /\ g.sval = Len(sval) /\ g.region = Len(region') /\ g.swith = swith /\ g.rwith = Len(rwith)
  <2>1. Len(region') \in Nat
    BY <1>5
  <2>2. QED
    BY ONLY <1>3, <1>4, <2>1 DEF SaveFrame, Frames, Uncil
<1> HIDE DEF g
<1>7. h \in Seq(Frames) /\ Len(h) = n + 1 /\ (\A k \in 1..n : h[k] = frames[k]) /\ h[n + 1] = g
  <2>1. frames \in Seq(Frames) /\ g \in Frames
    BY <1>3, <1>6
  <2>2. QED
    BY ONLY <2>1, AppendIs
<1>8. /\ g.type \in Uncil /\ Depth(g) = g.sval /\ Kind(g) = "Main" /\ Counted(g) /\ ~ IsC(g)
  BY ONLY <1>6 DEF Uncil, Depth, Kind, Counted, IsC
<1>9. c \in Requests /\ Answers(c, g)
  <2>1. c = [kind |-> "Main", base |-> Len(sval), pc |-> 0, out |-> 0, owed |-> <<>>]
    BY DEF Wanted
  <2> HIDE DEF c
  <2>2. c \in Requests
    BY ONLY <1>4, <2>1 DEF Requests, Uncil
  <2>3. c.kind = "Main" /\ c.base = Len(sval) /\ c.out = 0
    BY ONLY <2>1
  <2>4. QED
    BY ONLY <1>6, <1>8, <2>2, <2>3 DEF Answers
<1> HIDE DEF c, h, n
<1>10. n + 1 > 0 /\ n \in 0..Len(frames) /\ (n > 0 => n \in 1..n /\ frames # <<>>) /\ n + 1 \in 1..(n + 1)
  BY <1>3, <1>4 DEF n
<1>11. n > 0 => Above(Now, frames[n]) /\ IsC(frames[n]) /\ frames[n] \in Frames
  <2>1. Stacked
    BY DEF IInv
  <2>2. n > 0 => frames[n] \in Frames
    BY <1>3, <1>10 DEF n
  <2>3. QED
    BY <1>2, <1>10, <2>1, <2>2, Zenon DEF Stacked, InsideC, n
<1>12. /\ Now.region = Len(region) /\ Now.sval = Len(sval) /\ Now.rwith = Len(rwith) /\ Now.swith = swith
  BY <1>2, NowTyped, Zenon
<1>13. MainFits(h, region', n + 1)
  <2>1. region'[g.region] = Len(sval)
    BY <1>5, <1>6, Zenon
  <2>2. /\ n = 0 => Len(region) = 0 /\ Len(sval) = 0 /\ Len(rwith) = 0 /\ swith = 0
    <3>1. n = 0 => frames = <<>>
      BY <1>3 DEF n
    <3>2. QED
      BY <1>2, <1>3, <1>12, <3>1, BottomIs, Zenon
  <2>3. n + 1 = 1 => n = 0 /\ g.region = 1
    <3>1. (n + 1 = 1 => n = 0) /\ 0 + 1 = 1
      BY ONLY <1>4
    <3>2. QED
      BY <1>5, <1>6, <2>2, <3>1, Zenon
  <2>4. n + 1 > 1 => n > 0 /\ (n + 1) - 1 = n
    BY <1>4
  <2>5. n > 0 => /\ Len(region) = frames[n].region /\ Len(sval) = frames[n].sval
                 /\ Len(rwith) = frames[n].rwith /\ swith = frames[n].swith
    BY <1>2, <1>3, <1>10, <1>12, BottomIs, Zenon DEF n
  <2>6. n > 0 => h[n] = frames[n]
    BY <1>7, <1>10, Zenon
  <2>7. n + 1 > 1 => /\ IsC(h[(n + 1) - 1]) /\ g.region = h[(n + 1) - 1].region + 1
                     /\ Depth(g) = h[(n + 1) - 1].sval /\ g.rwith = h[(n + 1) - 1].rwith
                     /\ g.swith = h[(n + 1) - 1].swith
    BY <1>5, <1>6, <1>8, <1>11, <2>4, <2>5, <2>6, Zenon
  <2>8. n + 1 = 1 => g.region = 1 /\ Depth(g) = 0 /\ g.rwith = 0 /\ g.swith = 0
    BY <1>6, <1>8, <2>2, <2>3, Zenon
  <2>9. g.pc = 0 /\ g.pc2 = 0 /\ region'[g.region] = Depth(g)
    BY <1>6, <1>8, <2>1, Zenon
  <2>10. QED
    BY <1>7, <2>7, <2>8, <2>9, Zenon DEF MainFits
<1>14. FrameFits(prog, h, region', rwith, n + 1)
  <2>1. CFits(g) /\ g.type # "Try"
    BY <1>6, <1>8 DEF CFits
  <2>2. QED
    BY <1>7, <1>8, <1>13, <2>1, Zenon DEF FrameFits
<1>15. Nested(prog, h, region', rwith)
  <2>1. Nested(prog, frames, region, rwith)
    BY DEF IInv, Stacked
  <2>2. n > 0 => \A k \in 1..frames[n].region : region'[k] = region[k]
    <3>1. n > 0 => frames[n].region <= Len(region) /\ frames[n].region \in Nat
      BY <1>11, <1>12, FrameTyped, Zenon DEF Above
    <3>2. n > 0 => \A k \in 1..frames[n].region : k \in 1..Len(region)
      BY ONLY <1>4, <3>1
    <3>3. QED
      BY <1>5, <3>2, Zenon
  <2>3. n > 0 => Above(To(g), frames[n])
    <3>1. /\ To(g).region = Len(region) + 1 /\ To(g).sval = Len(sval) /\ To(g).rwith = Len(rwith)
      BY <1>5, <1>6, <1>8, ToTyped, Zenon
    <3>2. n > 0 => /\ Depth(frames[n]) <= Len(sval) /\ frames[n].region <= Len(region)
                   /\ frames[n].rwith <= Len(rwith) /\ frames[n].region \in Nat
      BY <1>11, <1>12, FrameTyped, Zenon DEF Above
    <3>3. n > 0 => frames[n].region <= Len(region) + 1
      BY ONLY <1>4, <3>2
    <3>4. QED
      BY <3>1, <3>2, <3>3, Zenon DEF Above
  <2>4. n > 0 => \A k \in 1..frames[n].rwith : rwith[k] = rwith[k]
    OBVIOUS
  <2>5. n > 0 => Above(To(h[n + 1]), frames[n])
    BY <1>7, <2>3, Zenon
  <2>6. n > 0 => /\ \A k \in 1..frames[n].region : region'[k] = region[k]
                 /\ \A k \in 1..frames[n].rwith : rwith[k] = rwith[k]
                 /\ Above(To(h[n + 1]), frames[n])
    BY <2>2, <2>4, <2>5, Zenon
  <2>7. QED
    BY ONLY <1>2, <1>3, <1>5, <1>7, <1>10, <1>14, <2>1, <2>6, NestedPush, Zenon
<1>16. Stacked' /\ Modes'
  <2>1. /\ frames' \in Seq(Frames) /\ region' \in Seq(Nat) /\ sval' \in Seq(Nat)
        /\ rwith' \in Seq(Nat) /\ swith' \in Nat /\ Nested(prog, frames', region', rwith')
        /\ n + 1 = Len(frames') /\ g = frames'[n + 1]
    BY <1>1, <1>3, <1>5, <1>7, <1>15, Zenon
  <2>2. g.region = Len(region') /\ g.sval = Len(sval') /\ g.rwith = Len(rwith') /\ g.swith = swith'
    BY <1>1, <1>6, Zenon
  <2>3. QED
    BY <1>1, <1>2, <1>8, <1>10, <2>1, <2>2, Enters, Zenon
<1>17. recurse \in Nat /\ recurse \in 0..Limit /\ Limit \in Nat /\ calls \in Seq(Requests)
       /\ Len(e) \in Nat /\ e \in Seq(BOOLEAN)
  BY <1>2, TypedIs, Zenon
<1>18. e' \in Seq(BOOLEAN) /\ Len(e') = Len(e) + 1 /\ (\A k \in 1..Len(e) : e'[k] = e[k])
       /\ e'[Len(e) + 1] = FALSE
  <2>1. FALSE \in BOOLEAN
    OBVIOUS
  <2>2. QED
    BY ONLY <1>1, <1>17, <2>1, AppendIs
<1>19. Counts'
  <2>1. Tallied(frames, n, recurse, calls, Len(e))
    BY DEF IInv, Counts, n
  <2>2. Tallied(h, n, recurse, calls, Len(e))
    BY <1>4, <1>7, <2>1, TallySame, Zenon
  <2>3. Counted(h[n + 1]) /\ Answers(c, h[n + 1])
    BY <1>7, <1>8, <1>9, Zenon
  <2>4. Tallied(h, n + 1, recurse + IF h[n + 1].type \in Uncil THEN 1 ELSE 0,
                 Append(calls, c), Len(e) + IF Kind(h[n + 1]) = "Main" THEN 1 ELSE 0)
    BY <1>4, <1>9, <1>17, <2>2, <2>3, TallyPush, Zenon
  <2>5. Tallied(h, n + 1, recurse + 1, Append(calls, c), Len(e) + 1)
    BY <1>7, <1>8, <2>4, Zenon
  <2>6. QED
    BY <1>1, <1>7, <1>18, <2>5, Zenon DEF Counts
<1>20. Typed'
  <2>1. recurse' \in 0..Limit
    <3>1. ~ (recurse >= Limit) /\ recurse' = recurse + 1
      BY <1>1 DEF TooDeep
    <3>2. QED
      BY ONLY <1>17, <3>1
  <2>2. calls' \in Seq(Requests)
    BY ONLY <1>1, <1>9, <1>17, AppendIs
  <2>3. QED
    BY <1>1, <1>2, <1>3, <1>5, <1>7, <1>18, <2>1, <2>2 DEF Typed
<1>21. Quiet'
  <2>1. Quiet
    BY DEF IInv
  <2>2. \A i \in 1..(Len(e) + 1) : i \in 1..Len(e) \/ i = Len(e) + 1
    BY <1>17
  <2>3. QED
    BY <1>18, <2>1, <2>2, Zenon DEF Quiet
<1>22. QED
  BY <1>16, <1>19, <1>20, <1>21, Zenon DEF IInv

-----------------------------------------------------------------------------
(* Returns and errors, to where a function was called from.                  *)

LEMMA CallerOps ==
  ASSUME NEW f \in Frames, NEW q, f.type # "Try", Kind(f) # "Main", CalledBy(f, q), CFits(f)
  PROVE  q.op \in CallOps
<1>1. f.type \in Uncil \cup {"Try", "CallC", "CallCSpew"} /\ f.cont \in {"", "call", "inext", "inexts", "tail"}
  BY DEF Frames
<1>2. CASE f.type \in Uncil
  BY <1>2 DEF Kind, CalledBy, Counted, Uncil, CallOps
<1>3. CASE f.type \notin Uncil /\ f.cont = "tail"
  <2>1. IsC(f)
    BY <1>1, <1>3 DEF IsC
  <2>2. f.tail \in Uncil
    BY <1>3, <2>1 DEF CFits
  <2>3. Kind(f) = f.tail /\ Counted(f)
    BY <1>3 DEF Kind, Counted
  <2>4. Kind(f) \in {"Call", "CallSpew", "Next", "NextSpew"}
    BY <2>2, <2>3 DEF Uncil
  <2>5. QED
    BY <2>3, <2>4 DEF CalledBy, CallOps
<1>4. CASE f.type \notin Uncil /\ f.cont # "tail"
  <2>1. IsC(f)
    BY <1>1, <1>4 DEF IsC
  <2>2. f.cont \in {"call", "inext", "inexts"}
    BY <1>1, <1>4, <2>1 DEF CFits
  <2>3. ~ Counted(f)
    BY <1>4 DEF Counted
  <2>4. QED
    BY <2>2, <2>3 DEF CalledBy, CallOps
<1>5. QED
  BY <1>2, <1>3, <1>4, Zenon

(* A function that is neither a try nor called from C was called by one that *)
(* is as it was then.                                                        *)
LEMMA CallerIs ==
  ASSUME Typed, Stacked, Fits(prog), NEW m \in Nat, m + 1 <= Len(frames),
         CallFits(prog, frames, region, rwith, m + 1), prog' = prog,
         frames' \in Seq(Frames), Len(frames') = m, \A k \in 1..m : frames'[k] = frames[k],
         region' \in Seq(Nat), \A k \in 1..frames[m + 1].region : region'[k] = region[k],
         rwith' \in Seq(Nat), \A k \in 1..frames[m + 1].rwith : rwith'[k] = rwith[k]
  PROVE  \E o \in 1..m :
           Stands(prog, frames', region', rwith', o, m, frames[m + 1].pc - 1,
                  Taken(Found(prog)[frames[m + 1].pc - 1], prog[frames[m + 1].pc - 1]),
                  To(frames[m + 1]))
<1> DEFINE f == frames[m + 1]
           i == f.pc - 1
           s == Taken(Found(prog)[i], prog[i])
<1>1. /\ frames \in Seq(Frames) /\ region \in Seq(Nat) /\ rwith \in Seq(Nat)
      /\ f \in Frames /\ (m + 1) - 1 = m /\ m <= Len(frames)
  <2>1. frames \in Seq(Frames) /\ region \in Seq(Nat) /\ rwith \in Seq(Nat) /\ Len(frames) \in Nat
    BY TypedIs, Zenon DEF Typed
  <2>2. m + 1 \in 1..Len(frames) /\ (m + 1) - 1 = m /\ m <= Len(frames)
    BY ONLY <2>1, m \in Nat, m + 1 <= Len(frames)
  <2>3. QED
    BY <2>1, <2>2
<1>2. PICK o \in 1..m : Stands(prog, frames, region, rwith, o, m, i, s, To(f))
  BY <1>1, Zenon DEF CallFits
<1>3. i \in 1..Len(prog)
  BY <1>2, Zenon DEF Stands
<1>4. s \in Seq(Levels) /\ Len(s) \in Nat \ {0}
  BY <1>3, TakenIs, Zenon
<1>5. To(f) \in Extent /\ To(f).region = f.region /\ To(f).rwith = f.rwith
  BY <1>1, ToTyped, Zenon
<1> HIDE DEF f, i, s
<1>6. Len(s) > 0
  BY ONLY <1>4
<1>7. /\ \A k \in 1..To(f).region : region'[k] = region[k]
      /\ \A k \in 1..To(f).rwith : rwith'[k] = rwith[k]
  BY <1>5, Zenon DEF f
<1>8. /\ Fits(prog) /\ frames' \in Seq(Frames) /\ region' \in Seq(Nat) /\ rwith' \in Seq(Nat)
      /\ m \in Nat /\ \A k \in 1..m : frames'[k] = frames[k]
  OBVIOUS
<1>9. Stands(prog, frames', region', rwith', o, m, i, s, To(f))
  BY ONLY <1>1, <1>2, <1>4, <1>5, <1>6, <1>7, <1>8, StandsSame, Zenon
<1>10. QED
  BY <1>9, Zenon DEF f, i, s

(* With the frames the stacks are popped, down to what the lowest found.      *)
LEMMA PopStacks ==
  ASSUME Typed, Stacked, Fits(prog), NEW m \in Nat, m + 1 <= Len(frames), prog' = prog,
         frames' \in Seq(Frames), Len(frames') = m, \A k \in 1..m : frames'[k] = frames[k],
         NEW f, f = frames[m + 1],
         region' \in Seq(Nat), Len(region') = f.region,
         \A k \in 1..f.region : region'[k] = region[k],
         rwith' \in Seq(Nat), Len(rwith') = f.rwith,
         \A k \in 1..f.rwith : rwith'[k] = rwith[k],
         swith' = f.swith, sval' \in Seq(Nat), Depth(f) <= Len(sval')
  PROVE  Stacked' /\ swith' \in Nat /\ f \in Frames
<1> DEFINE x == To(f)
<1>1. f \in Frames /\ f.swith \in Nat
  <2>1. f \in Frames
    BY TypedIs
  <2>2. QED
    BY <2>1, FrameTyped, Zenon
<1>2. x \in Extent /\ x.region = f.region /\ x.sval = Depth(f) /\ x.rwith = f.rwith
  BY <1>1, ToTyped, Zenon
<1>3. swith' \in Nat
  BY <1>1
<1>4. /\ Now' \in Extent /\ Now'.region = Len(region') /\ Now'.sval = Len(sval')
      /\ Now'.rwith = Len(rwith')
  BY <1>3, NowTypedNext, Zenon
<1> HIDE DEF x
<1>5. Now'.region = x.region /\ Now'.rwith = x.rwith /\ x.sval <= Now'.sval
  BY <1>2, <1>4, Zenon
<1>6. /\ Nested(prog', frames', region', rwith')
      /\ frames' # <<>> => Above(To(frames[m + 1]), frames'[Len(frames')])
  <2>1. /\ \A k \in 1..frames[m + 1].region : region'[k] = region[k]
        /\ \A k \in 1..frames[m + 1].rwith : rwith'[k] = rwith[k]
    BY Zenon
  <2>2. /\ Typed /\ Stacked /\ m + 1 <= Len(frames) /\ prog' = prog /\ Len(frames') = m
        /\ \A k \in 1..m : frames'[k] = frames[k]
        /\ Fits(prog)
        /\ frames' \in Seq(Frames) /\ region' \in Seq(Nat) /\ rwith' \in Seq(Nat) /\ m \in Nat
    OBVIOUS
  <2>3. QED
    BY ONLY <2>1, <2>2, PoppedTo, Zenon
<1>7. ASSUME frames' # <<>>
      PROVE  Above(Now', frames'[Len(frames')])
  <2> DEFINE g == frames'[Len(frames')]
  <2>1. Above(x, g)
    BY <1>6, <1>7, Zenon DEF x
  <2>2. g \in Frames
    BY <1>7
  <2>3. Depth(g) \in Nat
    BY <2>2, FrameTyped, Zenon
  <2>4. x.sval \in Nat /\ Now'.sval \in Nat
    BY <1>2, <1>4, ExtentTyped, Zenon
  <2>5. Depth(g) <= x.sval
    BY <2>1, Zenon DEF Above
  <2> HIDE DEF g
  <2>6. Depth(g) <= Now'.sval
    BY ONLY <1>5, <2>3, <2>4, <2>5
  <2>7. QED
    BY <1>5, <2>1, <2>6, Zenon DEF Above, g
<1>8. QED
  BY <1>1, <1>3, <1>6, <1>7, Zenon DEF Stacked

LEMMA ReturnsTo ==
  ASSUME Typed, Stacked, Fits(prog), NEW m \in Nat, m + 1 <= Len(frames),
         CallFits(prog, frames, region, rwith, m + 1), prog' = prog, mode' = "run",
         frames' \in Seq(Frames), Len(frames') = m, \A k \in 1..m : frames'[k] = frames[k],
         NEW f, f = frames[m + 1], NEW q, q = prog[f.pc - 1], q.op \in CallOps,
         region' \in Seq(Nat), Len(region') = f.region,
         \A k \in 1..f.region : region'[k] = region[k],
         rwith' \in Seq(Nat), Len(rwith') = f.rwith,
         \A k \in 1..f.rwith : rwith'[k] = rwith[k],
         swith' = f.swith, sval' \in Seq(Nat), Depth(f) <= Len(sval'),
         \/ pc' = f.pc /\ (Len(sval') = Depth(f) \/ Spreads(q))
         \/ pc' = q.to /\ q.op \in {"inext", "inexts"} /\ Len(sval') = Depth(f)
  PROVE  Stacked' /\ Modes' /\ swith' \in Nat /\ pc' \in Nat
<1> DEFINE i == f.pc - 1
           s == Taken(Found(prog)[i], q)
           x == To(f)
<1>1. f \in Frames /\ f.pc \in Nat /\ f.swith \in Nat
  <2>1. f \in Frames
    BY TypedIs
  <2>2. QED
    BY <2>1, FrameTyped, Zenon
<1>2. PICK o \in 1..m : Stands(prog, frames', region', rwith', o, m, i, s, x)
  BY CallerIs, Zenon
<1>3. /\ i \in 1..Len(prog) /\ Tries(frames', o, m, q.at.tries)
      /\ Leveled(region', frames'[o], s, x) /\ Closable(rwith', frames'[o], q.at.withs, x)
  BY <1>2, Zenon DEF Stands
<1>4. /\ s \in Seq(Levels) /\ Len(s) \in Nat \ {0}
  BY <1>3, TakenIs, Zenon
<1>5. x \in Extent /\ x.region = f.region /\ x.sval = Depth(f) /\ x.rwith = f.rwith /\ x.swith = f.swith
  BY <1>1, ToTyped, Zenon
<1>6. q.at.withs \in Seq(Nat)
  BY <1>3, CodeAt, Zenon
<1>7. /\ \A j \in Goes(q) : Leads(prog, Found(prog), j, Found(prog)[i], q.at.tries, q.at.withs)
      /\ \A j \in Follows(q, i) :
           Leads(prog, Found(prog), j, After(Found(prog)[i], q), TriesAfter(q), WithsAfter(q))
  BY <1>3, LeadsTo, Zenon
<1>8. swith' \in Nat
  BY <1>1
<1>9. /\ Now' \in Extent /\ Now'.region = Len(region') /\ Now'.sval = Len(sval')
      /\ Now'.rwith = Len(rwith') /\ Now'.swith = swith'
  BY <1>8, NowTypedNext, Zenon
<1>10. frames'[o] \in Frames /\ m <= Len(frames') /\ i + 1 = f.pc
  <2>1. frames'[o] \in Frames /\ m <= Len(frames')
    BY ONLY o \in 1..m, m \in Nat, frames' \in Seq(Frames), Len(frames') = m
  <2>2. i + 1 = f.pc
    BY ONLY <1>1
  <2>3. QED
    BY <2>1, <2>2
<1> HIDE DEF i, s, x
<1>11. /\ Now'.region = x.region /\ Now'.rwith = x.rwith /\ Now'.swith = x.swith
       /\ x.sval <= Now'.sval
  BY <1>5, <1>9, Zenon
<1>12. Closable(rwith', frames'[o], q.at.withs, Now')
  <2>1. \A k \in 1..x.rwith : rwith'[k] = rwith'[k]
    OBVIOUS
  <2>2. rwith' \in Seq(Nat)
    OBVIOUS
  <2>3. QED
    BY ONLY <1>3, <1>5, <1>6, <1>9, <1>10, <1>11, <2>1, <2>2, ClosableSame, Zenon
<1>13. x.region <= Len(region') /\ Now'.region <= Len(region') /\ Len(s) > 0
  <2>1. Len(region') <= Len(region')
    OBVIOUS
  <2>2. Len(s) > 0
    BY ONLY <1>4
  <2>3. QED
    BY <1>5, <1>9, <2>1, <2>2, Zenon
<1>14. ASSUME Now'.sval = x.sval PROVE Leveled(region', frames'[o], s, Now')
  <2>1. \A k \in 1..x.region : region'[k] = region'[k]
    OBVIOUS
  <2>2. region' \in Seq(Nat)
    OBVIOUS
  <2>3. QED
    BY ONLY <1>3, <1>4, <1>5, <1>9, <1>10, <1>11, <1>13, <1>14, <2>1, <2>2, LeveledSame, Zenon
<1>15. ASSUME Spreads(q)
       PROVE  Leveled(region', frames'[o], Spread(s), Now')
  <2>1. Now'.sval >= x.sval
    <3>1. x.sval \in Nat /\ Now'.sval \in Nat
      BY <1>5, <1>9, ExtentTyped, Zenon
    <3>2. QED
      BY ONLY <1>11, <3>1
  <2>2. region' \in Seq(Nat)
    OBVIOUS
  <2>3. QED
    BY ONLY <1>3, <1>4, <1>5, <1>9, <1>10, <1>11, <1>13, <2>1, <2>2, LeveledSpread, Zenon
<1>16. \E t \in Seq(Levels) :
         /\ Len(t) > 0 /\ Leads(prog, Found(prog), pc', t, q.at.tries, q.at.withs)
         /\ Leveled(region', frames'[o], t, Now')
  <2>1. CASE pc' = f.pc /\ (Len(sval') = Depth(f) \/ Spreads(q))
    <3>1. pc' \in Follows(q, i)
      BY <1>10, <2>1 DEF Follows, CallOps
    <3>2. /\ After(Found(prog)[i], q) = IF Spreads(q) THEN Spread(s) ELSE s
          /\ TriesAfter(q) = q.at.tries /\ WithsAfter(q) = q.at.withs
      BY DEF After, TriesAfter, WithsAfter, CallOps, s
    <3>3. Leads(prog, Found(prog), pc', IF Spreads(q) THEN Spread(s) ELSE s, q.at.tries, q.at.withs)
      BY <1>7, <3>1, <3>2, Zenon
    <3>4. CASE Spreads(q)
      <4>1. Spread(s) \in Seq(Levels) /\ Len(Spread(s)) > 0
        BY <1>4, <1>13, SpreadIs
      <4>2. QED
        BY <1>15, <3>3, <3>4, <4>1, Zenon
    <3>5. CASE ~ Spreads(q)
      <4>1. Now'.sval = x.sval
        BY <1>5, <1>9, <2>1, <3>5, Zenon
      <4>2. QED
        BY <1>4, <1>13, <1>14, <3>3, <3>5, <4>1, Zenon
    <3>6. QED
      BY <3>4, <3>5, Zenon
  <2>2. CASE pc' = q.to /\ q.op \in {"inext", "inexts"} /\ Len(sval') = Depth(f)
    <3>1. pc' \in Goes(q) /\ s = Found(prog)[i]
      BY <2>2 DEF Goes, Taken, s
    <3>2. Now'.sval = x.sval
      BY <1>5, <1>9, <2>2, Zenon
    <3>3. QED
      BY <1>4, <1>7, <1>13, <1>14, <3>1, <3>2, Zenon
  <2>3. QED
    BY <2>1, <2>2, Zenon
<1>17. PICK t \in Seq(Levels) :
         /\ Len(t) > 0 /\ Leads(prog, Found(prog), pc', t, q.at.tries, q.at.withs)
         /\ Leveled(region', frames'[o], t, Now')
  BY <1>16, Zenon
<1>18. /\ Fits(prog) /\ frames' \in Seq(Frames) /\ region' \in Seq(Nat) /\ rwith' \in Seq(Nat)
       /\ m \in Nat
  OBVIOUS
<1>19. Stands(prog, frames', region', rwith', o, m, pc', Found(prog)[pc'], Now')
  BY ONLY <1>3, <1>9, <1>10, <1>12, <1>13, <1>17, <1>18, Arrives, Zenon
<1>20. Modes'
  <2>1. Stands(prog, frames', region', rwith', o, Len(frames'), pc', Found(prog)[pc'], Now')
    BY <1>19, Zenon
  <2>2. mode' = "run" /\ prog' = prog
    OBVIOUS
  <2>3. QED
    BY ONLY <2>1, <2>2, RunIs, Zenon
<1>21. Stacked'
  BY PopStacks, Zenon
<1>22. pc' \in Nat
  <2>1. pc' \in 1..Len(prog)
    BY <1>17, Zenon DEF Leads
  <2>2. QED
    BY ONLY <2>1
<1>23. QED
  BY <1>8, <1>20, <1>21, <1>22, Zenon


(* An error goes on where the function was called that it leaves.            *)
LEMMA ErrorsTo ==
  ASSUME Typed, Stacked, Fits(prog), NEW m \in Nat, m + 1 <= Len(frames),
         CallFits(prog, frames, region, rwith, m + 1), prog' = prog, mode' = "error",
         frames' \in Seq(Frames), Len(frames') = m, \A k \in 1..m : frames'[k] = frames[k],
         NEW f, f = frames[m + 1], blame' = f.pc - 1,
         region' \in Seq(Nat), Len(region') = f.region,
         \A k \in 1..f.region : region'[k] = region[k],
         rwith' \in Seq(Nat), Len(rwith') = f.rwith,
         \A k \in 1..f.rwith : rwith'[k] = rwith[k],
         swith' = f.swith, sval' \in Seq(Nat), Depth(f) <= Len(sval')
  PROVE  Stacked' /\ Modes' /\ swith' \in Nat /\ blame' \in Nat
<1>1. Stacked' /\ swith' \in Nat
  BY PopStacks, Zenon
<1>2. PICK o \in 1..m : Stands(prog, frames', region', rwith', o, m, blame',
                               Taken(Found(prog)[blame'], prog[blame']), To(f))
  BY CallerIs, Zenon
<1>3. blame' \in 1..Len(prog) /\ Tries(frames', o, m, prog[blame'].at.tries)
  BY <1>2, Zenon DEF Stands
<1>4. Raises'
  BY <1>3, Zenon DEF Raises
<1>5. Modes'
  BY <1>4 DEF Modes
<1>6. blame' \in Nat
  BY ONLY <1>3
<1>7. QED
  BY <1>1, <1>5, <1>6, Zenon

(* The tries that are dropped count as nothing.                              *)
LEMMA TallyTries ==
  ASSUME NEW fr, NEW o \in Nat, NEW rec, NEW cs, NEW runs, NEW d \in Nat,
         Tallied(fr, o + d, rec, cs, runs),
         \A k \in (o + 1)..(o + d) : ~ Counted(fr[k])
  PROVE  Tallied(fr, o, rec, cs, runs)
<1>1. /\ Uncils(fr, o + d) = Uncils(fr, o) /\ Countings(fr, o + d) = Countings(fr, o)
      /\ Mains(fr, o + d) = Mains(fr, o)
  <2>1. \A k \in 1..(o + d) : k \in 1..o \/ k \in (o + 1)..(o + d)
    OBVIOUS
  <2>2. \A k \in 1..o : k \in 1..(o + d)
    OBVIOUS
  <2>3. \A k \in (o + 1)..(o + d) : fr[k].type \notin Uncil /\ Kind(fr[k]) # "Main"
    BY DEF Counted, Kind
  <2>4. QED
    BY <2>1, <2>2, <2>3, Zenon DEF Uncils, Countings, Mains
<1>2. QED
  BY <1>1, Zenon DEF Tallied

(* A frame that counts is popped, with the call it answers.                  *)
LEMMA PopCounts ==
  ASSUME Typed, NEW m \in Nat, m + 1 <= Len(frames),
         Tallied(frames, m + 1, recurse, calls, Len(e)),
         frames' \in Seq(Frames), Len(frames') = m, \A k \in 1..m : frames'[k] = frames[k],
         NEW f, f = frames[m + 1], Counted(f),
         recurse' = recurse - (IF f.type \in Uncil THEN 1 ELSE 0), calls' = Front(calls),
         e' = IF Kind(f) = "Main" THEN Front(e) ELSE e, Quiet
  PROVE  /\ Counts' /\ recurse' \in 0..Limit /\ calls' \in Seq(Requests)
         /\ Answers(Last(calls), f) /\ Last(calls) \in Requests
         /\ e' \in Seq(BOOLEAN) /\ Quiet'
<1>1. recurse \in Nat /\ recurse \in 0..Limit /\ Limit \in Nat /\ calls \in Seq(Requests)
      /\ Len(e) \in Nat /\ e \in Seq(BOOLEAN)
  BY TypedIs, Zenon
<1>2. Tallied(frames, m + 1, recurse, calls, Len(e)) /\ Counted(frames[m + 1])
  BY Zenon
<1>3. /\ Last(calls) \in Requests /\ Answers(Last(calls), f)
      /\ Front(calls) \in Seq(Requests)
      /\ f.type \in Uncil => recurse > 0
      /\ Kind(f) = "Main" => Len(e) > 0
      /\ Tallied(frames, m, recurse - (IF f.type \in Uncil THEN 1 ELSE 0), Front(calls),
                 Len(e) - (IF Kind(f) = "Main" THEN 1 ELSE 0))
  BY <1>1, <1>2, TallyPop, Zenon
<1>4. /\ e' \in Seq(BOOLEAN) /\ Len(e') = Len(e) - (IF Kind(f) = "Main" THEN 1 ELSE 0)
      /\ Quiet'
  <2>1. CASE Kind(f) = "Main"
    <3>1. e' = Front(e) /\ Len(e) > 0
      BY <1>3, <2>1, Zenon
    <3>2. /\ e' \in Seq(BOOLEAN) /\ Len(e') = Len(e) - 1
          /\ \A i \in 1..(Len(e) - 1) : e'[i] = e[i]
      BY ONLY <1>1, <3>1, FrontIs
    <3>3. \A i \in 1..(Len(e) - 1) : i \in 1..Len(e)
      BY ONLY <1>1
    <3>4. Quiet'
      BY <3>2, <3>3, Zenon DEF Quiet
    <3>5. QED
      BY <2>1, <3>2, <3>4, Zenon
  <2>2. CASE Kind(f) # "Main"
    <3>1. e' = e /\ Len(e) = Len(e) - 0
      BY <1>1, <2>2
    <3>2. QED
      BY <1>1, <2>2, <3>1, Zenon DEF Quiet
  <2>3. QED
    BY <2>1, <2>2, Zenon
<1>5. Counts'
  <2>1. Tallied(frames, m, recurse', calls', Len(e'))
    BY <1>3, <1>4, Zenon
  <2>2. Tallied(frames', m, recurse', calls', Len(e'))
    BY ONLY <2>1, m \in Nat, \A k \in 1..m : frames'[k] = frames[k], TallySame, Zenon
  <2>3. QED
    BY <2>2, Zenon DEF Counts
<1>6. recurse' \in 0..Limit
  <2>1. CASE f.type \in Uncil
    <3>1. recurse > 0 /\ recurse' = recurse - 1
      BY <1>3, <2>1, Zenon
    <3>2. QED
      BY ONLY <1>1, <3>1
  <2>2. CASE f.type \notin Uncil
    <3>1. recurse' = recurse - 0
      BY <2>2, Zenon
    <3>2. QED
      BY ONLY <1>1, <3>1
  <2>3. QED
    BY <2>1, <2>2, Zenon
<1>7. QED
  BY <1>3, <1>4, <1>5, <1>6, Zenon

(* One that does not count is popped.                                        *)
LEMMA PopFree ==
  ASSUME NEW m \in Nat, Tallied(frames, m + 1, recurse, calls, Len(e)),
         ~ Counted(frames[m + 1]), Len(frames') = m, \A k \in 1..m : frames'[k] = frames[k],
         recurse' = recurse, calls' = calls, Len(e') = Len(e)
  PROVE  Counts'
<1>1. Tallied(frames, m, recurse, calls, Len(e))
  BY TallyKeep, Zenon
<1>2. Tallied(frames', m, recurse, calls, Len(e))
  BY ONLY <1>1, m \in Nat, \A k \in 1..m : frames'[k] = frames[k], TallySame, Zenon
<1>3. QED
  BY <1>2, Zenon DEF Counts

(* A C function that ends has its own values on the stack.                   *)
LEMMA EndsC ==
  ASSUME Verified, IInv, InC, NEW m, m = Len(frames) - 1, NEW f, f = Last(frames)
  PROVE  /\ Typed /\ Stacked /\ Quiet /\ Fits(prog)
         /\ m \in Nat /\ m + 1 = Len(frames) /\ m + 1 <= Len(frames)
         /\ frames \in Seq(Frames) /\ region \in Seq(Nat) /\ rwith \in Seq(Nat)
         /\ sval \in Seq(Nat) /\ f = frames[m + 1] /\ f \in Frames /\ IsC(f) /\ CFits(f)
         /\ f.args \in Nat /\ f.args <= Len(sval) /\ Depth(f) = f.args
         /\ Len(region) = f.region /\ Len(sval) = f.sval /\ Len(rwith) = f.rwith
         /\ swith = f.swith
         /\ Front(frames) \in Seq(Frames) /\ Len(Front(frames)) = m
         /\ \A k \in 1..m : Front(frames)[k] = frames[k]
         /\ Kind(f) = "Main" <=> f.cont = "tail" /\ f.tail = "Main"
         /\ Counted(f) <=> f.cont = "tail"
         /\ Kind(f) = "Main" => MainFits(frames, region, m + 1)
         /\ Kind(f) # "Main" => CallFits(prog, frames, region, rwith, m + 1)
         /\ Tallied(frames, m + 1, recurse, calls, Len(e))
<1>1. /\ Typed /\ Stacked /\ Quiet /\ Counts /\ mode = "native" /\ frames # <<>>
      /\ InsideC /\ Now = Bottom(frames) /\ Fits(prog)
  BY DEF IInv, InC, Native, Modes, Verified, Typed
<1>2. /\ frames \in Seq(Frames) /\ region \in Seq(Nat) /\ rwith \in Seq(Nat)
      /\ sval \in Seq(Nat) /\ Len(sval) \in Nat
  BY <1>1 DEF Typed
<1>3. Len(frames) \in Nat /\ Len(frames) > 0
  BY <1>1, <1>2
<1>4. m \in Nat /\ m + 1 = Len(frames) /\ m + 1 <= Len(frames)
  BY ONLY <1>3, m = Len(frames) - 1
<1>5. /\ Front(frames) \in Seq(Frames) /\ Len(Front(frames)) = Len(frames) - 1
      /\ \A k \in 1..(Len(frames) - 1) : Front(frames)[k] = frames[k]
      /\ f = frames[Len(frames)] /\ f \in Frames
  BY ONLY <1>2, <1>3, f = Last(frames), FrontIs
<1>6. f = frames[m + 1]
  BY <1>4, <1>5, Zenon
<1>7. IsC(f) /\ f.type \notin Uncil /\ f.type # "Try"
  BY <1>1, <1>5 DEF InsideC, IsC, Uncil
<1>8. FrameFits(prog, frames, region, rwith, m + 1)
  <2>1. m + 1 \in 1..Len(frames)
    BY ONLY <1>4
  <2>2. QED
    BY <1>1, <2>1, Zenon DEF Stacked, Nested
<1>9. CFits(f)
  BY <1>6, <1>8, Zenon DEF FrameFits
<1>10. Depth(f) = f.args /\ f.args <= f.sval
  BY <1>7, <1>9 DEF Depth, CFits, IsC
<1>11. /\ Len(region) = f.region /\ Len(sval) = f.sval /\ Len(rwith) = f.rwith
       /\ swith = f.swith
  <2>1. /\ Bottom(frames).region = f.region /\ Bottom(frames).sval = f.sval
        /\ Bottom(frames).rwith = f.rwith /\ Bottom(frames).swith = f.swith
    BY <1>1, <1>2, <1>5, BottomIs, Zenon
  <2>2. QED
    BY <1>1, <2>1, NowTyped, Zenon
<1>12. f.args \in Nat
  BY <1>5, FrameTyped, Zenon
<1>13. Kind(f) = "Main" <=> f.cont = "tail" /\ f.tail = "Main"
  BY <1>7 DEF Kind
<1>14. Counted(f) <=> f.cont = "tail"
  BY <1>7 DEF Counted
<1>15. /\ Kind(f) = "Main" => MainFits(frames, region, m + 1)
       /\ Kind(f) # "Main" => CallFits(prog, frames, region, rwith, m + 1)
  BY <1>6, <1>7, <1>8, Zenon DEF FrameFits
<1>16. Tallied(frames, m + 1, recurse, calls, Len(e))
  BY <1>1, <1>4, Zenon DEF Counts
<1>17. f.args <= Len(sval)
  BY <1>10, <1>11, Zenon
<1>18. Len(Front(frames)) = m /\ \A k \in 1..m : Front(frames)[k] = frames[k]
  BY <1>5, Zenon
<1>19. QED
  BY <1>1, <1>2, <1>4, <1>5, <1>6, <1>7, <1>9, <1>10, <1>11, <1>12, <1>13, <1>14, <1>15,
     <1>16, <1>17, <1>18, Zenon

LEMMA CFailKeeps ==
  ASSUME Verified, Plain, IInv, CFail PROVE IInv'
<1> DEFINE f == Last(frames)
           m == Len(frames) - 1
<1>1. /\ InC /\ ~ (f.cont = "tail" /\ f.tail = "Main")
      /\ frames' = Front(frames) /\ recurse' = recurse
      /\ region' = Cut(region, f.region) /\ sval' = Cut(sval, f.args)
      /\ mode' = "error"
      /\ IF f.cont = "tail" THEN blame' = Last(calls).pc /\ calls' = Front(calls)
         ELSE blame' = f.from /\ calls' = calls
      /\ UNCHANGED <<prog, pc, rwith, swith, e>>
  BY DEF CFail, Plain
<1>2. /\ Typed /\ Stacked /\ Quiet /\ Fits(prog)
      /\ m \in Nat /\ m + 1 = Len(frames) /\ m + 1 <= Len(frames)
      /\ frames \in Seq(Frames) /\ region \in Seq(Nat) /\ rwith \in Seq(Nat)
      /\ sval \in Seq(Nat) /\ f = frames[m + 1] /\ f \in Frames /\ IsC(f) /\ CFits(f)
      /\ f.args \in Nat /\ f.args <= Len(sval) /\ Depth(f) = f.args
      /\ Len(region) = f.region /\ Len(sval) = f.sval /\ Len(rwith) = f.rwith
      /\ swith = f.swith
      /\ Front(frames) \in Seq(Frames) /\ Len(Front(frames)) = m
      /\ \A k \in 1..m : Front(frames)[k] = frames[k]
      /\ Kind(f) = "Main" <=> f.cont = "tail" /\ f.tail = "Main"
      /\ Counted(f) <=> f.cont = "tail"
      /\ Kind(f) = "Main" => MainFits(frames, region, m + 1)
      /\ Kind(f) # "Main" => CallFits(prog, frames, region, rwith, m + 1)
      /\ Tallied(frames, m + 1, recurse, calls, Len(e))
  BY <1>1, EndsC, Zenon
<1>3. f.type \notin Uncil
  BY <1>2 DEF IsC, Uncil
<1> HIDE DEF f, m
<1>4. Kind(f) # "Main"
  BY <1>1, <1>2, Zenon
<1>5. region' = region
  BY ONLY <1>1, <1>2, CutWhole
<1>6. sval' \in Seq(Nat) /\ Len(sval') = f.args
  BY ONLY <1>1, <1>2, CutIs
<1>7. ASSUME f.cont = "tail"
      PROVE  /\ Counts' /\ recurse' \in 0..Limit /\ calls' \in Seq(Requests)
             /\ e' \in Seq(BOOLEAN) /\ Quiet' /\ blame' = f.pc - 1
  <2>1. recurse' = recurse - 0
    BY <1>1, <1>2, TypedIs
  <2>2. recurse' = recurse - (IF f.type \in Uncil THEN 1 ELSE 0)
    BY <1>3, <2>1, Zenon
  <2>3. /\ frames' \in Seq(Frames) /\ Len(frames') = m /\ \A k \in 1..m : frames'[k] = frames[k]
    BY <1>1, <1>2, Zenon
  <2>4. calls' = Front(calls) /\ e' = (IF Kind(f) = "Main" THEN Front(e) ELSE e) /\ Counted(f)
    BY <1>1, <1>2, <1>4, <1>7, Zenon
  <2>5. /\ Counts' /\ recurse' \in 0..Limit /\ calls' \in Seq(Requests)
        /\ Answers(Last(calls), f) /\ e' \in Seq(BOOLEAN) /\ Quiet'
    BY ONLY <1>2, <2>2, <2>3, <2>4, PopCounts, Zenon
  <2>6. blame' = f.pc - 1
    <3>1. blame' = Last(calls).pc
      BY <1>1, <1>7, Zenon
    <3>2. Last(calls).pc = f.pc - 1
      BY ONLY <1>4, <2>5 DEF Answers
    <3>3. QED
      BY <3>1, <3>2, Zenon
  <2>7. QED
    BY <2>5, <2>6, Zenon
<1>8. ASSUME f.cont # "tail"
      PROVE  /\ Counts' /\ recurse' \in 0..Limit /\ calls' \in Seq(Requests)
             /\ e' \in Seq(BOOLEAN) /\ Quiet' /\ blame' = f.pc - 1
  <2>1. /\ Len(frames') = m /\ \A k \in 1..m : frames'[k] = frames[k]
    BY <1>1, <1>2, Zenon
  <2>2. Counts'
    <3>1. /\ ~ Counted(frames[m + 1]) /\ recurse' = recurse /\ calls' = calls /\ Len(e') = Len(e)
      BY <1>1, <1>2, <1>8, Zenon
    <3>2. QED
      BY ONLY <1>2, <2>1, <3>1, PopFree, Zenon
  <2>3. recurse' \in 0..Limit /\ calls' \in Seq(Requests) /\ e' \in Seq(BOOLEAN) /\ Quiet'
    BY <1>1, <1>2, <1>8, TypedIs DEF Quiet
  <2>4. blame' = f.pc - 1
    <3>1. blame' = f.from /\ ~ Counted(f)
      BY <1>1, <1>2, <1>8, Zenon
    <3>2. CallFits(prog, frames, region, rwith, m + 1) /\ f = frames[m + 1]
      BY <1>2, <1>4, Zenon
    <3>3. f.from = f.pc - 1
      BY ONLY <3>1, <3>2 DEF CallFits
    <3>4. QED
      BY <3>1, <3>3, Zenon
  <2>5. QED
    BY <2>2, <2>3, <2>4, Zenon
<1>9. /\ Counts' /\ recurse' \in 0..Limit /\ calls' \in Seq(Requests)
      /\ e' \in Seq(BOOLEAN) /\ Quiet' /\ blame' = f.pc - 1
  BY <1>7, <1>8, Zenon
<1>10. Stacked' /\ Modes' /\ swith' \in Nat /\ blame' \in Nat
  <2>1. /\ frames' \in Seq(Frames) /\ Len(frames') = m /\ \A k \in 1..m : frames'[k] = frames[k]
    BY <1>1, <1>2, Zenon
  <2>2. /\ region' \in Seq(Nat) /\ Len(region') = f.region
        /\ \A k \in 1..f.region : region'[k] = region[k]
    BY <1>2, <1>5, Zenon
  <2>3. /\ rwith' \in Seq(Nat) /\ Len(rwith') = f.rwith /\ swith' = f.swith
        /\ \A k \in 1..f.rwith : rwith'[k] = rwith[k]
    BY <1>1, <1>2, Zenon
  <2>4. Depth(f) <= Len(sval')
    <3>1. f.args <= f.args
      BY <1>2
    <3>2. QED
      BY <1>2, <1>6, <3>1, Zenon
  <2>5. prog' = prog /\ mode' = "error" /\ CallFits(prog, frames, region, rwith, m + 1)
    BY <1>1, <1>2, <1>4, Zenon
  <2>6. QED
    BY ONLY <1>2, <1>6, <1>9, <2>1, <2>2, <2>3, <2>4, <2>5, ErrorsTo, Zenon
<1>11. Typed'
  BY <1>1, <1>2, <1>5, <1>6, <1>9, <1>10 DEF Typed
<1>12. QED
  BY <1>9, <1>10, <1>11, Zenon DEF IInv

(* What a C function returns, and where, suits the call.                     *)
LEMMA ReturnFits ==
  ASSUME NEW f \in Frames, NEW q, IsC(f), CFits(f), Kind(f) # "Main", CalledBy(f, q)
  PROVE  /\ q.op \in CallOps
         /\ f.cont \in {"inext", "inexts"} =>
              f.out = q.to /\ q.op \in {"inext", "inexts"}
         /\ f.type = "CallCSpew" /\ f.cont # "inext" => Spreads(q)
<1>1. f.cont \in {"call", "inext", "inexts", "tail"} /\ f.type \in {"CallC", "CallCSpew"}
  BY DEF CFits, IsC, Frames
<1>2. f.type \notin Uncil /\ f.type # "Try"
  BY <1>1 DEF Uncil
<1>3. q.op \in CallOps
  BY <1>2, CallerOps, Zenon
<1>4. CASE f.cont = "tail"
  <2>1. Kind(f) = f.tail /\ Counted(f)
    BY <1>2, <1>4 DEF Kind, Counted
  <2>2. f.tail \in Uncil /\ (f.type = "CallCSpew" <=> f.tail \in Spews)
    BY <1>4 DEF CFits
  <2>3. f.type = "CallCSpew" => f.tail \in {"CallSpew", "NextSpew"}
    BY <2>1, <2>2 DEF Uncil, Spews
  <2>4. f.type = "CallCSpew" => Spreads(q)
    BY <2>1, <2>3 DEF CalledBy, Spreads
  <2>5. QED
    BY <1>3, <1>4, <2>4
<1>5. CASE f.cont # "tail"
  <2>1. ~ Counted(f)
    BY <1>2, <1>5 DEF Counted
  <2>2. f.cont \in {"call", "inext", "inexts"}
    BY <1>1, <1>5
  <2>3. f.cont \in {"inext", "inexts"} => f.out = q.to /\ f.cont = q.op
    BY <2>1 DEF CalledBy
  <2>4. f.type = "CallCSpew" /\ f.cont # "inext" => Spreads(q)
    BY <2>1, <2>2 DEF CalledBy, Spreads
  <2>5. QED
    BY <1>3, <2>3, <2>4
<1>6. QED
  BY <1>4, <1>5, Zenon

LEMMA CReturnKeeps ==
  ASSUME Verified, IInv, CReturn PROVE IInv'
<1> DEFINE f == Last(frames)
           m == Len(frames) - 1
           main == f.cont = "tail" /\ f.tail = "Main"
<1>1. PICK k \in Returns :
        LET vs == [i \in 1..k |-> 0]
            none == k = 0 /\ f.cont \in {"inext", "inexts"}
        IN /\ InC /\ frames' = Front(frames) /\ recurse' = recurse
           /\ region' = Cut(region, f.region)
           /\ sval' = IF f.type = "CallC" \/ f.cont = "inext"
                      THEN Cut(sval, f.args)
                      ELSE PullRug(sval \o vs, f.args, f.sval)
           /\ pc' = IF none THEN f.out ELSE f.pc
           /\ mode' = IF main THEN "results" ELSE "run"
           /\ e' = IF main THEN Front(e) ELSE e
           /\ calls' = IF f.cont = "tail" THEN Front(calls) ELSE calls
           /\ UNCHANGED <<prog, rwith, swith, blame>>
  BY DEF CReturn
<1>2. /\ Typed /\ Stacked /\ Quiet /\ Fits(prog)
      /\ m \in Nat /\ m + 1 = Len(frames) /\ m + 1 <= Len(frames)
      /\ frames \in Seq(Frames) /\ region \in Seq(Nat) /\ rwith \in Seq(Nat)
      /\ sval \in Seq(Nat) /\ f = frames[m + 1] /\ f \in Frames /\ IsC(f) /\ CFits(f)
      /\ f.args \in Nat /\ f.args <= Len(sval) /\ Depth(f) = f.args
      /\ Len(region) = f.region /\ Len(sval) = f.sval /\ Len(rwith) = f.rwith
      /\ swith = f.swith
      /\ Front(frames) \in Seq(Frames) /\ Len(Front(frames)) = m
      /\ \A n \in 1..m : Front(frames)[n] = frames[n]
      /\ Kind(f) = "Main" <=> f.cont = "tail" /\ f.tail = "Main"
      /\ Counted(f) <=> f.cont = "tail"
      /\ Kind(f) = "Main" => MainFits(frames, region, m + 1)
      /\ Kind(f) # "Main" => CallFits(prog, frames, region, rwith, m + 1)
      /\ Tallied(frames, m + 1, recurse, calls, Len(e))
  BY <1>1, EndsC, Zenon
<1>3. /\ f.type \notin Uncil /\ f.type \in {"CallC", "CallCSpew"}
      /\ f.pc \in Nat /\ f.out \in Nat
  BY <1>2 DEF IsC, Uncil, Frames
<1>4. k \in Nat
  BY VMAssumption
<1> HIDE DEF f, m
<1>5. region' = region
  BY ONLY <1>1, <1>2, CutWhole
<1>6. /\ sval' \in Seq(Nat) /\ Len(sval') \in Nat /\ f.args <= Len(sval')
      /\ Len(sval') = f.args \/ k # 0
      /\ Len(sval') = f.args \/ (f.type = "CallCSpew" /\ f.cont # "inext")
  <2>1. CASE f.type = "CallC" \/ f.cont = "inext"
    <3>1. sval' = Cut(sval, f.args)
      BY <1>1, <2>1, Zenon
    <3>2. sval' \in Seq(Nat) /\ Len(sval') = f.args
      BY ONLY <1>2, <3>1, CutIs
    <3>3. QED
      BY ONLY <1>2, <3>2
  <2>2. CASE ~ (f.type = "CallC" \/ f.cont = "inext")
    <3> DEFINE vs == [i \in 1..k |-> 0]
    <3>1. sval' = PullRug(sval \o vs, f.args, Len(sval))
      BY <1>1, <1>2, <2>2, Zenon
    <3>2. vs \in Seq(Nat) /\ Len(vs) = k
      BY ONLY <1>4
    <3> HIDE DEF vs
    <3>3. sval' \in Seq(Nat) /\ Len(sval') = f.args + Len(vs)
      BY ONLY <1>2, <3>1, <3>2, PullRugIs, ZenonT(60)
    <3>4. f.type = "CallCSpew" /\ f.cont # "inext"
      BY <1>3, <2>2, Zenon
    <3>5. QED
      BY ONLY <1>2, <1>4, <3>2, <3>3, <3>4
  <2>3. QED
    BY <2>1, <2>2, Zenon
<1>7. /\ frames' \in Seq(Frames) /\ Len(frames') = m /\ \A n \in 1..m : frames'[n] = frames[n]
  BY <1>1, <1>2, Zenon
<1>8. /\ Counts' /\ recurse' \in 0..Limit /\ calls' \in Seq(Requests)
      /\ e' \in Seq(BOOLEAN) /\ Quiet'
  <2>1. CASE f.cont = "tail"
    <3>1. recurse' = recurse - 0
      BY <1>1, <1>2, TypedIs
    <3>2. recurse' = recurse - (IF f.type \in Uncil THEN 1 ELSE 0)
      BY <1>3, <3>1, Zenon
    <3>3. calls' = Front(calls) /\ e' = (IF Kind(f) = "Main" THEN Front(e) ELSE e) /\ Counted(f)
      BY <1>1, <1>2, <2>1, Zenon
    <3>4. QED
      BY ONLY <1>2, <1>7, <3>2, <3>3, PopCounts, Zenon
  <2>2. CASE f.cont # "tail"
    <3>1. e' = e /\ calls' = calls /\ recurse' = recurse
      BY <1>1, <2>2, Zenon
    <3>2. /\ ~ Counted(frames[m + 1]) /\ recurse' = recurse /\ calls' = calls /\ Len(e') = Len(e)
      BY <1>2, <2>2, <3>1, Zenon
    <3>3. Counts'
      BY ONLY <1>2, <1>7, <3>2, PopFree, Zenon
    <3>4. QED
      BY <1>2, <3>1, <3>3, TypedIs DEF Quiet
  <2>3. QED
    BY <2>1, <2>2, Zenon
<1>9. /\ region' \in Seq(Nat) /\ Len(region') = f.region
      /\ \A n \in 1..f.region : region'[n] = region[n]
  BY <1>2, <1>5, Zenon
<1>10. /\ rwith' \in Seq(Nat) /\ Len(rwith') = f.rwith /\ swith' = f.swith
       /\ \A n \in 1..f.rwith : rwith'[n] = rwith[n]
  BY <1>1, <1>2, Zenon
<1>11. prog' = prog
  BY <1>1
<1>12. CASE main
  <2>1. MainFits(frames, region, m + 1) /\ mode' = "results" /\ pc' = f.pc
    BY <1>1, <1>2, <1>12
  <2>2. /\ Stacked' /\ Modes' /\ region' \in Seq(Nat) /\ sval' \in Seq(Nat) /\ swith' \in Nat
    <3>1. Depth(f) <= Len(sval')
      BY <1>2, <1>6, Zenon
    <3>2. /\ frames[m + 1] = f /\ region' = region' /\ sval' = sval'
      BY <1>2
    <3>3. /\ Len(region') = frames[m + 1].region
          /\ \A n \in 1..frames[m + 1].region : region'[n] = region[n]
          /\ Depth(frames[m + 1]) <= Len(sval')
          /\ Len(rwith') = frames[m + 1].rwith
          /\ \A n \in 1..frames[m + 1].rwith : rwith'[n] = rwith[n]
          /\ swith' = frames[m + 1].swith
      BY <1>9, <1>10, <3>1, <3>2, Zenon
    <3>4. m + 1 = Len(frames)
      BY <1>2
    <3>5. QED
      BY ONLY <1>2, <1>6, <1>7, <1>9, <1>10, <1>11, <2>1, <3>2, <3>3, <3>4, MainLeft, Zenon
  <2>3. Typed'
    BY <1>1, <1>2, <1>3, <1>6, <1>7, <1>8, <1>10, <2>1, <2>2 DEF Typed
  <2>4. QED
    BY <1>8, <2>2, <2>3, Zenon DEF IInv
<1>13. CASE ~ main
  <2> DEFINE q == prog[f.pc - 1]
  <2>1. Kind(f) # "Main" /\ mode' = "run" /\ CallFits(prog, frames, region, rwith, m + 1)
    BY <1>1, <1>2, <1>13
  <2>2. CalledBy(f, q)
    BY ONLY <1>2, <2>1 DEF CallFits
  <2>3. /\ q.op \in CallOps
        /\ f.cont \in {"inext", "inexts"} => f.out = q.to /\ q.op \in {"inext", "inexts"}
        /\ f.type = "CallCSpew" /\ f.cont # "inext" => Spreads(q)
    BY <1>2, <2>1, <2>2, ReturnFits, Zenon
  <2> HIDE DEF q
  <2>4. \/ pc' = f.pc /\ (Len(sval') = Depth(f) \/ Spreads(q))
        \/ pc' = q.to /\ q.op \in {"inext", "inexts"} /\ Len(sval') = Depth(f)
    <3>1. CASE k = 0 /\ f.cont \in {"inext", "inexts"}
      <4>1. pc' = f.out
        BY <1>1, <3>1
      <4>2. QED
        BY <1>2, <1>6, <2>3, <3>1, <4>1, Zenon
    <3>2. CASE ~ (k = 0 /\ f.cont \in {"inext", "inexts"})
      <4>1. pc' = f.pc
        BY <1>1, <3>2
      <4>2. QED
        BY <1>2, <1>6, <2>3, <4>1, Zenon
    <3>3. QED
      BY <3>1, <3>2, Zenon
  <2>5. Depth(f) <= Len(sval') /\ q = prog[f.pc - 1]
    BY <1>2, <1>6, Zenon DEF q
  <2>6. Stacked' /\ Modes' /\ swith' \in Nat /\ pc' \in Nat
    BY ONLY <1>2, <1>6, <1>7, <1>9, <1>10, <1>11, <2>1, <2>3, <2>4, <2>5, ReturnsTo, Zenon
  <2>7. Typed'
    BY <1>1, <1>2, <1>6, <1>7, <1>8, <1>9, <1>10, <2>1, <2>6 DEF Typed
  <2>8. QED
    BY <1>8, <2>6, <2>7, Zenon DEF IInv
<1>14. QED
  BY <1>12, <1>13, Zenon

-----------------------------------------------------------------------------
(* Frames that are cleared.                                                  *)

(* The stacks can be cut to where any frame begins.                          *)
LEMMA CutsTo ==
  ASSUME Typed, Stacked, NEW n \in 1..Len(frames), NEW f, f = frames[n]
  PROVE  /\ f \in Frames /\ Depth(f) \in Nat
         /\ Cut(region, f.region) \in Seq(Nat) /\ Len(Cut(region, f.region)) = f.region
         /\ \A k \in 1..f.region : Cut(region, f.region)[k] = region[k]
         /\ Cut(rwith, f.rwith) \in Seq(Nat) /\ Len(Cut(rwith, f.rwith)) = f.rwith
         /\ \A k \in 1..f.rwith : Cut(rwith, f.rwith)[k] = rwith[k]
         /\ Cut(sval, Depth(f)) \in Seq(Nat) /\ Len(Cut(sval, Depth(f))) = Depth(f)
<1>1. /\ f \in Frames /\ f.region <= Len(region) /\ f.rwith <= Len(rwith)
      /\ Depth(f) <= Len(sval)
  BY StacksAbove, Zenon
<1>2. f.region \in Nat /\ f.rwith \in Nat /\ Depth(f) \in Nat
  BY <1>1, FrameTyped, Zenon
<1>3. region \in Seq(Nat) /\ rwith \in Seq(Nat) /\ sval \in Seq(Nat)
  BY DEF Typed
<1>4. /\ Cut(region, f.region) \in Seq(Nat) /\ Len(Cut(region, f.region)) = f.region
      /\ \A k \in 1..f.region : Cut(region, f.region)[k] = region[k]
  BY ONLY <1>1, <1>2, <1>3, CutIs, Zenon
<1>5. /\ Cut(rwith, f.rwith) \in Seq(Nat) /\ Len(Cut(rwith, f.rwith)) = f.rwith
      /\ \A k \in 1..f.rwith : Cut(rwith, f.rwith)[k] = rwith[k]
  BY ONLY <1>1, <1>2, <1>3, CutIs, Zenon
<1>6. Cut(sval, Depth(f)) \in Seq(Nat) /\ Len(Cut(sval, Depth(f))) = Depth(f)
  BY ONLY <1>1, <1>2, <1>3, CutIs, Zenon
<1>7. QED
  BY <1>1, <1>2, <1>4, <1>5, <1>6, Zenon

(* The innermost frame goes, a function's or a try's.                        *)
LEMMA Clears ==
  ASSUME Verified, IInv, frames # <<>>, NEW m, m = Len(frames) - 1,
         NEW f, f = Last(frames), Cleared(f), IsC(f) => FALSE
  PROVE  /\ Typed /\ Stacked /\ Quiet /\ Fits(prog)
         /\ m \in Nat /\ m + 1 = Len(frames) /\ m + 1 <= Len(frames) /\ m + 1 \in 1..Len(frames)
         /\ f = frames[m + 1] /\ f \in Frames /\ f.type \in Uncil \cup {"Try"}
         /\ f.type \in Uncil => Depth(f) = f.sval /\ Kind(f) = f.type /\ Counted(f)
         /\ frames' \in Seq(Frames) /\ Len(frames') = m
         /\ \A k \in 1..m : frames'[k] = frames[k]
         /\ swith' = f.swith /\ swith' \in Nat
         /\ rwith' \in Seq(Nat) /\ Len(rwith') = f.rwith
         /\ \A k \in 1..f.rwith : rwith'[k] = rwith[k]
         /\ recurse' = recurse - (IF f.type \in Uncil THEN 1 ELSE 0)
         /\ FrameFits(prog, frames, region, rwith, m + 1)
         /\ Tallied(frames, m + 1, recurse, calls, Len(e))
<1>1. /\ Typed /\ Stacked /\ Quiet /\ Counts /\ Fits(prog)
  BY DEF IInv, Verified, Typed
<1>2. /\ frames \in Seq(Frames) /\ Len(frames) \in Nat /\ Len(frames) > 0 /\ recurse \in Nat
  <2>1. frames \in Seq(Frames) /\ Len(frames) \in Nat /\ recurse \in Nat
    BY <1>1, TypedIs, Zenon
  <2>2. QED
    BY <2>1
<1>3. m \in Nat /\ m + 1 = Len(frames) /\ m + 1 <= Len(frames) /\ m + 1 \in 1..Len(frames)
  BY ONLY <1>2, m = Len(frames) - 1
<1>4. /\ frames' = Front(frames) /\ swith' = f.swith /\ rwith' = Cut(rwith, f.rwith)
      /\ recurse' = IF f.type \in Uncil THEN recurse - 1 ELSE recurse
  BY DEF Cleared
<1>5. /\ frames' \in Seq(Frames) /\ Len(frames') = Len(frames) - 1
      /\ \A k \in 1..(Len(frames) - 1) : frames'[k] = frames[k]
      /\ f = frames[Len(frames)] /\ f \in Frames
  BY ONLY <1>2, <1>4, f = Last(frames), FrontIs
<1>6. f = frames[m + 1] /\ Len(frames') = m /\ \A k \in 1..m : frames'[k] = frames[k]
  BY <1>3, <1>5, Zenon
<1>7. f.type \in Uncil \cup {"Try"}
  BY <1>5 DEF Frames, IsC
<1>8. f.type \in Uncil => Depth(f) = f.sval /\ Kind(f) = f.type /\ Counted(f)
  BY DEF Uncil, Depth, Kind, Counted
<1>9. recurse' = recurse - (IF f.type \in Uncil THEN 1 ELSE 0)
  <2>1. recurse - 0 = recurse
    BY <1>2
  <2>2. QED
    BY <1>4, <2>1, Zenon
<1>10. rwith' \in Seq(Nat) /\ Len(rwith') = f.rwith /\ \A k \in 1..f.rwith : rwith'[k] = rwith[k]
  BY <1>1, <1>3, <1>4, <1>6, CutsTo, Zenon
<1>11. swith' \in Nat
  BY <1>4, <1>5, FrameTyped, Zenon
<1>12. FrameFits(prog, frames, region, rwith, m + 1)
  BY <1>1, <1>3, Zenon DEF Stacked, Nested
<1>13. Tallied(frames, m + 1, recurse, calls, Len(e))
  BY <1>1, <1>3, Zenon DEF Counts
<1>14. QED
  BY <1>1, <1>3, <1>4, <1>5, <1>6, <1>7, <1>8, <1>9, <1>10, <1>11, <1>12, <1>13, Zenon

(* The run that called the innermost function ends.                          *)
LEMMA MainCleared ==
  ASSUME Verified, IInv, frames # <<>>, NEW f, f = Last(frames), f.type = "Main", Cleared(f),
         Discard(frames', Cut(region, f.region), Cut(sval, Depth(f))),
         mode' = "native", e' = Front(e), calls' = Front(calls), prog' = prog,
         pc' \in Nat, blame' = blame \/ blame' = Last(calls).pc
  PROVE  IInv'
<1> DEFINE m == Len(frames) - 1
           r == Cut(region, f.region)
           v == Cut(sval, Depth(f))
<1>1. f.type \in Uncil /\ ~ IsC(f)
  BY DEF Uncil, IsC
<1>2. /\ Typed /\ Stacked /\ Quiet /\ Fits(prog)
      /\ m \in Nat /\ m + 1 = Len(frames) /\ m + 1 <= Len(frames) /\ m + 1 \in 1..Len(frames)
      /\ f = frames[m + 1] /\ f \in Frames /\ f.type \in Uncil \cup {"Try"}
      /\ f.type \in Uncil => Depth(f) = f.sval /\ Kind(f) = f.type /\ Counted(f)
      /\ frames' \in Seq(Frames) /\ Len(frames') = m
      /\ \A k \in 1..m : frames'[k] = frames[k]
      /\ swith' = f.swith /\ swith' \in Nat
      /\ rwith' \in Seq(Nat) /\ Len(rwith') = f.rwith
      /\ \A k \in 1..f.rwith : rwith'[k] = rwith[k]
      /\ recurse' = recurse - (IF f.type \in Uncil THEN 1 ELSE 0)
      /\ FrameFits(prog, frames, region, rwith, m + 1)
      /\ Tallied(frames, m + 1, recurse, calls, Len(e))
  BY <1>1, Clears, Zenon
<1> HIDE DEF m
<1>3. /\ Depth(f) \in Nat
      /\ r \in Seq(Nat) /\ Len(r) = f.region /\ (\A k \in 1..f.region : r[k] = region[k])
      /\ v \in Seq(Nat) /\ Len(v) = Depth(f)
  BY <1>2, CutsTo, Zenon
<1>4. Kind(f) = "Main" /\ Counted(f)
  BY <1>1, <1>2
<1>5. MainFits(frames, region, m + 1)
  BY <1>2, <1>4, Zenon DEF FrameFits
<1>6. mode' = "native" /\ Discard(frames', r, v) /\ prog' = prog
  OBVIOUS
<1> HIDE DEF r, v
<1>7. /\ Stacked' /\ Modes' /\ region' \in Seq(Nat) /\ sval' \in Seq(Nat) /\ swith' \in Nat
  <2>1. Depth(f) <= Depth(f)
    BY <1>3
  <2>2. /\ m + 1 = Len(frames) /\ Len(r) = frames[m + 1].region
        /\ \A k \in 1..frames[m + 1].region : r[k] = region[k]
        /\ Depth(frames[m + 1]) <= Len(v)
        /\ Len(rwith') = frames[m + 1].rwith
        /\ \A k \in 1..frames[m + 1].rwith : rwith'[k] = rwith[k]
        /\ swith' = frames[m + 1].swith
    BY <1>2, <1>3, <2>1, Zenon
  <2>3. QED
    BY ONLY <1>2, <1>3, <1>5, <1>6, <2>2, MainLeft, Zenon
<1>8. /\ Counts' /\ recurse' \in 0..Limit /\ calls' \in Seq(Requests)
      /\ Last(calls) \in Requests /\ e' \in Seq(BOOLEAN) /\ Quiet'
  <2>1. calls' = Front(calls) /\ e' = (IF Kind(f) = "Main" THEN Front(e) ELSE e)
    BY <1>4
  <2>2. QED
    BY ONLY <1>2, <1>4, <2>1, PopCounts, Zenon
<1>9. blame' \in Nat
  BY <1>2, <1>8 DEF Typed, Requests
<1>10. Typed'
  BY <1>2, <1>6, <1>7, <1>8, <1>9 DEF Typed
<1>11. QED
  BY <1>7, <1>8, <1>10, Zenon DEF IInv

LEMMA MainTailKeeps ==
  ASSUME Verified, IInv, MainTail PROVE IInv'
<1> DEFINE f == Last(frames)
<1>1. /\ mode = "maintail" /\ mode' = "native" /\ Cleared(f)
      /\ Discard(frames', Cut(region, f.region), Cut(sval, Depth(f)))
      /\ calls' = Front(calls) /\ e' = Front(e) /\ UNCHANGED <<prog, pc, blame>>
  BY DEF MainTail
<1>2. Typed /\ Len(frames) = 1 /\ frames[1].type = "Main"
  BY <1>1 DEF IInv, Modes
<1>3. frames # <<>> /\ f = frames[1] /\ pc \in Nat
  <2>1. frames # <<>>
    BY ONLY <1>2
  <2>2. f = frames[1]
    BY <1>2, Zenon DEF Last
  <2>3. QED
    BY <1>2, <2>1, <2>2, TypedIs, Zenon
<1>4. pc' \in Nat /\ f.type = "Main"
  BY <1>1, <1>2, <1>3
<1> HIDE DEF f
<1>5. f = Last(frames)
  BY DEF f
<1>6. QED
  BY <1>1, <1>3, <1>4, <1>5, MainCleared, Zenon

(* An error is caught: the function is where its try begins.                 *)
LEMMA TryCatches ==
  ASSUME Typed, Stacked, Fits(prog), NEW m \in Nat, m + 1 <= Len(frames),
         TryFits(prog, frames, region, rwith, m + 1), prog' = prog, mode' = "run",
         frames' \in Seq(Frames), Len(frames') = m, \A k \in 1..m : frames'[k] = frames[k],
         NEW f, f = frames[m + 1], pc' = f.to,
         region' \in Seq(Nat), Len(region') = f.region,
         \A k \in 1..f.region : region'[k] = region[k],
         rwith' \in Seq(Nat), Len(rwith') = f.rwith,
         \A k \in 1..f.rwith : rwith'[k] = rwith[k],
         swith' = f.swith, sval' \in Seq(Nat), Len(sval') = Depth(f)
  PROVE  Stacked' /\ Modes'
<1> DEFINE i == f.pc
           x == To(f)
<1>1. f \in Frames /\ Depth(f) <= Len(sval')
  <2>1. f \in Frames
    BY TypedIs
  <2>2. Depth(f) \in Nat
    BY <2>1, FrameTyped, Zenon
  <2>3. QED
    BY <2>1, <2>2
<1>2. Stacked' /\ swith' \in Nat
  BY <1>1, PopStacks, Zenon
<1>3. x \in Extent /\ x.region = f.region /\ x.rwith = f.rwith
  BY <1>1, ToTyped, Zenon
<1>4. Now' = x
  BY DEF Now, To
<1>5. /\ frames \in Seq(Frames) /\ region \in Seq(Nat) /\ rwith \in Seq(Nat)
      /\ m <= Len(frames) /\ (m + 1) - 1 = m
  <2>1. frames \in Seq(Frames) /\ region \in Seq(Nat) /\ rwith \in Seq(Nat) /\ Len(frames) \in Nat
    BY TypedIs, Zenon DEF Typed
  <2>2. m <= Len(frames) /\ (m + 1) - 1 = m
    BY ONLY <2>1, m \in Nat, m + 1 <= Len(frames)
  <2>3. QED
    BY <2>1, <2>2
<1>6. PICK o \in 1..m : Stands(prog, frames, region, rwith, o, m, i, Clear, x)
  BY <1>5, Zenon DEF TryFits
<1>7. prog[i].op = "expush" /\ f.to = prog[i].to
  BY Zenon DEF TryFits
<1>8. i \in 1..Len(prog) /\ Tries(frames, o, m, prog[i].at.tries)
  BY <1>6, Zenon DEF Stands
<1>9. Found(prog)[i] = Clear
  <2>1. Finds(prog[i], Found(prog)[i])
    BY <1>8, CodeAt, Zenon
  <2>2. QED
    BY <1>7, <2>1 DEF Finds
<1>10. Leads(prog, Found(prog), pc', Clear, prog[i].at.tries, prog[i].at.withs)
  <2>1. pc' \in Goes(prog[i])
    BY <1>7 DEF Goes
  <2>2. QED
    BY <1>8, <1>9, <2>1, LeadsTo, Zenon
<1> HIDE DEF i, x
<1>11. Stands(prog, frames', region', rwith', o, m, i, Clear, x)
  <2>1. /\ \A k \in 1..x.region : region'[k] = region[k]
        /\ \A k \in 1..x.rwith : rwith'[k] = rwith[k]
    BY <1>3, Zenon
  <2>2. Clear \in Seq(Levels) /\ Len(Clear) > 0
    BY ClearIs
  <2>3. /\ Fits(prog) /\ frames' \in Seq(Frames) /\ region' \in Seq(Nat) /\ rwith' \in Seq(Nat)
        /\ m \in Nat
        /\ \A k \in 1..m : frames'[k] = frames[k]
    OBVIOUS
  <2>4. QED
    BY ONLY <1>3, <1>5, <1>6, <2>1, <2>2, <2>3, StandsSame, Zenon
<1>12. /\ Tries(frames', o, m, prog[i].at.tries) /\ Leveled(region', frames'[o], Clear, x)
       /\ Closable(rwith', frames'[o], prog[i].at.withs, x)
  BY <1>11, Zenon DEF Stands
<1>13. Stands(prog, frames', region', rwith', o, m, pc', Found(prog)[pc'], x)
  <2>1. Clear \in Seq(Levels) /\ Len(Clear) > 0
    BY ClearIs
  <2>2. m <= Len(frames') /\ x.region <= Len(region')
    <3>1. Len(frames') <= Len(frames') /\ Len(region') <= Len(region')
      OBVIOUS
    <3>2. QED
      BY <1>3, <3>1, Zenon
  <2>3. /\ Fits(prog) /\ frames' \in Seq(Frames) /\ region' \in Seq(Nat) /\ rwith' \in Seq(Nat)
        /\ m \in Nat
    OBVIOUS
  <2>4. QED
    BY ONLY <1>3, <1>10, <1>12, <2>1, <2>2, <2>3, Arrives, Zenon
<1>14. Modes'
  <2>1. Stands(prog, frames', region', rwith', o, Len(frames'), pc', Found(prog)[pc'], Now')
    BY <1>4, <1>13, Zenon
  <2>2. mode' = "run" /\ prog' = prog
    OBVIOUS
  <2>3. QED
    BY ONLY <2>1, <2>2, RunIs, Zenon
<1>15. QED
  BY <1>2, <1>14

(* An error is raised in a function or its innermost try.                    *)
LEMMA RaisedIn ==
  ASSUME Verified, IInv, mode = "error", NEW f, f = Last(frames)
  PROVE  /\ frames # <<>> /\ f.type \in Uncil \cup {"Try"} /\ ~ IsC(f)
         /\ blame \in 1..Len(prog)
         /\ f.type = "Try" => prog[blame].at.tries # <<>> /\ Last(prog[blame].at.tries) = f.try
         /\ f.type # "Try" => prog[blame].at.tries = <<>>
<1>1. Typed /\ Raises /\ Fits(prog)
  BY DEF IInv, Modes, Verified, Typed
<1>2. PICK o \in 1..Len(frames) : Tries(frames, o, Len(frames), prog[blame].at.tries)
  BY <1>1, Zenon DEF Raises
<1> DEFINE ts == prog[blame].at.tries
<1>3. blame \in 1..Len(prog)
  BY <1>1, Zenon DEF Raises
<1>4. frames \in Seq(Frames) /\ Len(frames) \in Nat
  BY <1>1, TypedIs, Zenon
<1>5. frames # <<>> /\ f = frames[Len(frames)]
  <2>1. frames # <<>>
    BY ONLY <1>2, <1>4
  <2>2. QED
    BY <2>1, Zenon DEF Last
<1> HIDE DEF ts
<1>6. /\ frames[o].type \in Uncil /\ Len(frames) - o = Len(ts)
      /\ \A i \in 1..Len(ts) : frames[o + i].type = "Try" /\ frames[o + i].try = ts[i]
  BY <1>2, Zenon DEF Tries, ts
<1>7. CASE ts = <<>>
  <2>1. o = Len(frames)
    BY ONLY <1>2, <1>4, <1>6, <1>7
  <2>2. f.type \in Uncil
    BY <1>5, <1>6, <2>1, Zenon
  <2>3. QED
    BY <1>3, <1>5, <1>7, <2>2 DEF Uncil, IsC, ts
<1>8. CASE ts # <<>>
  <2>1. Len(ts) = Len(frames) - o /\ o \in Nat
    BY ONLY <1>2, <1>4, <1>6
  <2>2. Len(ts) \in 1..Len(ts) /\ o + Len(ts) = Len(frames)
    <3>1. Len(ts) # 0
      <4>1. ts \in Seq(Nat)
        BY <1>1, <1>3, CodeAt, Zenon DEF ts
      <4>2. QED
        BY ONLY <1>8, <4>1
    <3>2. QED
      BY ONLY <1>2, <1>4, <2>1, <3>1
  <2>3. f.type = "Try" /\ f.try = Last(ts)
    BY <1>5, <1>6, <2>2, Zenon DEF Last
  <2>4. QED
    BY <1>3, <1>5, <1>8, <2>3 DEF Uncil, IsC, ts
<1>9. QED
  BY <1>7, <1>8, Zenon

LEMMA UnwindKeeps ==
  ASSUME Verified, IInv, Unwind PROVE IInv'
<1> DEFINE f == Last(frames)
           m == Len(frames) - 1
<1>1. /\ mode = "error" /\ Cleared(f) /\ prog' = prog
      /\ IF f.type = "Main"
         THEN Discard(frames', Cut(region, f.region), Cut(sval, f.sval))
         ELSE region' = Cut(region, f.region) /\ sval' = Cut(sval, Depth(f))
      /\ CASE f.type = "Try"  -> mode' = "run" /\ pc' = f.to
           [] f.type = "Main" -> mode' = "native" /\ pc' = 0
           [] OTHER           -> mode' = "error" /\ pc' = f.pc
      /\ e' = CASE f.type = "Try"  -> [e EXCEPT ![Len(e)] = "quiet" \in Features]
                [] f.type = "Main" -> Front(e)
                [] OTHER           -> e
      /\ IF f.type = "Try" THEN calls' = calls /\ blame' = blame
         ELSE blame' = Last(calls).pc /\ calls' = Front(calls)
  BY DEF Unwind
<1>2. frames # <<>> /\ f.type \in Uncil \cup {"Try"} /\ ~ IsC(f)
  BY <1>1, RaisedIn, Zenon
<1>3. /\ Typed /\ Stacked /\ Quiet /\ Fits(prog)
      /\ m \in Nat /\ m + 1 = Len(frames) /\ m + 1 <= Len(frames) /\ m + 1 \in 1..Len(frames)
      /\ f = frames[m + 1] /\ f \in Frames /\ f.type \in Uncil \cup {"Try"}
      /\ f.type \in Uncil => Depth(f) = f.sval /\ Kind(f) = f.type /\ Counted(f)
      /\ frames' \in Seq(Frames) /\ Len(frames') = m
      /\ \A k \in 1..m : frames'[k] = frames[k]
      /\ swith' = f.swith /\ swith' \in Nat
      /\ rwith' \in Seq(Nat) /\ Len(rwith') = f.rwith
      /\ \A k \in 1..f.rwith : rwith'[k] = rwith[k]
      /\ recurse' = recurse - (IF f.type \in Uncil THEN 1 ELSE 0)
      /\ FrameFits(prog, frames, region, rwith, m + 1)
      /\ Tallied(frames, m + 1, recurse, calls, Len(e))
  BY <1>1, <1>2, Clears, Zenon
<1>4. f.pc \in Nat /\ f.to \in Nat
  BY <1>3 DEF Frames
<1>5. f.type = "Main" => Depth(f) = f.sval
  BY DEF Depth
<1> HIDE DEF f, m
<1>6. CASE f.type = "Main"
  <2>1. /\ Discard(frames', Cut(region, f.region), Cut(sval, Depth(f)))
        /\ mode' = "native" /\ pc' = 0 /\ e' = Front(e)
        /\ calls' = Front(calls) /\ blame' = Last(calls).pc
    BY <1>1, <1>5, <1>6
  <2>2. pc' \in Nat
    BY <2>1
  <2>3. f = Last(frames)
    BY DEF f
  <2>4. QED
    BY <1>1, <1>2, <1>6, <2>1, <2>2, <2>3, MainCleared, Zenon
<1>7. ASSUME f.type # "Main"
      PROVE  /\ region' \in Seq(Nat) /\ Len(region') = f.region
             /\ \A k \in 1..f.region : region'[k] = region[k]
             /\ sval' \in Seq(Nat) /\ Len(sval') = Depth(f) /\ Depth(f) \in Nat
  <2>1. region' = Cut(region, f.region) /\ sval' = Cut(sval, Depth(f))
    BY <1>1, <1>7
  <2>2. QED
    BY <1>3, <2>1, CutsTo, Zenon
<1>8. CASE f.type = "Try"
  <2>1. /\ f.type # "Main" /\ mode' = "run" /\ pc' = f.to /\ calls' = calls /\ blame' = blame
        /\ e' = [e EXCEPT ![Len(e)] = "quiet" \in Features]
    BY <1>1, <1>8
  <2>2. TryFits(prog, frames, region, rwith, m + 1)
    BY <1>3, <1>8, Zenon DEF FrameFits
  <2>3. Stacked' /\ Modes'
    BY <1>1, <1>3, <1>7, <2>1, <2>2, TryCatches, Zenon
  <2>4. e \in Seq(BOOLEAN) /\ recurse \in Nat /\ Len(e) \in Nat
    BY <1>3, TypedIs, Zenon
  <2>5. /\ e' \in Seq(BOOLEAN) /\ Len(e') = Len(e)
        /\ \A i \in 1..Len(e) : e'[i] = IF i = Len(e) THEN "quiet" \in Features ELSE e[i]
    <3> DEFINE b == "quiet" \in Features
    <3>1. b \in BOOLEAN
      OBVIOUS
    <3>2. e' = [e EXCEPT ![Len(e)] = b]
      BY <2>1
    <3> HIDE DEF b
    <3>3. /\ e' \in Seq(BOOLEAN) /\ Len(e') = Len(e)
          /\ \A i \in 1..Len(e) : e'[i] = IF i = Len(e) THEN b ELSE e[i]
      BY ONLY <2>4, <3>1, <3>2, LastIs
    <3>4. QED
      BY <3>3 DEF b
  <2>6. Quiet'
    BY <1>3, <2>5 DEF Quiet
  <2>7. Counts'
    <3>1. f.type \notin Uncil /\ f.cont = ""
      BY <1>3, <1>8, <2>2 DEF Uncil, TryFits
    <3>2. ~ Counted(frames[m + 1])
      BY <1>3, <3>1 DEF Counted
    <3>3. recurse' = recurse
      <4>1. recurse' = recurse - 0
        BY <1>3, <3>1
      <4>2. QED
        BY ONLY <2>4, <4>1
    <3>4. QED
      BY ONLY <1>3, <2>1, <2>5, <3>2, <3>3, PopFree, Zenon
  <2>8. Typed'
    <3>1. recurse' \in 0..Limit /\ pc' \in Nat
      <4>1. f.type \notin Uncil
        BY <1>8 DEF Uncil
      <4>2. recurse' = recurse - 0 /\ recurse \in 0..Limit
        BY <1>3, <4>1, TypedIs
      <4>3. recurse' \in 0..Limit
        BY ONLY <2>4, <4>2
      <4>4. QED
        BY <1>4, <2>1, <4>3, Zenon
    <3>2. QED
      BY <1>1, <1>3, <1>7, <2>1, <2>5, <3>1 DEF Typed
  <2>9. QED
    BY <2>3, <2>6, <2>7, <2>8, Zenon DEF IInv
<1>9. CASE f.type # "Try" /\ f.type # "Main"
  <2>1. /\ mode' = "error" /\ pc' = f.pc /\ e' = e
        /\ blame' = Last(calls).pc /\ calls' = Front(calls)
    BY <1>1, <1>9
  <2>2. Kind(f) # "Main" /\ Counted(f) /\ f.type \in Uncil
    BY <1>3, <1>9
  <2>3. CallFits(prog, frames, region, rwith, m + 1)
    BY <1>3, <1>9, <2>2, Zenon DEF FrameFits
  <2>4. /\ Counts' /\ recurse' \in 0..Limit /\ calls' \in Seq(Requests)
        /\ Answers(Last(calls), f) /\ e' \in Seq(BOOLEAN) /\ Quiet'
    <3>1. calls' = Front(calls) /\ e' = (IF Kind(f) = "Main" THEN Front(e) ELSE e)
      BY <2>1, <2>2, Zenon
    <3>2. QED
      BY ONLY <1>3, <2>2, <3>1, PopCounts, Zenon
  <2>5. blame' = f.pc - 1
    <3>1. Last(calls).pc = f.pc - 1
      BY ONLY <2>2, <2>4 DEF Answers
    <3>2. QED
      BY <2>1, <3>1, Zenon
  <2>6. Depth(f) <= Len(sval')
    <3>1. Depth(f) <= Depth(f)
      BY <1>7, <1>9
    <3>2. QED
      BY <1>7, <1>9, <3>1, Zenon
  <2>7. Stacked' /\ Modes' /\ swith' \in Nat /\ blame' \in Nat
    <3>1. /\ region' \in Seq(Nat) /\ Len(region') = f.region
          /\ \A k \in 1..f.region : region'[k] = region[k]
          /\ sval' \in Seq(Nat)
      BY <1>7, <1>9, Zenon
    <3>2. prog' = prog
      BY <1>1
    <3>3. QED
      BY ONLY <1>3, <2>1, <2>3, <2>5, <2>6, <3>1, <3>2, ErrorsTo, Zenon
  <2>8. Typed'
    BY <1>1, <1>3, <1>4, <1>7, <1>9, <2>1, <2>4, <2>7 DEF Typed
  <2>9. QED
    BY <2>4, <2>7, <2>8, Zenon DEF IInv
<1>10. QED
  BY <1>6, <1>8, <1>9, Zenon

-----------------------------------------------------------------------------
(* Functions that are left from within.                                      *)

(* The tries above a function count as nothing.                              *)
LEMMA OwnTallied ==
  ASSUME Verified, IInv, mode = "run"
  PROVE  Tallied(frames, Own, recurse, calls, Len(e))
<1> DEFINE o == Own
           d == Len(frames) - Own
           ts == prog[pc].at.tries
<1>1. /\ Typed /\ Stacked /\ Counts /\ Fits(prog)
  BY DEF IInv, Verified, Typed
<1>2. o \in 1..Len(frames) /\ Tries(frames, o, Len(frames), ts) /\ Len(frames) \in Nat
  BY <1>1, RunsAt, TypedIs, Zenon
<1>3. /\ Len(frames) - o = Len(ts)
      /\ \A i \in 1..Len(ts) : frames[o + i].type = "Try"
  BY <1>2, Zenon DEF Tries
<1> HIDE DEF o, ts
<1>4. d = Len(ts) /\ o \in Nat
  BY <1>2, <1>3 DEF o
<1> HIDE DEF d
<1>5. d \in Nat /\ o + d = Len(frames)
  BY ONLY <1>2, <1>3, <1>4
<1>6. Tallied(frames, o + d, recurse, calls, Len(e))
  BY <1>1, <1>5, Zenon DEF Counts
<1>7. ASSUME NEW k \in (o + 1)..(o + d)
      PROVE  ~ Counted(frames[k])
  <2>1. k - o \in 1..d /\ o + (k - o) = k /\ k \in 1..Len(frames)
    BY ONLY <1>2, <1>4, <1>5
  <2>2. frames[k].type = "Try"
    BY <1>3, <1>4, <2>1, Zenon
  <2>3. FrameFits(prog, frames, region, rwith, k)
    BY <1>1, <2>1, Zenon DEF Stacked, Nested
  <2>4. frames[k].cont = ""
    BY <2>2, <2>3, Zenon DEF FrameFits, TryFits
  <2>5. QED
    BY <2>2, <2>4 DEF Counted, Uncil
<1>8. Tallied(frames, o, recurse, calls, Len(e))
  BY ONLY <1>4, <1>5, <1>6, <1>7, TallyTries, Zenon
<1>9. QED
  BY <1>8 DEF o

(* When a function leaves its tries its stacks are as they were when the     *)
(* first of them began, if there is one.                                     *)
LEMMA HereIs ==
  ASSUME Verified, IInv, mode = "run", NEW f, f = frames[Own]
  PROVE  /\ RegionHere \in Seq(Nat) /\ f.region <= Len(RegionHere)
         /\ \A k \in 1..f.region : RegionHere[k] = region[k]
         /\ SvalHere \in Seq(Nat) /\ f.sval <= Len(SvalHere)
         /\ prog[pc].at.tries = <<>> =>
              RegionHere = region /\ SvalHere = sval /\ Own = Len(frames)
<1> DEFINE o == Own
           g == frames[o + 1]
<1>1. /\ Typed /\ Stacked /\ Fits(prog) /\ region \in Seq(Nat) /\ sval \in Seq(Nat)
      /\ frames \in Seq(Frames) /\ Len(frames) \in Nat
  BY TypedIs DEF IInv, Verified, Typed
<1>2. /\ o \in 1..Len(frames) /\ f \in Frames /\ f.type \in Uncil
      /\ Tries(frames, o, Len(frames), prog[pc].at.tries)
  BY RunsAt, Zenon
<1>3. f.region <= Len(region) /\ f.sval <= Len(sval)
  BY RunsAbove, Zenon
<1>4. Len(frames) - o = Len(prog[pc].at.tries)
  BY <1>2, Zenon DEF Tries
<1>5. CASE o = Len(frames)
  <2>1. RegionHere = region /\ SvalHere = sval
    BY <1>5, Zenon DEF RegionHere, SvalHere, NoTries
  <2>2. QED
    BY <1>1, <1>3, <1>5, <2>1, Zenon
<1>6. CASE o # Len(frames)
  <2>1. prog[pc].at.tries # <<>>
    <3> DEFINE ts == prog[pc].at.tries
    <3> HIDE DEF ts, o
    <3>1. Len(frames) - o = Len(ts)
      BY <1>4 DEF ts
    <3>2. ts # <<>>
      BY ONLY <1>1, <1>2, <1>6, <3>1
    <3>3. QED
      BY <3>2 DEF ts
  <2>2. o + 1 \in 1..Len(frames) /\ (o + 1) - 1 = o /\ o \in Nat
    BY ONLY <1>1, <1>2, <1>6
  <2>3. g.type = "Try"
    <3> DEFINE ts == prog[pc].at.tries
    <3>1. \A i \in 1..Len(ts) : frames[o + i].type = "Try"
      BY <1>2, Zenon DEF Tries
    <3>2. Len(frames) - o = Len(ts)
      BY <1>4
    <3> HIDE DEF ts
    <3>3. 1 \in 1..Len(ts)
      BY ONLY <1>1, <1>2, <1>6, <3>2
    <3>4. QED
      BY <3>1, <3>3, Zenon
  <2>4. FrameFits(prog, frames, region, rwith, o + 1) /\ g \in Frames
    BY <1>1, <2>2, StacksAbove, Zenon
  <2>5. TryFits(prog, frames, region, rwith, o + 1)
    BY <2>3, <2>4, Zenon DEF FrameFits
  <2>6. PICK b \in 1..o : Stands(prog, frames, region, rwith, b, o, g.pc, Clear, To(g))
    BY <2>2, <2>5, Zenon DEF TryFits
  <2>7. Leveled(region, frames[b], Clear, To(g)) /\ Tries(frames, b, o, prog[g.pc].at.tries)
    BY <2>6, Zenon DEF Stands
  <2>8. b = o
    <3> DEFINE ts == prog[g.pc].at.tries
    <3>1. o - b = Len(ts) /\ \A i \in 1..Len(ts) : frames[b + i].type = "Try"
      BY <2>7, Zenon DEF Tries
    <3>2. frames[o].type # "Try"
      BY <1>2 DEF Uncil
    <3> HIDE DEF ts, o
    <3>3. b # o => o - b \in 1..Len(ts) /\ b + (o - b) = o
      BY ONLY <2>2, <2>6, <3>1
    <3>4. QED
      BY <3>1, <3>2, <3>3, Zenon
  <2>9. To(g) \in Extent /\ To(g).region = g.region /\ To(g).sval = Depth(g)
    BY <2>4, ToTyped, Zenon
  <2>10. g.region = f.region /\ Depth(g) = f.sval
    <3>1. Leveled(region, f, Clear, To(g))
      BY <2>7, <2>8, Zenon
    <3>2. f \in Frames /\ To(g) \in Extent
      BY <1>2, <2>9
    <3>3. Leveled(region, f, Clear, To(g)) <=> To(g).region = f.region /\ To(g).sval = f.sval
      BY ONLY <3>2, LeveledClear, ZenonT(60)
    <3>4. QED
      BY <2>9, <3>1, <3>3, Zenon
  <2>11. Depth(g) = g.sval
    BY <2>3 DEF Depth
  <2>12. RegionHere = Cut(region, f.region) /\ SvalHere = Cut(sval, f.sval)
    BY <1>6, <2>10, <2>11, Zenon DEF RegionHere, SvalHere, NoTries
  <2>13. f.region \in Nat /\ f.sval \in Nat
    BY <1>2, FrameTyped, Zenon
  <2>14. /\ RegionHere \in Seq(Nat) /\ Len(RegionHere) = f.region
         /\ \A k \in 1..f.region : RegionHere[k] = region[k]
         /\ SvalHere \in Seq(Nat) /\ Len(SvalHere) = f.sval
    BY ONLY <1>1, <1>3, <2>12, <2>13, CutIs
  <2>15. f.region <= f.region /\ f.sval <= f.sval
    BY ONLY <2>13
  <2>16. QED
    BY <2>1, <2>14, <2>15, Zenon
<1>7. QED
  BY <1>5, <1>6, Zenon

(* What goes with the function that executes.                                *)
LEMMA Leaves ==
  ASSUME Verified, IInv, mode = "run", NEW m, m = Own - 1, NEW f, f = frames[Own]
  PROVE  /\ Typed /\ Stacked /\ Quiet /\ Fits(prog) /\ pc \in 1..Len(prog)
         /\ m \in Nat /\ m + 1 = Own /\ m + 1 <= Len(frames) /\ m + 1 \in 1..Len(frames)
         /\ f = frames[m + 1] /\ f \in Frames /\ f.type \in Uncil
         /\ Depth(f) = f.sval /\ Kind(f) = f.type /\ Counted(f) /\ f.sval \in Nat
         /\ f.region \in Nat
         /\ Cut(frames, m) \in Seq(Frames) /\ Len(Cut(frames, m)) = m
         /\ \A k \in 1..m : Cut(frames, m)[k] = frames[k]
         /\ Cut(rwith, f.rwith) \in Seq(Nat) /\ Len(Cut(rwith, f.rwith)) = f.rwith
         /\ \A k \in 1..f.rwith : Cut(rwith, f.rwith)[k] = rwith[k]
         /\ f.type = "Main" => MainFits(frames, region, m + 1)
         /\ f.type # "Main" => CallFits(prog, frames, region, rwith, m + 1)
         /\ Tallied(frames, m + 1, recurse, calls, Len(e))
         /\ Finds(prog[pc], Found(prog)[pc])
<1>1. /\ Typed /\ Stacked /\ Quiet /\ Fits(prog) /\ pc \in 1..Len(prog)
  BY RunsAt DEF IInv
<1>2. Own \in 1..Len(frames) /\ f \in Frames /\ f.type \in Uncil
  BY RunsAt, Zenon
<1>3. frames \in Seq(Frames) /\ Len(frames) \in Nat
  BY <1>1, TypedIs, Zenon
<1>4. m \in Nat /\ m + 1 = Own /\ m + 1 <= Len(frames) /\ m + 1 \in 1..Len(frames) /\ m <= Len(frames)
  BY ONLY <1>2, <1>3, m = Own - 1
<1>5. f = frames[m + 1]
  BY <1>4, Zenon
<1>6. Depth(f) = f.sval /\ Kind(f) = f.type /\ Counted(f)
  BY <1>2 DEF Uncil, Depth, Kind, Counted
<1>7. f.sval \in Nat /\ f.region \in Nat
  BY <1>2, FrameTyped, Zenon
<1>8. /\ Cut(frames, m) \in Seq(Frames) /\ Len(Cut(frames, m)) = m
      /\ \A k \in 1..m : Cut(frames, m)[k] = frames[k]
  BY ONLY <1>3, <1>4, CutIs
<1>9. /\ Cut(rwith, f.rwith) \in Seq(Nat) /\ Len(Cut(rwith, f.rwith)) = f.rwith
      /\ \A k \in 1..f.rwith : Cut(rwith, f.rwith)[k] = rwith[k]
  BY <1>1, <1>4, <1>5, CutsTo, Zenon
<1>10. FrameFits(prog, frames, region, rwith, m + 1)
  BY <1>1, <1>4, Zenon DEF Stacked, Nested
<1>11. f.type # "Try"
  BY <1>2 DEF Uncil
<1>12. /\ f.type = "Main" => MainFits(frames, region, m + 1)
       /\ f.type # "Main" => CallFits(prog, frames, region, rwith, m + 1)
  BY <1>5, <1>6, <1>10, <1>11, Zenon DEF FrameFits
<1>13. Tallied(frames, m + 1, recurse, calls, Len(e))
  BY <1>4, OwnTallied, Zenon
<1>14. Finds(prog[pc], Found(prog)[pc])
  BY <1>1, CodeAt, Zenon
<1>15. QED
  BY <1>1, <1>2, <1>4, <1>5, <1>6, <1>7, <1>8, <1>9, <1>12, <1>13, <1>14, Zenon

(* What a function leaves behind for its caller is nothing, or what it       *)
(* returns if all of that is wanted.                                         *)
LEMMA ExitFits ==
  ASSUME NEW f \in Frames, f.type \in Uncil, Kind(f) = f.type, f.type # "Main",
         NEW q, CalledBy(f, q), CFits(f)
  PROVE  /\ q.op \in CallOps
         /\ f.type \in Spews => Spreads(q)
         /\ f.type \in Nexts => f.pc2 = q.to /\ q.op \in {"inext", "inexts"}
<1>1. Counted(f) /\ f.type # "Try"
  BY DEF Counted, Uncil
<1>2. q.op \in CallOps
  BY <1>1, CallerOps, Zenon
<1>3. f.type \in {"Call", "CallSpew", "Next", "NextSpew"}
  BY DEF Uncil
<1>4. f.type \in Spews => Spreads(q)
  BY <1>1, <1>3 DEF Spews, Spreads, CalledBy
<1>5. f.type \in Nexts => f.pc2 = q.to /\ q.op \in {"inext", "inexts"}
  BY <1>1, <1>3 DEF Nexts, CalledBy
<1>6. QED
  BY <1>2, <1>4, <1>5, Zenon

(* The step of a return, once the values are known.                          *)
LEMMA ExitStep ==
  ASSUME Verified, IInv, mode = "run", NEW m, m = Own - 1, NEW f, f = frames[Own],
         NEW r \in Seq(Nat), Len(r) = f.region, \A k \in 1..f.region : r[k] = region[k],
         NEW v \in Seq(Nat), f.sval <= Len(v),
         Len(v) = f.sval \/ f.type \in Spews,
         frames' = Cut(frames, m), swith' = f.swith, rwith' = Cut(rwith, f.rwith),
         recurse' = recurse - 1, calls' = Front(calls), prog' = prog, blame' = blame,
         e' = IF f.type = "Main" THEN Front(e) ELSE e,
         \/ pc' = f.pc
         \/ pc' = f.pc2 /\ f.type \in Nexts /\ Len(v) = f.sval,
         \/ f.type = "Main" /\ mode' = "native" /\ Discard(frames', r, v)
         \/ region' = r /\ sval' = v /\ mode' = IF f.type = "Main" THEN "results" ELSE "run"
  PROVE  IInv'
<1>1. /\ Typed /\ Stacked /\ Quiet /\ Fits(prog) /\ pc \in 1..Len(prog)
      /\ m \in Nat /\ m + 1 = Own /\ m + 1 <= Len(frames) /\ m + 1 \in 1..Len(frames)
      /\ f = frames[m + 1] /\ f \in Frames /\ f.type \in Uncil
      /\ Depth(f) = f.sval /\ Kind(f) = f.type /\ Counted(f) /\ f.sval \in Nat
      /\ f.region \in Nat
      /\ Cut(frames, m) \in Seq(Frames) /\ Len(Cut(frames, m)) = m
      /\ \A k \in 1..m : Cut(frames, m)[k] = frames[k]
      /\ Cut(rwith, f.rwith) \in Seq(Nat) /\ Len(Cut(rwith, f.rwith)) = f.rwith
      /\ \A k \in 1..f.rwith : Cut(rwith, f.rwith)[k] = rwith[k]
      /\ f.type = "Main" => MainFits(frames, region, m + 1)
      /\ f.type # "Main" => CallFits(prog, frames, region, rwith, m + 1)
      /\ Tallied(frames, m + 1, recurse, calls, Len(e))
      /\ Finds(prog[pc], Found(prog)[pc])
  BY Leaves, Zenon
<1>2. /\ f.pc \in Nat /\ f.pc2 \in Nat
  BY <1>1, FrameTyped, Zenon
<1>3. /\ frames' \in Seq(Frames) /\ Len(frames') = m /\ \A k \in 1..m : frames'[k] = frames[k]
      /\ rwith' \in Seq(Nat) /\ Len(rwith') = f.rwith
      /\ \A k \in 1..f.rwith : rwith'[k] = rwith[k]
  BY <1>1, Zenon
<1>4. /\ Counts' /\ recurse' \in 0..Limit /\ calls' \in Seq(Requests)
      /\ e' \in Seq(BOOLEAN) /\ Quiet'
  <2>1. /\ recurse' = recurse - (IF f.type \in Uncil THEN 1 ELSE 0)
        /\ calls' = Front(calls) /\ e' = (IF Kind(f) = "Main" THEN Front(e) ELSE e)
    BY <1>1
  <2>2. QED
    BY ONLY <1>1, <1>3, <2>1, PopCounts, Zenon
<1>5. prog' = prog /\ swith' = f.swith /\ Depth(f) <= Len(v)
  BY <1>1, Zenon
<1>6. /\ pc' \in Nat /\ blame' \in Nat
  BY <1>1, <1>2 DEF Typed
<1>7. CASE f.type = "Main"
  <2>1. \/ mode' = "results" /\ region' = r /\ sval' = v
        \/ mode' = "native" /\ Discard(frames', r, v)
    BY <1>7, Zenon
  <2>2. /\ Stacked' /\ Modes' /\ region' \in Seq(Nat) /\ sval' \in Seq(Nat) /\ swith' \in Nat
    <3>1. /\ MainFits(frames, region, m + 1) /\ r \in Seq(Nat) /\ v \in Seq(Nat)
          /\ Len(r) = frames[m + 1].region
          /\ \A k \in 1..frames[m + 1].region : r[k] = region[k]
          /\ Depth(frames[m + 1]) <= Len(v)
          /\ Len(rwith') = frames[m + 1].rwith
          /\ \A k \in 1..frames[m + 1].rwith : rwith'[k] = rwith[k]
          /\ swith' = frames[m + 1].swith
      BY <1>1, <1>3, <1>5, <1>7, Zenon
    <3>2. QED
      BY ONLY <1>1, <1>3, <1>5, <2>1, <3>1, MainLeft, Zenon
  <2>3. mode' \in {"native", "results", "run", "error", "maintail"}
    BY <2>1
  <2>4. Typed'
    BY <1>1, <1>3, <1>4, <1>5, <1>6, <2>2, <2>3 DEF Typed
  <2>5. QED
    BY <1>4, <2>2, <2>4, Zenon DEF IInv
<1>8. CASE f.type # "Main"
  <2> DEFINE q == prog[f.pc - 1]
  <2>1. region' = r /\ sval' = v /\ mode' = "run"
    BY <1>8, Zenon
  <2>2. CallFits(prog, frames, region, rwith, m + 1)
    BY <1>1, <1>8
  <2>3. CalledBy(f, q)
    BY ONLY <1>1, <2>2 DEF CallFits
  <2>4. CFits(f)
    BY <1>1 DEF CFits, IsC, Uncil
  <2>5. /\ q.op \in CallOps
        /\ f.type \in Spews => Spreads(q)
        /\ f.type \in Nexts => f.pc2 = q.to /\ q.op \in {"inext", "inexts"}
    BY <1>1, <1>8, <2>3, <2>4, ExitFits, Zenon
  <2>6. /\ q = prog[f.pc - 1]
        /\ region' \in Seq(Nat) /\ Len(region') = f.region
        /\ \A k \in 1..f.region : region'[k] = region[k]
        /\ sval' \in Seq(Nat) /\ Depth(f) <= Len(sval')
    BY <1>5, <2>1, Zenon DEF q
  <2> HIDE DEF q
  <2>7. \/ pc' = f.pc /\ (Len(sval') = Depth(f) \/ Spreads(q))
        \/ pc' = q.to /\ q.op \in {"inext", "inexts"} /\ Len(sval') = Depth(f)
    BY <1>1, <2>1, <2>5, Zenon
  <2>8. Stacked' /\ Modes' /\ swith' \in Nat /\ pc' \in Nat
    BY ONLY <1>1, <1>3, <1>5, <2>1, <2>2, <2>5, <2>6, <2>7, ReturnsTo, Zenon
  <2>9. Typed'
    BY <1>1, <1>3, <1>4, <1>5, <1>6, <2>1, <2>6, <2>8 DEF Typed
  <2>10. QED
    BY <1>4, <2>8, <2>9, Zenon DEF IInv
<1>9. QED
  BY <1>7, <1>8, Zenon

LEMMA ExitKeeps ==
  ASSUME Verified, Plain, IInv, Exit PROVE IInv'
<1> DEFINE f == frames[Own]
           m == Own - 1
           given == IF Op = "exit0" THEN <<>>
                    ELSE IF Op = "exit1" THEN <<recurse>>
                    ELSE SubSeq(sval, Top(region) + 1, Len(sval))
           main == f.type = "Main"
           bare(rs) == Op = "end" /\ Len(rs) = f.region
           values(rs, ss) == IF Op # "end" THEN given
                             ELSE IF bare(rs) THEN <<Unknown>>
                             ELSE SubSeq(ss, Top(rs) + 1, Len(ss))
           over(rs, ss) == f.type \in Nexts /\ Op # "exit1" /\ (values(rs, ss) = <<>> \/ bare(rs))
           left(rs, ss) == Cut(ss, f.sval) \o IF f.type \in Spews THEN values(rs, ss) ELSE <<>>
<1>1. /\ mode = "run" /\ pc # 0 /\ Op \in {"end", "exit0", "exit1"}
      /\ \E l \in Piles(swith - f.swith, Len(SvalHere)) :
          LET rs == RegionHere \o l.region
              ss == SvalHere \o l.sval
          IN /\ frames' = Cut(frames, m)
             /\ swith' = f.swith /\ rwith' = Cut(rwith, f.rwith)
             /\ recurse' = recurse - 1
             /\ pc' = IF over(rs, ss) THEN f.pc2 ELSE f.pc
             /\ e' = IF main THEN Front(e) ELSE e
             /\ IF main /\ Last(e)
                THEN Discard(frames', Cut(rs, f.region), left(rs, ss)) /\ mode' = "native"
                ELSE /\ region' = Cut(rs, f.region) /\ sval' = left(rs, ss)
                     /\ mode' = IF main THEN "results" ELSE "run"
             /\ calls' = Front(calls)
      /\ prog' = prog /\ blame' = blame
  BY DEF Exit, On
<1>2. /\ Typed /\ Stacked /\ Quiet /\ Fits(prog) /\ pc \in 1..Len(prog)
      /\ m \in Nat /\ m + 1 = Own /\ m + 1 <= Len(frames) /\ m + 1 \in 1..Len(frames)
      /\ f = frames[m + 1] /\ f \in Frames /\ f.type \in Uncil
      /\ Depth(f) = f.sval /\ Kind(f) = f.type /\ Counted(f) /\ f.sval \in Nat
      /\ f.region \in Nat
      /\ Cut(frames, m) \in Seq(Frames) /\ Len(Cut(frames, m)) = m
      /\ \A k \in 1..m : Cut(frames, m)[k] = frames[k]
      /\ Cut(rwith, f.rwith) \in Seq(Nat) /\ Len(Cut(rwith, f.rwith)) = f.rwith
      /\ \A k \in 1..f.rwith : Cut(rwith, f.rwith)[k] = rwith[k]
      /\ f.type = "Main" => MainFits(frames, region, m + 1)
      /\ f.type # "Main" => CallFits(prog, frames, region, rwith, m + 1)
      /\ Tallied(frames, m + 1, recurse, calls, Len(e))
      /\ Finds(prog[pc], Found(prog)[pc])
  BY <1>1, Leaves, Zenon
<1>3. /\ RegionHere \in Seq(Nat) /\ f.region <= Len(RegionHere)
      /\ \A k \in 1..f.region : RegionHere[k] = region[k]
      /\ SvalHere \in Seq(Nat) /\ f.sval <= Len(SvalHere)
      /\ prog[pc].at.tries = <<>> =>
           RegionHere = region /\ SvalHere = sval /\ Own = Len(frames)
  BY <1>1, HereIs, Zenon
<1> DEFINE rs == RegionHere
           ss == SvalHere
<1>4. PICK l \in Piles(swith - f.swith, Len(SvalHere)) :
        /\ l.region = <<>> /\ l.sval = <<>>
        /\ RegionHere \o l.region = rs /\ SvalHere \o l.sval = ss
        /\ frames' = Cut(frames, m)
        /\ swith' = f.swith /\ rwith' = Cut(rwith, f.rwith)
        /\ recurse' = recurse - 1
        /\ pc' = IF over(rs, ss) THEN f.pc2 ELSE f.pc
        /\ e' = IF main THEN Front(e) ELSE e
        /\ IF main /\ Last(e)
           THEN Discard(frames', Cut(rs, f.region), left(rs, ss)) /\ mode' = "native"
           ELSE /\ region' = Cut(rs, f.region) /\ sval' = left(rs, ss)
                /\ mode' = IF main THEN "results" ELSE "run"
        /\ calls' = Front(calls)
  <2>1. ASSUME NEW l \in Piles(swith - f.swith, Len(SvalHere))
        PROVE  /\ l.region = <<>> /\ l.sval = <<>>
               /\ RegionHere \o l.region = rs /\ SvalHere \o l.sval = ss
    <3>1. l.region = <<>> /\ l.sval = <<>>
      BY PilesNone, Zenon
    <3>2. RegionHere \o <<>> = RegionHere /\ SvalHere \o <<>> = SvalHere
      BY <1>3, EmptyIs, Zenon
    <3>3. QED
      BY <3>1, <3>2, Zenon
  <2> HIDE DEF rs, ss, over, left, main, m, f
  <2>2. QED
    BY <1>1, <2>1, Zenon DEF rs, ss
<1>5. /\ ~ bare(rs) /\ values(rs, ss) \in Seq(Nat)
  <2>1. Op = prog[pc].op
    BY Zenon DEF Op, At
  <2>2. CASE Op = "end"
    <3>1. prog[pc].at.tries = <<>> /\ Len(Found(prog)[pc]) = 2
      BY <1>2, <2>1, <2>2 DEF Finds
    <3>2. rs = region /\ ss = sval
      BY <1>3, <3>1, Zenon
    <3>3. Len(region) = f.region + 2 - 1
      BY <1>1, <3>1, RunsAbove, Zenon
    <3>4. region \in Seq(Nat) /\ sval \in Seq(Nat) /\ f.region \in Nat
      BY <1>2 DEF Typed
    <3> HIDE DEF f
    <3>5. Len(region) # f.region /\ Len(region) \in 1..Len(region)
      BY ONLY <3>3, <3>4
    <3>6. Top(region) \in Nat
      BY ONLY <3>4, <3>5 DEF Top
    <3>7. SubSeq(sval, Top(region) + 1, Len(sval)) \in Seq(Nat)
      <4> DEFINE t == Top(region)
      <4> HIDE DEF t
      <4>1. Len(sval) \in Nat /\ Len(sval) <= Len(sval) /\ t \in Nat
        BY <3>4, <3>6 DEF t
      <4>2. SubSeq(sval, t + 1, Len(sval)) \in Seq(Nat)
        BY ONLY <3>4, <4>1, PartIs, Zenon
      <4>3. QED
        BY <4>2 DEF t
    <3>8. QED
      BY <2>2, <3>2, <3>5, <3>7
  <2>3. CASE Op # "end"
    <3>1. recurse \in Nat
      BY <1>2, TypedIs, Zenon
    <3>2. <<recurse>> \in Seq(Nat) /\ <<>> \in Seq(Nat)
      BY ONLY <3>1
    <3>3. given \in Seq(Nat)
      BY <1>1, <2>3, <3>2
    <3>4. QED
      BY <2>3, <3>3
  <2>4. QED
    BY <2>2, <2>3, Zenon
<1> DEFINE r == Cut(rs, f.region)
           v == left(rs, ss)
           vs == values(rs, ss)
<1> HIDE DEF f, m, given, bare, values
<1>6. /\ r \in Seq(Nat) /\ Len(r) = f.region /\ \A k \in 1..f.region : r[k] = region[k]
  <2>1. /\ r \in Seq(Nat) /\ Len(r) = f.region /\ \A k \in 1..f.region : r[k] = RegionHere[k]
    <3> DEFINE a == RegionHere
               n == f.region
    <3>1. a \in Seq(Nat) /\ n \in Nat /\ n <= Len(a)
      BY <1>2, <1>3
    <3> HIDE DEF a, n
    <3>2. Cut(a, n) \in Seq(Nat) /\ Len(Cut(a, n)) = n /\ \A k \in 1..n : Cut(a, n)[k] = a[k]
      BY ONLY <3>1, CutIs
    <3>3. QED
      BY <3>2 DEF a, n
  <2>2. QED
    BY <1>3, <2>1
<1>7. /\ v \in Seq(Nat) /\ f.sval <= Len(v)
      /\ Len(v) = f.sval \/ f.type \in Spews
      /\ vs = <<>> => Len(v) = f.sval
  <2> DEFINE c == Cut(ss, f.sval)
             t == IF f.type \in Spews THEN vs ELSE <<>>
  <2>1. c \in Seq(Nat) /\ Len(c) = f.sval
    BY ONLY <1>2, <1>3, CutIs
  <2>2. vs \in Seq(Nat)
    BY <1>5
  <2> HIDE DEF vs
  <2>3. t \in Seq(Nat) /\ (f.type \notin Spews => t = <<>>) /\ (vs = <<>> => t = <<>>)
    <3>1. <<>> \in Seq(Nat)
      OBVIOUS
    <3>2. QED
      BY <2>2, <3>1, Zenon
  <2>4. v = c \o t
    BY DEF vs
  <2> HIDE DEF c, t, v
  <2>5. v \in Seq(Nat) /\ Len(v) = Len(c) + Len(t)
    BY ONLY <2>1, <2>3, <2>4, JoinIs
  <2>6. Len(t) \in Nat /\ (t = <<>> => Len(t) = 0)
    BY ONLY <2>3
  <2>7. f.sval <= Len(v) /\ (t = <<>> => Len(v) = f.sval)
    BY ONLY <1>2, <2>1, <2>5, <2>6, SMTT(60)
  <2>8. QED
    BY <2>3, <2>5, <2>7, Zenon
<1>8. \/ pc' = f.pc
      \/ pc' = f.pc2 /\ f.type \in Nexts /\ Len(v) = f.sval
  <2>1. over(rs, ss) => f.type \in Nexts /\ vs = <<>>
    BY <1>5
  <2>2. QED
    BY <1>4, <1>7, <2>1
<1>9. \/ f.type = "Main" /\ mode' = "native" /\ Discard(frames', r, v)
      \/ region' = r /\ sval' = v /\ mode' = IF f.type = "Main" THEN "results" ELSE "run"
  BY <1>4
<1> HIDE DEF r, v, vs
<1>10. /\ m = Own - 1 /\ f = frames[Own]
  BY DEF m, f
<1>11. /\ frames' = Cut(frames, m) /\ swith' = f.swith /\ rwith' = Cut(rwith, f.rwith)
       /\ recurse' = recurse - 1 /\ calls' = Front(calls) /\ prog' = prog /\ blame' = blame
       /\ e' = (IF f.type = "Main" THEN Front(e) ELSE e)
  BY <1>1, <1>4
<1>12. /\ Verified /\ IInv /\ mode = "run"
  BY <1>1
<1>13. QED
  BY ONLY <1>6, <1>7, <1>8, <1>9, <1>10, <1>11, <1>12, ExitStep, Zenon

(* The arguments of a tail call are all the values the function has.         *)
LEMMA TailTakes ==
  ASSUME Verified, IInv, mode = "run", prog[pc].op \in {"dtail", "ftail"},
         NEW f, f = frames[Own]
  PROVE  /\ prog[pc].at.tries = <<>>
         /\ Len(sval) - Argc(prog[pc]) = f.sval
         /\ Pending(prog[pc]) = <<>>
<1> DEFINE q == prog[pc]
           s == Found(prog)[pc]
<1>1. /\ Finds(q, s) /\ s \in Seq(Levels) /\ Leveled(region, f, s, Now)
      /\ f \in Frames /\ q.arg \in Nat
  <2>1. Fits(prog) /\ pc \in 1..Len(prog) /\ f \in Frames /\ Leveled(region, f, s, Now)
    BY RunsAt, Zenon
  <2>2. QED
    BY <2>1, CodeAt, Zenon
<1>2. /\ region \in Seq(Nat) /\ sval \in Seq(Nat) /\ Len(sval) \in Nat
  BY DEF IInv, Typed
<1>3. Now.region = Len(region) /\ Now.sval = Len(sval)
  BY NowTyped DEF IInv
<1>4. q.at.tries = <<>>
  BY <1>1 DEF Finds
<1>5. f.region \in Nat /\ f.sval \in Nat
  BY <1>1, FrameTyped, Zenon
<1>6. Exactly(0).n = 0 /\ Exactly(0).is = "exactly" /\ Exactly(q.arg).n = q.arg /\ Exactly(q.arg).is = "exactly"
  BY DEF Exactly
<1> HIDE DEF s
<1>7. CASE q.op = "dtail"
  <2>1. s = <<Exactly(0), Exactly(q.arg)>>
    BY <1>1, <1>7 DEF Finds
  <2>2. Len(s) = 2 /\ s[1] = Exactly(0) /\ s[2] = Exactly(q.arg)
    BY <2>1
  <2>3. /\ Len(region) = f.region + 2 - 1
        /\ \A k \in 1..2 :
             IF s[k].is = "atleast" THEN Upto(region, f, s, Now, k) - From(region, f, k) >= s[k].n
             ELSE Upto(region, f, s, Now, k) - From(region, f, k) = s[k].n
    BY <1>1, <1>3, <2>2, Zenon DEF Leveled
  <2>4. /\ Upto(region, f, s, Now, 1) - From(region, f, 1) = 0
        /\ Upto(region, f, s, Now, 2) - From(region, f, 2) = q.arg
    BY <1>6, <2>2, <2>3
  <2>5. /\ From(region, f, 1) = f.sval /\ Upto(region, f, s, Now, 1) = region[f.region + 1]
        /\ From(region, f, 2) = region[f.region + 2 - 1] /\ Upto(region, f, s, Now, 2) = Len(sval)
    BY <1>3, <2>2 DEF From, Upto
  <2>6. f.region + 2 - 1 = f.region + 1 /\ f.region + 1 \in 1..Len(region)
    BY ONLY <1>2, <1>5, <2>3
  <2>7. region[f.region + 1] \in Nat /\ region # <<>>
    BY ONLY <1>2, <2>6
  <2>8. region[f.region + 1] - f.sval = 0 /\ Len(sval) - region[f.region + 1] = q.arg
    BY <2>4, <2>5, <2>6, Zenon
  <2>9. region[f.region + 1] = f.sval /\ Len(sval) - q.arg = f.sval
    BY ONLY <1>1, <1>2, <1>5, <2>7, <2>8, SMTT(60)
  <2>10. Argc(q) = q.arg /\ Regions(q) = region
    BY <1>7 DEF Argc, Regions
  <2>11. Top(region) = f.sval
    BY <2>3, <2>6, <2>9, Zenon DEF Top
  <2>12. Pending(q) = SubSeq(sval, f.sval + 1, f.sval)
    BY <2>7, <2>9, <2>10, <2>11, Zenon DEF Pending
  <2>13. SubSeq(sval, f.sval + 1, f.sval) = <<>>
    BY ONLY <1>5
  <2>14. QED
    BY <1>4, <2>9, <2>10, <2>12, <2>13, Zenon
<1>8. CASE q.op = "ftail"
  <2>1. Len(s) = 3 /\ s[1] = Exactly(0) /\ s[2] = Exactly(0)
    BY <1>1, <1>8 DEF Finds
  <2>2. /\ Len(region) = f.region + 3 - 1
        /\ \A k \in 1..3 :
             IF s[k].is = "atleast" THEN Upto(region, f, s, Now, k) - From(region, f, k) >= s[k].n
             ELSE Upto(region, f, s, Now, k) - From(region, f, k) = s[k].n
    BY <1>1, <1>3, <2>1, Zenon DEF Leveled
  <2>3. /\ Upto(region, f, s, Now, 1) - From(region, f, 1) = 0
        /\ Upto(region, f, s, Now, 2) - From(region, f, 2) = 0
    BY <1>6, <2>1, <2>2
  <2>4. /\ From(region, f, 1) = f.sval /\ Upto(region, f, s, Now, 1) = region[f.region + 1]
        /\ From(region, f, 2) = region[f.region + 2 - 1]
        /\ Upto(region, f, s, Now, 2) = region[f.region + 2]
    BY <2>1 DEF From, Upto
  <2>5. /\ f.region + 2 - 1 = f.region + 1 /\ f.region + 3 - 1 = f.region + 2
        /\ f.region + 1 \in 1..Len(region) /\ f.region + 2 \in 1..Len(region)
        /\ f.region + 1 \in 1..(Len(region) - 1) /\ Len(region) - 1 = f.region + 1 /\ Len(region) > 0
    <3>1. Len(region) = f.region + 3 - 1 /\ Len(region) \in Nat
      BY <1>2, <2>2, LenProperties
    <3>2. QED
      BY ONLY <1>5, <3>1
  <2>6. region[f.region + 1] \in Nat /\ region[f.region + 2] \in Nat
    BY ONLY <1>2, <2>5
  <2>7. region[f.region + 1] - f.sval = 0 /\ region[f.region + 2] - region[f.region + 1] = 0
    BY <2>3, <2>4, <2>5, Zenon
  <2>8. region[f.region + 1] = f.sval /\ region[f.region + 2] = f.sval
    BY ONLY <1>5, <2>6, <2>7
  <2>9. Top(region) = f.sval
    BY <2>2, <2>5, <2>8, Zenon DEF Top
  <2>10. Argc(q) = Len(sval) - f.sval /\ Regions(q) = Front(region)
    BY <1>8, <2>9 DEF Argc, Regions
  <2>11. Len(sval) - (Len(sval) - f.sval) = f.sval
    BY ONLY <1>2, <1>5
  <2>12. Front(region) # <<>> /\ Top(Front(region)) = f.sval
    <3>1. /\ Front(region) \in Seq(Nat) /\ Len(Front(region)) = Len(region) - 1
          /\ \A k \in 1..(Len(region) - 1) : Front(region)[k] = region[k]
      BY ONLY <1>2, <2>5, FrontIs
    <3>2. Len(Front(region)) = f.region + 1 /\ Front(region)[f.region + 1] = f.sval
      BY <2>5, <2>8, <3>1, Zenon
    <3>3. Front(region) # <<>>
      BY ONLY <1>5, <3>1, <3>2
    <3>4. QED
      BY <3>2, <3>3, Zenon DEF Top
  <2>13. Pending(q) = SubSeq(sval, f.sval + 1, f.sval)
    BY <2>10, <2>11, <2>12, Zenon DEF Pending
  <2>14. SubSeq(sval, f.sval + 1, f.sval) = <<>>
    BY ONLY <1>5
  <2>15. QED
    BY <1>4, <2>10, <2>11, <2>13, <2>14, Zenon
<1>9. QED
  BY <1>7, <1>8

(* So nothing is owed.                                                       *)
LEMMA OwesNone ==
  ASSUME calls \in Seq(Requests) PROVE Owing(<<>>) = calls
<1> DEFINE n == Len(calls)
           c == calls[n]
<1>1. CASE calls = <<>>
  BY <1>1 DEF Owing
<1>2. CASE calls # <<>>
  <2>1. n \in 1..Len(calls) /\ c \in Requests
    BY <1>2
  <2>2. c.owed = <<>>
    BY <2>1 DEF Requests
  <2>3. c.owed \o <<>> = <<>>
    BY <2>2
  <2>4. [c EXCEPT !.owed = <<>>] = c
    BY <2>1, <2>2 DEF Requests
  <2>5. Owing(<<>>) = [calls EXCEPT ![n] = [c EXCEPT !.owed = c.owed \o <<>>]]
    BY DEF Owing
  <2>6. Owing(<<>>) = [calls EXCEPT ![n] = c]
    BY <2>3, <2>4, <2>5, Zenon
  <2>7. [calls EXCEPT ![n] = c] = calls
    BY <2>1
  <2>8. QED
    BY <2>6, <2>7, Zenon
<1>3. QED
  BY <1>1, <1>2, Zenon

(* The frame of a C function takes the place of that of the function that    *)
(* has called it last.                                                       *)
LEMMA TakesPlace ==
  ASSUME NEW p, Fits(p), NEW fr \in Seq(Frames), NEW fr2 \in Seq(Frames),
         NEW r \in Seq(Nat), NEW r2 \in Seq(Nat), NEW w \in Seq(Nat), NEW w2 \in Seq(Nat),
         NEW n \in 1..Len(fr), n \in 1..Len(fr2), \A k \in 1..(n - 1) : fr2[k] = fr[k],
         NEW f, f = fr[n], NEW g, g = fr2[n], f.type \in Uncil, IsC(g), CFits(g),
         g.cont = "tail", Kind(g) = Kind(f), To(g) = To(f), g.pc = f.pc, g.pc2 = f.pc2,
         \A k \in 1..f.region : r2[k] = r[k],
         \A k \in 1..f.rwith : w2[k] = w[k],
         FrameFits(p, fr, r, w, n)
  PROVE  FrameFits(p, fr2, r2, w2, n)
<1>1. f \in Frames /\ g \in Frames
  OBVIOUS
<1>2. /\ g.region = f.region /\ Depth(g) = Depth(f) /\ g.rwith = f.rwith /\ g.swith = f.swith
  <2>1. /\ To(g).region = g.region /\ To(g).sval = Depth(g)
        /\ To(g).rwith = g.rwith /\ To(g).swith = g.swith
    BY <1>1, ToTyped, Zenon
  <2>2. /\ To(f).region = f.region /\ To(f).sval = Depth(f)
        /\ To(f).rwith = f.rwith /\ To(f).swith = f.swith
    BY <1>1, ToTyped, Zenon
  <2>3. QED
    BY <2>1, <2>2
<1>3. f.type # "Try" /\ g.type # "Try" /\ Counted(f) /\ Counted(g)
  BY DEF Uncil, IsC, Counted
<1>4. n \in Nat /\ n - 1 \in Nat /\ n - 1 <= Len(fr) /\ Len(fr) \in Nat
  OBVIOUS
<1>5. ASSUME Kind(g) = "Main"
      PROVE  MainFits(fr2, r2, n)
  <2>1. MainFits(fr, r, n)
    BY <1>5, Zenon DEF FrameFits
  <2>2. n > 1 => fr2[n - 1] = fr[n - 1]
    BY <1>4
  <2>3. r2[f.region] = r[f.region]
    <3>1. f.region \in 1..f.region
      <4>1. f.region \in Nat
        BY <1>1, FrameTyped, Zenon
      <4>2. n = 1 => f.region = 1
        BY <2>1, Zenon DEF MainFits
      <4>3. n > 1 => f.region = fr[n - 1].region + 1
        BY <2>1, Zenon DEF MainFits
      <4>4. n > 1 => fr[n - 1].region \in Nat
        <5>1. n > 1 => fr[n - 1] \in Frames
          BY ONLY <1>4, fr \in Seq(Frames)
        <5>2. QED
          BY <5>1, FrameTyped, Zenon
      <4>5. n = 1 \/ n > 1
        BY <1>4
      <4>6. QED
        BY ONLY <4>1, <4>2, <4>3, <4>4, <4>5
    <3>2. QED
      BY <3>1, Zenon
  <2>4. QED
    BY <1>2, <2>1, <2>2, <2>3, Zenon DEF MainFits
<1>6. ASSUME Kind(g) # "Main"
      PROVE  CallFits(p, fr2, r2, w2, n)
  <2> DEFINE i == f.pc - 1
             s == Taken(Found(p)[i], p[i])
  <2>1. CallFits(p, fr, r, w, n)
    BY <1>3, <1>6, Zenon DEF FrameFits
  <2>2. PICK o \in 1..(n - 1) : Stands(p, fr, r, w, o, n - 1, i, s, To(f))
    BY <2>1, Zenon DEF CallFits
  <2>3. CalledBy(f, p[i])
    BY <2>1, Zenon DEF CallFits
  <2>4. CalledBy(g, p[i])
    BY <1>3, <2>3 DEF CalledBy
  <2>5. i \in 1..Len(p)
    BY <2>2, Zenon DEF Stands
  <2>6. s \in Seq(Levels) /\ Len(s) \in Nat \ {0}
    BY <2>5, TakenIs, Zenon
  <2>7. To(f) \in Extent /\ To(f).region = f.region /\ To(f).rwith = f.rwith
    BY <1>1, ToTyped, Zenon
  <2> HIDE DEF i, s
  <2>8. Len(s) > 0
    BY ONLY <2>6
  <2>9. /\ \A k \in 1..To(f).region : r2[k] = r[k]
        /\ \A k \in 1..To(f).rwith : w2[k] = w[k]
    BY <2>7, Zenon
  <2>10. /\ Fits(p) /\ fr \in Seq(Frames) /\ fr2 \in Seq(Frames)
         /\ r \in Seq(Nat) /\ r2 \in Seq(Nat) /\ w \in Seq(Nat) /\ w2 \in Seq(Nat)
         /\ \A k \in 1..(n - 1) : fr2[k] = fr[k]
    OBVIOUS
  <2>11. Stands(p, fr2, r2, w2, o, n - 1, i, s, To(f))
    BY ONLY <1>4, <2>2, <2>6, <2>7, <2>8, <2>9, <2>10, StandsSame, Zenon
  <2>12. Stands(p, fr2, r2, w2, o, n - 1, g.pc - 1, Taken(Found(p)[g.pc - 1], p[g.pc - 1]), To(g))
    BY <2>11, Zenon DEF i, s
  <2>13. CalledBy(g, p[g.pc - 1])
    BY <2>4, Zenon DEF i
  <2>14. QED
    BY <1>3, <2>12, <2>13, Zenon DEF CallFits
<1>7. QED
  BY <1>3, <1>5, <1>6, Zenon DEF FrameFits

(* A tail call: the function begins again, on the frame it had.              *)
LEMMA TailUncil ==
  ASSUME Verified, IInv, mode = "run", NEW f, f = frames[Len(frames)], Own = Len(frames),
         f.region <= Len(region), prog' = prog, frames' = frames, recurse' = recurse,
         calls' = calls, e' \in {e, Must}, sval' = Cut(sval, f.sval),
         region' = Cut(region, f.region), rwith' = Cut(rwith, f.rwith), swith' = f.swith,
         Enter, blame' = blame
  PROVE  IInv'
<1> DEFINE n == Len(frames)
<1>1. /\ Typed /\ Stacked /\ Quiet /\ Fits(prog) /\ Counts
  BY DEF IInv, Verified, Typed
<1>2. n \in 1..Len(frames) /\ f \in Frames /\ f.type \in Uncil /\ f = frames[n]
  BY RunsAt, Zenon
<1>3. Depth(f) = f.sval
  BY <1>2 DEF Depth, Uncil
<1>4. /\ region' \in Seq(Nat) /\ Len(region') = f.region
      /\ \A k \in 1..f.region : region'[k] = region[k]
      /\ rwith' \in Seq(Nat) /\ Len(rwith') = f.rwith
      /\ \A k \in 1..f.rwith : rwith'[k] = rwith[k]
      /\ sval' \in Seq(Nat) /\ Len(sval') = f.sval
  BY <1>1, <1>2, <1>3, CutsTo, Zenon
<1>5. swith' \in Nat
  BY <1>2, FrameTyped, Zenon
<1>6. Nested(prog, frames', region', rwith')
  <2>1. /\ frames \in Seq(Frames) /\ region \in Seq(Nat) /\ rwith \in Seq(Nat) /\ n \in 0..Len(frames)
    BY <1>1, <1>2 DEF Typed
  <2>2. Nested(prog, frames, region, rwith) /\ frames' \in Seq(Frames) /\ n = Len(frames')
        /\ \A k \in 1..n : frames'[k] = frames[k]
    BY <1>1, <2>1, Zenon DEF Stacked
  <2>3. n > 0 => /\ \A k \in 1..frames[n].region : region'[k] = region[k]
                 /\ \A k \in 1..frames[n].rwith : rwith'[k] = rwith[k]
    BY <1>2, <1>4, Zenon
  <2>4. Fits(prog) /\ region' \in Seq(Nat) /\ rwith' \in Seq(Nat)
    BY <1>1, <1>4
  <2> HIDE DEF n
  <2>5. QED
    BY ONLY <2>1, <2>2, <2>3, <2>4, NestedCut, ZenonT(60)
<1>7. Stacked' /\ Modes'
  <2>1. /\ mode' = "run" /\ pc' = 1 /\ frames' \in Seq(Frames) /\ prog' = prog
    BY <1>1 DEF Enter, Typed
  <2>2. n = Len(frames') /\ n > 0 /\ f = frames'[n]
    BY <1>2
  <2>3. f.region = Len(region') /\ f.sval = Len(sval') /\ f.rwith = Len(rwith') /\ f.swith = swith'
    BY <1>4, Zenon
  <2> HIDE DEF n
  <2>4. QED
    BY ONLY <1>1, <1>2, <1>4, <1>5, <1>6, <2>1, <2>2, <2>3, Enters, Zenon
<1>8. e' \in Seq(BOOLEAN) /\ Len(e') = Len(e) /\ Quiet'
  BY <1>1, QuietMust, Zenon
<1>9. Counts'
  BY <1>1, <1>8, CountsSame, Zenon
<1>10. Typed'
  BY <1>1, <1>4, <1>5, <1>8 DEF Typed, Enter
<1>11. QED
  BY <1>7, <1>8, <1>9, <1>10, Zenon DEF IInv

(* The arguments go to a C function.                                         *)
LEMMA TailC ==
  ASSUME Verified, IInv, mode = "run", NEW m, m = Own - 1, NEW f, f = frames[Own],
         Own = Len(frames),
         NEW g \in Frames, IsC(g), CFits(g), g.cont = "tail", Kind(g) = Kind(f), g.args = f.sval,
         g.region = f.region, g.rwith = f.rwith, g.swith = f.swith, g.pc = f.pc,
         g.pc2 = f.pc2, g.sval = Len(sval),
         prog' = prog, frames' = Append(Cut(frames, m), g), recurse' = recurse - 1,
         calls' = calls, e' \in {e, Must}, sval' = sval, pc' = pc, mode' = "native",
         region' = Cut(region, f.region), rwith' = Cut(rwith, f.rwith), swith' = f.swith,
         blame' = blame
  PROVE  IInv'
<1> DEFINE n == m + 1
<1>1. /\ Typed /\ Stacked /\ Quiet /\ Fits(prog) /\ pc \in 1..Len(prog)
      /\ m \in Nat /\ m + 1 = Own /\ m + 1 <= Len(frames) /\ m + 1 \in 1..Len(frames)
      /\ f = frames[m + 1] /\ f \in Frames /\ f.type \in Uncil
      /\ Depth(f) = f.sval /\ Kind(f) = f.type /\ Counted(f) /\ f.sval \in Nat
      /\ f.region \in Nat
      /\ Cut(frames, m) \in Seq(Frames) /\ Len(Cut(frames, m)) = m
      /\ \A k \in 1..m : Cut(frames, m)[k] = frames[k]
      /\ Cut(rwith, f.rwith) \in Seq(Nat) /\ Len(Cut(rwith, f.rwith)) = f.rwith
      /\ \A k \in 1..f.rwith : Cut(rwith, f.rwith)[k] = rwith[k]
      /\ f.type = "Main" => MainFits(frames, region, m + 1)
      /\ f.type # "Main" => CallFits(prog, frames, region, rwith, m + 1)
      /\ Tallied(frames, m + 1, recurse, calls, Len(e))
      /\ Finds(prog[pc], Found(prog)[pc])
  BY Leaves, ZenonT(60)
<1>2. /\ region' \in Seq(Nat) /\ Len(region') = f.region
      /\ \A k \in 1..f.region : region'[k] = region[k]
      /\ rwith' \in Seq(Nat) /\ Len(rwith') = f.rwith
      /\ \A k \in 1..f.rwith : rwith'[k] = rwith[k]
  BY <1>1, CutsTo, Zenon
<1>3. swith' \in Nat
  BY <1>1, FrameTyped, Zenon
<1>4. /\ frames' \in Seq(Frames) /\ Len(frames') = m + 1 /\ frames'[m + 1] = g
      /\ \A k \in 1..m : frames'[k] = frames[k]
  <2> DEFINE d == Cut(frames, m)
  <2>1. d \in Seq(Frames) /\ Len(d) = m /\ frames' = Append(d, g) /\ g \in Frames
    BY <1>1
  <2> HIDE DEF d
  <2>2. /\ frames' \in Seq(Frames) /\ Len(frames') = Len(d) + 1 /\ frames'[Len(d) + 1] = g
        /\ \A k \in 1..Len(d) : frames'[k] = d[k]
    BY ONLY <2>1, AppendIs
  <2>3. QED
    BY <1>1, <2>1, <2>2, Zenon DEF d
<1>5. Depth(g) = g.args /\ g.type \notin Uncil /\ Counted(g)
  BY DEF Depth, IsC, Uncil, Counted
<1>6. To(g) = To(f)
  BY <1>1, <1>5 DEF To
<1>7. /\ frames \in Seq(Frames) /\ region \in Seq(Nat) /\ rwith \in Seq(Nat)
      /\ Nested(prog, frames, region, rwith)
  BY <1>1 DEF Typed, Stacked
<1>8. (m + 1) - 1 = m /\ m + 1 \in 1..(m + 1) /\ m \in 0..Len(frames) /\ (m > 0 => m \in 1..Len(frames))
      /\ m <= m + 1
  <2>1. Len(frames) \in Nat
    BY <1>7
  <2>2. QED
    BY ONLY <1>1, <2>1
<1> HIDE DEF n
<1>9. FrameFits(prog, frames', region', rwith', n)
  <2>1. /\ n \in 1..Len(frames) /\ n \in 1..Len(frames') /\ f = frames[n] /\ g = frames'[n]
        /\ \A k \in 1..(n - 1) : frames'[k] = frames[k]
        /\ FrameFits(prog, frames, region, rwith, n)
    <3>1. FrameFits(prog, frames, region, rwith, m + 1)
      BY <1>1, <1>7, Zenon DEF Nested
    <3>2. QED
      BY <1>1, <1>4, <1>8, <3>1, Zenon DEF n
  <2>2. /\ IsC(g) /\ CFits(g) /\ g.cont = "tail" /\ Kind(g) = Kind(f) /\ g.pc = f.pc /\ g.pc2 = f.pc2
    OBVIOUS
  <2>3. QED
    BY ONLY <1>1, <1>2, <1>4, <1>6, <1>7, <2>1, <2>2, TakesPlace, Zenon
<1>10. Nested(prog, frames', region', rwith')
  <2>1. m > 0 => Above(To(f), frames[m])
    BY <1>1, <1>7, <1>8, Zenon DEF Nested
  <2>2. m > 0 => frames[m] \in Frames /\ frames[m].region <= f.region /\ frames[m].rwith <= f.rwith
    <3>1. To(f).region = f.region /\ To(f).rwith = f.rwith
      BY <1>1, ToTyped, Zenon
    <3>2. m > 0 => frames[m] \in Frames
      BY <1>7, <1>8
    <3>3. QED
      BY <2>1, <3>1, <3>2, Zenon DEF Above
  <2>3. m > 0 => /\ \A k \in 1..frames[m].region : k \in 1..f.region
                 /\ \A k \in 1..frames[m].rwith : k \in 1..f.rwith
    <3>1. m > 0 => frames[m].region \in Nat /\ frames[m].rwith \in Nat
      BY <2>2, FrameTyped, Zenon
    <3>2. f.region \in Nat /\ f.rwith \in Nat
      BY <1>1, FrameTyped, Zenon
    <3>3. QED
      BY ONLY <2>2, <3>1, <3>2
  <2>4. m > 0 => /\ \A k \in 1..frames[m].region : region'[k] = region[k]
                 /\ \A k \in 1..frames[m].rwith : rwith'[k] = rwith[k]
                 /\ Above(To(frames'[m + 1]), frames[m])
    BY <1>2, <1>4, <1>6, <2>1, <2>3, Zenon
  <2>5. FrameFits(prog, frames', region', rwith', m + 1)
    BY <1>9 DEF n
  <2>6. /\ Fits(prog) /\ m \in 0..Len(frames)
        /\ region' \in Seq(Nat) /\ rwith' \in Seq(Nat)
    BY <1>1, <1>2, <1>8
  <2>7. QED
    BY ONLY <1>4, <1>7, <2>4, <2>5, <2>6, NestedPush, Zenon
<1>11. Now' = Bottom(frames') /\ InsideC'
  <2>1. frames' # <<>> /\ frames'[Len(frames')] = g
    BY <1>1, <1>4
  <2>2. Bottom(frames') = [To(g) EXCEPT !.sval = g.sval]
    BY <2>1, Zenon DEF Bottom
  <2>3. InsideC'
    BY <2>1, Zenon DEF InsideC
  <2>4. Now' = [region |-> g.region, sval |-> g.sval, rwith |-> g.rwith, swith |-> g.swith]
    BY <1>2 DEF Now
  <2>5. [To(g) EXCEPT !.sval = g.sval]
          = [region |-> g.region, sval |-> g.sval, rwith |-> g.rwith, swith |-> g.swith]
    BY DEF To
  <2>6. QED
    BY <2>2, <2>3, <2>4, <2>5, Zenon
<1>12. Stacked' /\ Modes'
  BY <1>4, <1>10, <1>11, NativeIs, Zenon
<1>13. e' \in Seq(BOOLEAN) /\ Len(e') = Len(e) /\ Quiet'
  BY <1>1, QuietMust, Zenon
<1>14. recurse \in Nat /\ calls \in Seq(Requests) /\ Len(e) \in Nat /\ recurse \in 0..Limit /\ Limit \in Nat
       /\ Len(calls) \in Nat
  BY <1>1, TypedIs, Zenon
<1>15. Counts' /\ recurse' \in 0..Limit
  <2> DEFINE c == Last(calls)
             d == Front(calls)
             z == IF Kind(f) = "Main" THEN 1 ELSE 0
  <2>1. /\ Counted(frames[m + 1]) /\ Tallied(frames, m + 1, recurse, calls, Len(e))
        /\ m \in Nat /\ recurse \in Nat /\ calls \in Seq(Requests) /\ Len(e) \in Nat
    BY <1>1, <1>14, Zenon
  <2>2. /\ Len(calls) > 0 /\ c \in Requests /\ Answers(c, frames[m + 1])
        /\ d \in Seq(Requests) /\ c = calls[Len(calls)]
        /\ frames[m + 1].type \in Uncil => recurse > 0
        /\ Kind(frames[m + 1]) = "Main" => Len(e) > 0
        /\ Tallied(frames, m, recurse - (IF frames[m + 1].type \in Uncil THEN 1 ELSE 0), d,
                   Len(e) - (IF Kind(frames[m + 1]) = "Main" THEN 1 ELSE 0))
    BY ONLY <2>1, TallyPop, Zenon
  <2> HIDE DEF c, d, z
  <2>3. Tallied(frames', m, recurse - 1, d, Len(e) - z)
    <3>1. Tallied(frames, m, recurse - 1, d, Len(e) - z)
      BY <1>1, <2>2, Zenon DEF z
    <3>2. QED
      BY ONLY <1>1, <1>4, <3>1, TallySame, Zenon
  <2>4. recurse > 0 /\ (Kind(f) = "Main" => Len(e) > 0)
    BY <1>1, <2>2, Zenon
  <2>5. recurse - 1 \in Nat /\ recurse' \in 0..Limit /\ (recurse - 1) + 0 = recurse - 1
    BY ONLY <1>14, <2>4, recurse' = recurse - 1
  <2>6. Len(e) - z \in Nat /\ (Len(e) - z) + z = Len(e)
    BY ONLY <1>14, <2>4 DEF z
  <2>7. Counted(frames'[m + 1]) /\ Answers(c, frames'[m + 1])
    <3>1. Answers(c, f)
      BY <1>1, <2>2, Zenon
    <3>2. Answers(c, g)
      BY <1>1, <1>5, <3>1, Zenon DEF Answers
    <3>3. QED
      BY <1>4, <1>5, <3>2, Zenon
  <2>8. Tallied(frames', m + 1, (recurse - 1) + (IF frames'[m + 1].type \in Uncil THEN 1 ELSE 0),
                 Append(d, c), (Len(e) - z) + (IF Kind(frames'[m + 1]) = "Main" THEN 1 ELSE 0))
    BY <1>1, <2>2, <2>3, <2>5, <2>6, <2>7, TallyPush, ZenonT(60)
  <2>9. Append(d, c) = calls
    BY ONLY <1>14, <2>2 DEF c, d, Front, Last
  <2>10. Tallied(frames', m + 1, recurse - 1, calls, Len(e))
    <3>1. (IF Kind(frames'[m + 1]) = "Main" THEN 1 ELSE 0) = z
      BY <1>4, Zenon DEF z
    <3>2. (IF frames'[m + 1].type \in Uncil THEN 1 ELSE 0) = 0
      BY <1>4, <1>5, Zenon
    <3>3. QED
      BY <2>5, <2>6, <2>8, <2>9, <3>1, <3>2, Zenon
  <2>11. QED
    BY <1>4, <1>13, <2>5, <2>10, Zenon DEF Counts
<1>16. Typed'
  BY <1>1, <1>2, <1>3, <1>4, <1>13, <1>14, <1>15 DEF Typed
<1>17. QED
  BY <1>12, <1>13, <1>15, <1>16, Zenon DEF IInv

(* The frame of the C function, d values deep.                               *)
Place(f, d, i) ==
  [f EXCEPT !.type = IF @ \in Spews THEN "CallCSpew" ELSE "CallC",
            !.sval = d, !.args = f.sval, !.cont = "tail", !.tail = f.type, !.from = i]
Replaces(g, f, d) ==
  /\ g \in Frames /\ IsC(g) /\ CFits(g) /\ g.cont = "tail" /\ Kind(g) = Kind(f)
  /\ g.args = f.sval /\ g.region = f.region /\ g.rwith = f.rwith /\ g.swith = f.swith
  /\ g.pc = f.pc /\ g.pc2 = f.pc2 /\ g.sval = d
LEMMA PlaceIs ==
  ASSUME NEW f \in Frames, f.type \in Uncil, NEW d \in Nat, NEW i \in Nat, f.sval <= d
  PROVE  Replaces(Place(f, d, i), f, d)
<1> DEFINE g == Place(f, d, i)
<1> DEFINE t == IF f.type \in Spews THEN "CallCSpew" ELSE "CallC"
<1>1. g = [type |-> t, pc |-> f.pc, pc2 |-> f.pc2, sval |-> d, region |-> f.region,
           swith |-> f.swith, rwith |-> f.rwith, to |-> f.to, try |-> f.try,
           args |-> f.sval, cont |-> "tail", out |-> f.out, tail |-> f.type, from |-> i]
  <2>1. g = [f EXCEPT !.type = t, !.sval = d, !.args = f.sval, !.cont = "tail",
                      !.tail = f.type, !.from = i]
    BY Zenon DEF Place
  <2> HIDE DEF g, t
  <2>2. QED
    BY ONLY <2>1, f \in Frames DEF Frames
<1>2. t \in {"CallC", "CallCSpew"} /\ (t = "CallCSpew" <=> f.type \in Spews)
  OBVIOUS
<1>3. /\ f.pc \in Nat /\ f.pc2 \in Nat /\ f.region \in Nat /\ f.swith \in Nat /\ f.rwith \in Nat
      /\ f.to \in Nat /\ f.try \in Nat /\ f.sval \in Nat /\ f.out \in Nat
  BY DEF Frames
<1> HIDE DEF t, g
<1>4. g \in Frames
  BY ONLY <1>1, <1>2, <1>3, d \in Nat, i \in Nat, f.type \in Uncil DEF Frames
<1>5. /\ g.type = t /\ g.cont = "tail" /\ g.tail = f.type
      /\ g.args = f.sval /\ g.region = f.region /\ g.rwith = f.rwith /\ g.swith = f.swith
      /\ g.pc = f.pc /\ g.pc2 = f.pc2 /\ g.sval = d
  BY ONLY <1>1
<1>6. IsC(g) /\ CFits(g) /\ Kind(g) = Kind(f)
  BY <1>2, <1>5 DEF IsC, CFits, Kind, Uncil
<1>7. QED
  BY <1>4, <1>5, <1>6, Zenon DEF Replaces, g

LEMMA TailCallKeeps ==
  ASSUME Verified, Plain, IInv, TailCall PROVE IInv'
<1> DEFINE q == prog[pc]
           f == frames[Own]
           m == Own - 1
           down == Cut(frames, m)
           cframe(depth) == [f EXCEPT
             !.type = IF @ \in Spews THEN "CallCSpew" ELSE "CallC",
             !.sval = depth, !.args = depth - Argc(q), !.cont = "tail",
             !.tail = f.type, !.from = pc]
           Ends(s, callee) ==
             CASE callee = "uncil" ->
                    /\ frames' = Cut(frames, Own)
                    /\ sval' = Cut(s, f.sval)
                    /\ calls' = Owing(Pending(q))
                    /\ Enter /\ recurse' = recurse /\ blame' = blame
               [] callee = "c" ->
                    /\ frames' = Append(down, cframe(Len(s)))
                    /\ sval' = s /\ recurse' = recurse - 1
                    /\ calls' = Owing(Pending(q))
                    /\ mode' = "native" /\ ret' = NoRet
                    /\ pc' = pc /\ blame' = blame
               [] callee = "none" /\ f.type # "Main" ->
                    /\ frames' = down /\ sval' = s /\ recurse' = recurse - 1
                    /\ mode' = "error" /\ ret' = NoRet
                    /\ blame' = Last(calls).pc /\ calls' = Front(calls)
                    /\ pc' = pc
               [] callee = "none" /\ f.type = "Main" ->
                    /\ Own = 1 \/ "tailfail" \in Features
                    /\ frames' = IF Own = 1 THEN <<f>> ELSE down
                    /\ recurse' = IF Own = 1 THEN recurse ELSE recurse - 1
                    /\ sval' = s /\ mode' = "maintail" /\ ret' = NoRet
                    /\ pc' = pc /\ calls' = calls /\ blame' = blame
<1>1. /\ mode = "run" /\ pc # 0 /\ q.op \in {"dtail", "ftail"}
      /\ swith' = f.swith /\ rwith' = Cut(rwith, f.rwith)
      /\ region' = Cut(RegionHere, f.region)
      /\ e' = IF f.type = "Main" THEN Must ELSE e
      /\ \E l \in Piles(swith - f.swith, Len(SvalHere)), callee \in Callee :
           Ends(SvalHere \o l.sval, callee)
      /\ prog' = prog
  BY DEF TailCall, On, Op, At
<1>2. /\ Typed /\ Stacked /\ Quiet /\ Fits(prog) /\ pc \in 1..Len(prog)
      /\ m \in Nat /\ m + 1 = Own /\ m + 1 <= Len(frames) /\ m + 1 \in 1..Len(frames)
      /\ f = frames[m + 1] /\ f \in Frames /\ f.type \in Uncil
      /\ Depth(f) = f.sval /\ Kind(f) = f.type /\ Counted(f) /\ f.sval \in Nat
      /\ f.region \in Nat
      /\ Cut(frames, m) \in Seq(Frames) /\ Len(Cut(frames, m)) = m
      /\ \A k \in 1..m : Cut(frames, m)[k] = frames[k]
      /\ Cut(rwith, f.rwith) \in Seq(Nat) /\ Len(Cut(rwith, f.rwith)) = f.rwith
      /\ \A k \in 1..f.rwith : Cut(rwith, f.rwith)[k] = rwith[k]
      /\ f.type = "Main" => MainFits(frames, region, m + 1)
      /\ f.type # "Main" => CallFits(prog, frames, region, rwith, m + 1)
      /\ Tallied(frames, m + 1, recurse, calls, Len(e))
      /\ Finds(prog[pc], Found(prog)[pc])
  BY <1>1, Leaves, Zenon
<1>3. /\ q.at.tries = <<>>
      /\ Len(sval) - Argc(q) = f.sval
      /\ Pending(q) = <<>>
  BY <1>1, TailTakes, Zenon
<1>4. RegionHere = region /\ SvalHere = sval /\ Own = Len(frames)
  BY <1>1, <1>3, HereIs, Zenon
<1>5. /\ calls \in Seq(Requests) /\ sval \in Seq(Nat) /\ region \in Seq(Nat)
      /\ frames \in Seq(Frames) /\ Len(frames) \in Nat /\ recurse \in Nat
      /\ Owing(Pending(q)) = calls
  BY <1>2, <1>3, TypedIs, OwesNone DEF Typed
<1>6. f.region <= Len(region) /\ f.sval <= Len(sval)
  BY <1>1, RunsAbove, Zenon
<1>7. PICK callee \in Callee : Ends(sval, callee)
  <2>1. ASSUME NEW l \in Piles(swith - f.swith, Len(SvalHere))
        PROVE  SvalHere \o l.sval = sval
    <3>1. l.sval = <<>>
      BY PilesNone, Zenon
    <3>2. sval \o <<>> = sval
      BY <1>5, EmptyIs, Zenon
    <3>3. QED
      BY <1>4, <3>1, <3>2, Zenon
  <2> HIDE DEF Ends, f, m, down, cframe, q
  <2>2. QED
    BY <1>1, <2>1, Zenon
<1>8. /\ m = Own - 1 /\ f = frames[Own] /\ f = frames[Len(frames)]
      /\ e' \in {e, Must} /\ region' = Cut(region, f.region)
  BY <1>1, <1>4
<1>9. CASE callee = "uncil"
  <2>1. /\ frames' = Cut(frames, Len(frames)) /\ sval' = Cut(sval, f.sval)
        /\ calls' = calls /\ Enter /\ recurse' = recurse /\ blame' = blame
    BY <1>4, <1>5, <1>7, <1>9
  <2>2. frames' = frames
    BY ONLY <1>5, <2>1, CutWhole
  <2> HIDE DEF f, m, q
  <2>3. QED
    BY <1>1, <1>4, <1>6, <1>8, <2>1, <2>2, TailUncil, Zenon
<1>10. CASE callee = "c"
  <2> DEFINE g == cframe(Len(sval))
  <2>1. /\ frames' = Append(Cut(frames, m), g) /\ sval' = sval /\ recurse' = recurse - 1
        /\ calls' = calls /\ mode' = "native" /\ pc' = pc /\ blame' = blame
    BY <1>5, <1>7, <1>10
  <2>2. g = Place(f, Len(sval), pc)
    BY <1>3 DEF Place
  <2>3. Len(sval) \in Nat /\ pc \in Nat
    BY <1>2, <1>5 DEF Typed
  <2> HIDE DEF g, f, m, q
  <2>4. f \in Frames /\ f.type \in Uncil /\ f.sval <= Len(sval)
    BY <1>2, <1>6
  <2>5. Replaces(Place(f, Len(sval), pc), f, Len(sval))
    BY ONLY <2>3, <2>4, PlaceIs, Zenon
  <2>6. /\ g \in Frames /\ IsC(g) /\ CFits(g) /\ g.cont = "tail" /\ Kind(g) = Kind(f)
        /\ g.args = f.sval /\ g.region = f.region /\ g.rwith = f.rwith /\ g.swith = f.swith
        /\ g.pc = f.pc /\ g.pc2 = f.pc2 /\ g.sval = Len(sval)
    BY <2>2, <2>5, Zenon DEF Replaces
  <2>7. /\ Verified /\ IInv /\ mode = "run" /\ prog' = prog
        /\ rwith' = Cut(rwith, f.rwith) /\ swith' = f.swith
    BY <1>1
  <2>8. QED
    BY ONLY <1>4, <1>8, <2>1, <2>6, <2>7, TailC, Zenon
<1>11. CASE callee = "none" /\ f.type # "Main"
  <2>1. /\ frames' = Cut(frames, m) /\ sval' = sval /\ recurse' = recurse - 1 /\ mode' = "error"
        /\ blame' = Last(calls).pc /\ calls' = Front(calls) /\ pc' = pc /\ e' = e
    BY <1>1, <1>7, <1>11
  <2>2. f = frames[m + 1] /\ prog' = prog /\ swith' = f.swith /\ rwith' = Cut(rwith, f.rwith)
    BY <1>1, <1>2
  <2> HIDE DEF f, m, q, Ends
  <2>3. /\ frames' \in Seq(Frames) /\ Len(frames') = m /\ \A k \in 1..m : frames'[k] = frames[k]
        /\ rwith' \in Seq(Nat) /\ Len(rwith') = f.rwith
        /\ \A k \in 1..f.rwith : rwith'[k] = rwith[k]
    BY <1>2, <2>1, <2>2, Zenon
  <2>4. /\ Counts' /\ recurse' \in 0..Limit /\ calls' \in Seq(Requests)
        /\ Answers(Last(calls), f) /\ e' \in Seq(BOOLEAN) /\ Quiet'
    <3>1. /\ recurse' = recurse - (IF f.type \in Uncil THEN 1 ELSE 0)
          /\ calls' = Front(calls) /\ e' = (IF Kind(f) = "Main" THEN Front(e) ELSE e)
      BY <1>2, <1>11, <2>1, Zenon
    <3>2. QED
      BY ONLY <1>2, <2>2, <2>3, <3>1, PopCounts, Zenon
  <2>5. blame' = f.pc - 1
    <3>1. Kind(f) # "Main"
      BY <1>2, <1>11
    <3>2. Last(calls).pc = f.pc - 1
      BY ONLY <2>4, <3>1 DEF Answers
    <3>3. QED
      BY <2>1, <3>2, Zenon
  <2>6. /\ region' \in Seq(Nat) /\ Len(region') = f.region
        /\ \A k \in 1..f.region : region'[k] = region[k]
    BY <1>2, <1>8, <2>2, CutsTo, Zenon
  <2>7. sval' \in Seq(Nat) /\ Depth(f) <= Len(sval')
    BY <1>2, <1>5, <1>6, <2>1, Zenon
  <2>8. CallFits(prog, frames, region, rwith, m + 1)
    BY <1>2, <1>11, Zenon
  <2>9. Stacked' /\ Modes' /\ swith' \in Nat /\ blame' \in Nat
    BY ONLY <1>2, <2>1, <2>2, <2>3, <2>5, <2>6, <2>7, <2>8, ErrorsTo, Zenon
  <2>10. Typed'
    BY <1>2, <2>1, <2>2, <2>3, <2>4, <2>6, <2>7, <2>9 DEF Typed
  <2>11. QED
    BY <2>4, <2>9, <2>10, Zenon DEF IInv
<1>12. CASE callee = "none" /\ f.type = "Main"
  <2>1. /\ Own = 1 /\ frames' = <<f>> /\ recurse' = recurse /\ sval' = sval
        /\ mode' = "maintail" /\ pc' = pc /\ calls' = calls /\ blame' = blame
    BY <1>7, <1>12 DEF Plain
  <2> HIDE DEF q, Ends
  <2>2. Len(frames) = 1 /\ frames[1] = f /\ frames' = frames
    <3>1. Len(frames) = 1 /\ frames[1] = f
      BY <1>4, <2>1
    <3>2. <<f>> = frames
      BY ONLY <1>5, <3>1
    <3>3. QED
      BY <2>1, <3>1, <3>2
  <2>3. /\ swith' = f.swith /\ rwith' = Cut(rwith, f.rwith) /\ prog' = prog
    BY <1>1
  <2> HIDE DEF f, m
  <2>4. /\ region' \in Seq(Nat) /\ Len(region') = f.region
        /\ \A k \in 1..f.region : region'[k] = region[k]
        /\ rwith' \in Seq(Nat) /\ Len(rwith') = f.rwith
        /\ \A k \in 1..f.rwith : rwith'[k] = rwith[k]
    BY <1>2, <1>8, <2>3, CutsTo, Zenon
  <2>5. swith' \in Nat
    BY <1>2, <2>3, FrameTyped, Zenon
  <2>6. Nested(prog, frames', region', rwith')
    <3>1. /\ Nested(prog, frames, region, rwith) /\ rwith \in Seq(Nat)
      BY <1>2 DEF Stacked, Typed
    <3> DEFINE n == Len(frames)
    <3>2. /\ n \in 0..Len(frames) /\ n = Len(frames') /\ frames' \in Seq(Frames)
          /\ \A k \in 1..n : frames'[k] = frames[k]
      BY <1>5, <2>2
    <3>3. n > 0 => /\ \A k \in 1..frames[n].region : region'[k] = region[k]
                   /\ \A k \in 1..frames[n].rwith : rwith'[k] = rwith[k]
      BY <2>2, <2>4, Zenon
    <3>4. Fits(prog) /\ frames \in Seq(Frames) /\ region \in Seq(Nat)
      BY <1>2, <1>5
    <3>5. region' \in Seq(Nat) /\ rwith' \in Seq(Nat)
      BY <2>4
    <3> HIDE DEF n
    <3>6. QED
      BY ONLY <3>1, <3>2, <3>3, <3>4, <3>5, NestedCut, ZenonT(60)
  <2>7. Stacked'
    <3>1. frames'[Len(frames')] = f
      BY <2>2, Zenon
    <3>2. /\ Now'.region = f.region /\ Now'.sval = Len(sval') /\ Now'.rwith = f.rwith
      BY <2>4 DEF Now
    <3>3. f.rwith \in Nat /\ f.region <= f.region /\ f.rwith <= f.rwith
      <4>1. f.rwith \in Nat
        BY <1>2, FrameTyped, Zenon
      <4>2. QED
        BY ONLY <1>2, <4>1
    <3>4. Depth(f) <= Len(sval')
      BY <1>2, <1>6, <2>1, Zenon
    <3>5. Above(Now', f)
      BY <3>2, <3>3, <3>4, Zenon DEF Above
    <3>6. QED
      BY <2>3, <2>6, <3>1, <3>5, Zenon DEF Stacked
  <2>8. Modes'
    <3>1. Len(frames') = 1 /\ frames'[1].type = "Main"
      BY <1>12, <2>2, Zenon
    <3>2. QED
      BY <2>1, <3>1 DEF Modes
  <2>9. e' \in Seq(BOOLEAN) /\ Len(e') = Len(e) /\ Quiet'
    BY <1>2, <1>8, QuietMust, Zenon
  <2>10. Counts'
    <3>1. Counts
      BY DEF IInv
    <3>2. QED
      BY <2>1, <2>2, <2>9, <3>1, CountsSame, Zenon
  <2>11. Typed'
    BY <1>2, <2>1, <2>2, <2>3, <2>4, <2>5, <2>9 DEF Typed
  <2>12. QED
    BY <2>7, <2>8, <2>9, <2>10, <2>11, Zenon DEF IInv
<1>13. QED
  BY <1>9, <1>10, <1>11, <1>12 DEF Callee

-----------------------------------------------------------------------------
(* The theorems.                                                             *)

LEMMA InitHolds ==
  ASSUME Verified, Init PROVE IInv
<1>1. /\ prog \in Programs /\ pc = 0 /\ frames = <<>> /\ sval = <<>> /\ region = <<>>
      /\ rwith = <<>> /\ swith = 0 /\ recurse = 0 /\ e = <<>> /\ mode = "native"
      /\ calls = <<>> /\ blame = 0
  BY DEF Init
<1>2. Typed
  <2>1. 0 \in 0..Limit
    BY VMAssumption
  <2>2. /\ frames \in Seq(Frames) /\ calls \in Seq(Requests) /\ e \in Seq(BOOLEAN)
        /\ sval \in Seq(Nat) /\ region \in Seq(Nat) /\ rwith \in Seq(Nat)
    BY <1>1, EmptyIs, Zenon
  <2>3. QED
    BY <1>1, <2>1, <2>2 DEF Typed
<1>3. Len(frames) = 0 /\ Len(e) = 0 /\ Len(calls) = 0
  BY <1>1
<1>4. Stacked
  BY <1>1, <1>3 DEF Stacked, Nested
<1>5. Modes
  <2>1. Now = Bottom(frames)
    BY <1>1 DEF Now, Bottom
  <2>2. InsideC
    BY <1>1, Zenon DEF InsideC
  <2>3. QED
    BY <1>1, <2>1, <2>2 DEF Modes
<1>6. Counts
  <2>1. Uncils(frames, 0) = {} /\ Countings(frames, 0) = {} /\ Mains(frames, 0) = {}
    BY DEF Uncils, Countings, Mains
  <2>2. Cardinality({}) = 0
    BY FS_EmptySet, Zenon
  <2>3. QED
    BY <1>1, <1>3, <2>1, <2>2, Zenon DEF Counts, Tallied
<1>7. Quiet
  BY <1>3 DEF Quiet
<1>8. QED
  BY <1>2, <1>4, <1>5, <1>6, <1>7, Zenon DEF IInv

LEMMA StutterKeeps ==
  ASSUME IInv, UNCHANGED vars PROVE IInv'
<1>1. UNCHANGED <<prog, pc, frames, sval, region, rwith, swith, recurse, e, mode, calls, blame>>
  BY DEF vars, stacks, history
<1>2. Typed'
  BY <1>1 DEF IInv, Typed
<1>3. Stacked'
  BY <1>1 DEF IInv, Stacked, Now
<1>4. Modes'
  BY <1>1 DEF IInv, Modes, Executes, Raises, InsideC, Reads, Now
<1>5. Counts' /\ Quiet'
  BY <1>1 DEF IInv, Counts, Quiet
<1>6. QED
  BY <1>2, <1>3, <1>4, <1>5, Zenon DEF IInv

LEMMA NextKeeps ==
  ASSUME Verified, Plain, IInv, [Next]_vars PROVE IInv'
<1>1. CASE UNCHANGED vars
  BY <1>1, StutterKeeps, Zenon
<1>2. CASE Next
  BY <1>2, EvalKeeps, MovKeeps, JmpKeeps, BranchKeeps, PushKeeps, RpushKeeps, RpopKeeps,
     StkgeKeeps, XpushKeeps, XpopKeeps, WpushKeeps, StwithKeeps, WpopKeeps, CallKeeps,
     InextKeeps, TailCallKeeps, ExitKeeps, CallBackKeeps, ResultsKeeps, CReturnKeeps,
     CFailKeeps, UnwindKeeps, MainTailKeeps, Zenon DEF Next
<1>3. QED
  BY <1>1, <1>2, Zenon

(* The invariant is inductive: whatever is called, returns or fails, every   *)
(* function finds the stacks as its code expects them.                       *)
THEOREM Invariance ==
  ASSUME Verified, Plain PROVE Spec => []IInv
<1>1. Init => IInv
  BY InitHolds, Zenon
<1>2. IInv /\ [Next]_vars => IInv'
  BY NextKeeps, Zenon
<1>3. QED
  BY <1>1, <1>2, PTL DEF Spec

LEMMA TypeIs == ASSUME Verified, IInv PROVE TypeOK
<1>1. Typed
  BY DEF IInv
<1>2. ASSUME mode = "run"
      PROVE  frames # <<>>
  <2>1. Own \in 1..Len(frames)
    BY <1>2, RunsAt, Zenon
  <2>2. frames \in Seq(Frames)
    BY <1>1 DEF Typed
  <2>3. QED
    BY ONLY <2>1, <2>2
<1>3. \A i \in 1..Len(frames) : frames[i].type \in Uncil \cup {"Try", "CallC", "CallCSpew"}
  <2>1. \A i \in 1..Len(frames) : frames[i] \in Frames
    BY <1>1 DEF Typed
  <2>2. QED
    BY <2>1 DEF Frames
<1>4. /\ \A i \in 1..Len(region) : region[i] \in Nat
      /\ \A i \in 1..Len(rwith) : rwith[i] \in Nat
  BY <1>1 DEF Typed
<1>5. QED
  BY <1>1, <1>2, <1>3, <1>4, Zenon DEF TypeOK, Typed

(* Where a function executes, its with blocks are in rwith and swith.        *)
LEMMA WithsAre ==
  ASSUME NEW w \in Seq(Nat), NEW b \in Frames, NEW ws \in Seq(Nat), NEW x \in Extent,
         Closable(w, b, ws, x), x.rwith = Len(w)
  PROVE  LET v == SubSeq(w, b.rwith + 1, Len(w)) IN
         /\ Len(v) = Len(ws)
         /\ \A k \in 1..(Len(ws) + 1) :
              (IF k > Len(v) THEN x.swith ELSE v[k]) = Opened(w, b, ws, x, k)
<1> DEFINE v == SubSeq(w, b.rwith + 1, Len(w))
<1>1. Len(w) = b.rwith + Len(ws) /\ b.rwith \in Nat /\ Len(ws) \in Nat
  <2>1. Len(w) = b.rwith + Len(ws)
    BY Zenon DEF Closable
  <2>2. b.rwith \in Nat
    BY FrameTyped, Zenon
  <2>3. QED
    BY <2>1, <2>2
<1> DEFINE n == b.rwith
           m == Len(ws)
<1> HIDE DEF n, m, v
<1>2. /\ n \in Nat /\ m \in Nat /\ Len(w) = n + m
  BY <1>1 DEF n, m
<1>3. v = SubSeq(w, n + 1, Len(w))
  BY DEF n, v
<1>4. Len(v) = m /\ \A k \in 1..m : v[k] = w[n + k]
  BY ONLY <1>2, <1>3, w \in Seq(Nat)
<1>5. \A k \in 1..(m + 1) : k \in 1..m \/ k > m
  BY <1>2
<1>6. \A k \in 1..m : ~ (k > m)
  BY <1>2
<1>7. ASSUME NEW k \in 1..(m + 1)
      PROVE  (IF k > Len(v) THEN x.swith ELSE v[k]) = Opened(w, b, ws, x, k)
  <2>1. Opened(w, b, ws, x, k) = IF k > m THEN x.swith ELSE w[n + k]
    BY DEF Opened, n, m
  <2>2. QED
    BY <1>4, <1>5, <1>6, <2>1, Zenon
<1>8. QED
  BY <1>4, <1>7, Zenon DEF m, v

LEMMA ScopeIs == ASSUME Verified, IInv PROVE ScopeMatches
<1> SUFFICES ASSUME mode = "run" PROVE ScopeMatches
  BY DEF ScopeMatches
<1> DEFINE f == frames[Own]
           at == prog[pc].at
           withs == SubSeq(rwith, f.rwith + 1, Len(rwith))
           bound(i) == IF i > Len(withs) THEN swith ELSE withs[i]
<1>1. /\ Fits(prog) /\ pc \in 1..Len(prog) /\ f \in Frames
      /\ Tries(frames, Own, Len(frames), at.tries)
      /\ Leveled(region, f, Found(prog)[pc], Now) /\ Closable(rwith, f, at.withs, Now)
  BY RunsAt, Zenon
<1>2. Typed
  BY DEF IInv
<1>3. /\ Now \in Extent /\ Now.region = Len(region) /\ Now.sval = Len(sval)
      /\ Now.rwith = Len(rwith) /\ Now.swith = swith
  BY <1>2, NowTyped, Zenon
<1>4. /\ Len(frames) - Own = Len(at.tries)
      /\ \A i \in 1..Len(at.tries) : frames[Own + i].try = at.tries[i]
  BY <1>1, Zenon DEF Tries
<1>5. at.withs \in Seq(Nat) /\ rwith \in Seq(Nat)
  BY <1>1, <1>2, CodeAt, Zenon DEF Typed
<1>6. /\ Len(withs) = Len(at.withs)
      /\ \A k \in 1..(Len(at.withs) + 1) : bound(k) = Opened(rwith, f, at.withs, Now, k)
  <2> DEFINE ws == at.withs
  <2>1. /\ rwith \in Seq(Nat) /\ f \in Frames /\ ws \in Seq(Nat) /\ Now \in Extent
        /\ Closable(rwith, f, ws, Now) /\ Now.rwith = Len(rwith)
    BY <1>1, <1>3, <1>5, Zenon
  <2> HIDE DEF f, ws
  <2>2. /\ Len(withs) = Len(ws)
        /\ \A k \in 1..(Len(ws) + 1) :
             (IF k > Len(withs) THEN Now.swith ELSE withs[k]) = Opened(rwith, f, ws, Now, k)
    BY ONLY <2>1, WithsAre, Zenon
  <2>3. QED
    BY <1>3, <2>2, Zenon DEF f, ws
<1>7. bound(1) = f.swith /\ \A i \in 1..Len(withs) : bound(i + 1) - bound(i) = at.withs[i]
  <2> DEFINE ws == at.withs
  <2>1. /\ Opened(rwith, f, ws, Now, 1) = f.swith
        /\ \A k \in 1..Len(ws) :
             Opened(rwith, f, ws, Now, k + 1) - Opened(rwith, f, ws, Now, k) = ws[k]
    BY <1>1, Zenon DEF Closable
  <2>2. /\ \A k \in 1..Len(ws) : k \in 1..(Len(ws) + 1) /\ k + 1 \in 1..(Len(ws) + 1)
        /\ 1 \in 1..(Len(ws) + 1)
    <3> HIDE DEF ws
    <3>1. ws \in Seq(Nat)
      BY <1>5 DEF ws
    <3>2. QED
      BY ONLY <3>1
  <2> HIDE DEF bound, withs
  <2>3. QED
    BY <1>6, <2>1, <2>2, Zenon
<1>8. ~ at.mid => Len(region) = f.region /\ Len(sval) = f.sval
  <2>1. ~ at.mid => Found(prog)[pc] = Clear
    BY <1>1, Zenon DEF Fits, Sound
  <2>2. ~ at.mid => Leveled(region, f, Clear, Now)
    <3>1. Leveled(region, f, Found(prog)[pc], Now)
      BY <1>1
    <3> HIDE DEF f
    <3>2. QED
      BY ONLY <2>1, <3>1
  <2>3. ~ at.mid => Now.region = f.region /\ Now.sval = f.sval
    <3> DEFINE x == Now
               free == ~ at.mid
    <3>1. f \in Frames /\ x \in Extent
      BY <1>1, <1>3
    <3>2. free => Leveled(region, f, Clear, x)
      BY <2>2
    <3> HIDE DEF f, x, free
    <3>3. free => x.region = f.region /\ x.sval = f.sval
      BY ONLY <3>1, <3>2, LeveledClear
    <3>4. QED
      BY <3>3, Zenon DEF x, free
  <2>4. QED
    BY <1>3, <2>3, Zenon
<1>9. QED
  BY <1>1, <1>4, <1>6, <1>7, <1>8, Zenon DEF ScopeMatches, At

LEMMA CaughtIs == ASSUME Verified, IInv PROVE CaughtInside
<1> SUFFICES ASSUME mode = "error" PROVE CaughtInside
  BY DEF CaughtInside
<1> DEFINE f == Last(frames)
<1>1. /\ f.type = "Try" => prog[blame].at.tries # <<>> /\ Last(prog[blame].at.tries) = f.try
      /\ f.type # "Try" => prog[blame].at.tries = <<>>
  BY RaisedIn, Zenon
<1>2. QED
  BY <1>1, Zenon DEF CaughtInside, At

LEMMA NativeKnows == ASSUME Verified, IInv PROVE NativeSees
<1> SUFFICES ASSUME mode = "native" PROVE NativeSees
  BY DEF NativeSees
<1>1. Typed /\ Counts /\ InsideC /\ Now = Bottom(frames)
  BY DEF IInv, Modes
<1>2. /\ Now.region = Len(region) /\ Now.sval = Len(sval)
      /\ Now.rwith = Len(rwith) /\ Now.swith = swith
  BY <1>1, NowTyped, Zenon
<1>3. /\ frames \in Seq(Frames) /\ region \in Seq(Nat) /\ sval \in Seq(Nat) /\ rwith \in Seq(Nat)
  BY <1>1 DEF Typed
<1>4. CASE frames = <<>>
  <2>1. Len(region) = 0 /\ Len(sval) = 0 /\ Len(rwith) = 0 /\ swith = 0
    BY <1>1, <1>2, <1>3, <1>4, BottomIs, Zenon
  <2>2. sval = <<>> /\ region = <<>> /\ rwith = <<>>
    BY ONLY <1>3, <2>1
  <2>3. recurse = 0
    <3>1. recurse = Cardinality(Uncils(frames, Len(frames)))
      BY <1>1, Zenon DEF Counts, Tallied
    <3>2. Uncils(frames, Len(frames)) = {}
      BY <1>4 DEF Uncils
    <3>3. QED
      BY <3>1, <3>2, FS_EmptySet, Zenon
  <2>4. QED
    BY <1>4, <2>1, <2>2, <2>3, Zenon DEF NativeSees
<1>5. CASE frames # <<>>
  <2> DEFINE f == frames[Len(frames)]
  <2>1. f.type \in {"CallC", "CallCSpew"} /\ Last(frames) = f
    BY <1>1, <1>5, Zenon DEF InsideC, IsC, Last
  <2>2. /\ Len(sval) = f.sval /\ Len(region) = f.region
        /\ swith = f.swith /\ Len(rwith) = f.rwith
    <3>1. /\ Bottom(frames).region = f.region /\ Bottom(frames).sval = f.sval
          /\ Bottom(frames).rwith = f.rwith /\ Bottom(frames).swith = f.swith
      BY <1>3, <1>5, BottomIs, Zenon
    <3>2. QED
      BY <1>1, <1>2, <3>1, Zenon
  <2>3. QED
    BY <1>5, <2>1, <2>2, Zenon DEF NativeSees
<1>6. QED
  BY <1>4, <1>5, Zenon

LEMMA CountsAre == ASSUME Verified, IInv PROVE RecurseCounts
<1> DEFINE n == Len(frames)
           own == {i \in 1..n : frames[i].type \in Uncil \/ frames[i].cont = "tail"}
           call(i) == calls[Cardinality(own \cap 1..i)]
<1>1. /\ recurse = Cardinality(Uncils(frames, n))
      /\ Len(calls) = Cardinality(Countings(frames, n))
      /\ \A i \in Countings(frames, n) :
           Answers(calls[Cardinality(Countings(frames, i))], frames[i])
  BY DEF IInv, Counts, Tallied
<1>2. n \in Nat
  BY DEF IInv, Typed
<1> HIDE DEF n
<1>3. own = Countings(frames, n) /\ {i \in own : frames[i].type \in Uncil} = Uncils(frames, n)
  BY Zenon DEF Countings, Counted, Uncils
<1>4. ASSUME NEW i \in own
      PROVE  own \cap 1..i = Countings(frames, i)
  <2>1. i \in 1..n
    OBVIOUS
  <2>2. \A j : j \in 1..i => j \in 1..n
    BY ONLY <1>2, <2>1
  <2>3. QED
    BY <2>2, Zenon DEF Countings, Counted
<1>5. ASSUME NEW i \in own, frames[i].type \in Uncil
      PROVE  frames[i].type = call(i).kind /\ frames[i].sval = call(i).base
  <2>1. Answers(call(i), frames[i])
    BY <1>1, <1>3, <1>4, Zenon
  <2>2. Kind(frames[i]) = frames[i].type /\ Depth(frames[i]) = frames[i].sval
    BY <1>5 DEF Kind, Depth, Uncil
  <2>3. QED
    BY <2>1, <2>2, Zenon DEF Answers
<1> HIDE DEF own
<1>6. /\ recurse = Cardinality({i \in own : frames[i].type \in Uncil})
      /\ Len(calls) = Cardinality(own)
  BY <1>1, <1>3, Zenon
<1>7. QED
  BY <1>5, <1>6, Zenon DEF RecurseCounts, own, n

(* The variables have their types.                                           *)
THEOREM TypeCorrect ==
  ASSUME Verified, Plain PROVE Spec => []TypeOK
BY Invariance, TypeIs, PTL

(* Wherever a function executes, its tries, with blocks, regions and values  *)
(* are those of the statement around the instruction (eval's stacks are what *)
(* the compiler counted on).                                                 *)
THEOREM ScopesMatch ==
  ASSUME Verified, Plain PROVE Spec => []ScopeMatches
BY Invariance, ScopeIs, PTL

(* An error is caught by the innermost try around the statement that raised  *)
(* it, through any number of calls, and by no other.                         *)
THEOREM CatchesMatch ==
  ASSUME Verified, Plain PROVE Spec => []CaughtInside
BY Invariance, CaughtIs, PTL

(* C functions and the host find their stacks as they left them, whatever    *)
(* the calls they made did.                                                  *)
THEOREM NativeUnharmed ==
  ASSUME Verified, Plain PROVE Spec => []NativeSees
BY Invariance, NativeKnows, PTL

(* The recursion count neither drifts nor leaks: it is the number of         *)
(* functions that have not returned, over calls, returns, tail calls and     *)
(* errors alike.                                                             *)
THEOREM RecursionCounted ==
  ASSUME Verified, Plain PROVE Spec => []RecurseCounts
BY Invariance, CountsAre, PTL

-----------------------------------------------------------------------------
(* What returns give.                                                        *)

(* What lies above the first values is what was put there.                   *)
LEMMA JoinedPart ==
  ASSUME NEW S, NEW s \in Seq(S), NEW t \in Seq(S), NEW n, n = Len(s)
  PROVE  SubSeq(s \o t, n + 1, Len(s \o t)) = t
<1>1. Len(s \o t) = n + Len(t) /\ n \in Nat /\ Len(t) \in Nat
  OBVIOUS
<1>2. \A k \in 1..Len(t) : (s \o t)[n + k] = t[k]
  OBVIOUS
<1> DEFINE a == s \o t
           b == SubSeq(a, n + 1, Len(a))
<1>3. a \in Seq(S) /\ Len(a) \in Nat
  BY JoinIs
<1> HIDE DEF a
<1>4. /\ b \in Seq(S) /\ Len(b) = IF n <= Len(a) THEN Len(a) - n ELSE 0
  BY ONLY <1>1, <1>3, PartIs
<1>5. Len(b) = Len(t)
  BY <1>1, <1>4 DEF a
<1>6. \A k \in 1..Len(t) : b[k] = a[n + k]
  BY <1>1, <1>3, <1>4, <1>5
<1>7. \A k \in 1..Len(t) : b[k] = t[k]
  BY <1>2, <1>6 DEF a
<1> HIDE DEF b
<1>8. b = t
  BY <1>4, <1>5, <1>7, SeqEqual
<1>9. QED
  BY <1>8 DEF a, b

(* A return that takes nothing over from a tail call.                        *)
LEMMA Gives ==
  ASSUME NEW c \in Requests, NEW given \in Seq(Nat), NEW got, NEW back,
         ret' = [given |-> c.owed \o given, call |-> c, pc |-> back, got |-> got],
         got = IF c.kind \in Spews THEN given ELSE First(given),
         c.kind # "Main" => back = IF c.kind \in Nexts /\ given = <<>> THEN c.out ELSE c.pc + 1
  PROVE  ReturnsOwn'
<1>1. c.owed = <<>>
  BY DEF Requests
<1>2. c.owed \o given = given
  BY <1>1
<1>3. ret' = [given |-> given, call |-> c, pc |-> back, got |-> got]
  BY <1>2
<1>4. ret'.given = given /\ ret'.call = c /\ ret'.pc = back /\ ret'.got = got
  BY <1>3
<1>5. QED
  BY ONLY <1>4, got = (IF c.kind \in Spews THEN given ELSE First(given)),
          c.kind # "Main" => back = (IF c.kind \in Nexts /\ given = <<>> THEN c.out ELSE c.pc + 1)
     DEF ReturnsOwn

(* The call that ends is the one that the frame answers.                     *)
LEMMA AnswerIs ==
  ASSUME NEW f \in Frames, NEW c \in Requests, Answers(c, f)
  PROVE  /\ c.kind = Kind(f) /\ c.base = Depth(f) /\ c.out = f.pc2
         /\ Kind(f) # "Main" => c.pc + 1 = f.pc
<1>1. /\ c.kind = Kind(f) /\ c.base = Depth(f) /\ c.out = f.pc2
      /\ Kind(f) # "Main" => c.pc = f.pc - 1
  BY DEF Answers
<1>2. c.pc \in Nat /\ f.pc \in Nat
  BY DEF Requests, Frames
<1>3. c.pc = f.pc - 1 => c.pc + 1 = f.pc
  BY ONLY <1>2
<1>4. QED
  BY <1>1, <1>3, Zenon

(* Every other step returns nothing.                                         *)
LEMMA OthersReturn ==
  ASSUME \/ Eval \/ Mov \/ Jmp \/ Branch \/ Push \/ Rpush \/ Rpop \/ Stkge
         \/ Xpush \/ Xpop \/ Wpush \/ Stwith \/ Wpop \/ Call \/ Inext \/ TailCall
         \/ CallBack \/ Results \/ CFail \/ Unwind \/ MainTail
  PROVE  ReturnsOwn'
<1>1. ret' = NoRet
  <2>1. CASE Eval
    BY <2>1, Zenon DEF Eval, Next1, Throw
  <2>2. CASE Mov \/ Jmp \/ Push \/ Rpush \/ Rpop
    BY <2>2, Zenon DEF Mov, Jmp, Push, Rpush, Rpop, Next1
  <2>3. CASE Branch \/ Stkge \/ Stwith
    BY <2>3 DEF Branch, Stkge, Stwith, Next1, Throw
  <2>4. CASE Xpush \/ Xpop \/ Wpush \/ Wpop
    BY <2>4, Zenon DEF Xpush, Xpop, Wpush, Wpop, Next1
  <2>5. CASE Call
    BY <2>5, Zenon DEF Call, Fails, Throw, CallUncil, Enter, CallC
  <2>6. CASE Inext
    BY <2>6, Zenon DEF Inext, Fails, Throw, CallUncil, Enter, CallC
  <2>7. CASE TailCall
    BY <2>7 DEF TailCall, Enter, Callee
  <2>8. CASE CallBack \/ Results \/ CFail \/ Unwind \/ MainTail
    BY <2>8, Zenon DEF CallBack, Enter, Results, CFail, Unwind, MainTail
  <2>9. QED
    BY <2>1, <2>2, <2>3, <2>4, <2>5, <2>6, <2>7, <2>8, Zenon
<1>2. QED
  BY <1>1 DEF ReturnsOwn

LEMMA ExitReturns ==
  ASSUME Verified, Features = {}, IInv, Exit PROVE ReturnsOwn'
<1> DEFINE f == frames[Own]
           m == Own - 1
           c == Last(calls)
           rs == RegionHere
           ss == SvalHere
           given == IF Op = "exit0" THEN <<>>
                    ELSE IF Op = "exit1" THEN <<recurse>>
                    ELSE SubSeq(sval, Top(region) + 1, Len(sval))
           main == f.type = "Main"
           bare(r) == Op = "end" /\ Len(r) = f.region
           values(r, s) == IF Op # "end" THEN given
                           ELSE IF bare(r) THEN <<Unknown>>
                           ELSE SubSeq(s, Top(r) + 1, Len(s))
           over(r, s) == f.type \in Nexts /\ Op # "exit1" /\ (values(r, s) = <<>> \/ bare(r))
           left(r, s) == Cut(s, f.sval) \o IF f.type \in Spews THEN values(r, s) ELSE <<>>
           result(r, s) ==
             [given |-> c.owed \o given, call |-> c, pc |-> pc',
              got |-> IF c.kind \in Spews THEN SubSeq(sval', c.base + 1, Len(sval'))
                      ELSE First(values(r, s))]
<1>1. /\ mode = "run" /\ pc # 0 /\ Op \in {"end", "exit0", "exit1"}
      /\ frames' = Cut(frames, m) /\ recurse' = recurse - 1
      /\ e' = (IF main THEN Front(e) ELSE e) /\ calls' = Front(calls)
      /\ \E l \in Piles(swith - f.swith, Len(SvalHere)) :
          LET r == RegionHere \o l.region
              s == SvalHere \o l.sval
          IN /\ pc' = IF over(r, s) THEN f.pc2 ELSE f.pc
             /\ ~ (main /\ Last(e)) => sval' = left(r, s) /\ ret' = result(r, s)
  BY DEF Exit, On, Returned
<1>2. /\ Typed /\ Stacked /\ Quiet /\ Fits(prog) /\ pc \in 1..Len(prog)
      /\ m \in Nat /\ m + 1 = Own /\ m + 1 <= Len(frames) /\ m + 1 \in 1..Len(frames)
      /\ f = frames[m + 1] /\ f \in Frames /\ f.type \in Uncil
      /\ Depth(f) = f.sval /\ Kind(f) = f.type /\ Counted(f) /\ f.sval \in Nat
      /\ f.region \in Nat
      /\ Cut(frames, m) \in Seq(Frames) /\ Len(Cut(frames, m)) = m
      /\ \A k \in 1..m : Cut(frames, m)[k] = frames[k]
      /\ Cut(rwith, f.rwith) \in Seq(Nat) /\ Len(Cut(rwith, f.rwith)) = f.rwith
      /\ \A k \in 1..f.rwith : Cut(rwith, f.rwith)[k] = rwith[k]
      /\ f.type = "Main" => MainFits(frames, region, m + 1)
      /\ f.type # "Main" => CallFits(prog, frames, region, rwith, m + 1)
      /\ Tallied(frames, m + 1, recurse, calls, Len(e))
      /\ Finds(prog[pc], Found(prog)[pc])
  BY <1>1, Leaves, Zenon
<1>3. /\ RegionHere \in Seq(Nat) /\ f.region <= Len(RegionHere)
      /\ \A k \in 1..f.region : RegionHere[k] = region[k]
      /\ SvalHere \in Seq(Nat) /\ f.sval <= Len(SvalHere)
      /\ prog[pc].at.tries = <<>> =>
           RegionHere = region /\ SvalHere = sval /\ Own = Len(frames)
  BY <1>1, HereIs, Zenon
<1>4. /\ pc' = IF over(rs, ss) THEN f.pc2 ELSE f.pc
      /\ ~ (main /\ Last(e)) => sval' = left(rs, ss) /\ ret' = result(rs, ss)
  <2>1. Plain
    BY DEF Plain
  <2>2. ASSUME NEW l \in Piles(swith - f.swith, Len(SvalHere))
        PROVE  RegionHere \o l.region = rs /\ SvalHere \o l.sval = ss
    <3>1. l.region = <<>> /\ l.sval = <<>>
      BY <2>1, PilesNone, Zenon
    <3>2. RegionHere \o <<>> = RegionHere /\ SvalHere \o <<>> = SvalHere
      BY <1>3, EmptyIs, Zenon
    <3>3. QED
      BY <3>1, <3>2, Zenon
  <2> HIDE DEF rs, ss, over, left, result, main, m, f, c
  <2>3. QED
    BY <1>1, <2>2, Zenon DEF rs, ss
<1>5. /\ ~ bare(rs) /\ values(rs, ss) = given /\ given \in Seq(Nat)
      /\ Op = "exit1" => given # <<>>
  <2>1. Op = prog[pc].op
    BY Zenon DEF Op, At
  <2>2. CASE Op = "end"
    <3>1. prog[pc].at.tries = <<>> /\ Len(Found(prog)[pc]) = 2
      BY <1>2, <2>1, <2>2 DEF Finds
    <3>2. rs = region /\ ss = sval
      BY <1>3, <3>1, Zenon
    <3>3. Len(region) = f.region + 2 - 1
      BY <1>1, <3>1, RunsAbove, Zenon
    <3>4. region \in Seq(Nat) /\ sval \in Seq(Nat) /\ f.region \in Nat
      BY <1>2 DEF Typed
    <3> HIDE DEF f
    <3>5. Len(region) # f.region /\ Len(region) \in 1..Len(region)
      BY ONLY <3>3, <3>4
    <3>6. Top(region) \in Nat
      BY ONLY <3>4, <3>5 DEF Top
    <3>7. SubSeq(sval, Top(region) + 1, Len(sval)) \in Seq(Nat)
      <4> DEFINE t == Top(region)
      <4> HIDE DEF t
      <4>1. Len(sval) \in Nat /\ Len(sval) <= Len(sval) /\ t \in Nat
        BY <3>4, <3>6 DEF t
      <4>2. SubSeq(sval, t + 1, Len(sval)) \in Seq(Nat)
        BY ONLY <3>4, <4>1, PartIs, Zenon
      <4>3. QED
        BY <4>2 DEF t
    <3>8. QED
      BY <2>2, <3>2, <3>5, <3>7
  <2>3. CASE Op # "end"
    <3>1. recurse \in Nat
      BY <1>2, TypedIs, Zenon
    <3>2. <<recurse>> \in Seq(Nat) /\ <<>> \in Seq(Nat) /\ <<recurse>> # <<>>
      BY ONLY <3>1
    <3>3. given \in Seq(Nat) /\ (Op = "exit1" => given # <<>>)
      BY <1>1, <2>3, <3>2
    <3>4. QED
      BY <2>3, <3>3
  <2>4. QED
    BY <2>2, <2>3, Zenon
<1> DEFINE vs == values(rs, ss)
           past == over(rs, ss)
<1>6. past <=> f.type \in Nexts /\ given = <<>>
  BY <1>5
<1>7. vs = given
  BY <1>5
<1>8. /\ pc' = (IF past THEN f.pc2 ELSE f.pc)
      /\ ~ (main /\ Last(e)) =>
           /\ sval' = Cut(ss, f.sval) \o IF f.type \in Spews THEN vs ELSE <<>>
           /\ ret' = [given |-> c.owed \o given, call |-> c, pc |-> pc',
                      got |-> IF c.kind \in Spews THEN SubSeq(sval', c.base + 1, Len(sval'))
                              ELSE First(vs)]
  BY <1>4
<1> HIDE DEF f, m, c, given, bare, values, ss, vs, past
<1>9. /\ c \in Requests /\ Answers(c, f) /\ (main => Len(e) > 0)
  <2>1. /\ frames[m + 1] = f /\ Counted(frames[m + 1]) /\ Typed
    BY <1>2, Zenon
  <2>2. recurse \in Nat /\ calls \in Seq(Requests) /\ Len(e) \in Nat
    BY <1>2, TypedIs, Zenon
  <2>3. /\ Last(calls) \in Requests /\ Answers(Last(calls), frames[m + 1])
        /\ Kind(frames[m + 1]) = "Main" => Len(e) > 0
    BY ONLY <1>2, <2>1, <2>2, TallyPop, Zenon
  <2>4. QED
    BY <1>2, <2>3, Zenon DEF c
<1>10. ~ (main /\ Last(e))
  <2>1. ASSUME main PROVE Last(e) = FALSE
    <3>1. e \in Seq(BOOLEAN) /\ Len(e) > 0
      BY <1>2, <1>9, <2>1 DEF Typed
    <3>2. Len(e) \in 1..Len(e) /\ Last(e) = e[Len(e)]
      BY ONLY <3>1 DEF Last
    <3>3. \A i \in 1..Len(e) : e[i] = FALSE
      BY <1>2 DEF Quiet
    <3>4. QED
      BY <3>2, <3>3, Zenon
  <2>2. QED
    BY <2>1, Zenon
<1>11. /\ c.kind = f.type /\ c.base = f.sval /\ c.out = f.pc2
       /\ f.type # "Main" => c.pc + 1 = f.pc
  BY <1>2, <1>9, AnswerIs, Zenon
<1> DEFINE got == IF c.kind \in Spews THEN SubSeq(sval', c.base + 1, Len(sval'))
                  ELSE First(vs)
<1>12. got = IF c.kind \in Spews THEN given ELSE First(given)
  <2>1. ASSUME c.kind \in Spews PROVE SubSeq(sval', c.base + 1, Len(sval')) = given
    <3> DEFINE s == Cut(ss, f.sval)
    <3>1. s \in Seq(Nat) /\ Len(s) = f.sval
      BY ONLY <1>2, <1>3, CutIs DEF ss
    <3>2. sval' = s \o given
      BY <1>7, <1>8, <1>10, <1>11, <2>1, Zenon
    <3> HIDE DEF s
    <3>3. SubSeq(s \o given, f.sval + 1, Len(s \o given)) = given
      BY ONLY <1>5, <3>1, JoinedPart
    <3>4. QED
      BY <1>11, <3>2, <3>3, Zenon
  <2>2. QED
    BY <1>7, <2>1, Zenon
<1>13. ret' = [given |-> c.owed \o given, call |-> c, pc |-> pc', got |-> got]
  BY <1>8, <1>10, Zenon
<1>14. c.kind # "Main" =>
         pc' = IF c.kind \in Nexts /\ given = <<>> THEN c.out ELSE c.pc + 1
  BY <1>6, <1>8, <1>11, Zenon
<1> HIDE DEF got
<1>15. QED
  BY ONLY <1>5, <1>9, <1>12, <1>13, <1>14, Gives

LEMMA CReturnReturns ==
  ASSUME Verified, Features = {}, IInv, CReturn PROVE ReturnsOwn'
<1> DEFINE f == Last(frames)
           m == Len(frames) - 1
           c == Last(calls)
<1>1. PICK k \in Returns :
        LET vs == [i \in 1..k |-> 0] IN
        /\ InC /\ (f.tail \in Nexts => k > 0)
        /\ sval' = IF f.type = "CallC" \/ f.cont = "inext"
                   THEN Cut(sval, f.args)
                   ELSE PullRug(sval \o vs, f.args, f.sval)
        /\ f.cont = "tail" => pc' = f.pc
        /\ ret' = IF f.cont = "tail"
                  THEN [given |-> c.owed \o vs, call |-> c, pc |-> pc',
                        got |-> IF c.kind \in Spews
                                THEN SubSeq(sval', c.base + 1, Len(sval')) ELSE First(vs)]
                  ELSE NoRet
  BY DEF CReturn, Returned
<1> DEFINE vs == [i \in 1..k |-> 0]
<1>2. CASE f.cont # "tail"
  BY <1>1, <1>2 DEF ReturnsOwn
<1>3. CASE f.cont = "tail"
  <2>1. /\ Typed /\ Stacked /\ Quiet /\ Fits(prog)
        /\ m \in Nat /\ m + 1 = Len(frames) /\ m + 1 <= Len(frames)
        /\ frames \in Seq(Frames) /\ region \in Seq(Nat) /\ rwith \in Seq(Nat)
        /\ sval \in Seq(Nat) /\ f = frames[m + 1] /\ f \in Frames /\ IsC(f) /\ CFits(f)
        /\ f.args \in Nat /\ f.args <= Len(sval) /\ Depth(f) = f.args
        /\ Len(region) = f.region /\ Len(sval) = f.sval /\ Len(rwith) = f.rwith
        /\ swith = f.swith
        /\ Front(frames) \in Seq(Frames) /\ Len(Front(frames)) = m
        /\ \A n \in 1..m : Front(frames)[n] = frames[n]
        /\ Kind(f) = "Main" <=> f.cont = "tail" /\ f.tail = "Main"
        /\ Counted(f) <=> f.cont = "tail"
        /\ Kind(f) = "Main" => MainFits(frames, region, m + 1)
        /\ Kind(f) # "Main" => CallFits(prog, frames, region, rwith, m + 1)
        /\ Tallied(frames, m + 1, recurse, calls, Len(e))
    BY <1>1, EndsC, Zenon
  <2>2. vs \in Seq(Nat) /\ Len(vs) = k /\ (k > 0 => vs # <<>>)
    <3>1. k \in Nat
      BY VMAssumption
    <3>2. QED
      BY ONLY <3>1
  <2>3. Kind(f) = f.tail
    BY <1>3, <2>1 DEF Kind, IsC, Uncil
  <2>4. f.type = "CallCSpew" <=> f.tail \in Spews
    BY <1>3, <2>1 DEF CFits
  <2>5. f.type \in {"CallC", "CallCSpew"}
    BY <2>1 DEF IsC
  <2>6. /\ ret' = [given |-> c.owed \o vs, call |-> c, pc |-> pc',
                   got |-> IF c.kind \in Spews
                           THEN SubSeq(sval', c.base + 1, Len(sval')) ELSE First(vs)]
        /\ pc' = f.pc /\ (f.tail \in Nexts => vs # <<>>)
    BY <1>1, <1>3, <2>2, Zenon
  <2>7. f.tail \in Spews => sval' = PullRug(sval \o vs, f.args, Len(sval))
    BY <1>1, <1>3, <2>1, <2>4
  <2> HIDE DEF f, m, c, vs
  <2>8. c \in Requests /\ Answers(c, f)
    <3>1. /\ frames[m + 1] = f /\ Counted(frames[m + 1])
      BY <1>3, <2>1, Zenon
    <3>2. recurse \in Nat /\ calls \in Seq(Requests) /\ Len(e) \in Nat
      BY <2>1, TypedIs, Zenon
    <3>3. /\ Last(calls) \in Requests /\ Answers(Last(calls), frames[m + 1])
      BY ONLY <2>1, <3>1, <3>2, TallyPop, Zenon
    <3>4. QED
      BY <3>1, <3>3, Zenon DEF c
  <2>9. /\ c.kind = f.tail /\ c.base = f.args /\ c.out = f.pc2
        /\ f.tail # "Main" => c.pc + 1 = f.pc
    BY <2>1, <2>3, <2>8, AnswerIs, Zenon
  <2> DEFINE got == IF c.kind \in Spews THEN SubSeq(sval', c.base + 1, Len(sval'))
                    ELSE First(vs)
  <2>10. got = IF c.kind \in Spews THEN vs ELSE First(vs)
    <3>1. ASSUME c.kind \in Spews PROVE SubSeq(sval', c.base + 1, Len(sval')) = vs
      <4> DEFINE a == sval \o vs
                 s == Cut(a, f.args)
      <4>1. SubSeq(a, Len(sval) + 1, Len(a)) = vs
        BY ONLY <2>1, <2>2, JoinedPart
      <4>2. a \in Seq(Nat) /\ f.args <= Len(a)
        BY ONLY <2>1, <2>2, JoinIs
      <4> HIDE DEF a
      <4>3. s \in Seq(Nat) /\ Len(s) = f.args
        BY ONLY <2>1, <4>2, CutIs
      <4>4. sval' = s \o vs
        BY <2>7, <2>9, <3>1, <4>1 DEF PullRug, a
      <4> HIDE DEF s
      <4>5. SubSeq(s \o vs, f.args + 1, Len(s \o vs)) = vs
        BY ONLY <2>2, <4>3, JoinedPart
      <4>6. QED
        BY <2>9, <4>4, <4>5, Zenon
    <3>2. QED
      BY <3>1, Zenon
  <2>11. ret' = [given |-> c.owed \o vs, call |-> c, pc |-> pc', got |-> got]
    BY <2>6, Zenon
  <2>12. c.kind # "Main" => pc' = IF c.kind \in Nexts /\ vs = <<>> THEN c.out ELSE c.pc + 1
    BY <2>6, <2>9, Zenon
  <2> HIDE DEF got
  <2>13. QED
    BY ONLY <2>2, <2>8, <2>10, <2>11, <2>12, Gives
<1>4. QED
  BY <1>2, <1>3, Zenon

LEMMA ReturnsNext ==
  ASSUME Verified, Features = {}, IInv, [Next]_vars, ReturnsOwn PROVE ReturnsOwn'
<1>1. CASE UNCHANGED vars
  BY <1>1 DEF ReturnsOwn, vars, history
<1>2. CASE Next
  BY <1>2, OthersReturn, ExitReturns, CReturnReturns, Zenon DEF Next
<1>3. QED
  BY <1>1, <1>2, Zenon

(* Whoever called gets all that was returned or the first value of it, as    *)
(* the call wants it, and goes on behind the call or behind the loop         *)
(* (unc0_exitframe, unc0_exitccall), however the callee has ended, tail      *)
(* calls included.                                                           *)
THEOREM ReturnsDeliver ==
  ASSUME Verified, Features = {} PROVE Spec => []ReturnsOwn
<1>1. Plain
  BY DEF Plain
<1>2. Spec => []IInv
  BY <1>1, Invariance, Zenon
<1>3. Init => ReturnsOwn
  BY DEF Init, ReturnsOwn
<1>4. IInv /\ [Next]_vars /\ ReturnsOwn => ReturnsOwn'
  BY ReturnsNext, Zenon
<1>5. QED
  BY <1>2, <1>3, <1>4, PTL DEF Spec
=============================================================================
