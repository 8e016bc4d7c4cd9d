------------------------------ MODULE Sorting ------------------------------
(***************************************************************************)
(* array.sort (usort.c): a stable merge sort that works in the array       *)
(* itself where it has no cache.  Memory m is a function of positions: the *)
(* array, from 0, and the cache behind it.  An item is a pair of what is   *)
(* compared and what tells equal items apart.  A range is a pair of its    *)
(* first position and the one behind its last.  (Whole makes TLC compute   *)
(* the items of a new memory at once, and not when they are read.)         *)
(***************************************************************************)
EXTENDS Integers, Sequences, SequencesExt, FiniteSetsExt

CONSTANTS
  Ibuf,     (* arrays up to this length are sorted by insertion (IBUF2)     *)
  Gbuf, Mbuf, Gallop0,  (* when a merge gallops, and at first how eagerly   *)
  Lrotbuf, Rotbuf,      (* how ranges are rotated                           *)
  MinCache  (* the smallest cache                                           *)

Whole(m) == SubSeq(m, 1, Len(m))
Size(r) == r[2] - r[1]
Less(x, y) == x[1] < y[1]
Smaller(i, j) == IF i < j THEN i ELSE j

Swap(m, i, j) == [m EXCEPT ![i] = m[j], ![j] = m[i]]
SwapN(m, i, j, n) ==
  Whole([k \in DOMAIN m |-> IF k \in i..(i + n - 1) THEN m[k - i + j]
                            ELSE IF k \in j..(j + n - 1) THEN m[k - j + i] ELSE m[k]])
CopyN(m, to, from, n) ==
  Whole([k \in DOMAIN m |-> IF k \in to..(to + n - 1) THEN m[k - to + from] ELSE m[k]])

(* Mutant: an item goes before those that are equal to it. *)
InsertBefore(m, l, i) ==
  LET at == 1 + Max({l - 1} \cup {j \in l..(i - 1) : Less(m[j], m[i])})
  IN Whole([k \in DOMAIN m |->
              IF k = at THEN m[i] ELSE IF k \in (at + 1)..i THEN m[k - 1] ELSE m[k]])

(* unc0_sortins *)
Insert(m, l, i) ==
  LET at == 1 + Max({l - 1} \cup {j \in l..(i - 1) : ~ Less(m[i], m[j])})
  IN Whole([k \in DOMAIN m |->
              IF k = at THEN m[i] ELSE IF k \in (at + 1)..i THEN m[k - 1] ELSE m[k]])
SortIns(m, r) ==
  FoldLeft(LAMBDA s, i : Insert(s, r[1], i), m, [i \in 1..(Size(r) - 1) |-> r[1] + i])

-----------------------------------------------------------------------------
(* Rotation: the last part of a range, from mid, comes before the first. *)

Reverse2(m, l, r) ==
  Whole([k \in DOMAIN m |-> IF k \in l..(r - 1) THEN m[l + r - 1 - k] ELSE m[k]])

Shifted(m, l, mid, r) ==
  Whole([k \in DOMAIN m |-> IF k \in l..(l + r - mid - 1) THEN m[k + mid - l]
                            ELSE IF k \in (l + r - mid)..(r - 1) THEN m[k - (r - mid)] ELSE m[k]])

(* unc0_arrrot_i for long ranges, with four positions that move inward.  How *)
(* often those of the longer part move is counted from the whole of it.      *)
Inward(s, left, right) ==
  LET m1 == IF left THEN Swap(s.m, s.a, s.b) ELSE s.m
      b1 == IF left THEN s.b - 1 ELSE s.b
      m2 == IF right THEN Swap(m1, s.c, s.d) ELSE m1
      c1 == IF right THEN s.c + 1 ELSE s.c
  IN [m |-> Swap(m2, s.a, s.d), a |-> s.a + 1, b |-> b1, c |-> c1, d |-> s.d - 1]

RECURSIVE Inwards(_, _, _, _)
Inwards(s, left, right, until) ==
  IF s.a >= until THEN s ELSE Inwards(Inward(s, left, right), left, right, until)

Trinity(m, l, mid, r) ==
  LET ql == mid - 1 - l
      qr == r - 1 - mid
      s == Inwards([m |-> m, a |-> l, b |-> mid - 1, c |-> mid, d |-> r - 1], TRUE, TRUE,
                   l + ((Smaller(ql, qr) + 1) \div 2))
      t == IF ql >= qr THEN Inwards(s, TRUE, FALSE, s.a + ((ql + 1) \div 2))
                       ELSE Inwards(s, FALSE, TRUE, s.a + ((qr + 1) \div 2))
  IN Inwards(t, FALSE, FALSE, t.a + ((t.d - t.a + 1) \div 2)).m

(* unc0_arrrotb and, without a cache, unc0_arrrot *)
RotateAt(m, l, mid, r, zn) ==
  IF mid - l <= Max({Lrotbuf, zn}) \/ r - mid <= Max({Lrotbuf, zn}) THEN Shifted(m, l, mid, r)
  ELSE IF r - l < Rotbuf THEN Reverse2(Reverse2(Reverse2(m, l, mid), mid, r), l, r)
  ELSE Trinity(m, l, mid, r)
Rotate(m, r, n, zn) == RotateAt(m, r[1], r[1] + n, r[2], zn)

-----------------------------------------------------------------------------
(* Where an item belongs in a sorted range: before those equal to it, or     *)
(* behind them if last.                                                      *)

Passes(x, v, last) == IF last THEN ~ Less(v, x) ELSE Less(x, v)

(* unc0_wiki_findbf_i, unc0_wiki_findbl_i *)
RECURSIVE Find(_, _, _, _, _)
Find(m, l, r, v, last) ==
  LET mid == l + (r - l) \div 2
  IN IF l >= r THEN l
     ELSE IF Passes(m[mid], v, last) THEN Find(m, mid + 1, r, v, last)
     ELSE Find(m, l, mid, v, last)

(* findff_i, findlf_i, findfb_i, findlb_i: steps of one u-th of the range,   *)
(* from its beginning or from its end.                                       *)
StepOf(l, r, u) == IF (r - l) \div u = 0 THEN 1 ELSE (r - l) \div u

RECURSIVE Onward(_, _, _, _, _, _), Backward(_, _, _, _, _, _)
Onward(m, p, r, k, v, last) ==
  IF ~ Passes(m[p - 1], v, last) THEN Find(m, p - k, p, v, last)
  ELSE IF p >= r - k THEN Find(m, p, r, v, last)
  ELSE Onward(m, p + k, r, k, v, last)
Backward(m, l, p, k, v, last) ==
  IF p <= l \/ Passes(m[p - 1], v, last) THEN Find(m, p, p + k, v, last)
  ELSE IF p < l + k THEN Find(m, l, p, v, last)
  ELSE Backward(m, l, p - k, k, v, last)

FindForward(m, l, r, v, u, last) ==
  IF l = r THEN l ELSE Onward(m, l + StepOf(l, r, u), r, StepOf(l, r, u), v, last)
FindBackward(m, l, r, v, u, last) ==
  IF l = r THEN l ELSE Backward(m, l, r - StepOf(l, r, u), StepOf(l, r, u), v, last)

-----------------------------------------------------------------------------
(* Merging (unc0_merge_impl) of the ranges a and b to z, by swapping or by   *)
(* copying, until one of them is used up.                                    *)

TakesFirst(m, a, b) == ~ Less(m[b[1]], m[a[1]])

(* unc0_merge_gallop_i *)
RECURSIVE Leap(_, _, _, _, _, _)
Leap(m, r, s0, step, v, last) ==
  LET s1 == IF step = 1 THEN r[1] ELSE s0 + step \div 2
  IN IF s1 < r[2] /\ Passes(m[s1], v, last) THEN Leap(m, r, s1, 2 * step, v, last)
     ELSE IF s0 = Smaller(s1, r[2]) THEN 0
     ELSE Find(m, s0, Smaller(s1, r[2]), v, last) - r[1]

(* n items of a, or of b, go to z. *)
Out(s, side, n) ==
  LET from == s[side][1]
  IN [s EXCEPT !.m = IF s.swap THEN SwapN(@, s.z, from, n) ELSE CopyN(@, s.z, from, n),
               !.z = @ + n, ![side][1] = from + n]

Ended(s, side) == Size(s[side]) = 0

RECURSIVE Simple(_), Choose(_), Take(_, _)
Simple(s) ==
  LET side == IF TakesFirst(s.m, s.a, s.b) THEN "a" ELSE "b"
      t == Out(s, side, 1)
  IN IF Ended(t, side) THEN t ELSE Simple(t)

(* With a gallop: after a run of items from one side, as many more of that   *)
(* side as fit are moved at once.                                            *)
Choose(s) == Take(s, IF TakesFirst(s.m, s.a, s.b) THEN "a" ELSE "b")
Take(s, side) ==
  LET t == Out(s, side, 1)
      other == IF side = "a" THEN "b" ELSE "a"
      g == Leap(t.m, t[side], t[side][1], 1, t.m[t[other][1]], side = "a")
      u == [Out(t, side, g) EXCEPT !.galloped = @ + 1,
              !.run = IF g > @ THEN IF @ > 3 THEN @ - 1 ELSE @ ELSE @ + 1]
  IN IF Ended(t, side) THEN t
     ELSE IF s.side # side THEN Choose([t EXCEPT !.side = side, !.galloped = 1])
     ELSE IF s.galloped + 1 <= s.run THEN Choose([t EXCEPT !.galloped = @ + 1])
     ELSE IF Ended(u, side) THEN u ELSE Take(u, other)

Merge(m, swap, a, b, z) ==
  LET s == [m |-> m, swap |-> swap, a |-> a, b |-> b, z |-> z, side |-> "a",
            run |-> Gallop0, galloped |-> 0]
      runs == IF TakesFirst(m, a, b) THEN ~ Less(m[b[1]], m[a[1] + Gbuf])
              ELSE Less(m[b[1] + Gbuf], m[a[1]])
  IN IF Size(a) + Size(b) > Mbuf /\ Size(a) > Gbuf /\ Size(b) > Gbuf /\ runs
     THEN Choose(s) ELSE Simple(s)

(* unc0_wiki_merge_external and, if what is there is to stay, _internal: the *)
(* items of a are at z.                                                      *)
MergeFrom(m, a, b, z, keep) ==
  LET az == <<z, z + Size(a)>>
      s == Merge(m, TRUE, az, b, a[1])
      End(t, to, from, n) == IF keep THEN SwapN(t, to, from, n) ELSE CopyN(t, to, from, n)
  IN IF Size(a) = 0 THEN m
     ELSE IF Size(b) > 0 THEN End(s.m, s.z, s.a[1], Size(s.a))
     ELSE End(m, a[1], z, Size(a))

(* unc0_wiki_merge_into *)
MergeInto(m, a, b, z) ==
  LET s == Merge(m, FALSE, a, b, z)
  IN IF Size(a) = 0 THEN CopyN(m, z, b[1], Size(b))
     ELSE IF Size(b) = 0 THEN CopyN(m, z, a[1], Size(a))
     ELSE IF Size(s.a) > 0 THEN CopyN(s.m, s.z, s.a[1], Size(s.a))
     ELSE CopyN(s.m, s.z, s.b[1], Size(s.b))

(* unc0_wiki_merge_inplace *)
RECURSIVE MergeInPlace(_, _, _, _)
MergeInPlace(m, a, b, zn) ==
  LET p == Find(m, b[1], b[2], m[a[1]], FALSE)
      n == p - a[2]
      r == Rotate(m, <<a[1], p>>, Size(a), zn)
      rest == <<Find(r, a[1] + n, p, r[a[1] + n], TRUE), p>>
  IN IF Size(a) = 0 \/ Size(b) = 0 THEN m
     ELSE IF p = b[2] \/ Size(rest) = 0 THEN r
     ELSE MergeInPlace(r, rest, <<p, b[2]>>, zn)

-----------------------------------------------------------------------------
(* Levels: the array is cut into d ranges as equal as can be, d a power of   *)
(* two; one level up, two of them are one.                                   *)

RECURSIVE PowerBelow(_), SquareRoot(_, _)
PowerBelow(n) == IF n = 1 THEN 1 ELSE 2 * PowerBelow(n \div 2)
SquareRoot(n, k) == IF k * k > n THEN k - 1 ELSE SquareRoot(n, k + 1)

Cuts(n) == PowerBelow(n) \div (Ibuf \div 2)
RangeAt(n, d, k) == <<1 + ((k * n) \div d), 1 + (((k + 1) * n) \div d)>>
Each(n, d, by) == [k \in 1..(d \div by) |-> [j \in 1..by |-> RangeAt(n, d, by * (k - 1) + j - 1)]]

Backwards(m, a, b) == Less(m[b[2] - 1], m[a[1]])
Crossing(m, a, b) == Less(m[b[1]], m[a[2] - 1])
Span(a, b) == <<a[1], b[2]>>

(* With a cache behind the array, at z. *)
MergePair(m, a, b, z, zn) ==
  IF Backwards(m, a, b) THEN Rotate(m, Span(a, b), Size(a), zn)
  ELSE MergeFrom(CopyN(m, z, a[1], Size(a)), a, b, z, FALSE)

PutTogether(m, a, b, to) ==
  IF Backwards(m, a, b) THEN CopyN(CopyN(m, to, b[1], Size(b)), to + Size(b), a[1], Size(a))
  ELSE IF Crossing(m, a, b) THEN MergeInto(m, a, b, to)
  ELSE CopyN(CopyN(m, to, a[1], Size(a)), to + Size(a), b[1], Size(b))

MergeFour(m, a1, b1, a2, b2, z) ==
  LET sorted == /\ ~ Backwards(m, a1, b1) /\ ~ Crossing(m, a1, b1)
                /\ ~ Less(m[a2[1]], m[b1[2] - 1]) /\ ~ Less(m[b2[1]], m[a2[2] - 1])
      a == Span(a1, b1)
      b == Span(a2, b2)
      both == PutTogether(PutTogether(m, a1, b1, z), a2, b2, z + Size(a))
  IN IF sorted THEN m
     ELSE PutTogether(both, <<z, z + Size(a)>>, <<z + Size(a), z + Size(a) + Size(b)>>, a[1])

-----------------------------------------------------------------------------
(* Without one: two buffers of items that differ are pulled to the end of a  *)
(* range; the first tags the blocks of the first half while these roll       *)
(* through the second, the other takes the place of the cache.               *)

RECURSIVE DifferFront(_, _, _, _, _), DifferBack(_, _, _, _, _)
DifferFront(m, p, end, cnt, ff) ==
  LET q == FindForward(m, p + 1, end, m[p], ff - cnt, TRUE)
  IN IF cnt >= ff \/ q = end THEN <<p, cnt>> ELSE DifferFront(m, q, end, cnt + 1, ff)
DifferBack(m, beg, p, cnt, ff) ==
  LET q == FindBackward(m, beg, p, m[p], ff - cnt, FALSE)
  IN IF cnt >= ff \/ q = beg THEN <<p, cnt>> ELSE DifferBack(m, beg, q - 1, cnt + 1, ff)

(* cnt different items are found: they may be both buffers, or one of them. *)
Found(s, whole, cnt, pull, a, front) ==
  LET t == [s EXCEPT !.pulls[s.pull] = pull, !.pull = 2]
      first == t.pulls[1]
  IN IF s.done THEN s
     ELSE IF cnt < s.fs
     THEN IF s.pull = 1 /\ cnt > Size(s.f1) THEN [s EXCEPT !.f1 = whole, !.pulls[1] = pull] ELSE s
     ELSE IF cnt = 2 * s.fs
     THEN [t EXCEPT !.f1 = <<whole[1], whole[1] + s.fs>>, !.f2 = <<whole[1] + s.fs, whole[2]>>,
                    !.done = TRUE]
     ELSE IF s.ff = 2 * s.fs THEN [t EXCEPT !.f1 = whole, !.ff = s.fs]
     ELSE IF s.bs <= s.zn THEN [t EXCEPT !.f1 = whole, !.done = TRUE]
     ELSE IF s.separate THEN [t EXCEPT !.f1 = whole, !.separate = FALSE]
     ELSE [t EXCEPT !.f2 = whole, !.done = TRUE,
                    !.pulls[1].r = IF ~ front /\ first.r[1] = a[1]
                                   THEN <<first.r[1], first.r[2] - t.pulls[2].cnt>> ELSE @]

LookFront(m, s, a, b) ==
  LET f == DifferFront(m, a[1], a[2], 1, s.ff)
      pull == [beg |-> f[1], end |-> a[1], r |-> Span(a, b), cnt |-> f[2]]
  IN IF s.done THEN s ELSE Found(s, <<a[1], a[1] + f[2]>>, f[2], pull, a, TRUE)
LookBack(m, s, a, b) ==
  LET f == DifferBack(m, b[1], b[2] - 1, 1, s.ff)
      pull == [beg |-> f[1], end |-> b[2], r |-> Span(a, b), cnt |-> f[2]]
  IN IF s.done THEN s ELSE Found(s, <<b[2] - f[2], b[2]>>, f[2], pull, a, FALSE)

Buffers(m, pairs, itl, zn) ==
  LET bs == SquareRoot(itl, 1)
      fs == (itl \div bs) + 1
      none == [beg |-> 1, end |-> 1, r |-> <<1, 1>>, cnt |-> 0]
      s == [f1 |-> <<1, 1>>, f2 |-> <<1, 1>>, pulls |-> <<none, none>>, pull |-> 1,
            bs |-> bs, fs |-> fs, zn |-> zn, done |-> FALSE,
            ff |-> IF 2 * fs <= zn \/ 2 * fs > itl THEN fs ELSE 2 * fs,
            separate |-> 2 * fs > zn /\ 2 * fs > itl]
  IN FoldLeft(LAMBDA t, p : LookBack(m, LookFront(m, t, p[1], p[2]), p[1], p[2]), s, pairs)

(* The items found are moved to the end of their range. *)
Gather(m, pull, zn) ==
  LET Back(s, cnt) ==
        LET p == FindBackward(s.m, pull.end, s.beg - cnt + 1, s.m[s.p - 1], pull.cnt - cnt, FALSE)
        IN [m |-> RotateAt(s.m, p + 1, s.beg + 1 - cnt, s.beg + 1, zn), beg |-> p + cnt, p |-> p]
      Forth(s, cnt) ==
        LET p == FindForward(s.m, s.p, pull.end, s.m[s.p], pull.cnt - cnt, TRUE)
        IN [m |-> RotateAt(s.m, s.beg, s.beg + cnt, p - 1, zn), beg |-> p - cnt - 1, p |-> p]
      counts == [k \in 1..(pull.cnt - 1) |-> k]
      start == [m |-> m, beg |-> pull.beg,
                p |-> IF pull.end < pull.beg THEN pull.beg ELSE pull.beg + 1]
      s == IF pull.end < pull.beg THEN FoldLeft(Back, start, counts)
           ELSE IF pull.end > pull.beg THEN FoldLeft(Forth, start, counts) ELSE start
  IN [m |-> s.m, pull |-> [pull EXCEPT !.beg = s.beg]]

(* What is left of a pair without the items pulled from it. *)
Spared(pair, a0, pull) ==
  IF a0 # pull.r[1] THEN pair
  ELSE IF pull.beg > pull.end THEN <<<<pair[1][1] + pull.cnt, pair[1][2]>>, pair[2]>>
  ELSE IF pull.beg < pull.end THEN <<pair[1], <<pair[2][1], pair[2][2] - pull.cnt>>>>
  ELSE pair

Keep(m, e, r) ==
  IF Size(r) <= e.zn THEN CopyN(m, e.z, r[1], Size(r))
  ELSE IF Size(e.f2) > 0 THEN SwapN(m, r[1], e.f2[1], Size(r)) ELSE m
Join(m, e, a, end) ==
  IF Size(a) <= e.zn THEN MergeFrom(m, a, <<a[2], end>>, e.z, FALSE)
  ELSE IF Size(e.f2) > 0 THEN MergeFrom(m, a, <<a[2], end>>, e.f2[1], TRUE)
  ELSE MergeInPlace(m, a, <<a[2], end>>, e.zn)

(* The block with the least tag stays behind; the rest rolls on. *)
Drop(s, e) ==
  LET bp == Find(s.m, s.b1[1], s.b1[2], s.m[s.pa], FALSE)
      br == s.b1[2] - bp
      a == s.aa[1]
      blocks == {a + j * e.bs : j \in 0..((Size(s.aa) - 1) \div e.bs)}
      least == CHOOSE i \in blocks : /\ \A j \in blocks : ~ Less(s.m[j], s.m[i])
                                     /\ \A j \in blocks : j < i => Less(s.m[i], s.m[j])
      m1 == Join(Swap(SwapN(s.m, a, least, e.bs), a, s.pa), e, s.a1, bp)
      m2 == IF e.bs <= e.zn \/ Size(e.f2) > 0
            THEN SwapN(Keep(m1, e, <<a, a + e.bs>>), bp, a + e.bs - br, br)
            ELSE RotateAt(m1, bp, a, a + e.bs, e.zn)
  IN [s EXCEPT !.m = m2, !.pa = @ + 1, !.aa[1] = @ + e.bs, !.a1 = <<a - br, a - br + e.bs>>,
               !.b1 = <<a - br + e.bs, a + e.bs>>]

Roll(s, e) ==
  LET n == Size(s.bb)
      a == s.aa[1]
  IN IF n < e.bs
     THEN [s EXCEPT !.m = RotateAt(@, a, s.bb[1], s.bb[2], 0), !.b1 = <<a, a + n>>,
                    !.aa = <<a + n, @[2] + n>>, !.bb = <<@[1], @[1]>>]
     ELSE [s EXCEPT !.m = SwapN(@, a, s.bb[1], e.bs), !.b1 = <<a, a + e.bs>>,
                    !.aa = <<a + e.bs, @[2] + e.bs>>,
                    !.bb = <<@[1] + e.bs, Smaller(@[2] + e.bs, e.end)>>]

RECURSIVE Rolling(_, _)
Rolling(s, e) ==
  IF Size(s.aa) = 0 THEN s
  ELSE IF \/ Size(s.bb) = 0
          \/ Size(s.b1) > 0 /\ ~ Less(s.m[s.b1[2] - 1], s.m[s.pa])
       THEN Rolling(Drop(s, e), e) ELSE Rolling(Roll(s, e), e)

MergeBlocks(m, pair, env) ==
  LET a == pair[1]
      b == pair[2]
      e == [env EXCEPT !.end = b[2]]
      mid == a[1] + (Size(a) % e.bs)
      tags == [k \in 1..(Size(a) \div e.bs) |-> k - 1]
      tagged == FoldLeft(LAMBDA t, k : Swap(t, e.f1[1] + k, mid + k * e.bs), m, tags)
      s == Rolling([m |-> Keep(tagged, e, <<a[1], mid>>), pa |-> e.f1[1], aa |-> <<mid, a[2]>>,
                    a1 |-> <<a[1], mid>>, b1 |-> <<1, 1>>,
                    bb |-> <<b[1], b[1] + Smaller(e.bs, Size(b))>>], e)
  IN IF Size(a) = 0 \/ Size(b) = 0 THEN m
     ELSE IF Backwards(m, a, b) THEN RotateAt(m, a[1], a[2], b[2], e.zn)
     ELSE IF ~ Less(m[a[2]], m[a[2] - 1]) THEN m
     ELSE Join(s.m, e, s.a1, b[2])

(* The items pulled go back to where they belong. *)
RECURSIVE Ahead(_, _, _, _, _), Behind(_, _, _, _, _)
Ahead(m, t, end, u, zn) ==
  LET p == FindForward(m, t[2], end, m[t[1]], u, FALSE)
      n == p - t[2]
  IN IF Size(t) = 0 THEN m
     ELSE Ahead(RotateAt(m, t[1], t[2], p, zn), <<t[1] + n + 1, t[2] + n>>, end, u - 2, zn)
Behind(m, t, beg, u, zn) ==
  LET p == FindBackward(m, beg, t[1], m[t[2] - 1], u, TRUE)
      n == t[1] - p
  IN IF Size(t) = 0 THEN m
     ELSE Behind(RotateAt(m, p, p + n, t[2], zn), <<t[1] - n, t[2] - n - 1>>, beg, u - 2, zn)

Return(m, pull, zn) ==
  IF pull.end < pull.beg
  THEN Ahead(m, <<pull.r[1], pull.r[1] + pull.cnt>>, pull.r[2], 2 * pull.cnt, zn)
  ELSE IF pull.end > pull.beg
  THEN Behind(m, <<pull.r[2] - pull.cnt, pull.r[2]>>, pull.r[1], 2 * pull.cnt, zn)
  ELSE m

-----------------------------------------------------------------------------
(* unc0_wiki_sort.  The cache is half of the array, three quarters of that    *)
(* if there is no memory for it, and so on; or none once that is small.      *)
RECURSIVE Cache(_, _)
Cache(zn, fails) ==
  IF zn < MinCache THEN 0
  ELSE IF fails = 0 THEN zn ELSE Cache((zn \div 2) + (zn \div 4), fails - 1)

Unsorted(items, fails) ==
  LET n == Len(items)
      zn == Cache((n \div 2) + 1, fails)
      d == IF n <= Ibuf THEN 1 ELSE Cuts(n)
  IN [m |-> items \o [k \in 1..zn |-> items[1]], n |-> n, zn |-> zn, d |-> d,
      phase |-> "cut", pairs |-> Each(n, d, 1), env |-> <<>>]

(* The next step: the ranges are sorted one by one, and then merged level by *)
(* level; in place, pair by pair.                                            *)
Cut(s) == IF s.pairs = <<>> THEN [s EXCEPT !.phase = "level"]
          ELSE [s EXCEPT !.m = SortIns(@, Head(s.pairs)[1]), !.pairs = Tail(@)]

MergeByFour(s) ==
  [s EXCEPT !.d = @ \div 4,
     !.m = FoldLeft(LAMBDA t, p : MergeFour(t, p[1], p[2], p[3], p[4], s.n + 1), @,
                    Each(s.n, s.d, 4))]
MergeByTwo(s) ==
  [s EXCEPT !.d = @ \div 2,
     !.m = FoldLeft(LAMBDA t, p : MergePair(t, p[1], p[2], s.n + 1, s.zn), @, Each(s.n, s.d, 2))]

GatherBuffers(s) ==
  LET itl == s.n \div s.d
      pairs == Each(s.n, s.d, 2)
      found == Buffers(s.m, pairs, itl, s.zn)
      g1 == Gather(s.m, found.pulls[1], s.zn)
      g2 == Gather(g1.m, found.pulls[2], s.zn)
  IN [s EXCEPT !.phase = "merge", !.m = g2.m, !.pairs = pairs,
        !.env = [f1 |-> found.f1, f2 |-> found.f2, bs |-> (itl \div Size(found.f1)) + 1,
                 pulls |-> <<g1.pull, g2.pull>>, z |-> s.n + 1, zn |-> s.zn, end |-> 0]]

MergeNext(s) ==
  LET a == Head(s.pairs)[1][1]
      pair == Spared(Spared(Head(s.pairs), a, s.env.pulls[1]), a, s.env.pulls[2])
  IN [s EXCEPT !.m = MergeBlocks(@, pair, s.env), !.pairs = Tail(@)]

ReturnItems(s) ==
  [s EXCEPT !.phase = "level", !.d = @ \div 2, !.env = <<>>,
     !.m = Return(Return(SortIns(@, s.env.f2), s.env.pulls[1], s.zn), s.env.pulls[2], s.zn)]

Step(s) ==
  LET itl == s.n \div s.d
  IN IF s.phase = "cut" THEN Cut(s)
     ELSE IF s.phase = "merge" THEN IF s.pairs = <<>> THEN ReturnItems(s) ELSE MergeNext(s)
     ELSE IF itl >= s.zn THEN GatherBuffers(s)
     ELSE IF (itl + 1) * 4 <= s.zn /\ itl * 4 <= s.n THEN MergeByFour(s) ELSE MergeByTwo(s)
Ready(s) == s.phase = "level" /\ s.d = 1

RECURSIVE Steps(_)
Steps(s) == IF Ready(s) THEN s ELSE Steps(Step(s))

(* The items in the order that array.sort leaves them in. *)
ArrSort(items, fails) == SubSeq(Steps(Unsorted(items, fails)).m, 1, Len(items))
=============================================================================
