------------------------------- MODULE Texts -------------------------------
(***************************************************************************)
(* The string functions of the base library (ulib.c, ustr.c), as functions *)
(* of the bytes of a string.  Optional arguments are sequences of at most  *)
(* one.  Outside is what a call gives that reads or writes where it has no *)
(* memory: the program ends, or goes on with whatever is there.            *)
(***************************************************************************)
EXTENDS Utf8, SequencesExt

Error == <<"error">>
Outside == <<"outside">>
NotFound == -1

AsciiCase(s, first, shift) ==
  [k \in DOMAIN s |-> IF s[k] \in first..(first + 25) THEN s[k] + shift ELSE s[k]]
AsciiLower(s) == AsciiCase(s, 65, 32)
AsciiUpper(s) == AsciiCase(s, 97, -32)

TextSize(s) == Len(s)
TextLength(s) == Utf8Unshift(s)

After(s, p) == SubSeq(s, p + 1, Len(s))
Before(s, p) == SubSeq(s, 1, p)

(* Where an index begins: ShiftBack for a negative one. *)
Begin(s, i) == IF i < 0 THEN Utf8ShiftBack(s, - i) ELSE Utf8Shift(s, 0, i)

(* A needle that is longer than what is left is searched for beyond it. *)
TextFind(s, part, i) ==
  LET p == IF i = <<>> THEN 0 ELSE Begin(s, i[1])
      at == StrSearch(After(s, p), part)
      base == IF i = <<>> \/ i[1] < 0 THEN 0 ELSE i[1]
  IN IF p = -1 THEN NotFound
     ELSE IF TooLong(After(s, p), part) THEN Outside
     ELSE IF at = -1 THEN NotFound
     ELSE Utf8Unshift(Part(s, p, at)) + base

(* The index is added to what is found although the search began at 0. *)
TextFindLast(s, part, i) ==
  LET n == IF i = <<>> \/ i[1] = 0 THEN Len(s)
           ELSE IF i[1] < 0 THEN Utf8ShiftBack(s, - i[1])
           ELSE LET p == Utf8Shift(s, 0, i[1]) IN IF p = -1 THEN Len(s) ELSE p
      at == StrSearchR(Before(s, n), part)
      base == IF i = <<>> \/ i[1] < 0 THEN 0 ELSE i[1]
  IN IF n = -1 THEN NotFound
     ELSE IF TooLong(Before(s, n), part) \/ RunsOut(Before(s, n), part) THEN Outside
     ELSE IF at = -1 THEN NotFound
     ELSE Utf8Unshift(Before(s, at)) + base

(* An index too far back leaves the size as it was, and an end beyond the    *)
(* string leaves nothing.                                                    *)
TextSub(s, i, j) ==
  LET p == Begin(s, i)
      rest == After(s, p)
  IN IF p = -1 THEN IF i < 0 /\ s # <<>> THEN Outside ELSE <<>>
     ELSE IF j = <<>> THEN rest
     ELSE IF j[1] >= 0
       THEN IF j[1] <= i THEN <<>>
            ELSE LET q == Utf8Shift(rest, 0, j[1] - i) IN IF q = -1 THEN <<>> ELSE Before(rest, q)
     ELSE LET q == Utf8ShiftBack(rest, - j[1]) IN IF q = -1 THEN <<>> ELSE Before(rest, q)

CharCode(s, i) ==
  LET p == IF i = <<>> THEN 0 ELSE Begin(s, i[1])
  IN IF p = -1 THEN IF i[1] < 0 /\ s # <<>> THEN Outside ELSE Error
     ELSE IF p = Len(s) THEN Error
     ELSE Utf8Dec(After(s, p)).u

Char(u) == IF u \in 0..(EndOfCodes - 1) THEN Utf8Enc(u) ELSE Error

(* unc0_sgetcodepat *)
CodeAt(s, i) ==
  LET p == IF i < 0 THEN Utf8ScanBackw(s, Len(s), - i - 1) ELSE Utf8ScanForw(s, 0, i)
  IN IF p = -1 THEN Error ELSE Part(s, p, Stride(s[p + 1]))

TextReverse(s) == Utf8Rev(s)

(* No memory is asked for when there is nothing to repeat, and its first     *)
(* byte is written.                                                          *)
TextRepeat(s, n) ==
  IF n < 0 THEN Error ELSE IF n = 0 THEN Outside ELSE FlattenSeq([k \in 1..n |-> s])

(* The separator comes before every item but the first. *)
Join(sep, items) ==
  LET Put(st, item) == [text |-> (IF st.addsep THEN st.text \o sep ELSE st.text) \o item,
                        addsep |-> TRUE]
  IN FoldLeft(Put, [text |-> <<>>, addsep |-> FALSE], items).text

-----------------------------------------------------------------------------
(* split and replace walk over the string, forwards or backwards: the pieces *)
(* between what is found, in the order they are found, and what is left.     *)
(* Backwards, the next search ends where the last match began.               *)

Unlimited == 1000
Times(count) == IF count = <<>> THEN Unlimited ELSE IF count[1] < 0 THEN - count[1] ELSE count[1]
Backwards(count) == count # <<>> /\ count[1] < 0

(* Mutant: the search goes on behind the first byte of the match. *)
RemainderLong(s, part, at, back) == IF back THEN Before(s, at) ELSE After(s, at + 1)

Remainder(s, part, at, back) == IF back THEN Before(s, at) ELSE After(s, at + Len(part))

RECURSIVE Pieces(_, _, _, _)
Pieces(s, part, n, back) ==
  LET search == IF back THEN StrSearchR(s, part) ELSE StrSearch(s, part)
      lost == TooLong(s, part) \/ (back /\ RunsOut(s, part))
      stop == [pieces |-> <<>>, left |-> s, lost |-> s # <<>> /\ n # 0 /\ lost]
      at == IF Len(part) > Len(s) THEN -1 ELSE search
      piece == IF back THEN After(s, at + Len(part)) ELSE Before(s, at)
      on == Pieces(Remainder(s, part, at, back), part, n - 1, back)
  IN IF s = <<>> \/ n = 0 THEN stop
     ELSE IF at = -1 THEN stop
     ELSE [on EXCEPT !.pieces = <<piece>> \o @]

(* With an empty separator, single code points. *)
RECURSIVE Letters(_, _, _)
Letters(s, n, back) ==
  LET p == IF back THEN Utf8ScanBackw(s, Len(s), 0)
           ELSE LET q == Utf8ScanForw(s, 0, 1) IN IF q = -1 THEN Len(s) ELSE q
      on == Letters(IF back THEN Before(s, p) ELSE After(s, p), n - 1, back)
  IN IF s = <<>> \/ n = 0 THEN [pieces |-> <<>>, left |-> s, lost |-> FALSE]
     ELSE [on EXCEPT !.pieces = <<IF back THEN After(s, p) ELSE Before(s, p)>> \o @]

Ordered(pieces, back) == IF back THEN Reverse(pieces) ELSE pieces

One(condition) == IF condition THEN 1 ELSE 0
Cut(s, part, n, back) == IF part = <<>> THEN Letters(s, n, back) ELSE Pieces(s, part, n, back)

Split(s, part, count) ==
  LET back == Backwards(count)
      cut == Cut(s, part, Times(count), back)
      rest == IF part = <<>> /\ cut.left = <<>> THEN <<>> ELSE <<cut.left>>
  IN IF cut.lost THEN Outside ELSE Ordered(cut.pieces \o rest, back)

(* An empty pattern is found before the first code point without counting    *)
(* it, and then after each.                                                  *)
Replace(s, part, with, count) ==
  LET back == Backwards(count)
      cut == Cut(s, part, Times(count) - One(part = <<>>), back)
      all == IF part = <<>> THEN <<<<>>>> \o cut.pieces ELSE cut.pieces
  IN IF Times(count) = 0 THEN s
     ELSE IF cut.lost THEN Outside
     ELSE IF back THEN cut.left \o FlattenSeq([k \in DOMAIN all |-> with \o Reverse(all)[k]])
     ELSE FlattenSeq([k \in DOMAIN all |-> all[k] \o with]) \o cut.left
=============================================================================
