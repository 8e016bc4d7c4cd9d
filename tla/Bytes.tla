------------------------------- MODULE Bytes -------------------------------
(***************************************************************************)
(* What the rest of the interpreter does with memory (umem.c): parts of a  *)
(* sequence at an offset from 0, searches in both directions.              *)
(***************************************************************************)
EXTENDS Integers, SequencesExt, FiniteSetsExt

(* n bytes from offset i. *)
Part(s, i, n) == SubSeq(s, i + 1, i + n)

Holds(s, i, part) == i + Len(part) <= Len(s) /\ Part(s, i, Len(part)) = part

Places(s, part) == {i \in 0..(Len(s) - Len(part)) : Holds(s, i, part)}

(* unc0_strsearch: the offset, or -1. *)
StrSearch(s, part) ==
  IF part = <<>> THEN 0 ELSE IF Places(s, part) = {} THEN -1 ELSE Min(Places(s, part))

(* unc0_strsearchr: the offsets it looks at.  After a first byte that was    *)
(* found at k to no avail, what is left to search are k - 1 bytes, although  *)
(* k would do; and -1 are as many as there can be.                           *)
RECURSIVE SearchBack(_, _, _)
SearchBack(s, part, n) ==
  LET heads == {i \in 0..(n - 1) : s[i + 1] = part[1]}
      at == Max(heads)
  IN IF heads = {} THEN -1
     ELSE IF Holds(s, at, part) THEN at
     ELSE IF at = 0 THEN -2
     ELSE SearchBack(s, part, at - 1)

RunsOut(s, part) ==
  part # <<>> /\ Len(part) <= Len(s) /\ SearchBack(s, part, Len(s) - Len(part) + 1) = -2

(* Neither search sees that what it looks for is longer than what there is,  *)
(* but for one byte.                                                         *)
TooLong(s, part) == Len(part) > Len(s) + 1

StrSearchR(s, part) ==
  IF part = <<>> THEN 0
  ELSE LET at == SearchBack(s, part, Len(s) - Len(part) + 1) IN IF at = -2 THEN -1 ELSE at
=============================================================================
