-------------------------------- MODULE Utf8 --------------------------------
(***************************************************************************)
(* Text as the interpreter keeps it (uutf.c): a sequence of bytes, in      *)
(* which code points are found by walking.  A position is an offset from   *)
(* 0; -1 is the null pointer.                                              *)
(***************************************************************************)
EXTENDS Integers, Bytes

Replacement == 65533   \* U+FFFD
EndOfCodes == 1114112  \* 0x110000

Low(u, shift) == 128 + ((u \div shift) % 64)

(* unc0_utf8enc *)
Utf8Enc(u) ==
  CASE u < 128 -> <<u>>
    [] u \in 128..2047 -> <<192 + (u \div 64), Low(u, 1)>>
    [] u \in 2048..65535 -> <<224 + (u \div 4096), Low(u, 64), Low(u, 1)>>
    [] u \in 65536..(EndOfCodes - 1) ->
         <<240 + (u \div 262144), Low(u, 4096), Low(u, 64), Low(u, 1)>>

Follows(x) == x \div 64 = 2
Leads(x) == ~ Follows(x)

(* What a first byte says of the length, to the walks and to the decoder. *)
Stride(x) == CASE x < 192 -> 1 [] x \in 192..223 -> 2 [] x \in 224..239 -> 3 [] x > 239 -> 4
Announced(x) ==
  CASE x < 128 -> 1 [] x \in 192..223 -> 2 [] x \in 224..239 -> 3 [] x \in 240..247 -> 4
    [] OTHER -> 0
Payload(x) == CASE x < 128 -> x [] x \in 192..223 -> x % 32 [] x \in 224..239 -> x % 16
                [] OTHER -> x % 8

Joined(u, rest) == FoldLeft(LAMBDA v, x : v * 64 + (x % 64), u, rest)

(* unc0_utf8dec: the code point at the beginning of s and what it takes. *)
Utf8Dec(s) ==
  IF s = <<>> THEN [u |-> 0, n |-> 0]
  ELSE LET j == Announced(s[1])
           short == {i \in 2..j : i > Len(s) \/ ~ Follows(s[i])}
           u == Joined(Payload(s[1]), SubSeq(s, 2, j))
       IN IF j = 0 THEN [u |-> Replacement, n |-> 1]
          ELSE IF short # {} THEN [u |-> Replacement, n |-> Min(short) - 1]
          ELSE [u |-> IF u < EndOfCodes THEN u ELSE Replacement, n |-> j]

(* unc0_utf8patdown: what is not text is left out, and what could be         *)
(* shorter is made so.                                                       *)
(* Where the bytes of one byte each end. *)
AsciiEnd(s, p) == Min({q \in p..(Len(s) + 1) : q > Len(s) \/ s[q] >= 128})

RECURSIVE Utf8PatDown(_)
Utf8PatDown(s) ==
  IF s = <<>> THEN <<>>
  ELSE IF s[1] < 128
       THEN LET q == AsciiEnd(s, 1) IN SubSeq(s, 1, q - 1) \o Utf8PatDown(SubSeq(s, q, Len(s)))
  ELSE IF s[1] \notin 192..244 THEN Utf8PatDown(Tail(s))
  ELSE LET j == Stride(s[1])
           broken == {i \in 2..j : i > Len(s) \/ ~ Follows(s[i])}
       IN IF broken # {} THEN Utf8PatDown(SubSeq(s, Min(broken), Len(s)))
          ELSE Utf8Enc(Utf8Dec(SubSeq(s, 1, j)).u) \o Utf8PatDown(SubSeq(s, j + 1, Len(s)))

(* unc0_utf8validate *)
RECURSIVE Utf8Valid(_)
Utf8Valid(s) ==
  s = <<>> \/
    LET j == Announced(s[1])
        u == Joined(Payload(s[1]), SubSeq(s, 2, j))
        least == CASE j = 2 -> 128 [] j = 3 -> 2048 [] j = 4 -> 65536 [] OTHER -> 0
    IN /\ j # 0 /\ j <= Len(s) /\ \A i \in 2..j : Follows(s[i])
       /\ j = 1 \/ u >= least
       /\ Utf8Valid(SubSeq(s, j + 1, Len(s)))

(* unc0_utf8scanforw: from p, over count code points. *)
RECURSIVE Utf8ScanForw(_, _, _)
Utf8ScanForw(s, p, count) ==
  IF p >= Len(s) THEN -1 ELSE IF count = 0 THEN p
  ELSE Utf8ScanForw(s, p + Stride(s[p + 1]), count - 1)

(* unc0_utf8scanbackw: back from p, over count + 1 code points. *)
Utf8ScanBackw(s, p, count) ==
  LET leads == {i \in 0..(p - 1) : Leads(s[i + 1])}
      at == {i \in leads : Cardinality({k \in leads : k >= i}) = count + 1}
  IN IF at = {} THEN -1 ELSE Min(at)

Utf8NextChar(s, p) ==
  IF p = Len(s) THEN -1 ELSE Min({p + Stride(s[p + 1]), Len(s)})

(* unc0_utf8shift: the position i code points on. *)
RECURSIVE Utf8Shift(_, _, _)
Utf8Shift(s, p, i) ==
  IF i = 0 \/ p = -1 THEN p ELSE Utf8Shift(s, Utf8NextChar(s, p), i - 1)

(* unc0_utf8shiftback, unc0_utf8shiftaway: the position i code points before *)
(* the end.                                                                  *)
Utf8ShiftBack(s, i) == IF i = 0 THEN Len(s) ELSE Utf8ScanBackw(s, Len(s), i - 1)

Utf8Unshift(s) == Cardinality({i \in DOMAIN s : Leads(s[i])})

(* unc0_utf8reshift: the offset of code point n in the first z bytes. *)
Utf8Reshift(s, z, n) == Utf8Shift(SubSeq(s, 1, z), 0, n)

(* unc0_utf8reshiftlz: the code points before a zero byte, and their bytes. *)
Utf8Reshiftlz(s) ==
  LET zeros == {i \in DOMAIN s : s[i] = 0}
      n == IF zeros = {} THEN Len(s) ELSE Min(zeros) - 1
  IN [n |-> n, l |-> Utf8Unshift(SubSeq(s, 1, n))]

(* unc0_utf8rev: byte i goes to z + k. *)
Utf8Rev(s) ==
  LET Put(st, x) ==
        LET z == IF Follows(x) THEN st.z ELSE st.z - Announced(x)
            k == IF Follows(x) THEN st.k + 1 ELSE 0
        IN [z |-> z, k |-> k, b |-> [st.b EXCEPT ![z + k + 1] = x]]
  IN FoldLeft(Put, [z |-> Len(s), k |-> 0, b |-> s], s).b
=============================================================================
