----------------------------- MODULE Encodings -----------------------------
(***************************************************************************)
(* Character encodings (utxt.c, unc0_cconv_utf8ts): between the bytes of a *)
(* string and those of a stream.  An encoder reads UTF-8 and stops without *)
(* a word at a character that is cut off; a decoder stops at the end of    *)
(* what it is given and after n characters.                                *)
(***************************************************************************)
EXTENDS Utf8

Done(bytes) == <<"ok", bytes>>
Refused == <<"refused">>

(* What is written before an error stays written, but its readers discard it. *)
Glue(a, b) == IF Refused \in {a, b} THEN Refused ELSE Done(a[2] \o b[2])

Pair(u) == <<u \div 256, u % 256>>
Wide(u) == IF u < 65536 THEN Pair(u)
           ELSE LET r == u - 65536
                IN Pair(55296 + ((r \div 1024) % 1024)) \o Pair(56320 + (r % 1024))
Quad(u) == <<u \div 16777216, (u \div 65536) % 256>> \o Pair(u % 65536)

Surrogate(u) == u \in 55296..57343

(* Each unit of two or four bytes the other way round. *)
Swapped(s, unit) ==
  [k \in DOMAIN s |-> s[((k - 1) \div unit) * unit + unit - ((k - 1) % unit)]]

UnitOf(e) ==
  CASE e \in {"utf16le", "utf16be"} -> 2 [] e \in {"utf32le", "utf32be"} -> 4 [] OTHER -> 1

(* One character; the encodings differ in what they cannot say.              *)
EncodeOne(e, u) ==
  CASE e \in {"utf16le", "utf16be"} -> IF Surrogate(u) THEN Refused ELSE Done(Wide(u))
    [] e \in {"utf32le", "utf32be"} -> IF Surrogate(u) THEN Refused ELSE Done(Quad(u))
    [] e = "ascii" -> IF u >= 128 THEN Refused ELSE Done(<<u>>)
    [] e = "latin1" -> IF u >= 256 THEN Refused ELSE Done(<<u>>)

InOrder(e, r) ==
  IF r = Refused \/ e \notin {"utf16le", "utf32le"} THEN r ELSE Done(Swapped(r[2], UnitOf(e)))

(* unc0_cconv_utf8read: at the end of what is there, and within a character  *)
(* cut off by it, nothing more is read.                                      *)
RECURSIVE EncodedFrom(_, _)
EncodedFrom(e, s) ==
  IF s = <<>> THEN Done(<<>>)
  ELSE LET j == Announced(s[1])
           broken == \E i \in 2..j : i <= Len(s) /\ ~ Follows(s[i])
       IN IF j = 0 \/ broken THEN Refused
          ELSE IF j > Len(s) THEN Done(<<>>)
          ELSE Glue(InOrder(e, EncodeOne(e, Utf8Dec(s).u)),
                    EncodedFrom(e, SubSeq(s, j + 1, Len(s))))

EncodeText(e, s) == IF e = "utf8" THEN Done(s) ELSE EncodedFrom(e, s)

-----------------------------------------------------------------------------
Number(bytes) == FoldLeft(LAMBDA v, x : v * 256 + x, 0, bytes)

JoinedHalves(high, low) == (high % 1024) * 1024 + (low % 1024) + 65536

(* The characters of a stream of units, most significant byte first.  A      *)
(* second half without a first one is a character like another; the bytes of *)
(* Latin-1 are left as they are.                                             *)
RECURSIVE DecodedFrom(_, _, _)
DecodedFrom(e, s, n) ==
  LET unit == UnitOf(e)
      head == SubSeq(s, 1, unit)
      u == Number(head)
      low == Number(SubSeq(s, 3, 4))
      Rest(k) == DecodedFrom(e, SubSeq(s, k + 1, Len(s)), n - 1)
  IN IF s = <<>> \/ n = 0 THEN Done(<<>>)
     ELSE IF Len(s) < unit THEN Refused
     ELSE IF unit = 2
       THEN IF u \notin 55296..56319 THEN Glue(Done(Utf8Enc(u)), Rest(2))
            ELSE IF Len(s) < 4 \/ low \notin 56320..57343 THEN Refused
            ELSE Glue(Done(Utf8Enc(JoinedHalves(u, low))), Rest(4))
     ELSE IF unit = 4
       THEN IF head[1] > 0 \/ u >= EndOfCodes THEN Refused
            ELSE Glue(Done(Utf8Enc(u)), Rest(4))
     ELSE IF e = "ascii" /\ u >= 128 THEN Refused
     ELSE Glue(Done(head), Rest(1))

(* unc0_cconv_utf8ts: well-formed sequences are passed on.  The number of    *)
(* characters before one that is cut off is returned as if it were an error. *)
RECURSIVE Utf8Stream(_, _, _)
Utf8Stream(s, b, n) ==
  IF s = <<>> \/ b = n THEN Done(<<>>)
  ELSE LET j == Announced(s[1])
           broken == \E i \in 2..j : i <= Len(s) /\ ~ Follows(s[i])
       IN IF j = 0 \/ broken THEN Refused
          ELSE IF j > Len(s) THEN IF b = 0 THEN Done(<<>>) ELSE Refused
          ELSE Glue(Done(SubSeq(s, 1, j)), Utf8Stream(SubSeq(s, j + 1, Len(s)), b + 1, n))

Endless == 1000000

DecodeSome(e, s, n) ==
  IF e = "utf8" THEN Utf8Stream(s, 0, n)
  ELSE LET even == Len(s) - (Len(s) % UnitOf(e))
           units == Swapped(SubSeq(s, 1, even), UnitOf(e)) \o SubSeq(s, even + 1, Len(s))
       IN DecodedFrom(e, IF e \in {"utf16le", "utf32le"} THEN units ELSE s, n)

DecodeText(e, s) == DecodeSome(e, s, Endless)
=============================================================================
