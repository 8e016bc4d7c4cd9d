------------------------------- MODULE Written -------------------------------
(***************************************************************************)
(* The text of a value, as string and print give it (uvsio.c).  Left out   *)
(* are floats, and what is written for objects, functions and pointers.    *)
(***************************************************************************)
EXTENDS Values, Utf8

Zero == 48
Quote == 34
Backslash == 92
Comma == <<44, 32>>
Colon == <<58, 32>>
Dots == <<46, 46, 46>>

RECURSIVE Decimal(_)
Decimal(n) == IF n < 10 THEN <<Zero + n>> ELSE Decimal(n \div 10) \o <<Zero + (n % 10)>>
IntText(i) == IF i < 0 THEN <<45>> \o Decimal(- i) ELSE Decimal(i)

(* Hexadecimal digits after a backslash are small, those of blobs are not. *)
Hex(x, a) == LET Digit(d) == IF d < 10 THEN Zero + d ELSE a + d - 10
             IN <<Digit(x \div 16), Digit(x % 16)>>

BlobText(s) ==
  <<60, 98, 108, 111, 98, 40>> \o IntText(Len(s)) \o <<41>>
  \o (IF s = <<>> THEN <<>> ELSE <<32, 61>> \o FlattenSeq([i \in DOMAIN s |-> <<32>> \o Hex(s[i], 65)]))
  \o <<62>>

(* unc0_vcvt2strrq: one character of a string in quotes. *)
Short == (0 :> 48) @@ (8 :> 98) @@ (12 :> 102) @@ (10 :> 110) @@ (13 :> 114) @@ (9 :> 116)
         @@ (Quote :> Quote) @@ (Backslash :> Backslash)
Escaped(char) ==
  LET c == char[1] IN
  CASE c \in DOMAIN Short -> <<Backslash, Short[c]>>
    [] c \in ((0..31) \cup {127}) \ DOMAIN Short -> <<Backslash, 120>> \o Hex(c, 97)
    [] OTHER -> char

RECURSIVE QuotedFrom(_, _)
QuotedFrom(s, p) ==
  LET q == Utf8NextChar(s, p)
  IN IF q = -1 THEN <<>> ELSE Escaped(SubSeq(s, p + 1, q)) \o QuotedFrom(s, q)
Quoted(s) == <<Quote>> \o QuotedFrom(s, 0) \o <<Quote>>

(* What is written at once. *)
Simple(v) ==
  CASE v.k = "null" -> <<110, 117, 108, 108>>
    [] v.k = "bool" -> IF v.b THEN <<116, 114, 117, 101>> ELSE <<102, 97, 108, 115, 101>>
    [] v.k = "int" -> IntText(v.i)
    [] v.k = "str" -> v.s
    [] v.k = "blob" -> BlobText(v.s)
Inner(v) == IF v.k = "str" THEN Quoted(v.s) ELSE Simple(v)

(* unc0_vcvt2strobj.  A container is not written where it stands in one of   *)
(* its kind, if it is the outermost or holds the one that is being written;  *)
(* the one that is being written is not among them.  In one of the other     *)
(* kind it is written in any case, so that a round of arrays and tables in   *)
(* turn (the containers since two of a kind have followed each other) goes   *)
(* on until no memory is left.  A table that holds the outermost table is    *)
(* taken for an array from there on.                                         *)
RECURSIVE ContainerText(_, _, _, _, _)
ContainerText(heap, r, top, above, round) ==
  LET items == heap[r].items
      isArr == heap[r].k = "arr"
      Kept(c) == heap[c].k = heap[r].k
      Seen == IF isArr THEN <<91>> \o Dots \o <<93>> ELSE <<123>> \o Dots \o <<125>>
      Item(v) ==
        IF v.k # "ref" THEN Wrote(Inner(v))
        ELSE IF Kept(v.r) /\ v.r \in above THEN Wrote(Seen)
        ELSE IF Kept(v.r) /\ v.r = top THEN IF isArr THEN Wrote(Seen) ELSE Failed
        ELSE IF Kept(v.r) THEN ContainerText(heap, v.r, top, above \cup {r}, {v.r})
        ELSE IF v.r \in round THEN Failed
        ELSE ContainerText(heap, v.r, top, above \cup {r}, round \cup {v.r})
      Written(x) == IF isArr THEN Item(x) ELSE Then(Wrote(Inner(x[1]) \o Colon), Item(x[2]))
      parts == [i \in DOMAIN items |-> IF i = 1 THEN Written(items[i])
                                       ELSE Then(Wrote(Comma), Written(items[i]))]
  IN IF isArr THEN InTurn(<<Wrote(<<91>>)>> \o parts \o <<Wrote(<<93>>)>>)
     ELSE InTurn(<<Wrote(<<123>>)>> \o parts \o <<Wrote(<<125>>)>>)

(* unc0_vcvt2str *)
TextOf(heap, v) ==
  IF v.k = "ref" THEN ContainerText(heap, v.r, v.r, {}, {v.r}) ELSE Wrote(Simple(v))
=============================================================================
