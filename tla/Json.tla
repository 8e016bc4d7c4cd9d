-------------------------------- MODULE Json --------------------------------
(***************************************************************************)
(* JSON (ulibjson.c): what is written for a value and what is read from a  *)
(* text, which is a sequence of character codes.  Integers have W bits.    *)
(***************************************************************************)
EXTENDS Values, Utf8

CONSTANT W

Modulus == 2^W
IntMin == - (2^(W - 1))
Signed(u) == IF u >= 2^(W - 1) THEN u - Modulus ELSE u

Quote == 34
Backslash == 92
OpenArr == 91
CloseArr == 93
OpenObj == 123
CloseObj == 125
Comma == 44
Colon == 58
Minus == 45
Zero == 48
IsDigit(c) == c \in Zero..(Zero + 9)
IsSpace(c) == c \in {9, 10, 11, 12, 13, 32}

(* \b \f \n \r \t, and \0, which the reader does not know *)
Escapes == (8 :> 98) @@ (12 :> 102) @@ (10 :> 110) @@ (13 :> 114) @@ (9 :> 116)

-----------------------------------------------------------------------------
(* Writing. *)

HexDigit(d) == IF d < 10 THEN Zero + d ELSE 87 + d
Hex4(u) == [i \in 1..4 |-> HexDigit((u \div 16^(4 - i)) % 16)]
Escape(u) == <<Backslash, 117>> \o Hex4(u)

EncChar(u) ==
  IF u = 0 THEN <<Backslash, Zero>>
  ELSE IF u \in DOMAIN Escapes THEN <<Backslash, Escapes[u]>>
  ELSE IF u >= 65536
    THEN Escape(55296 + ((u - 65536) \div 1024)) \o Escape(56320 + ((u - 65536) % 1024))
  ELSE IF u < 32 \/ u >= 128 THEN Escape(u)
  ELSE IF u \in {Backslash, Quote} THEN <<Backslash, u>>
  ELSE <<u>>

RECURSIVE EncChars(_)
EncChars(s) ==
  IF s = <<>> THEN <<>>
  ELSE LET c == Utf8Dec(s) IN EncChar(c.u) \o EncChars(SubSeq(s, c.n + 1, Len(s)))
EncStr(s) == Wrote(<<Quote>> \o EncChars(s) \o <<Quote>>)

RECURSIVE Digits(_)
Digits(n) == IF n < 10 THEN <<Zero + n>> ELSE Digits(n \div 10) \o <<Zero + (n % 10)>>
EncInt(i) == Wrote(IF i < 0 THEN <<Minus>> \o Digits(- i) ELSE Digits(i))

Separated(parts) ==
  [i \in DOMAIN parts |-> IF i = 1 THEN parts[i] ELSE Then(Wrote(<<Comma>>), parts[i])]
Between(open, parts, close) ==
  Then(Wrote(<<open>>), Then(InTurn(Separated(parts)), Wrote(<<close>>)))

(* jsonenc: signent looks for the container among those being written. *)
RECURSIVE JsonEnc(_, _, _, _)
JsonEnc(heap, v, ents, recurse) ==
  CASE v.k = "null" -> Wrote(<<110, 117, 108, 108>>)
    [] v.k = "bool" -> Wrote(IF v.b THEN <<116, 114, 117, 101>> ELSE <<102, 97, 108, 115, 101>>)
    [] v.k = "int" -> EncInt(v.i)
    [] v.k = "str" -> EncStr(v.s)
    [] v.k = "ref" ->
         LET obj == heap[v.r]
             Inner(w) == JsonEnc(heap, w, ents \cup {v.r}, recurse - 1)
             Pair(p) == Then(EncStr(p[1].s), Then(Wrote(<<Colon>>), Inner(p[2])))
         IN IF v.r \in ents \/ recurse = 0 THEN Failed
            ELSE IF obj.k = "arr"
              THEN Between(OpenArr, [i \in DOMAIN obj.items |-> Inner(obj.items[i])], CloseArr)
            ELSE Between(OpenObj, [i \in DOMAIN obj.items |-> Pair(obj.items[i])], CloseObj)
    [] OTHER -> Failed

-----------------------------------------------------------------------------
(* Reading: p is the place of the character last read, in c->next.           *)

At(s, p) == IF p > Len(s) THEN -1 ELSE s[p]

RECURSIVE SkipW(_, _)
SkipW(s, p) == IF IsSpace(At(s, p)) THEN SkipW(s, p + 1) ELSE p

RECURSIVE DigitsFrom(_, _)
DigitsFrom(s, p) == IF IsDigit(At(s, p)) THEN <<s[p] - Zero>> \o DigitsFrom(s, p + 1) ELSE <<>>

(* A number that no longer fits goes on as a float.  It is told by being     *)
(* less than before.                                                         *)
DecDigits(ds) ==
  FoldLeft(LAMBDA st, d :
             LET u == (st.u * 10 + d) % Modulus
             IN IF st.floated THEN [st EXCEPT !.f = @ * 10 + d]
                ELSE [u |-> u, f |-> u * 10 + d, floated |-> st.u > u],
           [u |-> 0, f |-> 0, floated |-> FALSE], ds)

(* The digits after the point are added without being scaled. *)
DecNum(s, p0) ==
  LET neg == At(s, p0) = Minus
      p == IF neg THEN p0 + 1 ELSE p0
      ds == DigitsFrom(s, p)
      whole == DecDigits(ds)
      q == p + Len(ds)
      point == At(s, q) = 46
      fs == DigitsFrom(s, q + 1)
      r == IF point THEN q + 1 + Len(fs) ELSE q
      exp == At(s, r) \in {69, 101}
      sign == At(s, r + 1)
      es == DigitsFrom(s, IF sign \in {43, Minus} THEN r + 2 ELSE r + 1)
      end == IF exp THEN (IF sign \in {43, Minus} THEN r + 2 ELSE r + 1) + Len(es) ELSE r
      floated == whole.floated \/ point \/ exp
      m == (IF whole.floated THEN whole.f ELSE whole.u) + (IF point THEN DecDigits(fs).u ELSE 0)
      e == IF ~ exp THEN 0 ELSE IF sign = Minus THEN - DecDigits(es).u ELSE DecDigits(es).u
  IN IF ds = <<>> \/ (point /\ fs = <<>>) \/ (exp /\ es = <<>>) THEN Err
     ELSE IF floated THEN Ok(VFloat(IF neg THEN - m ELSE m, e), end)
     ELSE IF neg /\ whole.u > - IntMin THEN Ok(VFloat(- whole.u, 0), end)
     ELSE Ok(VInt(IF neg THEN - whole.u ELSE Signed(whole.u)), end)

HexValue(c) == IF IsDigit(c) THEN c - Zero ELSE IF c \in 65..70 THEN c - 55
               ELSE IF c \in 97..102 THEN c - 87 ELSE -1

(* The character at p and the place behind it, or Err. *)
DecEscape(s, p) ==
  LET x == At(s, p)
      hex == [i \in 1..4 |-> HexValue(At(s, p + i))]
      named == {u \in DOMAIN Escapes : Escapes[u] = x}
  IN IF x \in {Quote, Backslash, 47} THEN Ok(x, p + 1)
     ELSE IF named # {} THEN Ok(Max(named), p + 1)
     ELSE IF x = 117 /\ \A i \in 1..4 : hex[i] >= 0
       THEN Ok(FoldLeft(LAMBDA u, d : u * 16 + d, 0, hex), p + 5)
     ELSE Err
DecChar(s, p) ==
  IF At(s, p) = -1 THEN Err
  ELSE IF At(s, p) = Backslash THEN DecEscape(s, p + 1)
  ELSE Ok(At(s, p), p + 1)

(* high is the first half of a pair, or 0. *)
RECURSIVE DecChars(_, _, _)
DecChars(s, p, high) ==
  LET c == DecChar(s, p)
      pair == 65536 + (high % 1024) * 1024 + (c.v % 1024)
      u == IF high # 0 THEN pair ELSE c.v
      on == DecChars(s, c.p, 0)
  IN IF At(s, p) = Quote THEN IF high # 0 THEN Err ELSE Ok(<<>>, p + 1)
     ELSE IF ~ c.ok THEN Err
     ELSE IF high # 0 /\ c.v \notin 56320..57343 THEN Err
     ELSE IF high = 0 /\ c.v \in 55296..56319 THEN DecChars(s, c.p, c.v)
     ELSE IF on.ok THEN Ok(Utf8Enc(u) \o on.v, on.p) ELSE Err
DecStr(s, p) == LET c == DecChars(s, p + 1, 0) IN IF c.ok THEN Ok(VStr(c.v), c.p) ELSE Err

(* The words are compared from their first letter on with what follows it. *)
DecWord(s, p, word, v) ==
  IF SubSeq(s, p + 1, p + Len(word)) = word THEN Ok(v, p + Len(word)) ELSE Err

RECURSIVE JsonDec(_, _, _)
RECURSIVE DecItems(_, _, _, _)
RECURSIVE DecPairs(_, _, _, _)

DecItems(s, p0, recurse, items) ==
  LET p == SkipW(s, p0)
      item == JsonDec(s, p, recurse)
      q == SkipW(s, item.p)
      more == Append(items, item.v)
  IN IF At(s, p) = -1 THEN Err
     ELSE IF At(s, p) = CloseArr THEN Ok(VArr(items), p + 1)
     ELSE IF ~ item.ok THEN Err
     ELSE IF At(s, q) = Comma THEN DecItems(s, q + 1, recurse, more)
     ELSE IF At(s, q) = CloseArr THEN Ok(VArr(more), q + 1)
     ELSE Err

DecPairs(s, p0, recurse, items) ==
  LET p == SkipW(s, p0)
      key == DecStr(s, p)
      v == JsonDec(s, SkipW(s, key.p + 1), recurse)
      q == SkipW(s, v.p)
      more == Entered(items, key.v, v.v)
  IN IF At(s, p) = -1 THEN Err
     ELSE IF At(s, p) = CloseObj THEN Ok(VTable(items), p + 1)
     ELSE IF ~ key.ok THEN Err
     ELSE IF At(s, key.p) # Colon THEN Err
     ELSE IF ~ v.ok THEN Err
     ELSE IF At(s, q) = Comma THEN DecPairs(s, q + 1, recurse, more)
     ELSE IF At(s, q) = CloseObj THEN Ok(VTable(more), q + 1)
     ELSE Err

JsonDec(s, p, recurse) ==
  LET x == At(s, p)
  IN CASE x \in {Minus, 46} \/ IsDigit(x) -> DecNum(s, p)
       [] x = Quote -> DecStr(s, p)
       [] x = OpenArr -> IF recurse = 0 THEN Err ELSE DecItems(s, p + 1, recurse - 1, <<>>)
       [] x = OpenObj -> IF recurse = 0 THEN Err ELSE DecPairs(s, p + 1, recurse - 1, {})
       [] x = 102 -> DecWord(s, p, <<102, 97, 108, 115, 101>>, VBool(FALSE))
       [] x = 110 -> DecWord(s, p, <<110, 117, 108, 108>>, VNull)
       [] x = 116 -> DecWord(s, p, <<116, 114, 117, 101>>, VBool(TRUE))
       [] OTHER -> Err

JsonWritten(heap, v) == JsonEnc(heap, v, {}, RecurseLimit)
JsonRead(s) == JsonDec(s, 1, RecurseLimit)
=============================================================================
