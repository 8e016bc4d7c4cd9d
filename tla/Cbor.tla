-------------------------------- MODULE Cbor --------------------------------
(***************************************************************************)
(* CBOR (ulibcbor.c): what is written for a value and what is read, byte   *)
(* by byte.  Floating-point numbers are left out but for their places in   *)
(* the switch.                                                             *)
(***************************************************************************)
EXTENDS Values

CONSTANT IntMax  \* the greatest integer

Indefinite == 31
Break == 255
EndOfList == [ok |-> FALSE, v |-> VNull, p |-> -1]  \* CBOR_EOL

-----------------------------------------------------------------------------
(* Writing. *)

Byte1(x) == x % 256
BytesOf(value, n) == [i \in 1..n |-> (value \div 256^(n - i)) % 256]

(* Mutant: 24 is written as if it fitted. *)
EncValLate(type, value) ==
  Wrote(CASE value < 25 -> <<type * 32 + value>>
          [] value \in 25..255 -> <<type * 32 + 24, value>>
          [] value \in 256..65535 -> <<type * 32 + 25>> \o BytesOf(value, 2)
          [] value > 65535 -> <<type * 32 + 26>> \o BytesOf(value, 4))

(* cborenc_val: the type in three bits and the value in five, or behind. *)
EncVal(type, value) ==
  Wrote(CASE value < 24 -> <<type * 32 + value>>
          [] value \in 24..255 -> <<type * 32 + 24, value>>
          [] value \in 256..65535 -> <<type * 32 + 25>> \o BytesOf(value, 2)
          [] value > 65535 -> <<type * 32 + 26>> \o BytesOf(value, 4))

EncRaw(type, value) == Wrote(<<Byte1(type * 32 + value)>>)

(* A negative number is written as its magnitude; the words have a type that *)
(* does not fit in its three bits.                                           *)
CborInt(i) == IF i < 0 THEN EncVal(1, - i) ELSE EncVal(0, i)
CborWord(v) == EncRaw(74, IF v.k = "null" THEN 22 ELSE IF v.b THEN 21 ELSE 20)

RECURSIVE CborEnc(_, _, _, _)
CborEnc(heap, v, ents, recurse) ==
  CASE v.k \in {"null", "bool"} -> CborWord(v)
    [] v.k = "int" -> CborInt(v.i)
    [] v.k = "blob" -> Then(EncVal(2, Len(v.s)), Wrote(v.s))
    [] v.k = "str" -> Then(EncVal(3, Len(v.s)), Wrote(v.s))
    [] v.k = "tag" -> IF recurse = 0 THEN Failed
                      ELSE Then(EncVal(6, v.tag), CborEnc(heap, v.data, ents, recurse - 1))
    [] v.k = "ref" ->
         LET obj == heap[v.r]
             Inner(w) == CborEnc(heap, w, ents \cup {v.r}, recurse - 1)
             Pair(p) == Then(Inner(p[1]), Inner(p[2]))
         IN IF v.r \in ents \/ recurse = 0 THEN Failed
            ELSE IF obj.k = "arr"
              THEN Then(EncVal(4, Len(obj.items)),
                        InTurn([i \in DOMAIN obj.items |-> Inner(obj.items[i])]))
            ELSE Then(EncRaw(5, Indefinite),
                      Then(InTurn([i \in DOMAIN obj.items |-> Pair(obj.items[i])]),
                           EncRaw(7, Indefinite)))
    [] OTHER -> Failed

-----------------------------------------------------------------------------
(* Reading: p is the place of the next byte. *)

(* cbordec_len: z bytes, the highest first. *)
DecLen(s, p, z) ==
  IF p + z - 1 > Len(s) THEN Err
  ELSE Ok(FoldLeft(LAMBDA u, x : u * 256 + x, 0, SubSeq(s, p, p + z - 1)), p + z)

(* The number that follows a first byte whose low bits are len. *)
Measure(s, p, len) ==
  IF len < 24 THEN Ok(len, p) ELSE IF len < 28 THEN DecLen(s, p, 2^(len - 24)) ELSE Err

DecIntP(s, p, len) ==
  LET u == Measure(s, p, len)
  IN IF ~ u.ok THEN Err ELSE IF u.v > IntMax THEN Err ELSE Ok(VInt(u.v), u.p)
DecIntN(s, p, len) ==
  LET u == Measure(s, p, len)
  IN IF ~ u.ok THEN Err ELSE IF u.v - 1 >= IntMax THEN Err ELSE Ok(VInt(- u.v - 1), u.p)

DecBytes(s, p, n) == IF p + n - 1 > Len(s) THEN Err ELSE Ok(SubSeq(s, p, p + n - 1), p + n)

(* cbordec_blobchnk, cbordec_strchnk: pieces of one type up to the break. *)
RECURSIVE DecChunks(_, _, _, _)
DecChunks(s, p, type, got) ==
  LET n == Measure(s, p + 1, s[p] % 32)
      piece == DecBytes(s, n.p, n.v)
  IN IF p > Len(s) THEN Err
     ELSE IF s[p] = Break THEN Ok(got, p + 1)
     ELSE IF s[p] \div 32 # type \/ ~ n.ok THEN Err
     ELSE IF ~ piece.ok THEN Err
     ELSE DecChunks(s, piece.p, type, got \o piece.v)

DecString(s, p, type, len) ==
  LET n == Measure(s, p, len)
  IN IF len = Indefinite THEN DecChunks(s, p, type, <<>>)
     ELSE IF n.ok THEN DecBytes(s, n.p, n.v) ELSE Err

RECURSIVE CborDec(_, _, _)
RECURSIVE CborItems(_, _, _, _, _)
RECURSIVE CborPairs(_, _, _, _, _)

(* left is what is still to come, or -1 until the break.                     *)
CborItems(s, p, recurse, left, items) ==
  LET item == CborDec(s, p, recurse)
  IN IF left = 0 THEN Ok(VArr(items), p)
     ELSE IF item = EndOfList THEN IF left < 0 THEN Ok(VArr(items), p + 1) ELSE Err
     ELSE IF ~ item.ok THEN Err
     ELSE CborItems(s, item.p, recurse, left - 1, Append(items, item.v))

(* A break ends a map of any length. *)
CborPairs(s, p, recurse, left, items) ==
  LET key == CborDec(s, p, recurse)
      v == CborDec(s, key.p, recurse)
  IN IF left = 0 THEN Ok(VTable(items), p)
     ELSE IF key = EndOfList THEN Ok(VTable(items), p + 1)
     ELSE IF ~ key.ok THEN Err
     ELSE IF ~ v.ok THEN Err
     ELSE CborPairs(s, v.p, recurse, left - 1, Entered(items, key.v, v.v))

CborTag(s, p, recurse, tag) ==
  LET v == CborDec(s, p, recurse) IN IF v.ok THEN Ok(VTag(tag, v.v), v.p) ELSE Err

(* cbordec *)
CborDec(s, p, recurse) ==
  LET type == s[p] \div 32
      len == s[p] % 32
      n == Measure(s, p + 1, len)
      str == DecString(s, p + 1, type, len)
  IN IF p > Len(s) THEN Err
     ELSE CASE type = 0 -> DecIntP(s, p + 1, len)
            [] type = 1 -> DecIntN(s, p + 1, len)
            [] type = 2 -> IF str.ok THEN Ok(VBlob(str.v), str.p) ELSE Err
            [] type = 3 -> IF str.ok THEN Ok(VStr(str.v), str.p) ELSE Err
            [] type = 4 -> IF recurse = 0 \/ ~ (n.ok \/ len = Indefinite) THEN Err
                           ELSE IF len = Indefinite THEN CborItems(s, p + 1, recurse - 1, -1, <<>>)
                           ELSE CborItems(s, n.p, recurse - 1, n.v, <<>>)
            [] type = 5 -> IF recurse = 0 \/ ~ (n.ok \/ len = Indefinite) THEN Err
                           ELSE IF len = Indefinite THEN CborPairs(s, p + 1, recurse - 1, -1, {})
                           ELSE CborPairs(s, n.p, recurse - 1, n.v, {})
            [] type = 6 -> IF recurse = 0 \/ ~ n.ok THEN Err
                           ELSE CborTag(s, n.p, recurse - 1, n.v)
            [] type = 7 -> CASE len \in {20, 21} -> Ok(VBool(len = 21), p + 1)
                             [] len \in {22, 23} -> Ok(VNull, p + 1)
                             [] len = Indefinite -> EndOfList
                             [] OTHER -> Err

CborWritten(heap, v) == CborEnc(heap, v, {}, RecurseLimit)
CborRead(s) == CborDec(s, 1, RecurseLimit)
=============================================================================
