------------------------------ MODULE Convert ------------------------------
(***************************************************************************)
(* Numbers and bytes in other forms: variable-length quantities (uvlq.c),  *)
(* and the functions of the library convert (ulibconv.c) but for printf    *)
(* formats.                                                                *)
(***************************************************************************)
EXTENDS Utf8

CONSTANT W  \* the width of Unc_Int, for quantities and numbers in a base

Signed(x) == LET m == x % 2^W IN IF m >= 2^(W - 1) THEN m - 2^W ELSE m
Least == - 2^(W - 1)

Error == <<"error">>
Outside == <<"outside">>
Result(x) == <<"ok", x>>

-----------------------------------------------------------------------------
(* Sizes: below 128 as they are, else their length and their bytes.  The     *)
(* writer stops where its buffer ends.                                       *)

RECURSIVE BytesIn(_)
BytesIn(v) == IF v = 0 THEN 0 ELSE 1 + BytesIn(v \div 256)
BigEndian(v, n) == [k \in 1..n |-> (v \div 256^(n - k)) % 256]

VlqEncZ(v, n) ==
  IF v < 128 THEN <<v>>
  ELSE LET l == BytesIn(v) b == <<128 + l>> \o BigEndian(v, l)
       IN SubSeq(b, 1, Min({n, Len(b)}))

Accumulated(bytes) == FoldLeft(LAMBDA s, x : s * 256 + x, 0, bytes)

(* The value, and what it took. *)
VlqDecZ(s) ==
  IF s[1] < 128 THEN <<s[1], 1>>
  ELSE <<Accumulated(SubSeq(s, 2, 1 + (s[1] % 128))), 1 + (s[1] % 128)>>

(* Integers: seven bits at a time from the lowest, until only the sign is    *)
(* left; one more byte if the last does not show it.                         *)
RECURSIVE Sevens(_)
Sevens(v) ==
  LET b == v % 128
      w == (v - b) \div 128
  IN IF w \in {0, -1} THEN <<b>> ELSE <<128 + b>> \o Sevens(w)

VlqEncI(v) ==
  LET b == Sevens(v)
      l == Len(b)
      shown == (b[l] % 128) \div 64
  IN IF v >= 0 /\ shown = 1 THEN [b EXCEPT ![l] = @ + 128] \o <<0>>
     ELSE IF v < 0 /\ shown = 0 THEN [b EXCEPT ![l] = @ + 128] \o <<127>>
     ELSE b

VlqLen(s) == Min({k \in DOMAIN s : s[k] < 128})
VlqDecI(s) ==
  LET n == VlqLen(s)
      sum == FoldRight(LAMBDA x, v : v * 128 + (x % 128), SubSeq(s, 1, n), 0)
  IN Signed(IF s[n] \div 64 = 1 THEN sum - 128^n ELSE sum)

(* A number in a fixed width, its lowest byte first. *)
ClqEncZ(v, width) == Reverse(BigEndian(v, width))
ClqDecZ(width, s) == IF width = 0 THEN 0 ELSE Accumulated(Reverse(SubSeq(s, 1, width)))

-----------------------------------------------------------------------------
(* Hexadecimal.                                                              *)

White == {9, 10, 11, 12, 13, 32}
HexValue(c) ==
  CASE c \in 48..57 -> c - 48 [] c \in 65..70 -> c - 55 [] c \in 97..102 -> c - 87 [] OTHER -> -1
Digit(d) == IF d < 10 THEN 48 + d ELSE 55 + d

ToHex(bytes) ==
  FlattenSeq([k \in DOMAIN bytes |->
                <<Digit(bytes[k] \div 16), Digit(bytes[k] % 16), IF k % 16 = 0 THEN 10 ELSE 32>>])
  \o IF Len(bytes) % 16 = 0 THEN <<>> ELSE <<10>>

(* The last character is only used as the second digit of a byte, whatever   *)
(* it is; a digit that has none beside it is lost.                           *)
RECURSIVE FromHexAt(_)
FromHexAt(s) ==
  LET h == HexValue(s[1])
      l == HexValue(s[2])
      rest == FromHexAt(SubSeq(s, 3, Len(s)))
  IN IF Len(s) < 2 THEN Result(<<>>)
     ELSE IF s[1] \in White \/ (h >= 0 /\ l < 0) THEN FromHexAt(Tail(s))
     ELSE IF h < 0 THEN Error
     ELSE IF rest = Error THEN Error
     ELSE Result(<<16 * h + l>> \o rest[2])
FromHex(s) == FromHexAt(s)

-----------------------------------------------------------------------------
(* Integers in a base between 2 and 36.                                      *)

RECURSIVE InBase(_, _)
InBase(n, base) == IF n < base THEN <<Digit(n)>> ELSE InBase(n \div base, base) \o <<Digit(n % base)>>

FromIntBase(i, base) ==
  IF base \notin 2..36 THEN Error
  ELSE Result(IF i < 0 THEN <<45>> \o InBase((- i) % 2^W, base) ELSE InBase(i, base))

DigitValue(c) ==
  CASE c \in 48..57 -> c - 48 [] c \in 65..90 -> c - 55 [] c \in 97..122 -> c - 87 [] OTHER -> 36

(* A product that comes out smaller than before is taken for too large; one  *)
(* that has gone all the way round is not.  What follows is a float.         *)
ToIntBase(s, base) ==
  LET signed == s # <<>> /\ s[1] \in {43, 45}
      negative == s # <<>> /\ s[1] = 45
      digits == IF signed THEN Tail(s) ELSE s
      Add(st, c) ==
        LET next == Signed(st.i * base + DigitValue(c))
        IN [i |-> next, float |-> st.float \/ st.i > next]
      sum == FoldLeft(Add, [i |-> 0, float |-> FALSE], digits)
  IN IF base \notin 2..36 \/ digits = <<>> \/ \E k \in DOMAIN digits : DigitValue(digits[k]) >= base
     THEN Error
     ELSE IF sum.float \/ (negative /\ Signed(- sum.i) > 0) THEN <<"float">>
     ELSE Result(IF negative THEN - sum.i ELSE sum.i)

-----------------------------------------------------------------------------
(* Base64.                                                                   *)

B64Extra(url) == IF url THEN <<45, 95>> ELSE <<43, 47>>
EncodeB64Digit(b, url) ==
  CASE b < 26 -> 65 + b [] b \in 26..51 -> 71 + b [] b \in 52..61 -> b - 4
    [] b > 61 -> B64Extra(url)[b - 61]
DecodeB64Digit(c, url) ==
  CASE c \in 48..57 -> 52 + (c - 48) [] c \in 65..90 -> c - 65 [] c \in 97..122 -> c - 71
    [] c = B64Extra(url)[1] -> 62 [] c = B64Extra(url)[2] -> 63 [] OTHER -> -1

Equals == 61

RECURSIVE EncodeB64(_, _)
EncodeB64(b, url) ==
  LET D(x) == EncodeB64Digit(x, url)
      two == D((b[1] % 4) * 16 + (b[2] \div 16))
  IN CASE b = <<>> -> <<>>
       [] Len(b) = 1 -> <<D(b[1] \div 4), D((b[1] % 4) * 16), Equals, Equals>>
       [] Len(b) = 2 -> <<D(b[1] \div 4), two, D((b[2] % 16) * 4), Equals>>
       [] Len(b) > 2 -> <<D(b[1] \div 4), two, D((b[2] % 16) * 4 + (b[3] \div 64)), D(b[3] % 64)>>
                        \o EncodeB64(SubSeq(b, 4, Len(b)), url)

(* White space that is allowed is counted, not passed: nothing behind it is  *)
(* read.                                                                     *)
DecodeB64(s, url, allowws) ==
  LET Value(k) == DecodeB64Digit(s[k], url)
      strange == {k \in DOMAIN s : Value(k) < 0}
      at == IF strange = {} THEN Len(s) + 1 ELSE Min(strange)
      white == at <= Len(s) /\ allowws /\ s[at] \in White
      Take(st, k) ==
        LET tmp == st.tmp * 64 + Value(k)
            bits == st.bits + 6
        IN IF bits < 8 THEN [st EXCEPT !.tmp = tmp, !.bits = bits]
           ELSE [tmp |-> tmp % 2^(bits - 8), bits |-> bits - 8,
                 out |-> Append(st.out, tmp \div 2^(bits - 8))]
      read == FoldLeft(Take, [tmp |-> 0, bits |-> 0, out |-> <<>>], [k \in 1..(at - 1) |-> k])
      tail == IF white THEN <<>> ELSE SubSeq(s, at, Len(s))
      run == Min({k \in 0..Len(tail) : k = Len(tail) \/ tail[k + 1] # Equals})
      limit == (24 - read.bits) \div 6 + 1
      bits == read.bits + 6 * Min({run, limit})
  IN IF tail # <<>> /\ tail[1] # Equals THEN Error
     ELSE IF read.bits = 0 /\ tail # <<>> THEN Error
     ELSE IF bits > 24 \/ bits % 8 # 0 THEN Error
     ELSE Result(read.out)

-----------------------------------------------------------------------------
(* Packed values.  An integer is its eight bytes, the highest first; a       *)
(* format is a mode and items, letters with at most one count.               *)

Zeros(n) == [k \in 1..n |-> 0]
Sizes == [c |-> 1, h |-> 2, i |-> 4, l |-> 8, q |-> 8]
UnsignedOf == [C |-> "c", H |-> "h", I |-> "i", L |-> "l", Q |-> "q", Z |-> "l"]
SignedLetters == DOMAIN Sizes
Integers8 == SignedLetters \cup DOMAIN UnsignedOf
SizeOf(c) == CASE c \in SignedLetters -> Sizes[c] [] c \in DOMAIN UnsignedOf -> Sizes[UnsignedOf[c]]
               [] c = "?" -> 1 [] c \in {"d", "p"} -> 8

(* The first byte of {1, 0} is the low one of a short on a little-endian     *)
(* machine, so that "=" gives the other order there.                         *)
Native(mode) == mode \in {"", "@"}
Little(mode) == mode = "<" \/ Native(mode)

Fits(c, n) ==
  LET low == SizeOf(c)
      above == 1..(8 - low)
  IN IF c \in SignedLetters
     THEN \A k \in above : n[k] = IF n[9 - low] >= 128 THEN 255 ELSE 0
     ELSE n[1] < 128 /\ \A k \in above : n[k] = 0

Truth(v) ==
  CASE v.k = "int" -> v.n # Zeros(8) [] v.k = "bool" -> v.b [] v.k = "null" -> FALSE
    [] v.k = "blob" -> v.s # <<>> [] v.k = "float" -> v.f \notin {Zeros(8), <<128>> \o Zeros(7)}
    [] v.k = "optr" -> TRUE

Known(mode, c) ==
  c \in (IF Native(mode) THEN {"Z", "p"} ELSE {}) \cup (Integers8 \ {"Z"}) \cup {"?", "d"}

Accepts(c, v) ==
  CASE c \in Integers8 -> v.k = "int" /\ Fits(c, v.n) [] c = "d" -> v.k = "float"
    [] c = "p" -> v.k = "optr" [] c = "?" -> TRUE

Bytes8(c, v) ==
  CASE c \in Integers8 -> SubSeq(v.n, 9 - SizeOf(c), 8) [] c = "?" -> <<IF Truth(v) THEN 1 ELSE 0>>
    [] c = "d" -> v.f [] c = "p" -> v.a

Turned(mode, s) == IF Little(mode) THEN Reverse(s) ELSE s
Padding(mode, c, length) == IF Native(mode) THEN (- length) % SizeOf(c) ELSE 0

(* One value more, if there is one and it may be put. *)
Put(mode, c, args, st) ==
  LET v == args[st.i]
  IN IF ~ st.ok THEN st
     ELSE IF st.i \notin DOMAIN args \/ ~ Known(mode, c) THEN [st EXCEPT !.ok = FALSE]
     ELSE IF ~ Accepts(c, v) THEN [st EXCEPT !.ok = FALSE]
     ELSE [st EXCEPT !.i = @ + 1,
                     !.out = @ \o Zeros(Padding(mode, c, Len(@))) \o Turned(mode, Bytes8(c, v))]

(* A blob that was put stays locked. *)
PutBlob(z, args, st) ==
  LET v == args[st.i]
      cut == SubSeq(v.s, 1, Min({z, Len(v.s)}))
  IN IF ~ st.ok THEN st
     ELSE IF st.i \notin DOMAIN args THEN [st EXCEPT !.ok = FALSE]
     ELSE IF v.k # "blob" THEN [st EXCEPT !.ok = FALSE]
     ELSE [st EXCEPT !.i = @ + 1, !.out = @ \o cut \o Zeros(z - Len(cut)), !.locked = @ \cup {v}]

Times(item) == IF item.z = <<>> THEN 1 ELSE item.z[1]
Repeat(n, step(_), st) == FoldLeft(LAMBDA s, k : step(s), st, [k \in 1..n |-> k])

PutItem(mode, item, args, st) ==
  CASE item.c = "*" -> IF st.ok THEN [st EXCEPT !.out = @ \o Zeros(Times(item))] ELSE st
    [] item.c = "b" -> PutBlob(Times(item), args, st)
    [] OTHER -> Repeat(Times(item), LAMBDA s : Put(mode, item.c, args, s), st)

Encode(mode, items, args) ==
  FoldLeft(LAMBDA st, item : PutItem(mode, item, args, st),
           [ok |-> TRUE, out |-> <<>>, i |-> 1, locked |-> {}], items)

-----------------------------------------------------------------------------
(* Reading: p is what has been passed, of the bytes from the offset on.      *)

(* A number whose highest bit is set is made less by half its range only; of *)
(* native numbers the sign is extended.                                      *)
Extended(c, native, s) ==
  LET top == s[1] >= 128
      rest == [s EXCEPT ![1] = @ % 128]
  IN IF ~ top \/ c \notin SignedLetters THEN Zeros(8 - Len(s)) \o s
     ELSE IF native THEN [k \in 1..(8 - Len(s)) |-> 255] \o s
     ELSE Zeros(8 - Len(s)) \o rest

ValueOf(c, native, s) ==
  CASE c \in Integers8 -> [k |-> "int", n |-> Extended(c, native, s)]
    [] c = "?" -> [k |-> "bool", b |-> s[1] # 0]
    [] c = "d" -> [k |-> "float", f |-> s]
    [] c = "p" -> [k |-> "optr", a |-> s]

(* In native mode the end is not looked for, and a value is not passed.      *)
Get(mode, c, b, st) ==
  LET n == SizeOf(c)
      native == Native(mode)
      p == st.p + Padding(mode, c, st.p)
      s == Turned(mode, Part(b, p, n))
      large == native /\ c \in {"L", "Q", "Z"} /\ s[1] >= 128
  IN IF st.end # "" THEN st
     ELSE IF ~ Known(mode, c) \/ p > Len(b) \/ (~ native /\ p + n > Len(b))
       THEN [st EXCEPT !.end = "error"]
     ELSE IF p + n > Len(b) THEN [st EXCEPT !.end = "outside"]
     ELSE IF large THEN [st EXCEPT !.end = "error"]
     ELSE [st EXCEPT !.p = IF native THEN p ELSE p + n, !.vals = Append(@, ValueOf(c, native, s))]

Skip(z, b, st) ==
  IF st.end # "" THEN st
  ELSE IF st.p + z > Len(b) THEN [st EXCEPT !.end = "error"] ELSE [st EXCEPT !.p = @ + z]

GetItem(mode, item, b, st) ==
  LET z == Times(item)
      past == Skip(z, b, st)
  IN CASE item.c = "*" -> past
       [] item.c = "b" -> IF past.end # "" THEN past
                          ELSE [past EXCEPT !.vals = Append(@, [k |-> "blob", s |-> Part(b, st.p, z)])]
       [] OTHER -> Repeat(z, LAMBDA s : Get(mode, item.c, b, s), st)

(* An offset is not compared with the size. *)
Decode(b, mode, items, offset) ==
  LET from == IF offset < 0 THEN Len(b) + offset ELSE offset
      rest == SubSeq(b, from + 1, Len(b))
  IN IF from \notin 0..Len(b) THEN [end |-> "outside", p |-> 0, vals |-> <<>>]
     ELSE FoldLeft(LAMBDA st, item : GetItem(mode, item, rest, st),
                   [end |-> "", p |-> 0, vals |-> <<>>], items)
=============================================================================
