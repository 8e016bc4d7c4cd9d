----------------------------- MODULE MCLibrary -----------------------------
(* Inputs for Library.  What the code is known to get wrong is left out, and *)
(* said where.                                                               *)
EXTENDS Library

(* Calls on a container of any size up to MaxSize, with every index that is  *)
(* inside or just outside.  Left out: the end of a section that is past what *)
(* the section starts from, a negative beginning with an end, a search for   *)
(* more than there is, bytes inserted as a blob before the end, findlast     *)
(* from an index outside; on an array, what writes over cells that hold, or  *)
(* once held, an entity (Overwrites); on a blob, what leaves its lock held,  *)
(* or gives it back twice (Mislocks).                                        *)
Opts(A) == {<<>>} \cup {<<x>> : x \in A}
Call(op, i, j, v) == [op : {op}, i : i, j : j, v : v]
No == {<<>>}
Strange == {<<1, Bad>>}
Overwrites(b, c) ==
  LET i == IF c.op = "insert" THEN Index(b, c.i[1]) ELSE b.size
      Old(k) == IF k <= Len(b.data) THEN b.data[k] ELSE IF c.op = "insert" THEN Junk ELSE Null
  IN /\ b.kind = "array" /\ c.op \in {"push", "pushall", "insert"}
     /\ i \in 0..b.size
     /\ \E k \in DOMAIN c.v : Old(i + k) \in Counted \cup {Junk}
Mislocks(b, c) ==
  /\ b.kind = "blob"
  /\ \/ c.op = "set" /\ c.i[1] < 0
     \/ c.op = "remove" /\ (c.j = <<0>> \/ Index(b, c.i[1]) = b.size)
AnyCalls(b) ==
  LET n == b.size
      Single == IF b.kind = "array" THEN {<<1>>, <<3>>} ELSE {<<1>>, <<2>>}
      Several == IF b.kind = "array" THEN {<<1, 3>>} ELSE {<<1, 2>>}
      Around == {<<i>> : i \in (- n - 1)..(n + 1)}
      Values == Single \cup Several \cup IF b.kind = "blob" THEN Strange ELSE {}
  IN Call("get", Around, No, No)
     \cup Call("set", Around, No, Single \cup IF b.kind = "blob" THEN {<<Bad>>} ELSE {})
     \cup Call("push", No, No, Values) \cup Call("pushall", No, No, Several)
     \cup Call("insert", Around, No, Values)
     \cup Call("remove", Around, Opts((-1)..(n + 1)), No)
     \cup Call("reverse", No, No, No) \cup Call("copy", No, No, No) \cup Call("length", No, No, No)
     \cup Call("repeat", No, {<<-1>>, <<0>>, <<2>>}, No)
     \cup UNION {Call("sub", {<<i>>}, Opts((- n - 1)..(n - i)), No) : i \in 0..n}
     \cup Call("sub", {<<- n - 1>>, <<n + 1>>}, No, No)
     \cup (IF Len(b.data) <= 2 THEN Call("next", No, No, No) ELSE {})
     \cup (IF b.kind = "array"
           THEN Call("pop", No, No, No) \cup Call("clear", No, No, No)
                \cup Call("find", Opts((- n - 1)..(n + 1)), No, Single)
                \cup Call("findlast", {<<i>> : i \in (- n)..(n - 1)}, No, Single)
           ELSE Call("insertall", {<<n>>}, No, Several)
                \cup UNION {Call("fill", {<<i>>}, Opts((- n - 1)..n), Single \cup {<<Bad>>}) : i \in 0..n}
                \cup Call("resize", No, {<<i>> : i \in 0..(n + 2)}, No)
                \cup {c \in Call("find", Opts({0, - n - 1, n + 1}), No, Single \cup Several) : Len(c.v) <= n}
                \cup {c \in Call("findlast", No, No, Single) : Len(c.v) <= n})
MCCalls(b) == {c \in AnyCalls(b) : ~ Overwrites(b, c) /\ ~ Mislocks(b, c)}

-----------------------------------------------------------------------------
(* Arrays of several shapes: in order, backwards, with many equal items, in  *)
(* waves; short ones are inserted, long ones merged with a cache that serves *)
(* all levels or only the first ones (fails = 1), or with none (9).          *)
Shape(shape, i, n) ==
  CASE shape = "up" -> i [] shape = "down" -> n - i [] shape = "same" -> 1
    [] shape = "few" -> i % 3 [] shape = "saw" -> (i * 7) % 11
    [] shape = "mixed" -> ((i * 73 + 29) * 31) % 101
    [] shape = "pipe" -> IF 2 * i < n THEN i ELSE n - i
    [] shape = "steps" -> i \div 5 [] shape = "shifted" -> (i + (n \div 3)) % n

MCToSort ==
  {[items |-> [i \in 1..n |-> <<Shape(s, i, n), i>>], fails |-> f] :
     s \in {"up", "down", "same", "few", "saw", "mixed", "pipe", "steps", "shifted"},
     n \in {3, 16, 17, 50, 100}, f \in {0, 1, 9}}

(* Up to seven names in a leaf in any order, then more in ascending order    *)
(* until an inner node is full.  Left out: names in other orders when a leaf *)
(* is split, and more than 34.                                               *)
MCNameOrders == [1..5 -> 1..5] \cup {[i \in 1..34 |-> i], <<7, 6, 5, 4, 3, 2, 1, 4, 7>>}
MCHashOf(name) == name % 3

(* Code points of one, two and three bytes. *)
Letters == {97, 98, 233}
Strings(n) == UNION {[1..k -> Letters] : k \in 0..n}
MCTextCalls ==
  [u : Strings(4), part : Strings(2), count : {<<>>} \cup {<<n>> : n \in -2..2}]

-----------------------------------------------------------------------------
(* Two containers, each with up to two items of a number, a string and themselves; *)
(* and values of all other kinds.  Left out: negative numbers, null and the  *)
(* truth values.                                                             *)
MCRefs == {1, 2}
Small == {C!VInt(5), C!VStr(<<97>>)} \cup {C!Ref(r) : r \in MCRefs}
Keyed(n) == {<<C!VStr(<<96 + n>>), v>> : v \in Small}
UpToTwo(A, B) == {<<>>} \cup {<<v>> : v \in A} \cup {<<v, w>> : v \in A, w \in B}
MCItemLists == UpToTwo(Small, Small)
MCPairLists == UpToTwo(Keyed(1), Keyed(2))
MCLeaves ==
  {C!VStr(<<>>), C!VStr(<<34, 92, 10, 65>>), C!VStr([i \in 1..300 |-> 97]),
   C!VStr(Coded(<<233, 8364, 128512, 65535, 127, 1>>))}
  \cup {C!VInt(i) : i \in {0, 23, 24, 255, 256, 2047}}

MCIntegers == (- 2^(W - 1))..(2^(W - 1) - 1)

Interesting == {0, 65, 127, 128, 233, 2047, 2048, 8364, 55295, 57344, 65535, 65536, 128512, 1114111}
MCStreams ==
  [e : {"utf8", "utf16le", "utf16be", "utf32le", "utf32be"},
   u : {<<>>} \cup {<<x>> : x \in Interesting} \cup {<<x, y>> : x \in Interesting, y \in Interesting}]

MCBlobs == UNION {[1..n -> {0, 65, 255, 128}] : n \in 0..4}

(* Two items, not in native mode.  Left out: signed items whose highest bit  *)
(* is set, and "format" as a text.                                           *)
Number(i) == [k \in 1..5 |-> 0] \o <<(i \div 65536) % 256, (i \div 256) % 256, i % 256>>
Item(c) == [c |-> c, z |-> IF c = "b" THEN <<3>> ELSE <<>>]
Argument(c) ==
  CASE c \in {"c", "h", "i", "l"} -> {[k |-> "int", n |-> Number(i)] : i \in {0, 1, 127}}
    [] c \in {"C", "H", "Q"} -> {[k |-> "int", n |-> Number(i)] : i \in {0, 255}}
    [] c = "d" -> {[k |-> "float", f |-> [k \in 1..8 |-> k]]}
    [] c = "?" -> {[k |-> "bool", b |-> TRUE]}
    [] c = "b" -> {[k |-> "blob", s |-> <<3, 2, 1>>]}
ItemLetters == {"c", "C", "h", "H", "i", "l", "Q", "?", "d", "b"}
MCPacked ==
  UNION {{[mode |-> m, format |-> <<Item(c), Item(d)>>, args |-> <<a, b>>] :
            m \in {"<", ">", "="}, a \in Argument(c), b \in Argument(d)} :
         c \in ItemLetters, d \in ItemLetters}

-----------------------------------------------------------------------------
(* Two words of every kind.  Left out: a zero byte in a string that is not   *)
(* written as \0, integers that are followed by a point or an exponent and   *)
(* do not fit, and exponents that do not.                                    *)
Spelt(s, v) == [s |-> s, v |-> <<v>>]
OperatorWords ==
  {Spelt(s, <<"op", s>>) :
     s \in {<<37>>, <<38>>, <<40>>, <<41>>, <<42>>, <<43>>, <<44>>, <<58>>, <<59>>,
            <<91>>, <<93>>, <<94>>, <<123>>, <<124>>, <<125>>, <<126>>, <<45>>, <<46>>,
            <<47>>, <<60>>, <<61>>, <<62>>, <<45, 62>>, <<46, 63>>, <<47, 47>>,
            <<60, 61>>, <<60, 60>>, <<61, 61>>, <<62, 61>>, <<62, 62>>, <<33, 61>>,
            <<63, 63>>, <<46, 46, 46>>}}
NumberWords ==
  LET Of(s, n) == Spelt(s, <<"number", n>>)
      Real(s, m, e) == Spelt(s, L!Floating(m, e))
  IN {Of(<<48>>, 0), Of(<<48, 48, 55>>, 7), Of(<<50, 48, 52, 55>>, 2047),
      Of(<<48, 120, 55, 102, 70>>, 2047), Of(<<48, 98, 49, 48, 49>>, 5), Of(<<48, 111, 49, 55>>, 15),
      Real(<<50, 48, 52, 56>>, 2048, 0), Real(<<49, 46, 53, 48>>, 150, -2),
      Real(<<49, 50, 101, 49>>, 12, 1), Real(<<51, 69, 45, 50>>, 3, -2), Real(<<46, 53>>, 5, -1),
      Real(<<49, 46>>, 1, 0), Real(<<48, 46, 53, 101, 43, 49>>, 5, 0)}
NameWords == {Spelt(s, <<"name", s>>) : s \in {<<97>>, <<95, 49>>, L!If \o L!If, <<65, 110, 100>>}}
StringWords ==
  LET Of(s, text) == Spelt(<<34>> \o s \o <<34>>, <<"string", text>>)
  IN {Of(<<>>, <<>>), Of(<<97, 92, 110>>, <<97, 10>>), Of(<<92, 48>>, <<0>>), Of(<<92, 13, 10>>, <<10>>),
      Of(<<92, 117, 50, 48, 65, 67>>, <<226, 130, 172>>), Of(<<195, 169, 92, 34>>, <<195, 169, 34>>),
      Of(<<92, 120, 55, 102, 35>>, <<127, 35>>), Of([k \in 1..256 |-> 97], [k \in 1..256 |-> 97])}
KeywordWords == {Spelt(s, <<"word", s>>) : s \in L!Keywords}
                \cup {[s |-> L!Else \o L!If, v |-> <<<<"word", L!Else>>, <<"word", L!If>>>>]}
Words == OperatorWords \cup NumberWords \cup NameWords \cup StringWords \cup KeywordWords
EndOfLine == <<<<"op", <<10>>>>>>
Spaces ==
  {[s |-> <<32>>, v |-> <<>>], [s |-> <<9, 13, 10>>, v |-> EndOfLine],
   [s |-> <<32, 35, 32, 62, 35, 34, 10>>, v |-> EndOfLine], [s |-> <<35, 60, 34, 35, 62, 62, 35>>, v |-> <<>>]}
Source(A, B, space) ==
  [words : {<<a, b>> : a \in A, b \in B}, space : space, operators : {OperatorWords}]
MCSources ==
  Source(Words, Words, Spaces) \cup Source(OperatorWords, OperatorWords, {[s |-> <<>>, v |-> <<>>]})

(* Of two word sizes, two byte orders and two formats of floats. *)
MCMachines ==
  [endianness : {1, 2}, size : {4, 8}, int : {8}, address : {4},
   gamma : {[k \in 1..8 |-> k], [k \in 1..8 |-> 9 - k], <<1, 2, 3, 4, 5, 6>>}]
MCDumped ==
  [version : {1, 0, 2}, code : {<<0>>, <<7, 0, 139>>}, main : {0, 1}, data : {<<255>>, <<0, 1>>}]

-----------------------------------------------------------------------------
MCYears == 1583..2420

(* Zones with and without summer time, north and south of noon; days around  *)
(* the end of February, the turn of the year and the changes of the zones,   *)
(* in common and in leap years and after 2000.                               *)
Zone(std, from, until) == [std |-> std, dst |-> std + 3600, from |-> from, until |-> until]
Zones == {Zone(7200, 84, 297), Zone(7200, 0, 0), Zone(-12600, 84, 120)}
Days == {59, 60, 61, 365, 425, 789, 790, 800, 1155, 11016, 18321, 18322, 20000}
        \cup {10950 + 37 * k : k \in 0..10}
MCInstants == [zone : Zones, t : {86400 * d + s : d \in Days, s \in {0, 4000, 86399}}]
=============================================================================
