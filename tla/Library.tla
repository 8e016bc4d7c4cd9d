------------------------------ MODULE Library ------------------------------
(***************************************************************************)
(* The sequential algorithms below the interpreter, side by side.  An      *)
(* array or blob goes through any sequence of calls; each of the others is *)
(* a function, and takes one input of its kind in each behaviour.          *)
(***************************************************************************)
EXTENDS Arrays

CONSTANTS
  Ibuf, Gbuf, Mbuf, Gallop0, Lrotbuf, Rotbuf, MinCache,  \* of Sorting
  K, W, IntMax, RecurseLimit,  \* of Symbols, Json and Convert, Cbor, and both formats
  ToSort,     \* what is sorted, and how often asking for a cache fails
  NameOrders, \* the names of a function, in the order in which it uses them
  HashOf(_),
  TextCalls,  \* code points of a string, of a part of it, and a count
  Refs, ItemLists, PairLists, \* containers, what arrays and tables may hold
  Leaves,     \* values that are no containers
  Numbers, \* integers written as quantities and in a base
  Streams,    \* encodings and texts
  Blobs,
  Packed,     \* modes, formats and values for them
  Years,
  Instants,   \* zones and times
  Sources,    \* words with what they mean, and what is between them
  Machines,
  Dumped      \* programs

ASSUME KAssumption == K \in Nat /\ K > 2

VARIABLE work

S == INSTANCE Sorting
N == INSTANCE Symbols
T == INSTANCE Texts
J == INSTANCE Json
C == INSTANCE Cbor
E == INSTANCE Encodings
V == INSTANCE Convert
D == INSTANCE Calendar
L == INSTANCE Lexer
X == INSTANCE Written
P == INSTANCE Programs
O == INSTANCE Operators

libraryVars == <<box, call, result, at, work>>

-----------------------------------------------------------------------------
(* A behaviour is one of array calls, or one of taking an input of a kind.   *)
Waiting(kind) == [kind |-> kind]
Take(kind, inputs) ==
  /\ work = Waiting(kind)
  /\ \E i \in inputs : work' = [kind |-> kind, in |-> i]
  /\ UNCHANGED vars
Took(kind) == work = Waiting(kind) /\ work' # work

(* No array is at work. *)
Idle ==
  /\ box = Empty("array")
  /\ call = NoCall /\ result = None /\ at = 0

WorkKinds == {"sort", "names", "text", "document", "integer", "stream", "blob", "packed",
              "year", "instant", "source", "program"}

LibraryInit ==
  \/ Init /\ work = Waiting("arrays")
  \/ Idle /\ \E kind \in WorkKinds : work = Waiting(kind)

Documents ==
  [heap : [Refs -> [k : {"arr"}, items : ItemLists] \cup [k : {"table"}, items : PairLists]],
   v : {J!Ref(r) : r \in Refs}]
  \cup [heap : {<<>>}, v : Leaves]
Images == [m : Machines, p : Dumped]

LibraryNext ==
  \/ work = Waiting("arrays") /\ Next /\ UNCHANGED work
  \/ Take("sort", ToSort)
  \/ Take("names", NameOrders)
  \/ Take("text", TextCalls)
  \/ Take("document", Documents)
  \/ Take("integer", Numbers)
  \/ Take("stream", Streams)
  \/ Take("blob", Blobs)
  \/ Take("packed", Packed)
  \/ Take("year", Years)
  \/ Take("instant", Instants)
  \/ Take("source", Sources)
  \/ Take("program", Images)

LibrarySpec == LibraryInit /\ [][LibraryNext]_libraryVars

-----------------------------------------------------------------------------
InOrder(in, out) ==
  LET Order(i) == O!Compare(O!Integer(out[i - 1][1]), O!Integer(out[i][1]))
  IN /\ \A i \in 2..Len(out) : \/ Order(i) = O!Integer(-1)
                               \/ Order(i) = O!Integer(0) /\ out[i - 1][2] < out[i][2]
     /\ ToSet(out) = ToSet(in)

(* A sorted array has its items in the order of values, equal ones in the    *)
(* order they came, each of them once, whichever of its ways the sort takes  *)
(* with or without memory for a cache (usort.c, uvop.c).                     *)
Missorted == {i \in ToSort : ~ InOrder(i.items, S!ArrSort(i.items, i.fails))}
Sorted == [][Took("sort") => work'.in \notin Missorted]_libraryVars

(* The book of a function that has used these names. *)
BookIsMap(used, book) ==
  LET Number(n) == N!Interned(book.words, n, HashOf(n))
      First(n) == Min({i \in DOMAIN used : used[i] = n})
      chain == N!Chain(book.tree, book.tree.begin)
  IN /\ \A n \in ToSet(used) : /\ Len(Number(n)) = 1
                               /\ N!Find(book.tree, Number(n)[1].index) = First(n)
     /\ book.words.entries = Cardinality(ToSet(used))
     /\ Len(chain) = Cardinality(ToSet(used))
     /\ \A i \in 2..Len(chain) : chain[i - 1][1] < chain[i][1]
     /\ IsInjective(N!Dropped(book.tree, book.tree.root))
     /\ ToSet(N!Dropped(book.tree, book.tree.root)) = DOMAIN book.tree.nodes

(* The first k names have been used. *)
RECURSIVE FiledRight(_, _, _)
FiledRight(names, k, book) ==
  /\ BookIsMap(SubSeq(names, 1, k), book)
  /\ k < Len(names) =>
       LET name == names[k + 1]
       IN \A next \in {N!UseName(book, name, HashOf(name))} : FiledRight(names, k + 1, next)

(* A name has one number for the whole program, and finds in the book what   *)
(* its first use put there; whoever goes over the book meets every number    *)
(* once, in order (uhash.c, ubtree.c).                                       *)
TreeIsMap == [][Took("names") => FiledRight(work'.in, 0, N!NewBook)]_libraryVars

-----------------------------------------------------------------------------
(* Texts: what the functions on the bytes of a string give, said of its code *)
(* points.                                                                   *)

Coded(u) == FlattenSeq([k \in DOMAIN u |-> T!Utf8Enc(u[k])])
FromEnd(u, k) == IF k < 0 THEN Len(u) + k ELSE k

PickedRight(u) ==
  LET s == Coded(u)
      n == Len(u)
  IN /\ T!TextLength(s) = n /\ T!TextSize(s) = Len(s)
     /\ T!TextReverse(s) = Coded(Reverse(u))
     /\ \A k \in {1, 2} : n > 0 => T!TextRepeat(s, k) = T!Join(<<>>, [i \in 1..k |-> s])
     /\ T!AsciiLower(T!AsciiUpper(s)) = T!AsciiLower(s)
     /\ \A k \in 0..(n - 1) : T!Utf8Reshift(s, Len(s), k) = Len(Coded(SubSeq(u, 1, k)))
     /\ T!Utf8Reshiftlz(s \o <<0>> \o s) = [n |-> Len(s), l |-> n]
     /\ \A k \in (- n)..(n - 1) : /\ T!CharCode(s, <<k>>) = u[FromEnd(u, k) + 1]
                                  /\ T!Char(T!CharCode(s, <<k>>)) = T!CodeAt(s, k)
                                  /\ T!CodeAt(s, k) = Coded(<<u[FromEnd(u, k) + 1]>>)
     /\ \A i \in 0..n :
          /\ T!TextSub(s, i, <<>>) = Coded(SubSeq(u, i + 1, n))
          /\ \A j \in (- n)..n : FromEnd(u, j) >= i =>
               T!TextSub(s, i, <<j>>) = Coded(SubSeq(u, i + 1, FromEnd(u, j)))

FoundRight(u, part) ==
  LET places == {k \in 0..(Len(u) - Len(part)) : SubSeq(u, k + 1, k + Len(part)) = part}
  IN Len(Coded(part)) <= Len(Coded(u)) =>
       /\ T!TextFind(Coded(u), Coded(part), <<>>) = IF places = {} THEN -1 ELSE Min(places)
       /\ part # <<>> /\ ~ T!RunsOut(Coded(u), Coded(part)) =>
            LET last == T!TextFindLast(Coded(u), Coded(part), <<>>)
            IN IF places = {} THEN last = -1
               ELSE last \in places \cup {-1} /\ (Len(Coded(part)) = 1 => last = Max(places))

(* The last search of a split or replacement is not for more bytes than are  *)
(* left.                                                                     *)
StaysInside(s, p, count) == ~ T!Cut(s, p, T!Times(count), T!Backwards(count)).lost

SplitRight(u, part, count) ==
  LET s == Coded(u)
      p == Coded(part)
      pieces == T!Split(s, p, count)
  IN StaysInside(s, p, count) =>
       /\ T!Join(p, pieces) = s
       /\ count # <<>> => Len(pieces) <= T!Times(count) + 1
       /\ p # <<>> => T!Replace(s, p, Coded(<<45>>), count) = T!Join(Coded(<<45>>), pieces)
       /\ p # <<>> /\ count = <<>> => \A k \in DOMAIN pieces : T!Places(pieces[k], p) = {}

(* The functions on strings treat a string as its code points, whatever the  *)
(* number of bytes of each: taking parts, searching, and splitting so that   *)
(* joining the pieces gives the string again (ulib.c, ustr.c, umem.c).       *)
TextAgrees ==
  [][Took("text") => /\ PickedRight(work'.in.u)
                     /\ FoundRight(work'.in.u, work'.in.part)
                     /\ SplitRight(work'.in.u, work'.in.part, work'.in.count)]_libraryVars

-----------------------------------------------------------------------------
(* The tokens of a literal for a value, and those the lexer finds in the     *)
(* text of one.                                                              *)
Op(c) == <<<<"op", <<c>>>>>>
Listed(parts) == FlattenSeq([i \in DOMAIN parts |-> IF i = 1 THEN parts[i] ELSE Op(44) \o parts[i]])
RECURSIVE Tokens(_, _)
Tokens(heap, v) ==
  CASE v.k = "int" -> <<<<"number", v.i>>>>
    [] v.k = "str" -> <<<<"string", v.s>>>>
    [] v.k = "ref" /\ heap[v.r].k = "arr" ->
         Op(91) \o Listed([i \in DOMAIN heap[v.r].items |-> Tokens(heap, heap[v.r].items[i])])
         \o Op(93)
    [] v.k = "ref" /\ heap[v.r].k = "table" ->
         LET Pair(p) == Tokens(heap, p[1]) \o Op(58) \o Tokens(heap, p[2])
         IN Op(123) \o Listed([i \in DOMAIN heap[v.r].items |-> Pair(heap[v.r].items[i])])
            \o Op(125)

Lexed(s) == LET out == L!Lex(s) IN IF out.err = "" THEN L!Meant(out) ELSE <<<<out.err>>>>

(* The text of a value is a literal for it.  There is a text for every       *)
(* container that does not hold itself, and for those that do when there are *)
(* no tables.                                                                *)
TextReturns(heap, v, loops) ==
  LET text == X!TextOf(heap, v)
  IN /\ ~ loops \/ (\A r \in DOMAIN heap : heap[r].k = "arr") => text.ok
     /\ ~ loops => Lexed(text.out) = Tokens(heap, v)

(* Its length matters in CBOR only: the others go from character to          *)
(* character.                                                                *)
Long(v) == v.k = "str" /\ Len(v.s) > 255

(* A value written in JSON or CBOR and read again is the same value; one     *)
(* that holds itself is refused, however it does (ulibjson.c, ulibcbor.c).   *)
DocumentsReturn(heap, v) ==
  LET loops == J!Loops(heap, v, {})
      json == J!JsonWritten(heap, v)
      cbor == C!CborWritten(heap, v)
      Returned(tree, out) == [ok |-> TRUE, v |-> tree, p |-> Len(out) + 1]
  IN /\ cbor.ok = ~ loops
     /\ ~ loops => C!CborRead(cbor.out) = Returned(C!TreeOf(heap, v), cbor.out)
     /\ ~ Long(v) =>
          /\ json.ok = ~ loops
          /\ ~ loops => J!JsonRead(json.out) = Returned(J!TreeOf(heap, v), json.out)
          /\ IF v.k = "ref" THEN TextReturns(heap, v, loops)
             ELSE TextReturns(<<[k |-> "arr", items |-> <<v>>]>>, J!Ref(1), FALSE)

IntegersReturn(i) ==
  /\ V!VlqDecI(V!VlqEncI(i)) = i
  /\ i >= 0 => LET b == V!VlqEncZ(i, 9)
               IN V!VlqDecZ(b) = <<i, Len(b)>> /\ V!ClqDecZ(2, V!ClqEncZ(i, 2)) = i
  /\ i > V!Least => \A base \in {2, 10, 36} : V!ToIntBase(V!FromIntBase(i, base)[2], base) = V!Result(i)
  /\ O!FloatToInt(O!Float(i)) = O!Integer(i)
  /\ LET text == X!IntText(i)
         digits == IF i < 0 THEN Tail(text) ELSE text
     IN /\ O!StringToInt(i < 0, [k \in DOMAIN digits |-> L!ValueOf(digits[k])]) = O!Integer(i)
        /\ i > V!Least => Lexed(text) = (IF i < 0 THEN Op(45) ELSE <<>>) \o <<<<"number", L!Magnitude(i)>>>>

BytesReturn(s) ==
  /\ V!FromHex(V!ToHex(s)) = V!Result(s)
  /\ \A url \in BOOLEAN, white \in BOOLEAN : V!DecodeB64(V!EncodeB64(s, url), url, white) = V!Result(s)

PackedReturn(i) ==
  LET e == V!Encode(i.mode, i.format, i.args)
      d == V!Decode(e.out, i.mode, i.format, 0)
  IN e.ok /\ d.end = "" /\ d.vals = i.args /\ d.p = Len(e.out)

StreamReturns(e, s) == E!DecodeText(e, E!EncodeText(e, s)[2]) = E!Done(s)

(* Every word of a source is a token, whatever the space between them; where *)
(* there is none, an operator is as long as it can be.                       *)
SourceReturns(i) ==
  LET source == FlattenSeq([k \in DOMAIN i.words |-> IF k = 1 THEN i.words[k].s
                                                     ELSE i.space.s \o i.words[k].s])
      tokens == FlattenSeq([k \in DOMAIN i.words |-> IF k = 1 THEN i.words[k].v
                                                     ELSE i.space.v \o i.words[k].v])
  IN IF i.space.s # <<>> THEN Lexed(source) = tokens
     ELSE LET out == L!Lex(source)
              operators == {w.s : w \in i.operators}
              longest == Max({Len(o) : o \in {x \in operators : IsPrefix(x, source)}})
          IN out.err = "" => /\ FlattenSeq([k \in DOMAIN out.tokens |-> out.tokens[k][2]]) = source
                             /\ out.tokens[1][2] = SubSeq(source, 1, longest)

(* A program that was written is loaded as it was on a machine like the one  *)
(* that wrote it, and on no other; nothing is loaded when it has another     *)
(* version, when writing stopped early, or when a byte before the sizes has  *)
(* changed (uimpl.c, uprog.c).                                               *)
ProgramReturns(m, p) ==
  LET whole == P!DumpStream(m, p, P!Huge).stream
      Changed(k) == [whole EXCEPT ![k] = (@ + 1) % 256]
      Checked == (1..(P!HeaderEnd(m) - 24)) \ ((25 + Len(m.gamma))..(P!HeaderEnd(m) - 32))
  IN /\ P!TakenForProgram(whole)
     /\ IF P!Upgradable(p.version)
        THEN P!LoadStream(m, whole) = [ok |-> TRUE, program |-> p]
        ELSE ~ P!LoadStream(m, whole).ok
     /\ \A other \in Machines \ {m} : ~ P!LoadStream(other, whole).ok
     /\ \A room \in 0..(Len(whole) - 1) : ~ P!LoadStream(m, P!DumpStream(m, p, room).stream).ok
     /\ P!Upgradable(p.version) => \A k \in Checked : ~ P!LoadStream(m, Changed(k)).ok

(* What the library writes for a value in one of its formats, it reads back  *)
(* as that value and to the last byte; so do the lexer with the text of a    *)
(* value, and the loader with a program (ulibjson.c, ulibcbor.c, ulibconv.c, *)
(* uvlq.c, utxt.c, uvsio.c, ulex.c, uimpl.c).                                *)
RoundTrips ==
  [][/\ Took("document") => DocumentsReturn(work'.in.heap, work'.in.v)
     /\ Took("integer")  => IntegersReturn(work'.in)
     /\ Took("blob")     => BytesReturn(work'.in)
     /\ Took("packed")   => PackedReturn(work'.in)
     /\ Took("source")   => SourceReturns(work'.in)
     /\ Took("program")  => ProgramReturns(work'.in.m, work'.in.p)
     /\ Took("stream")   => StreamReturns(work'.in.e, Coded(work'.in.u))]_libraryVars

-----------------------------------------------------------------------------
(* Days from 1970 to the first of a year, or from there to 1970. *)
DaysTo(y) ==
  LET Leap(years) == Cardinality({z \in years : D!IsLeapYear(z)})
  IN 365 * (y - 1970) + Leap(1970..(y - 1)) - Leap(y..1969)

YearRight(y) ==
  /\ \A m \in 0..11 : D!GetDayFromYearMonth(y, m) = DaysTo(y) + D!GetDayOfYear(1, m, y)
  /\ \A m \in 1..12 : \A day \in {1, D!DaysPerMonth(m - 1, y)} :
       LET o == D!New(y, m, day, 1, 2, 60, 1)[2] IN o.weekday = 1 + ((DaysTo(y) + o.yearday + 2) % 7)

InstantRight(zone, t) ==
  LET loc == D!TzLocal(zone, t)
      Zone(o) == IF o.dst = 1 THEN zone.dst ELSE zone.std
  IN /\ loc.offset = zone.std
     /\ loc.offsetdst = IF zone.from = zone.until THEN zone.std ELSE zone.dst
     /\ \A tz \in {D!TzUtc, loc} :
          LET o == D!DtFromTime(zone, tz, t, 5) IN
          /\ D!DtToTime(zone, tz, o) = D!Result(t) /\ D!TzNow(zone, tz, t, 5) = o
          /\ D!TzDst(zone, t, tz) = (tz = loc /\ zone.from # zone.until)
          /\ tz = loc => D!DtMkTime(zone, o) = D!Result(t)
          /\ D!DtConvert(zone, tz, D!TzUtc, o) = D!Result(D!DtFromTime(zone, D!TzUtc, t, 5))
          /\ tz = loc => \A iso \in D!ToIso(zone, t, o, <<tz>>) :
               Zone(o) # 0 => D!FromIso(iso[2]) =
                 {D!Result([date |-> [o EXCEPT !.us = 0, !.dst = D!Unsure], offset |-> <<Zone(o)>>])}

(* Every time since 1970 is a date in every zone that leads back to it, also *)
(* through its ISO form; the days of all years from 1583 on are counted one  *)
(* by one, and so are the days of the week (ulibtime.c).                     *)
DatesAgree ==
  [][/\ Took("year")    => YearRight(work'.in)
     /\ Took("instant") => InstantRight(work'.in.zone, work'.in.t)]_libraryVars
=============================================================================
