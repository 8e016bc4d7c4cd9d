------------------------------- MODULE Arrays -------------------------------
(***************************************************************************)
(* Arrays and blobs: the memory they are kept in (uarr.c, ublob.c) and the *)
(* functions of the base library on them (ulib.c), each of which is one    *)
(* step as it holds the lock of its container.  Indexing an array takes no *)
(* lock (uarr.c:212, 235) and is a step as well: the container belongs to  *)
(* one view.  One container stands for both kinds.  Junk is what memory    *)
(* that was never written holds.                                           *)
(*                                                                         *)
(* Items that are entities are counted: refs has, for each of them, the    *)
(* references the container has taken less those it has given back; what   *)
(* unwritten memory is taken to refer to is counted as well.               *)
(***************************************************************************)
EXTENDS Integers, Bytes

CONSTANTS Kinds,       \* "array", "blob"
          BlobBuffer,  \* the capacity of a blob is a multiple of this
          Bad,         \* a value that is no byte
          Junk,
          Counted,     \* items that are entities
          Calls(_),    \* the calls programs make on a container
          MaxSize

VARIABLES box,     \* its kind, its cells, how many of them are in use, the
                   \* references it has, how often its lock is held
          call, result,
          at       \* where an iterator over it stands

vars == <<box, call, result, at>>

Error == <<"error">>
None == <<>>
Null == 0

-----------------------------------------------------------------------------
(* Memory. *)

Cells(n, x) == [k \in 1..n |-> x]

(* n bytes of data from offset p, whatever is there. *)
Read(data, p, n) ==
  [k \in 1..n |-> IF p + k \in DOMAIN data THEN data[p + k] ELSE Junk]

Written(data, p, v) ==
  [k \in DOMAIN data |-> IF k - p \in DOMAIN v THEN v[k - p] ELSE data[k]]

MoveTo(data, to, from, n) == Written(data, to, Read(data, from, n))

(* The new memory holds x. *)
Grown(data, n, x) ==
  LET c == Len(data) IN IF n <= c THEN data ELSE data \o Cells(n - c, x)

ArrayGrown(b, n, x) ==
  LET c == Len(b.data)
  IN Grown(b.data, IF n > c THEN Max({(3 * c) \div 2, n}) ELSE n, x)
BlobGrown(b, n) ==
  LET m == n + BlobBuffer - 1
  IN Grown(b.data, IF n > Len(b.data) THEN m - (m % BlobBuffer) ELSE n, Junk)

(* VINCREF and VDECREF of the items of v. *)
Times(v, x) == Cardinality({k \in DOMAIN v : v[k] = x})
Increfs(refs, v) == [x \in DOMAIN refs |-> refs[x] + Times(v, x)]
Decrefs(refs, v) == [x \in DOMAIN refs |-> refs[x] - Times(v, x)]

(* VCOPY of the items of v to cells from p on releases what the cells held. *)
Copied(b, p, v) ==
  [b EXCEPT !.data = Written(@, p, v),
            !.refs = Decrefs(Increfs(@, v), Read(b.data, p, Len(v)))]

ArrayCat(b, v) ==
  LET n == b.size + Len(v)
      grown == [b EXCEPT !.data = ArrayGrown(b, n, Null)]
  IN [Copied(grown, b.size, v) EXCEPT !.size = n]

(* The items that have moved are still in the cells they have come from, and *)
(* what the array has grown by is not cleared.                               *)
ArrayIns(b, i, v) ==
  LET n == b.size + Len(v)
      moved == MoveTo(ArrayGrown(b, n, Junk), i + Len(v), i, b.size - i)
  IN [Copied([b EXCEPT !.data = moved], i, v) EXCEPT !.size = n]
ArrayDel(b, i, n) ==
  [b EXCEPT !.data = MoveTo(@, i, i + n, b.size - i - n), !.size = @ - n,
            !.refs = Decrefs(@, Read(b.data, i, n))]

(* unc0_blobadd, unc0_blobaddn *)
BlobAdd(b, v) ==
  LET n == b.size + Len(v)
  IN [b EXCEPT !.data = Written(BlobGrown(b, n), b.size, v), !.size = n]

(* unc0_blobins moves as many bytes too few as it inserts. *)
BlobIns(b, i, v) ==
  LET n == b.size + Len(v)
      grown == BlobGrown(b, n)
      moved == IF i + Len(v) < b.size THEN MoveTo(grown, i + Len(v), i, b.size - Len(v) - i)
               ELSE grown
  IN [b EXCEPT !.data = Written(moved, i, v), !.size = n]
BlobDel(b, i, n) ==
  LET d == MoveTo(b.data, i, i + n, b.size - i - n)
      size == b.size - n
  IN [b EXCEPT !.size = size,
               !.data = IF size * 2 < Len(d) THEN SubSeq(d, 1, Len(d) \div 2) ELSE d]

BlobResize(b, n) ==
  IF n > b.size THEN BlobAdd(b, Cells(n - b.size, 0))
  ELSE IF n < b.size THEN BlobDel(b, n, b.size - n) ELSE b

-----------------------------------------------------------------------------
(* Calls, on box b.  An optional argument is a sequence of at most one.      *)

Does(b, r) == [box |-> b, result |-> r]
Fails(b) == Does(b, Error)

(* Returning without unlocking, and unlocking once more.                     *)
StaysLocked(b) == [b EXCEPT !.locks = @ + 1]
UnlockedTwice(b) == [b EXCEPT !.locks = @ - 1]

Items(b) == SubSeq(b.data, 1, b.size)

Given(i) == i # <<>>
Index(b, i) == IF i < 0 THEN i + b.size ELSE i
Within(b, i) == i \in 0..(b.size - 1)

Byte(x) == x # Bad
AllBytes(v) == \A k \in DOMAIN v : Byte(v[k])

AGetIndx(b, c) ==
  LET i == Index(b, c.i[1])
  IN IF Within(b, i) THEN Does(b, Read(b.data, i, 1)) ELSE Fails(b)
BlGetByte(b, c) ==
  LET i == Index(b, c.i[1])
  IN IF Within(b, i) THEN Does(b, Read(b.data, i, 1)) ELSE Fails(b)

ASetIndx(b, c) ==
  LET i == Index(b, c.i[1])
  IN IF Within(b, i) THEN Does(Copied(b, i, c.v), None) ELSE Fails(b)

(* With a negative index the lock is given back before the byte is written.  *)
BlSetByte(b, c) ==
  LET i == Index(b, c.i[1])
      left == IF c.i[1] < 0 THEN UnlockedTwice(b) ELSE b
  IN IF Within(b, i) /\ AllBytes(c.v)
     THEN Does([left EXCEPT !.data = Written(@, i, c.v)], None)
     ELSE Fails(left)

ArrayPush(b, c) == Does(ArrayCat(b, c.v), None)
ArrayExtend(b, c) == Does(ArrayCat(b, c.v), None)
ArrayPop(b, c) ==
  IF b.size = 0 THEN Fails(b)
  ELSE LET last == Read(b.data, b.size - 1, 1)
       IN Does([b EXCEPT !.size = @ - 1, !.data[b.size] = Null,
                         !.refs = Decrefs(@, last)], last)
ArrayInsert(b, c) ==
  LET i == Index(b, c.i[1])
  IN IF i \in 0..b.size THEN Does(ArrayIns(b, i, c.v), None) ELSE Fails(b)

(* Integers are checked one by one, with the space for them already made. *)
BlobPush(b, c) ==
  LET more == BlobResize(b, b.size + Len(c.v))
  IN IF ~ AllBytes(c.v) THEN Fails(BlobResize(more, b.size))
     ELSE Does([more EXCEPT !.data = Written(@, b.size, c.v)], None)
BlobPushAll(b, c) ==
  LET more == BlobResize(b, b.size + Len(c.v))
  IN Does([more EXCEPT !.data = Written(@, b.size, c.v)], None)
(* Mutant: a value that is no byte is met, and what was moved stays moved. *)
BlobInsertUnmoved(b, c) ==
  LET i == Index(b, c.i[1])
      n == Len(c.v)
      more == BlobResize(b, b.size + n)
      moved == [more EXCEPT !.data = MoveTo(@, i + n, i, b.size - i)]
  IN IF i \notin 0..b.size THEN Fails(b)
     ELSE IF ~ AllBytes(c.v) THEN Fails(BlobResize(moved, b.size))
     ELSE Does([moved EXCEPT !.data = Written(@, i, c.v)], None)

BlobInsert(b, c) ==
  LET i == Index(b, c.i[1])
      n == Len(c.v)
      more == BlobResize(b, b.size + n)
      moved == [more EXCEPT !.data = MoveTo(@, i + n, i, b.size - i)]
      back == [more EXCEPT !.data = MoveTo(moved.data, i, i + n, b.size - i)]
  IN IF i \notin 0..b.size THEN Fails(b)
     ELSE IF ~ AllBytes(c.v) THEN Fails(BlobResize(back, b.size))
     ELSE Does([moved EXCEPT !.data = Written(@, i, c.v)], None)
BlobInsertAll(b, c) ==
  LET i == Index(b, c.i[1])
  IN IF i \in 0..b.size THEN Does(BlobIns(b, i, c.v), None) ELSE Fails(b)

Removed(b, c) ==
  LET i == Index(b, c.i[1])
      n == IF Given(c.j) THEN c.j[1] ELSE 1
      m == IF i + n > b.size THEN b.size - i ELSE n
  IN IF i \notin 0..b.size \/ n < 0 THEN Fails(b)
     ELSE IF m = 0 THEN Does(IF b.kind = "array" THEN b ELSE StaysLocked(b), None)
     ELSE Does(IF b.kind = "array" THEN ArrayDel(b, i, m) ELSE BlobDel(b, i, m), None)
ArrayRemove(b, c) == Removed(b, c)
BlobRemove(b, c) == Removed(b, c)

ArrayClear(b, c) == Does(ArrayDel(b, 0, b.size), None)

(* The end of a section is compared with the number of items from its        *)
(* beginning on, and the beginning with the end as it was given.             *)
Start(b, i) == IF i < 0 THEN IF - i > b.size THEN -1 ELSE b.size + i
               ELSE IF i > b.size THEN -1 ELSE i
Rest(b, i) == IF Start(b, i) = -1 THEN 0 ELSE b.size - Start(b, i)

Sub(b, c) ==
  LET i == c.i[1]
      p == IF i < 0 /\ Start(b, i) # -1 THEN b.size + i ELSE Start(b, i)
      n == IF i < 0 /\ Start(b, i) # -1 THEN b.size + i ELSE Rest(b, i)
      j == IF c.j[1] > n THEN n ELSE c.j[1]
      count == IF p = -1 \/ ~ Given(c.j) THEN n
               ELSE IF j >= 0 THEN IF j <= i THEN 0 ELSE j - i
               ELSE IF n <= - j THEN 0 ELSE n + j
  IN Does(b, Read(b.data, p, count))
ArraySub(b, c) == Sub(b, c)
BlobSub(b, c) == Sub(b, c)

BlobFill(b, c) ==
  LET i == c.i[1]
      p == Start(b, i)
      n == IF i < 0 /\ p # -1 THEN b.size + i ELSE Rest(b, i)
      count == IF p = -1 \/ ~ Given(c.j) THEN n
               ELSE IF c.j[1] >= 0 THEN IF c.j[1] > i THEN c.j[1] - i ELSE 0
               ELSE IF n > - c.j[1] THEN n + c.j[1] ELSE 0
  IN IF ~ AllBytes(c.v) THEN Fails(b)
     ELSE Does([b EXCEPT !.data = Written(@, p, Cells(count, c.v[1]))], None)

BlobSetSize(b, c) ==
  IF c.j[1] < 0 THEN Fails(StaysLocked(b)) ELSE Does(BlobResize(b, c.j[1]), None)

ArrayFind(b, c) ==
  LET i == IF Given(c.i) THEN Index(b, c.i[1]) ELSE 0
      found == {k \in i..(b.size - 1) : b.data[k + 1] = c.v[1]}
  IN Does(b, IF i < 0 \/ found = {} THEN <<-1>> ELSE <<Min(found)>>)

(* The search begins at the size, where there is no item. *)
ArrayFindLast(b, c) ==
  LET i == IF Given(c.i) THEN Index(b, c.i[1]) ELSE b.size
      found == {k \in 0..(IF i > b.size THEN b.size ELSE i) : Read(b.data, k, 1) = c.v}
  IN Does(b, IF found = {} THEN <<-1>> ELSE <<Max(found)>>)

(* The search in a blob goes on for as many bytes as the whole has. *)
BlobFind(b, c) ==
  LET i == IF Given(c.i) THEN c.i[1] ELSE 0
      p == Start(b, i)
      found == StrSearch(Read(b.data, p, b.size), c.v)
  IN Does(b, IF p = -1 \/ found = -1 THEN <<-1>> ELSE <<found + (IF i < 0 THEN 0 ELSE i)>>)
BlobFindLast(b, c) ==
  LET i == IF Given(c.i) THEN c.i[1] ELSE 0
      found == StrSearchR(Read(b.data, 0, IF i < 0 THEN b.size + i ELSE b.size - i), c.v)
  IN Does(b, IF found = -1 THEN <<-1>> ELSE <<found + (IF i < 0 THEN 0 ELSE i)>>)

ArrayRepeat(b, c) ==
  IF c.j[1] < 0 THEN Fails(b) ELSE Does(b, FlattenSeq([k \in 1..c.j[1] |-> Items(b)]))
BlobRepeat(b, c) ==
  IF c.j[1] < 0 THEN Fails(b) ELSE Does(b, FlattenSeq([k \in 1..c.j[1] |-> Items(b)]))
ArrayReverse(b, c) == Does([b EXCEPT !.data = Written(@, 0, Reverse(Items(b)))], None)
BlobReverse(b, c) == Does([b EXCEPT !.data = Written(@, 0, Reverse(Items(b)))], None)
ArrayCopy(b, c) == Does(b, Items(b))
BlobCopy(b, c) == Does(b, Items(b))
ArrayLength(b, c) == Does(b, <<b.size>>)
BlobLength(b, c) == Does(b, <<b.size>>)

(* unc0_iter_array, unc0_iter_blob *)
IterNext(b, c) == IF at < b.size THEN AGetIndx(b, [i |-> <<at>>]) ELSE Does(b, None)

ArrayCall(b, c) ==
  CASE c.op = "get" -> AGetIndx(b, c) [] c.op = "set" -> ASetIndx(b, c)
    [] c.op = "push" -> ArrayPush(b, c) [] c.op = "pushall" -> ArrayExtend(b, c)
    [] c.op = "pop" -> ArrayPop(b, c) [] c.op = "insert" -> ArrayInsert(b, c)
    [] c.op = "remove" -> ArrayRemove(b, c) [] c.op = "clear" -> ArrayClear(b, c)
    [] c.op = "reverse" -> ArrayReverse(b, c) [] c.op = "copy" -> ArrayCopy(b, c)
    [] c.op = "length" -> ArrayLength(b, c) [] c.op = "repeat" -> ArrayRepeat(b, c)
    [] c.op = "sub" -> ArraySub(b, c) [] c.op = "find" -> ArrayFind(b, c)
    [] c.op = "findlast" -> ArrayFindLast(b, c) [] c.op = "next" -> IterNext(b, c)

BlobCall(b, c) ==
  CASE c.op = "get" -> BlGetByte(b, c) [] c.op = "set" -> BlSetByte(b, c)
    [] c.op = "push" -> BlobPush(b, c) [] c.op = "pushall" -> BlobPushAll(b, c)
    [] c.op = "insert" -> BlobInsert(b, c) [] c.op = "insertall" -> BlobInsertAll(b, c)
    [] c.op = "remove" -> BlobRemove(b, c) [] c.op = "reverse" -> BlobReverse(b, c)
    [] c.op = "copy" -> BlobCopy(b, c) [] c.op = "length" -> BlobLength(b, c)
    [] c.op = "repeat" -> BlobRepeat(b, c) [] c.op = "sub" -> BlobSub(b, c)
    [] c.op = "fill" -> BlobFill(b, c) [] c.op = "resize" -> BlobSetSize(b, c)
    [] c.op = "find" -> BlobFind(b, c) [] c.op = "findlast" -> BlobFindLast(b, c)
    [] c.op = "next" -> IterNext(b, c)

-----------------------------------------------------------------------------
NoCall == [op |-> "none"]

Empty(kind) ==
  [kind |-> kind, data |-> <<>>, size |-> 0,
   refs |-> [x \in Counted \cup {Junk} |-> 0], locks |-> 0]

Init ==
  /\ box \in {Empty(kind) : kind \in Kinds}
  /\ call = NoCall /\ result = None /\ at = 0

OnArray(c) == box.kind = "array" /\ box' = ArrayCall(box, c).box /\ result' = ArrayCall(box, c).result
OnBlob(c) == box.kind = "blob" /\ box' = BlobCall(box, c).box /\ result' = BlobCall(box, c).result

CallOn ==
  /\ call = NoCall
  /\ box.locks <= 0
  /\ \E c \in Calls(box) :
       /\ OnArray(c) \/ OnBlob(c)
       /\ box'.size <= MaxSize
       /\ call' = c
       /\ at' = IF c.op = "next" /\ at < box.size THEN at + 1 ELSE at

(* The caller takes the result. *)
Taken == call # NoCall /\ call' = NoCall /\ result' = None /\ UNCHANGED <<box, at>>

Next == CallOn \/ Taken

Spec == Init /\ [][Next]_vars

-----------------------------------------------------------------------------
List == INSTANCE Lists WITH
          list <- Items(box), refs <- box.refs, locks <- box.locks,
          Counted <- Counted \cup {Junk}

(* Arrays and blobs behave as the lists their documentation describes, over  *)
(* every sequence of calls: growing, shrinking and moving memory never loses *)
(* or changes an item, every item is held once, nothing else is, and a call  *)
(* that fails leaves no trace.                                               *)
ImplementsLists == List!Spec
=============================================================================
