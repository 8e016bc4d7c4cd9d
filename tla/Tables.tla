------------------------------- MODULE Tables -------------------------------
(***************************************************************************)
(* Tables and objects: hash tables with chains that double and halve       *)
(* (uhash.c), the generation that tells iterators of a change (uobj.c),    *)
(* iterators, table.prune and table.copy (ulib.c).  Every access is one    *)
(* step, as the code holds the lock of the container throughout; what runs *)
(* without the lock, an iterator and table.prune, is many.                 *)
(*                                                                         *)
(* The generation is kept as what its readers make of it: whether it is    *)
(* still what it was when they read it ("fresh").  It wraps after 2^63     *)
(* changes, which no iteration outlasts.                                   *)
(***************************************************************************)
EXTENDS Integers, FiniteSets, SequencesExt

CONSTANTS Dicts,     \* tables
          Objects,   \* objects
          Keys,      \* keys as they are written: 1 and 1.0 are two
          Values,
          HashOf,    \* the hash of a key
          EqualTo,   \* a key for each class of equal keys
          SizeMod,   \* sizes are unsigned and wrap at this power of two
          Uses,      \* which keys programs use with each container, and values
          Features   \* "prune": table.prune with a function that says yes

Containers == Dicts \cup Objects

ASSUME ContainersAssumption == Dicts \cap Objects = {} /\ "nothing" \notin Dicts
ASSUME SizeAssumption ==
  IsFiniteSet(Keys) /\ SizeMod \in Nat /\ SizeMod > 4 * Cardinality(Keys)
ASSUME HashAssumption ==
  /\ HashOf \in [Keys -> Nat] /\ EqualTo \in [Keys -> Keys]
  /\ \A k \in Keys : EqualTo[EqualTo[k]] = EqualTo[k]
ASSUME UsesAssumption == Uses \subseteq [keys : [Containers -> SUBSET Keys],
                                        values : SUBSET Values]

VARIABLES table,   \* of each container: entries, capacity and buckets
          frozen,  \* objects that are frozen
          iter,    \* an iterator over a table
          prune,   \* a table.prune whose function is running
          use      \* the keys and values this program uses

vars == <<table, frozen, iter, prune, use>>

None == [on |-> "nothing"]

-----------------------------------------------------------------------------
(* Hash tables.  A bucket is a chain of nodes; the last key of a chain was   *)
(* inserted last, as an insertion appends where the lookup has ended.        *)

Blank == [entries |-> 0, capacity |-> 0, buckets |-> << >>]

Node(k, v) == [key |-> k, val |-> v]

Equal(k, j) == EqualTo[k] = EqualTo[j]

(* The place of a key in its chain, 0 if it is not there. *)
Lookup(h, k) ==
  IF h.capacity = 0 THEN 0
  ELSE SelectInSeq(h.buckets[HashOf[k] % h.capacity],
                   LAMBDA node : Equal(node.key, k))

Has(h, k) == Lookup(h, k) # 0

Get(h, k) == h.buckets[HashOf[k] % h.capacity][Lookup(h, k)].val

(* The nodes of a chain whose keys are in K, in the order of the chain. *)
Those(chain, K) ==
  LET those[i \in 0..Len(chain)] ==
        IF i = 0 THEN << >>
        ELSE IF chain[i].key \in K THEN Append(those[i - 1], chain[i])
        ELSE those[i - 1]
  IN those[Len(chain)]

(* Twice as many buckets: what was in bucket q goes to q or to q + z. *)
Grow(h) ==
  LET z  == h.capacity
      nz == IF z = 0 THEN 4 ELSE 2 * z
      high == {k \in Keys : HashOf[k] % nz >= z}
  IN [h EXCEPT !.capacity = nz,
               !.buckets = [b \in 0..(nz - 1) |->
                 IF z = 0 THEN << >>
                 ELSE IF b < z THEN Those(@[b], Keys \ high)
                 ELSE Those(@[b - z], high)]]

(* Mutant: the table grows one entry too late, and nothing is moved. *)
InsertUnmoved(h, k, v) ==
  LET g == IF h.capacity = 0 THEN Grow(h)
           ELSE IF h.entries # h.capacity THEN h
           ELSE [Grow(h) EXCEPT !.buckets = [b \in DOMAIN @ |->
                   IF b < h.capacity THEN h.buckets[b] ELSE << >>]]
      b == HashOf[k] % g.capacity
  IN [g EXCEPT !.buckets[b] = Append(@, Node(k, v)), !.entries = @ + 1]

(* A new node, for a key that is not there. *)
Insert(h, k, v) ==
  LET g == IF h.capacity = 0 \/ h.entries = h.capacity THEN Grow(h) ELSE h
      b == HashOf[k] % g.capacity
  IN [g EXCEPT !.buckets[b] = Append(@, Node(k, v)),
               !.entries = (@ + 1) % SizeMod]

(* A key that is there keeps its node, and the node its key. *)
Put(h, k, v) ==
  IF Has(h, k)
  THEN [h EXCEPT !.buckets[HashOf[k] % h.capacity][Lookup(h, k)].val = v]
  ELSE Insert(h, k, v)

(* Mutant: the upper half of the buckets is forgotten. *)
ShrinkCut(h) ==
  LET c == h.capacity \div 2
  IN [h EXCEPT !.capacity = c, !.buckets = [b \in 0..(c - 1) |-> @[b]]]

(* Half as many buckets.  One bucket becomes none. *)
Shrink(h) ==
  LET c == h.capacity \div 2
  IN [h EXCEPT !.capacity = c,
               !.buckets = [b \in 0..(c - 1) |-> @[b] \o @[b + c]]]

Unlink(h, k) ==
  IF ~ Has(h, k) THEN h
  ELSE LET b == HashOf[k] % h.capacity
           r == [h EXCEPT !.buckets[b] = RemoveAt(@, Lookup(h, k)),
                          !.entries = (@ - 1) % SizeMod]
       IN IF (r.entries * 4) % SizeMod < r.capacity THEN Shrink(r) ELSE r

(* Compaction counts an entry less each time it looks. *)
Compact(h) ==
  LET shrunk[n \in 0..SizeMod] ==
        LET g == IF n = 0 THEN h ELSE Shrink(shrunk[n - 1])
        IN [g EXCEPT !.entries = (@ - 1) % SizeMod]
      n == CHOOSE n \in 0..SizeMod :
             LET enough(i) == (shrunk[i].entries * 2) % SizeMod >= shrunk[i].capacity
             IN enough(n) /\ \A i \in 0..(n - 1) : ~ enough(i)
  IN shrunk[n]

(* The chains as one: what an iterator goes through. *)
NodeAt(h, at) == h.buckets[at[1]][at[2]]

(* The first node of a bucket behind bucket b, <<capacity, 0>> if none is. *)
NextBucket(h, b) ==
  LET full == {i \in DOMAIN h.buckets : i > b /\ h.buckets[i] # << >>}
  IN IF full = {} THEN <<h.capacity, 0>> ELSE <<Min(full), 1>>

-----------------------------------------------------------------------------
(* Steps of a program.  While the function of table.prune runs, it may do    *)
(* whatever a program does.                                                  *)

(* Of what has read the generation of c nothing is left but the error to come. *)
StaleIterator(c) ==
  IF iter.on # c THEN iter
  ELSE IF iter.ended THEN None ELSE [on |-> c, ended |-> FALSE, fresh |-> FALSE]

(* Mutant: the generation stays as it is. *)
SameGen(c) == UNCHANGED <<iter, prune>>

(* The generation of a table changes: those who have read the old one see it. *)
NextGen(c) ==
  /\ iter' = StaleIterator(c)
  /\ prune' = IF prune.on = c THEN [on |-> c, fresh |-> FALSE] ELSE prune

Changed(c, h) == table' = [table EXCEPT ![c] = h]

SetIndex(c, k, v) ==
  LET h == Put(table[c], k, v)
  IN /\ c \in Dicts
     /\ Changed(c, h)
     /\ IF h.entries # table[c].entries THEN NextGen(c)
                                        ELSE UNCHANGED <<iter, prune>>
     /\ UNCHANGED <<frozen, use>>

(* Also when the key is not there. *)
DeleteIndex(c, k) ==
  LET h == Unlink(table[c], k)
  IN /\ c \in Dicts
     /\ Changed(c, h)
     /\ NextGen(c)
     /\ UNCHANGED <<frozen, use>>

(* Mutant: a frozen object can be written. *)
SetAttrAnyway(c, k, v) ==
  /\ c \in Objects
  /\ Changed(c, Put(table[c], k, v))
  /\ UNCHANGED <<frozen, iter, prune, use>>

(* A frozen object takes nothing, and says nothing. *)
SetAttr(c, k, v) ==
  /\ c \in Objects
  /\ Changed(c, IF c \in frozen THEN table[c] ELSE Put(table[c], k, v))
  /\ UNCHANGED <<frozen, iter, prune, use>>

DeleteAttr(c, k) ==
  /\ c \in Objects
  /\ Changed(c, IF c \in frozen THEN table[c] ELSE Unlink(table[c], k))
  /\ UNCHANGED <<frozen, iter, prune, use>>

Freeze(c) ==
  /\ c \in Objects
  /\ frozen' = frozen \cup {c}
  /\ UNCHANGED <<table, iter, prune, use>>

(* The nodes of a table in the order of its buckets. *)
Nodes(h) ==
  LET below[b \in 0..h.capacity] ==
        IF b = 0 THEN << >> ELSE below[b - 1] \o h.buckets[b - 1]
  IN below[h.capacity]

(* They are put into an empty table one after another. *)
CopyOf(h) ==
  LET nodes == Nodes(h)
      copied[i \in 0..Len(nodes)] ==
        IF i = 0 THEN Blank ELSE Put(copied[i - 1], nodes[i].key, nodes[i].val)
  IN copied[Len(nodes)]

(* A copy is a new table, here in place of one that nothing refers to. *)
CopyTable(c, d) ==
  /\ {c, d} \subseteq Dicts /\ c # d /\ use.keys[c] \subseteq use.keys[d]
  /\ iter.on # d /\ prune.on # d
  /\ Changed(d, CopyOf(table[c]))
  /\ UNCHANGED <<frozen, iter, prune, use>>

-----------------------------------------------------------------------------
(* Iterators: vgetiter makes one, each call gives a key and its value and    *)
(* remembers the next node, not the one it has given.                        *)

NewIterator(c) ==
  /\ c \in Dicts
  /\ iter' = [on |-> c, bucket |-> -1, next |-> 0, fresh |-> TRUE,
              given |-> << >>, ended |-> FALSE]
  /\ UNCHANGED <<table, frozen, prune, use>>

(* A table that has been changed is an error, after which the iterator has   *)
(* no table any more; at the end it has none either.                         *)
Iterate ==
  /\ iter # None /\ ~ iter.ended
  /\ IF ~ iter.fresh
     THEN iter' = None
     ELSE LET h  == table[iter.on]
              at == IF iter.next > 0 THEN <<iter.bucket, iter.next>>
                                     ELSE NextBucket(h, iter.bucket)
          IN IF at[2] = 0
             THEN iter' = [iter EXCEPT !.ended = TRUE]
             ELSE iter' = [iter EXCEPT !.bucket = at[1],
                     !.next = IF at[2] < Len(h.buckets[at[1]]) THEN at[2] + 1 ELSE 0,
                     !.given = Append(@, NodeAt(h, at).key)]
  /\ UNCHANGED <<table, frozen, prune, use>>

-----------------------------------------------------------------------------
(* table.prune: the function is called with each key and its value; then     *)
(* the node is unlinked or passed.  The number of entries is left as it is,  *)
(* and compaction follows if any node was removed.                           *)

Pruning(c, at, pruned) == [on |-> c, at |-> at, pruned |-> pruned, fresh |-> TRUE]

Prune(c) ==
  /\ c \in Dicts /\ prune = None
  /\ LET at == NextBucket(table[c], -1)
     IN prune' = IF at[2] = 0 THEN None ELSE Pruning(c, at, FALSE)
  /\ UNCHANGED <<table, frozen, iter, use>>

(* The function has returned.  prune itself changes the generation, and      *)
(* reads it again.                                                           *)
PruneAnswer(yes) ==
  /\ prune # None
  /\ yes => "prune" \in Features
  /\ IF ~ prune.fresh
     THEN prune' = None /\ UNCHANGED <<table, iter>>
     ELSE LET c == prune.on
              b == prune.at[1]
              i == prune.at[2]
              h == IF yes THEN [table[c] EXCEPT !.buckets[b] = RemoveAt(@, i)]
                          ELSE table[c]
              j == IF yes THEN i ELSE i + 1
              next == IF j <= Len(h.buckets[b]) THEN <<b, j>> ELSE NextBucket(h, b)
              pruned == prune.pruned \/ yes
          IN /\ prune' = IF next[2] = 0 THEN None ELSE Pruning(c, next, pruned)
             /\ Changed(c, IF next[2] = 0 /\ pruned THEN Compact(h) ELSE h)
             /\ iter' = IF yes THEN StaleIterator(c) ELSE iter
  /\ UNCHANGED <<frozen, use>>

-----------------------------------------------------------------------------
Init ==
  /\ table = [c \in Containers |-> Blank]
  /\ frozen = {}
  /\ iter = None
  /\ prune = None
  /\ use \in Uses

Next ==
  \/ \E c \in Containers : \E k \in use.keys[c] :
       \/ \E v \in use.values : SetIndex(c, k, v)
       \/ \E v \in use.values : SetAttr(c, k, v)
       \/ DeleteIndex(c, k)
       \/ DeleteAttr(c, k)
  \/ \E c \in Containers : Freeze(c)
  \/ \E c, d \in Containers : CopyTable(c, d)
  \/ \E c \in Containers : NewIterator(c)
  \/ Iterate
  \/ \E c \in Containers : Prune(c)
  \/ \E yes \in BOOLEAN : PruneAnswer(yes)

Spec == Init /\ [][Next]_vars

-----------------------------------------------------------------------------
(* No divisor of a power of two is odd, but 1. *)
PowerOfTwo(n) == \A d \in 1..n : n % d = 0 => d = 1 \/ d % 2 = 0

(* Every entry is in the bucket of its hash, no key is there twice, and the  *)
(* capacity is a power of two: whatever has grown, shrunk and been removed,  *)
(* a lookup finds what was put (uhash.c: each of insert, shrink and delete   *)
(* relinks chains by hand).                                                  *)
Placed ==
  \A c \in Containers :
    LET h == table[c]
    IN /\ PowerOfTwo(h.capacity)
       /\ DOMAIN h.buckets = 0..(h.capacity - 1)
       /\ \A b \in DOMAIN h.buckets : \A i \in DOMAIN h.buckets[b] :
            /\ HashOf[h.buckets[b][i].key] % h.capacity = b
            /\ Lookup(h, h.buckets[b][i].key) = i

(* The length of a table is the number of its keys, however they have come   *)
(* and gone (docs/Table.md:15-18).                                           *)
LengthCounts ==
  \A c \in Containers : table[c].entries = Len(Nodes(table[c]))

(* A loop over a table that ends without an error, the table not having      *)
(* changed since, has given every key exactly once: the generation changes   *)
(* whenever nodes move (ulib.c:2264 follows pointers it has kept).           *)
IterationComplete ==
  iter # None /\ iter.ended /\ iter.fresh =>
    /\ ToSet(iter.given) = {node.key : node \in ToSet(Nodes(table[iter.on]))}
    /\ IsInjective(iter.given)

(* Containers are maps (Dictionaries): looking up each key in turn, a set or *)
(* a delete changes that key alone, and everything else nothing.             *)
MapOf(h) == [k \in {EqualTo[j] : j \in {i \in Keys : Has(h, i)}} |-> Get(h, k)]

Dictionary == INSTANCE Dictionaries
                WITH map <- [c \in Containers |-> MapOf(table[c])], Keys <- {EqualTo[k] : k \in Keys}

ImplementsDictionaries == Dictionary!Spec
=============================================================================
