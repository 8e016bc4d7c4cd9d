------------------------------ MODULE Symbols ------------------------------
(***************************************************************************)
(* Names in the parser: a set of strings gives each identifier a number    *)
(* (Unc_HSet of uhash.c), a B+ tree maps the number to what it stands for  *)
(* in a function (ubtree.c).                                               *)
(*                                                                         *)
(* A tree has its nodes in the order they were made.  A record lives in a  *)
(* slot of a leaf; "rec" is the memory of all slots.  A leaf refers to     *)
(* slots, an inner node to nodes; 0 stands for no node, << >> for no record. *)
(***************************************************************************)
EXTENDS Integers, SequencesExt

CONSTANT K   \* UNC_BTREE_K

NewNode(parent, leaf) ==
  [leaf |-> leaf, keys |-> << >>, child |-> [j \in 0..(K - 1) |-> 0], parent |-> parent]

Empty == [nodes |-> << >>, root |-> 0, begin |-> 0, rec |-> << >>]

Numkeys(t, n) == Len(t.nodes[n].keys)

(* Where a key is among the keys of a node, or is to be. *)
Position(ks, key) == Len(SelectSeq(ks, LAMBDA k : k < key))

(* Mutant: the keys make room, the children do not. *)
OpenedKeys(node, i, key, nk) == [node EXCEPT !.keys = InsertAt(@, i + 1, key)]

(* Room is made in the keys and children of a node. *)
Opened(node, i, key, nk) ==
  [node EXCEPT !.keys = InsertAt(@, i + 1, key),
               !.child = [j \in 0..(K - 1) |-> IF j > i /\ j <= nk THEN @[j - 1] ELSE @[j]]]

RECURSIVE InsertLeaf(_, _, _, _), InsertNonleaf(_, _, _, _)

(* The upper keys of node n1 go to a new node, which takes its place in the  *)
(* parent; n1 is then inserted before it.  Of a leaf the records are copied  *)
(* to the first slots of the new node, and the key is put into one of both;  *)
(* of an inner node neither the key nor the child it was split for is put    *)
(* anywhere, and the children that move keep their parent.                   *)
Cleave(t, n1, key, val) ==
  LET node   == t.nodes[n1]
      to2    == key > node.keys[(K - 1) \div 2 + 1]
      b      == (K - 1) \div 2 + IF to2 THEN 1 ELSE 0
      n2     == Len(t.nodes) + 1
      isroot == node.parent = 0
      up     == IF isroot THEN n2 + 1 ELSE node.parent
      moved  == K - 1 - b
      half   == [NewNode(up, node.leaf) EXCEPT
                   !.keys = SubSeq(node.keys, b + 1, K - 1),
                   !.child = [j \in 0..(K - 1) |->
                      CASE node.leaf /\ j < moved  -> <<n2, j>>
                        [] node.leaf /\ j = K - 1  -> node.child[K - 1]
                        [] ~ node.leaf /\ j <= moved -> node.child[b + j]
                        [] OTHER                   -> 0]]
      lower  == [node EXCEPT !.keys = SubSeq(@, 1, b), !.parent = up,
                   !.child[K - 1] = IF node.leaf THEN n2 ELSE @]
      others == [i \in 1..Len(t.nodes) |->
                   IF i = n1 THEN lower
                   ELSE IF i # up THEN t.nodes[i]
                   ELSE [t.nodes[i] EXCEPT !.child = [j \in 0..(K - 1) |->
                           IF j <= Numkeys(t, i) /\ @[j] = n1 THEN n2 ELSE @[j]]]]
      nodes  == Append(others, half) \o
                IF isroot THEN <<[NewNode(0, FALSE) EXCEPT !.child[0] = n2]>> ELSE << >>
      copies == [s \in {<<n2, j>> : j \in 0..(moved - 1)} |-> t.rec[node.child[b + s[2]]]]
      split  == [t EXCEPT !.nodes = nodes, !.root = IF isroot THEN up ELSE @,
                          !.rec = IF node.leaf THEN copies @@ @ ELSE @]
      filled == IF node.leaf THEN InsertLeaf(split, IF to2 THEN n2 ELSE n1, key, val)
                             ELSE split
  IN InsertNonleaf(filled, up, Last(filled.nodes[n1].keys), n1)

InsertNonleaf(t, n, key, child) ==
  LET nk == Numkeys(t, n)
      i  == Position(t.nodes[n].keys, key)
  IN IF nk < K - 1
     THEN [t EXCEPT !.nodes[n] = [Opened(@, i, key, nk + 1) EXCEPT !.child[i] = child]]
     ELSE Cleave(t, n, key, 0)

(* The new record is in the slot numbered as there were keys. *)
InsertLeaf(t, n, key, val) ==
  LET nk == Numkeys(t, n)
      i  == Position(t.nodes[n].keys, key)
  IN IF nk < K - 1
     THEN [t EXCEPT !.nodes[n] = [Opened(@, i, key, nk) EXCEPT !.child[i] = <<n, nk>>],
                    !.rec = <<n, nk>> :> val @@ @]
     ELSE Cleave(t, n, key, val)

(* bplussearch *)
RECURSIVE LeafFor(_, _, _)
LeafFor(t, n, key) ==
  IF n = 0 \/ t.nodes[n].leaf THEN n
  ELSE LeafFor(t, t.nodes[n].child[Position(t.nodes[n].keys, key)], key)

(* The record of a key, as the slot it is in. *)
Search(t, key) ==
  LET n == LeafFor(t, t.root, key)
      k == Position(t.nodes[n].keys, key)
  IN IF n = 0 \/ k = Numkeys(t, n) \/ t.nodes[n].keys[k + 1] # key THEN << >>
     ELSE t.nodes[n].child[k]

Find(t, key) == LET r == Search(t, key) IN IF r = << >> THEN 0 ELSE t.rec[r]

(* What a caller of putbtree writes into the record if it is new. *)
PutNew(t, key, val) ==
  LET n == LeafFor(t, t.root, key) IN
  IF Search(t, key) # << >> THEN t
  ELSE IF n # 0 THEN InsertLeaf(t, n, key, val)
  ELSE InsertLeaf([t EXCEPT !.nodes = <<NewNode(0, TRUE)>>, !.root = 1, !.begin = 1],
                  1, key, val)

(* Records in the order of unc0_iterbtreerecords. *)
RECURSIVE Chain(_, _)
Chain(t, n) ==
  IF n = 0 THEN << >>
  ELSE [i \in 1..Numkeys(t, n) |-> <<t.nodes[n].keys[i], t.rec[t.nodes[n].child[i - 1]]>>]
       \o Chain(t, t.nodes[n].child[K - 1])

(* The nodes unc0_dropbtree frees. *)
RECURSIVE Dropped(_, _)
Dropped(t, n) ==
  IF n = 0 THEN << >>
  ELSE IF t.nodes[n].leaf THEN <<n>>
  ELSE FlattenSeq([j \in 1..(Numkeys(t, n) + 1) |-> Dropped(t, t.nodes[n].child[j - 1])])
       \o <<n>>

-----------------------------------------------------------------------------
(* Unc_HSet: as the V tables of Tables, with words for keys and numbers for  *)
(* values, which grows when it has more entries than buckets.                *)

NoWords == [entries |-> 0, capacity |-> 0, buckets |-> << >>]

Word(w, h, n) == [word |-> w, hash |-> h, index |-> n]

Interned(s, w, h) ==
  IF s.capacity = 0 THEN << >>
  ELSE SelectSeq(s.buckets[h % s.capacity], LAMBDA e : e.word = w)

Expand(s) ==
  LET z == s.capacity
  IN [s EXCEPT !.capacity = 2 * z,
        !.buckets = [b \in 0..(2 * z - 1) |->
           SelectSeq(@[b % z], LAMBDA e : e.hash % (2 * z) = b)]]

(* A word that is there gives its number, another gets the one submitted. *)
PutHset(s, w, h, submit) ==
  LET f == IF s.capacity = 0
           THEN [s EXCEPT !.capacity = 4, !.buckets = [b \in 0..3 |-> << >>]]
           ELSE s
      g == IF f.entries > f.capacity THEN Expand(f) ELSE f
  IN IF Interned(s, w, h) # << >> THEN s
     ELSE [g EXCEPT !.entries = @ + 1,
                    !.buckets[h % g.capacity] = Append(@, Word(w, h, submit))]

(* The lexer numbers a name, the parser looks its number up in the book of   *)
(* the function and gives it the next local if it is new.                    *)
NewBook == [words |-> NoWords, tree |-> Empty, used |-> 0]

UseName(b, name, h) ==
  LET words == PutHset(b.words, name, h, b.words.entries)
  IN [words |-> words, used |-> b.used + 1,
      tree |-> PutNew(b.tree, Interned(words, name, h)[1].index, b.used + 1)]
=============================================================================
