-------------------------------- MODULE Store --------------------------------
(***************************************************************************)
(* What the memory of an Uncil world promises: values that are named by    *)
(* slots (registers, public variables, the values C functions hold) and by *)
(* the values they lead to.  A value that can be reached stays what it is; *)
(* an entity is given out only when no slot leads to it.  Reference        *)
(* counts and the collector are not to be seen.                            *)
(***************************************************************************)
EXTENDS FiniteSets, Naturals

CONSTANTS Ents,  (* the memory blocks that hold values *)
          Slots, (* what names them                    *)
          None   (* null                               *)

VARIABLES root, (* what each slot holds                                      *)
          link  (* what each value holds; anything where no slot leads       *)

(* What a set of entities leads to by links: the least set that has its      *)
(* entities and is closed under l.                                           *)
Closed(S, l) == \A e \in S : l[e] \in S \cup {None}
Reach(start, l) ==
  {e \in Ents : \A S \in SUBSET Ents :
                  start \cap Ents \subseteq S /\ Closed(S, l) => e \in S}

Reachable(r, l) == Reach({r[s] : s \in Slots}, l)

(* What the slots lead to by the links l holds, after the step, what l says. *)
Kept(r, l) == \A e \in Ents : link'[e] = l[e] \/ e \notin Reachable(r, l)

Init ==
  /\ root = [s \in Slots |-> None]
  /\ link \in [Ents -> Ents \cup {None}]

(* A slot takes a value another one holds, a value such a value holds, or    *)
(* null.                                                                     *)
Held == {root[s] : s \in Slots}
Known == Held \cup {link[e] : e \in Held \ {None}} \cup {None}

Take(t) ==
  /\ root' = [root EXCEPT ![t] = root'[t]]
  /\ root'[t] \in Known
  /\ Kept(root', link)

(* A slot takes a new value, which holds nothing yet.                        *)
Make(t) ==
  /\ root' = [root EXCEPT ![t] = root'[t]]
  /\ root'[t] \in Ents \ Reachable(root, link)
  /\ link'[root'[t]] = None
  /\ Kept([root EXCEPT ![t] = None], link)

Save ==
  /\ UNCHANGED root
  /\ \E e \in Held \ {None}, c \in Held : Kept(root, [link EXCEPT ![e] = c])

Move(s, t) ==
  /\ root' = [root EXCEPT ![t] = root[s], ![s] = None]
  /\ Kept(root', link)

Clear(s, t) ==
  /\ root' = [root EXCEPT ![t] = None, ![s] = None]
  /\ Kept(root', link)

(* Only what no slot leads to changes.                                       *)
Forget == UNCHANGED root /\ Kept(root, link)

Next == \/ Forget \/ Save
        \/ \E t \in Slots : \/ Take(t) \/ Make(t)
                            \/ \E s \in Slots : Move(s, t) \/ Clear(s, t)

Spec == Init /\ [][Next]_<<root, link>>
=============================================================================
