-------------------------------- MODULE MCVM --------------------------------
(***************************************************************************)
(* Programs for VM, made by the code generator: a statement, perhaps with  *)
(* others inside, and a return of two values or nothing after it.          *)
(***************************************************************************)
EXTENDS VM

CONSTANTS
  Nesting,   (* how many statements lie in each other                       *)
  Shapes     (* what of the code generator's errors the programs meet       *)

ASSUME MCAssumption ==
  /\ Nesting \in Nat
  /\ Shapes \subseteq {"escape", "values", "ending"}

C == INSTANCE Codegen

Return(vals) == [s |-> "return", vals |-> vals]
Plain == {[s |-> "call", f |-> f] : f \in {"fx", "ff"}}
           \cup {Return(v) : v \in {<<>>, <<"v">>}}
Lists == {<<"v", "v">>, <<"f">>, <<"ff">>}

(* "values": several values returned, or a call, inside a try; or a call     *)
(* returned behind other values.                                             *)
Values(intry) ==
  (IF intry /\ "values" \notin Shapes THEN {} ELSE {Return(v) : v \in Lists})
    \cup IF "values" \in Shapes THEN {Return(<<"v", "f">>)} ELSE {}

(* "escape": a try is left by break or continue, or a loop over several      *)
(* variables by break.                                                       *)
Leaves(loop, intry) ==
  IF loop = "none" \/ (intry /\ "escape" \notin Shapes) THEN {}
  ELSE {[s |-> "continue"]} \cup
       IF loop = "many" /\ "escape" \notin Shapes THEN {} ELSE {[s |-> "break"]}

(* "ending": the end of a loop over an iterable is reached by INEXT only, as  *)
(* the body does not fall through, or jumps straight back where it does; or   *)
(* a function ends in a return that is in a catch.                            *)
RECURSIVE Falls(_), Catches(_)
Falls(b) == b = <<>> \/
  CASE b[1].s = "return"                           -> FALSE
    [] b[1].s = "try"                              -> Falls(b[1].catch)
    [] b[1].s = "if" /\ b[1].else # <<>>           -> Falls(b[1].else)
    [] b[1].s \in {"call", "break", "continue", "count"} -> TRUE
    [] OTHER                                       -> Falls(b[1].body)
Catches(b) == b # <<>> /\ b[1].s = "try" /\ b[1].catch # <<>>
              /\ (b[1].catch[1].s = "return" \/ Catches(b[1].catch))

(* Blocks of at most one statement, within a loop of a kind, and a try.      *)
RECURSIVE Blocks(_, _, _)
Blocks(depth, loop, intry) ==
  LET one(ss) == {<<s>> : s \in ss}
      inner(l, t) == Blocks(depth - 1, l, t)
      again(b) == "ending" \in Shapes \/ Falls(b)
  IN {<<>>} \cup one(Plain \cup Values(intry) \cup Leaves(loop, intry))
     \cup IF depth = 0 THEN {} ELSE one(
       {[s |-> "if", body |-> b, else |-> no] :
          b \in inner(loop, intry), no \in {<<>>, <<Return(<<>>)>>}}
       \cup {[s |-> "try", body |-> b, catch |-> <<>>] : b \in inner(loop, TRUE)}
       \cup {[s |-> "try", body |-> <<[s |-> "call", f |-> "fx"]>>, catch |-> b] :
               b \in inner(loop, intry)}
       \cup UNION {{[s |-> l, body |-> b] : b \in inner(l, intry)} : l \in {"while", "count"}}
       \cup UNION {{[s |-> l, body |-> b] : b \in {b \in inner(l, intry) : again(b)}} :
                     l \in {"each", "many"}}
       \cup {[s |-> "with", vals |-> v, body |-> b] :
               v \in {<<"v">>, <<"v", "f">>}, b \in inner(loop, intry)})

Bodies ==
  LET followed == {b \o <<Return(v)>> : b \in Blocks(Nesting, "none", FALSE),
                                         v \in {<<"v", "v">>, <<"f">>}}
      alone == {b \in Blocks(Nesting, "none", FALSE) :
                  "ending" \in Shapes \/ ~ Catches(b)}
  IN  followed \cup alone
Compiled == {C!Compile(b) : b \in Bodies}
=============================================================================
