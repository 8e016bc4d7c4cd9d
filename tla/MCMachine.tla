----------------------------- MODULE MCMachine -----------------------------
(***************************************************************************)
(* Programs for Machine: one operator applied to atoms, two operators of   *)
(* which one is the operand of the other, and statements of other kinds.   *)
(***************************************************************************)
EXTENDS Machine

CONSTANT Shapes   \* which of the compiler's errors the programs meet

ASSUME MCAssumption == Shapes \subseteq {"join", "folded", "negated", "nested", "compound"}

Function(f) == <<"function", f>>
MCPubs == [p |-> Integer(2), q |-> Integer(3), b |-> Boolean(FALSE), x |-> Null,
           f |-> Function("count"), g |-> Function("both"), h |-> Function("fail"),
           n |-> Function("none"), t |-> Function("twice")]
Public(z) == <<"public", z>>
MCBook == [p |-> Public("p"), q |-> Public("q"), b |-> Public("b"), x |-> Public("x"),
           f |-> Public("f"), g |-> Public("g"), h |-> Public("h"), n |-> Public("n"),
           t |-> Public("t"), y |-> <<"local", 1>>]
MCLocals == <<"local", 1>> :> Integer(5)

Name(z) == <<"name", z>>
Num(n) == <<"value", Integer(n)>>
CallOf(f, ts) == <<"call", f, ts>>

Atoms == {Name("p"), Name("b"), Num(1), CallOf("f", <<Name("q")>>), CallOf("g", <<>>),
          CallOf("n", <<>>)}
Few == {Name("p"), Num(1), CallOf("f", <<Name("q")>>)}

(* The trees of one operator. *)
Small(A) ==
  UNION {
    {<<"unary", op, a>> : op \in {"negate", "lnot"}, a \in A},
    {<<"binary", op, a, b>> : op \in {"add", "shl"}, a \in A, b \in A},
    {<<"logic", op, a, b>> : op \in {"and", "or"}, a \in A \cup {Name("b")}, b \in A},
    {<<"compare", <<op>>, <<a, b>>>> : op \in {"ceq", "cge", "cgt"}, a \in A, b \in A},
    {<<"compare", <<"cgt", "cle">>, <<a, b, c>>>> : a \in A, b \in A, c \in A},
    {<<"if", a, b, c>> : a \in {Name("p"), Name("b")}, b \in A, c \in A},
    {<<"list", <<a, <<"spread", <<"list", <<b, a>>>>>>>>>> : a \in A, b \in A},
    {<<"index", <<"list", <<Name("p"), a>>>>, b>> : a \in A, b \in A},
    {CallOf(f, <<a, b>>) : f \in {"f", "h", "t"}, a \in A, b \in A}}

(* The trees of another over S and T. *)
Large(S, T) ==
  UNION {
    {<<"binary", op, a, b>> : op \in {"sub", "mul"}, a \in S, b \in T},
    {<<"logic", op, a, b>> : op \in {"and", "or"}, a \in S, b \in T},
    {<<"compare", <<op>>, <<a, b>>>> : op \in {"cle", "ceq"}, a \in S, b \in T},
    {<<"compare", <<"cgt", "cle">>, <<a, b, Name("p")>>>> : a \in S, b \in T},
    {<<"if", Name("b"), a, b>> : a \in S, b \in T},
    {CallOf("f", <<a, b>>) : a \in S, b \in T}}

Trees ==
  UNION {
    Small(Atoms), Large(Small(Few), Few), Large(Few, Small(Few)),
    {<<"unary", op, a>> : op \in {"negate", "lnot"}, a \in Small(Few)}}

-----------------------------------------------------------------------------
(* What is wrong with the code of some trees *)

Parts(t) ==
  CASE t[1] \in {"value", "name"}      -> <<>>
    [] t[1] \in {"call", "compare"}    -> t[3]
    [] t[1] = "list"                   -> t[2]
    [] t[1] \in {"binary", "logic"}    -> <<t[3], t[4]>>
    [] t[1] = "unary"                  -> <<t[3]>>
    [] t[1] \in {"spread", "index", "if"} -> Tail(t)

RECURSIVE Constant(_), Has(_, _)
Has(t, kinds) == t[1] \in kinds \/ \E i \in DOMAIN Parts(t) : Has(Parts(t)[i], kinds)

Constant(t) ==
  \/ t[1] = "value"
  \/ t[1] \in {"unary", "binary"} /\ \A i \in DOMAIN Parts(t) : Constant(Parts(t)[i])

Negates(t) ==
  \/ t[1] = "unary" /\ t[2] = "lnot"
  \/ t[1] = "compare" /\ Len(t[2]) = 1 /\ t[2][1] \in {"cge", "cle", "cne"}

(* "folded": "not" of a constant, and a comparison of a folded constant;     *)
(* "negated": the first operand of "and" or "or" ends in a negation that is  *)
(* merged into the jump; "nested": a comparison keeps a public variable in   *)
(* register 0 while its right operand uses that register.                    *)
Meets(t) ==
  {s \in {"folded", "negated", "nested"} :
     CASE s = "folded"  -> \/ t[1] = "unary" /\ t[2] = "lnot" /\ Constant(t[3])
                           \/ t[1] = "compare" /\ t[3][1][1] # "value" /\ Constant(t[3][1])
       [] s = "negated" -> t[1] = "logic" /\ Negates(t[3])
       [] s = "nested"  -> t[1] = "compare" /\ t[3][1][1] = "name"
                           /\ \E i \in 2..Len(t[3]) : Has(t[3][i], {"compare"})}

RECURSIVE Met(_)
Met(t) == Meets(t) \cup UNION {Met(Parts(t)[i]) : i \in DOMAIN Parts(t)}

(* "join": the optimiser sees a register that is written on two paths.       *)
Joins == {"logic", "if"}

-----------------------------------------------------------------------------
(* Statements *)

Statement(names, rest, op, values) == [names |-> names, rest |-> rest, op |-> op, values |-> values]

Values == {Name("p"), Num(1), Name("y"), CallOf("g", <<>>), CallOf("n", <<>>),
           CallOf("f", <<Name("q")>>), <<"spread", <<"list", <<Name("p"), Num(3)>>>>>>,
           <<"index", <<"list", <<Name("p")>>>>, Num(0)>>,
           <<"logic", "and", Name("p"), Name("q")>>, <<"binary", "sub", Name("p"), Name("y")>>}
SomeValues == {Name("p"), CallOf("g", <<>>), CallOf("n", <<>>)}
UpTo(n, V) == UNION {[1..m -> V] : m \in 1..n}

(* One target takes the value of the first expression, even if that has      *)
(* none, and has it when the next is evaluated, even if that fails.          *)
Failing == <<"index", <<"list", <<Name("p")>>>>, Name("q")>>
Singles ==
  {vs \in UpTo(2, Values \cup {Failing}) :
     Len(vs) = 2 => vs[1] # CallOf("n", <<>>) /\ vs[2] # Failing}

Statements ==
  UNION {
    {Statement(<<z>>, 0, op, vs) : z \in {"p", "y"}, op \in {"none", "add", "mul"}, vs \in Singles},
    {Statement(<<>>, 0, "none", vs) : vs \in UpTo(2, Values)},
    {Statement(zs, r, "none", vs) :
       zs \in {<<"p", "y">>, <<"y", "x">>}, r \in 0..2, vs \in UpTo(2, Values \cup {Failing})},
    {Statement(<<"x", "q", "y">>, r, "none", vs) : r \in 0..3, vs \in UpTo(3, SomeValues)},
    {Statement(<<"x">>, 1, "none", vs) : vs \in UpTo(2, SomeValues)},
    {Statement(<<"p", "y">>, 0, "sub", vs) : vs \in UpTo(2, Values)}}

Merged == {"logic", "if", "list"}

(* "compound": what is assigned by one operation ends in a move that is      *)
(* taken back, or a call follows that is emitted again.                      *)
Compound(s) ==
  /\ s.op # "none" /\ Len(s.names) = 1
  /\ \/ s.values[1][1] \in Merged
     \/ \E i \in 2..Len(s.values) : s.values[i][1] \in {"call", "spread"}

Tried == {t \in Trees : Met(t) \subseteq Shapes}

MCPrograms ==
  LET Optimised(t) == "join" \in Shapes \/ ~ Has(t, Joins)
      Assigning(t, o) == Statement(<<IF o THEN "y" ELSE "x">>, 0, "none", <<t>>)
  IN {Program(Assigning(j[1], j[2]), j[2]) :
        j \in {j \in Tried \X BOOLEAN : j[2] => Optimised(j[1])}}
     \cup
     {Program(j[1], j[2]) :
        j \in {j \in Statements \X BOOLEAN :
                 /\ j[2] => \A i \in DOMAIN j[1].values : Optimised(j[1].values[i])
                 /\ Compound(j[1]) => "compound" \in Shapes}}
=============================================================================
