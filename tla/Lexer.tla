------------------------------- MODULE Lexer -------------------------------
(***************************************************************************)
(* From the bytes of a source to tokens (ulex.c), and from the texts the   *)
(* lexer leaves behind to the literals the parser sees (uparse.c).  Line   *)
(* numbers are left out, and so is running out of memory.                  *)
(*                                                                         *)
(* A token is <<"op", spelling>>, <<"word", spelling>> of a keyword,       *)
(* <<"name", number>>, <<"string", number>>, <<"number", value>> or        *)
(* <<"float", value>>.  What a part of the lexer gives is where it stands  *)
(* then, counted from 1, and the tokens found or the mistake.              *)
(***************************************************************************)
EXTENDS Utf8, Numbers

EndOfSource == -1
At(s, p) == IF p > Len(s) THEN EndOfSource ELSE s[p]

Newline == 10
Return == 13
Quote == 34
Backslash == 92
Point == 46

Digit(c) == c \in 48..57
DigitIn(c, base) ==
  CASE base = 2 -> c \in 48..49 [] base = 8 -> c \in 48..55
    [] base = 16 -> Digit(c) \/ c \in 65..70 \/ c \in 97..102 [] OTHER -> Digit(c)
ValueOf(c) == IF c >= 97 THEN c - 87 ELSE IF c >= 65 THEN c - 55 ELSE c - 48
Space(c) == c \in {0, 9, 11, 12, 32}
NamePart(c) == Digit(c) \/ c \in 65..90 \/ c \in 97..122 \/ c = 95

(* Where what satisfies the test ends. *)
EndOf(s, p, Test(_)) == Min({q \in p..(Len(s) + 1) : q > Len(s) \/ ~ Test(s[q])})
DigitsEnd(s, p, base) == EndOf(s, p, LAMBDA c : DigitIn(c, base))

Found(p, tokens) == [p |-> p, tokens |-> tokens, err |-> ""]
Mistake(p, what) == [p |-> p, tokens |-> <<>>, err |-> what]

(* and break catch continue delete do else end false for function if not null *)
(* or public return then true try while with                                  *)
Keywords ==
  {<<97, 110, 100>>, <<98, 114, 101, 97, 107>>, <<99, 97, 116, 99, 104>>,
   <<99, 111, 110, 116, 105, 110, 117, 101>>, <<100, 101, 108, 101, 116, 101>>, <<100, 111>>,
   <<101, 108, 115, 101>>, <<101, 110, 100>>, <<102, 97, 108, 115, 101>>, <<102, 111, 114>>,
   <<102, 117, 110, 99, 116, 105, 111, 110>>, <<105, 102>>, <<110, 111, 116>>,
   <<110, 117, 108, 108>>, <<111, 114>>, <<112, 117, 98, 108, 105, 99>>,
   <<114, 101, 116, 117, 114, 110>>, <<116, 104, 101, 110>>, <<116, 114, 117, 101>>,
   <<116, 114, 121>>, <<119, 104, 105, 108, 101>>, <<119, 105, 116, 104>>}
Else == <<101, 108, 115, 101>>
If == <<105, 102>>

-----------------------------------------------------------------------------
(* Numbers.  A float is [m, e] for m * 10^e, or Garbage times that.          *)

Garbage == -1
Times10(m, c) == IF m = Garbage THEN Garbage ELSE m * 10 + ValueOf(c)
Floating(m, e) == <<"float", [m |-> m, e |-> e]>>

(* The digits are gathered in an Unc_Int; when the next number is smaller,   *)
(* all of the rest goes into a float, which takes the integer's place.       *)
RECURSIVE ReadInt(_, _, _, _)
ReadInt(s, p, base, i) ==
  LET ni == Wrap(i * base + ValueOf(s[p]))
      q == DigitsEnd(s, p, base)
  IN IF ~ DigitIn(At(s, p), base) THEN [p |-> p, n |-> i, over |-> FALSE]
     ELSE IF ni >= i THEN ReadInt(s, p + 1, base, ni)
     ELSE [p |-> q, over |-> TRUE,
           n |-> FoldLeft(LAMBDA f, c : f * base + ValueOf(c), i, SubSeq(s, p, q - 1))]

(* The exponent is a long.  What is left of its digits when it overflows is  *)
(* not skipped.                                                              *)
RECURSIVE ReadExp(_, _, _, _)
ReadExp(s, p, negative, e) ==
  LET ne == Wrap(e * 10 + ValueOf(s[p]))
  IN IF ~ Digit(At(s, p)) THEN [p |-> p, e |-> IF negative THEN - e ELSE e]
     ELSE IF ne < e THEN [p |-> p, e |-> IF negative THEN MinInt ELSE MaxInt]
     ELSE ReadExp(s, p + 1, negative, ne)

(* add_exp *)
AddExp(a, b) == IF b < 0 /\ a + b < MinInt THEN MinInt ELSE a + b

(* The digits after the point, and the exponent. *)
Fraction(s, p, m0) ==
  LET q == DigitsEnd(s, p, 10)
      m == FoldLeft(Times10, m0, SubSeq(s, p, q - 1))
      signed == At(s, q + 1) \in {43, 45}
      first == IF signed THEN q + 2 ELSE q + 1
      exp == ReadExp(s, first, At(s, q + 1) = 45, 0)
  IN IF At(s, q) \notin {69, 101} THEN Found(q, <<Floating(m, p - q)>>)
     ELSE IF ~ Digit(At(s, first)) THEN Mistake(first, "syntax")
     ELSE Found(exp.p, <<Floating(m, AddExp(p - q, exp.e))>>)

(* A number that does not begin with a point.  Before a point or an exponent *)
(* the integer is made a float, also when it has been made one already.      *)
Number(s, p) ==
  LET prefixed == s[p] = 48 /\ At(s, p + 1) \in {98, 111, 120}
      base == IF ~ prefixed THEN 10
              ELSE CASE s[p + 1] = 98 -> 2 [] s[p + 1] = 111 -> 8 [] s[p + 1] = 120 -> 16
      i == ReadInt(s, IF prefixed THEN p + 2 ELSE p, base, 0)
      again == IF i.over THEN Garbage ELSE i.n
  IN CASE prefixed /\ ~ DigitIn(At(s, p + 2), base) -> Mistake(p + 2, "syntax")
       [] At(s, i.p) = Point -> IF base # 10 THEN Mistake(i.p + 1, "syntax")
                                ELSE Fraction(s, i.p + 1, again)
       [] At(s, i.p) \in {69, 101} -> Fraction(s, i.p, again)
       [] At(s, i.p) \notin {Point, 69, 101} ->
            IF i.over THEN Fraction(s, i.p, i.n) ELSE Found(i.p, <<<<"number", i.n>>>>)

-----------------------------------------------------------------------------
(* Strings: [p, text] after the closing quote, or a mistake                  *)

Text(p, bytes) == [p |-> p, text |-> bytes, err |-> ""]

(* The code point of n hexadecimal digits.  A zero is a byte like others. *)
Coded(s, p, n) ==
  LET bad == {q \in p..(p + n - 1) : ~ DigitIn(At(s, q), 16)}
      u == FoldLeft(LAMBDA v, c : IF v >= EndOfCodes THEN v ELSE v * 16 + ValueOf(c),
                    0, SubSeq(s, p, p + n - 1))
  IN IF bad # {} THEN Mistake(Min(bad), "escape")
     ELSE IF u >= EndOfCodes THEN Mistake(p + n, "escape")
     ELSE Text(p + n, Utf8Enc(u))

(* What follows a backslash.  A zero byte would end the text, and is written *)
(* in two bytes until the parser has read it.                                *)
Escape(s, p) ==
  LET c == At(s, p)
      Short == (48 :> <<192, 128>>) @@ (98 :> <<8>>) @@ (102 :> <<12>>) @@ (110 :> <<10>>)
               @@ (114 :> <<13>>) @@ (116 :> <<9>>)
  IN CASE c = EndOfSource -> Mistake(p, "unterminated")
       [] c \in {Newline, Backslash, Quote} -> Text(p + 1, <<c>>)
       [] c \in DOMAIN Short -> Text(p + 1, Short[c])
       [] c = 120 -> Coded(s, p + 1, 2)
       [] c = 117 -> Coded(s, p + 1, 4)
       [] c = 85 -> Coded(s, p + 1, 8)
       [] c = Return -> IF At(s, p + 1) = Newline THEN Text(p + 2, <<Newline>>)
                        ELSE Mistake(p + 1, "escape")
       [] OTHER -> Mistake(p, "escape")

RECURSIVE StringFrom(_, _, _)
StringFrom(s, p, text) ==
  LET c == At(s, p)
      Ends == {Newline, Return, Quote, Backslash}
      q == EndOf(s, p, LAMBDA d : d \notin Ends)
      part == IF c = Backslash THEN Escape(s, p + 1) ELSE Text(q, SubSeq(s, p, q - 1))
  IN CASE c \in {EndOfSource, Newline, Return} -> Mistake(p, "unterminated")
       [] c = Quote -> Text(p + 1, text)
       [] OTHER -> IF part.err # "" THEN part ELSE StringFrom(s, part.p, text \o part.text)

-----------------------------------------------------------------------------
(* Spaces, comments and operators                                            *)

(* #< ... ># may lack its end; other comments end before the line does. *)
Comment(s, p) ==
  LET ends == {q \in (p + 2)..(Len(s) - 1) : s[q] = 62 /\ s[q + 1] = 35}
  IN IF At(s, p + 1) = 60 THEN IF ends = {} THEN Len(s) + 1 ELSE Min(ends) + 2
     ELSE EndOf(s, p + 1, LAMBDA c : c # Newline)

(* % & ( ) * + , : ; [ ] ^ { | } ~                                           *)
Alone == {37, 38, 40, 41, 42, 43, 44, 58, 59, 91, 93, 94, 123, 124, 125, 126}
(* - . / < = > and what may follow them: -> .? // <= << == >= >>             *)
Longer == (45 :> {62}) @@ (46 :> {63}) @@ (47 :> {47}) @@ (60 :> {60, 61}) @@ (61 :> {61})
          @@ (62 :> {61, 62})
(* != and ??                                                                 *)
Double == (33 :> 61) @@ (63 :> 63)

Operator(s, p) ==
  LET c == s[p]
      d == At(s, p + 1)
      Op(n) == Found(p + n, <<<<"op", SubSeq(s, p, p + n - 1)>>>>)
  IN CASE c \in Alone -> Op(1)
       [] c \in DOMAIN Double -> IF d = Double[c] THEN Op(2) ELSE Mistake(p + 1, "syntax")
       [] c = Point /\ Digit(d) -> Fraction(s, p + 1, 0)
       [] c = Point /\ d = Point -> IF At(s, p + 2) = Point THEN Op(3) ELSE Mistake(p + 2, "syntax")
       [] c \in DOMAIN Longer /\ ~ (c = Point /\ (Digit(d) \/ d = Point)) ->
            IF d \in Longer[c] THEN Op(2) ELSE Op(1)
       [] OTHER -> Mistake(p, "syntax")

-----------------------------------------------------------------------------
(* A name or a text has the number of the first that was the same, but each  *)
(* text of 256 bytes, its end among them, has a number of its own.           *)
NumberOf(seen, x) == IF \E i \in DOMAIN seen : seen[i] = x
                     THEN SelectInSeq(seen, LAMBDA y : y = x) - 1 ELSE Len(seen)
Seen(seen, n, x) == IF n = Len(seen) THEN Append(seen, x) ELSE seen

Nothing == [p |-> 1, tokens |-> <<>>, names |-> <<>>, texts |-> <<>>, err |-> ""]

Word(st, s) ==
  LET q == EndOf(s, st.p, NamePart)
      name == SubSeq(s, st.p, q - 1)
      n == NumberOf(st.names, name)
  IN IF name = Else \o If THEN [st EXCEPT !.p = q, !.tokens = @ \o <<<<"word", Else>>, <<"word", If>>>>]
     ELSE IF name \in Keywords THEN [st EXCEPT !.p = q, !.tokens = Append(@, <<"word", name>>)]
     ELSE [st EXCEPT !.p = q, !.tokens = Append(@, <<"name", n>>), !.names = Seen(@, n, name)]

StringToken(st, s) ==
  LET x == StringFrom(s, st.p + 1, <<>>)
      n == IF Len(x.text) + 1 < 256 THEN NumberOf(st.texts, x.text) ELSE Len(st.texts)
  IN IF x.err # "" THEN [st EXCEPT !.p = x.p, !.err = x.err]
     ELSE [st EXCEPT !.p = x.p, !.tokens = Append(@, <<"string", n>>),
                     !.texts = Seen(@, n, x.text)]

Take(st, x) == [st EXCEPT !.p = x.p, !.tokens = @ \o x.tokens, !.err = x.err]

(* unc0_lexcode_i *)
RECURSIVE LexFrom(_, _)
LexFrom(st, s) ==
  LET p == st.p
      c == At(s, p)
      next ==
        CASE c = Newline -> Take(st, Found(p + 1, <<<<"op", <<Newline>>>>>>))
          [] c = Return -> Take(st, IF At(s, p + 1) = Newline THEN Found(p + 1, <<>>)
                                    ELSE Mistake(p + 1, "syntax"))
          [] Space(c) -> Take(st, Found(p + 1, <<>>))
          [] Digit(c) -> Take(st, Number(s, p))
          [] NamePart(c) /\ ~ Digit(c) -> Word(st, s)
          [] c = Quote -> StringToken(st, s)
          [] c = 35 -> Take(st, Found(Comment(s, p), <<>>))
          [] OTHER -> Take(st, Operator(s, p))
  IN IF c = EndOfSource \/ st.err # "" THEN st ELSE LexFrom(next, s)

(* What the lexer is given of a source: it ends before the first byte that   *)
(* makes it no UTF-8.                                                        *)
RECURSIVE Accepted(_, _)
Accepted(s, p) ==
  LET n == Announced(At(s, p))
      least == CASE n = 2 -> 128 [] n = 3 -> 2048 [] n = 4 -> 65536 [] OTHER -> 0
      last == p + n - 1
      bad == {q \in (p + 1)..last :
                \/ At(s, q) = EndOfSource \/ ~ Follows(s[q])
                \/ q = last /\ Joined(Payload(s[p]), SubSeq(s, p + 1, q)) < least}
  IN IF p > Len(s) THEN [s |-> s, valid |-> TRUE]
     ELSE IF n = 1 THEN Accepted(s, AsciiEnd(s, p))
     ELSE IF n = 0 THEN [s |-> SubSeq(s, 1, p - 1), valid |-> FALSE]
     ELSE IF bad # {} THEN [s |-> SubSeq(s, 1, Min(bad) - 1), valid |-> FALSE]
     ELSE Accepted(s, p + n)

(* unc0_lexcode: that a source is no UTF-8 comes before any other mistake,   *)
(* if the lexer has come that far.                                           *)
Lex(s) ==
  LET given == Accepted(s, 1)
      out == LexFrom(Nothing, given.s)
  IN IF ~ given.valid /\ out.p > Len(given.s) THEN [out EXCEPT !.err = "encoding"] ELSE out

-----------------------------------------------------------------------------
(* The lexer leaves the texts one after the other, each with a zero byte at  *)
(* its end, and that is how the parser finds them.                           *)
Stored(texts) == FlattenSeq([i \in DOMAIN texts |-> Append(texts[i], 0)])

ReadBack(buffer, n) ==
  LET zero == SetToSortSeq({q \in DOMAIN buffer : buffer[q] = 0}, LAMBDA a, b : a < b)
  IN SubSeq(buffer, IF n = 0 THEN 1 ELSE zero[n] + 1, zero[n + 1] - 1)

(* The tokens with the names and the strings of the program in place of      *)
(* numbers.                                                                  *)
Meant(out) ==
  [i \in DOMAIN out.tokens |->
     LET x == out.tokens[i] IN
     CASE x[1] = "string" -> <<"string", Utf8PatDown(ReadBack(Stored(out.texts), x[2]))>>
       [] x[1] = "name" -> <<"name", out.names[x[2] + 1]>>
       [] OTHER -> x]
=============================================================================
