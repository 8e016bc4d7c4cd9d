----------------------------- MODULE Operators -----------------------------
(***************************************************************************)
(* What the operators of Uncil do to values: the unc0_vmo* and unc0_vv*    *)
(* functions of uvm.c, and the comparison, conversions and overloads of    *)
(* uvop.c and uval.c.                                                      *)
(*                                                                         *)
(* A value is a pair of its type and what it holds; a string and a blob    *)
(* are sequences of numbers, an array of values.  What an object holds is  *)
(* a record of its identity and its overloads: the values each gives when  *)
(* it is called, or one error.  An error takes the place of a value.       *)
(***************************************************************************)
EXTENDS Numbers, Sequences

Null == <<"null", 0>>
Boolean(b) == <<"bool", b>>
Integer(n) == <<"int", n>>
Floating(q) == <<"float", q>>
Error(kind) == <<"error", kind>>

IsError(v) == v[1] = "error"
IsNumber(v) == v[1] \in {"int", "float"}
IsObject(v) == v[1] \in {"object", "opaque"}

AsFloat(v) == IF v[1] = "int" THEN Float(v[2]) ELSE v[2]

-----------------------------------------------------------------------------
(* Overloads *)

(* An operator is looked for under one name in the first operand and under   *)
(* another in the second.                                                    *)
Overload(v, name, side) ==
  IF IsObject(v) /\ <<name, side>> \in DOMAIN v[2].overloads
  THEN v[2].overloads[<<name, side>>] ELSE <<>>

(* unc0_vovlunary: no result at all is as good as no overload. *)
Answer(results) ==
  IF Len(results) = 1 THEN results[1] ELSE Error("too many results")

OverloadUnary(v, name) ==
  IF Overload(v, name, 1) = <<>> THEN Error("unsupported")
  ELSE Answer(Overload(v, name, 1))

(* unc0_vovlbinary: the second operand is asked when the first has nothing. *)
Overloaded(a, b, name) ==
  IF Overload(a, name, 1) # <<>> THEN Overload(a, name, 1) ELSE Overload(b, name, 2)

OverloadBinary(a, b, name) ==
  IF Overloaded(a, b, name) = <<>> THEN Error("unsupported")
  ELSE Answer(Overloaded(a, b, name))

-----------------------------------------------------------------------------
(* Operators *)

(* An integer result that does not fit is done again with floats. *)
Arithmetic(overflow, n, q) == IF overflow THEN Floating(q) ELSE Integer(n)

RECURSIVE And(_, _, _)
And(a, b, bits) ==   \* of unsigned numbers
  IF bits = 0 THEN 0
  ELSE (2 * And(a \div 2, b \div 2, bits - 1)) + (IF a % 2 = 1 /\ b % 2 = 1 THEN 1 ELSE 0)

Band(a, b) == Wrap(And(Unsigned(a), Unsigned(b), W))
Bor(a, b) == a + b - Band(a, b)
Bxor(a, b) == Wrap(Unsigned(a) + Unsigned(b) - 2 * And(Unsigned(a), Unsigned(b), W))

Divides == {"div", "idiv", "mod"}

(* The division of the smallest number by -1 stops the program. *)
Integers2(op, a, b) ==
  CASE op = "add" -> Arithmetic(Wrap(a + b) # a + b, a + b, Float(a + b))
    [] op = "sub" -> Arithmetic(Wrap(a - b) # a - b, a - b, Float(a - b))
    [] op = "mul" -> Arithmetic(Wrap(a * b) # a * b, a * b, Float(a * b))
    [] op \in Divides /\ b = 0 -> Error("division by zero")
    [] op \in {"idiv", "mod"} /\ a = MinInt /\ b = -1 -> Error("trap")
    [] op = "div"  -> Floating(Ratio(a, b))
    [] op = "idiv" -> Integer(Iidiv(a, b))
    [] op = "mod"  -> Integer(Imod(a, b))
    [] op = "band" -> Integer(Band(a, b))
    [] op = "bor"  -> Integer(Bor(a, b))
    [] op = "bxor" -> Integer(Bxor(a, b))
    [] op = "shl"  -> Integer(Shiftl(a, b))
    [] op = "shr"  -> Integer(Shiftr(a, b))

Floats2(op, p, q) ==
  CASE op = "add" -> Floating(AddFloat(p, q))
    [] op = "sub" -> Floating(SubFloat(p, q))
    [] op = "mul" -> Floating(MulFloat(p, q))
    [] op \in Divides /\ q = Float(0) -> Error("division by zero")
    [] op = "div"  -> Floating(DivFloat(p, q))
    [] op = "idiv" -> Floating(Fidiv(p, q))
    [] op = "mod"  -> Floating(Fmod(p, q))
    [] OTHER       -> Error("unsupported")

Booleans2(op, p, q) ==
  CASE op = "band" -> Boolean(p /\ q)
    [] op = "bor"  -> Boolean(p \/ q)
    [] op = "bxor" -> Boolean(p # q)
    [] OTHER       -> Error("unsupported")

(* unc0_vmobcat: strings, blobs or arrays, two of one type. *)
Cat(a, b) ==
  IF a[1] = b[1] /\ a[1] \in {"string", "blob", "array"} THEN <<a[1], a[2] \o b[2]>>
  ELSE Error("unsupported")

Binary(op, a, b) ==
  CASE IsObject(a) \/ IsObject(b)       -> OverloadBinary(a, b, op)
    [] op = "cat"                       -> Cat(a, b)
    [] a[1] = "int" /\ b[1] = "int"     -> Integers2(op, a[2], b[2])
    [] IsNumber(a) /\ IsNumber(b) /\ ~ (a[1] = "int" /\ b[1] = "int")
                                        -> Floats2(op, AsFloat(a), AsFloat(b))
    [] a[1] = "bool" /\ b[1] = "bool"   -> Booleans2(op, a[2], b[2])
    [] OTHER                            -> Error("unsupported")

Unary(op, a) ==
  CASE IsObject(a)                       -> OverloadUnary(a, op)
    [] op = "posit"  /\ IsNumber(a)      -> a
    [] op = "negate" /\ a[1] = "int"     -> Arithmetic(a[2] = MinInt, -a[2], Float(-a[2]))
    [] op = "negate" /\ a[1] = "float"   -> Floating(NegFloat(a[2]))
    [] op = "invert" /\ a[1] = "int"     -> Integer(-1 - a[2])
    [] OTHER                             -> Error("unsupported")

(* unc0_vcvt2bool *)
Truth(v) ==
  CASE v[1] = "null" -> FALSE
    [] v[1] = "bool" -> v[2]
    [] v[1] = "int"  -> v[2] # 0
    [] v[1] = "float" -> v[2] # Float(0)
    [] OTHER -> TRUE

(* unc0_vveq_i: what no overload answers is equal if it is the same. *)
Equal(a, b) ==
  CASE (IsObject(a) \/ IsObject(b)) /\ Overloaded(a, b, "eq") # <<>> ->
         LET v == OverloadBinary(a, b, "eq") IN IF IsError(v) THEN v ELSE Boolean(Truth(v))
    [] IsNumber(a) /\ IsNumber(b) -> Boolean(EqualFloat(AsFloat(a), AsFloat(b)))
    [] IsObject(a) /\ a[1] = b[1] -> Boolean(a[2].id = b[2].id)
    [] OTHER -> Boolean(a[1] = b[1] /\ a[2] = b[2])

RECURSIVE LessSeq(_, _)
LessSeq(s, t) ==
  /\ t # <<>>
  /\ \/ s = <<>>
     \/ s[1] < t[1]
     \/ s[1] = t[1] /\ LessSeq(Tail(s), Tail(t))

(* unc0_vvclt_i: an overload gives a number that is compared with 0.  That   *)
(* it failed is not looked at, and what is compared then was never set.      *)
Less(a, b) ==
  CASE IsObject(a) \/ IsObject(b) ->
         LET v == OverloadBinary(a, b, "cmp")
         IN IF v = Error("unsupported") THEN v
            ELSE IF IsError(v) THEN Error("never set")
            ELSE IF IsNumber(v) THEN Boolean(LessFloat(AsFloat(v), Float(0)))
            ELSE Error("unsupported")
    [] IsNumber(a) /\ IsNumber(b) -> Boolean(LessFloat(AsFloat(a), AsFloat(b)))
    [] a[1] = b[1] /\ a[1] \in {"string", "blob"} -> Boolean(LessSeq(a[2], b[2]))
    [] OTHER -> Error("unsupported")

-----------------------------------------------------------------------------
(* The order of values that sorting asks for (unc0_vvcmp)                    *)

SignOf(p) ==
  IF p = NaN THEN Error("not a number")
  ELSE Integer(IF p[1] < 0 THEN -1 ELSE IF p[1] > 0 THEN 1 ELSE 0)

(* A float and an integer: the bits of the float are taken for an integer,   *)
(* those of the integer for a float.  All that counts is their signs: the    *)
(* bits of a positive integer are a tiny float, those of a negative one are  *)
(* not a number.                                                             *)
MixedUp(a, b) ==
  IF b < 0 THEN Error("not a number")
  ELSE Integer(IF a = Float(0) THEN IF b = 0 THEN 0 ELSE -1
           ELSE IF a[1] > 0 THEN 1 ELSE -1)

(* What is found in the overload's float is the same kind of mistake. *)
Compare(a, b) ==
  CASE IsObject(a) \/ IsObject(b) ->
         LET v == OverloadBinary(a, b, "cmp")
         IN IF v = Error("unsupported") THEN v
            ELSE IF IsError(v) THEN Error("never set")
            ELSE IF IsNumber(v) THEN SignOf(AsFloat(v)) ELSE Error("unsupported")
    [] a[1] = "float" /\ b[1] = "int" -> MixedUp(a[2], b[2])
    [] IsNumber(a) /\ IsNumber(b) /\ ~ (a[1] = "float" /\ b[1] = "int") ->
         SignOf(SubFloat(AsFloat(a), AsFloat(b)))
    [] a[1] = b[1] /\ a[1] \in {"string", "blob"} ->
         Integer(IF a[2] = b[2] THEN 0 ELSE IF LessSeq(a[2], b[2]) THEN -1 ELSE 1)
    [] OTHER -> Error("unsupported")

-----------------------------------------------------------------------------
(* unc0_vcvt2int of a float and of a string of digits                        *)

FloatToInt(q) ==
  IF q = NaN \/ LessFloat(q, Float(MinInt)) \/ ~ LessFloat(q, Float(MaxInt + 1))
  THEN Error("value") ELSE Integer(Quotient(q[1], q[2]))

(* The digits are gathered in an unsigned number; that it is no smaller than *)
(* before is taken to mean that it has not overflowed.                       *)
RECURSIVE Digits(_, _)
Digits(ds, i) ==
  IF ds = <<>> THEN i
  ELSE LET n == Unsigned(i * 10 + Head(ds))
       IN IF i > n THEN -1 ELSE Digits(Tail(ds), n)

StringToInt(negative, ds) ==
  LET i == Digits(ds, 0)
      r == Wrap(-i)
  IN IF ds = <<>> THEN Error("conversion")
     ELSE IF i < 0 THEN Error("value")
     ELSE IF negative THEN IF r >= 0 THEN Error("value") ELSE Integer(r)
     ELSE IF i > MaxInt THEN Error("value") ELSE Integer(i)
=============================================================================
