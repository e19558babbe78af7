---------------------------- MODULE Expressions ----------------------------
(***************************************************************************)
(* SQL expressions of src/engine.rs: what an expression is worth on a  *)
(* row (evaluate and evaluate_group_expression) and the type the planner   *)
(* gives it before it has seen a row (expression_data_type).               *)
(*                                                                         *)
(* An expression is a record [op, args] whose leaves carry a value, a      *)
(* column or a target type.  A value is [type, data]: data holds the       *)
(* number, the 0 or 1 of a boolean, the letters of a text or the elements  *)
(* of a vector.  Integers have the range IntMin..IntMax and are checked;   *)
(* a float is an integer that is exact up to ExactFloat, finite up to      *)
(* FloatMax, and NaN when data is empty, because a typed insert may store  *)
(* one.  Rounding of a result to a float is by truncation.                 *)
(***************************************************************************)
EXTENDS Integers, SequencesExt

CONSTANTS IntMin, IntMax, ExactFloat, FloatMax, MaxVectorDimensions,
          Percent, Underscore          \* the letters LIKE gives a meaning

ASSUME NumbersAssumption ==
  /\ IntMin = -IntMax - 1 /\ IntMax \in Nat /\ FloatMax \in Nat
  /\ ExactFloat \in Nat /\ ExactFloat <= IntMax

Null       == [type |-> "Null", data |-> <<>>]
Whole(n)   == [type |-> "Integer", data |-> <<n>>]
Float(n)   == [type |-> "Float", data |-> <<n>>]
NaN        == [type |-> "Float", data |-> <<>>]
Truth(b)   == [type |-> "Boolean", data |-> IF b THEN <<1>> ELSE <<0>>]
Text(s)    == [type |-> "Text", data |-> s]
Vector(s)  == [type |-> "Vector", data |-> s]

(* Errors: Mistyped is Error::TypeMismatch or a shape the evaluator does   *)
(* not know, Refused an error about the data (overflow, division by zero,  *)
(* NaN compared, NULL in a vector, a failed CAST, the norm of zero).       *)
Mistyped   == [type |-> "Mistyped", data |-> <<>>]
Refused    == [type |-> "Refused", data |-> <<>>]
Failed(v)  == v \in {Mistyped, Refused}

IsTrue(v)  == v = Truth(TRUE)
IsFalse(v) == v = Truth(FALSE)
Numeric(v) == v.type \in {"Integer", "Float"}

Literal(v)     == [op |-> "literal", args |-> <<>>, value |-> v]
ColumnRef(c)   == [op |-> "column", args |-> <<>>, column |-> c]
Op(op, args)   == [op |-> op, args |-> args]
Cast(e, t)     == [op |-> "cast", args |-> <<e>>, to |-> t]

Equality       == {"=", "<>"}
Comparisons    == Equality \cup {">", ">=", "<", "<="}
Arithmetic     == {"+", "-", "*", "/", "%"}
Distances      == {"l2", "squared_l2", "cosine", "dot", "negative_dot"}
Aggregates     == {"count", "sum", "avg", "min", "max"}
-----------------------------------------------------------------------------
(* Numbers.  An integer beyond 2^53 meets a float as the nearest one.      *)
Magnitude(n) == IF n < 0 THEN -n ELSE n
Truncated(a, b) == LET q == Magnitude(a) \div Magnitude(b)
                   IN  IF (a < 0) = (b < 0) THEN q ELSE -q
Rounded(n) == IF Magnitude(n) <= ExactFloat THEN n ELSE 2 * Truncated(n, 2)
AsFloat(v) == IF v.type = "Integer" THEN Float(Rounded(v.data[1])) ELSE v

WholeResult(op, a, b) ==
  IF op \in {"/", "%"} /\ (b = 0 \/ (a = IntMin /\ b = -1)) THEN Refused
  ELSE LET n == CASE op = "+" -> a + b
                  [] op = "-" -> a - b
                  [] op = "*" -> a * b
                  [] op = "/" -> Truncated(a, b)
                  [] op = "%" -> a - b * Truncated(a, b)
       IN  IF n \in IntMin..IntMax THEN Whole(n) ELSE Refused

FloatResult(op, a, b) ==
  IF NaN \in {a, b} \/ (op \in {"/", "%"} /\ b.data[1] = 0) THEN Refused
  ELSE LET x == a.data[1]
           y == b.data[1]
           n == CASE op = "+" -> x + y
                  [] op = "-" -> x - y
                  [] op = "*" -> x * y
                  [] op = "/" -> Truncated(x, y)
                  [] op = "%" -> x - y * Truncated(x, y)
       IN  IF Magnitude(n) <= FloatMax THEN Float(n) ELSE Refused

NumericBinary(op, a, b) ==
  IF Null \in {a, b} THEN Null
  ELSE IF ~Numeric(a) \/ ~Numeric(b) THEN Mistyped
  ELSE IF a.type = "Integer" /\ b.type = "Integer"
       THEN WholeResult(op, a.data[1], b.data[1])
       ELSE FloatResult(op, AsFloat(a), AsFloat(b))

Negated(v) ==
  CASE v = Null -> Null
    [] v.type = "Integer" -> IF v.data[1] = IntMin THEN Refused
                             ELSE Whole(-v.data[1])
    [] v.type = "Float" -> IF v = NaN THEN NaN ELSE Float(-v.data[1])
    [] OTHER -> Mistyped
-----------------------------------------------------------------------------
(* Order of two sequences of letters, as Rust compares strings.            *)
Precedes(s, t) ==
  \E i \in 1..Len(t) :
    /\ i - 1 <= Len(s) /\ \A j \in 1..(i - 1) : s[j] = t[j]
    /\ i > Len(s) \/ (i <= Len(s) /\ s[i] < t[i])

Comparable(a, b) == a.type = b.type \/ (Numeric(a) /\ Numeric(b))

(* a < b for two scalars of comparable types, neither NULL nor NaN.        *)
Less(a, b) ==
  IF a.type = "Integer" /\ b.type = "Integer" THEN a.data[1] < b.data[1]
  ELSE IF Numeric(a) THEN AsFloat(a).data[1] < AsFloat(b).data[1]
  ELSE Precedes(a.data, b.data)

(* -1, 0 or 1, and those of them a comparison is true of.                  *)
OrderOf(a, b) == IF Less(a, b) THEN -1 ELSE IF Less(b, a) THEN 1 ELSE 0
Orders(op) == CASE op = "="  -> {0}
                [] op = "<>" -> {-1, 1}
                [] op = ">"  -> {1}
                [] op = ">=" -> {0, 1}
                [] op = "<"  -> {-1}
                [] op = "<=" -> {-1, 0}

Compare(op, a, b) ==
  IF Null \in {a, b} THEN Null
  ELSE IF ~Comparable(a, b) THEN Mistyped
  ELSE IF a.type = "Vector"
       THEN IF op \in Equality THEN Truth((op = "=") = (a.data = b.data))
            ELSE Mistyped
  ELSE IF NaN \in {a, b} THEN Refused
  ELSE Truth(OrderOf(a, b) \in Orders(op))

BooleanOrNull(v) == v = Null \/ v.type = "Boolean"

SqlAnd(a, b) ==
  IF ~BooleanOrNull(a) \/ ~BooleanOrNull(b) THEN Mistyped
  ELSE IF IsFalse(a) \/ IsFalse(b) THEN Truth(FALSE)
  ELSE IF IsTrue(a) /\ IsTrue(b) THEN Truth(TRUE) ELSE Null

SqlNot(v) ==
  CASE v = Null -> Null
    [] v.type = "Boolean" -> Truth(IsFalse(v))
    [] OTHER -> Mistyped

SqlOr(a, b) == SqlNot(SqlAnd(SqlNot(a), SqlNot(b)))
-----------------------------------------------------------------------------
(* LIKE by the table of prefixes of the value each prefix of the pattern   *)
(* matches.                                                                *)
LikeMatches(value, pattern) ==
  LET n == Len(value)
      Row(previous, letter) ==
        LET current[i \in 0..n] ==
              IF letter = Percent
              THEN previous[i] \/ (i > 0 /\ current[i - 1])
              ELSE /\ i > 0
                   /\ previous[i - 1]
                   /\ letter = Underscore \/ letter = value[i]
        IN  current
  IN  FoldLeft(Row, [i \in 0..n |-> i = 0], pattern)[n]

Like(value, pattern) ==
  IF Null \in {value, pattern} THEN Null
  ELSE IF value.type = "Text" /\ pattern.type = "Text"
       THEN Truth(LikeMatches(value.data, pattern.data))
       ELSE Mistyped

Dot(s, t) == FoldLeft(+, 0, [i \in DOMAIN s |-> s[i] * t[i]])
Difference(s, t) == [i \in DOMAIN s |-> s[i] - t[i]]

(* The root and the angle are used for their order only: the integer part  *)
(* of the root, and 1 - the sign of the product for the angle.             *)
Root(n) == CHOOSE r \in 0..n : r * r <= n /\ (r + 1) * (r + 1) > n
Angle(s, t) == LET d == Dot(s, t)
               IN  IF d > 0 THEN 0 ELSE IF d = 0 THEN 1 ELSE 2
IsZero(s) == \A i \in DOMAIN s : s[i] = 0

Distance(op, a, b) ==
  IF ~({a.type, b.type} \subseteq {"Vector", "Null"}) THEN Mistyped
  ELSE IF Null \in {a, b} THEN Null
  ELSE IF Len(a.data) # Len(b.data) THEN Mistyped
  ELSE IF op = "cosine" /\ (IsZero(a.data) \/ IsZero(b.data)) THEN Refused
  ELSE LET apart == Difference(a.data, b.data)
       IN  Float(CASE op = "squared_l2"   -> Dot(apart, apart)
                   [] op = "l2"           -> Root(Dot(apart, apart))
                   [] op = "cosine"       -> Angle(a.data, b.data)
                   [] op = "dot"          -> Dot(a.data, b.data)
                   [] op = "negative_dot" -> -Dot(a.data, b.data))

(* ARRAY[...] and VECTOR(...): elements become f32.                        *)
MakeVector(values) ==
  IF \E i \in DOMAIN values : values[i] # Null /\ ~Numeric(values[i])
  THEN Mistyped
  ELSE IF \/ Len(values) \notin 1..MaxVectorDimensions
          \/ Null \in {values[i] : i \in DOMAIN values}
          \/ NaN \in {values[i] : i \in DOMAIN values}
       THEN Refused
       ELSE Vector([i \in DOMAIN values |-> AsFloat(values[i]).data[1]])

OfVector(op, v) ==
  CASE v = Null -> Null
    [] v.type # "Vector" -> Mistyped
    [] op = "vector_dims" -> Whole(Len(v.data))
    [] op = "vector_norm" -> Float(Root(Dot(v.data, v.data)))
    [] op = "normalize" ->
         IF IsZero(v.data) THEN Refused
         ELSE LET norm == Root(Dot(v.data, v.data))
              IN  Vector([i \in DOMAIN v.data |-> Truncated(v.data[i], norm)])

(* coerce: what a column, and a CAST, makes of a value of another type.    *)
Coerce(v, t) ==
  CASE v = Null -> Null
    [] v.type = "Integer" /\ t.name = "Float" -> AsFloat(v)
    [] v.type # t.name -> Refused
    [] v.type = "Vector" /\ Len(v.data) # t.size -> Refused
    [] OTHER -> v

(* IN is TRUE when some item is equal, and otherwise NULL when a           *)
(* comparison was with NULL.                                               *)
AnyTrue(equal, v) ==
  IF \E x \in equal : Failed(x) THEN CHOOSE x \in equal : Failed(x)
  ELSE IF Truth(TRUE) \in equal THEN Truth(TRUE)
  ELSE IF v = Null \/ Null \in equal THEN Null
  ELSE Truth(FALSE)
InList(v, items) == AnyTrue({Compare("=", v, items[i]) : i \in DOMAIN items}, v)

BothTrue(lower, upper) ==
  IF Failed(lower) THEN lower
  ELSE IF Failed(upper) THEN upper ELSE SqlAnd(lower, upper)
Between(v, low, high) == BothTrue(Compare(">=", v, low), Compare("<=", v, high))

BooleanTest(op, v) ==
  IF ~BooleanOrNull(v) THEN Mistyped
  ELSE Truth(CASE op = "is_true"      -> IsTrue(v)
               [] op = "is_false"     -> IsFalse(v)
               [] op = "is_not_true"  -> ~IsTrue(v)
               [] op = "is_not_false" -> ~IsFalse(v))

(* What an operator makes of the values of its operands, none of which has *)
(* failed.  NOT BETWEEN, NOT IN and NOT LIKE are the NOT of the operator.  *)
Apply(e, x) ==
  CASE e.op \in Comparisons    -> Compare(e.op, x[1], x[2])
    [] e.op \in Arithmetic     -> NumericBinary(e.op, x[1], x[2])
    [] e.op \in Distances      -> Distance(e.op, x[1], x[2])
    [] e.op = "and"            -> SqlAnd(x[1], x[2])
    [] e.op = "or"             -> SqlOr(x[1], x[2])
    [] e.op = "not"            -> SqlNot(x[1])
    [] e.op = "negate"         -> Negated(x[1])
    [] e.op = "plus"           -> IF x[1] = Null \/ Numeric(x[1]) THEN x[1]
                                  ELSE Mistyped
    [] e.op = "is_null"        -> Truth(x[1] = Null)
    [] e.op = "is_not_null"    -> Truth(x[1] # Null)
    [] e.op \in {"is_true", "is_false", "is_not_true", "is_not_false"}
                               -> BooleanTest(e.op, x[1])
    [] e.op = "between"        -> Between(x[1], x[2], x[3])
    [] e.op = "in"             -> InList(x[1], Tail(x))
    [] e.op = "like"           -> Like(x[1], x[2])
    [] e.op = "cast"           -> Coerce(x[1], e.to)
    [] e.op = "vector"         -> MakeVector(x)
    [] e.op \in {"vector_dims", "vector_norm", "normalize"}
                               -> OfVector(e.op, x[1])
    [] OTHER                   -> Mistyped

(* AND and OR stop at a left side that decides; every other operator looks *)
(* at all its operands, and the first error is the answer.                 *)
Decides(op, left) == (op = "and" /\ IsFalse(left)) \/ (op = "or" /\ IsTrue(left))

Combine(e, x) ==
  IF Decides(e.op, x[1]) THEN x[1]
  ELSE IF \E i \in DOMAIN x : Failed(x[i])
       THEN x[CHOOSE i \in DOMAIN x :
                Failed(x[i]) /\ \A j \in 1..(i - 1) : ~Failed(x[j])]
       ELSE Apply(e, x)

RECURSIVE Evaluate(_, _)
Evaluate(e, row) ==
  CASE e.op = "literal" -> e.value
    [] e.op = "column"  -> row[e.column]
    [] OTHER -> Combine(e, [i \in DOMAIN e.args |-> Evaluate(e.args[i], row)])

(* A row passes a WHERE, an ON or a HAVING only when it is TRUE.           *)
Satisfies(row, where) == IsTrue(Evaluate(where, row))
-----------------------------------------------------------------------------
(* Types: a name, and the dimensions of a vector.  NoType is the type of   *)
(* NULL, which is accepted everywhere; Untyped says the query is refused.  *)
Type(name)       == [name |-> name, size |-> 0]
VectorType(size) == [name |-> "Vector", size |-> size]
NoType  == Type("None")
Untyped == Type("Untyped")

TypeOfValue(v) == CASE v = Null -> NoType
                    [] v.type = "Vector" -> VectorType(Len(v.data))
                    [] OTHER -> Type(v.type)

IsA(t, names)     == t = NoType \/ t.name \in names
NumericType(t)    == IsA(t, {"Integer", "Float"})
SortableScalar(t) == IsA(t, {"Integer", "Float", "Text", "Boolean"})

ComparableTypes(s, t, op) ==
  \/ NoType \in {s, t}
  \/ s.name \in {"Integer", "Float"} /\ t.name \in {"Integer", "Float"}
  \/ s = t /\ s.name # "Vector"
  \/ s.name = "Vector" /\ t.name = "Vector" /\ op \in Equality

VectorPair(s, t) ==
  /\ IsA(s, {"Vector"}) /\ IsA(t, {"Vector"})
  /\ NoType \in {s, t} \/ s.size = t.size

NumericResultTypeOfLeft(s, t) == IF s = NoType THEN t ELSE s
NumericResultType(s, t) ==
  CASE "Float" \in {s.name, t.name} -> Type("Float")
    [] s = NoType -> t
    [] OTHER -> s

(* The type of an operator from those of its operands, all of which have   *)
(* one.                                                                    *)
TypeOfOperator(e, t) ==
  LET When(condition, type) == IF condition THEN type ELSE Untyped
      boolean == Type("Boolean")
  IN  CASE e.op \in Comparisons -> When(ComparableTypes(t[1], t[2], e.op), boolean)
        [] e.op \in {"and", "or", "not", "is_true", "is_false",
                     "is_not_true", "is_not_false"}
             -> When(\A i \in DOMAIN t : IsA(t[i], {"Boolean"}), boolean)
        [] e.op \in Arithmetic
             -> When(NumericType(t[1]) /\ NumericType(t[2]),
                     NumericResultType(t[1], t[2]))
        [] e.op \in Distances -> When(VectorPair(t[1], t[2]), Type("Float"))
        [] e.op \in {"negate", "plus"} -> When(NumericType(t[1]), t[1])
        [] e.op \in {"is_null", "is_not_null"} -> boolean
        [] e.op = "between" -> When(/\ ComparableTypes(t[1], t[2], ">=")
                                    /\ ComparableTypes(t[1], t[3], "<="), boolean)
        [] e.op = "in" -> When(\A i \in 2..Len(t) :
                                 ComparableTypes(t[1], t[i], "="), boolean)
        [] e.op = "like" -> When(IsA(t[1], {"Text"}) /\ IsA(t[2], {"Text"}), boolean)
        [] e.op = "cast" -> e.to
        [] e.op = "vector"
             -> When(/\ Len(t) \in 1..MaxVectorDimensions
                     /\ \A i \in DOMAIN t : NumericType(t[i]), VectorType(Len(t)))
        [] e.op = "vector_dims" -> When(IsA(t[1], {"Vector"}), Type("Integer"))
        [] e.op = "vector_norm" -> When(IsA(t[1], {"Vector"}), Type("Float"))
        [] e.op = "normalize"   -> When(IsA(t[1], {"Vector"}), t[1])
        [] e.op = "count" -> Type("Integer")
        [] e.op = "avg"   -> When(NumericType(t[1]), Type("Float"))
        [] e.op = "sum"   -> When(NumericType(t[1]), t[1])
        [] e.op \in {"min", "max"} -> When(SortableScalar(t[1]), t[1])
        [] OTHER -> Untyped

(* columns gives each column its declared type.                            *)
RECURSIVE TypeOf(_, _)
TypeOf(e, columns) ==
  CASE e.op = "literal" -> TypeOfValue(e.value)
    [] e.op = "column" -> IF e.column \in DOMAIN columns THEN columns[e.column]
                          ELSE Untyped
    [] OTHER -> LET types == [i \in DOMAIN e.args |-> TypeOf(e.args[i], columns)]
                IN  IF \E i \in DOMAIN types : types[i] = Untyped THEN Untyped
                    ELSE TypeOfOperator(e, types)

(* v is NULL or a value of type t; nothing but NULL has no type.           *)
OfType(v, t) == v = Null \/ TypeOfValue(v) = t
=============================================================================
