------------------------------ MODULE MCReads ------------------------------
(***************************************************************************)
(* Requests for TLC.  Integers are -8..7, floats are exact up to 4, texts  *)
(* have at most two letters.  The requests about documents and their graph *)
(* are in MCGraphReads.                                                    *)
(***************************************************************************)
EXTENDS Reads, MCGraphReads

MCIntMin == -8
MCIntMax == 7
-----------------------------------------------------------------------------
(* Expressions of depth two over one row of every type, or one of NULLs.   *)
ExprColumns == [i |-> Type("Integer"), f |-> Type("Float"), t |-> Type("Text"),
                b |-> Type("Boolean"), v |-> VectorType(2)]
ExprRows ==
  {[i |-> Whole(7), f |-> Float(5), t |-> Text(<<1>>), b |-> Truth(TRUE),
    v |-> Vector(<<1, 2>>)],
   [i |-> Whole(-8), f |-> NaN, t |-> Text(<<>>), b |-> Truth(FALSE),
    v |-> Vector(<<0, 0>>)],
   [c \in DOMAIN ExprColumns |-> Null]}

Leaves == {ColumnRef(c) : c \in DOMAIN ExprColumns}
            \cup {Literal(v) : v \in {Null, Whole(0), Text(<<Percent>>)}}

Unary == {"not", "negate", "is_null", "is_true", "is_not_false", "vector_dims",
          "vector_norm", "normalize", "plus", "vector"}
Binary == {"=", "<", "and", "or", "+", "/", "%", "cosine", "l2", "like", "in", "vector"}

Shallow == {Op(o, <<x>>) : o \in Unary, x \in Leaves}
             \cup {Op(o, <<x, y>>) : o \in Binary, x \in Leaves, y \in Leaves}
             \cup {Cast(x, t) : x \in Leaves, t \in {Type("Float"), VectorType(2)}}

Typed(expressions) == {e \in expressions : TypeOf(e, ExprColumns) # Untyped}

(* The second level sits on a sample of the first: one expression for each *)
(* operator and type, so that every operator meets every type.             *)
Sample ==
  {CHOOSE e \in Typed(Shallow) : e.op = p[1] /\ TypeOf(e, ExprColumns) = p[2] :
     p \in {<<e.op, TypeOf(e, ExprColumns)>> : e \in Typed(Shallow)}}

Deep == {Op(o, <<x>>) : o \in Unary, x \in Sample}
          \cup {Op(o, <<x, y>>) : o \in Binary, x \in Sample, y \in Leaves}
          \cup {Op(o, <<x, y>>) : o \in Binary, x \in Leaves, y \in Sample}
          \cup {Op("between", <<x, y, z>>) : x \in Leaves, y \in Leaves, z \in Leaves}
          \cup {Op("in", <<x, y, z>>) : x \in Leaves, y \in Leaves, z \in Leaves}

MCExpressionRequests ==
  [kind : {"expression"}, expr : Typed(Shallow \cup Deep), row : ExprRows,
   columns : {ExprColumns}]
-----------------------------------------------------------------------------
(* Queries over tables of at most three rows with a nullable integer and a *)
(* nullable vector.                                                        *)
QueryColumns == [a |-> Type("Integer"), b |-> Type("Integer"), v |-> VectorType(1)]
SourceRow(a, b, v) == [a |-> a, b |-> b, v |-> v]
SourceRows == {SourceRow(Whole(1), Whole(5), Vector(<<1>>)),
               SourceRow(Whole(1), Null, Vector(<<-1>>)),
               SourceRow(Null, Whole(5), Null),
               SourceRow(Whole(2), Whole(7), Vector(<<2>>))}
Tables == {[columns |-> QueryColumns, rows |-> rows] :
             rows \in UNION {[1..n -> SourceRows] : n \in 0..3}}

a_ == ColumnRef("a")
b_ == ColumnRef("b")
Item(e, label) == [expr |-> e, label |-> label]
By(e, descending, nulls_first) ==
  [expr |-> e, descending |-> descending, nulls_first |-> nulls_first]
Near == Op("l2", <<ColumnRef("v"), Literal(Vector(<<0>>))>>)
Aggregate(op, args, distinct) == [op |-> op, args |-> args, distinct |-> distinct]
True_ == Literal(Truth(TRUE))

Query(items, where, distinct, group, having, order) ==
  [items |-> items, where |-> where, distinct |-> distinct, group |-> group,
   having |-> having, order |-> order]

(* On the rows above b + 2 is 7, NULL or refused, and the condition is     *)
(* true, unknown or refused.                                               *)
Two(e) == Op("+", <<e, Literal(Whole(2))>>)
Overflowing == Op("<", <<Literal(Whole(0)), Two(b_)>>)

Shapes ==
  {Query(<<Item(b_, "b")>>, where, distinct, <<>>, NoHaving, order) :
     where \in {True_, Op("=", <<a_, Literal(Whole(1))>>), Overflowing},
     distinct \in BOOLEAN,
     order \in {<<>>, <<By(b_, TRUE, TRUE)>>, <<By(Two(b_), FALSE, TRUE)>>,
                <<By(a_, FALSE, FALSE), By(b_, TRUE, FALSE)>>}}
  \cup
  {Query(<<Item(a_, "a"), Item(Near, "distance")>>, where, FALSE, <<>>, NoHaving, order) :
     where \in {True_, Op("=", <<b_, Literal(Whole(5))>>)},
     order \in {<<By(Near, FALSE, FALSE)>>, <<By(ColumnRef("distance"), TRUE, TRUE)>>}}
  \cup
  {Query(<<Item(a_, "a"), Item(Aggregate(op, <<b_>>, distinct), "n")>>, where, FALSE,
         <<a_>>, having, order) :
     op \in {"count", "sum", "max"}, distinct \in BOOLEAN,
     where \in {True_, Op("is_not_null", <<a_>>)},
     having \in {NoHaving, Op("<", <<Literal(Whole(1)), Aggregate("count", <<>>, FALSE)>>)},
     order \in {<<>>, <<By(ColumnRef("n"), FALSE, TRUE)>>}}
  \cup
  {Query(<<Item(Aggregate(op, args, FALSE), "n")>>, True_, TRUE, group, NoHaving, <<>>) :
     op \in {"count"}, args \in {<<>>, <<b_>>}, group \in {<<>>, <<a_>>}}
  \cup     (* groups whose conditions, keys or sums may be refused           *)
  {Query(<<Item(Aggregate("count", <<>>, FALSE), "n")>>, where, FALSE, <<key>>, having, <<>>) :
     where \in {True_, Overflowing}, key \in {a_, Two(b_)},
     having \in {NoHaving, Op("<", <<Aggregate("sum", <<b_>>, FALSE), Literal(Whole(6))>>)}}
  \cup     (* refused: a column outside the groups, a condition that is none *)
  {Query(<<Item(b_, "b"), Item(Aggregate("count", <<>>, FALSE), "n")>>, True_, FALSE, <<a_>>,
         NoHaving, <<>>),
   Query(<<Item(Aggregate("sum", <<b_>>, FALSE), "n")>>, True_, FALSE, <<a_>>, NoHaving,
         <<By(b_, FALSE, FALSE)>>),
   Query(<<Item(b_, "b")>>, a_, FALSE, <<>>, NoHaving, <<>>)}

Windows == {[limit |-> l, offset |-> o, cap |-> c] :
              l \in {Unlimited, 0, 1, 2, 5}, o \in 0..2, c \in {Unlimited, 1}}

Windowed(shape, w) ==
  [items |-> shape.items, where |-> shape.where, distinct |-> shape.distinct,
   group |-> shape.group, having |-> shape.having, order |-> shape.order,
   limit |-> w.limit, offset |-> w.offset, cap |-> w.cap]

MCQueryRequests ==
  [kind : {"query"}, table : Tables,
   query : {Windowed(s, w) : s \in Shapes, w \in Windows}]
-----------------------------------------------------------------------------
(* Joins of two and three tables: an integer key against a float one, keys *)
(* that are NULL or meet only after rounding, and conditions beside the    *)
(* key.  Table a is the first, b and c are joined to it.                   *)
JoinTable(name, type, rows) ==
  [columns |-> (name \o ".k") :> Type(type) @@ (name \o ".x") :> Type("Integer"),
   rows |-> [i \in DOMAIN rows |->
               (name \o ".k") :> rows[i][1] @@ (name \o ".x") :> Whole(rows[i][2])]]

KeysOf(type) == IF type = "Integer" THEN {Null, Whole(4), Whole(5)}
                ELSE {Null, Float(4)}
RowsOf(type) == UNION {[1..n -> {<<k, x>> : k \in KeysOf(type), x \in 0..1}] : n \in 0..2}

TablesA == {JoinTable("a", "Integer", rows) :
              rows \in {<<>>, <<<<Whole(4), 0>>, <<Null, 1>>, <<Whole(5), 1>>>>}}
TablesB == UNION {{JoinTable("b", type, rows) : rows \in RowsOf(type)} :
                    type \in {"Integer", "Float"}}
TablesC == {JoinTable("c", "Integer", rows) :
              rows \in {<<>>, <<<<Whole(4), 0>>, <<Whole(4), 1>>>>, <<<<Null, 1>>>>}}

Column(c) == ColumnRef(c)
KeysEqual(s, t) == Op("=", <<Column(s), Column(t)>>)
OnB == {KeysEqual("a.k", "b.k"),
        Op("and", <<Op("<", <<Column("a.x"), Column("b.x")>>), KeysEqual("b.k", "a.k")>>),
        Op("and", <<KeysEqual("a.x", "b.x"), KeysEqual("a.k", "b.k")>>)}
OnC == {KeysEqual("a.k", "c.k"),
        Op("and", <<KeysEqual("b.x", "c.x"), Op("is_not_null", <<Column("b.k")>>)>>)}

JoinsB == {[table |-> t, outer |-> outer, on |-> on] :
             t \in TablesB, outer \in BOOLEAN, on \in OnB}
JoinsC == {[table |-> t, outer |-> outer, on |-> on] :
             t \in TablesC, outer \in BOOLEAN, on \in OnC}

JoinQuery(c, distinct, order, limit, cap, where) ==
  Windowed(Query(<<Item(Column("a.x"), "x"), Item(Column(c), "k")>>, where, distinct,
                 <<>>, NoHaving, order),
           [limit |-> limit, offset |-> IF limit = 1 THEN 1 ELSE 0, cap |-> cap])

JoinQueries(c) ==
  {JoinQuery(c, distinct, order, limit, cap, where) :
     distinct \in BOOLEAN, order \in {<<>>, <<By(Column("k"), TRUE, FALSE)>>},
     limit \in {Unlimited, 1}, cap \in {Unlimited, 2},
     where \in {True_, Op("is_null", <<Column("b.k")>>)}}

MCJoinRequests ==
  [kind : {"join"},
   join : [from : TablesA, joins : {<<b>> : b \in JoinsB}, query : JoinQueries("b.k")]]

MCChainRequests ==
  [kind : {"join"},
   join : [from : TablesA, joins : {<<b, c>> : b \in JoinsB, c \in JoinsC},
           query : {JoinQuery("c.x", FALSE, <<>>, Unlimited, Unlimited, True_)}]]
=============================================================================
