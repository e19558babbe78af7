------------------------------- MODULE Joins -------------------------------
(***************************************************************************)
(* src/engine/join.rs: a chain of INNER and LEFT joins.  Each stage    *)
(* finds one equality between a column of an earlier table and one of the  *)
(* table it adds, looks the rows up by that key, and keeps a pair when the *)
(* whole ON is true of it.                                                 *)
(*                                                                         *)
(* A join is [from, joins, query]: from is the first table, a join is      *)
(* [table, outer, on].  Columns have qualified names, so that the columns  *)
(* of a joined row are those of its parts; how names are resolved is not   *)
(* modelled.                                                               *)
(***************************************************************************)
EXTENDS Queries

CONSTANT MaxJoinTables

ASSUME JoinAssumption == MaxJoinTables \in Nat \ {0}

NullRow(table) == [c \in DOMAIN table.columns |-> Null]

(* The first equality of the conjunction between the two sides, as the     *)
(* earlier column and the new one.                                         *)
RECURSIVE EquijoinKey(_, _, _)
EquijoinKey(on, earlier, added) ==
  CASE on.op = "and" ->
         LET left == EquijoinKey(on.args[1], earlier, added)
         IN  IF left # <<>> THEN left ELSE EquijoinKey(on.args[2], earlier, added)
    [] on.op = "=" /\ on.args[1].op = "column" /\ on.args[2].op = "column" ->
         LET a == on.args[1].column
             b == on.args[2].column
         IN  CASE a \in earlier /\ b \in added -> <<a, b>>
               [] a \in added /\ b \in earlier -> <<b, a>>
               [] OTHER -> <<>>
    [] OTHER -> <<>>

(* The columns in sight after the first n joins.                           *)
RECURSIVE Columns(_, _)
Columns(join, n) == IF n = 0 THEN join.from.columns
                    ELSE Columns(join, n - 1) @@ join.joins[n].table.columns

KeyOf(join, n) == EquijoinKey(join.joins[n].on, DOMAIN Columns(join, n - 1),
                              DOMAIN join.joins[n].table.columns)

StageFits(join, n) ==
  LET key == KeyOf(join, n)
      columns == Columns(join, n)
  IN  /\ ~HasAggregate(join.joins[n].on)
      /\ key # <<>>
      /\ \A i \in 1..2 : columns[key[i]].name # "Vector"
      /\ ComparableTypes(columns[key[1]], columns[key[2]], "=")
      /\ IsA(TypeOf(join.joins[n].on, columns), {"Boolean"})

ValidJoin(join) ==
  /\ Len(join.joins) < MaxJoinTables
  /\ \A n \in DOMAIN join.joins : StageFits(join, n)
  /\ ~Grouped(join.query)
  /\ \A i \in DOMAIN join.query.order : ~HasAggregate(join.query.order[i].expr)
  /\ Valid(join.query, Columns(join, Len(join.joins)))
-----------------------------------------------------------------------------
(* Keys of different numeric types meet as floats, where several integers  *)
(* may be the same float; NULL has no key.                                 *)
HashKeyUncoerced(v, coercion) == v
HashKey(v, coercion) == IF coercion THEN AsFloat(v) ELSE v

Stage(join, n) ==
  LET columns == Columns(join, n)
      key == KeyOf(join, n)
  IN  [table |-> join.joins[n].table, outer |-> join.joins[n].outer,
       on |-> join.joins[n].on, left |-> key[1], right |-> key[2],
       coercion |-> columns[key[1]] # columns[key[2]]]

(* The rows of the bucket, in the order of the table.                      *)
Lookup(stage, value) ==
  SelectSeq(stage.table.rows,
            LAMBDA row : /\ value # Null /\ row[stage.right] # Null
                         /\ HashKey(value, stage.coercion)
                              = HashKey(row[stage.right], stage.coercion))

(* An ON that fails ends the query where it is met.                        *)
Broken(failure) == [broken |-> failure, row |-> <<>>]
Joined(row) == [broken |-> Null, row |-> row]

(* The joined rows a row leads to, in the order in which they are visited. *)
RECURSIVE Visit(_, _, _)
Visit(join, n, row) ==
  IF n > Len(join.joins) THEN <<Joined(row)>>
  ELSE LET stage == Stage(join, n)
           found == Lookup(stage, row[stage.left])
           Part(on, pair) == CASE Failed(on) -> <<Broken(on)>>
                               [] IsTrue(on) -> Visit(join, n + 1, pair)
                               [] OTHER -> <<>>
           Parts(on) == FlattenSeq([i \in DOMAIN found |-> Part(on[i], row @@ found[i])])
                          \o (IF stage.outer /\ \A i \in DOMAIN on : ~IsTrue(on[i])
                              THEN Visit(join, n + 1, row @@ NullRow(stage.table)) ELSE <<>>)
       IN  Parts([i \in DOMAIN found |-> Evaluate(stage.on, row @@ found[i])])

JoinCandidate(visited, at, q) ==
  IF visited.broken # Null
  THEN [values |-> <<visited.broken>>, order |-> <<>>, at |-> at]
  ELSE CandidateOf(visited.row, at, q)

(* Nothing is visited when an inner table is empty or no row is asked for. *)
NothingToVisit(join) ==
  \/ EffectiveLimit(join.query) = 0 \/ join.from.rows = <<>>
  \/ \E n \in DOMAIN join.joins : /\ ~join.joins[n].outer
                                  /\ join.joins[n].table.rows = <<>>

RunJoinQuery(join) ==
  LET q == join.query
      visited == FlattenSeq([i \in DOMAIN join.from.rows |->
                               Visit(join, 1, join.from.rows[i])])
      candidates == [i \in DOMAIN visited |-> JoinCandidate(visited[i], i, q)]
  IN  CASE ~ValidJoin(join) -> {Error("Invalid")}
        [] ~CapacityFits(q) -> {Error("Refused")}
        [] NothingToVisit(join) -> {Rows(<<>>)}
        [] OTHER -> {EnforceQueryRowLimit(a, q.cap) : a \in AnswersTo(candidates, q)}
=============================================================================
