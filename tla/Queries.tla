------------------------------ MODULE Queries ------------------------------
(***************************************************************************)
(* How src/engine.rs answers a SELECT over one table: run_query, its   *)
(* grouped form, and the top-k scan that takes the place of both when a    *)
(* query orders by the distance to a constant vector.                      *)
(*                                                                         *)
(* A table is [columns, rows]: the type of each column and the sequence of *)
(* rows, each a function from columns to values.  A query is               *)
(*   [items, where, distinct, group, having, order, limit, offset, cap]    *)
(* where items are labelled expressions, order is a sequence of            *)
(* [expr, descending, nulls_first], and limit and cap (the server's limit  *)
(* on result rows) may be Unlimited.  Binding and pruning by indexes is    *)
(* not repeated here: TableStore shows that the candidates of an index are *)
(* the rows of the scan, in the scan's order.                              *)
(*                                                                         *)
(* The heaps leave open which of several equal candidates they drop, so a  *)
(* query has a set of possible answers.                                    *)
(***************************************************************************)
EXTENDS Expressions

CONSTANT UsizeMax             \* the largest row count the machine can hold

ASSUME UsizeAssumption == UsizeMax \in Nat \ {0}

Unlimited == -1
Rows(rows) == [outcome |-> "rows", rows |-> rows]
Error(why) == [outcome |-> why, rows |-> <<>>]

(* LIMIT with the server's cap: one row more than the cap is enough to     *)
(* know that the cap is exceeded.                                          *)
EffectiveLimit(q) ==
  CASE q.cap = Unlimited -> q.limit
    [] q.limit = Unlimited -> q.cap + 1
    [] OTHER -> Min({q.limit, q.cap + 1})

EnforceQueryRowLimit(answer, cap) ==
  IF cap # Unlimited /\ Len(answer.rows) > cap THEN Error("TooManyRows")
  ELSE answer

Slice(rows, offset, limit) ==
  SubSeq(rows, offset + 1,
         IF limit = Unlimited THEN Len(rows) ELSE Min({Len(rows), offset + limit}))
-----------------------------------------------------------------------------
(* Order of the values of one ORDER BY item: -1, 0 or 1.                   *)
CompareItem(a, b, item) ==
  CASE a = Null /\ b = Null -> 0
    [] a = Null -> IF item.nulls_first THEN -1 ELSE 1
    [] b = Null -> IF item.nulls_first THEN 1 ELSE -1
    [] OTHER -> (IF item.descending THEN -1 ELSE 1) * OrderOf(a, b)

(* The first item on which two candidates differ decides.                  *)
Before(c, d, order) ==
  \E i \in DOMAIN order :
    /\ CompareItem(c.order[i], d.order[i], order[i]) = -1
    /\ \A j \in 1..(i - 1) : CompareItem(c.order[j], d.order[j], order[j]) = 0

(* Every way to sort a set of candidates: ties stay open.                  *)
Sortings(candidates, order) ==
  {s \in SetToSeqs(candidates) :
     \A i, j \in DOMAIN s : Before(s[i], s[j], order) => i < j}
-----------------------------------------------------------------------------
(* CandidateSink.  Candidates are [values, order, at], at the position they *)
(* were pushed in; capacity is OFFSET plus LIMIT.                          *)
CapacityWithoutOffset(q) == EffectiveLimit(q)
Capacity(q) == IF EffectiveLimit(q) = Unlimited THEN Unlimited
               ELSE q.offset + EffectiveLimit(q)

CapacityFits(q) == Capacity(q) <= UsizeMax

TopK(q) == q.order # <<>> /\ Capacity(q) # Unlimited

IsFull(sink, q) ==
  ~TopK(q) /\ Capacity(q) # Unlimited /\ Cardinality(sink) >= Capacity(q)

(* Past its capacity a list drops what comes, and the heap gives up one of  *)
(* its greatest elements for a smaller one.                                *)
Keep(sink, c, q) ==
  CASE Capacity(q) = Unlimited \/ Cardinality(sink) < Capacity(q) -> {sink \cup {c}}
    [] ~TopK(q) -> {sink}
    [] OTHER ->
         LET greatest == {d \in sink : \A x \in sink : ~Before(d, x, q.order)}
         IN  IF \E d \in greatest : Before(c, d, q.order)
             THEN {(sink \ {d}) \cup {c} : d \in greatest}
             ELSE {sink}

(* candidates[i] is Absent for a row that WHERE drops.                     *)
Absent == [values |-> <<>>, order |-> <<>>, at |-> 0]
FailuresOf(values) == {v \in Range(values) : Failed(v)}
Failures(c) == FailuresOf(c.values) \cup FailuresOf(c.order)

(* One candidate after the other, until an expression fails or the sink is *)
(* full: it is asked after a push, so that a first candidate is evaluated  *)
(* even when no row is wanted.                                             *)
RECURSIVE Push(_, _, _, _, _)
Push(sink, seen, candidates, i, q) ==
  IF i > Len(candidates) THEN {sink}
  ELSE LET c == candidates[i]
           duplicate == q.distinct /\ c.values \in seen
           Further(kept) == IF IsFull(kept, q) THEN {kept}
                            ELSE Push(kept, seen \cup {c.values}, candidates, i + 1, q)
       IN  CASE Failures(c) # {} -> {{c}}
             [] c = Absent -> Push(sink, seen, candidates, i + 1, q)
             [] duplicate -> Further(sink)
             [] OTHER -> UNION {Further(kept) : kept \in Keep(sink, c, q)}

(* finish_candidates: sort what was kept and take the slice asked for.     *)
ValuesOf(candidates) == [i \in DOMAIN candidates |-> candidates[i].values]

InPushOrder(candidates) ==
  SetToSortSeq(candidates, LAMBDA c, d : c.at < d.at)

Finished(sink, q) ==
  LET arrangements == IF q.order = <<>> THEN {InPushOrder(sink)}
                      ELSE Sortings(sink, q.order)
  IN  {Rows(Slice(ValuesOf(s), q.offset, EffectiveLimit(q))) : s \in arrangements}
-----------------------------------------------------------------------------
Answers(sinks, q) ==
  UNION {IF \E c \in sink : Failures(c) # {}
         THEN {Error(v.type) : v \in UNION {Failures(c) : c \in sink}}
         ELSE Finished(sink, q) : sink \in sinks}

(* An ORDER BY name is a projection's label before it is a column.         *)
LabelAt(e, q) == IF e.op # "column" THEN 0
                 ELSE SelectInSeq(q.items, LAMBDA item : item.label = e.column)

ResolveOrder(e, q) == IF LabelAt(e, q) = 0 THEN e ELSE q.items[LabelAt(e, q)].expr

(* A row or a group as a candidate: dropped by its condition, failed, or   *)
(* its values and the keys it is ordered by.                               *)
OrderKey(e, keys, i, values, q) ==
  IF LabelAt(e, q) = 0 THEN keys[i] ELSE values[LabelAt(e, q)]

Candidate(passes, values, keys, at, q) ==
  CASE Failed(passes) -> [values |-> <<passes>>, order |-> <<>>, at |-> at]
    [] ~IsTrue(passes) -> Absent
    [] OTHER -> [values |-> values, at |-> at,
                 order |-> [i \in DOMAIN q.order |->
                              OrderKey(q.order[i].expr, keys, i, values, q)]]

CandidateOf(row, at, q) ==
  Candidate(Evaluate(q.where, row),
            [i \in DOMAIN q.items |-> Evaluate(q.items[i].expr, row)],
            [i \in DOMAIN q.order |-> IF LabelAt(q.order[i].expr, q) # 0 THEN Null
                                      ELSE Evaluate(q.order[i].expr, row)], at, q)

Candidates(rows, q) == [i \in DOMAIN rows |-> CandidateOf(rows[i], i, q)]

(* A mutant of AnswersTo: no candidate is looked at when no row is wanted.  *)
AnswersUnlessFull(candidates, q) ==
  Answers(IF IsFull({}, q) THEN {{}} ELSE Push({}, {}, candidates, 1, q), q)

AnswersTo(candidates, q) == Answers(Push({}, {}, candidates, 1, q), q)
PlainAnswers(rows, q) == AnswersTo(Candidates(rows, q), q)
-----------------------------------------------------------------------------
(* Grouped queries.  A group keeps the values of GROUP BY and its rows.    *)
RECURSIVE HasAggregate(_)
HasAggregate(e) ==
  e.op \in Aggregates \/ \E i \in DOMAIN e.args : HasAggregate(e.args[i])

NoHaving == Literal(Truth(TRUE))

Grouped(q) ==
  \/ q.group # <<>>
  \/ \E i \in DOMAIN q.items : HasAggregate(q.items[i].expr)
  \/ HasAggregate(q.having)

GroupValues(row, q) == [i \in DOMAIN q.group |-> Evaluate(q.group[i], row)]

AddToGroups(groups, row, values) ==
  LET at == SelectInSeq(groups, LAMBDA g : g.values = values)
  IN  IF at = 0 THEN Append(groups, [values |-> values, rows |-> <<row>>])
      ELSE [groups EXCEPT ![at].rows = Append(@, row)]

(* Groups in the order in which their first rows appear; without GROUP BY  *)
(* there is one group, of no row too.                                      *)
Groups(rows, q) ==
  FoldLeft(LAMBDA groups, row : AddToGroups(groups, row, GroupValues(row, q)),
           IF q.group = <<>> THEN <<[values |-> <<>>, rows |-> <<>>]>> ELSE <<>>,
           rows)

(* Integers are summed with checks until a float is met, then as floats.   *)
Plus(sum, v) == IF Failed(sum) THEN sum ELSE NumericBinary("+", sum, v)
Sum(values) == IF values = <<>> THEN Null
               ELSE FoldLeft(Plus, Head(values), Tail(values))

Average(values) ==
  IF values = <<>> THEN Null
  ELSE LET Mean(total) == IF Failed(total) THEN total
                          ELSE FloatResult("/", total, Float(Len(values)))
       IN  Mean(FoldLeft(Plus, Float(0), values))

(* The last value, unless another one beats it.                            *)
Extreme(values, op) ==
  LET Winner(wins, best, v) == IF Failed(wins) THEN wins
                               ELSE IF IsTrue(wins) THEN v ELSE best
      Better(best, v) == IF Failed(best) THEN best
                         ELSE Winner(Compare(op, v, best), best, v)
  IN  IF values = <<>> THEN Null
      ELSE FoldLeft(Better, Last(values), Front(values))

Distinct(values) ==
  FoldLeft(LAMBDA kept, v : IF Contains(kept, v) THEN kept ELSE Append(kept, v),
           <<>>, values)

AggregateValue(op, values) ==
  CASE op = "count" -> Whole(Len(values))
    [] op = "sum"   -> Sum(values)
    [] op = "avg"   -> Average(values)
    [] op = "min"   -> Extreme(values, "<")
    [] op = "max"   -> Extreme(values, ">")

AggregateOf(e, all) ==
  IF \E v \in Range(all) : Failed(v) THEN CHOOSE v \in Range(all) : Failed(v)
  ELSE LET present == SelectSeq(all, LAMBDA v : v # Null)
       IN  AggregateValue(e.op, IF e.distinct THEN Distinct(present) ELSE present)

EvaluateAggregate(e, rows) ==
  IF e.args = <<>> THEN Whole(Len(rows))
  ELSE AggregateOf(e, [i \in DOMAIN rows |-> Evaluate(e.args[1], rows[i])])

RECURSIVE EvaluateGroup(_, _, _)
EvaluateGroup(e, group, q) ==
  CASE Contains(q.group, e) -> group.values[SelectInSeq(q.group, LAMBDA g : g = e)]
    [] e.op \in Aggregates -> EvaluateAggregate(e, group.rows)
    [] e.op = "literal" -> e.value
    [] e.op = "column" -> Mistyped
    [] OTHER -> Combine(e, [i \in DOMAIN e.args |-> EvaluateGroup(e.args[i], group, q)])

GroupCandidate(group, at, q) ==
  Candidate(EvaluateGroup(q.having, group, q),
            [i \in DOMAIN q.items |-> EvaluateGroup(q.items[i].expr, group, q)],
            [i \in DOMAIN q.order |-> IF LabelAt(q.order[i].expr, q) # 0 THEN Null
                                      ELSE EvaluateGroup(q.order[i].expr, group, q)], at, q)

FirstOfEqual(candidates) ==
  {c \in candidates : \A d \in candidates : d.values = c.values => c.at <= d.at}

GroupAnswers(candidates, failures, q) ==
  LET all == failures \cup UNION {Failures(c) : c \in candidates}
  IN  IF all # {} THEN {Error(v.type) : v \in all}
      ELSE Finished(IF q.distinct THEN FirstOfEqual(candidates) ELSE candidates, q)

(* failures: of WHERE on all the rows; kept: those that pass.              *)
AnswersOfKept(kept, failures, q) ==
  LET groups == Groups(kept, q)
  IN  GroupAnswers({GroupCandidate(groups[i], i, q) : i \in DOMAIN groups} \ {Absent},
                   failures \cup UNION {FailuresOf(GroupValues(row, q)) : row \in Range(kept)},
                   q)

GroupedAnswers(rows, q) ==
  AnswersOfKept(SelectSeq(rows, LAMBDA row : Satisfies(row, q.where)),
                FailuresOf([i \in DOMAIN rows |-> Evaluate(q.where, rows[i])]), q)
-----------------------------------------------------------------------------
(* The top-k scan.  It serves a query that orders by the distance of one   *)
(* vector column to a constant and projects plain columns and that score.  *)
(* The dense column is scanned in squared distances, in one pass or in     *)
(* parts whose heaps are merged; the root is taken of what survives.       *)
Constant(e) == e.op = "literal" \/ (e.op = "vector" /\ \A i \in DOMAIN e.args :
                                                        e.args[i].op = "literal")

QueryVector(e) ==
  LET side == CHOOSE i \in 1..2 : Constant(e.args[i])
  IN  Evaluate(e.args[side], <<>>)

DistanceToConstant(e, columns) ==
  /\ e.op \in Distances
  /\ \E i \in 1..2 : /\ e.args[i].op = "column"
                     /\ columns[e.args[i].column].name = "Vector"
                     /\ Constant(e.args[3 - i])
  /\ QueryVector(e) # Null

Ranking(q) == ResolveOrder(q.order[1].expr, q)

VectorPlanFits(q, columns) ==
  /\ ~q.distinct /\ Len(q.order) = 1 /\ EffectiveLimit(q) # Unlimited
  /\ DistanceToConstant(Ranking(q), columns)
  /\ \A i \in DOMAIN q.items : \/ q.items[i].expr = Ranking(q)
                               \/ q.items[i].expr.op = "column"

RankingMetric(e) == IF e.op = "l2" THEN [e EXCEPT !.op = "squared_l2"] ELSE e
Materialized(e, score) ==
  IF e.op = "l2" /\ score # Null THEN Float(Root(score.data[1])) ELSE score

(* Better score first, and the earlier row of two equal ones.              *)
Nearer(c, d, q) ==
  LET order == CompareItem(c.score, d.score, q.order[1])
  IN  order = -1 \/ (order = 0 /\ c.at < d.at)

PushNearest(heap, c, q) ==
  IF Cardinality(heap) < Capacity(q) THEN heap \cup {c}
  ELSE IF \E d \in heap : Nearer(c, d, q)
       THEN (heap \cup {c}) \ {CHOOSE d \in heap : \A x \in heap \ {d} : Nearer(x, d, q)}
       ELSE heap

HeapOf(scored, q) ==
  FoldLeft(LAMBDA heap, c : PushNearest(heap, c, q), {}, scored)
Merged(left, right, q) ==
  FoldSet(LAMBDA c, heap : PushNearest(heap, c, q), left, right)

(* A row of the result: plain columns, and the score for the ranking.      *)
RankedRow(row, score, e, q) ==
  [i \in DOMAIN q.items |-> IF q.items[i].expr = e THEN Materialized(e, score)
                            ELSE row[q.items[i].expr.column]]

BestRows(heap, rows, e, q) ==
  LET best == SetToSortSeq(heap, LAMBDA c, d : Nearer(c, d, q))
  IN  Rows(Slice([i \in DOMAIN best |-> RankedRow(rows[best[i].at], best[i].score, e, q)],
                 q.offset, EffectiveLimit(q)))

(* scored: the rows that pass, with their scores, in the order of the      *)
(* table; failures: of WHERE, and of the query vector.                     *)
ScoredAnswers(scored, failures, rows, e, q) ==
  LET all == failures \cup FailuresOf([k \in DOMAIN scored |-> scored[k].score])
      Part(first, last) == HeapOf(SubSeq(scored, first, last), q)
  IN  IF all # {} THEN {Error(v.type) : v \in all}
      ELSE {BestRows(heap, rows, e, q) :
              heap \in {Part(1, Len(scored))} \cup
                       {Merged(Part(1, k), Part(k + 1, Len(scored)), q) : k \in DOMAIN scored}}

RankingScore(row, at, e) == [at |-> at, score |-> Evaluate(RankingMetric(e), row)]

VectorAnswers(rows, q) ==
  LET e == Ranking(q)
      kept == SelectSeq([i \in DOMAIN rows |-> i], LAMBDA i : Satisfies(rows[i], q.where))
  IN  ScoredAnswers([k \in DOMAIN kept |-> RankingScore(rows[kept[k]], kept[k], e)],
                    FailuresOf([i \in DOMAIN rows |-> Evaluate(q.where, rows[i])])
                      \cup FailuresOf(<<QueryVector(e)>>),
                    rows, e, q)
-----------------------------------------------------------------------------
(* What is refused before a row is read.  In a grouped query a column      *)
(* stands in GROUP BY or in an aggregate.                                  *)
RECURSIVE GroupExpression(_, _)
GroupExpression(e, q) ==
  \/ Contains(q.group, e) \/ e.op = "literal"
  \/ e.op \in Aggregates /\ \A i \in DOMAIN e.args : ~HasAggregate(e.args[i])
  \/ /\ e.op \notin Aggregates \cup {"column", "literal", "l2", "squared_l2",
                                     "vector_dims", "vector_norm", "normalize"}
     /\ \A i \in DOMAIN e.args : GroupExpression(e.args[i], q)

Valid(q, columns) ==
  LET Typed(e) == TypeOf(e, columns) # Untyped
      Boolean(e) == IsA(TypeOf(e, columns), {"Boolean"})
  IN  /\ Boolean(q.where) /\ ~HasAggregate(q.where)
      /\ Boolean(q.having) /\ (Grouped(q) \/ q.having = NoHaving)
      /\ \A i \in DOMAIN q.group : Typed(q.group[i]) /\ ~HasAggregate(q.group[i])
      /\ \A i \in DOMAIN q.items :
           /\ Typed(q.items[i].expr)
           /\ Grouped(q) => GroupExpression(q.items[i].expr, q)
      /\ \A i \in DOMAIN q.order :
           /\ SortableScalar(TypeOf(ResolveOrder(q.order[i].expr, q), columns))
           /\ Grouped(q) /\ LabelAt(q.order[i].expr, q) = 0
                => GroupExpression(q.order[i].expr, q)
      /\ Grouped(q) => GroupExpression(q.having, q)

RunQuery(table, q) ==
  LET answers ==
        CASE ~Valid(q, table.columns) -> {Error("Invalid")}
          [] Grouped(q) ->
               IF q.order # <<>> /\ ~CapacityFits(q) THEN {Error("Refused")}
               ELSE GroupedAnswers(table.rows, q)
          [] ~CapacityFits(q) -> {Error("Refused")}
          [] VectorPlanFits(q, table.columns) -> VectorAnswers(table.rows, q)
          [] OTHER -> PlainAnswers(table.rows, q)
  IN  {EnforceQueryRowLimit(a, q.cap) : a \in answers}
=============================================================================
