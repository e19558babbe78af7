------------------------------ MODULE SqlReads -----------------------------
(***************************************************************************)
(* Expressions, queries and joins: what the engine answers, and what SQL   *)
(* says it should.  The modules extended here hold the algorithms; the     *)
(* reference definitions below are written from the meaning of a request   *)
(* and share none of their order of work.                                  *)
(***************************************************************************)
EXTENDS Requests, Joins

(* The requests to answer, records with a kind.                            *)
CONSTANTS ExpressionRequests, QueryRequests, JoinRequests, ChainRequests

SqlInit ==
  /\ answer = Pending
  /\ \/ request \in ExpressionRequests
     \/ request \in QueryRequests
     \/ request \in JoinRequests \/ request \in ChainRequests

EvaluateExpression ==
  /\ Asked("expression")
  /\ answer' = Evaluate(request.expr, request.row)

Select ==
  /\ Asked("query")
  /\ answer' \in RunQuery(request.table, request.query)

SelectJoin ==
  /\ Asked("join")
  /\ answer' \in RunJoinQuery(request.join)
-----------------------------------------------------------------------------
(* The type an expression is given before any row is read is the type of   *)
(* its value on every row, or the value is NULL, or the data are refused:  *)
(* an expression that was accepted never meets a value its operators do    *)
(* not take (engine.rs:3881 against engine.rs:4951).                       *)
TypesAreSound ==
  IsAnswered("expression") =>
    LET type == TypeOf(request.expr, request.columns)
    IN  type # Untyped => answer = Refused \/ OfType(answer, type)
-----------------------------------------------------------------------------
(* What may stand at position k of the answer: rank says how many          *)
(* candidates come strictly before a candidate and how many may.           *)
StandsAt(c, k, candidates, First(_, _)) ==
  /\ Cardinality({d \in candidates : First(d, c)}) < k
  /\ Cardinality({d \in candidates : ~First(c, d)}) >= k

(* The rows of an answer are the slice that OFFSET and LIMIT take of some  *)
(* order of the candidates that First allows.                              *)
SliceOf(candidates, rows, q, First(_, _)) ==
  \E pick \in [DOMAIN rows -> candidates] :
    /\ IsInjective(pick)
    /\ \A k \in DOMAIN rows :
         /\ pick[k].values = rows[k]
         /\ StandsAt(pick[k], q.offset + k, candidates, First)
         /\ \A j \in 1..(k - 1) : ~First(pick[k], pick[j])

Asks(candidates, q) ==
  LET left == Cardinality(candidates) - q.offset
      most == IF q.limit = Unlimited THEN left ELSE Min({left, q.limit})
  IN  IF most < 0 THEN 0 ELSE most

(* The answer to a query whose rows, after WHERE, GROUP BY, HAVING and     *)
(* DISTINCT, are the candidates, when no row's data are refused.           *)
RightAnswer(a, candidates, q, First(_, _)) ==
  CASE a.outcome = "rows" ->
         /\ Len(a.rows) = Asks(candidates, q)
         /\ q.cap = Unlimited \/ Len(a.rows) <= q.cap
         /\ SliceOf(candidates, a.rows, q, First)
    [] a.outcome = "TooManyRows" ->
         q.cap # Unlimited /\ Asks(candidates, q) > q.cap
    [] OTHER -> FALSE

Deduplicated(candidates, q) ==
  IF q.distinct THEN FirstOfEqual(candidates) ELSE candidates

(* One candidate for each value GROUP BY takes on the rows that pass, or   *)
(* one for all of them.                                                    *)
GroupCandidates(rows, q) ==
  LET kept == SelectSeq([i \in DOMAIN rows |-> [at |-> i, row |-> rows[i]]],
                        LAMBDA k : Satisfies(k.row, q.where))
      keys == IF q.group = <<>> THEN {<<>>}
              ELSE {GroupValues(k.row, q) : k \in Range(kept)}
      Members(key) == SelectSeq(kept, LAMBDA k : GroupValues(k.row, q) = key)
      Group(key, members) ==
        GroupCandidate([values |-> key, rows |-> [i \in DOMAIN members |-> members[i].row]],
                       IF members = <<>> THEN 1 ELSE members[1].at, q)
  IN  {Group(key, Members(key)) : key \in keys}

(* The row that ends a scan without ORDER BY is the one that completes     *)
(* OFFSET and LIMIT, or the cap and one more, and the first candidate at   *)
(* the earliest.  A row is reached when none before it ends the scan.      *)
Wanted(q) ==
  q.offset + (IF q.cap = Unlimited \/ q.limit \in 0..q.cap THEN q.limit ELSE q.cap + 1)

Scanned(n, rows, q) ==
  LET before == {CandidateOf(rows[i], i, q) : i \in 1..(n - 1)} \ {Absent}
  IN  \/ q.order # <<>> \/ (q.limit = Unlimited /\ q.cap = Unlimited)
      \/ before = {}
      \/ Cardinality(Deduplicated(before, q)) < Wanted(q)

(* What a query cannot be answered for: a row it must look at has data     *)
(* that WHERE, a projection or ORDER BY refuses.  A grouped query looks at *)
(* all rows, with WHERE and GROUP BY, and at all groups.                   *)
MustFail(rows, q) ==
  IF Grouped(q)
  THEN \/ \E i \in DOMAIN rows :
            \/ Failed(Evaluate(q.where, rows[i]))
            \/ Satisfies(rows[i], q.where) /\ FailuresOf(GroupValues(rows[i], q)) # {}
       \/ \E c \in GroupCandidates(rows, q) : Failures(c) # {}
  ELSE \E i \in DOMAIN rows :
         Scanned(i, rows, q) /\ Failures(CandidateOf(rows[i], i, q)) # {}

TooLarge(q) ==
  /\ q.order # <<>> \/ ~Grouped(q)
  /\ q.limit # Unlimited \/ q.cap # Unlimited
  /\ Wanted(q) > UsizeMax

(* A SELECT answers with the rows SQL gives it, whichever of the sink, the *)
(* heap, the groups or the top-k scan computed them; it is refused exactly *)
(* when the data of a row it must look at are, or OFFSET plus LIMIT is too *)
(* large, wherever the scan stops; and for too many rows exactly when      *)
(* there are more than the cap (engine.rs:2498 to 2777, 4378 to 4655).     *)
QueryIsReference ==
  IsAnswered("query") =>
    LET q == request.query
        rows == request.table.rows
        Earlier(c, d) == \/ Before(c, d, q.order)
                         \/ q.order = <<>> /\ ~Grouped(q) /\ c.at < d.at
        Sound(all) == {c \in all \ {Absent} : Failures(c) = {}}
        candidates == Sound(IF Grouped(q) THEN GroupCandidates(rows, q)
                            ELSE {CandidateOf(rows[i], i, q) : i \in DOMAIN rows})
    IN  CASE answer.outcome = "Invalid" -> ~Valid(q, request.table.columns)
          [] answer.outcome = "Refused" -> MustFail(rows, q) \/ TooLarge(q)
          [] OTHER -> /\ ~MustFail(rows, q) /\ ~TooLarge(q)
                      /\ RightAnswer(answer, Deduplicated(candidates, q), q, Earlier)
-----------------------------------------------------------------------------
(* The joined rows by definition: every pair the ON is true of, and every  *)
(* row of an outer join's left side that has no such pair, with NULLs.     *)
RECURSIVE Product(_, _)
Product(join, n) ==
  IF n = 0 THEN {[at |-> <<i>>, row |-> join.from.rows[i]] : i \in DOMAIN join.from.rows}
  ELSE LET left == Product(join, n - 1)
           table == join.joins[n].table
           Pairs(l) == {[at |-> Append(l.at, i), row |-> l.row @@ table.rows[i]] :
                          i \in {k \in DOMAIN table.rows :
                                   Satisfies(l.row @@ table.rows[k], join.joins[n].on)}}
           Alone(l) == {[at |-> Append(l.at, 0), row |-> l.row @@ NullRow(table)]}
       IN  UNION {IF Pairs(l) = {} /\ join.joins[n].outer THEN Alone(l) ELSE Pairs(l) :
                    l \in left}

OnMayFail(join) ==
  \E n \in DOMAIN join.joins : \E l \in Product(join, n - 1) :
    \E i \in DOMAIN join.joins[n].table.rows :
      Failed(Evaluate(join.joins[n].on, l.row @@ join.joins[n].table.rows[i]))

(* A join answers with the rows of the nested loop over its tables: the    *)
(* keys it hashes by lose no pair, and an outer row appears alone exactly  *)
(* when no pair satisfies its whole ON (join.rs:304, 437, 480).            *)
JoinIsReference ==
  IsAnswered("join") =>
    LET q == request.join.query
        Once(candidates) == {c \in candidates :
                               c = CHOOSE d \in candidates : d.values = c.values}
        Earlier(c, d) == Before(c, d, q.order)
        Right(candidates) ==
          RightAnswer(answer, IF q.distinct THEN Once(candidates) ELSE candidates, q, Earlier)
        Sound(all) ==
          IF answer.outcome = "Refused"
          THEN OnMayFail(request.join) \/ ~CapacityFits(q) \/ \E c \in all : Failures(c) # {}
          ELSE Right({c \in all : Failures(c) = {}})
    IN  answer.outcome # "Invalid" =>
          Sound({CandidateOf(p.row, p.at, q) :
                   p \in Product(request.join, Len(request.join.joins))} \ {Absent})
=============================================================================
